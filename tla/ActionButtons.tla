----------------------------- MODULE ActionButtons -----------------------------
(***************************************************************************)
(* The lifecycle buttons of one deployment's page: the bar (DeployActions)  *)
(* and the releases grid with its Rollback (ReleasesGrid), against the row   *)
(* they poll and the queue of jobs that moves it.                            *)
(*                                                                           *)
(* The request is answered 202 long before the work is done, so each of the   *)
(* two keeps a spinner of its own: it remembers the updatedAt it saw when it    *)
(* was clicked and stops once another one arrives with a settled state.          *)
(***************************************************************************)
EXTENDS Naturals, Sequences, SequencesExt

CONSTANTS
  MaxClicks,  \* bound: buttons used in this tab
  MaxOthers   \* bound: writes to the row by anyone else, crashes, remounts

VARIABLES
  row,      \* deployments row: state, updatedAt, whether a release is active
  queue,    \* jobs of the deployment, the first one running
  view,     \* the row as the page last got it
  fetch,    \* the poll under way, and the row it was answered with
  pending,  \* pendingKey and pendingBase of the bar, pendingRollbackId of the grid
  call,     \* the request each of the two waits for
  clicks, others,
  disturbed \* something else wrote the row, or a spinner was lost, since the page was quiet

vars == <<row, queue, view, fetch, pending, call, clicks, others, disturbed>>

Parts == {"bar", "grid"}
NoSpinner == [key |-> "none", base |-> 0]
NoCall == [at |-> "idle", key |-> "none"]
Settled == {"RUNNING", "STOPPED", "DEGRADED", "ERROR"}
Kinds == {"deploy", "restart", "stop", "start", "rollback"}

Row == [state : Settled \cup {"DEPLOYING"}, updatedAt : Nat, release : BOOLEAN]

TypeOK ==
  /\ row \in Row /\ view \in Row
  /\ \A i \in DOMAIN queue : queue[i] \in [kind : Kinds, by : Parts \cup {"other"}]
  /\ fetch.at \in {"idle", "asked", "read"} /\ fetch.row \in Row
  /\ pending \in [Parts -> [key : Kinds \cup {"none"}, base : Nat]]
  /\ call \in [Parts -> [at : {"idle", "sent", "marked", "queued", "refused"}, key : Kinds \cup {"none"}]]
  /\ clicks \in 0..MaxClicks /\ others \in 0..MaxOthers /\ disturbed \in BOOLEAN

Init ==
  /\ row \in [state : Settled, updatedAt : {0}, release : BOOLEAN]
  /\ row.state /= "ERROR" => row.release
  /\ queue = <<>> /\ view = row
  /\ fetch = [at |-> "idle", row |-> row]
  /\ pending = [p \in Parts |-> NoSpinner] /\ call = [p \in Parts |-> NoCall]
  /\ clicks = 0 /\ others = 0 /\ disturbed = FALSE

Spinning(p) == pending[p].key /= "none"
Mine(p) == \E i \in DOMAIN queue : queue[i].by = p
Written(state) == [row EXCEPT !.state = state, !.updatedAt = @ + 1]
Ask == [at |-> "asked", row |-> view]

-----------------------------------------------------------------------------
(* The page. *)

(* lifecycleBusy and rollbackBusy: each part knows its own spinner only.     *)
Busy(p) == Spinning(p) \/ view.state = "DEPLOYING"

(* Which buttons there are, by the state the page shows.                     *)
Offered(p) ==
  IF p = "grid" THEN IF view.release THEN {"rollback"} ELSE {}
  ELSE {"deploy"} \cup
       (IF view.state \in {"RUNNING", "DEPLOYING", "DEGRADED"} THEN {"restart", "stop"}
        ELSE IF view.release THEN {"start"} ELSE {})

(* trigger, onRollback.  One request of a part at a time is a bound.          *)
Click(p, key) ==
  /\ clicks < MaxClicks /\ clicks' = clicks + 1
  /\ ~Busy(p) /\ key \in Offered(p) /\ call[p] = NoCall
  /\ pending' = [pending EXCEPT ![p] = [key |-> key, base |-> view.updatedAt]]
  /\ call' = [call EXCEPT ![p] = [at |-> "sent", key |-> key]]
  /\ disturbed' = (disturbed \/ \E q \in Parts \ {p} : Spinning(q))
  /\ UNCHANGED <<row, queue, view, fetch, others>>

(* Mutant: any newer row stops the spinner. *)
StopsAtAnyChange(spinner, seen) == seen.updatedAt /= spinner.base
(* Mutant: only the state is looked at. *)
StopsAtNewState(spinner, seen) == seen.state \notin {"DEPLOYING", view.state}
(* The effect of both parts: updatedAt moved and the state is no transition.  *)
Landed(spinner, seen) == seen.updatedAt /= spinner.base /\ seen.state /= "DEPLOYING"

Poll ==
  /\ fetch.at = "idle" /\ fetch' = Ask
  /\ UNCHANGED <<row, queue, view, pending, call, clicks, others, disturbed>>

ServerReads ==
  /\ fetch.at = "asked" /\ fetch' = [at |-> "read", row |-> row]
  /\ UNCHANGED <<row, queue, view, pending, call, clicks, others, disturbed>>

FetchAnswered ==
  /\ fetch.at = "read" /\ fetch' = [fetch EXCEPT !.at = "idle"]
  /\ view' = fetch.row
  /\ pending' = [p \in Parts |-> IF Spinning(p) /\ Landed(pending[p], fetch.row)
                                 THEN NoSpinner ELSE pending[p]]
  /\ UNCHANGED <<row, queue, call, clicks, others, disturbed>>

(* The answer: on success the queries are invalidated and read again, on an   *)
(* error the spinner stops.                                                  *)
Answered(p) ==
  /\ call[p].at \in {"queued", "refused"}
  /\ call' = [call EXCEPT ![p] = NoCall]
  /\ IF call[p].at = "queued" THEN fetch' = Ask /\ UNCHANGED pending
     ELSE pending' = [pending EXCEPT ![p] = NoSpinner] /\ UNCHANGED fetch
  /\ UNCHANGED <<row, queue, view, clicks, others, disturbed>>

(* The page is left and opened again: its spinners are component state.      *)
Remount ==
  /\ others < MaxOthers /\ others' = others + 1
  /\ pending' = [p \in Parts |-> NoSpinner]
  /\ disturbed' = TRUE
  /\ UNCHANGED <<row, queue, view, fetch, call, clicks>>

-----------------------------------------------------------------------------
(* The backend. *)

(* deploy, start, restart and rollback write DEPLOYING and then queue the     *)
(* job; start and restart are refused without an active release.             *)
Mark(p) ==
  /\ call[p].at = "sent" /\ call[p].key /= "stop"
  /\ IF call[p].key \in {"start", "restart"} /\ ~row.release
     THEN call' = [call EXCEPT ![p].at = "refused"] /\ UNCHANGED row
     ELSE call' = [call EXCEPT ![p].at = "marked"] /\ row' = Written("DEPLOYING")
  /\ UNCHANGED <<queue, view, fetch, pending, clicks, others, disturbed>>

Enqueue(p) ==
  /\ call[p].at = "marked" \/ call[p] = [at |-> "sent", key |-> "stop"]
  /\ call' = [call EXCEPT ![p].at = "queued"]
  /\ queue' = Append(queue, [kind |-> call[p].key, by |-> p])
  /\ UNCHANGED <<row, view, fetch, pending, clicks, others, disturbed>>

(* A job ends: runStop, or one of the launches; markActionFailed otherwise.   *)
JobEnds ==
  /\ queue /= <<>> /\ queue' = Tail(queue)
  /\ \E state \in {IF Head(queue).kind = "stop" THEN "STOPPED" ELSE "RUNNING", "DEGRADED", "ERROR"} :
       row' = [Written(state) EXCEPT !.release = @ \/ (Head(queue).kind = "deploy" /\ state = "RUNNING")]
  /\ UNCHANGED <<view, fetch, pending, call, clicks, others, disturbed>>

(* Someone renames the deployment or saves a setting of it.                  *)
OtherSaves ==
  /\ others < MaxOthers /\ others' = others + 1
  /\ row' = Written(row.state) /\ disturbed' = TRUE
  /\ UNCHANGED <<queue, view, fetch, pending, call, clicks>>

(* A push, or another user.                                                  *)
OtherDeploys ==
  /\ others < MaxOthers /\ others' = others + 1
  /\ row' = Written("DEPLOYING") /\ queue' = Append(queue, [kind |-> "deploy", by |-> "other"])
  /\ disturbed' = TRUE
  /\ UNCHANGED <<view, fetch, pending, call, clicks>>

(* Everything of this tab and its jobs is over.                              *)
Quiet == queue = <<>> /\ \A p \in Parts : ~Spinning(p) /\ call[p] = NoCall
Forget ==
  /\ disturbed /\ Quiet /\ view = row /\ fetch.at = "idle"
  /\ disturbed' = FALSE
  /\ UNCHANGED <<row, queue, view, fetch, pending, call, clicks, others>>

Next ==
  \/ \E p \in Parts : Mark(p) \/ Enqueue(p) \/ Answered(p)
  \/ \E p \in Parts : \E key \in Offered(p) : Click(p, key)
  \/ Poll \/ ServerReads \/ FetchAnswered \/ Remount
  \/ JobEnds \/ OtherSaves \/ OtherDeploys \/ Forget

(* Requests are served, jobs end (each has a timeout), the page polls.        *)
Fairness ==
  /\ \A p \in Parts : WF_vars(Mark(p)) /\ WF_vars(Enqueue(p)) /\ WF_vars(Answered(p))
  /\ WF_vars(Poll) /\ WF_vars(ServerReads) /\ WF_vars(FetchAnswered) /\ WF_vars(JobEnds)

Spec == Init /\ [][Next]_vars
FairSpec == Spec /\ Fairness

-----------------------------------------------------------------------------
(* When only this part of the page acts on the deployment, its spinner stops  *)
(* no sooner than the job it queued has ended, whatever states the row went    *)
(* through and whenever the polls were answered.                               *)
SpinnerCoversJob ==
  ~disturbed => \A p \in Parts : Mine(p) \/ call[p].at \in {"sent", "marked"} => Spinning(p)

ButtonsInv == TypeOK /\ SpinnerCoversJob

(* A spinner stops: every job writes the row when it ends.                     *)
SpinnersStop == \A p \in Parts : Spinning(p) ~> ~Spinning(p)

(* What the comment on the effect says: the spinner stops once the action has  *)
(* landed.  Violated: any other write of the row stops it as well.              *)
StopsWhenLanded ==
  [][\A p \in Parts : Spinning(p) /\ ~Spinning(p)' /\ call[p] = NoCall /\ pending'[p] = NoSpinner
       /\ view' /= view => ~Mine(p)]_vars
=============================================================================
