---------------------------- MODULE RuntimeFollow ----------------------------
(***************************************************************************)
(* RuntimeLogCollector: the follows of one deployment's containers, all of    *)
(* one service and so of one durable key.  The 30 s sweep (resync and           *)
(* recoverStalledFollows) and the sync a deploy or the boot asks for run             *)
(* beside each other and await Docker between their steps; a stop job forgets        *)
(* the follows before it removes the containers; a deploy runs two containers        *)
(* side by side.                                                                     *)
(*                                                                                 *)
(* Lines are numbered as they are produced, and carry the millisecond of Docker's    *)
(* timestamp: several lines may share one, and Sec milliseconds make the second       *)
(* that `since' is rounded down to.  Of the stored stream the module keeps how often   *)
(* each line is in the buffer and which lines the file has.                             *)
(***************************************************************************)
EXTENDS Naturals, Sequences, FiniteSets

CONSTANTS
  Containers, \* containers, in the order they are created
  First,      \* the one that runs at the beginning
  Streams,    \* names of log connections
  Tail200,    \* lines a first attach replays (tail: 200)
  Sec,        \* milliseconds of a second
  MaxLines,   \* bound: lines produced
  MaxRare     \* bound: how many of Rare happen, each at most once

None == "none"

ASSUME FollowAssumption ==
  /\ First \in Containers /\ Streams # {} /\ None \notin Streams
  /\ Tail200 \in Nat \ {0} /\ Sec \in Nat \ {0} /\ MaxLines \in Nat /\ MaxRare \in Nat

VARIABLES
  con,     \* container: "new", "running", "gone"
  log,     \* per container, the lines Docker keeps
  stamp,   \* millisecond of each line
  stream,  \* log connections
  follow,  \* follows: the connection registered for a container, or None
  mark,    \* watermarks: last collected millisecond of the key; 0 when there is none
  frozen,  \* stalled: viewers are shown that the log is frozen
  copies,  \* how often each line is in the buffer
  file,    \* lines in the durable file
  sync,    \* the two callers of syncDeployment
  job,     \* the deploy or stop job of the deployment
  state,   \* deployments.state: RUNNING stands for the states that are followed
  rare     \* which of the rare events happened

vars == <<con, log, stamp, stream, follow, mark, frozen, copies, file, sync, job, state, rare>>
docker == <<con, log, stamp>>
store == <<copies, file>>
jobs == <<job, state>>

Rare == {"overlap", "stop", "restart", "deploy", "drop", "stall", "refused"}
Syncers == {"sweep", "asked"}
Lines == 1..MaxLines
Closed == [con |-> None, at |-> "closed", next |-> 0, skip |-> FALSE, since |-> 0]
Resting == [at |-> "idle", con |-> None, rest |-> {}, since |-> 0]
Asking(cs) == IF cs = {} THEN Resting ELSE [Resting EXCEPT !.at = "asking", !.rest = cs]

TypeOK ==
  /\ con \in [Containers -> {"new", "running", "gone"}]
  /\ log \in [Containers -> Seq(Lines)] /\ stamp \in Seq(Nat)
  /\ stream \in [Streams -> [con : Containers \cup {None}, at : {"closed", "open", "stalled"},
                             next : 0..(MaxLines + 1), skip : BOOLEAN, since : Nat]]
  /\ follow \in [Containers -> Streams \cup {None}]
  /\ mark \in Nat /\ frozen \in BOOLEAN
  /\ copies \in [Lines -> Nat] /\ file \subseteq Lines
  /\ sync \in [Syncers -> [at : {"idle", "listing", "listed", "syncing", "asking", "rejoining"},
                           con : Containers \cup {None}, rest : SUBSET Containers, since : Nat]]
  /\ job \in {"idle", "launched", "swapped", "stopping"} /\ state \in {"RUNNING", "STOPPED"}
  /\ rare \subseteq Rare

Init ==
  /\ con = [c \in Containers |-> IF c = First THEN "running" ELSE "new"]
  /\ log = [c \in Containers |-> <<>>] /\ stamp = <<>>
  /\ stream = [s \in Streams |-> Closed] /\ follow = [c \in Containers |-> None]
  /\ mark = 0 /\ frozen = FALSE
  /\ copies = [n \in Lines |-> 0] /\ file = {}
  /\ sync = [p \in Syncers |-> Resting]
  /\ job = "idle" /\ state = "RUNNING" /\ rare = {}

Rarely(e) ==
  /\ e \notin rare /\ Cardinality(rare) < MaxRare
  /\ rare' = rare \cup {e}

Running == {c \in Containers : con[c] = "running"}
Followed == {c \in Containers : follow[c] # None}

-----------------------------------------------------------------------------
(* Docker. *)

(* A container writes a line, in the millisecond of the last one or in the next. *)
Produce(c) ==
  LET n == Len(stamp) + 1 IN
  /\ con[c] = "running" /\ n <= MaxLines
  /\ \E later \in {0, 1} : stamp' = Append(stamp, (IF n = 1 THEN 1 ELSE stamp[n - 1]) + later)
  /\ log' = [log EXCEPT ![c] = Append(@, n)]
  /\ UNCHANGED <<con, stream, follow, mark, frozen, store, sync, jobs, rare>>

(* The line a log connection begins with: `since' has the precision of a second. *)
StartOf(c, since) ==
  IF since = 0
  THEN IF Len(log[c]) < Tail200 THEN 1 ELSE Len(log[c]) - Tail200 + 1
  ELSE Cardinality({i \in 1..Len(log[c]) : stamp[log[c][i]] \div Sec < since \div Sec}) + 1

(* Mutant: a line at the watermark is taken to be new. *)
IsOldExclusive(s, n) == stream[s].skip /\ stamp[n] < stream[s].since

(* Lines a resumed connection repeats. *)
IsOld(s, n) == stream[s].skip /\ stamp[n] <= stream[s].since

(* The "data" listener: the next line of a connection.  The file is rewritten from the buffer; that  *)
(* this is debounced is modelled in LogStream. *)
Deliver(s) ==
  LET me == stream[s]
      n == log[me.con][me.next] IN
  /\ me.at = "open" /\ me.next <= Len(log[me.con])
  /\ frozen' = FALSE
  /\ IF IsOld(s, n)
     THEN stream' = [stream EXCEPT ![s].next = @ + 1] /\ UNCHANGED <<mark, copies>>
     ELSE /\ stream' = [stream EXCEPT ![s].next = @ + 1, ![s].skip = FALSE]
          /\ mark' = stamp[n] /\ copies' = [copies EXCEPT ![n] = @ + 1]
  /\ file' = IF copies' = copies THEN file ELSE {m \in Lines : copies'[m] > 0}
  /\ UNCHANGED <<docker, follow, sync, jobs, rare>>

(* Mutant: the end of a connection is not noticed. *)
EndUnnoticed(s) ==
  /\ stream[s].at # "closed"
  /\ IF con[stream[s].con] = "running" THEN Rarely("drop") ELSE UNCHANGED rare
  /\ stream' = [stream EXCEPT ![s] = Closed]
  /\ UNCHANGED <<docker, follow, mark, frozen, store, sync, jobs>>

(* The connection ends, because the container is gone or the network dropped it: whatever follow *)
(* is registered under that container is forgotten. *)
End(s) ==
  /\ stream[s].at # "closed"
  /\ IF con[stream[s].con] = "running" THEN Rarely("drop") ELSE UNCHANGED rare
  /\ stream' = [stream EXCEPT ![s] = Closed]
  /\ follow' = [follow EXCEPT ![stream[s].con] = None]
  /\ UNCHANGED <<docker, mark, frozen, store, sync, jobs>>

(* The connection looks alive and delivers nothing any more. *)
Stall(s) ==
  /\ stream[s].at = "open" /\ Rarely("stall")
  /\ stream' = [stream EXCEPT ![s].at = "stalled"]
  /\ UNCHANGED <<docker, follow, mark, frozen, store, sync, jobs>>

-----------------------------------------------------------------------------
(* syncDeployment and the sweep. *)

(* detach, for a set of containers: connections are destroyed, which does not call "end". *)
Detached(cs) == [s \in Streams |-> IF \E c \in cs : follow[c] = s THEN Closed ELSE stream[s]]
Forgotten(cs) == [c \in Containers |-> IF c \in cs THEN None ELSE follow[c]]

(* How the loop of syncDeployment goes on: with a container that has no follow by now, for which *)
(* the watermark is read; after the last one the sweep turns to the idle follows, and the other   *)
(* caller is done.  Idle is a follow that is stalled or has delivered all there was: sweeps are    *)
(* taken to come STALE_AFTER_MS apart. *)
Idle == {c \in Followed : LET s == stream[follow[c]] IN s.at = "stalled" \/ s.next > Len(log[c])}

AfterSync(p, rest, open, idle) ==
  IF open # {} THEN {[at |-> "syncing", con |-> c, rest |-> rest \ {c}, since |-> mark] : c \in open}
  ELSE {IF p = "asked" THEN Resting ELSE Asking(idle)}

(* The interval fires, or a job asks.  Nothing keeps one from starting beside the other. *)
Begin(p) ==
  /\ sync[p].at = "idle" /\ state = "RUNNING"
  /\ IF \E q \in Syncers \ {p} : sync[q].at # "idle" THEN Rarely("overlap") ELSE UNCHANGED rare
  /\ sync' = [sync EXCEPT ![p].at = "listing"]

Sweep == Begin("sweep") /\ UNCHANGED <<docker, stream, follow, mark, frozen, store, jobs>>

Goes(p, tos) == \E to \in tos : sync' = [sync EXCEPT ![p] = to]

(* Docker lists the running containers, or refuses. *)
List(p) ==
  /\ sync[p].at = "listing"
  /\ \/ Goes(p, {[sync[p] EXCEPT !.at = "listed", !.rest = Running]}) /\ UNCHANGED rare
     \/ Rarely("refused") /\ Goes(p, AfterSync(p, {}, {}, Idle))
  /\ UNCHANGED <<docker, stream, follow, mark, frozen, store, jobs>>

(* Follows of containers that are not in the list are detached, and the first attach begins. *)
Listed(p) ==
  LET vanished == Followed \ sync[p].rest IN
  /\ sync[p].at = "listed"
  /\ stream' = Detached(vanished) /\ follow' = Forgotten(vanished)
  /\ Goes(p, AfterSync(p, sync[p].rest, sync[p].rest \ Followed, Idle \ vanished))
  /\ UNCHANGED <<docker, mark, frozen, store, jobs, rare>>

(* attach after its await: Docker has opened the connection, which is registered under the       *)
(* container's id whatever is there by now; a refused one is logged. *)
Attached(p) ==
  LET me == sync[p]
      open == me.rest \ (Followed \cup {me.con}) IN
  /\ me.at \in {"syncing", "rejoining"}
  /\ \/ /\ con[me.con] = "running" /\ \E s \in Streams : stream[s].at = "closed"
        /\ \E s \in Streams :
             /\ s = CHOOSE t \in Streams : stream[t].at = "closed"
             /\ stream' = [stream EXCEPT ![s] = [con |-> me.con, at |-> "open", since |-> me.since,
                                                 next |-> StartOf(me.con, me.since), skip |-> me.since # 0]]
             /\ follow' = [follow EXCEPT ![me.con] = s]
        /\ UNCHANGED rare
     \/ /\ IF con[me.con] = "running" THEN Rarely("refused") ELSE UNCHANGED rare
        /\ UNCHANGED <<stream, follow>>
  /\ Goes(p, IF me.at = "syncing" THEN AfterSync(p, me.rest, open, Idle \ {me.con}) ELSE {Asking(me.rest)})
  /\ UNCHANGED <<docker, mark, frozen, store, jobs>>

(* The next idle follow: Docker tells the time of the container's last line.  If that is newer    *)
(* than the watermark the follow is dead: it is detached and attached again. *)
Ask ==
  LET me == sync["sweep"] IN
  /\ me.at = "asking"
  /\ \E c \in me.rest :
       LET last == IF con[c] = "gone" \/ log[c] = <<>> THEN 0 ELSE stamp[log[c][Len(log[c])]]
           left == me.rest \ {c} IN
       IF last > mark
       THEN /\ frozen' = TRUE /\ stream' = Detached({c}) /\ follow' = Forgotten({c})
            /\ Goes("sweep", {[at |-> "rejoining", con |-> c, rest |-> left, since |-> mark]})
       ELSE Goes("sweep", {Asking(left)}) /\ UNCHANGED <<stream, follow, frozen>>
  /\ UNCHANGED <<docker, mark, store, jobs, rare>>

-----------------------------------------------------------------------------
(* Jobs of the deployment, and the process. *)

(* A deploy starts the new container beside the old one ... *)
Launch(c) ==
  /\ job = "idle" /\ con[c] = "new" /\ state = "RUNNING" /\ Rarely("deploy")
  /\ con' = [con EXCEPT ![c] = "running"] /\ job' = "launched"
  /\ UNCHANGED <<log, stamp, stream, follow, mark, frozen, store, sync, state>>

(* ... removes the old one when the new one is healthy ... *)
RemoveStale(c) ==
  /\ job = "launched" /\ con[c] = "running" /\ c = First
  /\ con' = [con EXCEPT ![c] = "gone"] /\ job' = "swapped"
  /\ UNCHANGED <<log, stamp, stream, follow, mark, frozen, store, sync, state, rare>>

(* ... and asks for a sync. *)
SyncAfterDeploy ==
  /\ job = "swapped" /\ job' = "idle" /\ Begin("asked")
  /\ UNCHANGED <<docker, stream, follow, mark, frozen, store, state>>

(* runStop begins with stopDeployment: follows and watermark are dropped. *)
StopFollows ==
  /\ job = "idle" /\ state = "RUNNING" /\ Rarely("stop")
  /\ job' = "stopping"
  /\ stream' = Detached(Followed) /\ follow' = Forgotten(Followed)
  /\ mark' = 0 /\ frozen' = FALSE
  /\ UNCHANGED <<docker, store, sync, state>>

(* The containers are removed and STOPPED is written. *)
StopContainers ==
  /\ job = "stopping" /\ job' = "idle"
  /\ con' = [c \in Containers |-> IF con[c] = "running" THEN "gone" ELSE con[c]]
  /\ state' = "STOPPED"
  /\ UNCHANGED <<log, stamp, stream, follow, mark, frozen, store, sync, rare>>

(* The backend restarts: all it knows is lost but the file, and boot syncs a deployment that has  *)
(* containers.  A deploy that was under way is lost with it. *)
Restart ==
  /\ Rarely("restart") /\ job = "idle"
  /\ stream' = [s \in Streams |-> Closed] /\ follow' = [c \in Containers |-> None]
  /\ mark' = 0 /\ frozen' = FALSE /\ copies' = [n \in Lines |-> 0]
  /\ sync' = [p \in Syncers |-> IF p = "asked" /\ state = "RUNNING" THEN [Resting EXCEPT !.at = "listing"] ELSE Resting]
  /\ UNCHANGED <<docker, file, jobs>>

Step(p) == List(p) \/ Listed(p) \/ Attached(p)
Job == (\E c \in Containers : RemoveStale(c)) \/ SyncAfterDeploy \/ StopContainers

Next ==
  \/ \E c \in Containers : Produce(c) \/ Launch(c)
  \/ \E s \in Streams : Deliver(s) \/ End(s) \/ Stall(s)
  \/ Sweep \/ Ask \/ \E p \in Syncers : Step(p)
  \/ Job \/ StopFollows \/ Restart

Spec == Init /\ [][Next]_vars

(* The interval fires for ever, Docker answers, connections deliver, jobs end. *)
FairSpec ==
  /\ Spec
  /\ WF_vars(Sweep) /\ WF_vars(Ask) /\ WF_vars(Job)
  /\ \A p \in Syncers : WF_vars(Step(p))
  /\ \A s \in Streams : WF_vars(Deliver(s))

-----------------------------------------------------------------------------
(* While one caller syncs at a time and one container has the key, no line is stored twice, and a *)
(* line that is left out between two others shares its millisecond with one that was collected    *)
(* before it, however often connections drop, stall, are refused and resume (attach).              *)
CollectedOnce ==
  rare \cap {"overlap", "stop", "deploy"} = {} =>
    \A c \in Containers :
      LET has(i) == copies[log[c][i]] > 0 IN
      /\ \A i \in 1..Len(log[c]) : copies[log[c][i]] <= 1
      /\ \A i, j, k \in 1..Len(log[c]) :
           i < j /\ j < k /\ has(i) /\ has(k) /\ ~has(j) =>
             \E h \in i..(j - 1) : has(h) /\ stamp[log[c][h]] = stamp[log[c][j]]

(* CollectedOnce, with the type of the state. *)
FollowInv == TypeOK /\ CollectedOnce

(* A running container whose last line is newer than the watermark is not left behind for ever:   *)
(* whatever happened to its connection, a sweep follows it again (resync, recoverStalledFollows). *)
Behind(c) ==
  /\ con[c] = "running" /\ state = "RUNNING" /\ log[c] # <<>>
  /\ LET last == log[c][Len(log[c])] IN stamp[last] > mark /\ copies[last] = 0
CatchesUp == \A c \in Containers : Behind(c) ~> ~Behind(c)

(* Runtime logs survive restarts, as the comment at runtime-log.collector.ts:62 says: the file     *)
(* never loses a line (fewer than MAX_LINES are produced here). *)
HistoryKept == [][file \subseteq file']_file

(* The new container's output is appended to the stream after a swap, its first lines included      *)
(* (runtime-log.collector.ts:28). *)
StartupKept ==
  rare \subseteq {"deploy"} /\ job = "idle" =>
    \A c \in Containers \ {First} :
      con[c] = "running" /\ follow[c] # None /\ stream[follow[c]].next > Len(log[c])
      /\ Len(log[c]) <= Tail200 => \A i \in 1..Len(log[c]) : copies[log[c][i]] > 0

(* No line is stored twice, whoever syncs or stops. *)
NeverTwice == \A n \in Lines : copies[n] <= 1

=============================================================================
