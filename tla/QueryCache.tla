------------------------------- MODULE QueryCache -------------------------------
(***************************************************************************)
(* One tab of the panel at run time: a user with some role walks from       *)
(* screen to screen, and one query of the cache is watched while            *)
(* mutations are answered, fetches overtake them, and others change the     *)
(* same facts.  Which query that is, and for which role, is chosen in the   *)
(* initial state.                                                           *)
(*                                                                          *)
(* The cache itself is TanStack Query, modelled from how hooks.ts uses it:  *)
(* a query is fetched when a mounted component needs it, polls while it is  *)
(* mounted if it has a refetchInterval, retries once, and is refetched      *)
(* (cancelling the fetch in flight) or only marked when it is invalidated.  *)
(***************************************************************************)
EXTENDS Screens

CONSTANTS
  MaxOthers,  \* bound: changes made by others
  MaxFaults   \* bound: answers and fetches that are lost

ASSUME CacheAssumption == MaxOthers \in Nat /\ MaxFaults \in Nat

VARIABLES
  watched,  \* the query followed
  views,    \* the screens the user's role opens, as far as that query is concerned
  screen,   \* the one that is mounted
  data,     \* the cached answer: whether there is one, whose changes it misses
  invalid,  \* it is marked to be read again
  fetch,    \* the request for it: not asked, asked, or answered with some changes missing
  call,     \* the mutation in flight, and whether the server has done its work
  others,   \* changes others made
  faults,   \* answers lost
  failed    \* the last fetch failed: the page says so

vars == <<watched, views, screen, data, invalid, fetch, call, others, faults, failed>>
fixed == <<watched, views>>

Sources == {"own", "other"}  \* this tab's mutations; everything else
Nothing == [has |-> FALSE, misses |-> {}]
NotAsked == [at |-> "idle", misses |-> {}]
NoEffect == [as |-> "none", invalidates |-> FALSE]
NoCall == [at |-> "idle", does |-> NoEffect]

Watchable == UNION {s.shows \cup s.admins : s \in Screens("ADMIN")}

ChangesData(m, q) == m.route.writes \cap q.route.reads /= {}
Invalidates(m, q) == \E prefix \in m.invalidates : Matches(prefix, q.key)

(* What a mutation is to a query: whose change, and whether it invalidates. *)
(* The tab answers for what it offers next to the query, and for what it    *)
(* says it invalidates.  A mutation that is still in flight when another    *)
(* page is opened counts as another's there, and so does the removal of a   *)
(* deployment: its page is left (onDeleted).                                *)
Effect(m, q, shown) ==
  [as |-> IF ~ChangesData(m, q) THEN "none"
          ELSE IF (shown \/ Invalidates(m, q)) /\ m /= useRemoveDeployment THEN "own"
          ELSE "other",
   invalidates |-> Invalidates(m, q)]

(* What a screen asks of the server although the role may not have it,      *)
(* but for what is known to be drawn for every role: CRON "run now", the    *)
(* backup and the reset of a volume, the zone dialog, the branches of a     *)
(* repository, and the port setting on the page of the domains.             *)
Ungated ==
  {useRunCron, useCreateBackupFor, useResetVolume, useRegisterZone, useUnregisterZone,
   useDiscoverBranches}
UngatedQueries == {useAppSettings}
Refused(s, r) ==
  {h \in Enabled(s, r) \ Ungated : ~Permits(h.route.need, r)}
    \cup {q \in Shows(s, r) \ UngatedQueries : ~Permits(q.route.need, r)}

(* A screen, seen from one query: whether it shows it, whether work queued  *)
(* from it will change it, and what its controls can do to it.  The guard   *)
(* of a route answers 403 to the wrong role, and nothing changes.           *)
View(s, q, r) ==
  LET shown   == q \in Shows(s, r)
      allowed == {m \in Enabled(s, r) : Permits(m.route.need, r)}
  IN [shown   |-> shown,
      awaits  |-> \E m \in allowed : m.route.later \cap q.route.reads /= {},
      refused |-> Refused(s, r) /= {},
      offers  |-> {Effect(m, q, shown) : m \in allowed} \ {NoEffect}]
Elsewhere == [shown |-> FALSE, awaits |-> FALSE, refused |-> FALSE, offers |-> {}]
Views(q, r) == {View(s, q, r) : s \in Screens(r)} \cup {Elsewhere}

TypeOK ==
  /\ watched \in Watchable /\ screen \in views
  /\ data \in [has : BOOLEAN, misses : SUBSET Sources]
  /\ fetch \in [at : {"idle", "asked", "read"}, misses : SUBSET Sources]
  /\ call \in [at : {"idle", "sent", "done"},
              does : [as : Sources \cup {"none"}, invalidates : BOOLEAN]]
  /\ invalid \in BOOLEAN /\ failed \in BOOLEAN
  /\ others \in 0..MaxOthers /\ faults \in 0..MaxFaults

Init ==
  /\ watched \in Watchable
  /\ views \in {Views(watched, role) : role \in Roles}
  /\ screen = Elsewhere
  /\ data = Nothing /\ invalid = FALSE /\ fetch = NotAsked
  /\ call = NoCall /\ others = 0 /\ faults = 0 /\ failed = FALSE

-----------------------------------------------------------------------------
(* A change of the facts, as the cached answer and the one on its way see it. *)
Misses(source) ==
  /\ data' = [data EXCEPT !.misses = @ \cup (IF data.has THEN {source} ELSE {})]
  /\ fetch' = [fetch EXCEPT !.misses = @ \cup (IF fetch.at = "read" THEN {source} ELSE {})]

Disowned(answer) ==
  [answer EXCEPT !.misses = {IF source = "own" THEN "other" ELSE source : source \in @}]

Ask == [at |-> "asked", misses |-> {}]

(* Mounting a query starts a fetch unless one is running or the data is     *)
(* still trusted: hooks without a staleTime trust nothing.                  *)
MountFetch(s) ==
  IF s.shown /\ ~screen.shown /\ fetch.at = "idle"
     /\ ~(data.has /\ watched.kept /\ ~invalid)
  THEN Ask ELSE fetch

GoTo(s) ==
  /\ s \in views \ {screen}
  /\ screen' = s
  /\ fetch' = MountFetch(s)
  /\ UNCHANGED <<fixed, data, invalid, call, others, faults, failed>>

(* The query is dropped from the cache when nothing has shown it for long.  *)
Collect ==
  /\ ~screen.shown /\ data.has /\ fetch.at = "idle"
  /\ data' = Nothing /\ invalid' = FALSE /\ failed' = FALSE
  /\ UNCHANGED <<fixed, screen, fetch, call, others, faults>>

(* refetchInterval: only while the query is mounted.                        *)
Poll ==
  /\ watched.polled /\ screen.shown /\ fetch.at = "idle"
  /\ fetch' = Ask
  /\ UNCHANGED <<fixed, screen, data, invalid, call, others, faults, failed>>

(* The handler of the route reads the facts.                                *)
ServerReads ==
  /\ fetch.at = "asked"
  /\ fetch' = [fetch EXCEPT !.at = "read"]
  /\ UNCHANGED <<fixed, screen, data, invalid, call, others, faults, failed>>

FetchAnswered ==
  /\ fetch.at = "read"
  /\ data' = [has |-> TRUE, misses |-> fetch.misses]
  /\ invalid' = FALSE /\ failed' = FALSE /\ fetch' = NotAsked
  /\ UNCHANGED <<fixed, screen, call, others, faults>>

(* The request fails, and so does its retry: old data is kept.              *)
FetchFails ==
  /\ fetch.at = "asked" /\ faults < MaxFaults
  /\ faults' = faults + 1 /\ fetch' = NotAsked /\ failed' = TRUE
  /\ UNCHANGED <<fixed, screen, data, invalid, call, others>>

-----------------------------------------------------------------------------
(* A control is used.                                                       *)
Mutate(effect) ==
  /\ call.at = "idle"
  /\ call' = [at |-> "sent", does |-> effect]
  /\ UNCHANGED <<fixed, screen, data, invalid, fetch, others, faults, failed>>

ServerWrites ==
  /\ call.at = "sent"
  /\ call' = [call EXCEPT !.at = "done"]
  /\ IF call.does.as /= "none" THEN Misses(call.does.as) ELSE UNCHANGED <<data, fetch>>
  /\ UNCHANGED <<fixed, screen, invalid, others, faults, failed>>

(* onSuccess: runs even when the component that called is gone.  A mounted  *)
(* query drops the answer it waits for and asks again; any other is only    *)
(* marked, so a fetch that went out before its page was left may still      *)
(* bring the old answer, and counts as read again: that gap is not claimed. *)
OnSuccess ==
  /\ call.at = "done"
  /\ call' = NoCall
  /\ IF call.does.invalidates
     THEN /\ invalid' = data.has
          /\ fetch' = IF screen.shown THEN Ask ELSE Disowned(fetch)
     ELSE UNCHANGED <<invalid, fetch>>
  /\ UNCHANGED <<fixed, screen, data, others, faults, failed>>

(* The answer never arrives: what was written is as good as another's.      *)
AnswerLost ==
  /\ call.at = "done" /\ faults < MaxFaults
  /\ call' = NoCall /\ faults' = faults + 1
  /\ data' = Disowned(data) /\ fetch' = Disowned(fetch)
  /\ UNCHANGED <<fixed, screen, invalid, others, failed>>

(* Another user, the prober, a worker of the queue: any of the facts.       *)
OtherWrites ==
  /\ others < MaxOthers /\ others' = others + 1
  /\ Misses("other")
  /\ UNCHANGED <<fixed, screen, invalid, call, faults, failed>>

Next ==
  \/ \E s \in views : GoTo(s)
  \/ Collect \/ Poll \/ ServerReads \/ FetchAnswered \/ FetchFails
  \/ \E effect \in screen.offers : Mutate(effect)
  \/ ServerWrites \/ OnSuccess \/ AnswerLost \/ OtherWrites

Spec == Init /\ [][Next]_vars

(* Timers fire, requests are answered or fail; nobody has to click.         *)
FairSpec == Spec /\ WF_vars(Poll) /\ WF_vars(ServerReads) /\ WF_vars(FetchAnswered)

-----------------------------------------------------------------------------
(* Queries that are trusted for long and that no mutation invalidates: the  *)
(* name of the signed-in user, the images of the image picker, the users    *)
(* and groups of a volume.                                                  *)
NotRefreshed == {useAuth, useDockerImages, useVolumeIdentities}

(* When nothing is on its way, a query on the screen shows every change     *)
(* this tab was told had succeeded, however its fetches and the mutation    *)
(* overtook each other, unless the page says that the fetch failed.  A      *)
(* polled query is excused: it may be behind for one period.                *)
ShowsOwnWrites ==
  screen.shown /\ call.at = "idle" /\ fetch.at = "idle" /\ ~failed =>
    "own" \notin data.misses \/ watched.polled \/ watched \in NotRefreshed

(* Work that was queued from a page shows up on that page without another   *)
(* click: a query that such work changes does not stay behind for ever      *)
(* while it is on the screen.                                               *)
QueuedWorkAppears ==
  ~<>[](/\ screen.shown /\ screen.awaits /\ watched \notin NotRefreshed
        /\ call.at = "idle" /\ data.misses /= {})

(* No control or query of a page is refused for the role that opened it.    *)
ControlsFollowRole == ~screen.refused
=============================================================================
