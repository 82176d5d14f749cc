------------------------------- MODULE Schedules -------------------------------
(***************************************************************************)
(* Scheduled backups (BackupSchedulesService): a row in backup_schedules and,   *)
(* for an enabled one, a CronJob in the memory of the server.  The two change      *)
(* in separate steps of a request, and a tick reads the row.                         *)
(***************************************************************************)
EXTENDS Naturals, FiniteSets

CONSTANTS
  Ids,      \* ids of backup_schedules rows
  Requests, \* requests that may be under way at the same time
  MaxOps,   \* bound: requests
  MaxTicks, \* bound: ticks
  MaxFaults \* bound: restarts

VARIABLES
  row,      \* "absent", "on" or "off"
  used,     \* ids handed out
  jobs,     \* ids with a registered CronJob
  request,  \* requests under way: the statement that was done, the effect still to come
  run,      \* per id, where the tick is that runs
  muddled,  \* schedules with two requests that overlapped since the server started
  started,  \* the server has read the rows at start-up
  ops, ticks, faults

vars == <<row, used, jobs, request, run, muddled, started, ops, ticks, faults>>

None == "none"
Idle == [id |-> None, then |-> None]
On == {i \in Ids : row[i] = "on"}

TypeOK ==
  /\ row \in [Ids -> {"absent", "on", "off"}] /\ used \subseteq Ids /\ jobs \subseteq Ids
  /\ request \in [Requests -> [id : Ids \cup {None}, then : {None, "register", "unregister", "delete"}]]
  /\ run \in [Ids -> {None, "read", "enqueue", "mark"}]
  /\ muddled \subseteq Ids /\ started \in BOOLEAN
  /\ ops \in 0..MaxOps /\ ticks \in 0..MaxTicks /\ faults \in 0..MaxFaults

Init ==
  /\ row = [i \in Ids |-> "absent"] /\ used = {} /\ jobs = {}
  /\ request = [q \in Requests |-> Idle] /\ run = [i \in Ids |-> None]
  /\ muddled = {} /\ started = TRUE /\ ops = 0 /\ ticks = 0 /\ faults = 0

Request(q, i, then) ==
  /\ request[q] = Idle /\ started /\ ops < MaxOps /\ ops' = ops + 1
  /\ request' = [request EXCEPT ![q] = [id |-> i, then |-> then]]
  /\ muddled' = IF \E p \in Requests : request[p].id = i THEN muddled \cup {i} ELSE muddled

(* create inserts the row and registers its job; the panel sees it when both are done. *)
Create(q, i) ==
  /\ i \notin used /\ Request(q, i, "register")
  /\ used' = used \cup {i} /\ row' = [row EXCEPT ![i] = "on"]
  /\ UNCHANGED <<jobs, run, started, ticks, faults>>

(* setEnabled writes the row and registers or unregisters the job. *)
SetEnabled(q, i, to) ==
  /\ row[i] # "absent" /\ Request(q, i, IF to = "on" THEN "register" ELSE "unregister")
  /\ row' = [row EXCEPT ![i] = to]
  /\ UNCHANGED <<used, jobs, run, started, ticks, faults>>

(* remove unregisters the job and deletes the row. *)
Remove(q, i) ==
  /\ row[i] # "absent" /\ Request(q, i, "delete") /\ jobs' = jobs \ {i}
  /\ UNCHANGED <<row, used, run, started, ticks, faults>>

(* Mutant: switching a schedule off leaves its job. *)
LeaveJob(q) ==
  LET r == request[q] IN
  /\ r # Idle
  /\ row' = IF r.then = "delete" THEN [row EXCEPT ![r.id] = "absent"] ELSE row
  /\ jobs' = IF r.then = "register" THEN jobs \cup {r.id} ELSE jobs
  /\ request' = [request EXCEPT ![q] = Idle]
  /\ UNCHANGED <<used, run, muddled, started, ops, ticks, faults>>

(* The second half of the request, after its statement has come back. *)
Finish(q) ==
  LET r == request[q] IN
  /\ r # Idle
  /\ row' = IF r.then = "delete" THEN [row EXCEPT ![r.id] = "absent"] ELSE row
  /\ jobs' = IF r.then = "register" THEN jobs \cup {r.id}
             ELSE IF r.then = "unregister" THEN jobs \ {r.id} ELSE jobs
  /\ request' = [request EXCEPT ![q] = Idle]
  /\ UNCHANGED <<used, run, muddled, started, ops, ticks, faults>>

-----------------------------------------------------------------------------
(* run: a tick reads the row, enqueues a backup and the prune that follows, and notes the time.  Ticks   *)
(* of one schedule that overlap are left out: they share nothing. *)
Tick(i) ==
  /\ i \in jobs /\ run[i] = None /\ ticks < MaxTicks /\ ticks' = ticks + 1
  /\ run' = [run EXCEPT ![i] = "read"]
  /\ UNCHANGED <<row, used, jobs, request, muddled, started, ops, faults>>

Due(i) == row[i] = "on"
ReadRow(i) ==
  /\ run[i] = "read" /\ run' = [run EXCEPT ![i] = IF Due(i) THEN "enqueue" ELSE None]
  /\ UNCHANGED <<row, used, jobs, request, muddled, started, ops, ticks, faults>>

(* BackupsService.create may fail: the tick ends with a warning. *)
Enqueue(i) ==
  /\ run[i] = "enqueue" /\ \E next \in {"mark", None} : run' = [run EXCEPT ![i] = next]
  /\ UNCHANGED <<row, used, jobs, request, muddled, started, ops, ticks, faults>>
Mark(i) ==
  /\ run[i] = "mark" /\ run' = [run EXCEPT ![i] = None]
  /\ UNCHANGED <<row, used, jobs, request, muddled, started, ops, ticks, faults>>

(* A restart forgets jobs, requests and ticks; onApplicationBootstrap registers every enabled row. *)
Restart ==
  /\ started /\ faults < MaxFaults /\ faults' = faults + 1
  /\ jobs' = {} /\ request' = [q \in Requests |-> Idle] /\ run' = [i \in Ids |-> None]
  /\ started' = FALSE /\ muddled' = {}
  /\ UNCHANGED <<row, used, ops, ticks>>
Bootstrap ==
  /\ ~started /\ started' = TRUE /\ jobs' = On
  /\ UNCHANGED <<row, used, request, run, muddled, ops, ticks, faults>>

Next ==
  \/ \E q \in Requests :
       Finish(q) \/ \E i \in Ids : Create(q, i) \/ Remove(q, i) \/ \E to \in {"on", "off"} : SetEnabled(q, i, to)
  \/ \E i \in Ids : Tick(i) \/ ReadRow(i) \/ Enqueue(i) \/ Mark(i)
  \/ Restart \/ Bootstrap

Spec == Init /\ [][Next]_vars

-----------------------------------------------------------------------------
Settled(i) == started /\ \A q \in Requests : request[q].id # i

(* Once no request is under way for a schedule, it has a job exactly when its row is enabled, through      *)
(* restarts too, unless two requests for it overlapped since the server started (create, setEnabled,        *)
(* remove, onApplicationBootstrap).                                                                           *)
JobsMatchRows == \A i \in Ids : Settled(i) /\ i \notin muddled => (i \in jobs <=> row[i] = "on")

(* With the type of the state. *)
SchedulesInv == TypeOK /\ JobsMatchRows

(* "Each enabled schedule registers a CronJob" (schedules.service.ts:23), whoever else is at work. *)
EveryEnabledTicks == \A i \in Ids : Settled(i) /\ row[i] = "on" => i \in jobs

=============================================================================
