------------------------------- MODULE Accounts -------------------------------
(***************************************************************************)
(* The users table and the requests that manage it (UsersController,         *)
(* UsersService, the guards, AdminSeedService).  JwtStrategy reads the actor's  *)
(* row when the request arrives; the handler may read once more; then one         *)
(* statement writes.  Other requests come between these steps.                      *)
(***************************************************************************)
EXTENDS Naturals, FiniteSets

CONSTANTS
  Users,     \* ids the table can hand out
  Emails,    \* addresses
  SeedEmail, \* WILLY_ADMIN_EMAIL
  Requests,  \* requests that may be under way at the same time
  MaxOps     \* bound: requests and boots

VARIABLES
  row,        \* users table; Gone where there is no row
  request,    \* requests under way
  overlapped, \* two requests were under way at the same time
  ops         \* requests and boots so far

vars == <<row, request, overlapped, ops>>

Gone == [email |-> "none", role |-> "none", disabled |-> FALSE]
Roles == {"ADMIN", "VIEWER"}
Idle == [at |-> "idle", op |-> "none", target |-> "none", email |-> "none", role |-> "none"]

(* What a request may ask for.  OPERATOR is to these routes what VIEWER is. *)
Asks ==
  [at : {"asked"}, op : {"create"}, target : {"none"}, email : Emails, role : Roles]
  \cup [at : {"asked"}, op : {"update"}, target : Users, email : Emails \cup {"none"}, role : Roles \cup {"none"}]
  \cup [at : {"asked"}, op : {"disable", "enable", "remove"}, target : Users, email : {"none"}, role : {"none"}]

Exists(u) == row[u] # Gone
Enabled(u) == Exists(u) /\ ~row[u].disabled
Taken(e) == \E u \in Users : row[u].email = e

TypeOK ==
  /\ row \in [Users -> [email : Emails, role : Roles, disabled : BOOLEAN] \cup {Gone}]
  /\ request \in [Requests -> Asks \cup {[a EXCEPT !.at = "checked"] : a \in Asks} \cup {Idle}]
  /\ overlapped \in BOOLEAN /\ ops \in 0..MaxOps

Seeded(r) ==
  IF \E u \in Users : r[u].email = SeedEmail THEN {r}
  ELSE {[r EXCEPT ![u] = [email |-> SeedEmail, role |-> "ADMIN", disabled |-> FALSE]] :
          u \in {v \in Users : r[v] = Gone}}

Init ==
  /\ row = CHOOSE r \in Seeded([u \in Users |-> Gone]) : TRUE  \* the ids are interchangeable
  /\ request = [r \in Requests |-> Idle] /\ overlapped = FALSE /\ ops = 0

-----------------------------------------------------------------------------
(* RolesGuard, on the role that JwtStrategy has read; update is open to everybody. *)
RouteAllows(a, actor) == a.op = "update" \/ row[actor].role = "ADMIN"

(* assertSelfOrAdmin, and the guards of update, setDisabled and remove. *)
SelfOrAdmin(a, actor) == row[actor].role = "ADMIN" \/ a.target = actor
(* Mutant: an administrator may demote themselves. *)
OnOneselfLax(a, actor) ==
  a.target = actor => a.op \notin {"disable", "enable", "remove"} /\ (a.role # "none" => row[actor].role = "ADMIN")

OnOneself(a, actor) ==
  a.target = actor => a.op \notin {"disable", "enable", "remove"} /\ a.role \in {"none", "ADMIN"}
Demands(a, actor) ==
  a.op = "update" => SelfOrAdmin(a, actor) /\ (a.role # "none" => row[actor].role = "ADMIN")

(* A request passes the guards. *)
Arrive(r) ==
  /\ request[r] = Idle /\ ops < MaxOps /\ ops' = ops + 1
  /\ \E a \in Asks, actor \in Users :
       /\ Enabled(actor) /\ RouteAllows(a, actor) /\ Demands(a, actor) /\ OnOneself(a, actor)
       /\ request' = [request EXCEPT ![r] = a]
  /\ overlapped' = (overlapped \/ \E q \in Requests \ {r} : request[q] # Idle)
  /\ UNCHANGED row

(* What the handler reads before it writes; otherwise it answers with a conflict or "not found". *)
Passes(a) ==
  CASE a.op = "create" -> ~Taken(a.email)
    [] a.op = "update" -> \A u \in Users : row[u].email = a.email /\ a.email # "none" => u = a.target
    [] a.op \in {"disable", "enable"} -> Exists(a.target)
    [] a.op = "remove" -> TRUE

Check(r) ==
  /\ request[r].at = "asked"
  /\ request' = [request EXCEPT ![r] = IF Passes(@) THEN [@ EXCEPT !.at = "checked"] ELSE Idle]
  /\ UNCHANGED <<row, overlapped, ops>>

(* The statement: an address that is taken by now is refused by the unique index, a row that is      *)
(* gone is not updated. *)
Unique(a) == \A u \in Users \ {a.target} : row[u].email # a.email
Created(a) ==
  {[row EXCEPT ![u] = [email |-> a.email, role |-> a.role, disabled |-> FALSE]] : u \in {v \in Users : ~Exists(v)}}
Updated(a) ==
  LET r == row[a.target]
      Or(asked, present) == IF asked = "none" THEN present ELSE asked
  IN [row EXCEPT ![a.target] =
       [email |-> Or(a.email, r.email), role |-> Or(a.role, r.role), disabled |-> r.disabled]]
After(a) ==
  CASE a.op = "create" -> IF Taken(a.email) THEN {row} ELSE Created(a)
    [] a.op = "update" -> IF Exists(a.target) /\ (a.email = "none" \/ Unique(a)) THEN {Updated(a)} ELSE {row}
    [] a.op \in {"disable", "enable"} ->
         {IF Exists(a.target) THEN [row EXCEPT ![a.target].disabled = (a.op = "disable")] ELSE row}
    [] a.op = "remove" -> {[row EXCEPT ![a.target] = Gone]}

Write(r) ==
  /\ request[r].at = "checked" /\ row' \in After(request[r])
  /\ request' = [request EXCEPT ![r] = Idle]
  /\ UNCHANGED <<overlapped, ops>>

(* The backend starts again: requests are lost, and the bootstrap administrator is created when no   *)
(* row has its address. *)
Boot ==
  /\ ops < MaxOps /\ ops' = ops + 1 /\ row' \in Seeded(row)
  /\ request' = [r \in Requests |-> Idle] /\ UNCHANGED overlapped

Next == Boot \/ \E r \in Requests : Arrive(r) \/ Check(r) \/ Write(r)
Spec == Init /\ [][Next]_vars

-----------------------------------------------------------------------------
Administered == \E u \in Users : Enabled(u) /\ row[u].role = "ADMIN"

(* Requests that come one after another never leave the panel without an administrator who can sign  *)
(* in, and whatever overlaps, no two rows share an address. *)
AccountsInv ==
  /\ TypeOK
  /\ ~overlapped => Administered
  /\ \A u, v \in Users : Exists(u) /\ row[u].email = row[v].email => u = v

(* "The existing self-demote guard prevents an admin lockout" (users.controller.ts:136). *)
NoAdminLockout == Administered

=============================================================================
