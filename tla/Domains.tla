-------------------------------- MODULE Domains --------------------------------
(***************************************************************************)
(* The domains of one deployment and the host ports bound to them             *)
(* (DomainsService, PortBindingsService and their routes).  A handler is a       *)
(* sequence of single statements without a transaction; other requests, or a      *)
(* crash, come between them.  Names are left out: that an address or a host port    *)
(* is taken is decided by the unique indexes.                                        *)
(***************************************************************************)
EXTENDS Naturals

CONSTANTS
  Ids,      \* ids of domain rows
  Bindings, \* ids of port_bindings rows
  Ports,    \* host ports of the active range
  Requests, \* requests that may be under way at the same time
  MaxOps    \* bound: requests

VARIABLES
  domain,  \* domains rows
  port,    \* port_bindings rows: the domain and the host port
  request, \* requests under way
  broken,  \* two requests overlapped, or one was cut off by a crash
  widened, \* rows that got their web route while there was no primary domain
  ops      \* requests so far

vars == <<domain, port, request, broken, widened, ops>>

None == "none"
Gone == [there |-> FALSE, web |-> FALSE, primary |-> FALSE]
Free == [dom |-> None, host |-> 0]
Idle == [at |-> "idle", id |-> None, flag |-> FALSE, bind |-> None, host |-> 0]

There == {d \in Ids : domain[d].there}
Web == {d \in There : domain[d].web}
Primary == {d \in There : domain[d].primary}
Bound == {port[b].host : b \in Bindings} \ {0}

TypeOK ==
  /\ domain \in [Ids -> [there : BOOLEAN, web : BOOLEAN, primary : BOOLEAN]]
  /\ port \in [Bindings -> [dom : Ids \cup {None}, host : Ports \cup {0}]]
  /\ request \in [Requests -> [at : {"idle", "insert", "narrow", "promote", "choose", "clear", "set", "bind", "rebind"},
                                 id : Ids \cup {None}, flag : BOOLEAN, bind : Bindings \cup {None}, host : Ports \cup {0}]]
  /\ broken \in BOOLEAN /\ widened \subseteq Ids /\ ops \in 0..MaxOps

Init ==
  /\ domain = [d \in Ids |-> Gone] /\ port = [b \in Bindings |-> Free]
  /\ request = [r \in Requests |-> Idle]
  /\ broken = FALSE /\ widened = {} /\ ops = 0

(* A request begins: the first statement of its handler is part of the action. *)
Begins(r) ==
  /\ request[r] = Idle /\ ops < MaxOps /\ ops' = ops + 1
  /\ broken' = (broken \/ \E q \in Requests \ {r} : request[q] # Idle)
Goes(r, at, id, flag) == request' = [request EXCEPT ![r] = [Idle EXCEPT !.at = at, !.id = id, !.flag = flag]]
Done(r) == request' = [request EXCEPT ![r] = Idle]

-----------------------------------------------------------------------------
(* addDomain reads the primary domain first, and setPrimaryDomain, which then inserts a primary     *)
(* domain or renames the one there is. *)
Add(r) ==
  /\ Begins(r)
  /\ Goes(r, "insert", None, Primary = {}) \/ Goes(r, "narrow", None, FALSE)
  /\ UNCHANGED <<domain, port, widened>>

(* The row is inserted ("narrow": without a web route); an address that is taken is refused. *)
Insert(r) ==
  /\ request[r].at \in {"insert", "narrow"} /\ Done(r)
  /\ \/ \E d \in Ids \ There :
          domain' = [domain EXCEPT ![d] = [there |-> TRUE, web |-> request[r].at = "insert", primary |-> request[r].flag]]
     \/ UNCHANGED domain
  /\ UNCHANGED <<port, widened, broken, ops>>

(* updateDomainTarget writes the row, and goes on when the primary domain lost its web route. *)
UpdateTarget(r, d) ==
  /\ Begins(r) /\ d \in There
  /\ \E web \in BOOLEAN :
       /\ domain' = [domain EXCEPT ![d].web = web]
       /\ IF ~web /\ domain[d].primary THEN Goes(r, "promote", d, TRUE) ELSE Done(r)
       /\ widened' = IF ~web THEN widened \ {d}
                     ELSE IF ~domain[d].web /\ Primary = {} THEN widened \cup {d} ELSE widened
  /\ UNCHANGED port

(* demotePrimary clears the flag ... *)
Demote(r) ==
  /\ request[r].at = "promote"
  /\ domain' = [domain EXCEPT ![request[r].id].primary = FALSE]
  /\ Goes(r, "choose", None, FALSE)
  /\ UNCHANGED <<port, widened, broken, ops>>

(* Mutant: any remaining domain is promoted. *)
ChooseAny(r) ==
  /\ request[r].at = "choose"
  /\ IF There = {} THEN Done(r) ELSE \E d \in There : Goes(r, "set", d, TRUE)
  /\ UNCHANGED <<domain, port, widened, broken, ops>>

(* ... and promoteAnotherPrimary reads a domain that serves the web, if there is one ... *)
Choose(r) ==
  /\ request[r].at = "choose"
  /\ IF Web = {} THEN Done(r) ELSE \E d \in Web : Goes(r, "set", d, TRUE)
  /\ UNCHANGED <<domain, port, widened, broken, ops>>

(* ... to make it the primary one.  makePrimary ends with the same statement. *)
SetPrimary(r) ==
  /\ request[r].at = "set" /\ Done(r)
  /\ domain' = [domain EXCEPT ![request[r].id].primary = domain[request[r].id].there]
  /\ UNCHANGED <<port, widened, broken, ops>>

(* makePrimary finds a domain with a web route, clears all flags, and sets one. *)
MakePrimary(r, d) ==
  /\ Begins(r) /\ d \in Web /\ Goes(r, "clear", d, TRUE)
  /\ UNCHANGED <<domain, port, widened>>
ClearAll(r) ==
  /\ request[r].at = "clear" /\ Goes(r, "set", request[r].id, TRUE)
  /\ domain' = [d \in Ids |-> [domain[d] EXCEPT !.primary = FALSE]]
  /\ UNCHANGED <<port, widened, broken, ops>>

(* removeDomain deletes the row and, by the foreign key, its bindings. *)
Remove(r, d) ==
  /\ Begins(r) /\ d \in There
  /\ domain' = [domain EXCEPT ![d] = Gone]
  /\ port' = [b \in Bindings |-> IF port[b].dom = d THEN Free ELSE port[b]]
  /\ widened' = widened \ {d}
  /\ IF domain[d].primary THEN Goes(r, "choose", None, FALSE) ELSE Done(r)

-----------------------------------------------------------------------------
(* Host ports: assertHostPortFree reads, and one statement writes. *)

CheckPort(b, host) == \A c \in Bindings : port[c].host = host => c = b

AskPort(r, d, b, host) ==
  /\ Begins(r) /\ d \in There /\ CheckPort(b, host)
  /\ request' = [request EXCEPT ![r] = [Idle EXCEPT !.at = IF b = None THEN "bind" ELSE "rebind",
                                                    !.id = d, !.bind = b, !.host = host]]
  /\ UNCHANGED <<domain, port, widened>>

(* addPortBinding: refused by the foreign key when the domain is gone, by the unique index when the  *)
(* port was taken meanwhile. *)
Bind(r) ==
  LET q == request[r] IN
  /\ q.at = "bind" /\ Done(r)
  /\ IF q.id \in There /\ q.host \notin Bound
     THEN \E b \in Bindings : port[b] = Free /\ port' = [port EXCEPT ![b] = [dom |-> q.id, host |-> q.host]]
     ELSE UNCHANGED port
  /\ UNCHANGED <<domain, widened, broken, ops>>

(* updatePortBinding: only a row that is still there and belongs to the domain. *)
Rebind(r) ==
  LET q == request[r]
      clash == \E b \in Bindings \ {q.bind} : port[b].host = q.host IN
  /\ q.at = "rebind" /\ Done(r)
  /\ port' = IF port[q.bind].dom = q.id /\ ~clash THEN [port EXCEPT ![q.bind].host = q.host] ELSE port
  /\ UNCHANGED <<domain, widened, broken, ops>>

RemoveBinding(r, b) ==
  /\ Begins(r) /\ port[b] # Free /\ port' = [port EXCEPT ![b] = Free]
  /\ UNCHANGED <<domain, request, widened>>

(* suggestFreePort: the lowest port of the range that nobody has. *)
Suggested == CHOOSE p \in Ports \ Bound : \A q \in Ports \ Bound : p <= q

Crash ==
  /\ \E r \in Requests : request[r] # Idle
  /\ request' = [r \in Requests |-> Idle] /\ broken' = TRUE
  /\ UNCHANGED <<domain, port, widened, ops>>

Statement(r) ==
  Insert(r) \/ Demote(r) \/ Choose(r) \/ SetPrimary(r) \/ ClearAll(r) \/ Bind(r) \/ Rebind(r)

Next ==
  \/ \E r \in Requests :
       \/ Add(r) \/ Statement(r)
       \/ \E d \in Ids : UpdateTarget(r, d) \/ MakePrimary(r, d) \/ Remove(r, d)
       \/ \E d \in Ids, p \in Ports : AskPort(r, d, None, p)
       \/ \E b \in Bindings, p \in Ports : port[b] # Free /\ AskPort(r, port[b].dom, b, p)
       \/ \E b \in Bindings : RemoveBinding(r, b)
  \/ Crash

Spec == Init /\ [][Next]_vars

-----------------------------------------------------------------------------
AtRest == \A r \in Requests : request[r] = Idle
AtMostOne(S) == \A d, e \in S : d = e

(* After requests that came one after another there is at most one primary domain, it serves the     *)
(* web, and there is none only when every domain that serves the web got its route later             *)
(* (addDomain, updateDomainTarget, makePrimary, removeDomain).                                        *)
PrimaryKept ==
  AtRest /\ ~broken =>
    /\ AtMostOne(Primary) /\ Primary \subseteq Web
    /\ Primary = {} => Web \subseteq widened

(* Whatever overlaps or crashes, a host port is bound once and by a domain that exists, and the port *)
(* that is suggested is free. *)
PortsBoundOnce ==
  /\ \A b, c \in Bindings : port[b] # Free /\ port[b].host = port[c].host => b = c
  /\ \A b \in Bindings : port[b] # Free => port[b].dom \in There
  /\ Ports \subseteq Bound \/ Suggested \notin Bound

(* The three, as one. *)
DomainsInv == TypeOK /\ PrimaryKept /\ PortsBoundOnce

(* removeDomain promotes another domain "so a WEB deployment keeps a primary"                         *)
(* (domains.service.ts:275), whoever else is at work. *)
OnePrimary == AtRest => AtMostOne(Primary) /\ (Primary = {} => Web \subseteq widened)

=============================================================================
