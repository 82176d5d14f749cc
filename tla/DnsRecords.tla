------------------------------ MODULE DnsRecords ------------------------------
(***************************************************************************)
(* The A records of domains (DomainProvisioningService), the provider's zone    *)
(* they live in, and the rows that say which of them Willy manages.  Attaching    *)
(* or removing a domain is best effort towards the provider: an error is logged      *)
(* and the handler answers all the same.  An operator edits the same zone from the    *)
(* DNS page or at the provider, where Willy keeps no row.                              *)
(***************************************************************************)
EXTENDS Naturals, FiniteSets

CONSTANTS
  Names,    \* fqdns, each a label of the zone
  Requests, \* requests that may be under way at the same time
  MaxIds,   \* bound: records created
  MaxOps    \* bound: requests, and edits of the zone

VARIABLES
  domain,  \* names with a domains row
  zone,    \* the provider's A records of each name
  row,     \* dns_records: the record a row of the name points at; 0 when there is no row
  ours,    \* records that provision created
  edited,  \* names whose records an operator created or removed
  request, \* requests under way
  disturbed, \* requests overlapped, a call failed, a crash, or the deployment was torn down
  lost,    \* records of an operator that deprovision removed
  ids, ops

vars == <<domain, zone, row, ours, edited, request, disturbed, lost, ids, ops>>

Ids == 1..MaxIds
Idle == [at |-> "idle", name |-> "none", id |-> 0]

TypeOK ==
  /\ domain \subseteq Names /\ zone \in [Names -> SUBSET Ids] /\ row \in [Names -> 0..MaxIds]
  /\ ours \subseteq Ids /\ edited \subseteq Names /\ lost \subseteq Ids
  /\ request \in [Requests -> [at : {"idle", "list", "create", "upsert", "select", "remove", "forget"},
                                 name : Names \cup {"none"}, id : 0..MaxIds]]
  /\ disturbed \in BOOLEAN /\ ids \in 0..MaxIds /\ ops \in 0..MaxOps

Init ==
  /\ domain = {} /\ zone = [n \in Names |-> {}] /\ row = [n \in Names |-> 0]
  /\ ours = {} /\ edited = {} /\ lost = {}
  /\ request = [r \in Requests |-> Idle] /\ disturbed = FALSE /\ ids = 0 /\ ops = 0

Counted == ops < MaxOps /\ ops' = ops + 1
Begins(r, at, n) ==
  /\ request[r] = Idle /\ Counted
  /\ request' = [request EXCEPT ![r] = [at |-> at, name |-> n, id |-> 0]]
  /\ disturbed' = (disturbed \/ \E q \in Requests \ {r} : request[q] # Idle)
Goes(r, at, id) == request' = [request EXCEPT ![r].at = at, ![r].id = id]
Done(r) == request' = [request EXCEPT ![r] = Idle]
Fails(r) == Done(r) /\ disturbed' = TRUE

(* The domain is inserted, its address being free, and provision begins. *)
Attach(r, n) ==
  /\ n \notin domain /\ domain' = domain \cup {n} /\ Begins(r, "list", n)
  /\ UNCHANGED <<zone, row, ours, edited, lost, ids>>

(* provision looks for an A record of the name, and reuses it. *)
FindRecord(r) ==
  LET there == zone[request[r].name] IN
  /\ request[r].at = "list"
  /\ \/ /\ IF there = {} THEN Goes(r, "create", 0) ELSE \E id \in there : Goes(r, "upsert", id)
        /\ UNCHANGED disturbed
     \/ Fails(r)
  /\ UNCHANGED <<domain, zone, row, ours, edited, lost, ids, ops>>

(* The provider creates one; an error may come before that, or from the refresh after it. *)
CreateRecord(r) ==
  LET n == request[r].name IN
  /\ request[r].at = "create"
  /\ \/ /\ ids < MaxIds /\ ids' = ids + 1
        /\ zone' = [zone EXCEPT ![n] = @ \cup {ids + 1}] /\ ours' = ours \cup {ids + 1}
        /\ \/ Goes(r, "upsert", ids + 1) /\ UNCHANGED disturbed
           \/ Fails(r)
     \/ Fails(r) /\ UNCHANGED <<zone, ours, ids>>
  /\ UNCHANGED <<domain, row, edited, lost, ops>>

(* The row is inserted as managed by Willy, or points at the record from now on. *)
UpsertRow(r) ==
  /\ request[r].at = "upsert" /\ Done(r)
  /\ row' = [row EXCEPT ![request[r].name] = request[r].id]
  /\ UNCHANGED <<domain, zone, ours, edited, disturbed, lost, ids, ops>>

(* The domain is deleted, and deprovision begins. *)
Detach(r, n) ==
  /\ n \in domain /\ domain' = domain \ {n} /\ Begins(r, "select", n)
  /\ UNCHANGED <<zone, row, ours, edited, lost, ids>>

(* Mutant: the row is deleted without asking the provider. *)
SelectToForget(r) ==
  /\ request[r].at = "select"
  /\ IF row[request[r].name] = 0 THEN Done(r) ELSE Goes(r, "forget", 0)
  /\ UNCHANGED <<domain, zone, row, ours, edited, disturbed, lost, ids, ops>>

SelectRow(r) ==
  LET id == row[request[r].name] IN
  /\ request[r].at = "select"
  /\ IF id = 0 THEN Done(r) ELSE Goes(r, "remove", id)
  /\ UNCHANGED <<domain, zone, row, ours, edited, disturbed, lost, ids, ops>>

(* The provider removes the record; when that fails the row is deleted nevertheless. *)
RemoveRecord(r) ==
  LET n == request[r].name
      id == request[r].id IN
  /\ request[r].at = "remove" /\ Goes(r, "forget", id)
  /\ \/ /\ zone' = [zone EXCEPT ![n] = @ \ {id}]
        /\ lost' = lost \cup ((zone[n] \cap {id}) \ ours)
        /\ UNCHANGED disturbed
     \/ disturbed' = TRUE /\ UNCHANGED <<zone, lost>>
  /\ UNCHANGED <<domain, row, ours, edited, ids, ops>>

ForgetRow(r) ==
  /\ request[r].at = "forget" /\ Done(r)
  /\ row' = [row EXCEPT ![request[r].name] = 0]
  /\ UNCHANGED <<domain, zone, ours, edited, disturbed, lost, ids, ops>>

(* The deployment is removed: its domains go with it, the records and their rows stay. *)
TearDown ==
  /\ domain # {} /\ Counted /\ domain' = {} /\ disturbed' = TRUE
  /\ UNCHANGED <<zone, row, ours, edited, request, lost, ids>>

OperatorCreates(n) ==
  /\ ids < MaxIds /\ Counted /\ ids' = ids + 1
  /\ zone' = [zone EXCEPT ![n] = @ \cup {ids + 1}] /\ edited' = edited \cup {n}
  /\ UNCHANGED <<domain, row, ours, request, disturbed, lost>>
OperatorRemoves(n) ==
  /\ Counted /\ \E id \in zone[n] : zone' = [zone EXCEPT ![n] = @ \ {id}]
  /\ edited' = edited \cup {n}
  /\ UNCHANGED <<domain, row, ours, request, disturbed, lost, ids>>

Crash ==
  /\ \E r \in Requests : request[r] # Idle
  /\ request' = [r \in Requests |-> Idle] /\ disturbed' = TRUE
  /\ UNCHANGED <<domain, zone, row, ours, edited, lost, ids, ops>>

Next ==
  \/ \E r \in Requests :
       \/ \E n \in Names : Attach(r, n) \/ Detach(r, n)
       \/ FindRecord(r) \/ CreateRecord(r) \/ UpsertRow(r)
       \/ SelectRow(r) \/ RemoveRecord(r) \/ ForgetRow(r)
  \/ TearDown \/ Crash \/ \E n \in Names : OperatorCreates(n) \/ OperatorRemoves(n)

Spec == Init /\ [][Next]_vars

-----------------------------------------------------------------------------
AtRest == \A r \in Requests : request[r] = Idle

(* While requests come one after another and no call fails, a name has an A record and a row as long *)
(* as it is a domain, and nothing that Willy created is left when it no longer is; what an operator   *)
(* did to the name's records is the operator's affair (provision, deprovision).                        *)
RecordFollowsDomain ==
  AtRest /\ ~disturbed =>
    \A n \in Names :
      /\ row[n] # 0 <=> n \in domain
      /\ n \in domain /\ n \notin edited => row[n] \in zone[n]
      /\ n \notin domain => zone[n] \cap ours = {}

DnsInv == TypeOK /\ RecordFollowsDomain

(* deprovision "leaves unmanaged records alone" (domain-provisioning.service.ts:104). *)
UnmanagedKept == lost = {}

=============================================================================
