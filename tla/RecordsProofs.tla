----------------------------- MODULE RecordsProofs -----------------------------
(***************************************************************************)
(* Proofs about the components of Records that keep rows and answer requests   *)
(* about them, for every set of ids, users, values and requests and every bound:  *)
(* Intake, Schedules, Accounts, Secrets, DnsRecords, Domains, Edits, and            *)
(* FileManager, for every volume it begins with.                                     *)
(***************************************************************************)
EXTENDS
  Records, Sequences,
  FiniteSetTheorems, NaturalsInduction, SequenceTheorems, WellFoundedInduction, TLAPS

-----------------------------------------------------------------------------
(***************************************************************************)
(* Intake.  The key of a delivery in Redis stands for its one deploy: queued   *)
(* or about to be.  And each deploy, done or to be done, was asked for.         *)
(***************************************************************************)

Del_Records == [at : {"claim", "resend", "deploy"}, id : Del_Deliveries] \cup {Del!Idle}
Del_Types ==
  /\ Del_secret \in 0..2 /\ Del_signs \in 0..2 /\ Del_auto \in BOOLEAN
  /\ Del_claimed \subseteq Del_Deliveries /\ Del_redis \in {"up", "down", "refusing"}
  /\ Del_request \in [Del_Requests -> Del_Records] /\ Del_deploys \in [Del_Deliveries -> Nat]
  /\ Del_excused \subseteq Del_Deliveries /\ Del_broken \subseteq Del_Deliveries
  /\ Del_refused \subseteq Del_Deliveries
  /\ Del_sends \in 0..Del_MaxSends /\ Del_faults \in 0..Del_MaxFaults

\* No more deploys of a delivery, done or to be done, than requests that were sent.
Del_About(f, d) == {q \in Del_Requests : f[q].id = d}
Del_CountOK(d) == Del_deploys[d] + Cardinality(Del_About(Del_request, d)) <= Del_sends

Del_Takes(q, d) == Del_request[q] = [at |-> "deploy", id |-> d]
Del_KeyOK(d) ==
  /\ Del_deploys[d] > 0 \/ Del!Deploying(d) => d \in Del_claimed
  /\ Del_deploys[d] <= 1 /\ (Del_deploys[d] > 0 => ~Del!Deploying(d))
  /\ \A p, q \in Del_Requests : Del_Takes(p, d) /\ Del_Takes(q, d) => p = q

Del_Dealt(d) == Del_deploys[d] > 0 \/ Del!Deploying(d)

Del_Inv ==
  /\ Del_Assumption /\ Del_Types
  /\ \A d \in Del_Deliveries : Del_CountOK(d)
  /\ \A d \in Del_Deliveries \ Del_excused : Del_KeyOK(d)
  /\ \A d \in (Del_claimed \cup Del_refused) \ Del_broken : Del_Dealt(d)

\* The requests about a delivery, when one request changes.
LEMMA Del_OneChanges ==
  ASSUME IsFiniteSet(Del_Requests), NEW f, NEW g, NEW q \in Del_Requests, NEW d,
         \A p \in Del_Requests \ {q} : g[p].id = f[p].id
  PROVE  /\ Cardinality(Del_About(f, d)) \in Nat /\ Cardinality(Del_About(g, d)) \in Nat
         /\ Cardinality(Del_About(g, d)) <= Cardinality(Del_About(f, d)) + 1
         /\ g[q].id # d \/ f[q].id = d =>
              Cardinality(Del_About(g, d)) <= Cardinality(Del_About(f, d))
         /\ g[q].id # d /\ f[q].id = d =>
              Cardinality(Del_About(g, d)) + 1 <= Cardinality(Del_About(f, d))
<1> DEFINE B == Del_About(f, d)
           A == Del_About(g, d)
<1>1. IsFiniteSet(A) /\ IsFiniteSet(B) /\ Cardinality(A) \in Nat /\ Cardinality(B) \in Nat
  <2>1. A \subseteq Del_Requests /\ B \subseteq Del_Requests
    BY DEF Del_About
  <2>2. QED
    BY <2>1, FS_Subset, FS_CardinalityType
<1>2. A \subseteq B \cup {q} /\ (q \in A <=> g[q].id = d) /\ (q \in B <=> f[q].id = d)
  BY DEF Del_About
<1> HIDE DEF A, B
<1>3. Cardinality(B \cup {q}) <= Cardinality(B) + 1 /\ IsFiniteSet(B \cup {q})
      /\ Cardinality(B \cup {q}) \in Nat
  <2>1. IsFiniteSet(B \cup {q})
        /\ Cardinality(B \cup {q}) = IF q \in B THEN Cardinality(B) ELSE Cardinality(B) + 1
    BY <1>1, FS_AddElement
  <2>2. QED
    BY <1>1, <2>1
<1>4. Cardinality(A) <= Cardinality(B) + 1
  BY <1>1, <1>2, <1>3, FS_Subset
<1>5. ASSUME q \notin A \/ q \in B
      PROVE  Cardinality(A) <= Cardinality(B)
  <2>1. A \subseteq B
    BY <1>2, <1>5
  <2>2. QED
    BY <1>1, <2>1, FS_Subset
<1>6. ASSUME q \notin A, q \in B
      PROVE  Cardinality(A) + 1 <= Cardinality(B)
  <2>1. A \subseteq B \ {q} /\ IsFiniteSet(B \ {q}) /\ Cardinality(B \ {q}) = Cardinality(B) - 1
    BY <1>1, <1>2, <1>6, FS_RemoveElement
  <2>2. Cardinality(A) <= Cardinality(B \ {q})
    BY <2>1, FS_Subset
  <2>3. QED
    BY <1>1, <2>1, <2>2
<1>7. QED
  BY <1>1, <1>2, <1>4, <1>5, <1>6 DEF A, B

LEMMA Del_GoesOn ==
  ASSUME Del_Types, NEW q \in Del_Requests, NEW at \in {"claim", "resend", "deploy"},
         Del_request[q] # Del!Idle, Del!Goes(q, at)
  PROVE  /\ [at |-> at, id |-> Del_request[q].id] \in Del_Records
         /\ Del_request' = [Del_request EXCEPT ![q] = [at |-> at, id |-> Del_request[q].id]]
<1>1. Del_request[q] \in [at : {"claim", "resend", "deploy"}, id : Del_Deliveries]
  BY DEF Del_Types, Del_Records
<1>2. [Del_request[q] EXCEPT !.at = at] = [at |-> at, id |-> Del_request[q].id]
  BY <1>1
<1>3. QED
  BY <1>1, <1>2 DEF Del!Goes, Del_Types, Del_Records

LEMMA Del_InitInv ==
  ASSUME Del_Assumption, Del!Init
  PROVE  Del_Inv
<1>1. Del_Types
  BY DEF Del!Init, Del_Types, Del_Records, Del_Assumption
<1>2. ASSUME NEW d \in Del_Deliveries
      PROVE  Del_CountOK(d) /\ Del_KeyOK(d)
  <2>1. Del_About(Del_request, d) = {} /\ Del_deploys[d] = 0 /\ Del_sends = 0 /\ ~Del!Deploying(d)
    BY DEF Del!Init, Del_About, Del_Assumption, Del!Idle, Del!None, Del!Deploying
  <2>2. \A p \in Del_Requests : ~Del_Takes(p, d)
    BY <2>1 DEF Del_Takes, Del!Deploying
  <2>3. QED
    BY <2>1, <2>2, FS_EmptySet DEF Del_CountOK, Del_KeyOK
<1>3. QED
  BY <1>1, <1>2 DEF Del_Inv, Del!Init

\* Steps that touch no request, no deploy and no key.
LEMMA Del_Aside ==
  ASSUME Del_Inv, Del_Types',
         UNCHANGED <<Del_claimed, Del_request, Del_deploys, Del_excused, Del_broken, Del_refused,
              Del_sends>>
  PROVE  Del_Inv'
BY DEF Del_Inv, Del_CountOK, Del_About, Del_KeyOK, Del_Takes, Del!Deploying, Del_Dealt,
   Del_Assumption

\* What each step does to the types.
LEMMA Del_TypesKept ==
  ASSUME Del_Inv, [Del!Next]_Del!vars
  PROVE  Del_Types'
<1> USE DEF Del_Inv, Del_Types, Del_Records, Del_Assumption, Del!Idle, Del!None
<1>1. ASSUME NEW q \in Del_Requests, NEW d \in Del_Deliveries, Del!Receive(q, d)
      PROVE  Del_Types'
  BY <1>1 DEF Del!Receive
<1>2. ASSUME NEW q \in Del_Requests, Del!Claim(q)
      PROVE  Del_Types'
  BY <1>2 DEF Del!Claim, Del!Goes, Del!Ends
<1>3. ASSUME NEW q \in Del_Requests, Del!ClaimLosesAnswer(q)
      PROVE  Del_Types'
  BY <1>3 DEF Del!ClaimLosesAnswer, Del!Goes
<1>4. ASSUME NEW q \in Del_Requests, Del!ClaimFails(q)
      PROVE  Del_Types'
  BY <1>4 DEF Del!ClaimFails, Del!Goes
<1>5. ASSUME NEW q \in Del_Requests, Del!Deploy(q)
      PROVE  Del_Types'
  BY <1>5 DEF Del!Deploy, Del!Ends
<1>6. CASE Del!Crash
  BY <1>6 DEF Del!Crash
<1>7. ASSUME NEW d \in Del_Deliveries, Del!Forget(d)
      PROVE  Del_Types'
  BY <1>7 DEF Del!Forget
<1>8. ASSUME NEW to \in {"up", "down", "refusing"}, Del!RedisTurns(to)
      PROVE  Del_Types'
  BY <1>8 DEF Del!RedisTurns
<1>9. CASE Del!Rotate \/ Del!Configure \/ Del!Toggle
  <2>1. CASE Del!Rotate
    BY <2>1 DEF Del!Rotate
  <2>2. CASE Del!Configure
    BY <2>2 DEF Del!Configure
  <2>3. CASE Del!Toggle
    BY <2>3 DEF Del!Toggle
  <2>4. QED
    BY <1>9, <2>1, <2>2, <2>3
<1>10. CASE UNCHANGED Del!vars
  BY <1>10 DEF Del!vars
<1>11. QED
  BY <1>1, <1>2, <1>3, <1>4, <1>5, <1>6, <1>7, <1>8, <1>9, <1>10 DEF Del!Next

\* A request that claims: the first one of its delivery goes on to deploy it.
LEMMA Del_ClaimStep ==
  ASSUME Del_Inv, Del_Types', NEW q \in Del_Requests, Del!Claim(q)
  PROVE  Del_Inv'
<1> DEFINE d == Del_request[q].id
<1>1. d \in Del_Deliveries /\ Del_request[q] \in Del_Records /\
        Del_request[q].at \in {"claim", "resend"}
  BY DEF Del!Claim, Del_Inv, Del_Types, Del_Records, Del!Idle
<1>2. UNCHANGED <<Del_deploys, Del_excused, Del_broken, Del_sends>>
  BY DEF Del!Claim
<1>3. CASE d \notin Del_claimed
  <2>1. /\ Del_claimed' = Del_claimed \cup {d} /\ Del_refused' = Del_refused
        /\ Del_request' = [Del_request EXCEPT ![q] = [at |-> "deploy", id |-> d]]
    BY <1>1, <1>3 DEF Del!Claim, Del!First, Del!Goes, Del_Inv, Del_Types, Del_Records, Del!Idle
  <2>2. [at |-> "deploy", id |-> d] \in Del_Records
    BY <1>1 DEF Del_Records
  <2>3. \A p \in Del_Requests, e \in Del_Deliveries :
           Del_Takes(p, e)' <=> (p = q /\ e = d) \/ (p # q /\ Del_Takes(p, e))
    BY <1>1, <2>1 DEF Del_Takes, Del_Inv, Del_Types
  <2>4. \A p \in Del_Requests, e \in Del_Deliveries : Del_Takes(p, e) => p # q
    BY <1>1 DEF Del_Takes
  <2> HIDE DEF d
  <2>5. ASSUME NEW e \in Del_Deliveries
        PROVE  Del_CountOK(e)'
    <3>1. Cardinality(Del_About(Del_request', e)) <= Cardinality(Del_About(Del_request, e))
          /\ Cardinality(Del_About(Del_request', e)) \in Nat
          /\ Cardinality(Del_About(Del_request, e)) \in Nat
      <4>1. \A p \in Del_Requests : Del_request'[p].id = Del_request[p].id
        BY <1>1, <2>1 DEF d, Del_Inv, Del_Types
      <4>2. QED
        BY <4>1, Del_OneChanges DEF Del_Inv, Del_Assumption
    <3>2. QED
      BY <1>2, <3>1 DEF Del_Inv, Del_CountOK, Del_Types
  <2>6. ASSUME NEW e \in Del_Deliveries \ Del_excused
        PROVE  Del_KeyOK(e)'
    BY <1>2, <1>3, <2>1, <2>3, <2>4 DEF Del_Inv, Del_KeyOK, Del!Deploying, Del_Takes, Del_Types
  <2>7. ASSUME NEW e \in (Del_claimed' \cup Del_refused') \ Del_broken
        PROVE  Del_Dealt(e)'
    BY <1>1, <1>2, <2>1, <2>3, <2>4 DEF Del_Inv, Del_Dealt, Del!Deploying, Del_Takes, Del_Types
  <2>8. QED
    BY <1>2, <2>5, <2>6, <2>7 DEF Del_Inv, Del_Assumption
<1>4. CASE d \in Del_claimed
  <2>1. /\ Del_claimed' = Del_claimed /\ Del_refused' = Del_refused \cup {d}
        /\ Del_request' = [Del_request EXCEPT ![q] = Del!Idle]
    BY <1>4 DEF Del!Claim, Del!First, Del!Ends
  <2>2. \A p \in Del_Requests, e \in Del_Deliveries : Del_Takes(p, e)' <=> Del_Takes(p, e)
    BY <1>1, <2>1 DEF Del_Takes, Del_Inv, Del_Types, Del!Idle
  <2> HIDE DEF d
  <2>3. ASSUME NEW e \in Del_Deliveries
        PROVE  Del_CountOK(e)'
    <3>1. Del!Idle \in Del_Records /\ Del!Idle.id # e
      BY DEF Del_Records, Del!Idle, Del_Inv, Del_Assumption, Del!None
    <3>2. Cardinality(Del_About(Del_request', e)) <= Cardinality(Del_About(Del_request, e))
          /\ Cardinality(Del_About(Del_request', e)) \in Nat
          /\ Cardinality(Del_About(Del_request, e)) \in Nat
      <4>1. Del_request'[q].id # e /\
              \A p \in Del_Requests \ {q} : Del_request'[p].id = Del_request[p].id
        BY <2>1, <3>1 DEF Del_Inv, Del_Types
      <4>2. QED
        BY <4>1, Del_OneChanges DEF Del_Inv, Del_Assumption
    <3>3. QED
      BY <1>2, <3>2 DEF Del_Inv, Del_CountOK, Del_Types
  <2>4. QED
    BY <1>1, <1>2, <1>4, <2>1, <2>2, <2>3
    DEF Del_Inv, Del_KeyOK, Del_Dealt, Del!Deploying, Del_Takes, Del_Types, Del_Assumption
<1>5. QED
  BY <1>3, <1>4

\* A claim without an answer will find its own key and be refused; its delivery is marked.
LEMMA Del_LosesStep ==
  ASSUME Del_Inv, Del_Types', NEW q \in Del_Requests, Del!ClaimLosesAnswer(q)
  PROVE  Del_Inv'
<1>1. /\ Del_request[q].id \in Del_Deliveries /\ Del_request[q] \in Del_Records
      /\ Del_request[q].at = "claim"
      /\ UNCHANGED <<Del_deploys, Del_excused, Del_refused, Del_sends>>
      /\ Del_claimed' = Del_claimed \cup {Del_request[q].id}
      /\ Del_broken \subseteq Del_broken'
      /\ (Del_request[q].id \notin Del_claimed => Del_request[q].id \in Del_broken')
  BY DEF Del!ClaimLosesAnswer, Del!First, Del_Inv, Del_Types, Del_Records, Del!Idle
<1>2. Del_request' = [Del_request EXCEPT ![q] = [at |-> "resend", id |-> Del_request[q].id]]
      /\ [at |-> "resend", id |-> Del_request[q].id] \in Del_Records
  <2>1. Del_Types /\ Del_request[q] # Del!Idle /\ Del!Goes(q, "resend")
    BY <1>1 DEF Del!ClaimLosesAnswer, Del_Inv, Del!Idle
  <2>2. QED
    BY <2>1, Del_GoesOn
<1>3. \A p \in Del_Requests, e \in Del_Deliveries : Del_Takes(p, e)' <=> Del_Takes(p, e)
  BY <1>1, <1>2 DEF Del_Takes, Del_Inv, Del_Types
<1>4. ASSUME NEW e \in Del_Deliveries
      PROVE  Del_CountOK(e)'
  <2>1. Cardinality(Del_About(Del_request', e)) <= Cardinality(Del_About(Del_request, e))
        /\ Cardinality(Del_About(Del_request', e)) \in Nat
        /\ Cardinality(Del_About(Del_request, e)) \in Nat
    <3>1. \A p \in Del_Requests : Del_request'[p].id = Del_request[p].id
      BY <1>2 DEF Del_Inv, Del_Types
    <3>2. QED
      BY <3>1, Del_OneChanges DEF Del_Inv, Del_Assumption
  <2>2. QED
    BY <1>1, <2>1 DEF Del_Inv, Del_CountOK, Del_Types
<1>5. QED
  BY <1>1, <1>3, <1>4
  DEF Del_Inv, Del_KeyOK, Del_Dealt, Del!Deploying, Del_Takes, Del_Types, Del_Assumption

\* An error reply excuses the delivery.
LEMMA Del_FailsStep ==
  ASSUME Del_Inv, Del_Types', NEW q \in Del_Requests, Del!ClaimFails(q)
  PROVE  Del_Inv'
<1>1. /\ Del_request[q].id \in Del_Deliveries /\ Del_request[q] \in Del_Records
      /\ Del_request[q].at \in {"claim", "resend"}
      /\ UNCHANGED <<Del_claimed, Del_deploys, Del_broken, Del_refused, Del_sends>>
      /\ Del_excused' = Del_excused \cup {Del_request[q].id}
  BY DEF Del!ClaimFails, Del_Inv, Del_Types, Del_Records, Del!Idle
<1>2. Del_request' = [Del_request EXCEPT ![q] = [at |-> "deploy", id |-> Del_request[q].id]]
      /\ [at |-> "deploy", id |-> Del_request[q].id] \in Del_Records
  <2>1. Del_Types /\ Del_request[q] # Del!Idle /\ Del!Goes(q, "deploy")
    BY <1>1 DEF Del!ClaimFails, Del_Inv, Del!Idle
  <2>2. QED
    BY <2>1, Del_GoesOn
<1>3. \A p \in Del_Requests, e \in Del_Deliveries :
         Del_Takes(p, e)' <=> Del_Takes(p, e) \/ (p = q /\ e = Del_request[q].id)
  BY <1>1, <1>2 DEF Del_Takes, Del_Inv, Del_Types
<1>4. ASSUME NEW e \in Del_Deliveries
      PROVE  Del_CountOK(e)'
  <2>1. Cardinality(Del_About(Del_request', e)) <= Cardinality(Del_About(Del_request, e))
        /\ Cardinality(Del_About(Del_request', e)) \in Nat
        /\ Cardinality(Del_About(Del_request, e)) \in Nat
    <3>1. \A p \in Del_Requests : Del_request'[p].id = Del_request[p].id
      BY <1>2 DEF Del_Inv, Del_Types
    <3>2. QED
      BY <3>1, Del_OneChanges DEF Del_Inv, Del_Assumption
  <2>2. QED
    BY <1>1, <2>1 DEF Del_Inv, Del_CountOK, Del_Types
<1>5. QED
  BY <1>1, <1>3, <1>4
  DEF Del_Inv, Del_KeyOK, Del_Dealt, Del!Deploying, Del_Takes, Del_Types, Del_Assumption

\* The deploy is queued, or it fails and the delivery is marked.
LEMMA Del_DeployStep ==
  ASSUME Del_Inv, Del_Types', NEW q \in Del_Requests, Del!Deploy(q)
  PROVE  Del_Inv'
<1>1. /\ Del_request[q].id \in Del_Deliveries /\ Del_Takes(q, Del_request[q].id)
      /\ Del_request' = [Del_request EXCEPT ![q] = Del!Idle]
      /\ UNCHANGED <<Del_claimed, Del_excused, Del_refused, Del_sends>>
      /\ \/ Del_deploys' = [Del_deploys EXCEPT ![Del_request[q].id] = @ + 1] /\
           Del_broken' = Del_broken
         \/ Del_broken' = Del_broken \cup {Del_request[q].id} /\ Del_deploys' = Del_deploys
  BY DEF Del!Deploy, Del!Ends, Del_Inv, Del_Types, Del_Records, Del!Idle, Del_Takes
<1>2. PICK d \in Del_Deliveries : d = Del_request[q].id
  BY <1>1
<1>3. \A p \in Del_Requests, e \in Del_Deliveries : Del_Takes(p, e)' <=> p # q /\ Del_Takes(p, e)
  BY <1>1 DEF Del_Takes, Del_Inv, Del_Types, Del!Idle
<1>4. \A e \in Del_Deliveries : Del_Takes(q, e) <=> e = d
  BY <1>1, <1>2 DEF Del_Takes
<1>5. /\ \A e \in Del_Deliveries : e # d => Del_deploys'[e] = Del_deploys[e]
      /\ Del_deploys'[d] \in {Del_deploys[d], Del_deploys[d] + 1}
      /\ Del_broken \subseteq Del_broken'
      /\ d \notin Del_broken' => Del_deploys'[d] = Del_deploys[d] + 1
  BY <1>1, <1>2 DEF Del_Inv, Del_Types
<1>6. ASSUME NEW e \in Del_Deliveries
      PROVE  Del_CountOK(e)'
  <2>1. Del!Idle \in Del_Records /\ Del!Idle.id # e
    BY DEF Del_Records, Del!Idle, Del_Inv, Del_Assumption, Del!None
  <2>2. /\ Cardinality(Del_About(Del_request', e)) <= Cardinality(Del_About(Del_request, e))
        /\ Cardinality(Del_About(Del_request', e)) \in Nat
        /\ Cardinality(Del_About(Del_request, e)) \in Nat
        /\ e = d => Cardinality(Del_About(Del_request',
             e)) + 1 <= Cardinality(Del_About(Del_request, e))
    <3>1. Del_request'[q].id # e /\
            \A p \in Del_Requests \ {q} : Del_request'[p].id = Del_request[p].id
      BY <1>1, <2>1 DEF Del_Inv, Del_Types
    <3>2. QED
      BY <1>2, <3>1, Del_OneChanges DEF Del_Inv, Del_Assumption
  <2>3. QED
    BY <1>1, <1>5, <2>2 DEF Del_Inv, Del_CountOK, Del_Types
<1>7. ASSUME NEW e \in Del_Deliveries \ Del_excused
      PROVE  Del_KeyOK(e)'
  <2>1. CASE e = d
    <3>1. Del_deploys[d] = 0 /\ d \in Del_claimed /\ \A p \in Del_Requests : ~Del_Takes(p, d)'
      BY <1>3, <1>4, <1>7, <2>1 DEF Del_Inv, Del_KeyOK, Del!Deploying, Del_Takes, Del_Types
    <3>2. QED
      BY <1>1, <1>5, <2>1, <3>1 DEF Del_KeyOK, Del!Deploying, Del_Takes
  <2>2. CASE e # d
    BY <1>1, <1>3, <1>4, <1>5, <2>2 DEF Del_Inv, Del_KeyOK, Del!Deploying, Del_Takes
  <2>3. QED
    BY <2>1, <2>2
<1>8. ASSUME NEW e \in (Del_claimed' \cup Del_refused') \ Del_broken'
      PROVE  Del_Dealt(e)'
  <2>1. CASE e = d
    BY <1>5, <1>8, <2>1 DEF Del_Dealt, Del_Inv, Del_Types
  <2>2. CASE e # d
    BY <1>1, <1>3, <1>4, <1>5, <1>8, <2>2 DEF Del_Inv, Del_Dealt, Del!Deploying, Del_Takes,
       Del_Types
  <2>3. QED
    BY <2>1, <2>2
<1>9. QED
  BY <1>1, <1>6, <1>7, <1>8 DEF Del_Inv, Del_Assumption

LEMMA Del_ReceiveStep ==
  ASSUME Del_Inv, Del_Types', NEW q \in Del_Requests, NEW d \in Del_Deliveries, Del!Receive(q, d)
  PROVE  Del_Inv'
<1>1. /\ Del_request[q] = Del!Idle /\ Del_sends' = Del_sends + 1
      /\ UNCHANGED <<Del_claimed, Del_deploys, Del_excused, Del_broken, Del_refused>>
      /\ Del_request' = Del_request \/
           Del_request' = [Del_request EXCEPT ![q] = [at |-> "claim", id |-> d]]
  BY DEF Del!Receive
<1>2. \A p \in Del_Requests, e \in Del_Deliveries : Del_Takes(p, e)' <=> Del_Takes(p, e)
  BY <1>1 DEF Del_Takes, Del_Inv, Del_Types, Del!Idle
<1>3. ASSUME NEW e \in Del_Deliveries
      PROVE  Del_CountOK(e)'
  <2>1. \A p \in Del_Requests \ {q} : Del_request'[p].id = Del_request[p].id
    BY <1>1 DEF Del_Inv, Del_Types
  <2>2. Cardinality(Del_About(Del_request', e)) <= Cardinality(Del_About(Del_request, e)) + 1
        /\ Cardinality(Del_About(Del_request', e)) \in Nat
        /\ Cardinality(Del_About(Del_request, e)) \in Nat
    BY <2>1, Del_OneChanges DEF Del_Inv, Del_Assumption
  <2>3. QED
    BY <1>1, <2>2 DEF Del_Inv, Del_CountOK, Del_Types
<1>4. QED
  BY <1>1, <1>2, <1>3
  DEF Del_Inv, Del_KeyOK, Del_Dealt, Del!Deploying, Del_Takes, Del_Types, Del_Assumption

\* A crash cuts off every deploy that was about to be queued, and marks its delivery.
LEMMA Del_CrashStep ==
  ASSUME Del_Inv, Del_Types', Del!Crash
  PROVE  Del_Inv'
<1>1. /\ Del_request' = [q \in Del_Requests |-> Del!Idle]
      /\ UNCHANGED <<Del_claimed, Del_deploys, Del_excused, Del_refused, Del_sends>>
      /\ Del_broken \subseteq Del_broken'
      /\ \A p \in Del_Requests : Del_request[p].at = "deploy" => Del_request[p].id \in Del_broken'
  BY DEF Del!Crash
<1>2. \A p \in Del_Requests, e \in Del_Deliveries : ~Del_Takes(p, e)'
  BY <1>1 DEF Del_Takes, Del!Idle
<1>3. ASSUME NEW e \in Del_Deliveries
      PROVE  Del_CountOK(e)'
  <2>1. Del_About(Del_request', e) = {} /\ Del_About(Del_request, e) \subseteq Del_Requests
    BY <1>1 DEF Del_About, Del!Idle, Del_Inv, Del_Assumption, Del!None
  <2>2. Cardinality(Del_About(Del_request', e)) = 0 /\
          Cardinality(Del_About(Del_request, e)) \in Nat
    <3>1. IsFiniteSet(Del_About(Del_request, e))
      BY <2>1, FS_Subset DEF Del_Inv, Del_Assumption
    <3>2. QED
      BY <2>1, <3>1, FS_EmptySet, FS_CardinalityType
  <2>3. QED
    BY <1>1, <2>2 DEF Del_Inv, Del_CountOK, Del_Types
<1>4. ASSUME NEW e \in (Del_claimed' \cup Del_refused') \ Del_broken'
      PROVE  Del_Dealt(e)'
  <2>1. \A p \in Del_Requests : ~Del_Takes(p, e)
    BY <1>1, <1>4 DEF Del_Takes
  <2>2. QED
    BY <1>1, <1>4, <2>1 DEF Del_Inv, Del_Dealt, Del!Deploying, Del_Takes
<1>5. QED
  BY <1>1, <1>2, <1>3, <1>4
  DEF Del_Inv, Del_KeyOK, Del!Deploying, Del_Takes, Del_Types, Del_Assumption

\* A key that Redis loses excuses its delivery.
LEMMA Del_ForgetStep ==
  ASSUME Del_Inv, Del_Types', NEW d \in Del_Deliveries, Del!Forget(d)
  PROVE  Del_Inv'
BY DEF Del_Inv, Del!Forget, Del_CountOK, Del_About, Del_KeyOK, Del_Takes, Del!Deploying, Del_Dealt,
   Del_Assumption

LEMMA Del_Step ==
  ASSUME Del_Inv, [Del!Next]_Del!vars
  PROVE  Del_Inv'
<1>1. Del_Types'
  BY Del_TypesKept
<1>2. CASE \E to \in {"up", "down", "refusing"} : Del!RedisTurns(to)
  BY <1>1, <1>2, Del_Aside DEF Del!RedisTurns
<1>3. CASE Del!Rotate \/ Del!Configure \/ Del!Toggle \/ UNCHANGED Del!vars
  BY <1>1, <1>3, Del_Aside DEF Del!Rotate, Del!Configure, Del!Toggle, Del!vars
<1>4. QED
  BY <1>1, <1>2, <1>3, Del_ClaimStep, Del_LosesStep, Del_FailsStep, Del_DeployStep, Del_ReceiveStep,
     Del_CrashStep, Del_ForgetStep DEF Del!Next

\* However often a delivery is sent, it queues one deploy unless Redis lost or did not take its key,
\* and it is turned away as a duplicate only when that deploy is queued, due or marked as failed.
THEOREM Deliveries_Hold == SumSpec => []IntakeInv
<1>1. SumInit => Del_Inv
  BY Del_InitInv, RecordsAssumption DEF SumInit
<1>2. [SumNext]_allVars => [Del!Next]_Del!vars
  BY DEF SumNext, allVars, intakeVars, Del!vars
<1>3. Del_Inv /\ [Del!Next]_Del!vars => Del_Inv'
  BY Del_Step
<1>4. Del_Inv => IntakeInv
  <2> SUFFICES ASSUME Del_Inv
               PROVE  Del!IntakeInv
    BY DEF IntakeInv
  <2>1. ASSUME NEW d \in Del_Deliveries
        PROVE  Del_deploys[d] \in 0..Del_MaxSends
    <3>1. Cardinality(Del_About(Del_request, d)) \in Nat
      <4>1. Del_About(Del_request, d) \subseteq Del_Requests /\ IsFiniteSet(Del_Requests)
        BY DEF Del_About, Del_Inv, Del_Assumption
      <4>2. QED
        BY <4>1, FS_Subset, FS_CardinalityType
    <3>2. QED
      BY <3>1 DEF Del_Inv, Del_CountOK, Del_Types, Del_Assumption
  <2>2. Del_deploys \in [Del_Deliveries -> 0..Del_MaxSends]
    BY <2>1 DEF Del_Inv, Del_Types
  <2>3. Del!TypeOK
    BY <2>2 DEF Del!TypeOK, Del_Inv, Del_Types, Del_Records, Del!Idle, Del!None
  <2>4. Del!DeployedOnce /\ Del!RefusedMeansDone
    BY DEF Del_Inv, Del_KeyOK, Del_Dealt, Del!DeployedOnce, Del!RefusedMeansDone, Del_Types
  <2>5. QED
    BY <2>3, <2>4 DEF Del!IntakeInv
<1>5. QED
  BY <1>1, <1>2, <1>3, <1>4, PTL DEF SumSpec

-----------------------------------------------------------------------------
(***************************************************************************)
(* Schedules.  While one request is under way for a schedule, its row already  *)
(* has what the second half of the request will do to the job.                  *)
(***************************************************************************)

Sch_Records == [id : Sch_Ids, then : {"register", "unregister", "delete"}] \cup {Sch!Idle}
Sch_Types ==
  /\ Sch_row \in [Sch_Ids -> {"absent", "on", "off"}] /\ Sch_used \subseteq Sch_Ids
  /\ Sch_jobs \subseteq Sch_Ids
  /\ Sch_request \in [Sch_Requests -> Sch_Records]
  /\ Sch_run \in [Sch_Ids -> {Sch!None, "read", "enqueue", "mark"}]
  /\ Sch_muddled \subseteq Sch_Ids /\ Sch_started \in BOOLEAN
  /\ Sch_ops \in 0..Sch_MaxOps /\ Sch_ticks \in 0..Sch_MaxTicks /\ Sch_faults \in 0..Sch_MaxFaults

\* What the rest of a request finds when nobody came between.
Sch_HalfDone(q) ==
  LET i == Sch_request[q].id IN
  /\ Sch_request[q].then = "register" => Sch_row[i] = "on"
  /\ Sch_request[q].then = "unregister" => Sch_row[i] = "off"
  /\ Sch_request[q].then = "delete" => i \notin Sch_jobs

Sch_JobOK(i) ==
  IF \E q \in Sch_Requests : Sch_request[q].id = i
  THEN /\ \A p, q \in Sch_Requests : Sch_request[p].id = i /\ Sch_request[q].id = i => p = q
       /\ \A q \in Sch_Requests : Sch_request[q].id = i => Sch_HalfDone(q)
  ELSE Sch_started => (i \in Sch_jobs <=> Sch_row[i] = "on")

Sch_Inv ==
  /\ Sch_Assumption /\ Sch_Types
  /\ ~Sch_started => Sch_muddled = {} /\ Sch_request = [q \in Sch_Requests |-> Sch!Idle]
  /\ \A i \in Sch_Ids \ Sch_muddled : Sch_JobOK(i)

LEMMA Sch_InitInv ==
  ASSUME Sch_Assumption, Sch!Init
  PROVE  Sch_Inv
<1>1. Sch_Types
  BY DEF Sch!Init, Sch_Types, Sch_Records, Sch_Assumption
<1>2. \A i \in Sch_Ids, q \in Sch_Requests : Sch_request[q].id # i
  BY DEF Sch!Init, Sch!Idle, Sch_Assumption
<1>3. QED
  BY <1>1, <1>2 DEF Sch!Init, Sch_Inv, Sch_JobOK

\* The first half of a request: what it does to the row and the jobs of its schedule.
LEMMA Sch_Begins ==
  ASSUME Sch_Inv, Sch_Types', NEW q \in Sch_Requests, NEW i \in Sch_Ids,
         NEW then \in {"register", "unregister", "delete"}, Sch!Request(q, i, then),
         Sch_started' = Sch_started,
         \A j \in Sch_Ids \ {i} : Sch_row'[j] = Sch_row[j] /\ (j \in Sch_jobs' <=> j \in Sch_jobs),
         then = "register" => Sch_row'[i] = "on",
         then = "unregister" => Sch_row'[i] = "off",
         then = "delete" => i \notin Sch_jobs'
  PROVE  Sch_Inv'
<1>1. /\ Sch_request[q] = Sch!Idle /\ Sch_started
      /\ Sch_request' = [Sch_request EXCEPT ![q] = [id |-> i, then |-> then]]
      /\ Sch_muddled' = IF \E p \in Sch_Requests : Sch_request[p].id = i THEN Sch_muddled \cup {i} ELSE Sch_muddled
  BY DEF Sch!Request
<1>2. Sch_request'[q] = [id |-> i, then |-> then] /\
        \A p \in Sch_Requests \ {q} : Sch_request'[p] = Sch_request[p]
  BY <1>1 DEF Sch_Inv, Sch_Types
<1>3. Sch_request[q].id = Sch!None /\ Sch!None \notin Sch_Ids
  BY <1>1 DEF Sch!Idle, Sch_Inv, Sch_Assumption
<1>4. ASSUME NEW j \in Sch_Ids \ Sch_muddled'
      PROVE  Sch_JobOK(j)'
  <2>1. j \in Sch_Ids \ Sch_muddled
    BY <1>1, <1>4
  <2>2. CASE j = i
    <3>1. \A p \in Sch_Requests : Sch_request'[p].id = i <=> p = q
      BY <1>1, <1>2, <1>4, <2>2
    <3>2. Sch_HalfDone(q)'
      BY <1>2 DEF Sch_HalfDone
    <3>3. QED
      BY <2>2, <3>1, <3>2 DEF Sch_JobOK
  <2>3. CASE j # i
    <3>1. \A p \in Sch_Requests : Sch_request'[p].id = j <=> Sch_request[p].id = j
      BY <1>2, <1>3, <2>3
    <3>2. \A p \in Sch_Requests : Sch_request[p].id = j => (Sch_HalfDone(p)' <=> Sch_HalfDone(p))
      BY <1>2, <1>3, <2>1, <2>3 DEF Sch_HalfDone
    <3>3. Sch_row'[j] = Sch_row[j] /\ (j \in Sch_jobs' <=> j \in Sch_jobs)
      BY <2>1, <2>3
    <3>4. Sch_JobOK(j)
      BY <2>1 DEF Sch_Inv
    <3>5. QED
      BY <3>1, <3>2, <3>3, <3>4 DEF Sch_JobOK
  <2>4. QED
    BY <2>2, <2>3
<1>5. QED
  BY <1>1, <1>4 DEF Sch_Inv, Sch_Assumption

\* The second half.
LEMMA Sch_Finishes ==
  ASSUME Sch_Inv, Sch_Types', NEW q \in Sch_Requests, Sch!Finish(q)
  PROVE  Sch_Inv'
<1>1. /\ Sch_request' = [Sch_request EXCEPT ![q] = Sch!Idle]
      /\ UNCHANGED <<Sch_muddled, Sch_started>>
      /\ Sch_row' = IF Sch_request[q].then = "delete" THEN [Sch_row EXCEPT ![Sch_request[q].id] = "absent"] ELSE Sch_row
      /\ Sch_jobs' = IF Sch_request[q].then = "register" THEN Sch_jobs \cup {Sch_request[q].id}
                     ELSE IF Sch_request[q].then = "unregister" THEN Sch_jobs \ {Sch_request[q].id} ELSE Sch_jobs
  BY DEF Sch!Finish
<1>2. /\ Sch_request[q].id \in Sch_Ids /\ Sch_request[q] # Sch!Idle
      /\ Sch_request[q].then \in {"register", "unregister", "delete"}
  BY DEF Sch!Finish, Sch_Inv, Sch_Types, Sch_Records
<1>3. PICK i \in Sch_Ids : i = Sch_request[q].id
  BY <1>2
<1>4. Sch_request'[q] = Sch!Idle /\ \A p \in Sch_Requests \ {q} : Sch_request'[p] = Sch_request[p]
  BY <1>1 DEF Sch_Inv, Sch_Types
<1>5. Sch!Idle.id = Sch!None /\ Sch!None \notin Sch_Ids
  BY DEF Sch!Idle, Sch_Inv, Sch_Assumption
<1>6. \A j \in Sch_Ids \ {i} : Sch_row'[j] = Sch_row[j] /\ (j \in Sch_jobs' <=> j \in Sch_jobs)
  BY <1>1, <1>3 DEF Sch_Inv, Sch_Types
<1>7. ASSUME NEW j \in Sch_Ids \ Sch_muddled
      PROVE  Sch_JobOK(j)'
  <2>1. Sch_JobOK(j)
    BY DEF Sch_Inv
  <2>2. CASE j = i
    <3>1. Sch_HalfDone(q) /\ \A p \in Sch_Requests : Sch_request'[p].id # i
      BY <1>3, <1>4, <1>5, <2>1, <2>2 DEF Sch_JobOK
    <3>2. i \in Sch_jobs' <=> Sch_row'[i] = "on"
      BY <1>1, <1>2, <1>3, <3>1 DEF Sch_HalfDone, Sch_Inv, Sch_Types
    <3>3. QED
      BY <2>2, <3>1, <3>2 DEF Sch_JobOK
  <2>3. CASE j # i
    <3>1. \A p \in Sch_Requests : Sch_request'[p].id = j <=> Sch_request[p].id = j
      BY <1>3, <1>4, <1>5, <2>3
    <3>2. \A p \in Sch_Requests : Sch_request[p].id = j => (Sch_HalfDone(p)' <=> Sch_HalfDone(p))
      BY <1>3, <1>4, <1>6, <2>3 DEF Sch_HalfDone
    <3>3. QED
      BY <1>1, <1>6, <2>1, <2>3, <3>1, <3>2 DEF Sch_JobOK
  <2>4. QED
    BY <2>2, <2>3
<1>8. Sch_started
  BY <1>2 DEF Sch_Inv
<1>9. QED
  BY <1>1, <1>7, <1>8 DEF Sch_Inv, Sch_Assumption

LEMMA Sch_TypesKept ==
  ASSUME Sch_Inv, [Sch!Next]_Sch!vars
  PROVE  Sch_Types'
<1> USE DEF Sch_Inv, Sch_Types, Sch_Records, Sch_Assumption, Sch!Idle, Sch!None
<1>1. ASSUME NEW q \in Sch_Requests, NEW i \in Sch_Ids,
             Sch!Create(q, i) \/ Sch!Remove(q, i) \/
                  \E to \in {"on", "off"} : Sch!SetEnabled(q, i, to)
      PROVE  Sch_Types'
  <2>1. CASE Sch!Create(q, i)
    BY <2>1 DEF Sch!Create, Sch!Request
  <2>2. CASE Sch!Remove(q, i)
    BY <2>2 DEF Sch!Remove, Sch!Request
  <2>3. ASSUME NEW to \in {"on", "off"}, Sch!SetEnabled(q, i, to)
        PROVE  Sch_Types'
    BY <2>3 DEF Sch!SetEnabled, Sch!Request
  <2>4. QED
    BY <1>1, <2>1, <2>2, <2>3
<1>2. ASSUME NEW q \in Sch_Requests, Sch!Finish(q)
      PROVE  Sch_Types'
  BY <1>2 DEF Sch!Finish
<1>3. ASSUME NEW i \in Sch_Ids, Sch!Tick(i) \/ Sch!ReadRow(i) \/ Sch!Enqueue(i) \/ Sch!Mark(i)
      PROVE  Sch_Types'
  BY <1>3 DEF Sch!Tick, Sch!ReadRow, Sch!Enqueue, Sch!Mark
<1>4. CASE Sch!Restart
  <2>1. Sch!Idle \in Sch_Records
    OBVIOUS
  <2>2. Sch_request' \in [Sch_Requests -> Sch_Records]
    BY <1>4, <2>1 DEF Sch!Restart
  <2>3. Sch_run' \in [Sch_Ids -> {Sch!None, "read", "enqueue", "mark"}]
    BY <1>4 DEF Sch!Restart
  <2>4. /\ Sch_jobs' = {} /\ Sch_muddled' = {} /\ Sch_started' = FALSE
        /\ Sch_faults' \in 0..Sch_MaxFaults
        /\ UNCHANGED <<Sch_row, Sch_used, Sch_ops, Sch_ticks>>
    BY <1>4 DEF Sch!Restart
  <2>5. QED
    BY <2>2, <2>3, <2>4
<1>5. CASE Sch!Bootstrap
  BY <1>5 DEF Sch!Bootstrap, Sch!On
<1>6. CASE UNCHANGED Sch!vars
  BY <1>6 DEF Sch!vars
<1>7. QED
  BY <1>1, <1>2, <1>3, <1>4, <1>5, <1>6 DEF Sch!Next

LEMMA Sch_Step ==
  ASSUME Sch_Inv, [Sch!Next]_Sch!vars
  PROVE  Sch_Inv'
<1>1. Sch_Types'
  BY Sch_TypesKept
<1>2. ASSUME NEW q \in Sch_Requests, NEW i \in Sch_Ids, Sch!Create(q, i)
      PROVE  Sch_Inv'
  <2>1. /\ Sch!Request(q, i, "register") /\ Sch_started' = Sch_started /\ Sch_row'[i] = "on"
        /\ \A j \in Sch_Ids \ {i} : Sch_row'[j] = Sch_row[j] /\ (j \in Sch_jobs' <=> j \in Sch_jobs)
    BY <1>2 DEF Sch!Create, Sch_Inv, Sch_Types
  <2>2. QED
    BY <1>1, <2>1, Sch_Begins
<1>3. ASSUME NEW q \in Sch_Requests, NEW i \in Sch_Ids, NEW to \in {"on", "off"},
        Sch!SetEnabled(q, i, to)
      PROVE  Sch_Inv'
  <2>1. /\ Sch!Request(q, i, IF to = "on" THEN "register" ELSE "unregister")
        /\ Sch_started' = Sch_started /\ Sch_row'[i] = to
        /\ \A j \in Sch_Ids \ {i} : Sch_row'[j] = Sch_row[j] /\ (j \in Sch_jobs' <=> j \in Sch_jobs)
    BY <1>3 DEF Sch!SetEnabled, Sch_Inv, Sch_Types
  <2>2. CASE to = "on"
    BY <1>1, <2>1, <2>2, Sch_Begins
  <2>3. CASE to = "off"
    BY <1>1, <2>1, <2>3, Sch_Begins
  <2>4. QED
    BY <2>2, <2>3
<1>4. ASSUME NEW q \in Sch_Requests, NEW i \in Sch_Ids, Sch!Remove(q, i)
      PROVE  Sch_Inv'
  <2>1. /\ Sch!Request(q, i, "delete") /\ Sch_started' = Sch_started /\ i \notin Sch_jobs'
        /\ \A j \in Sch_Ids \ {i} : Sch_row'[j] = Sch_row[j] /\ (j \in Sch_jobs' <=> j \in Sch_jobs)
    BY <1>4 DEF Sch!Remove
  <2>2. QED
    BY <1>1, <2>1, Sch_Begins
<1>5. CASE (\E i \in Sch_Ids : Sch!Tick(i) \/ Sch!ReadRow(i) \/ Sch!Enqueue(i) \/ Sch!Mark(i)) \/
        UNCHANGED Sch!vars
  <2>1. UNCHANGED <<Sch_row, Sch_jobs, Sch_request, Sch_muddled, Sch_started>>
    BY <1>5 DEF Sch!Tick, Sch!ReadRow, Sch!Enqueue, Sch!Mark, Sch!vars
  <2>2. QED
    BY <1>1, <2>1 DEF Sch_Inv, Sch_JobOK, Sch_HalfDone, Sch_Assumption
<1>6. CASE Sch!Restart
  <2>1. /\ ~Sch_started' /\ Sch_muddled' = {} /\ Sch_request' = [q \in Sch_Requests |-> Sch!Idle]
        /\ \A i \in Sch_Ids, q \in Sch_Requests : Sch_request'[q].id # i
    BY <1>6 DEF Sch!Restart, Sch!Idle, Sch_Inv, Sch_Assumption
  <2>2. QED
    BY <1>1, <2>1 DEF Sch_Inv, Sch_JobOK, Sch_Assumption
<1>7. CASE Sch!Bootstrap
  <2>1. /\ Sch_started' /\ UNCHANGED <<Sch_row, Sch_request>>
        /\ Sch_jobs' = {i \in Sch_Ids : Sch_row[i] = "on"}
        /\ \A i \in Sch_Ids, q \in Sch_Requests : Sch_request[q].id # i
    BY <1>7 DEF Sch!Bootstrap, Sch!On, Sch!Idle, Sch_Inv, Sch_Assumption
  <2>2. QED
    BY <1>1, <2>1 DEF Sch_Inv, Sch_JobOK, Sch_Assumption
<1>8. QED
  BY <1>1, <1>2, <1>3, <1>4, <1>5, <1>6, <1>7, Sch_Finishes DEF Sch!Next

\* Once no request is under way for a schedule it has a job exactly when its row is enabled,
\* through restarts too, unless two requests for it overlapped since the server started.
THEOREM Schedules_Hold == SumSpec => []SchedulesInv
<1>1. SumInit => Sch_Inv
  BY Sch_InitInv, RecordsAssumption DEF SumInit
<1>2. [SumNext]_allVars => [Sch!Next]_Sch!vars
  BY DEF SumNext, allVars, schedulesVars, Sch!vars
<1>3. Sch_Inv /\ [Sch!Next]_Sch!vars => Sch_Inv'
  BY Sch_Step
<1>4. Sch_Inv => SchedulesInv
  <2> SUFFICES ASSUME Sch_Inv
               PROVE  Sch!SchedulesInv
    BY DEF SchedulesInv
  <2>1. Sch!TypeOK
    BY DEF Sch!TypeOK, Sch_Inv, Sch_Types, Sch_Records, Sch!Idle, Sch!None
  <2>2. Sch!JobsMatchRows
    BY DEF Sch_Inv, Sch_JobOK, Sch!JobsMatchRows, Sch!Settled
  <2>3. QED
    BY <2>1, <2>2 DEF Sch!SchedulesInv
<1>5. QED
  BY <1>1, <1>2, <1>3, <1>4, PTL DEF SumSpec

-----------------------------------------------------------------------------
(***************************************************************************)
(* Accounts.  A request that could take an administrator away was asked for by *)
(* another administrator who can sign in; that one stays for as long as no      *)
(* other request is under way.                                                    *)
(***************************************************************************)

Acc_Rows == [email : Acc_Emails, role : Acc!Roles, disabled : BOOLEAN]

\* What a request carries, by what it asks for.
Acc_WellFormed(a) ==
  /\ a.op \in {"create", "update", "disable", "enable", "remove"}
  /\ a.op = "create" => a.email \in Acc_Emails /\ a.role \in Acc!Roles
  /\ a.op # "create" => a.target \in Acc_Users
  /\ a.email \in Acc_Emails \cup {"none"} /\ a.role \in Acc!Roles \cup {"none"}

Acc_Unique == \A u, v \in Acc_Users : Acc!Exists(u) /\ Acc_row[u].email = Acc_row[v].email => u = v

Acc_Admin(u) == Acc!Enabled(u) /\ Acc_row[u].role = "ADMIN"
\* A request under way leaves somebody in charge.
Acc_Leaves(a) ==
  a.op \in {"disable", "remove"} \/ (a.op = "update" /\ a.role = "VIEWER") =>
    \E u \in Acc_Users \ {a.target} : Acc_Admin(u)

Acc_Inv ==
  /\ Acc_Assumption /\ Acc!TypeOK /\ Acc_Unique
  /\ ~Acc_overlapped => /\ \E u \in Acc_Users : Acc_Admin(u)
                        /\ \A q, r \in Acc_Requests : Acc_request[q] # Acc!Idle /\
                             Acc_request[r] # Acc!Idle => q = r
                        /\ \A r \in Acc_Requests : Acc_request[r] # Acc!Idle =>
                             Acc_Leaves(Acc_request[r])

LEMMA Acc_Asked ==
  ASSUME NEW a \in Acc!Asks \cup {[b EXCEPT !.at = "checked"] : b \in Acc!Asks}
  PROVE  Acc_WellFormed(a) /\ a # Acc!Idle /\ a.at \in {"asked", "checked"}
<1>1. ASSUME NEW b \in Acc!Asks
      PROVE  /\ Acc_WellFormed(b) /\ b # Acc!Idle /\ b.at = "asked"
             /\ LET c == [b EXCEPT !.at = "checked"]
                IN  c.at = "checked" /\ c.op = b.op /\ c.target = b.target
                    /\ c.email = b.email /\ c.role = b.role
  BY DEF Acc!Asks, Acc_WellFormed, Acc!Idle, Acc!Roles
<1>2. ASSUME NEW b \in Acc!Asks, a = [b EXCEPT !.at = "checked"]
      PROVE  Acc_WellFormed(a) /\ a # Acc!Idle /\ a.at \in {"asked", "checked"}
  BY <1>1, <1>2 DEF Acc_WellFormed, Acc!Idle
<1>3. QED
  BY <1>1, <1>2

LEMMA Acc_SeededRows ==
  ASSUME Acc_Assumption, NEW f \in [Acc_Users -> Acc_Rows \cup {Acc!Gone}], NEW g \in Acc!Seeded(f)
  PROVE  /\ g \in [Acc_Users -> Acc_Rows \cup {Acc!Gone}]
         /\ \A u \in Acc_Users : f[u] # Acc!Gone => g[u] = f[u]
         /\ \A u \in Acc_Users : g[u] # f[u] =>
              /\ g[u] = [email |-> Acc_SeedEmail, role |-> "ADMIN", disabled |-> FALSE]
                                                /\ \A v \in Acc_Users : f[v].email # Acc_SeedEmail
         /\ \A u, v \in Acc_Users : g[u] # f[u] /\ g[v] # f[v] => u = v
         /\ \E u \in Acc_Users : g[u].email = Acc_SeedEmail
<1> DEFINE new == [email |-> Acc_SeedEmail, role |-> "ADMIN", disabled |-> FALSE]
<1>1. new \in Acc_Rows
  BY DEF Acc_Rows, Acc!Roles, Acc_Assumption
<1>2. CASE \E u \in Acc_Users : f[u].email = Acc_SeedEmail
  <2>1. g = f
    BY <1>2 DEF Acc!Seeded
  <2>2. QED
    BY <1>2, <2>1
<1>3. CASE ~\E u \in Acc_Users : f[u].email = Acc_SeedEmail
  <2>1. PICK w \in Acc_Users : f[w] = Acc!Gone /\ g = [f EXCEPT ![w] = new]
    BY <1>3 DEF Acc!Seeded
  <2>2. QED
    BY <1>1, <1>3, <2>1
<1>4. QED
  BY <1>2, <1>3

\* The bootstrap administrator of an empty table.
LEMMA Acc_InitInv ==
  ASSUME Acc_Assumption, Acc!Init
  PROVE  Acc_Inv
<1> DEFINE empty == [u \in Acc_Users |-> Acc!Gone]
<1>1. empty \in [Acc_Users -> Acc_Rows \cup {Acc!Gone}]
  OBVIOUS
<1>2. \E g : g \in Acc!Seeded(empty)
  <2>1. PICK w \in Acc_Users : TRUE
    BY DEF Acc_Assumption
  <2>2. ~\E u \in Acc_Users : empty[u].email = Acc_SeedEmail
    BY DEF Acc!Gone, Acc_Assumption
  <2>3. QED
    BY <2>1, <2>2 DEF Acc!Seeded
<1>3. Acc_row \in Acc!Seeded(empty)
  BY <1>2 DEF Acc!Init
<1>4. /\ Acc_row \in [Acc_Users -> Acc_Rows \cup {Acc!Gone}]
      /\ \A u \in Acc_Users : Acc_row[u] # Acc!Gone =>
           Acc_row[u] = [email |-> Acc_SeedEmail, role |-> "ADMIN", disabled |-> FALSE]
      /\ \A u, v \in Acc_Users : Acc_row[u] # Acc!Gone /\ Acc_row[v] # Acc!Gone => u = v
      /\ \E u \in Acc_Users : Acc_row[u].email = Acc_SeedEmail
  <2>1. \A u \in Acc_Users : empty[u] = Acc!Gone
    OBVIOUS
  <2> HIDE DEF empty
  <2>2. /\ Acc_row \in [Acc_Users -> Acc_Rows \cup {Acc!Gone}]
        /\ \A u \in Acc_Users : Acc_row[u] # empty[u] =>
             Acc_row[u] = [email |-> Acc_SeedEmail, role |-> "ADMIN", disabled |-> FALSE]
        /\ \A u, v \in Acc_Users : Acc_row[u] # empty[u] /\ Acc_row[v] # empty[v] => u = v
        /\ \E u \in Acc_Users : Acc_row[u].email = Acc_SeedEmail
    BY <1>1, <1>3, Acc_SeededRows
  <2>3. QED
    BY <2>1, <2>2
<1>5. Acc!Gone.email = "none" /\ "none" \notin Acc_Emails /\ Acc_SeedEmail \in Acc_Emails
  BY DEF Acc!Gone, Acc_Assumption
<1>6. Acc!TypeOK
  <2>1. Acc_row \in [Acc_Users -> [email : Acc_Emails, role : Acc!Roles,
          disabled : BOOLEAN] \cup {Acc!Gone}]
    BY <1>4 DEF Acc_Rows
  <2>2. Acc_overlapped \in BOOLEAN /\ Acc_ops \in 0..Acc_MaxOps
    <3>1. Acc_overlapped = FALSE /\ Acc_ops = 0
      BY DEF Acc!Init
    <3>2. Acc_overlapped \in BOOLEAN
      BY <3>1
    <3>3. Acc_ops \in 0..Acc_MaxOps
      BY <3>1 DEF Acc_Assumption
    <3>4. QED
      BY <3>2, <3>3
  <2>3. Acc_request = [r \in Acc_Requests |-> Acc!Idle]
    BY DEF Acc!Init
  <2> DEFINE T == Acc!Asks \cup {[a EXCEPT !.at = "checked"] : a \in Acc!Asks} \cup {Acc!Idle}
  <2>4. Acc_request \in [Acc_Requests -> T]
    <3>1. Acc!Idle \in T
      OBVIOUS
    <3> HIDE DEF T
    <3>2. QED
      BY <2>3, <3>1
  <2>5. QED
    BY <2>1, <2>2, <2>4, Zenon DEF Acc!TypeOK
<1>7. Acc_Unique
  BY <1>4, <1>5 DEF Acc_Unique, Acc!Exists
<1>8. \E u \in Acc_Users : Acc_Admin(u)
  BY <1>4, <1>5 DEF Acc_Admin, Acc!Enabled, Acc!Exists
<1>9. \A r \in Acc_Requests : Acc_request[r] = Acc!Idle
  BY DEF Acc!Init
<1>10. QED
  BY <1>6, <1>7, <1>8, <1>9 DEF Acc_Inv

\* A request arrives: its actor is another administrator if it takes one away.
LEMMA Acc_ArriveStep ==
  ASSUME Acc_Inv, NEW r \in Acc_Requests, Acc!Arrive(r)
  PROVE  Acc_Inv'
<1>1. PICK a \in Acc!Asks, actor \in Acc_Users :
        /\ Acc!Enabled(actor) /\ Acc!RouteAllows(a, actor) /\ Acc!Demands(a, actor)
        /\ Acc!OnOneself(a, actor) /\ Acc_request' = [Acc_request EXCEPT ![r] = a]
  BY DEF Acc!Arrive
<1>2. /\ Acc_row' = Acc_row /\ Acc_request[r] = Acc!Idle /\ Acc_ops < Acc_MaxOps
      /\ Acc_ops' = Acc_ops + 1
      /\ Acc_overlapped' \in BOOLEAN
      /\ ~Acc_overlapped' => ~Acc_overlapped /\
           \A q \in Acc_Requests \ {r} : Acc_request[q] = Acc!Idle
  BY DEF Acc!Arrive, Acc_Inv, Acc!TypeOK
<1>3. Acc_WellFormed(a)
  BY Acc_Asked
<1>4. Acc!TypeOK'
  BY <1>1, <1>2 DEF Acc_Inv, Acc!TypeOK, Acc_Assumption
<1>5. \A q \in Acc_Requests : Acc_request'[q] = IF q = r THEN a ELSE Acc_request[q]
  BY <1>1 DEF Acc_Inv, Acc!TypeOK
<1>6. Acc_Leaves(a)
  <2>1. ASSUME a.op \in {"disable", "remove"} \/ (a.op = "update" /\ a.role = "VIEWER")
        PROVE  actor # a.target /\ Acc_Admin(actor)
    BY <1>1, <2>1 DEF Acc!RouteAllows, Acc!Demands, Acc!OnOneself, Acc_Admin
  <2>2. QED
    BY <2>1 DEF Acc_Leaves
<1>7. \A b : Acc_Leaves(b)' <=> Acc_Leaves(b)
  BY <1>2 DEF Acc_Leaves, Acc_Admin, Acc!Enabled, Acc!Exists
<1>8. Acc_Unique' /\ \A u \in Acc_Users : Acc_Admin(u)' <=> Acc_Admin(u)
  BY <1>2 DEF Acc_Inv, Acc_Unique, Acc_Admin, Acc!Enabled, Acc!Exists
<1>9. CASE Acc_overlapped'
  BY <1>4, <1>8, <1>9 DEF Acc_Inv, Acc_Assumption
<1>10. CASE ~Acc_overlapped'
  <2>1. ~Acc_overlapped /\ \A q \in Acc_Requests \ {r} : Acc_request'[q] = Acc!Idle
    BY <1>2, <1>5, <1>10
  <2>2. \A q \in Acc_Requests : Acc_request'[q] # Acc!Idle => q = r /\ Acc_Leaves(Acc_request[q])'
    BY <1>5, <1>6, <1>7, <2>1
  <2>3. QED
    BY <1>4, <1>8, <1>10, <2>1, <2>2 DEF Acc_Inv, Acc_Assumption
<1>11. QED
  BY <1>9, <1>10

\* The handler reads: the request goes on as it was, or ends.
LEMMA Acc_CheckStep ==
  ASSUME Acc_Inv, NEW r \in Acc_Requests, Acc!Check(r)
  PROVE  Acc_Inv'
<1>1. /\ UNCHANGED <<Acc_row, Acc_overlapped, Acc_ops>> /\ Acc_request[r].at = "asked"
      /\ \/ Acc_request' = [Acc_request EXCEPT ![r] = [Acc_request[r] EXCEPT !.at = "checked"]]
         \/ Acc_request' = [Acc_request EXCEPT ![r] = Acc!Idle]
  BY DEF Acc!Check, Acc_Inv, Acc!TypeOK
<1>2. Acc_request[r] \in Acc!Asks
  <2>1. \A b \in Acc!Asks : [b EXCEPT !.at = "checked"].at = "checked"
    BY DEF Acc!Asks
  <2>2. Acc_request[r] # Acc!Idle
    BY <1>1 DEF Acc!Idle
  <2>3. QED
    BY <1>1, <2>1, <2>2 DEF Acc_Inv, Acc!TypeOK
<1>3. Acc!TypeOK'
  BY <1>1, <1>2 DEF Acc_Inv, Acc!TypeOK
<1>4. /\ \A q \in Acc_Requests \ {r} : Acc_request'[q] = Acc_request[q]
      /\ Acc_request'[r] # Acc!Idle => Acc_request'[r].op = Acc_request[r].op /\
           Acc_request'[r].role = Acc_request[r].role
                                       /\ Acc_request'[r].target = Acc_request[r].target
      /\ Acc_request[r] # Acc!Idle
  BY <1>1, <1>2 DEF Acc_Inv, Acc!TypeOK, Acc!Asks, Acc!Idle
<1>5. Acc_Unique' /\ \A u \in Acc_Users : Acc_Admin(u)' <=> Acc_Admin(u)
  BY <1>1 DEF Acc_Inv, Acc_Unique, Acc_Admin, Acc!Enabled, Acc!Exists
<1>6. \A q \in Acc_Requests : Acc_request'[q] # Acc!Idle /\ Acc_Leaves(Acc_request[q]) =>
        Acc_Leaves(Acc_request[q])'
  BY <1>4, <1>5 DEF Acc_Leaves
<1>7. QED
  BY <1>1, <1>3, <1>4, <1>5, <1>6 DEF Acc_Inv, Acc_Assumption

\* The statement: what it does to the rows.
LEMMA Acc_Writes ==
  ASSUME Acc_Inv, NEW r \in Acc_Requests, Acc!Write(r)
  PROVE  LET a == Acc_request[r] IN
         /\ Acc_WellFormed(a) /\ Acc_request[r] # Acc!Idle
         /\ Acc_row' \in [Acc_Users -> Acc_Rows \cup {Acc!Gone}]
         /\ Acc_Unique'
         /\ \A u \in Acc_Users : Acc_Admin(u) /\ ~Acc_Admin(u)' =>
              /\ u = a.target
              /\ a.op \in {"disable", "remove"} \/ (a.op = "update" /\ a.role = "VIEWER")
<1>1. PICK a : a = Acc_request[r]
  OBVIOUS
<1>2. Acc_WellFormed(a) /\ a # Acc!Idle
  <2>1. a # Acc!Idle
    BY <1>1 DEF Acc!Write, Acc!Idle
  <2>2. QED
    BY <1>1, <2>1, Acc_Asked DEF Acc_Inv, Acc!TypeOK
<1>3. Acc_row' \in Acc!After(a) /\ Acc_row \in [Acc_Users -> Acc_Rows \cup {Acc!Gone}]
  BY <1>1 DEF Acc!Write, Acc_Inv, Acc!TypeOK, Acc_Rows, Acc!Roles
<1>4. Acc!Gone.email = "none" /\ "none" \notin Acc_Emails /\ Acc!Gone.role = "none"
  BY DEF Acc!Gone, Acc_Inv, Acc_Assumption
<1> DEFINE Goal == /\ Acc_row' \in [Acc_Users -> Acc_Rows \cup {Acc!Gone}] /\ Acc_Unique'
                   /\ \A u \in Acc_Users : Acc_Admin(u) /\ ~Acc_Admin(u)' =>
                        /\ u = a.target
                        /\ a.op \in {"disable", "remove"} \/ (a.op = "update" /\ a.role = "VIEWER")
<1>5. ASSUME Acc_row' = Acc_row
      PROVE  Goal
  BY <1>3, <1>5 DEF Acc_Inv, Acc_Unique, Acc_Admin, Acc!Enabled, Acc!Exists
<1>6. ASSUME a.op = "create", Acc_row' # Acc_row
      PROVE  Goal
  <2>1. ~Acc!Taken(a.email) /\ Acc_row' \in Acc!Created(a)
    BY <1>3, <1>6 DEF Acc!After
  <2>2. PICK w \in Acc_Users : Acc_row[w] = Acc!Gone
                               /\ Acc_row' = [Acc_row EXCEPT ![w] = [email |-> a.email,
                                    role |-> a.role, disabled |-> FALSE]]
    BY <2>1 DEF Acc!Created, Acc!Exists
  <2>3. [email |-> a.email, role |-> a.role, disabled |-> FALSE] \in Acc_Rows
    BY <1>2, <1>6 DEF Acc_Rows, Acc_WellFormed
  <2>4. Acc_row' \in [Acc_Users -> Acc_Rows \cup {Acc!Gone}]
    BY <1>3, <2>2, <2>3
  <2>5. \A u \in Acc_Users : Acc_row[u].email # a.email
    BY <2>1 DEF Acc!Taken
  <2>6. \A u \in Acc_Users : /\ u # w => Acc_row'[u] = Acc_row[u]
                             /\ Acc_row'[w].email = a.email /\ Acc_row[w] = Acc!Gone
    BY <1>3, <2>2
  <2>7. Acc_Unique'
    BY <2>5, <2>6 DEF Acc_Inv, Acc_Unique, Acc!Exists
  <2>8. \A u \in Acc_Users : Acc_Admin(u) => Acc_Admin(u)'
    BY <2>6 DEF Acc_Admin, Acc!Enabled, Acc!Exists
  <2>9. QED
    BY <2>4, <2>7, <2>8
<1>7. ASSUME a.op = "update", Acc_row' # Acc_row
      PROVE  Goal
  <2>1. Acc_row' = Acc!Updated(a) /\ Acc!Exists(a.target) /\ (a.email = "none" \/ Acc!Unique(a))
    BY <1>3, <1>7 DEF Acc!After
  <2>2. a.target \in Acc_Users /\ Acc_row[a.target] \in Acc_Rows
    BY <1>2, <1>3, <1>7, <2>1 DEF Acc_WellFormed, Acc!Exists
  <2>3. PICK new \in Acc_Rows :
          /\ Acc_row' = [Acc_row EXCEPT ![a.target] = new]
          /\ new.disabled = Acc_row[a.target].disabled
          /\ new.email = IF a.email = "none" THEN Acc_row[a.target].email ELSE a.email
          /\ new.role = IF a.role = "none" THEN Acc_row[a.target].role ELSE a.role
    <3> DEFINE new == [email |-> IF a.email = "none" THEN Acc_row[a.target].email ELSE a.email,
                       role |-> IF a.role = "none" THEN Acc_row[a.target].role ELSE a.role,
                       disabled |-> Acc_row[a.target].disabled]
    <3>1. new \in Acc_Rows
      BY <1>2, <2>2 DEF Acc_WellFormed, Acc_Rows
    <3>2. Acc_row' = [Acc_row EXCEPT ![a.target] = new]
      BY <2>1 DEF Acc!Updated
    <3>3. QED
      BY <3>1, <3>2
  <2>4. Acc_row' \in [Acc_Users -> Acc_Rows \cup {Acc!Gone}]
        /\ \A u \in Acc_Users : Acc_row'[u] = IF u = a.target THEN new ELSE Acc_row[u]
    BY <1>3, <2>2, <2>3
  <2>5. \A u \in Acc_Users \ {a.target} : Acc_row[u].email # new.email
    BY <2>1, <2>2, <2>3 DEF Acc!Unique, Acc_Inv, Acc_Unique, Acc!Exists
  <2>6. Acc_Unique'
    BY <2>4, <2>5 DEF Acc_Inv, Acc_Unique, Acc!Exists
  <2>7. new # Acc!Gone
    BY <1>4, <2>3 DEF Acc_Rows
  <2>8. ASSUME NEW u \in Acc_Users, Acc_Admin(u), ~Acc_Admin(u)'
        PROVE  u = a.target /\ a.role = "VIEWER"
    BY <1>2, <2>3, <2>4, <2>7, <2>8 DEF Acc_Admin, Acc!Enabled, Acc!Exists, Acc_WellFormed,
       Acc!Roles
  <2>9. QED
    BY <1>7, <2>4, <2>6, <2>8
<1>8. ASSUME a.op \in {"disable", "enable"}, Acc_row' # Acc_row
      PROVE  Goal
  <2>1. Acc!Exists(a.target) /\ Acc_row' = [Acc_row EXCEPT ![a.target].disabled = (a.op = "disable")]
    BY <1>3, <1>8 DEF Acc!After
  <2>2. a.target \in Acc_Users /\ Acc_row[a.target] \in Acc_Rows
    BY <1>2, <1>3, <1>8, <2>1 DEF Acc_WellFormed, Acc!Exists
  <2>3. PICK new \in Acc_Rows :
          /\ Acc_row' = [Acc_row EXCEPT ![a.target] = new]
          /\ new.disabled = (a.op = "disable")
          /\ new.email = Acc_row[a.target].email /\ new.role = Acc_row[a.target].role
    <3>1. PICK off \in BOOLEAN : off = (a.op = "disable")
      OBVIOUS
    <3> DEFINE new == [Acc_row[a.target] EXCEPT !.disabled = off]
    <3>2. /\ new \in Acc_Rows /\ new.disabled = off
          /\ new.email = Acc_row[a.target].email /\ new.role = Acc_row[a.target].role
      BY <2>2 DEF Acc_Rows
    <3>3. Acc_row' = [Acc_row EXCEPT ![a.target] = new]
      BY <2>1, <3>1
    <3> HIDE DEF new
    <3>4. QED
      BY <3>1, <3>2, <3>3
  <2>4. Acc_row' \in [Acc_Users -> Acc_Rows \cup {Acc!Gone}]
        /\ \A u \in Acc_Users : Acc_row'[u] = IF u = a.target THEN new ELSE Acc_row[u]
    BY <1>3, <2>2, <2>3
  <2>5. Acc_Unique'
    BY <2>1, <2>3, <2>4 DEF Acc_Inv, Acc_Unique, Acc!Exists
  <2>6. new # Acc!Gone
    BY <1>4, <2>3 DEF Acc_Rows
  <2>7. ASSUME NEW u \in Acc_Users, Acc_Admin(u), ~Acc_Admin(u)'
        PROVE  u = a.target /\ a.op = "disable"
    BY <1>8, <2>3, <2>4, <2>6, <2>7 DEF Acc_Admin, Acc!Enabled, Acc!Exists
  <2>8. QED
    BY <2>4, <2>5, <2>7
<1>9. ASSUME a.op = "remove", Acc_row' # Acc_row
      PROVE  Goal
  <2>1. Acc_row' = [Acc_row EXCEPT ![a.target] = Acc!Gone] /\ a.target \in Acc_Users
    BY <1>2, <1>3, <1>9 DEF Acc!After, Acc_WellFormed
  <2>2. Acc_row' \in [Acc_Users -> Acc_Rows \cup {Acc!Gone}]
        /\ \A u \in Acc_Users : Acc_row'[u] = IF u = a.target THEN Acc!Gone ELSE Acc_row[u]
    BY <1>3, <2>1
  <2>3. Acc_Unique'
    <3>1. \A u \in Acc_Users : Acc!Exists(u) => Acc_row[u].email \in Acc_Emails
      BY <1>3 DEF Acc!Exists, Acc_Rows
    <3>2. QED
      BY <1>4, <2>2, <3>1 DEF Acc_Inv, Acc_Unique, Acc!Exists
  <2>4. \A u \in Acc_Users : Acc_Admin(u) /\ ~Acc_Admin(u)' => u = a.target
    BY <2>2 DEF Acc_Admin, Acc!Enabled, Acc!Exists
  <2>5. QED
    BY <1>9, <2>2, <2>3, <2>4
<1>10. QED
  BY <1>1, <1>2, <1>5, <1>6, <1>7, <1>8, <1>9 DEF Acc_WellFormed

LEMMA Acc_WriteStep ==
  ASSUME Acc_Inv, NEW r \in Acc_Requests, Acc!Write(r)
  PROVE  Acc_Inv'
<1>1. /\ Acc_request[r] # Acc!Idle /\ Acc_row' \in [Acc_Users -> Acc_Rows \cup {Acc!Gone}]
      /\ Acc_Unique'
      /\ \A u \in Acc_Users : Acc_Admin(u) /\ ~Acc_Admin(u)' =>
           /\ u = Acc_request[r].target
           /\ \/ Acc_request[r].op \in {"disable", "remove"}
              \/ Acc_request[r].op = "update" /\ Acc_request[r].role = "VIEWER"
  BY Acc_Writes
<1>2. Acc_request' = [Acc_request EXCEPT ![r] = Acc!Idle] /\ UNCHANGED <<Acc_overlapped, Acc_ops>>
  BY DEF Acc!Write
<1>3. Acc!TypeOK'
  BY <1>1, <1>2 DEF Acc_Inv, Acc!TypeOK, Acc_Rows, Acc!Roles
<1>4. ASSUME ~Acc_overlapped
      PROVE  /\ \E u \in Acc_Users : Acc_Admin(u)'
             /\ \A q \in Acc_Requests : Acc_request'[q] = Acc!Idle
  <2>1. (\E u \in Acc_Users : Acc_Admin(u)) /\ Acc_Leaves(Acc_request[r])
    BY <1>1, <1>4 DEF Acc_Inv
  <2>2. \E u \in Acc_Users : Acc_Admin(u)'
    BY <1>1, <2>1 DEF Acc_Leaves
  <2>3. \A q \in Acc_Requests : Acc_request'[q] = Acc!Idle
    BY <1>1, <1>2, <1>4 DEF Acc_Inv, Acc!TypeOK
  <2>4. QED
    BY <2>2, <2>3
<1>5. QED
  BY <1>1, <1>2, <1>3, <1>4 DEF Acc_Inv, Acc_Assumption

\* The backend starts again.
LEMMA Acc_BootStep ==
  ASSUME Acc_Inv, Acc!Boot
  PROVE  Acc_Inv'
<1>1. /\ Acc_row \in [Acc_Users -> Acc_Rows \cup {Acc!Gone}] /\ Acc_row' \in Acc!Seeded(Acc_row)
      /\ Acc_overlapped' = Acc_overlapped /\ Acc_ops < Acc_MaxOps /\ Acc_ops' = Acc_ops + 1
      /\ Acc_request' = [r \in Acc_Requests |-> Acc!Idle]
  BY DEF Acc!Boot, Acc_Inv, Acc!TypeOK, Acc_Rows, Acc!Roles
<1>2. /\ Acc_row' \in [Acc_Users -> Acc_Rows \cup {Acc!Gone}]
      /\ \A u \in Acc_Users : Acc_row[u] # Acc!Gone => Acc_row'[u] = Acc_row[u]
      /\ \A u \in Acc_Users : Acc_row'[u] # Acc_row[u] => /\ Acc_row'[u].email = Acc_SeedEmail
                                                          /\ \A v \in Acc_Users : Acc_row[v].email # Acc_SeedEmail
      /\ \A u, v \in Acc_Users : Acc_row'[u] # Acc_row[u] /\ Acc_row'[v] # Acc_row[v] => u = v
  BY <1>1, Acc_SeededRows DEF Acc_Inv
<1>3. Acc!TypeOK'
  BY <1>1, <1>2 DEF Acc_Inv, Acc!TypeOK, Acc_Rows, Acc!Roles, Acc_Assumption
<1>4. Acc_Unique'
  BY <1>2 DEF Acc_Inv, Acc_Unique, Acc!Exists
<1>5. \A u \in Acc_Users : Acc_Admin(u) => Acc_Admin(u)'
  BY <1>2 DEF Acc_Admin, Acc!Enabled, Acc!Exists
<1>6. QED
  BY <1>1, <1>3, <1>4, <1>5 DEF Acc_Inv, Acc_Assumption

\* Requests that come one after another never leave the panel without an administrator who can
\* sign in, and whatever overlaps, no two rows share an address.
THEOREM Accounts_Hold == SumSpec => []AccountsInv
<1>1. SumInit => Acc_Inv
  BY Acc_InitInv, RecordsAssumption DEF SumInit
<1>2. [SumNext]_allVars => [Acc!Next]_Acc!vars
  BY DEF SumNext, allVars, accountsVars, Acc!vars
<1>3. Acc_Inv /\ [Acc!Next]_Acc!vars => Acc_Inv'
  <2> SUFFICES ASSUME Acc_Inv, [Acc!Next]_Acc!vars
               PROVE  Acc_Inv'
    OBVIOUS
  <2>1. CASE UNCHANGED Acc!vars
    BY <2>1 DEF Acc!vars, Acc_Inv, Acc_Assumption, Acc!TypeOK, Acc_Unique, Acc_Admin, Acc_Leaves,
                Acc!Enabled, Acc!Exists
  <2>2. QED
    BY <2>1, Acc_ArriveStep, Acc_CheckStep, Acc_WriteStep, Acc_BootStep DEF Acc!Next
<1>4. Acc_Inv => AccountsInv
  BY DEF AccountsInv, Acc_Inv, Acc!AccountsInv, Acc_Unique, Acc_Admin, Acc!Administered
<1>5. QED
  BY <1>1, <1>2, <1>3, <1>4, PTL DEF SumSpec

-----------------------------------------------------------------------------
(***************************************************************************)
(* Secrets.  While the server wrote nothing, the rows the script has passed     *)
(* are under the new key and the ones to do are as it read them.  A request that *)
(* waits to turn a variable into a regular one has seen that it was no secret.     *)
(***************************************************************************)

Sec_Sealed == [text : Sec_Texts, key : {"old", "new"}, secret : BOOLEAN]
Sec_Scripts ==
  [at : {"off", "running", "failed", "done"}, left : 0..4, todo : SUBSET Sec!Rows,
   read : [Sec!Rows -> Sec_Sealed \cup {Sec!Absent}]]
Sec_Types ==
  /\ Sec_row \in [Sec!Rows -> Sec_Sealed \cup {Sec!Absent}] /\ Sec_server \in {"old", "new"}
  /\ Sec_script \in Sec_Scripts
  /\ Sec_meta \in [Sec_Requests -> [id : Sec_EnvVars \cup {Sec!None}, to : BOOLEAN]]
  /\ Sec_stored \in [Sec!Rows -> Sec_Texts \cup {Sec!None}] /\ Sec_secret \subseteq Sec_EnvVars
  /\ Sec_busy \in BOOLEAN /\ Sec_crossed \subseteq Sec_EnvVars /\ Sec_ops \in 0..Sec_MaxOps

\* The four tables in the order of the script, and the rows of those it has passed.
Sec_Table(k) == Sec!RowsOf[Sec!RotatedTables[k]]
Sec_Passed ==
  {r \in Sec!Rows : \E k \in 1..4 : /\ r \in Sec_Table(k)
                                    /\ k < 5 - Sec_script.left \/ (k = 5 - Sec_script.left /\
                                         r \notin Sec_script.todo)}

Sec_ScriptOK ==
  /\ Sec_server = "new" => Sec_script.at = "done"
  /\ Sec_script.at = "running" => Sec_script.left \in 1..4
  /\ Sec_script.at = "done" => Sec_script.left = 0

Sec_RotationOK ==
  /\ \A r \in Sec!Rows : Sec_row[r].text = Sec_stored[r]
  /\ Sec_script.at = "off" => \A r \in Sec!There : Sec_row[r].key = "old"
  /\ Sec_script.at \in {"running", "done"} =>
       \A r \in Sec!There \cap Sec_Passed : Sec_row[r].key = "new"
  /\ Sec_script.at = "running" =>
       \A r \in Sec_script.todo : Sec_row[r].text = Sec_script.read[r].text /\
            Sec_row[r].key = Sec_script.read[r].key

Sec_HiddenOK(v) ==
  /\ v \in Sec_secret => Sec_row[v].secret
  /\ \A q \in Sec_Requests : Sec_meta[q].id = v => (Sec_row[v].secret => Sec_meta[q].to)

Sec_Inv ==
  /\ Sec_Assumption /\ Sec_Types /\ Sec_ScriptOK
  /\ ~Sec_busy => Sec_RotationOK
  /\ \A v \in Sec_EnvVars \ Sec_crossed : Sec_HiddenOK(v)

LEMMA Sec_Tables ==
  /\ Sec_Table(1) = Sec_EnvVars /\ Sec_Table(2) = {"destination"}
  /\ Sec_Table(3) = {"hook"} /\ Sec_Table(4) = {"token"}
  /\ Len(Sec!RotatedTables) = 4
BY DEF Sec_Table, Sec!RowsOf, Sec!RotatedTables

LEMMA Sec_InitInv ==
  ASSUME Sec_Assumption, Sec!Init
  PROVE  Sec_Inv
<1>1. /\ Sec_row = [r \in Sec!Rows |-> Sec!Absent] /\ Sec_server = "old" /\ Sec_secret = {}
      /\ Sec_crossed = {}
      /\ Sec_script = [at |-> "off", left |-> 0, todo |-> {},
           read |-> [r \in Sec!Rows |-> Sec!Absent]]
      /\ Sec_meta = [q \in Sec_Requests |-> Sec!Idle] /\ Sec_stored = [r \in Sec!Rows |-> Sec!None]
  BY DEF Sec!Init, Sec!NoRead
<1>2. Sec_busy \in BOOLEAN
  BY DEF Sec!Init
<1>3. Sec_ops \in 0..Sec_MaxOps
  BY DEF Sec!Init, Sec_Assumption
<1>4. Sec_Types
  <2>1. Sec_row \in [Sec!Rows -> Sec_Sealed \cup {Sec!Absent}] /\
          Sec_stored \in [Sec!Rows -> Sec_Texts \cup {Sec!None}]
    BY <1>1
  <2>2. Sec_script \in Sec_Scripts
    BY <1>1 DEF Sec_Scripts
  <2>3. Sec_meta \in [Sec_Requests -> [id : Sec_EnvVars \cup {Sec!None}, to : BOOLEAN]]
    BY <1>1 DEF Sec!Idle
  <2>4. QED
    BY <1>1, <1>2, <1>3, <2>1, <2>2, <2>3 DEF Sec_Types
<1>5. Sec_ScriptOK
  BY <1>1 DEF Sec_ScriptOK
<1>6. Sec_RotationOK
  <2>1. Sec!There = {} /\ \A r \in Sec!Rows : Sec_row[r].text = Sec_stored[r]
    BY <1>1 DEF Sec!There, Sec!Absent
  <2>2. Sec_script.at = "off"
    BY <1>1
  <2>3. QED
    BY <2>1, <2>2 DEF Sec_RotationOK
<1>7. \A v \in Sec_EnvVars : Sec_HiddenOK(v)
  BY <1>1 DEF Sec_HiddenOK, Sec!Idle, Sec_Assumption
<1>8. QED
  BY <1>4, <1>5, <1>6, <1>7 DEF Sec_Inv

\* A row the server writes is under its key; it stays out of the script's way or is noted.
LEMMA Sec_ServerWrites ==
  ASSUME Sec_Inv, NEW r \in Sec!Rows, NEW new \in Sec_Sealed \cup {Sec!Absent},
         Sec_row' = [Sec_row EXCEPT ![r] = new], Sec_stored' = [Sec_stored EXCEPT ![r] = new.text],
         new # Sec!Absent => new.key = Sec_server, Sec!Wrote, UNCHANGED <<Sec_server, Sec_script>>
  PROVE  /\ Sec_row' \in [Sec!Rows -> Sec_Sealed \cup {Sec!Absent}]
         /\ Sec_stored' \in [Sec!Rows -> Sec_Texts \cup {Sec!None}]
         /\ Sec_busy' \in BOOLEAN /\ Sec_ScriptOK' /\ (~Sec_busy' => Sec_RotationOK')
<1>1. \A s \in Sec!Rows : /\ Sec_row'[s] = IF s = r THEN new ELSE Sec_row[s]
                          /\ Sec_stored'[s] = IF s = r THEN new.text ELSE Sec_stored[s]
  BY DEF Sec_Inv, Sec_Types
<1>2. new.text \in Sec_Texts \cup {Sec!None}
  BY DEF Sec_Sealed, Sec!Absent
<1>3. Sec_busy' \in BOOLEAN /\
        (~Sec_busy' => ~Sec_busy /\ (Sec_script.at = "off" \/ Sec_server = "new"))
  BY DEF Sec!Wrote, Sec_Inv, Sec_Types
<1>4. Sec_ScriptOK'
  BY DEF Sec_Inv, Sec_ScriptOK
<1>5. ASSUME ~Sec_busy'
      PROVE  Sec_RotationOK'
  <2>1. Sec_RotationOK /\ ~Sec_busy
    BY <1>3, <1>5 DEF Sec_Inv
  <2>2. Sec!There' \subseteq Sec!There \cup {r} /\ Sec_Passed' = Sec_Passed
    BY <1>1 DEF Sec!There, Sec_Passed
  <2>3. r \in Sec!There' => new # Sec!Absent /\ Sec_row'[r].key = Sec_server
    BY <1>1 DEF Sec!There
  <2>4. Sec_script.at = "off" => Sec_server = "old"
    BY DEF Sec_Inv, Sec_ScriptOK, Sec_Types
  <2>5. \A s \in Sec!Rows : Sec_row'[s].text = Sec_stored'[s]
    BY <1>1, <2>1 DEF Sec_RotationOK
  <2>6. Sec_script.at = "off" => \A s \in Sec!There' : Sec_row'[s].key = "old"
    BY <1>1, <2>1, <2>2, <2>3, <2>4 DEF Sec_RotationOK, Sec!There
  <2>7. Sec_script.at # "off" => Sec_script.at = "done" /\ Sec_server = "new"
    BY <1>3, <1>5 DEF Sec_Inv, Sec_ScriptOK
  <2>8. Sec_script.at = "done" => \A s \in Sec!There' \cap Sec_Passed : Sec_row'[s].key = "new"
    BY <1>1, <2>1, <2>2, <2>3, <2>7 DEF Sec_RotationOK, Sec!There
  <2>9. QED
    BY <2>2, <2>5, <2>6, <2>7, <2>8 DEF Sec_RotationOK
<1>6. QED
  BY <1>1, <1>2, <1>3, <1>4, <1>5 DEF Sec_Inv, Sec_Types

\* A write of a variable settles who crossed whom.
LEMMA Sec_VarWritten ==
  ASSUME Sec_Inv, NEW r \in Sec!Rows, NEW new \in Sec_Sealed \cup {Sec!Absent},
         Sec_row' = [Sec_row EXCEPT ![r] = new], Sec_meta' = Sec_meta, Sec!Crosses(r),
         Sec_secret' = IF new.secret /\
              r \in Sec_EnvVars THEN Sec_secret \cup {r} ELSE Sec_secret \ {r}
  PROVE  /\ Sec_crossed' \subseteq Sec_EnvVars /\ Sec_secret' \subseteq Sec_EnvVars
         /\ \A v \in Sec_EnvVars \ Sec_crossed' : Sec_HiddenOK(v)'
<1>1. \A s \in Sec!Rows : Sec_row'[s] = IF s = r THEN new ELSE Sec_row[s]
  BY DEF Sec_Inv, Sec_Types
<1>2. Sec_crossed' = IF \E q \in Sec_Requests : Sec_meta[q].id = r THEN Sec_crossed \cup {r} ELSE Sec_crossed \ {r}
  BY DEF Sec!Crosses, Sec!Pending
<1>3. \A q \in Sec_Requests : Sec_meta[q].id = r => r \in Sec_EnvVars
  <2>1. \A q \in Sec_Requests : Sec_meta[q].id \in Sec_EnvVars \cup {Sec!None}
    BY DEF Sec_Inv, Sec_Types
  <2>2. Sec!None \notin Sec!Rows
    BY DEF Sec!Rows, Sec!Others, Sec!None, Sec_Inv, Sec_Assumption
  <2>3. QED
    BY <2>1, <2>2
<1>4. ASSUME NEW v \in Sec_EnvVars \ Sec_crossed'
      PROVE  Sec_HiddenOK(v)'
  <2>1. v \in Sec!Rows
    BY DEF Sec!Rows
  <2>2. CASE v = r
    <3>1. \A q \in Sec_Requests : Sec_meta[q].id # v
      BY <1>2, <1>4, <2>2
    <3>2. v \in Sec_secret' => Sec_row'[v].secret
      BY <1>1, <2>1, <2>2
    <3>3. QED
      BY <3>1, <3>2 DEF Sec_HiddenOK
  <2>3. CASE v # r
    <3>1. v \notin Sec_crossed /\ Sec_row'[v] = Sec_row[v] /\
            (v \in Sec_secret' <=> v \in Sec_secret)
      BY <1>1, <1>2, <1>4, <2>1, <2>3
    <3>2. QED
      BY <3>1 DEF Sec_Inv, Sec_HiddenOK
  <2>4. QED
    BY <2>2, <2>3
<1>5. QED
  BY <1>2, <1>3, <1>4 DEF Sec_Inv, Sec_Types

LEMMA Sec_SetVarStep ==
  ASSUME Sec_Inv, NEW v \in Sec_EnvVars, NEW text \in Sec_Texts, NEW s \in BOOLEAN,
           Sec!SetVar(v, text, s)
  PROVE  Sec_Inv'
<1> DEFINE new == [text |-> text, key |-> Sec_server, secret |-> s]
<1>1. new \in Sec_Sealed /\ new.text = text /\ new.key = Sec_server /\ new.secret = s /\
        v \in Sec!Rows
  BY DEF Sec_Sealed, Sec_Inv, Sec_Types, Sec!Rows
<1>2. /\ Sec_row' = [Sec_row EXCEPT ![v] = new] /\ Sec_stored' = [Sec_stored EXCEPT ![v] = text]
      /\ Sec!Wrote /\ Sec!Crosses(v) /\ UNCHANGED <<Sec_server, Sec_script, Sec_meta>>
      /\ Sec!Request /\ Sec_secret' = IF s THEN Sec_secret \cup {v} ELSE Sec_secret \ {v}
  BY DEF Sec!SetVar
<1> HIDE DEF new
<1>3. Sec_secret' = IF new.secret /\
        v \in Sec_EnvVars THEN Sec_secret \cup {v} ELSE Sec_secret \ {v}
  BY <1>1, <1>2
<1>4. /\ Sec_row' \in [Sec!Rows -> Sec_Sealed \cup {Sec!Absent}]
      /\ Sec_stored' \in [Sec!Rows -> Sec_Texts \cup {Sec!None}]
      /\ Sec_busy' \in BOOLEAN /\ Sec_ScriptOK' /\ (~Sec_busy' => Sec_RotationOK')
  BY <1>1, <1>2, Sec_ServerWrites
<1>5. /\ Sec_crossed' \subseteq Sec_EnvVars /\ Sec_secret' \subseteq Sec_EnvVars
      /\ \A w \in Sec_EnvVars \ Sec_crossed' : Sec_HiddenOK(w)'
  BY <1>1, <1>2, <1>3, Sec_VarWritten
<1>6. Sec_ops' \in 0..Sec_MaxOps
  BY <1>2 DEF Sec!Request, Sec_Inv, Sec_Types, Sec_Assumption
<1>7. QED
  BY <1>2, <1>4, <1>5, <1>6 DEF Sec_Inv, Sec_Types, Sec_Assumption

LEMMA Sec_DeleteStep ==
  ASSUME Sec_Inv, NEW r \in Sec!Rows, Sec!Delete(r)
  PROVE  Sec_Inv'
<1>1. /\ Sec_row' = [Sec_row EXCEPT ![r] = Sec!Absent]
      /\ Sec_stored' = [Sec_stored EXCEPT ![r] = Sec!None]
      /\ Sec!Wrote /\ Sec!Crosses(r) /\ UNCHANGED <<Sec_server, Sec_script, Sec_meta>>
      /\ Sec_secret' = Sec_secret \ {r} /\ Sec!Request
  BY DEF Sec!Delete
<1>2. Sec!Absent.text = Sec!None /\ ~Sec!Absent.secret
  BY DEF Sec!Absent
<1>3. /\ Sec_row' \in [Sec!Rows -> Sec_Sealed \cup {Sec!Absent}]
      /\ Sec_stored' \in [Sec!Rows -> Sec_Texts \cup {Sec!None}]
      /\ Sec_busy' \in BOOLEAN /\ Sec_ScriptOK' /\ (~Sec_busy' => Sec_RotationOK')
  BY <1>1, <1>2, Sec_ServerWrites
<1>4. Sec_secret' = IF Sec!Absent.secret /\
        r \in Sec_EnvVars THEN Sec_secret \cup {r} ELSE Sec_secret \ {r}
  BY <1>1, <1>2
<1>5. /\ Sec_crossed' \subseteq Sec_EnvVars /\ Sec_secret' \subseteq Sec_EnvVars
      /\ \A w \in Sec_EnvVars \ Sec_crossed' : Sec_HiddenOK(w)'
  BY <1>1, <1>4, Sec_VarWritten
<1>6. Sec_ops' \in 0..Sec_MaxOps
  BY <1>1 DEF Sec!Request, Sec_Inv, Sec_Types, Sec_Assumption
<1>7. QED
  BY <1>1, <1>3, <1>5, <1>6 DEF Sec_Inv, Sec_Types, Sec_Assumption

LEMMA Sec_StoreStep ==
  ASSUME Sec_Inv, NEW r \in Sec!Others, NEW text \in Sec_Texts, Sec!Store(r, text)
  PROVE  Sec_Inv'
<1> DEFINE new == [text |-> text, key |-> Sec_server, secret |-> TRUE]
<1>1. new \in Sec_Sealed /\ new.text = text /\ new.key = Sec_server /\ r \in Sec!Rows
  BY DEF Sec_Sealed, Sec_Inv, Sec_Types, Sec!Rows
<1>2. /\ Sec_row' = [Sec_row EXCEPT ![r] = new] /\ Sec_stored' = [Sec_stored EXCEPT ![r] = text]
      /\ Sec!Wrote /\ UNCHANGED <<Sec_server, Sec_script, Sec_meta, Sec_secret, Sec_crossed>>
      /\ Sec!Request
  BY DEF Sec!Store
<1> HIDE DEF new
<1>3. /\ Sec_row' \in [Sec!Rows -> Sec_Sealed \cup {Sec!Absent}]
      /\ Sec_stored' \in [Sec!Rows -> Sec_Texts \cup {Sec!None}]
      /\ Sec_busy' \in BOOLEAN /\ Sec_ScriptOK' /\ (~Sec_busy' => Sec_RotationOK')
  BY <1>1, <1>2, Sec_ServerWrites
<1>4. \A v \in Sec_EnvVars : Sec_row'[v] = Sec_row[v]
  BY <1>2 DEF Sec_Inv, Sec_Types, Sec_Assumption, Sec!Rows
<1>5. \A v \in Sec_EnvVars \ Sec_crossed' : Sec_HiddenOK(v)'
  BY <1>2, <1>4 DEF Sec_Inv, Sec_HiddenOK
<1>6. Sec_ops' \in 0..Sec_MaxOps
  BY <1>2 DEF Sec!Request, Sec_Inv, Sec_Types, Sec_Assumption
<1>7. QED
  BY <1>2, <1>3, <1>5, <1>6 DEF Sec_Inv, Sec_Types, Sec_Assumption

\* updateMeta: what it read, and what it writes.
LEMMA Sec_ReadMetaStep ==
  ASSUME Sec_Inv, NEW q \in Sec_Requests, NEW v \in Sec_EnvVars, NEW to \in BOOLEAN,
           Sec!ReadMeta(q, v, to)
  PROVE  Sec_Inv'
<1>1. /\ Sec_meta' = [Sec_meta EXCEPT ![q] = [id |-> v, to |-> to]] /\ Sec!Request
      /\ Sec_row[v].secret => to
      /\ UNCHANGED <<Sec_row, Sec_server, Sec_script, Sec_stored, Sec_secret, Sec_busy,
           Sec_crossed>>
  BY DEF Sec!ReadMeta, Sec!MayBecome
<1>2. Sec_meta' \in [Sec_Requests -> [id : Sec_EnvVars \cup {Sec!None}, to : BOOLEAN]]
  BY <1>1 DEF Sec_Inv, Sec_Types
<1>3. Sec_ops' \in 0..Sec_MaxOps
  BY <1>1 DEF Sec!Request, Sec_Inv, Sec_Types, Sec_Assumption
<1>4. \A p \in Sec_Requests : Sec_meta'[p] = IF p = q THEN [id |-> v, to |-> to] ELSE Sec_meta[p]
  BY <1>1 DEF Sec_Inv, Sec_Types
<1>5. \A w \in Sec_EnvVars \ Sec_crossed' : Sec_HiddenOK(w)'
  BY <1>1, <1>4 DEF Sec_Inv, Sec_HiddenOK
<1>6. Sec_ScriptOK' /\ (~Sec_busy' => Sec_RotationOK')
  BY <1>1 DEF Sec_Inv, Sec_ScriptOK, Sec_RotationOK, Sec!There, Sec_Passed
<1>7. QED
  BY <1>1, <1>2, <1>3, <1>5, <1>6 DEF Sec_Inv, Sec_Types, Sec_Assumption

\* A step that leaves the rows their texts and keys does not disturb the script.
LEMMA Sec_SameValues ==
  ASSUME Sec_Inv, Sec_row' \in [Sec!Rows -> Sec_Sealed \cup {Sec!Absent}],
         \A r \in Sec!Rows : /\ Sec_row'[r].text = Sec_row[r].text
                             /\ Sec_row'[r].key = Sec_row[r].key
                             /\ Sec_row'[r] # Sec!Absent => Sec_row[r] # Sec!Absent,
         UNCHANGED <<Sec_server, Sec_script, Sec_stored, Sec_busy>>
  PROVE  Sec_ScriptOK' /\ (~Sec_busy' => Sec_RotationOK')
<1>1. Sec!There' \subseteq Sec!There /\ Sec!There \subseteq Sec!Rows /\ Sec_Passed' = Sec_Passed
  BY DEF Sec!There, Sec_Passed
<1>2. Sec_ScriptOK'
  BY DEF Sec_Inv, Sec_ScriptOK
<1>3. Sec_script.todo \subseteq Sec!Rows
  BY DEF Sec_Inv, Sec_Types, Sec_Scripts
<1>4. ASSUME Sec_RotationOK
      PROVE  Sec_RotationOK'
  BY <1>1, <1>3, <1>4 DEF Sec_RotationOK
<1>5. QED
  BY <1>2, <1>4 DEF Sec_Inv

LEMMA Sec_WriteMetaStep ==
  ASSUME Sec_Inv, NEW q \in Sec_Requests, Sec!WriteMeta(q)
  PROVE  Sec_Inv'
<1>1. PICK v \in Sec_EnvVars : v = Sec_meta[q].id
  BY DEF Sec!WriteMeta, Sec_Inv, Sec_Types
<1>2. /\ Sec_row' = IF v \in Sec!There THEN [Sec_row EXCEPT ![v].secret = Sec_meta[q].to] ELSE Sec_row
      /\ Sec_secret' = IF v \in Sec!There /\ Sec_meta[q].to THEN Sec_secret \cup {v} ELSE Sec_secret
      /\ Sec_meta' = [Sec_meta EXCEPT ![q] = Sec!Idle]
      /\ Sec_crossed' = IF \E p \in Sec_Requests \ {q} : Sec_meta[p].id = v THEN Sec_crossed \cup {v} ELSE Sec_crossed
      /\ UNCHANGED <<Sec_server, Sec_script, Sec_stored, Sec_busy, Sec_ops>>
  BY <1>1 DEF Sec!WriteMeta
<1>3. PICK to \in BOOLEAN : to = Sec_meta[q].to
  BY DEF Sec_Inv, Sec_Types
<1>4. v \in Sec!Rows /\ Sec!None \notin Sec_EnvVars
  BY DEF Sec!Rows, Sec_Inv, Sec_Assumption
<1>5. /\ Sec_row' \in [Sec!Rows -> Sec_Sealed \cup {Sec!Absent}]
      /\ \A r \in Sec!Rows \ {v} : Sec_row'[r] = Sec_row[r]
      /\ Sec_row'[v].text = Sec_row[v].text /\ Sec_row'[v].key = Sec_row[v].key
      /\ v \notin Sec!There => Sec_row'[v] = Sec_row[v]
      /\ v \in Sec!There => Sec_row'[v].secret = to
  <2>1. CASE v \in Sec!There
    <3> DEFINE new == [Sec_row[v] EXCEPT !.secret = to]
    <3>1. Sec_row[v] \in Sec_Sealed
      BY <1>4, <2>1 DEF Sec!There, Sec_Inv, Sec_Types
    <3>2. new \in Sec_Sealed /\ new.text = Sec_row[v].text /\ new.key = Sec_row[v].key /\
            new.secret = to
      BY <3>1 DEF Sec_Sealed
    <3>3. Sec_row' = [Sec_row EXCEPT ![v] = new]
      BY <1>2, <1>3, <2>1
    <3> HIDE DEF new
    <3>4. QED
      BY <1>4, <2>1, <3>2, <3>3 DEF Sec_Inv, Sec_Types
  <2>2. CASE v \notin Sec!There
    BY <1>2, <2>2 DEF Sec_Inv, Sec_Types
  <2>3. QED
    BY <2>1, <2>2
<1>6. \A r \in Sec!Rows : /\ Sec_row'[r].text = Sec_row[r].text /\ Sec_row'[r].key = Sec_row[r].key
                          /\ Sec_row'[r] # Sec!Absent => Sec_row[r] # Sec!Absent
  BY <1>5 DEF Sec!There
<1>7. Sec_ScriptOK' /\ (~Sec_busy' => Sec_RotationOK')
  BY <1>2, <1>5, <1>6, Sec_SameValues
<1>8. Sec_meta' \in [Sec_Requests -> [id : Sec_EnvVars \cup {Sec!None}, to : BOOLEAN]]
      /\ \A p \in Sec_Requests : Sec_meta'[p] = IF p = q THEN Sec!Idle ELSE Sec_meta[p]
  <2>1. Sec!Idle \in [id : Sec_EnvVars \cup {Sec!None}, to : BOOLEAN]
    BY DEF Sec!Idle
  <2>2. QED
    BY <1>2, <2>1 DEF Sec_Inv, Sec_Types
<1>9. ASSUME NEW w \in Sec_EnvVars \ Sec_crossed'
      PROVE  Sec_HiddenOK(w)'
  <2>1. Sec_HiddenOK(w) /\ w \in Sec!Rows
    BY <1>2, <1>9 DEF Sec_Inv, Sec!Rows
  <2>2. Sec!Idle.id # w
    BY <1>4 DEF Sec!Idle
  <2>3. CASE w # v
    <3>1. Sec_row'[w] = Sec_row[w] /\ (w \in Sec_secret' <=> w \in Sec_secret)
      BY <1>2, <1>5, <2>1, <2>3
    <3>2. QED
      BY <1>8, <2>1, <2>2, <3>1 DEF Sec_HiddenOK
  <2>4. CASE w = v
    <3>1. \A p \in Sec_Requests : Sec_meta'[p].id # v
      BY <1>2, <1>8, <1>9, <2>2, <2>4
    <3>2. v \in Sec_secret' => Sec_row'[v].secret
      <4>1. CASE v \in Sec!There
        BY <1>1, <1>2, <1>3, <1>5, <2>1, <2>4, <4>1 DEF Sec_HiddenOK
      <4>2. CASE v \notin Sec!There
        BY <1>2, <1>5, <2>1, <2>4, <4>2 DEF Sec_HiddenOK
      <4>3. QED
        BY <4>1, <4>2
    <3>3. QED
      BY <2>4, <3>1, <3>2 DEF Sec_HiddenOK
  <2>5. QED
    BY <2>3, <2>4
<1>10. Sec_crossed' \subseteq Sec_EnvVars /\ Sec_secret' \subseteq Sec_EnvVars
  BY <1>2 DEF Sec_Inv, Sec_Types
<1>11. QED
  BY <1>2, <1>5, <1>7, <1>8, <1>9, <1>10 DEF Sec_Inv, Sec_Types, Sec_Assumption

\* The script selects a table: it reads the rows as they are.
LEMMA Sec_SelectTable ==
  ASSUME Sec_Inv, NEW left \in 1..4
  PROVE  LET next == Sec!Select(left) IN
         /\ next \in Sec_Scripts /\ next.at = "running" /\ next.left = left
         /\ next.todo = Sec!There \cap Sec_Table(5 - left)
         /\ \A r \in next.todo : next.read[r] = Sec_row[r]
<1>1. Len(Sec!RotatedTables) + 1 - left = 5 - left
  BY Sec_Tables
<1> DEFINE todo == Sec!There \cap Sec_Table(5 - left)
           read == [r \in Sec!Rows |-> IF r \in todo THEN Sec_row[r] ELSE Sec!Absent]
<1>2. Sec!Select(left) = [at |-> "running", left |-> left, todo |-> todo, read |-> read]
  BY <1>1 DEF Sec!Select, Sec_Table
<1>3. todo \subseteq Sec!Rows
  BY DEF Sec!There
<1> HIDE DEF todo
<1>4. read \in [Sec!Rows -> Sec_Sealed \cup {Sec!Absent}] /\ \A r \in todo : read[r] = Sec_row[r]
  BY <1>3 DEF Sec_Inv, Sec_Types
<1> HIDE DEF read
<1>5. [at |-> "running", left |-> left, todo |-> todo, read |-> read] \in Sec_Scripts
  BY <1>3, <1>4 DEF Sec_Scripts
<1>6. QED
  BY <1>2, <1>4, <1>5 DEF todo

\* Only the script moves.
LEMMA Sec_ScriptOnly ==
  ASSUME Sec_Inv, UNCHANGED <<Sec_row, Sec_server, Sec_meta, Sec_stored, Sec_secret, Sec_busy,
           Sec_crossed, Sec_ops>>,
         Sec_script' \in Sec_Scripts, Sec_ScriptOK', ~Sec_busy => Sec_RotationOK'
  PROVE  Sec_Inv'
BY DEF Sec_Inv, Sec_Types, Sec_Assumption, Sec_HiddenOK

LEMMA Sec_StartStep ==
  ASSUME Sec_Inv, Sec!StartRotation
  PROVE  Sec_Inv'
<1>1. Sec_script' = Sec!Select(4) /\ Sec_server = "old"
      /\ UNCHANGED <<Sec_row, Sec_server, Sec_meta, Sec_stored, Sec_secret, Sec_busy, Sec_crossed,
           Sec_ops>>
  BY Sec_Tables DEF Sec!StartRotation
<1>2. /\ Sec_script' \in Sec_Scripts /\ Sec_script'.at = "running" /\ Sec_script'.left = 4
      /\ Sec_script'.todo = Sec!There \cap Sec_Table(1)
      /\ \A r \in Sec_script'.todo : Sec_script'.read[r] = Sec_row[r]
  BY <1>1, Sec_SelectTable
<1>3. Sec_ScriptOK'
  BY <1>1, <1>2 DEF Sec_ScriptOK
<1>4. ASSUME ~Sec_busy
      PROVE  Sec_RotationOK'
  <2>1. Sec_RotationOK
    BY <1>4 DEF Sec_Inv
  <2>2. \A r \in Sec!There' \cap Sec_Passed' : FALSE
    BY <1>1, <1>2 DEF Sec_Passed, Sec!There
  <2>3. QED
    BY <1>1, <1>2, <2>1, <2>2 DEF Sec_RotationOK
<1>5. QED
  BY <1>1, <1>2, <1>3, <1>4, Sec_ScriptOnly

LEMMA Sec_NextTableStep ==
  ASSUME Sec_Inv, Sec!NextTable
  PROVE  Sec_Inv'
<1>1. /\ Sec_script.at = "running" /\ Sec_script.todo = {} /\ Sec_script.left \in 1..4
      /\ UNCHANGED <<Sec_row, Sec_server, Sec_meta, Sec_stored, Sec_secret, Sec_busy, Sec_crossed,
           Sec_ops>>
  BY DEF Sec!NextTable, Sec_Inv, Sec_ScriptOK
<1>2. Sec_server # "new"
  BY <1>1 DEF Sec_Inv, Sec_ScriptOK
<1>3. CASE Sec_script.left > 1
  <2>1. PICK left \in 1..4 : left = Sec_script.left - 1
    BY <1>1, <1>3
  <2>2. Sec_script' = Sec!Select(left)
    BY <1>3, <2>1 DEF Sec!NextTable
  <2>3. /\ Sec_script' \in Sec_Scripts /\ Sec_script'.at = "running" /\ Sec_script'.left = left
        /\ Sec_script'.todo = Sec!There \cap Sec_Table(5 - left)
        /\ \A r \in Sec_script'.todo : Sec_script'.read[r] = Sec_row[r]
    BY <2>2, Sec_SelectTable
  <2>4. Sec_ScriptOK'
    BY <1>1, <1>2, <2>3 DEF Sec_ScriptOK
  <2>5. ASSUME ~Sec_busy
        PROVE  Sec_RotationOK'
    <3>1. Sec_RotationOK
      BY <2>5 DEF Sec_Inv
    <3>2. \A r \in Sec!There' \cap Sec_Passed' : r \in Sec!There \cap Sec_Passed
      BY <1>1, <2>1, <2>3 DEF Sec_Passed, Sec!There
    <3>3. QED
      BY <1>1, <2>3, <3>1, <3>2 DEF Sec_RotationOK, Sec!There
  <2>6. QED
    BY <1>1, <2>3, <2>4, <2>5, Sec_ScriptOnly
<1>4. CASE ~(Sec_script.left > 1)
  <2>1. Sec_script' = [at |-> "done", left |-> 0, todo |-> {}, read |-> Sec!NoRead] /\
          Sec_script.left = 1
    BY <1>1, <1>4 DEF Sec!NextTable
  <2>2. Sec_script' \in Sec_Scripts
    BY <2>1 DEF Sec_Scripts, Sec!NoRead
  <2>3. Sec_ScriptOK'
    BY <1>1, <1>2, <2>1 DEF Sec_ScriptOK
  <2>4. ASSUME ~Sec_busy
        PROVE  Sec_RotationOK'
    <3>1. Sec_RotationOK
      BY <2>4 DEF Sec_Inv
    <3>2. \A r \in Sec!There' \cap Sec_Passed' : r \in Sec!There \cap Sec_Passed
      BY <1>1, <2>1 DEF Sec_Passed, Sec!There
    <3>3. QED
      BY <1>1, <2>1, <3>1, <3>2 DEF Sec_RotationOK, Sec!There
  <2>5. QED
    BY <1>1, <2>2, <2>3, <2>4, Sec_ScriptOnly
<1>5. QED
  BY <1>3, <1>4

\* The script stops: what it did stays.
LEMMA Sec_Stops ==
  ASSUME Sec_Inv, Sec_script.at = "running", Sec_script' = Sec!Stop,
         UNCHANGED <<Sec_row, Sec_server, Sec_meta, Sec_stored, Sec_secret, Sec_busy, Sec_crossed,
              Sec_ops>>
  PROVE  Sec_Inv'
<1>1. Sec_script' \in Sec_Scripts /\ Sec_script'.at = "failed"
  BY DEF Sec!Stop, Sec_Scripts, Sec!NoRead
<1>2. Sec_ScriptOK'
  BY <1>1 DEF Sec_Inv, Sec_ScriptOK
<1>3. ~Sec_busy => Sec_RotationOK'
  BY <1>1 DEF Sec_Inv, Sec_RotationOK
<1>4. QED
  BY <1>1, <1>2, <1>3, Sec_ScriptOnly

LEMMA Sec_ResealStep ==
  ASSUME Sec_Inv, NEW r \in Sec!Rows, Sec!Reseal(r)
  PROVE  Sec_Inv'
<1>1. /\ Sec_script.at = "running" /\ r \in Sec_script.todo /\ Sec_script.left \in 1..4
      /\ Sec_script \in Sec_Scripts
      /\ UNCHANGED <<Sec_server, Sec_meta, Sec_stored, Sec_secret, Sec_busy, Sec_crossed, Sec_ops>>
  BY DEF Sec!Reseal, Sec_Inv, Sec_ScriptOK, Sec_Types
<1>2. CASE Sec_script.read[r].key # "old"
  BY <1>1, <1>2, Sec_Stops DEF Sec!Reseal
<1>3. CASE Sec_script.read[r].key = "old"
  <2>1. /\ Sec_row' = IF r \in Sec!There
                      THEN [Sec_row EXCEPT ![r].text = Sec_script.read[r].text,
                           ![r].key = "new"] ELSE Sec_row
        /\ Sec_script' = [Sec_script EXCEPT !.todo = @ \ {r}, !.read[r] = Sec!Absent]
    BY <1>3 DEF Sec!Reseal
  <2>2. PICK text \in Sec_Texts : text = Sec_script.read[r].text
    BY <1>1, <1>3 DEF Sec_Scripts, Sec_Sealed, Sec!Absent, Sec!None
  <2>3. /\ Sec_row' \in [Sec!Rows -> Sec_Sealed \cup {Sec!Absent}]
        /\ \A s \in Sec!Rows \ {r} : Sec_row'[s] = Sec_row[s]
        /\ r \notin Sec!There => Sec_row'[r] = Sec_row[r]
        /\ r \in Sec!There => Sec_row'[r].text = text /\ Sec_row'[r].key = "new" /\
             Sec_row'[r].secret = Sec_row[r].secret
    <3>1. CASE r \in Sec!There
      <4> DEFINE new == [Sec_row[r] EXCEPT !.text = text, !.key = "new"]
      <4>1. Sec_row[r] \in Sec_Sealed
        BY <3>1 DEF Sec!There, Sec_Inv, Sec_Types
      <4>2. new \in Sec_Sealed /\ new.text = text /\ new.key = "new" /\
              new.secret = Sec_row[r].secret
        BY <4>1 DEF Sec_Sealed
      <4>3. Sec_row' = [Sec_row EXCEPT ![r] = new]
        BY <2>1, <2>2, <3>1 DEF Sec_Inv, Sec_Types
      <4> HIDE DEF new
      <4>4. QED
        BY <3>1, <4>2, <4>3 DEF Sec_Inv, Sec_Types
    <3>2. CASE r \notin Sec!There
      BY <2>1, <3>2 DEF Sec_Inv, Sec_Types
    <3>3. QED
      BY <3>1, <3>2
  <2>4. /\ Sec_script' \in Sec_Scripts /\ Sec_script'.at = "running"
        /\ Sec_script'.left = Sec_script.left
        /\ Sec_script'.todo = Sec_script.todo \ {r}
        /\ \A s \in Sec!Rows \ {r} : Sec_script'.read[s] = Sec_script.read[s]
    <3> DEFINE read == [Sec_script.read EXCEPT ![r] = Sec!Absent]
               todo == Sec_script.todo \ {r}
    <3>1. read \in [Sec!Rows -> Sec_Sealed \cup {Sec!Absent}] /\ todo \subseteq Sec!Rows
          /\ \A s \in Sec!Rows \ {r} : read[s] = Sec_script.read[s]
      BY <1>1 DEF Sec_Scripts
    <3>2. Sec_script' = [Sec_script EXCEPT !.todo = todo, !.read = read]
      BY <1>1, <2>1 DEF Sec_Scripts
    <3> HIDE DEF read, todo
    <3>3. Sec_script' = [at |-> Sec_script.at, left |-> Sec_script.left, todo |-> todo,
            read |-> read]
      BY <1>1, <3>2 DEF Sec_Scripts
    <3>4. QED
      BY <1>1, <3>1, <3>3 DEF Sec_Scripts, todo
  <2>5. Sec_ScriptOK'
    BY <1>1, <2>4 DEF Sec_Inv, Sec_ScriptOK
  <2>6. ASSUME ~Sec_busy
        PROVE  Sec_RotationOK'
    <3>1. Sec_RotationOK
      BY <2>6 DEF Sec_Inv
    <3>2. Sec_row[r].text = text
      BY <1>1, <2>2, <3>1 DEF Sec_RotationOK
    <3>3. \A s \in Sec!Rows : Sec_row'[s].text = Sec_stored'[s]
      BY <1>1, <2>3, <3>1, <3>2 DEF Sec_RotationOK
    <3>4. \A s \in Sec!There' \cap Sec_Passed' : Sec_row'[s].key = "new"
      <4>1. \A s \in Sec_Passed' : s \in Sec_Passed \/ s = r
        BY <2>4 DEF Sec_Passed
      <4>2. Sec!There' \subseteq Sec!There
        BY <2>3 DEF Sec!There
      <4>3. QED
        BY <1>1, <2>3, <3>1, <4>1, <4>2 DEF Sec_RotationOK, Sec!There
    <3>5. Sec_script.todo \subseteq Sec!Rows
      BY <1>1 DEF Sec_Scripts
    <3>6. \A s \in Sec_script'.todo : Sec_row'[s].text = Sec_script'.read[s].text /\
            Sec_row'[s].key = Sec_script'.read[s].key
      BY <1>1, <2>3, <2>4, <3>1, <3>5 DEF Sec_RotationOK
    <3>7. QED
      BY <2>4, <3>3, <3>4, <3>6 DEF Sec_RotationOK
  <2>7. \A v \in Sec_EnvVars \ Sec_crossed' : Sec_HiddenOK(v)'
    <3>1. \A v \in Sec_EnvVars : Sec_row'[v].secret = Sec_row[v].secret
      BY <2>3 DEF Sec!Rows
    <3>2. QED
      BY <1>1, <3>1 DEF Sec_Inv, Sec_HiddenOK
  <2>8. QED
    BY <1>1, <2>3, <2>4, <2>5, <2>6, <2>7 DEF Sec_Inv, Sec_Types, Sec_Assumption
<1>4. QED
  BY <1>2, <1>3

LEMMA Sec_RestartStep ==
  ASSUME Sec_Inv, Sec!RestartWithNewKey
  PROVE  Sec_Inv'
<1>1. /\ Sec_script.at = "done" /\ Sec_server' = "new"
      /\ Sec_meta' = [q \in Sec_Requests |-> Sec!Idle]
      /\ UNCHANGED <<Sec_row, Sec_script, Sec_stored, Sec_secret, Sec_busy, Sec_crossed, Sec_ops>>
  BY DEF Sec!RestartWithNewKey
<1>2. Sec!Idle \in [id : Sec_EnvVars \cup {Sec!None}, to : BOOLEAN]
  BY DEF Sec!Idle
<1>3. \A q \in Sec_Requests, v \in Sec_EnvVars : Sec_meta'[q].id # v
  BY <1>1 DEF Sec!Idle, Sec_Inv, Sec_Assumption
<1>4. \A v \in Sec_EnvVars \ Sec_crossed' : Sec_HiddenOK(v)'
  BY <1>1, <1>3 DEF Sec_Inv, Sec_HiddenOK
<1>5. Sec_ScriptOK' /\ (~Sec_busy' => Sec_RotationOK')
  BY <1>1 DEF Sec_Inv, Sec_ScriptOK, Sec_RotationOK, Sec!There, Sec_Passed
<1>6. QED
  BY <1>1, <1>2, <1>4, <1>5 DEF Sec_Inv, Sec_Types, Sec_Assumption

\* A rotation during which the server wrote nothing loses no value, however often it is broken
\* off; and only a request that crossed an updateMeta lists a secret in plain text.
THEOREM Secrets_Hold == SumSpec => []SecretsInv
<1>1. SumInit => Sec_Inv
  BY Sec_InitInv, RecordsAssumption DEF SumInit
<1>2. [SumNext]_allVars => [Sec!Next]_Sec!vars
  BY DEF SumNext, allVars, secretsVars, Sec!vars
<1>3. Sec_Inv /\ [Sec!Next]_Sec!vars => Sec_Inv'
  <2> SUFFICES ASSUME Sec_Inv, [Sec!Next]_Sec!vars
               PROVE  Sec_Inv'
    OBVIOUS
  <2>1. CASE UNCHANGED Sec!vars
    BY <2>1 DEF Sec!vars, Sec_Inv, Sec_Types, Sec_Assumption, Sec_ScriptOK, Sec_RotationOK,
       Sec_HiddenOK,
                Sec!There, Sec_Passed
  <2>2. CASE Sec!ScriptDies
    BY <2>2, Sec_Stops DEF Sec!ScriptDies
  <2>3. QED
    BY <2>1, <2>2, Sec_SetVarStep, Sec_StoreStep, Sec_DeleteStep, Sec_ResealStep, Sec_WriteMetaStep,
       Sec_ReadMetaStep, Sec_StartStep, Sec_NextTableStep, Sec_RestartStep DEF Sec!Next
<1>4. Sec_Inv => SecretsInv
  <2> SUFFICES ASSUME Sec_Inv
               PROVE  Sec!SecretsInv
    BY DEF SecretsInv
  <2>1. Sec!TypeOK
    <3> DEFINE Values == [text : Sec_Texts \cup {Sec!None}, key : {"old", "new", Sec!None},
          secret : BOOLEAN]
    <3>1. Sec_row \in [Sec!Rows -> Values] /\ Sec_script.read \in [Sec!Rows -> Values]
      <4>1. Sec_Sealed \subseteq Values /\ Sec!Absent \in Values
        BY DEF Sec_Sealed, Sec!Absent
      <4> HIDE DEF Values
      <4>2. QED
        BY <4>1 DEF Sec_Inv, Sec_Types, Sec_Scripts
    <3>2. /\ Sec_script.at \in {"off", "running", "failed", "done"}
          /\ Sec_script.todo \subseteq Sec!Rows
          /\ Sec_script.left \in 0..Len(Sec!RotatedTables)
      BY Sec_Tables DEF Sec_Inv, Sec_Types, Sec_Scripts
    <3>3. QED
      BY <3>1, <3>2 DEF Sec!TypeOK, Sec_Inv, Sec_Types
  <2>2. Sec!RotationKeeps
    <3> SUFFICES ASSUME ~Sec_busy
                 PROVE  /\ \A r \in Sec!Rows : Sec_row[r].text = Sec_stored[r]
                        /\ Sec_server = "new" => \A r \in Sec!There \ {"totp"} : Sec!Readable(r)
                        /\ Sec_script.at = "off" => \A r \in Sec!There : Sec!Readable(r)
      BY DEF Sec!RotationKeeps
    <3>1. Sec_RotationOK
      BY DEF Sec_Inv
    <3>2. Sec_script.at = "off" => Sec_server = "old"
      BY DEF Sec_Inv, Sec_ScriptOK, Sec_Types
    <3>3. ASSUME Sec_server = "new", NEW r \in Sec!There \ {"totp"}
          PROVE  Sec_row[r].key = "new"
      <4>1. Sec_script.at = "done" /\ Sec_script.left = 0
        BY <3>3 DEF Sec_Inv, Sec_ScriptOK
      <4>2. r \in Sec!Rows /\ \E k \in 1..4 : r \in Sec_Table(k)
        BY <3>3, Sec_Tables DEF Sec!There, Sec!Rows, Sec!Others
      <4>3. r \in Sec_Passed
        BY <4>1, <4>2 DEF Sec_Passed
      <4>4. QED
        BY <3>1, <3>3, <4>1, <4>3 DEF Sec_RotationOK
    <3>4. QED
      BY <3>1, <3>2, <3>3 DEF Sec_RotationOK, Sec!Readable
  <2>3. Sec!SecretsStayHidden
    BY DEF Sec_Inv, Sec_Types, Sec_HiddenOK, Sec!SecretsStayHidden
  <2>4. QED
    BY <2>1, <2>2, <2>3 DEF Sec!SecretsInv
<1>5. QED
  BY <1>1, <1>2, <1>3, <1>4, PTL DEF SumSpec

-----------------------------------------------------------------------------
(***************************************************************************)
(* DnsRecords.  While nothing is disturbed one request is under way, and its    *)
(* progress says what is left to do for its name; all other names are settled.   *)
(* Of the records Willy created for a name at most the one in its row is there.   *)
(***************************************************************************)

Dns_Records ==
  [at : {"list", "create", "upsert", "select", "remove", "forget"}, name : Dns_Names,
       id : 0..Dns_MaxIds]
  \cup {Dns!Idle}
Dns_Types ==
  /\ Dns_domain \subseteq Dns_Names /\ Dns_zone \in [Dns_Names -> SUBSET (1..Dns_ids)]
  /\ Dns_row \in [Dns_Names -> 0..Dns_MaxIds]
  /\ Dns_ours \subseteq 1..Dns_ids /\ Dns_edited \subseteq Dns_Names
  /\ Dns_lost \subseteq 1..Dns_MaxIds
  /\ Dns_request \in [Dns_Requests -> Dns_Records]
  /\ Dns_disturbed \in BOOLEAN /\ Dns_ids \in 0..Dns_MaxIds /\ Dns_ops \in 0..Dns_MaxOps

Dns_Settled(n) ==
  IF n \in Dns_domain
  THEN Dns_row[n] # 0 /\ (n \notin Dns_edited => Dns_row[n] \in Dns_zone[n]) /\
       Dns_zone[n] \cap Dns_ours \subseteq {Dns_row[n]}
  ELSE Dns_row[n] = 0 /\ Dns_zone[n] \cap Dns_ours = {}

\* Provision has yet to give the name a record and a row; deprovision, to take them away.
Dns_HalfDone(q, n) ==
  /\ q.at \in {"list", "create"} => n \in Dns_domain /\ Dns_row[n] = 0 /\
       Dns_zone[n] \cap Dns_ours = {}
  /\ q.at = "upsert" => /\ n \in Dns_domain /\ Dns_row[n] = 0
                        /\ Dns_zone[n] \cap Dns_ours \subseteq {q.id}
                        /\ q.id # 0 /\ (n \notin Dns_edited => q.id \in Dns_zone[n])
  /\ q.at = "select" => n \notin Dns_domain /\ Dns_row[n] # 0 /\
       Dns_zone[n] \cap Dns_ours \subseteq {Dns_row[n]}
  /\ q.at = "remove" => n \notin Dns_domain /\ Dns_zone[n] \cap Dns_ours \subseteq {q.id}
  /\ q.at = "forget" => n \notin Dns_domain /\ Dns_zone[n] \cap Dns_ours = {}

Dns_OrderOK ==
  /\ \A q, r \in Dns_Requests : Dns_request[q] # Dns!Idle /\ Dns_request[r] # Dns!Idle => q = r
  /\ \A r \in Dns_Requests : Dns_request[r] # Dns!Idle =>
       Dns_HalfDone(Dns_request[r], Dns_request[r].name)
  /\ \A n \in Dns_Names : (\A r \in Dns_Requests : Dns_request[r].name # n) => Dns_Settled(n)

Dns_Inv == Dns_Assumption /\ Dns_Types /\ (~Dns_disturbed => Dns_OrderOK)

LEMMA Dns_InitInv ==
  ASSUME Dns_Assumption, Dns!Init
  PROVE  Dns_Inv
<1>1. /\ Dns_domain = {} /\ Dns_zone = [n \in Dns_Names |-> {}] /\ Dns_row = [n \in Dns_Names |-> 0]
      /\ Dns_ours = {} /\ Dns_edited = {} /\ Dns_lost = {}
      /\ Dns_request = [r \in Dns_Requests |-> Dns!Idle]
  BY DEF Dns!Init
<1>2. Dns_disturbed \in BOOLEAN
  BY DEF Dns!Init
<1>3. Dns_ids \in 0..Dns_MaxIds /\ Dns_ops \in 0..Dns_MaxOps
  BY DEF Dns!Init, Dns_Assumption
<1>4. Dns_Types
  BY <1>1, <1>2, <1>3 DEF Dns_Types, Dns_Records, Dns_Assumption
<1>5. Dns_OrderOK
  BY <1>1 DEF Dns_OrderOK, Dns_Settled
<1>6. QED
  BY <1>4, <1>5 DEF Dns_Inv

\* A step of one request about one name: the other names stay as they were.
LEMMA Dns_Proceeds ==
  ASSUME Dns_Inv, NEW r \in Dns_Requests, NEW n \in Dns_Names, NEW next,
         Dns_request' = [Dns_request EXCEPT ![r] = next],
         \A q \in Dns_Requests \ {r} : Dns_request[q] = Dns!Idle,
         \A m \in Dns_Names \ {n} : /\ Dns_Settled(m) /\ (m \in Dns_domain' <=> m \in Dns_domain)
                                    /\ Dns_row'[m] = Dns_row[m] /\ Dns_zone'[m] = Dns_zone[m]
                                    /\ Dns_zone'[m] \cap Dns_ours' = Dns_zone[m] \cap Dns_ours,
         Dns_edited' = Dns_edited,
         next = Dns!Idle => Dns_Settled(n)',
         next # Dns!Idle => next.name = n /\ \A q : q = next => Dns_HalfDone(q, n)'
  PROVE  Dns_OrderOK'
<1>1. \A q \in Dns_Requests : Dns_request'[q] = IF q = r THEN next ELSE Dns!Idle
  BY DEF Dns_Inv, Dns_Types
<1>2. \A m \in Dns_Names \ {n} : Dns_Settled(m)'
  BY DEF Dns_Settled
<1>3. ASSUME NEW m \in Dns_Names, \A q \in Dns_Requests : Dns_request'[q].name # m
      PROVE  Dns_Settled(m)'
  BY <1>1, <1>2, <1>3
<1>4. ASSUME NEW q \in Dns_Requests, Dns_request'[q] # Dns!Idle
      PROVE  Dns_HalfDone(Dns_request[q], Dns_request[q].name)'
  BY <1>1, <1>4 DEF Dns_HalfDone
<1>5. QED
  BY <1>1, <1>3, <1>4 DEF Dns_OrderOK

\* The request that is under way is alone.
LEMMA Dns_Alone ==
  ASSUME Dns_Inv, ~Dns_disturbed, NEW r \in Dns_Requests, Dns_request[r] # Dns!Idle
  PROVE  /\ Dns_request[r].name \in Dns_Names /\ Dns_HalfDone(Dns_request[r], Dns_request[r].name)
         /\ \A q \in Dns_Requests \ {r} : Dns_request[q] = Dns!Idle
         /\ \A m \in Dns_Names \ {Dns_request[r].name} : Dns_Settled(m)
<1>1. \A q \in Dns_Requests \ {r} : Dns_request[q] = Dns!Idle
  BY DEF Dns_Inv, Dns_OrderOK
<1>2. Dns!Idle.name \notin Dns_Names
  BY DEF Dns!Idle, Dns_Inv, Dns_Assumption
<1>3. \A m \in Dns_Names \ {Dns_request[r].name} : \A q \in Dns_Requests : Dns_request[q].name # m
  BY <1>1, <1>2
<1>4. Dns_request[r].name \in Dns_Names
  BY DEF Dns_Inv, Dns_Types, Dns_Records
<1>5. QED
  BY <1>1, <1>3, <1>4 DEF Dns_Inv, Dns_OrderOK

LEMMA Dns_BeginsAlone ==
  ASSUME Dns_Inv, NEW r \in Dns_Requests, NEW at, NEW n, Dns!Begins(r, at, n)
  PROVE  /\ Dns_request[r] = Dns!Idle /\ Dns_disturbed' \in BOOLEAN /\ Dns_ops' \in 0..Dns_MaxOps
         /\ Dns_request' = [Dns_request EXCEPT ![r] = [at |-> at, name |-> n, id |-> 0]]
         /\ ~Dns_disturbed' => /\ ~Dns_disturbed
                               /\ \A q \in Dns_Requests : Dns_request[q] = Dns!Idle
                               /\ \A m \in Dns_Names : Dns_Settled(m)
<1>1. /\ Dns_request[r] = Dns!Idle /\ Dns_ops < Dns_MaxOps /\ Dns_ops' = Dns_ops + 1
      /\ Dns_request' = [Dns_request EXCEPT ![r] = [at |-> at, name |-> n, id |-> 0]]
  BY DEF Dns!Begins, Dns!Counted
<1>2. Dns_disturbed' = (Dns_disturbed \/ \E q \in Dns_Requests \ {r} : Dns_request[q] # Dns!Idle)
  BY DEF Dns!Begins
<1>3. Dns_disturbed' \in BOOLEAN
  BY <1>2 DEF Dns_Inv, Dns_Types
<1>4. Dns_ops' \in 0..Dns_MaxOps
  BY <1>1 DEF Dns_Inv, Dns_Types, Dns_Assumption
<1>5. ASSUME ~Dns_disturbed'
      PROVE  /\ ~Dns_disturbed /\ \A q \in Dns_Requests : Dns_request[q] = Dns!Idle
             /\ \A m \in Dns_Names : Dns_Settled(m)
  <2>1. ~Dns_disturbed /\ \A q \in Dns_Requests : Dns_request[q] = Dns!Idle
    BY <1>1, <1>2, <1>5
  <2>2. Dns!Idle.name \notin Dns_Names
    BY DEF Dns!Idle, Dns_Inv, Dns_Assumption
  <2>3. \A m \in Dns_Names : \A q \in Dns_Requests : Dns_request[q].name # m
    BY <2>1, <2>2
  <2>4. \A m \in Dns_Names : Dns_Settled(m)
    BY <2>1, <2>3 DEF Dns_Inv, Dns_OrderOK
  <2>5. QED
    BY <2>1, <2>4
<1>6. QED
  BY <1>1, <1>3, <1>4, <1>5

LEMMA Dns_AttachStep ==
  ASSUME Dns_Inv, NEW r \in Dns_Requests, NEW n \in Dns_Names, Dns!Attach(r, n)
  PROVE  Dns_Inv'
<1>1. /\ n \notin Dns_domain /\ Dns_domain' = Dns_domain \cup {n} /\ Dns!Begins(r, "list", n)
      /\ UNCHANGED <<Dns_zone, Dns_row, Dns_ours, Dns_edited, Dns_lost, Dns_ids>>
  BY DEF Dns!Attach
<1> DEFINE next == [at |-> "list", name |-> n, id |-> 0]
<1>2. next \in Dns_Records /\ next.at = "list" /\ next.name = n /\ next # Dns!Idle
  BY DEF Dns_Records, Dns!Idle, Dns_Inv, Dns_Assumption
<1>3. /\ Dns_disturbed' \in BOOLEAN /\ Dns_ops' \in 0..Dns_MaxOps
      /\ Dns_request' = [Dns_request EXCEPT ![r] = next]
      /\ ~Dns_disturbed' => /\ ~Dns_disturbed /\ \A q \in Dns_Requests : Dns_request[q] = Dns!Idle
                            /\ \A m \in Dns_Names : Dns_Settled(m)
  BY <1>1, Dns_BeginsAlone
<1> HIDE DEF next
<1>4. Dns_Types'
  BY <1>1, <1>2, <1>3 DEF Dns_Inv, Dns_Types
<1>5. ASSUME ~Dns_disturbed'
      PROVE  Dns_OrderOK'
  <2>1. \A q : q = next => Dns_HalfDone(q, n)'
    BY <1>1, <1>2, <1>3, <1>5 DEF Dns_HalfDone, Dns_Settled
  <2>2. QED
    BY <1>1, <1>2, <1>3, <1>5, <2>1, Dns_Proceeds
<1>6. QED
  BY <1>4, <1>5 DEF Dns_Inv, Dns_Assumption

LEMMA Dns_DetachStep ==
  ASSUME Dns_Inv, NEW r \in Dns_Requests, NEW n \in Dns_Names, Dns!Detach(r, n)
  PROVE  Dns_Inv'
<1>1. /\ n \in Dns_domain /\ Dns_domain' = Dns_domain \ {n} /\ Dns!Begins(r, "select", n)
      /\ UNCHANGED <<Dns_zone, Dns_row, Dns_ours, Dns_edited, Dns_lost, Dns_ids>>
  BY DEF Dns!Detach
<1> DEFINE next == [at |-> "select", name |-> n, id |-> 0]
<1>2. next \in Dns_Records /\ next.at = "select" /\ next.name = n /\ next # Dns!Idle
  BY DEF Dns_Records, Dns!Idle, Dns_Inv, Dns_Assumption
<1>3. /\ Dns_disturbed' \in BOOLEAN /\ Dns_ops' \in 0..Dns_MaxOps
      /\ Dns_request' = [Dns_request EXCEPT ![r] = next]
      /\ ~Dns_disturbed' => /\ ~Dns_disturbed /\ \A q \in Dns_Requests : Dns_request[q] = Dns!Idle
                            /\ \A m \in Dns_Names : Dns_Settled(m)
  BY <1>1, Dns_BeginsAlone
<1> HIDE DEF next
<1>4. Dns_Types'
  BY <1>1, <1>2, <1>3 DEF Dns_Inv, Dns_Types
<1>5. ASSUME ~Dns_disturbed'
      PROVE  Dns_OrderOK'
  <2>1. \A q : q = next => Dns_HalfDone(q, n)'
    BY <1>1, <1>2, <1>3, <1>5 DEF Dns_HalfDone, Dns_Settled
  <2>2. QED
    BY <1>1, <1>2, <1>3, <1>5, <2>1, Dns_Proceeds
<1>6. QED
  BY <1>4, <1>5 DEF Dns_Inv, Dns_Assumption

\* A request goes from one call to the next: the record it has for that.
LEMMA Dns_GoesOn ==
  ASSUME Dns_Types, NEW r \in Dns_Requests, Dns_request[r] # Dns!Idle, NEW id \in 0..Dns_MaxIds,
         NEW at \in {"list", "create", "upsert", "select", "remove", "forget"}, Dns!Goes(r, at, id)
  PROVE  \E next \in Dns_Records :
           /\ Dns_request' = [Dns_request EXCEPT ![r] = next]
           /\ next.at = at /\ next.id = id /\ next.name = Dns_request[r].name /\ next # Dns!Idle
<1> DEFINE next == [Dns_request[r] EXCEPT !.at = at, !.id = id]
<1>1. Dns_request[r] \in [at : {"list", "create", "upsert", "select", "remove", "forget"},
        name : Dns_Names, id : 0..Dns_MaxIds]
  BY DEF Dns_Types, Dns_Records
<1>2. next \in Dns_Records /\ next.at = at /\ next.id = id /\ next.name = Dns_request[r].name
  BY <1>1 DEF Dns_Records
<1>3. Dns_request' = [Dns_request EXCEPT ![r] = next]
  BY DEF Dns!Goes, Dns_Types
<1>4. next # Dns!Idle
  BY <1>2 DEF Dns!Idle
<1>5. QED
  BY <1>2, <1>3, <1>4

LEMMA Dns_FindStep ==
  ASSUME Dns_Inv, NEW r \in Dns_Requests, Dns!FindRecord(r)
  PROVE  Dns_Inv'
<1>1. /\ Dns_request[r].at = "list" /\ Dns_request[r] # Dns!Idle
      /\ UNCHANGED <<Dns_domain, Dns_zone, Dns_row, Dns_ours, Dns_edited, Dns_lost, Dns_ids,
           Dns_ops>>
  BY DEF Dns!FindRecord, Dns!Idle
<1>2. PICK n \in Dns_Names : n = Dns_request[r].name
  BY <1>1 DEF Dns_Inv, Dns_Types, Dns_Records
<1>3. CASE Dns!Fails(r)
  <2>1. Dns_request' \in [Dns_Requests -> Dns_Records] /\ Dns_disturbed'
    BY <1>3 DEF Dns!Fails, Dns!Done, Dns_Inv, Dns_Types, Dns_Records
  <2>2. Dns_disturbed' \in BOOLEAN
    BY <1>3 DEF Dns!Fails
  <2>3. QED
    BY <1>1, <2>1, <2>2 DEF Dns_Inv, Dns_Types, Dns_Assumption
<1>4. ASSUME Dns_disturbed' = Dns_disturbed, NEW at \in {"create", "upsert"},
        NEW id \in 0..Dns_MaxIds, Dns!Goes(r, at, id),
             at = "create" => Dns_zone[n] = {}, at = "upsert" => id \in Dns_zone[n]
      PROVE  Dns_Inv'
  <2>1. PICK next \in Dns_Records : /\ Dns_request' = [Dns_request EXCEPT ![r] = next]
                                    /\ next.at = at /\ next.id = id
                                    /\ next.name = n /\ next # Dns!Idle
    BY <1>1, <1>2, <1>4, Dns_GoesOn DEF Dns_Inv
  <2>2. Dns_Types'
    BY <1>1, <1>4, <2>1 DEF Dns_Inv, Dns_Types
  <2>3. ASSUME ~Dns_disturbed
        PROVE  Dns_OrderOK'
    <3>1. /\ Dns_HalfDone(Dns_request[r], n)
          /\ \A q \in Dns_Requests \ {r} : Dns_request[q] = Dns!Idle
          /\ \A m \in Dns_Names \ {n} : Dns_Settled(m)
      BY <1>1, <1>2, <2>3, Dns_Alone
    <3>2. n \in Dns_domain /\ Dns_row[n] = 0 /\ Dns_zone[n] \cap Dns_ours = {}
      BY <1>1, <3>1 DEF Dns_HalfDone
    <3>3. at = "upsert" => id # 0
      BY <1>4 DEF Dns_Inv, Dns_Types
    <3>4. \A q : q = next => Dns_HalfDone(q, n)'
      BY <1>1, <1>4, <2>1, <3>2, <3>3 DEF Dns_HalfDone
    <3>5. QED
      BY <1>1, <2>1, <3>1, <3>4, Dns_Proceeds
  <2>4. QED
    BY <1>4, <2>2, <2>3 DEF Dns_Inv, Dns_Assumption
<1>5. Dns_zone[n] \subseteq 0..Dns_MaxIds /\ 0 \in 0..Dns_MaxIds
  BY DEF Dns_Inv, Dns_Types, Dns_Assumption
<1>6. QED
  BY <1>2, <1>3, <1>4, <1>5 DEF Dns!FindRecord

LEMMA Dns_CreateStep ==
  ASSUME Dns_Inv, NEW r \in Dns_Requests, Dns!CreateRecord(r)
  PROVE  Dns_Inv'
<1>1. /\ Dns_request[r].at = "create" /\ Dns_request[r] # Dns!Idle
      /\ UNCHANGED <<Dns_domain, Dns_row, Dns_edited, Dns_lost, Dns_ops>>
  BY DEF Dns!CreateRecord, Dns!Idle
<1>2. PICK n \in Dns_Names : n = Dns_request[r].name
  BY <1>1 DEF Dns_Inv, Dns_Types, Dns_Records
<1>3. \/ Dns_ids < Dns_MaxIds /\ Dns_ids' = Dns_ids + 1 /\
           Dns_zone' = [Dns_zone EXCEPT ![n] = @ \cup {Dns_ids + 1}] /\
                Dns_ours' = Dns_ours \cup {Dns_ids + 1}
      \/ Dns!Fails(r) /\ UNCHANGED <<Dns_zone, Dns_ours, Dns_ids>>
  BY <1>2 DEF Dns!CreateRecord
<1>4. Dns_ids' \in 0..Dns_MaxIds /\ Dns_zone' \in [Dns_Names -> SUBSET (1..Dns_ids')] /\
        Dns_ours' \subseteq 1..Dns_ids'
  <2>1. CASE Dns_ids < Dns_MaxIds /\ Dns_ids' = Dns_ids + 1
             /\ Dns_zone' = [Dns_zone EXCEPT ![n] = @ \cup {Dns_ids + 1}]
             /\ Dns_ours' = Dns_ours \cup {Dns_ids + 1}
    <3>1. 1..Dns_ids \subseteq 1..Dns_ids' /\ Dns_ids + 1 \in 1..Dns_ids' /\
            Dns_ids' \in 0..Dns_MaxIds
      BY <2>1 DEF Dns_Inv, Dns_Types, Dns_Assumption
    <3>2. QED
      BY <2>1, <3>1 DEF Dns_Inv, Dns_Types
  <2>2. CASE UNCHANGED <<Dns_zone, Dns_ours, Dns_ids>>
    BY <2>2 DEF Dns_Inv, Dns_Types
  <2>3. QED
    BY <1>3, <2>1, <2>2
<1>5. CASE Dns!Fails(r)
  <2>1. Dns_request' \in [Dns_Requests -> Dns_Records] /\ Dns_disturbed'
    BY <1>5 DEF Dns!Fails, Dns!Done, Dns_Inv, Dns_Types, Dns_Records
  <2>2. Dns_disturbed' \in BOOLEAN
    BY <1>5 DEF Dns!Fails
  <2>3. QED
    BY <1>1, <1>4, <2>1, <2>2 DEF Dns_Inv, Dns_Types, Dns_Assumption
<1>6. CASE ~Dns!Fails(r)
  <2>1. /\ Dns_ids < Dns_MaxIds /\ Dns_ids' = Dns_ids + 1
        /\ Dns_zone' = [Dns_zone EXCEPT ![n] = @ \cup {Dns_ids + 1}]
        /\ Dns_ours' = Dns_ours \cup {Dns_ids + 1} /\ Dns_disturbed' = Dns_disturbed
        /\ Dns!Goes(r, "upsert", Dns_ids + 1)
    BY <1>2, <1>6 DEF Dns!CreateRecord
  <2>2. Dns_ids + 1 \in 0..Dns_MaxIds /\ Dns_ids + 1 # 0
    BY <2>1 DEF Dns_Inv, Dns_Types, Dns_Assumption
  <2>3. PICK next \in Dns_Records :
          /\ Dns_request' = [Dns_request EXCEPT ![r] = next] /\ next.at = "upsert"
          /\ next.id = Dns_ids + 1
          /\ next.name = n /\ next # Dns!Idle
    BY <1>1, <1>2, <2>1, <2>2, Dns_GoesOn DEF Dns_Inv
  <2>4. Dns_Types'
    BY <1>1, <1>4, <2>1, <2>3 DEF Dns_Inv, Dns_Types
  <2>5. ASSUME ~Dns_disturbed
        PROVE  Dns_OrderOK'
    <3>1. /\ Dns_HalfDone(Dns_request[r], n)
          /\ \A q \in Dns_Requests \ {r} : Dns_request[q] = Dns!Idle
          /\ \A m \in Dns_Names \ {n} : Dns_Settled(m)
      BY <1>1, <1>2, <2>5, Dns_Alone
    <3>2. n \in Dns_domain /\ Dns_row[n] = 0 /\ Dns_zone[n] \cap Dns_ours = {}
      BY <1>1, <3>1 DEF Dns_HalfDone
    <3>3. \A m \in Dns_Names : Dns_ids + 1 \notin Dns_zone[m] /\
            Dns_zone[m] \cap (Dns_ours \cup {Dns_ids + 1}) = Dns_zone[m] \cap Dns_ours
      BY DEF Dns_Inv, Dns_Types
    <3>4. /\ Dns_zone'[n] = Dns_zone[n] \cup {Dns_ids + 1}
          /\ Dns_zone'[n] \cap Dns_ours' \subseteq {Dns_ids + 1}
          /\ \A m \in Dns_Names \ {n} : Dns_zone'[m] = Dns_zone[m] /\
               Dns_zone'[m] \cap Dns_ours' = Dns_zone[m] \cap Dns_ours
      BY <2>1, <3>2, <3>3 DEF Dns_Inv, Dns_Types
    <3>5. \A q : q = next => Dns_HalfDone(q, n)'
      BY <1>1, <2>2, <2>3, <3>2, <3>4 DEF Dns_HalfDone
    <3>6. \A m \in Dns_Names \ {n} : /\ Dns_Settled(m) /\ (m \in Dns_domain' <=> m \in Dns_domain)
                                      /\ Dns_row'[m] = Dns_row[m] /\ Dns_zone'[m] = Dns_zone[m]
                                      /\ Dns_zone'[m] \cap Dns_ours' = Dns_zone[m] \cap Dns_ours
      BY <1>1, <3>1, <3>4
    <3>7. QED
      BY <1>1, <2>3, <3>1, <3>5, <3>6, Dns_Proceeds
  <2>6. QED
    BY <2>1, <2>4, <2>5 DEF Dns_Inv, Dns_Assumption
<1>7. QED
  BY <1>5, <1>6

\* The steps that only write the row, or only read it.
LEMMA Dns_RowStep ==
  ASSUME Dns_Inv, NEW r \in Dns_Requests, Dns!UpsertRow(r) \/ Dns!SelectRow(r) \/ Dns!ForgetRow(r)
  PROVE  Dns_Inv'
<1>1. /\ Dns_request[r].at \in {"upsert", "select", "forget"} /\ Dns_request[r] # Dns!Idle
      /\ UNCHANGED <<Dns_domain, Dns_zone, Dns_ours, Dns_edited, Dns_disturbed, Dns_lost, Dns_ids,
           Dns_ops>>
  BY DEF Dns!UpsertRow, Dns!SelectRow, Dns!ForgetRow, Dns!Idle
<1>2. PICK n \in Dns_Names : n = Dns_request[r].name
  BY <1>1 DEF Dns_Inv, Dns_Types, Dns_Records
<1>3. Dns_request[r].id \in 0..Dns_MaxIds /\ Dns_row[n] \in 0..Dns_MaxIds
  BY <1>1 DEF Dns_Inv, Dns_Types, Dns_Records
<1>4. \E next \in Dns_Records :
        /\ Dns_request' = [Dns_request EXCEPT ![r] = next]
        /\ next # Dns!Idle => /\ Dns!SelectRow(r) /\ next.at = "remove" /\ next.id = Dns_row[n]
                              /\ next.name = n
                              /\ Dns_row[n] # 0
        /\ next = Dns!Idle => ~Dns!SelectRow(r) \/ Dns_row[n] = 0
  <2>1. CASE Dns!SelectRow(r) /\ Dns_row[n] # 0
    <3>1. Dns!Goes(r, "remove", Dns_row[n])
      BY <1>2, <2>1 DEF Dns!SelectRow
    <3>2. QED
      BY <1>1, <1>2, <1>3, <2>1, <3>1, Dns_GoesOn DEF Dns_Inv
  <2>2. CASE ~(Dns!SelectRow(r) /\ Dns_row[n] # 0)
    <3>1. Dns_request' = [Dns_request EXCEPT ![r] = Dns!Idle]
      BY <1>2, <2>2 DEF Dns!SelectRow, Dns!UpsertRow, Dns!ForgetRow, Dns!Done
    <3>2. QED
      BY <2>2, <3>1 DEF Dns_Records
  <2>3. QED
    BY <2>1, <2>2
<1>5. PICK next \in Dns_Records :
        /\ Dns_request' = [Dns_request EXCEPT ![r] = next]
        /\ next # Dns!Idle => /\ Dns!SelectRow(r) /\ next.at = "remove" /\ next.id = Dns_row[n]
                              /\ next.name = n
                              /\ Dns_row[n] # 0
        /\ next = Dns!Idle => ~Dns!SelectRow(r) \/ Dns_row[n] = 0
  BY <1>4
<1>6. /\ Dns_row' \in [Dns_Names -> 0..Dns_MaxIds]
      /\ \A m \in Dns_Names \ {n} : Dns_row'[m] = Dns_row[m]
      /\ Dns_row'[n] = IF Dns_request[r].at = "upsert" THEN Dns_request[r].id
                       ELSE IF Dns_request[r].at = "forget" THEN 0 ELSE Dns_row[n]
  BY <1>2, <1>3 DEF Dns!UpsertRow, Dns!SelectRow, Dns!ForgetRow, Dns_Inv, Dns_Types, Dns_Assumption
<1>7. Dns_Types'
  BY <1>1, <1>5, <1>6 DEF Dns_Inv, Dns_Types
<1>8. ASSUME ~Dns_disturbed
      PROVE  Dns_OrderOK'
  <2>1. /\ Dns_HalfDone(Dns_request[r], n)
        /\ \A q \in Dns_Requests \ {r} : Dns_request[q] = Dns!Idle
        /\ \A m \in Dns_Names \ {n} : Dns_Settled(m)
    BY <1>1, <1>2, <1>8, Dns_Alone
  <2>2. next = Dns!Idle => Dns_Settled(n)'
    <3>1. CASE Dns_request[r].at = "upsert"
      BY <1>1, <1>6, <2>1, <3>1 DEF Dns_HalfDone, Dns_Settled
    <3>2. CASE Dns_request[r].at = "forget"
      BY <1>1, <1>6, <2>1, <3>2 DEF Dns_HalfDone, Dns_Settled
    <3>3. CASE Dns_request[r].at = "select"
      <4>1. Dns!SelectRow(r) /\ Dns_row[n] # 0
        BY <2>1, <3>3 DEF Dns_HalfDone, Dns!UpsertRow, Dns!ForgetRow
      <4>2. QED
        BY <1>5, <4>1
    <3>4. QED
      BY <1>1, <3>1, <3>2, <3>3
  <2>3. next # Dns!Idle => \A q : q = next => Dns_HalfDone(q, n)'
    <3>1. next # Dns!Idle => Dns_request[r].at = "select"
      BY <1>5 DEF Dns!SelectRow
    <3>2. QED
      BY <1>1, <1>5, <1>6, <2>1, <3>1 DEF Dns_HalfDone
  <2>4. QED
    BY <1>1, <1>5, <1>6, <2>1, <2>2, <2>3, Dns_Proceeds
<1>9. QED
  BY <1>1, <1>7, <1>8 DEF Dns_Inv, Dns_Assumption

LEMMA Dns_RemoveStep ==
  ASSUME Dns_Inv, NEW r \in Dns_Requests, Dns!RemoveRecord(r)
  PROVE  Dns_Inv'
<1>1. /\ Dns_request[r].at = "remove" /\ Dns_request[r] # Dns!Idle
      /\ UNCHANGED <<Dns_domain, Dns_row, Dns_ours, Dns_edited, Dns_ids, Dns_ops>>
      /\ Dns!Goes(r, "forget", Dns_request[r].id)
  BY DEF Dns!RemoveRecord, Dns!Idle
<1>2. PICK n \in Dns_Names : n = Dns_request[r].name
  BY <1>1 DEF Dns_Inv, Dns_Types, Dns_Records
<1>3. PICK id \in 0..Dns_MaxIds : id = Dns_request[r].id
  BY <1>1 DEF Dns_Inv, Dns_Types, Dns_Records
<1>4. \/ /\ Dns_zone' = [Dns_zone EXCEPT ![n] = @ \ {id}] /\ Dns_disturbed' = Dns_disturbed
         /\ Dns_lost' = Dns_lost \cup ((Dns_zone[n] \cap {id}) \ Dns_ours)
      \/ Dns_disturbed' /\ UNCHANGED <<Dns_zone, Dns_lost>>
  BY <1>2, <1>3 DEF Dns!RemoveRecord
<1>5. Dns_disturbed' \in BOOLEAN /\ Dns_zone' \in [Dns_Names -> SUBSET (1..Dns_ids)] /\
        Dns_lost' \subseteq 1..Dns_MaxIds
  <2>1. Dns_zone[n] \subseteq 1..Dns_MaxIds
    BY DEF Dns_Inv, Dns_Types, Dns_Assumption
  <2>2. Dns_disturbed' \in BOOLEAN
    BY DEF Dns!RemoveRecord, Dns_Inv, Dns_Types
  <2>3. QED
    BY <1>4, <2>1, <2>2 DEF Dns_Inv, Dns_Types
<1>6. PICK next \in Dns_Records : /\ Dns_request' = [Dns_request EXCEPT ![r] = next]
                                  /\ next.at = "forget"
                                  /\ next.name = n /\ next # Dns!Idle
  BY <1>1, <1>2, <1>3, Dns_GoesOn DEF Dns_Inv
<1>7. Dns_Types'
  BY <1>1, <1>5, <1>6 DEF Dns_Inv, Dns_Types
<1>8. ASSUME ~Dns_disturbed'
      PROVE  Dns_OrderOK'
  <2>1. Dns_zone' = [Dns_zone EXCEPT ![n] = @ \ {id}] /\ ~Dns_disturbed
    BY <1>4, <1>8
  <2>2. /\ Dns_HalfDone(Dns_request[r], n)
        /\ \A q \in Dns_Requests \ {r} : Dns_request[q] = Dns!Idle
        /\ \A m \in Dns_Names \ {n} : Dns_Settled(m)
    BY <1>1, <1>2, <2>1, Dns_Alone
  <2>3. Dns_zone'[n] \cap Dns_ours = {} /\ n \notin Dns_domain /\
          \A m \in Dns_Names \ {n} : Dns_zone'[m] = Dns_zone[m]
    BY <1>1, <1>3, <2>1, <2>2 DEF Dns_HalfDone, Dns_Inv, Dns_Types
  <2>4. \A q : q = next => Dns_HalfDone(q, n)'
    BY <1>1, <1>6, <2>3 DEF Dns_HalfDone
  <2>5. QED
    BY <1>1, <1>6, <2>2, <2>3, <2>4, Dns_Proceeds
<1>9. QED
  BY <1>7, <1>8 DEF Dns_Inv, Dns_Assumption

\* What an operator does to a zone concerns no record of Willy's but the one of the edited name.
LEMMA Dns_OperatorStep ==
  ASSUME Dns_Inv, NEW n \in Dns_Names, Dns!OperatorCreates(n) \/ Dns!OperatorRemoves(n)
  PROVE  Dns_Inv'
<1>1. /\ UNCHANGED <<Dns_domain, Dns_row, Dns_ours, Dns_request, Dns_disturbed, Dns_lost>>
      /\ Dns_edited' = Dns_edited \cup {n}
      /\ Dns_ops' \in 0..Dns_MaxOps /\ Dns_ids' \in Dns_ids..Dns_MaxIds
      /\ Dns_zone' \in [Dns_Names -> SUBSET (1..Dns_ids')]
      /\ \A m \in Dns_Names \ {n} : Dns_zone'[m] = Dns_zone[m]
      /\ Dns_zone'[n] \cap Dns_ours \subseteq Dns_zone[n] \cap Dns_ours
  <2>1. CASE Dns!OperatorCreates(n)
    <3>1. /\ Dns_ids < Dns_MaxIds /\ Dns_ids' = Dns_ids + 1
          /\ Dns_zone' = [Dns_zone EXCEPT ![n] = @ \cup {Dns_ids + 1}]
          /\ Dns_edited' = Dns_edited \cup {n}
          /\ UNCHANGED <<Dns_domain, Dns_row, Dns_ours, Dns_request, Dns_disturbed, Dns_lost>>
          /\ Dns_ops < Dns_MaxOps /\ Dns_ops' = Dns_ops + 1
      BY <2>1 DEF Dns!OperatorCreates, Dns!Counted
    <3>2. /\ Dns_ids' \in Dns_ids..Dns_MaxIds /\ Dns_ops' \in 0..Dns_MaxOps
          /\ 1..Dns_ids \subseteq 1..Dns_ids' /\ Dns_ids + 1 \in 1..Dns_ids'
          /\ Dns_ids + 1 \notin Dns_ours
      BY <3>1 DEF Dns_Inv, Dns_Types, Dns_Assumption
    <3>3. QED
      BY <3>1, <3>2 DEF Dns_Inv, Dns_Types
  <2>2. CASE Dns!OperatorRemoves(n)
    <3>1. PICK id \in Dns_zone[n] : Dns_zone' = [Dns_zone EXCEPT ![n] = @ \ {id}]
      BY <2>2 DEF Dns!OperatorRemoves
    <3>2. /\ Dns_edited' = Dns_edited \cup {n}
          /\ UNCHANGED <<Dns_domain, Dns_row, Dns_ours, Dns_request, Dns_disturbed, Dns_lost,
               Dns_ids>>
          /\ Dns_ops < Dns_MaxOps /\ Dns_ops' = Dns_ops + 1
      BY <2>2 DEF Dns!OperatorRemoves, Dns!Counted
    <3>3. Dns_ids' \in Dns_ids..Dns_MaxIds /\ Dns_ops' \in 0..Dns_MaxOps
      BY <3>2 DEF Dns_Inv, Dns_Types, Dns_Assumption
    <3>4. QED
      BY <3>1, <3>2, <3>3 DEF Dns_Inv, Dns_Types
  <2>3. QED
    BY <2>1, <2>2
<1>2. Dns_Types'
  <2>1. Dns_ids' \in 0..Dns_MaxIds /\ 1..Dns_ids \subseteq 1..Dns_ids'
    BY <1>1 DEF Dns_Inv, Dns_Types, Dns_Assumption
  <2>2. QED
    BY <1>1, <2>1 DEF Dns_Inv, Dns_Types
<1>3. \A m \in Dns_Names : Dns_Settled(m) => Dns_Settled(m)'
  BY <1>1 DEF Dns_Settled
<1>4. \A q : \A m \in Dns_Names : Dns_HalfDone(q, m) => Dns_HalfDone(q, m)'
  BY <1>1 DEF Dns_HalfDone
<1>5. ASSUME Dns_OrderOK
      PROVE  Dns_OrderOK'
  <2>1. \A r \in Dns_Requests : Dns_request[r] # Dns!Idle => Dns_request[r].name \in Dns_Names
    BY DEF Dns_Inv, Dns_Types, Dns_Records
  <2>2. QED
    BY <1>1, <1>3, <1>4, <1>5, <2>1 DEF Dns_OrderOK
<1>6. QED
  BY <1>1, <1>2, <1>5 DEF Dns_Inv, Dns_Assumption

LEMMA Dns_Step ==
  ASSUME Dns_Inv, [Dns!Next]_Dns!vars
  PROVE  Dns_Inv'
<1>1. CASE Dns!TearDown
  <2>1. /\ Dns_domain' = {} /\ Dns_disturbed' = TRUE /\ Dns_ops < Dns_MaxOps
        /\ Dns_ops' = Dns_ops + 1
        /\ UNCHANGED <<Dns_zone, Dns_row, Dns_ours, Dns_edited, Dns_request, Dns_lost, Dns_ids>>
    BY <1>1 DEF Dns!TearDown, Dns!Counted
  <2>2. Dns_disturbed' \in BOOLEAN /\ Dns_disturbed'
    BY <2>1
  <2>3. Dns_ops' \in 0..Dns_MaxOps
    BY <2>1 DEF Dns_Inv, Dns_Types, Dns_Assumption
  <2>4. QED
    BY <2>1, <2>2, <2>3 DEF Dns_Inv, Dns_Types, Dns_Assumption
<1>2. CASE Dns!Crash
  <2>1. /\ Dns_request' = [r \in Dns_Requests |-> Dns!Idle] /\ Dns_disturbed' = TRUE
        /\ UNCHANGED <<Dns_domain, Dns_zone, Dns_row, Dns_ours, Dns_edited, Dns_lost, Dns_ids,
             Dns_ops>>
    BY <1>2 DEF Dns!Crash
  <2>2. Dns_disturbed' \in BOOLEAN /\ Dns_disturbed'
    BY <2>1
  <2>3. Dns_request' \in [Dns_Requests -> Dns_Records]
    BY <2>1 DEF Dns_Records
  <2>4. QED
    BY <2>1, <2>2, <2>3 DEF Dns_Inv, Dns_Types, Dns_Assumption
<1>3. CASE UNCHANGED Dns!vars
  BY <1>3 DEF Dns!vars, Dns_Inv, Dns_Types, Dns_Assumption, Dns_OrderOK, Dns_Settled, Dns_HalfDone
<1>4. QED
  BY <1>1, <1>2, <1>3, Dns_AttachStep, Dns_DetachStep, Dns_FindStep, Dns_CreateStep, Dns_RowStep,
     Dns_RemoveStep, Dns_OperatorStep DEF Dns!Next

\* While requests come one after another and no call fails, a name has a record and a row as long as
\* it is a domain, and nothing that Willy created is left when it no longer is.
THEOREM Dns_Hold == SumSpec => []DnsInv
<1>1. SumInit => Dns_Inv
  BY Dns_InitInv, RecordsAssumption DEF SumInit
<1>2. [SumNext]_allVars => [Dns!Next]_Dns!vars
  BY DEF SumNext, allVars, dnsVars, Dns!vars
<1>3. Dns_Inv /\ [Dns!Next]_Dns!vars => Dns_Inv'
  BY Dns_Step
<1>4. Dns_Inv => DnsInv
  <2> SUFFICES ASSUME Dns_Inv
               PROVE  Dns!DnsInv
    BY DEF DnsInv
  <2>1. Dns!TypeOK
    <3>1. /\ 1..Dns_ids \subseteq Dns!Ids /\ Dns_zone \in [Dns_Names -> SUBSET Dns!Ids]
          /\ Dns_ours \subseteq Dns!Ids
          /\ Dns_lost \subseteq Dns!Ids
      BY DEF Dns_Inv, Dns_Types, Dns_Assumption, Dns!Ids
    <3>2. \A r \in Dns_Requests : Dns_request[r] \in
            [at : {"idle", "list", "create", "upsert", "select", "remove", "forget"},
             name : Dns_Names \cup {"none"}, id : 0..Dns_MaxIds]
      BY DEF Dns_Inv, Dns_Types, Dns_Records, Dns_Assumption, Dns!Idle
    <3>3. QED
      BY <3>1, <3>2 DEF Dns!TypeOK, Dns_Inv, Dns_Types
  <2>2. Dns!RecordFollowsDomain
    <3> SUFFICES ASSUME Dns!AtRest, ~Dns_disturbed, NEW n \in Dns_Names
                 PROVE  /\ Dns_row[n] # 0 <=> n \in Dns_domain
                        /\ n \in Dns_domain /\ n \notin Dns_edited => Dns_row[n] \in Dns_zone[n]
                        /\ n \notin Dns_domain => Dns_zone[n] \cap Dns_ours = {}
      BY DEF Dns!RecordFollowsDomain
    <3>1. \A r \in Dns_Requests : Dns_request[r].name # n
      BY DEF Dns!AtRest, Dns!Idle, Dns_Inv, Dns_Assumption
    <3>2. QED
      BY <3>1 DEF Dns_Inv, Dns_OrderOK, Dns_Settled
  <2>3. QED
    BY <2>1, <2>2 DEF Dns!DnsInv
<1>5. QED
  BY <1>1, <1>2, <1>3, <1>4, PTL DEF SumSpec

-----------------------------------------------------------------------------
(***************************************************************************)
(* Domains.  While requests come one after another, the one under way says by   *)
(* its progress whether there is a primary domain, and which it will be.  The     *)
(* bindings need no such order: each statement keeps them.                          *)
(***************************************************************************)

Dom_Rows == [there : BOOLEAN, web : BOOLEAN, primary : BOOLEAN]
Dom_Asks ==
  [at : {"insert", "narrow", "choose"}, id : {Dom!None}, flag : BOOLEAN, bind : {Dom!None},
       host : {0}]
  \cup [at : {"promote", "set", "clear"}, id : Dom_Ids, flag : BOOLEAN, bind : {Dom!None},
       host : {0}]
  \cup [at : {"bind"}, id : Dom_Ids, flag : BOOLEAN, bind : {Dom!None}, host : Dom_Ports]
  \cup [at : {"rebind"}, id : Dom_Ids, flag : BOOLEAN, bind : Dom_Bindings, host : Dom_Ports]
Dom_Types ==
  /\ Dom_domain \in [Dom_Ids -> Dom_Rows]
  /\ Dom_port \in [Dom_Bindings -> [dom : Dom_Ids, host : Dom_Ports] \cup {Dom!Free}]
  /\ Dom_request \in [Dom_Requests -> Dom_Asks \cup {Dom!Idle}]
  /\ Dom_broken \in BOOLEAN /\ Dom_widened \subseteq Dom_Ids /\ Dom_ops \in 0..Dom_MaxOps

Dom_PortsOK ==
  /\ \A b, c \in Dom_Bindings : Dom_port[b] # Dom!Free /\ Dom_port[b].host = Dom_port[c].host =>
       b = c
  /\ \A b \in Dom_Bindings : Dom_port[b] # Dom!Free => Dom_domain[Dom_port[b].dom].there

Dom_Settled ==
  /\ Dom!AtMostOne(Dom!Primary) /\ Dom!Primary \subseteq Dom!Web
  /\ Dom!Primary = {} => Dom!Web \subseteq Dom_widened
Dom_HalfDone(q) ==
  /\ q.at \in {"insert", "narrow", "bind", "rebind"} => Dom_Settled
  /\ q.at = "insert" => (q.flag <=> Dom!Primary = {})
  /\ q.at = "narrow" => ~q.flag
  /\ q.at = "promote" => Dom!Primary = {q.id}
  /\ q.at \in {"choose", "set"} => Dom!Primary = {}
  /\ q.at \in {"set", "clear"} => q.id \in Dom!Web

Dom_OrderOK ==
  /\ \A q, r \in Dom_Requests : Dom_request[q] # Dom!Idle /\ Dom_request[r] # Dom!Idle => q = r
  /\ \A r \in Dom_Requests : Dom_request[r] # Dom!Idle => Dom_HalfDone(Dom_request[r])
  /\ (\A r \in Dom_Requests : Dom_request[r] = Dom!Idle) => Dom_Settled

Dom_Inv == Dom_Assumption /\ Dom_Types /\ Dom_PortsOK /\ (~Dom_broken => Dom_OrderOK)

LEMMA Dom_InitInv ==
  ASSUME Dom_Assumption, Dom!Init
  PROVE  Dom_Inv
<1>1. /\ Dom_domain = [d \in Dom_Ids |-> Dom!Gone] /\ Dom_port = [b \in Dom_Bindings |-> Dom!Free]
      /\ Dom_request = [r \in Dom_Requests |-> Dom!Idle] /\ Dom_widened = {}
  BY DEF Dom!Init
<1>2. Dom_broken \in BOOLEAN
  BY DEF Dom!Init
<1>3. Dom_ops \in 0..Dom_MaxOps
  BY DEF Dom!Init, Dom_Assumption
<1>4. Dom_Types
  BY <1>1, <1>2, <1>3 DEF Dom_Types, Dom_Rows, Dom!Gone
<1>5. Dom_PortsOK
  BY <1>1 DEF Dom_PortsOK
<1>6. Dom!Primary = {} /\ Dom!Web = {}
  BY <1>1 DEF Dom!Primary, Dom!Web, Dom!There, Dom!Gone
<1>7. Dom_OrderOK
  BY <1>1, <1>6 DEF Dom_OrderOK, Dom_Settled, Dom!AtMostOne
<1>8. QED
  BY <1>4, <1>5, <1>7 DEF Dom_Inv

\* A step of the one request that is under way, to its next statement or to its end.
LEMMA Dom_Proceeds ==
  ASSUME Dom_Inv, NEW r \in Dom_Requests, NEW next,
         Dom_request' = [Dom_request EXCEPT ![r] = next],
         \A q \in Dom_Requests \ {r} : Dom_request[q] = Dom!Idle,
         next = Dom!Idle => Dom_Settled',
         next # Dom!Idle => \A q : q = next => Dom_HalfDone(q)'
  PROVE  Dom_OrderOK'
<1>1. \A q \in Dom_Requests : Dom_request'[q] = IF q = r THEN next ELSE Dom!Idle
  BY DEF Dom_Inv, Dom_Types
<1>2. ASSUME NEW q \in Dom_Requests, Dom_request'[q] # Dom!Idle
      PROVE  Dom_HalfDone(Dom_request[q])'
  BY <1>1, <1>2 DEF Dom_HalfDone
<1>3. (\A q \in Dom_Requests : Dom_request'[q] = Dom!Idle) => Dom_Settled'
  BY <1>1
<1>4. QED
  BY <1>1, <1>2, <1>3 DEF Dom_OrderOK

LEMMA Dom_Alone ==
  ASSUME Dom_Inv, ~Dom_broken, NEW r \in Dom_Requests, Dom_request[r] # Dom!Idle
  PROVE  Dom_HalfDone(Dom_request[r]) /\ \A q \in Dom_Requests \ {r} : Dom_request[q] = Dom!Idle
BY DEF Dom_Inv, Dom_OrderOK

LEMMA Dom_BeginsAlone ==
  ASSUME Dom_Inv, NEW r \in Dom_Requests, Dom!Begins(r)
  PROVE  /\ Dom_broken' \in BOOLEAN /\ Dom_ops' \in 0..Dom_MaxOps
         /\ ~Dom_broken' => ~Dom_broken /\ Dom_Settled /\
              \A q \in Dom_Requests : Dom_request[q] = Dom!Idle
<1>1. Dom_request[r] = Dom!Idle /\ Dom_ops < Dom_MaxOps /\ Dom_ops' = Dom_ops + 1
  BY DEF Dom!Begins
<1>2. Dom_broken' = (Dom_broken \/ \E q \in Dom_Requests \ {r} : Dom_request[q] # Dom!Idle)
  BY DEF Dom!Begins
<1>3. Dom_broken' \in BOOLEAN
  BY <1>2 DEF Dom_Inv, Dom_Types
<1>4. Dom_ops' \in 0..Dom_MaxOps
  BY <1>1 DEF Dom_Inv, Dom_Types, Dom_Assumption
<1>5. ASSUME ~Dom_broken'
      PROVE  ~Dom_broken /\ Dom_Settled /\ \A q \in Dom_Requests : Dom_request[q] = Dom!Idle
  <2>1. ~Dom_broken /\ \A q \in Dom_Requests : Dom_request[q] = Dom!Idle
    BY <1>1, <1>2, <1>5
  <2>2. QED
    BY <2>1 DEF Dom_Inv, Dom_OrderOK
<1>6. QED
  BY <1>3, <1>4, <1>5

\* The bindings are kept by a statement that writes the domains and takes none away.
LEMMA Dom_PortsKept ==
  ASSUME Dom_Inv, Dom_port' = Dom_port, \A d \in Dom_Ids : Dom_domain[d].there =>
           Dom_domain'[d].there
  PROVE  Dom_PortsOK'
<1>1. \A b \in Dom_Bindings : Dom_port[b] # Dom!Free => Dom_port[b].dom \in Dom_Ids
  BY DEF Dom_Inv, Dom_Types
<1>2. QED
  BY <1>1 DEF Dom_Inv, Dom_PortsOK

LEMMA Dom_GoesOn ==
  ASSUME Dom_Types, NEW r \in Dom_Requests, NEW at, NEW id, NEW flag \in BOOLEAN,
           Dom!Goes(r, at, id, flag),
         \/ at \in {"insert", "narrow", "choose"} /\ id = Dom!None
         \/ at \in {"promote", "set", "clear"} /\ id \in Dom_Ids
  PROVE  \E next \in Dom_Asks :
           /\ Dom_request' = [Dom_request EXCEPT ![r] = next] /\ next # Dom!Idle
           /\ next.at = at /\ next.id = id /\ next.flag = flag
<1> DEFINE next == [Dom!Idle EXCEPT !.at = at, !.id = id, !.flag = flag]
<1>1. Dom_request' = [Dom_request EXCEPT ![r] = next]
  BY DEF Dom!Goes
<1>2. next \in [at : {at}, id : {id}, flag : BOOLEAN, bind : {Dom!None}, host : {0}]
  <2>1. Dom!Idle \in [at : {"idle"}, id : {Dom!None}, flag : BOOLEAN, bind : {Dom!None}, host : {0}]
    BY DEF Dom!Idle
  <2>2. QED
    BY <2>1
<1>3. next.at = at /\ next.id = id /\ next.flag = flag
  BY DEF Dom!Idle
<1> HIDE DEF next
<1>4. next \in Dom_Asks
  BY <1>2 DEF Dom_Asks
<1>5. next # Dom!Idle
  BY <1>3 DEF Dom!Idle
<1>6. QED
  BY <1>1, <1>3, <1>4, <1>5

LEMMA Dom_AddStep ==
  ASSUME Dom_Inv, NEW r \in Dom_Requests, Dom!Add(r)
  PROVE  Dom_Inv'
<1>1. Dom!Begins(r) /\ UNCHANGED <<Dom_domain, Dom_port, Dom_widened>>
  BY DEF Dom!Add
<1>2. PICK at \in {"insert", "narrow"}, flag \in BOOLEAN :
        /\ Dom!Goes(r, at, Dom!None, flag)
        /\ at = "insert" => (flag <=> Dom!Primary = {})
        /\ at = "narrow" => ~flag
  BY DEF Dom!Add
<1>3. PICK next \in Dom_Asks : /\ Dom_request' = [Dom_request EXCEPT ![r] = next] /\ next # Dom!Idle
                               /\ next.at = at /\ next.flag = flag
  BY <1>2, Dom_GoesOn DEF Dom_Inv
<1>4. Dom_Types'
  BY <1>1, <1>3, Dom_BeginsAlone DEF Dom_Inv, Dom_Types
<1>5. Dom_PortsOK'
  BY <1>1, Dom_PortsKept
<1>6. ASSUME ~Dom_broken'
      PROVE  Dom_OrderOK'
  <2>1. Dom_Settled /\ \A q \in Dom_Requests : Dom_request[q] = Dom!Idle
    BY <1>1, <1>6, Dom_BeginsAlone
  <2>2. Dom!Primary' = Dom!Primary /\ Dom_Settled'
    BY <1>1, <2>1 DEF Dom!Primary, Dom!Web, Dom!There, Dom_Settled, Dom!AtMostOne
  <2>3. \A q : q = next => Dom_HalfDone(q)'
    BY <1>2, <1>3, <2>2 DEF Dom_HalfDone
  <2>4. QED
    BY <1>3, <2>1, <2>3, Dom_Proceeds
<1>7. QED
  BY <1>4, <1>5, <1>6 DEF Dom_Inv, Dom_Assumption

LEMMA Dom_InsertStep ==
  ASSUME Dom_Inv, NEW r \in Dom_Requests, Dom!Insert(r)
  PROVE  Dom_Inv'
<1>1. /\ Dom_request[r].at \in {"insert", "narrow"} /\ Dom_request[r] # Dom!Idle
      /\ Dom_request' = [Dom_request EXCEPT ![r] = Dom!Idle]
      /\ UNCHANGED <<Dom_port, Dom_widened, Dom_broken, Dom_ops>>
  BY DEF Dom!Insert, Dom!Idle, Dom!Done
<1>2. PICK web \in BOOLEAN, flag \in BOOLEAN : (web <=> Dom_request[r].at = "insert") /\
        flag = Dom_request[r].flag
  BY <1>1 DEF Dom_Inv, Dom_Types, Dom_Asks
<1>3. \/ \E d \in Dom_Ids : /\ ~Dom_domain[d].there
                            /\ Dom_domain' = [Dom_domain EXCEPT ![d] = [there |-> TRUE,
                                 web |-> web, primary |-> flag]]
      \/ UNCHANGED Dom_domain
  <2>1. CASE \E d \in Dom_Ids \ Dom!There :
               Dom_domain' = [Dom_domain EXCEPT ![d] = [there |-> TRUE,
                    web |-> Dom_request[r].at = "insert",
                                                        primary |-> Dom_request[r].flag]]
    <3>1. PICK d \in Dom_Ids \ Dom!There :
               Dom_domain' = [Dom_domain EXCEPT ![d] = [there |-> TRUE,
                    web |-> Dom_request[r].at = "insert",
                                                        primary |-> Dom_request[r].flag]]
      BY <2>1
    <3>2. web = (Dom_request[r].at = "insert")
      BY <1>2
    <3>3. Dom_domain' = [Dom_domain EXCEPT ![d] = [there |-> TRUE, web |-> web, primary |-> flag]]
      BY <1>2, <3>1, <3>2
    <3>4. QED
      BY <3>1, <3>3 DEF Dom!There
  <2>2. CASE UNCHANGED Dom_domain
    BY <2>2
  <2>3. QED
    BY <2>1, <2>2 DEF Dom!Insert
<1>4. Dom_domain' \in [Dom_Ids -> Dom_Rows] /\ \A d \in Dom_Ids : Dom_domain[d].there =>
        Dom_domain'[d].there
  <2>1. ASSUME NEW d \in Dom_Ids, NEW new \in Dom_Rows, ~Dom_domain[d].there,
          Dom_domain' = [Dom_domain EXCEPT ![d] = new]
        PROVE  Dom_domain' \in [Dom_Ids -> Dom_Rows] /\ \A e \in Dom_Ids : Dom_domain[e].there =>
                 Dom_domain'[e].there
    BY <2>1 DEF Dom_Inv, Dom_Types
  <2>2. [there |-> TRUE, web |-> web, primary |-> flag] \in Dom_Rows
    BY DEF Dom_Rows
  <2>3. QED
    BY <1>3, <2>1, <2>2 DEF Dom_Inv, Dom_Types
<1>5. Dom_Types'
  BY <1>1, <1>4 DEF Dom_Inv, Dom_Types
<1>6. Dom_PortsOK'
  BY <1>1, <1>4, Dom_PortsKept
<1>7. ASSUME ~Dom_broken
      PROVE  Dom_OrderOK'
  <2>1. Dom_HalfDone(Dom_request[r]) /\ \A q \in Dom_Requests \ {r} : Dom_request[q] = Dom!Idle
    BY <1>1, <1>7, Dom_Alone
  <2>2. Dom_Settled /\ (web => (flag <=> Dom!Primary = {})) /\ (~web => ~flag)
    BY <1>1, <1>2, <2>1 DEF Dom_HalfDone
  <2>3. Dom_Settled'
    <3>1. CASE UNCHANGED Dom_domain
      BY <1>1, <2>2, <3>1 DEF Dom!Primary, Dom!Web, Dom!There, Dom_Settled, Dom!AtMostOne
    <3>2. ASSUME NEW d \in Dom_Ids, ~Dom_domain[d].there,
                 Dom_domain' = [Dom_domain EXCEPT ![d] = [there |-> TRUE, web |-> web,
                      primary |-> flag]]
          PROVE  Dom_Settled'
      <4>1. /\ Dom!Primary' = IF flag THEN Dom!Primary \cup {d} ELSE Dom!Primary
            /\ Dom!Web' = IF web THEN Dom!Web \cup {d} ELSE Dom!Web
        BY <3>2 DEF Dom_Inv, Dom_Types, Dom!Primary, Dom!Web, Dom!There
      <4>2. QED
        BY <1>1, <2>2, <4>1 DEF Dom_Settled, Dom!AtMostOne
    <3>3. QED
      BY <1>3, <3>1, <3>2
  <2>4. QED
    BY <1>1, <2>1, <2>3, Dom_Proceeds
<1>8. QED
  BY <1>1, <1>5, <1>6, <1>7 DEF Dom_Inv, Dom_Assumption

LEMMA Dom_TargetStep ==
  ASSUME Dom_Inv, NEW r \in Dom_Requests, NEW d \in Dom_Ids, Dom!UpdateTarget(r, d)
  PROVE  Dom_Inv'
<1>1. Dom!Begins(r) /\ Dom_domain[d].there /\ Dom_port' = Dom_port
  BY DEF Dom!UpdateTarget, Dom!There
<1>2. PICK web \in BOOLEAN :
        /\ Dom_domain' = [Dom_domain EXCEPT ![d].web = web]
        /\ IF ~web /\ Dom_domain[d].primary THEN Dom!Goes(r, "promote", d, TRUE) ELSE Dom!Done(r)
        /\ Dom_widened' = IF ~web THEN Dom_widened \ {d}
                          ELSE IF ~Dom_domain[d].web /\ Dom!Primary = {} THEN Dom_widened \cup {d} ELSE Dom_widened
  BY DEF Dom!UpdateTarget
<1>3. /\ Dom_domain' \in [Dom_Ids -> Dom_Rows]
      /\ \A e \in Dom_Ids : /\ Dom_domain'[e].there = Dom_domain[e].there
                            /\ Dom_domain'[e].primary = Dom_domain[e].primary
                            /\ Dom_domain'[e].web = IF e = d THEN web ELSE Dom_domain[e].web
  BY <1>2 DEF Dom_Inv, Dom_Types, Dom_Rows
<1>4. \E next \in Dom_Asks \cup {Dom!Idle} :
        /\ Dom_request' = [Dom_request EXCEPT ![r] = next]
        /\ next = Dom!Idle => web \/ ~Dom_domain[d].primary
        /\ next # Dom!Idle => ~web /\ Dom_domain[d].primary /\ next.at = "promote" /\ next.id = d
  <2>1. CASE ~web /\ Dom_domain[d].primary
    <3>1. PICK flag \in BOOLEAN : Dom!Goes(r, "promote", d, flag)
      BY <1>2, <2>1, Zenon
    <3>2. \E next \in Dom_Asks : /\ Dom_request' = [Dom_request EXCEPT ![r] = next]
                                 /\ next # Dom!Idle
                                 /\ next.at = "promote" /\ next.id = d
      BY <3>1, Dom_GoesOn DEF Dom_Inv
    <3>3. QED
      BY <2>1, <3>2
  <2>2. CASE ~(~web /\ Dom_domain[d].primary)
    BY <1>2, <2>2 DEF Dom!Done
  <2>3. QED
    BY <2>1, <2>2
<1>5. PICK next \in Dom_Asks \cup {Dom!Idle} :
        /\ Dom_request' = [Dom_request EXCEPT ![r] = next]
        /\ next = Dom!Idle => web \/ ~Dom_domain[d].primary
        /\ next # Dom!Idle => ~web /\ Dom_domain[d].primary /\ next.at = "promote" /\ next.id = d
  BY <1>4
<1>6. Dom_widened' \subseteq Dom_Ids
  BY <1>2 DEF Dom_Inv, Dom_Types
<1>7. Dom_Types'
  BY <1>1, <1>3, <1>5, <1>6, Dom_BeginsAlone DEF Dom_Inv, Dom_Types
<1>8. Dom_PortsOK'
  BY <1>1, <1>3, Dom_PortsKept
<1>9. ASSUME ~Dom_broken'
      PROVE  Dom_OrderOK'
  <2>1. Dom_Settled /\ \A q \in Dom_Requests : Dom_request[q] = Dom!Idle
    BY <1>1, <1>9, Dom_BeginsAlone
  <2>2. /\ Dom!Primary' = Dom!Primary /\ (d \in Dom!Primary <=> Dom_domain[d].primary)
        /\ Dom!Web' = IF web THEN Dom!Web \cup {d} ELSE Dom!Web \ {d}
        /\ (d \in Dom!Web <=> Dom_domain[d].web)
    BY <1>1, <1>3 DEF Dom!Primary, Dom!Web, Dom!There
  <2>3. next = Dom!Idle => Dom_Settled'
    BY <1>2, <1>5, <2>1, <2>2 DEF Dom_Settled, Dom!AtMostOne
  <2>4. next # Dom!Idle => Dom!Primary = {d}
    BY <1>5, <2>1, <2>2 DEF Dom_Settled, Dom!AtMostOne
  <2>5. next # Dom!Idle => \A q : q = next => Dom_HalfDone(q)'
    BY <1>5, <2>2, <2>4 DEF Dom_HalfDone
  <2>6. QED
    BY <1>5, <2>1, <2>3, <2>5, Dom_Proceeds
<1>10. QED
  BY <1>7, <1>8, <1>9 DEF Dom_Inv, Dom_Assumption

\* The flags of the primary domain are cleared, of one domain or of all.
LEMMA Dom_ClearStep ==
  ASSUME Dom_Inv, NEW r \in Dom_Requests, Dom!Demote(r) \/ Dom!ClearAll(r)
  PROVE  Dom_Inv'
<1>1. /\ Dom_request[r].at \in {"promote", "clear"} /\ Dom_request[r] # Dom!Idle
      /\ UNCHANGED <<Dom_port, Dom_widened, Dom_broken, Dom_ops>>
      /\ Dom_request[r].at = "promote" => Dom!Demote(r)
      /\ Dom_request[r].at = "clear" => Dom!ClearAll(r)
  <2>1. Dom!Demote(r) => Dom_request[r].at = "promote" /\
          UNCHANGED <<Dom_port, Dom_widened, Dom_broken, Dom_ops>>
    BY DEF Dom!Demote
  <2>2. Dom!ClearAll(r) => Dom_request[r].at = "clear" /\
          UNCHANGED <<Dom_port, Dom_widened, Dom_broken, Dom_ops>>
    BY DEF Dom!ClearAll
  <2>3. Dom_request[r] = Dom!Idle => Dom_request[r].at = "idle"
    BY DEF Dom!Idle
  <2>4. QED
    BY <2>1, <2>2, <2>3
<1>2. PICK d \in Dom_Ids : d = Dom_request[r].id
  BY <1>1 DEF Dom_Inv, Dom_Types, Dom_Asks
<1>3. /\ Dom_domain' \in [Dom_Ids -> Dom_Rows]
      /\ \A e \in Dom_Ids : /\ Dom_domain'[e].there = Dom_domain[e].there
                            /\ Dom_domain'[e].web = Dom_domain[e].web
                            /\ Dom_domain'[e].primary => Dom_domain[e].primary /\
                                 Dom_request[r].at = "promote" /\ e # d
  <2>1. CASE Dom_request[r].at = "promote"
    <3>1. Dom_domain' = [Dom_domain EXCEPT ![d].primary = FALSE]
      BY <1>1, <1>2, <2>1 DEF Dom!Demote
    <3>2. QED
      BY <2>1, <3>1 DEF Dom_Inv, Dom_Types, Dom_Rows
  <2>2. CASE Dom_request[r].at = "clear"
    <3>1. Dom_domain' = [e \in Dom_Ids |-> [Dom_domain[e] EXCEPT !.primary = FALSE]]
      BY <1>1, <2>2 DEF Dom!ClearAll
    <3>2. QED
      BY <3>1 DEF Dom_Inv, Dom_Types, Dom_Rows
  <2>3. QED
    BY <1>1, <2>1, <2>2
<1>4. \E next \in Dom_Asks :
        /\ Dom_request' = [Dom_request EXCEPT ![r] = next] /\ next # Dom!Idle
        /\ \/ Dom_request[r].at = "promote" /\ next.at = "choose"
           \/ Dom_request[r].at = "clear" /\ next.at = "set" /\ next.id = d
  <2>1. CASE Dom_request[r].at = "promote"
    <3>1. PICK flag \in BOOLEAN : Dom!Goes(r, "choose", Dom!None, flag)
      BY <1>1, <2>1, Zenon DEF Dom!Demote
    <3>2. QED
      BY <2>1, <3>1, Dom_GoesOn DEF Dom_Inv
  <2>2. CASE Dom_request[r].at = "clear"
    <3>1. PICK flag \in BOOLEAN : Dom!Goes(r, "set", d, flag)
      BY <1>1, <1>2, <2>2, Zenon DEF Dom!ClearAll
    <3>2. QED
      BY <2>2, <3>1, Dom_GoesOn DEF Dom_Inv
  <2>3. QED
    BY <1>1, <2>1, <2>2
<1>5. PICK next \in Dom_Asks :
        /\ Dom_request' = [Dom_request EXCEPT ![r] = next] /\ next # Dom!Idle
        /\ \/ Dom_request[r].at = "promote" /\ next.at = "choose"
           \/ Dom_request[r].at = "clear" /\ next.at = "set" /\ next.id = d
  BY <1>4
<1>6. Dom_Types'
  BY <1>1, <1>3, <1>5 DEF Dom_Inv, Dom_Types
<1>7. Dom_PortsOK'
  BY <1>1, <1>3, Dom_PortsKept
<1>8. ASSUME ~Dom_broken
      PROVE  Dom_OrderOK'
  <2>1. Dom_HalfDone(Dom_request[r]) /\ \A q \in Dom_Requests \ {r} : Dom_request[q] = Dom!Idle
    BY <1>1, <1>8, Dom_Alone
  <2>2. Dom!Web' = Dom!Web
    BY <1>3 DEF Dom!Web, Dom!There
  <2>3. Dom_request[r].at = "promote" => \A e \in Dom_Ids : Dom_domain[e].there /\
          Dom_domain[e].primary => e = d
    BY <1>2, <2>1 DEF Dom_HalfDone, Dom!Primary, Dom!There
  <2>4. Dom!Primary' = {}
    BY <1>1, <1>3, <2>3 DEF Dom!Primary, Dom!There
  <2>5. Dom_request[r].at = "clear" => d \in Dom!Web
    BY <1>2, <2>1 DEF Dom_HalfDone
  <2>6. \A q : q = next => Dom_HalfDone(q)'
    BY <1>5, <2>2, <2>4, <2>5 DEF Dom_HalfDone
  <2>7. QED
    BY <1>5, <2>1, <2>6, Dom_Proceeds
<1>9. QED
  BY <1>1, <1>6, <1>7, <1>8 DEF Dom_Inv, Dom_Assumption

LEMMA Dom_ChooseStep ==
  ASSUME Dom_Inv, NEW r \in Dom_Requests, Dom!Choose(r)
  PROVE  Dom_Inv'
<1>1. /\ Dom_request[r].at = "choose"
      /\ UNCHANGED <<Dom_domain, Dom_port, Dom_widened, Dom_broken, Dom_ops>>
      /\ IF Dom!Web = {} THEN Dom!Done(r) ELSE \E d \in Dom!Web,
           flag \in BOOLEAN : Dom!Goes(r, "set", d, flag)
  BY Zenon DEF Dom!Choose
<1> Dom_request[r] # Dom!Idle
  BY <1>1 DEF Dom!Idle
<1>2. Dom!Web \subseteq Dom_Ids
  BY DEF Dom!Web, Dom!There
<1>3. \E next \in Dom_Asks \cup {Dom!Idle} :
        /\ Dom_request' = [Dom_request EXCEPT ![r] = next]
        /\ next = Dom!Idle => Dom!Web = {}
        /\ next # Dom!Idle => next.at = "set" /\ next.id \in Dom!Web
  <2>1. CASE Dom!Web = {}
    BY <1>1, <2>1 DEF Dom!Done
  <2>2. CASE Dom!Web # {}
    <3>1. PICK d \in Dom!Web, flag \in BOOLEAN : Dom!Goes(r, "set", d, flag)
      BY <1>1, <2>2, Zenon
    <3>2. QED
      BY <1>2, <3>1, Dom_GoesOn DEF Dom_Inv
  <2>3. QED
    BY <2>1, <2>2
<1>4. PICK next \in Dom_Asks \cup {Dom!Idle} :
        /\ Dom_request' = [Dom_request EXCEPT ![r] = next]
        /\ next = Dom!Idle => Dom!Web = {}
        /\ next # Dom!Idle => next.at = "set" /\ next.id \in Dom!Web
  BY <1>3
<1>5. Dom_Types'
  BY <1>1, <1>4 DEF Dom_Inv, Dom_Types
<1>6. Dom_PortsOK'
  BY <1>1, Dom_PortsKept
<1>7. ASSUME ~Dom_broken
      PROVE  Dom_OrderOK'
  <2>1. Dom!Primary = {} /\ \A q \in Dom_Requests \ {r} : Dom_request[q] = Dom!Idle
    BY <1>1, <1>7, Dom_Alone DEF Dom_HalfDone
  <2>2. Dom!Web' = Dom!Web /\ Dom!Primary' = {}
    BY <1>1, <2>1 DEF Dom!Web, Dom!There, Dom!Primary
  <2>3. next = Dom!Idle => Dom_Settled'
    BY <1>4, <2>2 DEF Dom_Settled, Dom!AtMostOne
  <2>4. next # Dom!Idle => \A q : q = next => Dom_HalfDone(q)'
    BY <1>4, <2>2 DEF Dom_HalfDone
  <2>5. QED
    BY <1>4, <2>1, <2>3, <2>4, Dom_Proceeds
<1>8. QED
  BY <1>1, <1>5, <1>6, <1>7 DEF Dom_Inv, Dom_Assumption

LEMMA Dom_SetStep ==
  ASSUME Dom_Inv, NEW r \in Dom_Requests, Dom!SetPrimary(r)
  PROVE  Dom_Inv'
<1>1. /\ Dom_request[r].at = "set" /\ Dom_request[r] # Dom!Idle
      /\ Dom_request' = [Dom_request EXCEPT ![r] = Dom!Idle]
      /\ UNCHANGED <<Dom_port, Dom_widened, Dom_broken, Dom_ops>>
  BY DEF Dom!SetPrimary, Dom!Idle, Dom!Done
<1>2. PICK d \in Dom_Ids : d = Dom_request[r].id
  BY <1>1 DEF Dom_Inv, Dom_Types, Dom_Asks
<1>3. PICK flag \in BOOLEAN : flag = Dom_domain[d].there
  BY DEF Dom_Inv, Dom_Types, Dom_Rows
<1>4. Dom_domain' = [Dom_domain EXCEPT ![d].primary = flag]
  BY <1>2, <1>3 DEF Dom!SetPrimary
<1>5. /\ Dom_domain' \in [Dom_Ids -> Dom_Rows]
      /\ \A e \in Dom_Ids : /\ Dom_domain'[e].there = Dom_domain[e].there
                            /\ Dom_domain'[e].web = Dom_domain[e].web
                            /\ Dom_domain'[e].primary = IF e = d THEN flag ELSE Dom_domain[e].primary
  BY <1>4 DEF Dom_Inv, Dom_Types, Dom_Rows
<1>6. Dom_Types'
  BY <1>1, <1>5 DEF Dom_Inv, Dom_Types
<1>7. Dom_PortsOK'
  BY <1>1, <1>5, Dom_PortsKept
<1>8. ASSUME ~Dom_broken
      PROVE  Dom_OrderOK'
  <2>1. Dom!Primary = {} /\ d \in Dom!Web /\ \A q \in Dom_Requests \ {r} : Dom_request[q] = Dom!Idle
    BY <1>1, <1>2, <1>8, Dom_Alone DEF Dom_HalfDone
  <2>2. Dom_domain[d].there /\ \A e \in Dom_Ids : Dom_domain[e].there => ~Dom_domain[e].primary
    BY <2>1 DEF Dom!Web, Dom!There, Dom!Primary
  <2>3. Dom!Web' = Dom!Web /\ Dom!Primary' = {d}
    BY <1>3, <1>5, <2>2 DEF Dom!Web, Dom!There, Dom!Primary
  <2>4. Dom_Settled'
    BY <2>1, <2>3 DEF Dom_Settled, Dom!AtMostOne
  <2>5. QED
    BY <1>1, <2>1, <2>4, Dom_Proceeds
<1>9. QED
  BY <1>1, <1>6, <1>7, <1>8 DEF Dom_Inv, Dom_Assumption

LEMMA Dom_MakeStep ==
  ASSUME Dom_Inv, NEW r \in Dom_Requests, NEW d \in Dom_Ids, Dom!MakePrimary(r, d)
  PROVE  Dom_Inv'
<1>1. Dom!Begins(r) /\ UNCHANGED <<Dom_domain, Dom_port, Dom_widened>> /\ d \in Dom!Web
  BY DEF Dom!MakePrimary
<1> PICK flag \in BOOLEAN : Dom!Goes(r, "clear", d, flag)
  BY Zenon DEF Dom!MakePrimary
<1>2. PICK next \in Dom_Asks : /\ Dom_request' = [Dom_request EXCEPT ![r] = next] /\ next # Dom!Idle
                               /\ next.at = "clear" /\ next.id = d
  BY <1>1, Dom_GoesOn DEF Dom_Inv
<1>3. Dom_Types'
  BY <1>1, <1>2, Dom_BeginsAlone DEF Dom_Inv, Dom_Types
<1>4. Dom_PortsOK'
  BY <1>1, Dom_PortsKept
<1>5. ASSUME ~Dom_broken'
      PROVE  Dom_OrderOK'
  <2>1. \A q \in Dom_Requests : Dom_request[q] = Dom!Idle
    BY <1>1, <1>5, Dom_BeginsAlone
  <2>2. Dom!Web' = Dom!Web
    BY <1>1 DEF Dom!Web, Dom!There
  <2>3. \A q : q = next => Dom_HalfDone(q)'
    BY <1>1, <1>2, <2>2 DEF Dom_HalfDone
  <2>4. QED
    BY <1>2, <2>1, <2>3, Dom_Proceeds
<1>6. QED
  BY <1>3, <1>4, <1>5 DEF Dom_Inv, Dom_Assumption

LEMMA Dom_RemoveStep ==
  ASSUME Dom_Inv, NEW r \in Dom_Requests, NEW d \in Dom_Ids, Dom!Remove(r, d)
  PROVE  Dom_Inv'
<1>1. /\ Dom!Begins(r) /\ Dom_domain[d].there /\ Dom_domain' = [Dom_domain EXCEPT ![d] = Dom!Gone]
      /\ Dom_port' = [b \in Dom_Bindings |-> IF Dom_port[b].dom = d THEN Dom!Free ELSE Dom_port[b]]
      /\ Dom_widened' = Dom_widened \ {d}
      /\ IF Dom_domain[d].primary THEN Dom!Goes(r, "choose", Dom!None, FALSE) ELSE Dom!Done(r)
  BY DEF Dom!Remove, Dom!There, Dom!None
<1>2. Dom_domain' \in [Dom_Ids -> Dom_Rows] /\ ~Dom_domain'[d].there /\
        \A e \in Dom_Ids \ {d} : Dom_domain'[e] = Dom_domain[e]
  BY <1>1 DEF Dom_Inv, Dom_Types, Dom_Rows, Dom!Gone
<1>3. \E next \in Dom_Asks \cup {Dom!Idle} :
        /\ Dom_request' = [Dom_request EXCEPT ![r] = next]
        /\ next = Dom!Idle => ~Dom_domain[d].primary
        /\ next # Dom!Idle => Dom_domain[d].primary /\ next.at = "choose"
  <2>1. CASE Dom_domain[d].primary
    <3>1. PICK flag \in BOOLEAN : Dom!Goes(r, "choose", Dom!None, flag)
      BY <1>1, <2>1, Zenon
    <3>2. QED
      BY <2>1, <3>1, Dom_GoesOn DEF Dom_Inv
  <2>2. CASE ~Dom_domain[d].primary
    BY <1>1, <2>2 DEF Dom!Done
  <2>3. QED
    BY <2>1, <2>2
<1>4. PICK next \in Dom_Asks \cup {Dom!Idle} :
        /\ Dom_request' = [Dom_request EXCEPT ![r] = next]
        /\ next = Dom!Idle => ~Dom_domain[d].primary
        /\ next # Dom!Idle => Dom_domain[d].primary /\ next.at = "choose"
  BY <1>3
<1>5. Dom_port' \in [Dom_Bindings -> [dom : Dom_Ids, host : Dom_Ports] \cup {Dom!Free}]
  BY <1>1 DEF Dom_Inv, Dom_Types
<1>6. \A b \in Dom_Bindings : Dom_port'[b] # Dom!Free => Dom_port'[b] = Dom_port[b] /\
        Dom_port[b] # Dom!Free /\ Dom_port[b].dom \in Dom_Ids \ {d}
  BY <1>1 DEF Dom_Inv, Dom_Types
<1>7. Dom_widened' \subseteq Dom_Ids
  BY <1>1 DEF Dom_Inv, Dom_Types
<1>8. Dom_Types'
  BY <1>1, <1>2, <1>4, <1>5, <1>7, Dom_BeginsAlone DEF Dom_Inv, Dom_Types
<1>9. Dom_PortsOK'
  <2>1. \A b \in Dom_Bindings : Dom_port'[b] # Dom!Free => Dom_domain'[Dom_port'[b].dom].there
    BY <1>2, <1>6 DEF Dom_Inv, Dom_PortsOK
  <2>2. ASSUME NEW b \in Dom_Bindings, NEW c \in Dom_Bindings, Dom_port'[b] # Dom!Free,
          Dom_port'[b].host = Dom_port'[c].host
        PROVE  b = c
    <3>1. Dom_port'[b].host # 0
      BY <1>5, <2>2 DEF Dom_Inv, Dom_Assumption
    <3>2. Dom_port'[c] # Dom!Free
      BY <2>2, <3>1 DEF Dom!Free
    <3>3. QED
      BY <1>6, <2>2, <3>2 DEF Dom_Inv, Dom_PortsOK
  <2>3. QED
    BY <2>1, <2>2 DEF Dom_PortsOK
<1>10. ASSUME ~Dom_broken'
       PROVE  Dom_OrderOK'
  <2>1. Dom_Settled /\ \A q \in Dom_Requests : Dom_request[q] = Dom!Idle
    BY <1>1, <1>10, Dom_BeginsAlone
  <2>2. /\ Dom!Primary' = Dom!Primary \ {d} /\ (d \in Dom!Primary <=> Dom_domain[d].primary)
        /\ Dom!Web' = Dom!Web \ {d}
    BY <1>1, <1>2 DEF Dom!Primary, Dom!Web, Dom!There
  <2>3. next = Dom!Idle => Dom_Settled'
    BY <1>1, <1>4, <2>1, <2>2 DEF Dom_Settled, Dom!AtMostOne
  <2>4. next # Dom!Idle => Dom!Primary' = {}
    BY <1>4, <2>1, <2>2 DEF Dom_Settled, Dom!AtMostOne
  <2>5. next # Dom!Idle => \A q : q = next => Dom_HalfDone(q)'
    BY <1>4, <2>4 DEF Dom_HalfDone
  <2>6. QED
    BY <1>4, <2>1, <2>3, <2>5, Dom_Proceeds
<1>11. QED
  BY <1>8, <1>9, <1>10 DEF Dom_Inv, Dom_Assumption

LEMMA Dom_AskStep ==
  ASSUME Dom_Inv, NEW r \in Dom_Requests, NEW d \in Dom_Ids,
           NEW b \in Dom_Bindings \cup {Dom!None}, NEW p \in Dom_Ports,
         Dom!AskPort(r, d, b, p)
  PROVE  Dom_Inv'
<1> DEFINE next == [Dom!Idle EXCEPT !.at = IF b = Dom!None THEN "bind" ELSE "rebind",
                                    !.id = d, !.bind = b, !.host = p]
<1>1. Dom!Begins(r) /\ UNCHANGED <<Dom_domain, Dom_port, Dom_widened>> /\
        Dom_request' = [Dom_request EXCEPT ![r] = next]
  BY DEF Dom!AskPort
<1>2. next.at \in {"bind", "rebind"}
  BY DEF Dom!Idle
<1>3. next \in Dom_Asks
  <2>1. Dom!Idle \in [at : {"idle"}, id : {Dom!None}, flag : BOOLEAN, bind : {Dom!None}, host : {0}]
    BY DEF Dom!Idle
  <2>2. CASE b = Dom!None
    <3>1. next \in [at : {"bind"}, id : Dom_Ids, flag : BOOLEAN, bind : {Dom!None},
            host : Dom_Ports]
      BY <2>1, <2>2
    <3>2. QED
      BY <3>1 DEF Dom_Asks
  <2>3. CASE b # Dom!None
    <3>1. next \in [at : {"rebind"}, id : Dom_Ids, flag : BOOLEAN, bind : Dom_Bindings,
            host : Dom_Ports]
      BY <2>1, <2>3
    <3>2. QED
      BY <3>1 DEF Dom_Asks
  <2>4. QED
    BY <2>2, <2>3
<1> HIDE DEF next
<1>4. Dom_Types'
  BY <1>1, <1>3, Dom_BeginsAlone DEF Dom_Inv, Dom_Types
<1>5. Dom_PortsOK'
  BY <1>1, Dom_PortsKept
<1>6. ASSUME ~Dom_broken'
      PROVE  Dom_OrderOK'
  <2>1. Dom_Settled /\ \A q \in Dom_Requests : Dom_request[q] = Dom!Idle
    BY <1>1, <1>6, Dom_BeginsAlone
  <2>2. Dom_Settled'
    BY <1>1, <2>1 DEF Dom!Primary, Dom!Web, Dom!There, Dom_Settled, Dom!AtMostOne
  <2>3. \A q : q = next => Dom_HalfDone(q)'
    BY <1>2, <2>2 DEF Dom_HalfDone
  <2>4. next # Dom!Idle
    BY <1>2 DEF Dom!Idle
  <2>5. QED
    BY <1>1, <2>1, <2>3, <2>4, Dom_Proceeds
<1>7. QED
  BY <1>4, <1>5, <1>6 DEF Dom_Inv, Dom_Assumption

\* One binding is written: it is free afterwards, or has a domain that exists and a host port of its own.
LEMMA Dom_PortSet ==
  ASSUME Dom_Inv, NEW b \in Dom_Bindings,
           NEW new \in [dom : Dom_Ids, host : Dom_Ports] \cup {Dom!Free},
         Dom_port' = [Dom_port EXCEPT ![b] = new], Dom_domain' = Dom_domain,
         new # Dom!Free => /\ Dom_domain[new.dom].there
                           /\ \A c \in Dom_Bindings \ {b} : Dom_port[c].host # new.host
  PROVE  Dom_PortsOK' /\ Dom_port' \in [Dom_Bindings -> [dom : Dom_Ids,
           host : Dom_Ports] \cup {Dom!Free}]
<1>1. Dom_port' \in [Dom_Bindings -> [dom : Dom_Ids, host : Dom_Ports] \cup {Dom!Free}]
      /\ \A c \in Dom_Bindings : Dom_port'[c] = IF c = b THEN new ELSE Dom_port[c]
  BY DEF Dom_Inv, Dom_Types
<1>2. \A c \in Dom_Bindings : Dom_port'[c] # Dom!Free => Dom_domain'[Dom_port'[c].dom].there
  BY <1>1 DEF Dom_Inv, Dom_PortsOK
<1>3. ASSUME NEW c \in Dom_Bindings, NEW e \in Dom_Bindings, Dom_port'[c] # Dom!Free,
        Dom_port'[c].host = Dom_port'[e].host
      PROVE  c = e
  <2>1. Dom_port'[c].host # 0
    BY <1>1, <1>3 DEF Dom_Inv, Dom_Assumption
  <2>2. Dom_port'[e] # Dom!Free
    BY <1>3, <2>1 DEF Dom!Free
  <2>3. QED
    BY <1>1, <1>3, <2>2 DEF Dom_Inv, Dom_PortsOK
<1>4. QED
  BY <1>1, <1>2, <1>3 DEF Dom_PortsOK

LEMMA Dom_BindStep ==
  ASSUME Dom_Inv, NEW r \in Dom_Requests, Dom!Bind(r) \/ Dom!Rebind(r)
  PROVE  Dom_Inv'
<1>1. /\ Dom_request[r].at \in {"bind", "rebind"}
      /\ Dom_request' = [Dom_request EXCEPT ![r] = Dom!Idle]
      /\ UNCHANGED <<Dom_domain, Dom_widened, Dom_broken, Dom_ops>>
  <2>1. Dom!Bind(r) => /\ Dom_request[r].at = "bind"
                       /\ Dom_request' = [Dom_request EXCEPT ![r] = Dom!Idle]
                       /\ UNCHANGED <<Dom_domain, Dom_widened, Dom_broken, Dom_ops>>
    BY DEF Dom!Bind, Dom!Done
  <2>2. Dom!Rebind(r) => /\ Dom_request[r].at = "rebind"
                         /\ Dom_request' = [Dom_request EXCEPT ![r] = Dom!Idle]
                         /\ UNCHANGED <<Dom_domain, Dom_widened, Dom_broken, Dom_ops>>
    BY DEF Dom!Rebind, Dom!Done
  <2>3. QED
    BY <2>1, <2>2
<1>2. Dom_request[r] # Dom!Idle
  BY <1>1 DEF Dom!Idle
<1>3. PICK d \in Dom_Ids, p \in Dom_Ports : d = Dom_request[r].id /\ p = Dom_request[r].host
  BY <1>1, <1>2 DEF Dom_Inv, Dom_Types, Dom_Asks
<1>4. \/ Dom_port' = Dom_port
      \/ \E b \in Dom_Bindings, new \in [dom : Dom_Ids, host : Dom_Ports] :
           /\ Dom_port' = [Dom_port EXCEPT ![b] = new] /\ Dom_domain[new.dom].there
           /\ \A c \in Dom_Bindings \ {b} : Dom_port[c].host # new.host
  <2>1. CASE Dom!Bind(r)
    <3>1. \/ UNCHANGED Dom_port
          \/ /\ d \in Dom!There /\ p \notin Dom!Bound
             /\ \E b \in Dom_Bindings : Dom_port' = [Dom_port EXCEPT ![b] = [dom |-> d, host |-> p]]
      BY <1>3, <2>1 DEF Dom!Bind
    <3>2. p # 0
      BY DEF Dom_Inv, Dom_Assumption
    <3>3. p \notin Dom!Bound => \A c \in Dom_Bindings : Dom_port[c].host # p
      BY <3>2 DEF Dom!Bound
    <3>4. CASE /\ d \in Dom!There /\ p \notin Dom!Bound
               /\ \E b \in Dom_Bindings : Dom_port' = [Dom_port EXCEPT ![b] = [dom |-> d,
                    host |-> p]]
      <4>1. PICK b \in Dom_Bindings : Dom_port' = [Dom_port EXCEPT ![b] = [dom |-> d, host |-> p]]
        BY <3>4
      <4>2. PICK new \in [dom : Dom_Ids, host : Dom_Ports] : new = [dom |-> d, host |-> p]
        OBVIOUS
      <4>3. Dom_domain[new.dom].there /\ \A c \in Dom_Bindings \ {b} : Dom_port[c].host # new.host
        BY <3>3, <3>4, <4>2 DEF Dom!There
      <4>4. Dom_port' = [Dom_port EXCEPT ![b] = new]
        BY <4>1, <4>2
      <4>5. QED
        BY <4>3, <4>4
    <3>5. QED
      BY <3>1, <3>4
  <2>2. CASE Dom!Rebind(r)
    <3>1. PICK b : b = Dom_request[r].bind
      OBVIOUS
    <3>2. Dom_request[r].at = "rebind"
      BY <2>2 DEF Dom!Rebind
    <3>3. b \in Dom_Bindings
      BY <1>2, <3>1, <3>2 DEF Dom_Inv, Dom_Types, Dom_Asks
    <3>4. \/ UNCHANGED Dom_port
          \/ /\ Dom_port[b].dom = d /\ \A c \in Dom_Bindings \ {b} : Dom_port[c].host # p
             /\ Dom_port' = [Dom_port EXCEPT ![b].host = p]
      BY <1>3, <2>2, <3>1 DEF Dom!Rebind
    <3>5. CASE UNCHANGED Dom_port
      BY <3>5
    <3>6. CASE /\ Dom_port[b].dom = d /\ \A c \in Dom_Bindings \ {b} : Dom_port[c].host # p
               /\ Dom_port' = [Dom_port EXCEPT ![b].host = p]
      <4>1. Dom_port[b] # Dom!Free
        BY <3>6 DEF Dom!Free, Dom_Inv, Dom_Assumption
      <4>2. Dom_port[b] \in [dom : Dom_Ids, host : Dom_Ports] /\ Dom_domain[d].there
        BY <3>3, <3>6, <4>1 DEF Dom_Inv, Dom_Types, Dom_PortsOK
      <4>3. PICK new \in [dom : Dom_Ids, host : Dom_Ports] : new = [Dom_port[b] EXCEPT !.host = p]
        BY <4>2
      <4>4. Dom_port' = [Dom_port EXCEPT ![b] = new] /\ new.dom = d /\ new.host = p
        BY <3>6, <4>2, <4>3
      <4>5. Dom_domain[new.dom].there /\ \A c \in Dom_Bindings \ {b} : Dom_port[c].host # new.host
        BY <3>6, <4>2, <4>4
      <4>6. QED
        BY <3>3, <4>4, <4>5
    <3>7. QED
      BY <3>4, <3>5, <3>6
  <2>3. QED
    BY <2>1, <2>2
<1>5. Dom_PortsOK' /\ Dom_port' \in [Dom_Bindings -> [dom : Dom_Ids,
        host : Dom_Ports] \cup {Dom!Free}]
  <2>1. CASE Dom_port' = Dom_port
    BY <1>1, <2>1, Dom_PortsKept DEF Dom_Inv, Dom_Types
  <2>2. ASSUME NEW b \in Dom_Bindings, NEW new \in [dom : Dom_Ids, host : Dom_Ports],
               Dom_port' = [Dom_port EXCEPT ![b] = new], Dom_domain[new.dom].there,
               \A c \in Dom_Bindings \ {b} : Dom_port[c].host # new.host
        PROVE  Dom_PortsOK' /\ Dom_port' \in [Dom_Bindings -> [dom : Dom_Ids,
                 host : Dom_Ports] \cup {Dom!Free}]
    BY <1>1, <2>2, Dom_PortSet
  <2>3. QED
    BY <1>4, <2>1, <2>2
<1>6. Dom_Types'
  BY <1>1, <1>5 DEF Dom_Inv, Dom_Types
<1>7. ASSUME ~Dom_broken
      PROVE  Dom_OrderOK'
  <2>1. Dom_Settled /\ \A q \in Dom_Requests \ {r} : Dom_request[q] = Dom!Idle
    BY <1>1, <1>2, <1>7, Dom_Alone DEF Dom_HalfDone
  <2>2. Dom_Settled'
    BY <1>1, <2>1 DEF Dom!Primary, Dom!Web, Dom!There, Dom_Settled, Dom!AtMostOne
  <2>3. QED
    BY <1>1, <2>1, <2>2, Dom_Proceeds
<1>8. QED
  BY <1>1, <1>5, <1>6, <1>7 DEF Dom_Inv, Dom_Assumption

LEMMA Dom_UnbindStep ==
  ASSUME Dom_Inv, NEW r \in Dom_Requests, NEW b \in Dom_Bindings, Dom!RemoveBinding(r, b)
  PROVE  Dom_Inv'
<1>1. /\ Dom!Begins(r) /\ UNCHANGED <<Dom_domain, Dom_request, Dom_widened>>
      /\ Dom_port' = [Dom_port EXCEPT ![b] = Dom!Free]
  BY DEF Dom!RemoveBinding
<1>2. Dom_PortsOK' /\ Dom_port' \in [Dom_Bindings -> [dom : Dom_Ids,
        host : Dom_Ports] \cup {Dom!Free}]
  BY <1>1, Dom_PortSet
<1>3. Dom_Types'
  BY <1>1, <1>2, Dom_BeginsAlone DEF Dom_Inv, Dom_Types
<1>4. ASSUME ~Dom_broken'
      PROVE  Dom_OrderOK'
  <2>1. Dom_Settled /\ \A q \in Dom_Requests : Dom_request[q] = Dom!Idle
    BY <1>1, <1>4, Dom_BeginsAlone
  <2>2. Dom_Settled'
    BY <1>1, <2>1 DEF Dom!Primary, Dom!Web, Dom!There, Dom_Settled, Dom!AtMostOne
  <2>3. QED
    BY <1>1, <2>1, <2>2 DEF Dom_OrderOK
<1>5. QED
  BY <1>2, <1>3, <1>4 DEF Dom_Inv, Dom_Assumption

LEMMA Dom_Step ==
  ASSUME Dom_Inv, [Dom!Next]_Dom!vars
  PROVE  Dom_Inv'
<1>1. CASE Dom!Crash
  <2>1. /\ Dom_request' = [r \in Dom_Requests |-> Dom!Idle] /\ Dom_broken' = TRUE
        /\ UNCHANGED <<Dom_domain, Dom_port, Dom_widened, Dom_ops>>
    BY <1>1 DEF Dom!Crash
  <2>2. Dom_broken' \in BOOLEAN /\ Dom_broken'
    BY <2>1
  <2>3. Dom_request' \in [Dom_Requests -> Dom_Asks \cup {Dom!Idle}]
    BY <2>1
  <2>4. Dom_PortsOK'
    BY <2>1, Dom_PortsKept
  <2>5. QED
    BY <2>1, <2>2, <2>3, <2>4 DEF Dom_Inv, Dom_Types, Dom_Assumption
<1>2. CASE UNCHANGED Dom!vars
  BY <1>2 DEF Dom!vars, Dom_Inv, Dom_Types, Dom_Assumption, Dom_OrderOK, Dom_PortsOK, Dom_Settled,
     Dom_HalfDone, Dom!Primary, Dom!Web, Dom!There, Dom!AtMostOne
<1>3. ASSUME NEW r \in Dom_Requests, NEW b \in Dom_Bindings, NEW p \in Dom_Ports,
             Dom_port[b] # Dom!Free, Dom!AskPort(r, Dom_port[b].dom, b, p)
      PROVE  Dom_Inv'
  <2>1. PICK d \in Dom_Ids : d = Dom_port[b].dom
    BY <1>3 DEF Dom_Inv, Dom_Types
  <2>2. QED
    BY <1>3, <2>1, Dom_AskStep
<1>4. CASE \E r \in Dom_Requests : Dom!Statement(r)
  BY <1>4, Dom_InsertStep, Dom_ClearStep, Dom_ChooseStep, Dom_SetStep, Dom_BindStep DEF
     Dom!Statement
<1>5. QED
  BY <1>1, <1>2, <1>3, <1>4, Dom_AddStep, Dom_TargetStep, Dom_MakeStep, Dom_RemoveStep, Dom_AskStep,
     Dom_UnbindStep DEF Dom!Next

\* suggestFreePort has a lowest port to choose while one is free.
LEMMA Dom_LowestExists ==
  ASSUME NEW S \in SUBSET Nat, S # {}
  PROVE  \E p \in S : \A q \in S : p <= q
<1>1. PICK p \in S : \A q \in S : ~(<<q, p>> \in OpToRel(<, Nat))
  BY NatLessThanWellFounded, WFMin
<1>2. \A q \in S : ~(q < p)
  BY <1>1 DEF OpToRel
<1>3. QED
  BY <1>2

\* After requests that came one after another there is at most one primary domain, it serves the web, and
\* there is none only when every domain that does got its route later; whatever overlaps, a host port is
\* bound once and by a domain that exists, and the suggested port is free.
THEOREM Domains_Hold == SumSpec => []DomainsInv
<1>1. SumInit => Dom_Inv
  BY Dom_InitInv, RecordsAssumption DEF SumInit
<1>2. [SumNext]_allVars => [Dom!Next]_Dom!vars
  BY DEF SumNext, allVars, domainsVars, Dom!vars
<1>3. Dom_Inv /\ [Dom!Next]_Dom!vars => Dom_Inv'
  BY Dom_Step
<1>4. Dom_Inv => DomainsInv
  <2> SUFFICES ASSUME Dom_Inv
               PROVE  Dom!DomainsInv
    BY DEF DomainsInv
  <2>1. Dom!TypeOK
    <3>1. \A b \in Dom_Bindings : Dom_port[b] \in [dom : Dom_Ids \cup {Dom!None},
            host : Dom_Ports \cup {0}]
      BY DEF Dom_Inv, Dom_Types, Dom!Free
    <3>2. ASSUME NEW r \in Dom_Requests
          PROVE  Dom_request[r] \in
            [at : {"idle", "insert", "narrow", "promote", "choose", "clear", "set", "bind",
                 "rebind"},
             id : Dom_Ids \cup {Dom!None}, flag : BOOLEAN, bind : Dom_Bindings \cup {Dom!None},
                  host : Dom_Ports \cup {0}]
      <4>1. CASE Dom_request[r] = Dom!Idle
        BY <4>1 DEF Dom!Idle
      <4>2. CASE Dom_request[r] \in Dom_Asks
        BY <4>2 DEF Dom_Asks
      <4>3. QED
        BY <4>1, <4>2 DEF Dom_Inv, Dom_Types
    <3>3. QED
      BY <3>1, <3>2 DEF Dom!TypeOK, Dom_Inv, Dom_Types, Dom_Rows
  <2>2. Dom!PrimaryKept
    <3> SUFFICES ASSUME Dom!AtRest, ~Dom_broken
                 PROVE  Dom_Settled
      BY DEF Dom!PrimaryKept, Dom_Settled
    <3> QED
      BY DEF Dom!AtRest, Dom_Inv, Dom_OrderOK
  <2>3. Dom!PortsBoundOnce
    <3>1. Dom_Ports \subseteq Dom!Bound \/ Dom!Suggested \notin Dom!Bound
      <4>1. ASSUME ~(Dom_Ports \subseteq Dom!Bound)
            PROVE  \E p \in Dom_Ports \ Dom!Bound : \A q \in Dom_Ports \ Dom!Bound : p <= q
        BY <4>1, Dom_LowestExists DEF Dom_Inv, Dom_Assumption
      <4>2. QED
        BY <4>1 DEF Dom!Suggested
    <3>2. \A b \in Dom_Bindings : Dom_port[b] # Dom!Free => Dom_port[b].dom \in Dom!There
      BY DEF Dom_Inv, Dom_PortsOK, Dom_Types, Dom!There
    <3>3. QED
      BY <3>1, <3>2 DEF Dom!PortsBoundOnce, Dom_Inv, Dom_PortsOK
  <2>4. QED
    BY <2>1, <2>2, <2>3 DEF Dom!DomainsInv
<1>5. QED
  BY <1>1, <1>2, <1>3, <1>4, PTL DEF SumSpec

-----------------------------------------------------------------------------
(***************************************************************************)
(* Edits.  While nothing overlaps and no form is out of date, one request is    *)
(* under way and its progress says which columns are written: those it shares  *)
(* with its form are the row's, but the one it changes.                        *)
(***************************************************************************)
Edi_Vals == Edi!Values \cup {Edi!None}
Edi_Shown == [Edi!Columns -> Edi_Vals] \cup [Edi!Columns \cup {"token"} -> Edi_Vals]
Edi_Pages ==
  [at : {"closed", "open", "domain", "rename", "token", "insert", "replace", "update", "merge"},
   kind : Edi!Kinds \cup {Edi!None, "wizard"}, shown : Edi_Shown,
   col : Edi!Columns \cup {"token", Edi!None}, val : Edi_Vals, read : [Edi!Columns -> Edi_Vals]]
Edi_Types ==
  /\ Edi_row \in [Edi!Columns -> Edi_Vals] /\ Edi_tokens \in [Edi!Slots -> Edi_Vals]
  /\ Edi_routed \in BOOLEAN /\ Edi_page \in [Edi_Users -> Edi_Pages]
  /\ Edi_want \in [Edi!Columns \cup {"token"} -> Edi_Vals]
  /\ Edi_muddled \in BOOLEAN /\ Edi_ops \in 0..Edi_MaxOps

\* What a form and a request of each kind hold.
Edi_PageOK(p) ==
  /\ p.at = "closed" => p = Edi!Closed
  /\ p.at = "open" => p.read = Edi!Gone /\ p.kind \in Edi!Kinds
  /\ p.at = "domain" => p.kind = "wizard"
  /\ p.at \in {"domain", "token", "insert", "replace"} => p.col = "token" /\
       p.kind \in {"settings", "wizard"}
  /\ p.at \in {"insert", "replace"} => p.val # Edi!None
  /\ p.at = "token" /\ p.kind = "wizard" => p.val # Edi!None
  /\ p.at = "rename" => p.kind = "settings" /\ p.col = "name"
  /\ p.at \in {"rename", "update"} /\ p.col = "name" => p.val # Edi!None
  /\ p.at = "update" => p.kind \in {"settings", "resources"}
  /\ p.at = "merge" => p.kind \in Edi!Compose
  /\ p.at # "closed" /\ p.kind # "wizard" =>
       /\ p.kind \in Edi!Kinds /\ p.shown \in [Edi!Columns \cup {"token"} -> Edi_Vals]
       /\ p.shown["name"] # Edi!None
  /\ p.at \in {"update", "merge"} => p.col \in Edi!OwnedBy[p.kind] /\ p.shown[p.col] = p.val
  /\ p.at = "rename" => p.shown["name"] = p.val
  /\ p.at \in {"token", "insert", "replace"} /\ p.kind = "settings" => p.shown["token"] = p.val

\* The tokens are one row that holds v, or none.
Edi_TokenIs(v) ==
  /\ \A s \in Edi!Slots : Edi_tokens[s] \in {Edi!None, v}
  /\ v # Edi!None => \E s \in Edi!Slots : Edi_tokens[s] = v
  /\ \A s, t \in Edi!Slots : Edi_tokens[s] # Edi!None /\ Edi_tokens[t] # Edi!None => s = t

Edi_Same(c) == Edi_row[c] = Edi_want[c] \/ (c = "run" /\ Edi_want[c] = Edi!None)
Edi_Settled ==
  /\ \A c \in Edi!Columns \ {"web"} : Edi_Same(c)
  /\ Edi_TokenIs(Edi_want["token"])

\* What is left to do, by the progress of the request under way.
Edi_HalfDone(p) ==
  /\ \A c \in Edi!Columns \ {"web", "name"} : Edi_Same(c)
  /\ p.at = "update" /\ p.col = "name" => Edi_row["name"] = p.val
  /\ ~(p.at = "update" /\ p.col = "name") => Edi_Same("name")
  /\ p.at = "domain" => Edi!Exists /\ Edi_TokenIs(Edi!None) /\ Edi_want["token"] = p.val
  /\ p.at \in {"token", "insert", "replace"} /\ p.kind = "wizard" =>
       Edi!Exists /\ Edi_TokenIs(Edi!None) /\ Edi_want["token"] = p.val /\ p.at # "replace"
  /\ p.at \in {"token", "insert", "replace"} /\ p.kind = "settings" =>
       Edi_TokenIs(Edi_want["token"])
  /\ p.at = "insert" => Edi_TokenIs(Edi!None)
  /\ p.at = "replace" => ~Edi_TokenIs(Edi!None)
  /\ p.at \in {"rename", "update", "merge"} =>
       Edi_TokenIs(IF p.col = "token" THEN p.val ELSE Edi_want["token"])
  /\ p.at \in {"token", "insert", "replace", "rename", "update", "merge"} /\ p.kind # "wizard" =>
       \A c \in Edi!OwnedBy[p.kind] \ {"token", p.col} : p.shown[c] = Edi_row[c]
  /\ p.at = "merge" => p.read \in {Edi!Gone, Edi_row}

Edi_OrderOK ==
  /\ \A u, v \in Edi!InFlight : u = v
  /\ \A u \in Edi!InFlight : Edi_HalfDone(Edi_page[u])
  /\ Edi!InFlight = {} => Edi_Settled

Edi_Inv ==
  /\ Edi_Assumption /\ Edi_Types
  /\ \A u \in Edi_Users : Edi_PageOK(Edi_page[u])
  /\ Edi!Exists => Edi_row["name"] # Edi!None
  /\ Edi!NothingOutlives
  /\ ~Edi_muddled => Edi_OrderOK

LEMMA Edi_CardinalityIs == \A S : Edi!Cardinality(S) = Cardinality(S)
  BY DEF Edi!Cardinality, Cardinality

\* The token that the row's view stands for.
LEMMA Edi_TokenIsIt ==
  ASSUME Edi_Types, NEW v, Edi_TokenIs(v)
  PROVE  /\ Edi!Token = v /\ (Edi!HasToken <=> v # Edi!None)
         /\ Edi!Cardinality({s \in Edi!Slots : Edi_tokens[s] # Edi!None}) <= 1
<1> DEFINE S == {s \in Edi!Slots : Edi_tokens[s] # Edi!None}
<1>1. Edi!Token = v /\ (Edi!HasToken <=> v # Edi!None)
  BY DEF Edi_TokenIs, Edi!Token, Edi!HasToken
<1>2. CASE S = {}
  <2>1. Cardinality(S) = 0
    BY <1>2, FS_EmptySet
  <2>2. QED
    BY <1>1, <2>1, Edi_CardinalityIs
<1>3. CASE \E s \in S : TRUE
  <2>1. PICK s \in S : S = {s}
    BY <1>3 DEF Edi_TokenIs
  <2>2. Cardinality(S) = 1
    BY <2>1, FS_Singleton
  <2>3. QED
    BY <1>1, <2>2, Edi_CardinalityIs
<1>4. QED
  BY <1>2, <1>3

LEMMA Edi_Init ==
  ASSUME Edi_Assumption, Edi!Init
  PROVE  Edi_Inv
<1> USE DEF Edi!None
<1>1. Edi!Gone \in [Edi!Columns -> Edi_Vals] /\ Edi!Gone["name"] = Edi!None
  BY DEF Edi!Gone, Edi_Vals, Edi!Columns, Edi!SettingsColumns
<1>2. Edi!Closed \in Edi_Pages /\ Edi!Closed.at = "closed"
  BY <1>1 DEF Edi!Closed, Edi_Pages, Edi_Vals, Edi_Shown
<1>3. Edi_Types
  <2>1. /\ Edi_row \in [Edi!Columns -> Edi_Vals] /\ Edi_tokens \in [Edi!Slots -> Edi_Vals]
        /\ Edi_page \in [Edi_Users -> Edi_Pages]
        /\ Edi_want \in [Edi!Columns \cup {"token"} -> Edi_Vals]
    BY <1>1, <1>2 DEF Edi!Init, Edi_Vals
  <2>2. Edi_routed \in BOOLEAN /\ Edi_muddled \in BOOLEAN
    BY DEF Edi!Init
  <2>3. Edi_ops \in 0..Edi_MaxOps
    BY DEF Edi!Init, Edi_Assumption
  <2>4. QED
    BY <2>1, <2>2, <2>3 DEF Edi_Types
<1>4. \A u \in Edi_Users : Edi_page[u] = Edi!Closed
  BY DEF Edi!Init
<1>5. \A u \in Edi_Users : Edi_PageOK(Edi_page[u])
  BY <1>2, <1>4 DEF Edi_PageOK
<1>6. Edi!InFlight = {}
  BY <1>2, <1>4 DEF Edi!InFlight
<1>7. ~Edi!Exists /\ ~Edi!HasToken /\ ~Edi_routed
  BY DEF Edi!Init, Edi!Exists, Edi!HasToken
<1>8. \A c \in Edi!Columns : Edi_row[c] = Edi!None /\ Edi_want[c] = Edi!None
  BY DEF Edi!Init, Edi!Gone
<1>9. Edi_want["token"] = Edi!None /\ \A s \in Edi!Slots : Edi_tokens[s] = Edi!None
  BY DEF Edi!Init
<1>10. Edi_Settled
  BY <1>8, <1>9 DEF Edi_Settled, Edi_Same, Edi_TokenIs
<1>11. QED
  BY <1>3, <1>5, <1>6, <1>7, <1>10 DEF Edi_Inv, Edi_OrderOK, Edi!NothingOutlives

\* A step of one user: what its page becomes, and what that asks of the rest.
LEMMA Edi_Moves ==
  ASSUME Edi_Inv, NEW u \in Edi_Users, NEW p \in Edi_Pages, Edi_page' = [Edi_page EXCEPT ![u] = p],
         Edi_row' \in [Edi!Columns -> Edi_Vals], Edi_tokens' \in [Edi!Slots -> Edi_Vals],
         Edi_routed' \in BOOLEAN, Edi_want' \in [Edi!Columns \cup {"token"} -> Edi_Vals],
         Edi_muddled' \in BOOLEAN, Edi_ops' \in 0..Edi_MaxOps,
         Edi_PageOK(p), Edi!Exists' => Edi_row'["name"] # Edi!None, Edi!NothingOutlives',
         ~Edi_muddled' => /\ Edi!InFlight \subseteq {u}
                          /\ p.at \in {"closed", "open"} => Edi_Settled'
                          /\ p.at \notin {"closed", "open"} => Edi_HalfDone(p)'
  PROVE  Edi_Inv'
<1>1. Edi_page' \in [Edi_Users -> Edi_Pages]
  BY DEF Edi_Inv, Edi_Types
<1>2. Edi_page'[u] = p /\ \A w \in Edi_Users \ {u} : Edi_page'[w] = Edi_page[w]
  BY DEF Edi_Inv, Edi_Types
<1>3. Edi_Types'
  BY <1>1 DEF Edi_Types
<1>4. \A w \in Edi_Users : Edi_PageOK(Edi_page[w])'
  BY <1>2 DEF Edi_Inv, Edi_PageOK
<1>5. ASSUME ~Edi_muddled'
      PROVE  Edi_OrderOK'
  <2>1. \A w \in Edi!InFlight' : w = u
    BY <1>2, <1>5 DEF Edi!InFlight
  <2>2. \A q : q = p /\ p.at \notin {"closed", "open"} => Edi_HalfDone(q)'
    BY <1>5
  <2>3. \A w \in Edi!InFlight' : Edi_HalfDone(Edi_page[w])'
    BY <1>2, <2>1, <2>2 DEF Edi!InFlight
  <2>4. Edi!InFlight' = {} => Edi_Settled'
    BY <1>2, <1>5 DEF Edi!InFlight
  <2>5. QED
    BY <2>1, <2>3, <2>4 DEF Edi_OrderOK
<1>6. Edi_Assumption'
  BY DEF Edi_Inv, Edi_Assumption
<1>7. QED
  BY <1>3, <1>4, <1>5, <1>6 DEF Edi_Inv

\* A request that is under way and that nothing overlaps is the only one.
LEMMA Edi_Alone ==
  ASSUME Edi_Inv, ~Edi_muddled, NEW u \in Edi_Users, Edi_page[u].at \notin {"closed", "open"}
  PROVE  Edi!InFlight \subseteq {u} /\ Edi_HalfDone(Edi_page[u])
<1>1. u \in Edi!InFlight
  BY DEF Edi!InFlight
<1>2. QED
  BY <1>1 DEF Edi_Inv, Edi_OrderOK

\* The page of a request that goes on, or ends.
LEMMA Edi_GoesTo ==
  ASSUME Edi_Types, NEW u \in Edi_Users,
         NEW at \in {"closed", "open", "domain", "rename", "token", "insert", "replace", "update",
              "merge"},
         Edi!Goes(u, at)
  PROVE  \E p \in Edi_Pages :
           /\ Edi_page' = [Edi_page EXCEPT ![u] = p] /\ p.at = at /\ p.kind = Edi_page[u].kind
           /\ p.shown = Edi_page[u].shown /\ p.col = Edi_page[u].col /\ p.val = Edi_page[u].val
           /\ p.read = Edi_page[u].read
<1> DEFINE p == [Edi_page[u] EXCEPT !.at = at]
<1>1. Edi_page[u] \in Edi_Pages
  BY DEF Edi_Types
<1>2. p \in Edi_Pages /\ p.at = at /\ p.kind = Edi_page[u].kind
      /\ p.shown = Edi_page[u].shown /\ p.col = Edi_page[u].col /\ p.val = Edi_page[u].val
      /\ p.read = Edi_page[u].read
  BY <1>1 DEF Edi_Pages
<1>3. Edi_page' = [Edi_page EXCEPT ![u] = p]
  BY DEF Edi!Goes
<1> HIDE DEF p
<1>4. QED
  BY <1>2, <1>3

LEMMA Edi_ClosedIs ==
  /\ Edi!Closed \in Edi_Pages /\ Edi!Closed.at = "closed" /\ Edi!Closed.read = Edi!Gone
  /\ Edi_PageOK(Edi!Closed)
  /\ Edi!Gone \in [Edi!Columns -> Edi_Vals] /\ \A c \in Edi!Columns : Edi!Gone[c] = Edi!None
<1>1. Edi!Gone \in [Edi!Columns -> Edi_Vals] /\ \A c \in Edi!Columns : Edi!Gone[c] = Edi!None
  BY DEF Edi!Gone, Edi_Vals, Edi!Columns, Edi!SettingsColumns
<1>2. Edi!Closed \in Edi_Pages /\ Edi!Closed.at = "closed" /\ Edi!Closed.read = Edi!Gone
  BY <1>1 DEF Edi!Closed, Edi_Pages, Edi_Vals, Edi_Shown, Edi!None
<1>3. Edi_PageOK(Edi!Closed)
  BY <1>2 DEF Edi_PageOK
<1>4. QED
  BY <1>1, <1>2, <1>3

\* A step that fails leaves the request's user without a claim; the rest is as it was.
LEMMA Edi_FailStep ==
  ASSUME Edi_Inv, NEW u \in Edi_Users, Edi!Fails(u),
           UNCHANGED <<Edi_row, Edi_tokens, Edi_want, Edi_ops>>,
         Edi_routed' \in {Edi_routed, Edi!Exists}
  PROVE  Edi_Inv'
<1>1. Edi_page' = [Edi_page EXCEPT ![u] = Edi!Closed] /\ Edi_muddled' = TRUE
  BY DEF Edi!Fails, Edi!Ends
<1>2. /\ Edi_row' \in [Edi!Columns -> Edi_Vals] /\ Edi_tokens' \in [Edi!Slots -> Edi_Vals]
      /\ Edi_want' \in [Edi!Columns \cup {"token"} -> Edi_Vals] /\ Edi_ops' \in 0..Edi_MaxOps
  BY DEF Edi_Inv, Edi_Types
<1>3. Edi_routed' \in BOOLEAN
  BY DEF Edi_Inv, Edi_Types, Edi!Exists
<1>4. /\ Edi!Exists' => Edi_row'["name"] # Edi!None
      /\ Edi!NothingOutlives'
  BY DEF Edi_Inv, Edi!Exists, Edi!NothingOutlives, Edi!HasToken
<1>5. QED
  BY <1>1, <1>2, <1>3, <1>4, Edi_ClosedIs, Edi_Moves

\* The tabs and the columns they show.
LEMMA Edi_TabsAre ==
  /\ Edi!Kinds = {"settings", "resources", "svcResources", "svcHealth"}
  /\ Edi!OwnedBy["settings"] = Edi!SettingsColumns \cup {"token"}
  /\ Edi!OwnedBy["resources"] = {"limits"}
  /\ Edi!OwnedBy["svcResources"] = {"svcLimits"} /\ Edi!OwnedBy["svcHealth"] = {"svcHealth"}
  /\ \A kind \in Edi!Kinds : Edi!OwnedBy[kind] \subseteq Edi!Columns \cup {"token"}
BY DEF Edi!Kinds, Edi!OwnedBy, Edi!Columns, Edi!SettingsColumns

LEMMA Edi_OpenStep ==
  ASSUME Edi_Inv, NEW u \in Edi_Users, NEW kind \in Edi!Kinds, Edi!OpenForm(u, kind)
  PROVE  Edi_Inv'
<1> DEFINE p == [Edi!Closed EXCEPT !.at = "open", !.kind = kind, !.shown = Edi!Shown]
<1>1. /\ Edi_page[u] = Edi!Closed /\ Edi!Exists /\ Edi_page' = [Edi_page EXCEPT ![u] = p]
      /\ UNCHANGED <<Edi_row, Edi_tokens, Edi_routed, Edi_want, Edi_muddled, Edi_ops>>
  BY DEF Edi!OpenForm
<1>2. /\ Edi!Shown \in [Edi!Columns \cup {"token"} -> Edi_Vals]
      /\ \A c \in Edi!Columns \ {"token"} : Edi!Shown[c] = Edi_row[c]
  BY DEF Edi_Inv, Edi_Types, Edi!Shown, Edi_Vals
<1>3. p \in Edi_Pages /\ p.at = "open" /\ p.kind = kind /\ p.shown = Edi!Shown /\ p.read = Edi!Gone
  BY <1>2, Edi_ClosedIs DEF Edi_Pages, Edi_Shown
<1> HIDE DEF p
<1>4. Edi!Shown["name"] # Edi!None
  BY <1>1, <1>2 DEF Edi_Inv, Edi!Columns, Edi!SettingsColumns
<1>5. Edi_PageOK(p)
  BY <1>2, <1>3, <1>4, Edi_TabsAre DEF Edi_PageOK
<1>6. Edi_page'[u] = p /\ \A w \in Edi_Users \ {u} : Edi_page'[w] = Edi_page[w]
  BY <1>1 DEF Edi_Inv, Edi_Types
<1>7. Edi!InFlight' = Edi!InFlight /\ u \notin Edi!InFlight
  BY <1>1, <1>3, <1>6, Edi_ClosedIs DEF Edi!InFlight
<1>8. Edi_Types'
  BY <1>1, <1>3 DEF Edi_Inv, Edi_Types
<1>9. ASSUME NEW w \in Edi_Users
      PROVE  Edi_PageOK(Edi_page[w])'
  <2>1. CASE w = u
    <3>1. \A q : q = p => Edi_PageOK(q)'
      BY <1>5 DEF Edi_PageOK
    <3>2. QED
      BY <1>6, <2>1, <3>1
  <2>2. CASE w # u
    <3>1. Edi_page'[w] = Edi_page[w] /\ Edi_PageOK(Edi_page[w])
      BY <1>6, <2>2 DEF Edi_Inv
    <3>2. \A q : Edi_PageOK(q) /\ q = Edi_page'[w] => Edi_PageOK(Edi_page[w])'
      BY DEF Edi_PageOK
    <3>3. QED
      BY <3>1, <3>2
  <2>3. QED
    BY <2>1, <2>2
<1>10. ASSUME ~Edi_muddled'
       PROVE  Edi_OrderOK'
  <2>1. Edi_OrderOK
    BY <1>1, <1>10 DEF Edi_Inv
  <2>2. ASSUME NEW w \in Edi!InFlight
        PROVE  Edi_HalfDone(Edi_page[w])'
    <3>1. Edi_page'[w] = Edi_page[w]
      BY <1>6, <1>7 DEF Edi!InFlight
    <3>2. Edi_HalfDone(Edi_page[w])
      BY <2>1 DEF Edi_OrderOK
    <3>3. QED
      BY <1>1, <3>1, <3>2 DEF Edi_HalfDone, Edi_Same, Edi_TokenIs, Edi!Exists
  <2>3. Edi_Settled => Edi_Settled'
    BY <1>1 DEF Edi_Settled, Edi_Same, Edi_TokenIs
  <2>4. QED
    BY <1>7, <2>1, <2>2, <2>3 DEF Edi_OrderOK
<1>11. Edi!NothingOutlives' /\ (Edi!Exists' => Edi_row'["name"] # Edi!None)
  BY <1>1 DEF Edi_Inv, Edi!NothingOutlives, Edi!Exists, Edi!HasToken
<1>12. QED
  BY <1>8, <1>9, <1>10, <1>11 DEF Edi_Inv, Edi_Assumption

LEMMA Edi_CreateStep ==
  ASSUME Edi_Inv, NEW u \in Edi_Users, NEW web \in {Edi!None, "x"}, NEW token \in {Edi!None, "x"},
         Edi!Create(u, web, token)
  PROVE  Edi_Inv'
<1> DEFINE new == [Edi!Gone EXCEPT !["name"] = "x", !["ref"] = "x", !["web"] = web]
           p == [Edi!Closed EXCEPT !.at = "domain", !.kind = "wizard", !.col = "token",
                !.val = token]
<1>1. /\ ~Edi!Exists /\ Edi_ops < Edi_MaxOps /\ Edi_ops' = Edi_ops + 1
      /\ Edi_row' = new
      /\ Edi_want' = [c \in Edi!Columns \cup {"token"} |-> IF c = "token" THEN token ELSE new[c]]
      /\ Edi_page' = [Edi_page EXCEPT ![u] = p]
      /\ Edi_muddled' = (Edi_muddled \/ Edi!InFlight # {})
      /\ Edi_tokens' = Edi_tokens /\ Edi_routed' = Edi_routed
  BY DEF Edi!Create, Edi!Request
<1>2. web \in Edi_Vals /\ token \in Edi_Vals /\ "x" \in Edi_Vals /\ Edi!None # "x"
  BY DEF Edi_Vals, Edi!Values, Edi!None
<1>3. new \in [Edi!Columns -> Edi_Vals] /\ new["name"] = "x"
  BY <1>2, Edi_ClosedIs DEF Edi!Columns, Edi!SettingsColumns
<1>4. /\ p \in Edi_Pages /\ p.at = "domain" /\ p.kind = "wizard" /\ p.col = "token" /\ p.val = token
      /\ p.read = Edi!Gone
  BY <1>2, Edi_ClosedIs DEF Edi_Pages
<1>5. Edi!Exists'
  BY <1>1, <1>2, <1>3, Edi_ClosedIs DEF Edi!Exists, Edi!Columns, Edi!SettingsColumns
<1> HIDE DEF p, new
<1>6. Edi_PageOK(p)
  BY <1>4 DEF Edi_PageOK
<1>7. \A s \in Edi!Slots : Edi_tokens[s] = Edi!None
  BY <1>1 DEF Edi_Inv, Edi!NothingOutlives, Edi!HasToken
<1>8. /\ Edi_want' \in [Edi!Columns \cup {"token"} -> Edi_Vals] /\ Edi_want'["token"] = token
      /\ \A c \in Edi!Columns : Edi_want'[c] = Edi_row'[c]
  BY <1>1, <1>2, <1>3 DEF Edi!Columns, Edi!SettingsColumns
<1>9. Edi_ops' \in 0..Edi_MaxOps
  BY <1>1 DEF Edi_Inv, Edi_Types, Edi_Assumption
<1>10. Edi_muddled' \in BOOLEAN /\ (~Edi_muddled' => Edi!InFlight \subseteq {u})
  BY <1>1
<1>11. Edi_HalfDone(p)'
  <2>1. \A c \in Edi!Columns : Edi_Same(c)'
    BY <1>8 DEF Edi_Same
  <2>2. Edi_TokenIs(Edi!None)'
    BY <1>1, <1>7 DEF Edi_TokenIs
  <2>3. QED
    BY <1>4, <1>5, <1>8, <2>1, <2>2 DEF Edi_HalfDone, Edi!Columns, Edi!SettingsColumns
<1>12. Edi_tokens' \in [Edi!Slots -> Edi_Vals] /\ Edi_routed' \in BOOLEAN
  BY <1>1 DEF Edi_Inv, Edi_Types
<1>13. Edi_row'["name"] # Edi!None
  BY <1>1, <1>2, <1>3
<1>14. Edi!NothingOutlives'
  BY <1>5 DEF Edi!NothingOutlives
<1>15. Edi_row' \in [Edi!Columns -> Edi_Vals]
  BY <1>1, <1>3
<1>16. QED
  BY <1>1, <1>4, <1>6, <1>8, <1>9, <1>10, <1>11, <1>12, <1>13, <1>14, <1>15, Edi_Moves

LEMMA Edi_CreateDomainStep ==
  ASSUME Edi_Inv, NEW u \in Edi_Users, Edi!CreateDomain(u)
  PROVE  Edi_Inv'
<1>1. /\ Edi_page[u].at = "domain" /\ UNCHANGED <<Edi_row, Edi_tokens, Edi_want, Edi_ops>>
      /\ Edi_routed' \in {Edi_routed, Edi!Exists}
      /\ \/ Edi!Fails(u)
         \/ Edi!Exists /\ Edi_page[u].val = Edi!None /\ Edi!Ends(u) /\ Edi_muddled' = Edi_muddled
         \/ Edi!Exists /\ Edi_page[u].val # Edi!None /\ Edi!Goes(u, "token") /\
              Edi_muddled' = Edi_muddled
  BY DEF Edi!CreateDomain
<1>2. CASE Edi!Fails(u)
  BY <1>1, <1>2, Edi_FailStep
<1>3. ASSUME NEW p \in Edi_Pages, Edi_page' = [Edi_page EXCEPT ![u] = p], Edi!Exists, Edi_PageOK(p),
             Edi_muddled' = Edi_muddled,
             ~Edi_muddled => /\ p.at \in {"closed", "open"} => Edi_Settled
                             /\ p.at \notin {"closed", "open"} => Edi_HalfDone(p)
      PROVE  Edi_Inv'
  <2>1. /\ Edi_row' \in [Edi!Columns -> Edi_Vals] /\ Edi_tokens' \in [Edi!Slots -> Edi_Vals]
        /\ Edi_want' \in [Edi!Columns \cup {"token"} -> Edi_Vals] /\ Edi_ops' \in 0..Edi_MaxOps
        /\ Edi_muddled' \in BOOLEAN /\ Edi_routed' \in BOOLEAN
    BY <1>1, <1>3 DEF Edi_Inv, Edi_Types, Edi!Exists
  <2>2. /\ Edi!Exists' => Edi_row'["name"] # Edi!None
        /\ Edi!NothingOutlives'
    BY <1>1, <1>3 DEF Edi_Inv, Edi!Exists, Edi!NothingOutlives
  <2>3. /\ Edi_Settled => Edi_Settled'
        /\ Edi_HalfDone(p) => Edi_HalfDone(p)'
    BY <1>1 DEF Edi_Settled, Edi_HalfDone, Edi_Same, Edi_TokenIs, Edi!Exists
  <2>4. ~Edi_muddled => Edi!InFlight \subseteq {u}
    BY <1>1, Edi_Alone
  <2>5. QED
    BY <1>3, <2>1, <2>2, <2>3, <2>4, Edi_Moves
<1>4. Edi_PageOK(Edi_page[u]) /\ (~Edi_muddled => Edi_HalfDone(Edi_page[u]))
  BY <1>1, Edi_Alone DEF Edi_Inv
<1>5. CASE Edi!Exists /\ Edi_page[u].val = Edi!None /\ Edi!Ends(u) /\ Edi_muddled' = Edi_muddled
  <2>1. ~Edi_muddled => Edi_Settled
    BY <1>1, <1>4, <1>5 DEF Edi_HalfDone, Edi_Settled, Edi_Same
  <2>2. QED
    BY <1>3, <1>5, <2>1, Edi_ClosedIs DEF Edi!Ends
<1>6. CASE Edi!Exists /\ Edi_page[u].val # Edi!None /\ Edi!Goes(u, "token") /\
        Edi_muddled' = Edi_muddled
  <2>1. PICK p \in Edi_Pages :
           /\ Edi_page' = [Edi_page EXCEPT ![u] = p] /\ p.at = "token" /\ p.kind = Edi_page[u].kind
           /\ p.shown = Edi_page[u].shown /\ p.col = Edi_page[u].col /\ p.val = Edi_page[u].val
           /\ p.read = Edi_page[u].read
    BY <1>6, Edi_GoesTo DEF Edi_Inv
  <2>2. Edi_PageOK(p)
    BY <1>1, <1>4, <1>6, <2>1 DEF Edi_PageOK
  <2>3. ~Edi_muddled => Edi_HalfDone(p)
    BY <1>1, <1>4, <2>1 DEF Edi_HalfDone, Edi_PageOK
  <2>4. QED
    BY <1>3, <1>6, <2>1, <2>2, <2>3
<1>7. QED
  BY <1>1, <1>2, <1>5, <1>6

LEMMA Edi_RemoveStep ==
  ASSUME Edi_Inv, NEW u \in Edi_Users, Edi!Remove(u)
  PROVE  Edi_Inv'
<1>1. /\ Edi_ops < Edi_MaxOps /\ Edi_ops' = Edi_ops + 1 /\ Edi_row' = Edi!Gone
      /\ Edi_page' = [Edi_page EXCEPT ![u] = Edi!Closed]
      /\ Edi_tokens' = [s \in Edi!Slots |-> Edi!None] /\ Edi_routed' = FALSE
      /\ Edi_want' = [c \in Edi!Columns \cup {"token"} |-> Edi!None]
      /\ Edi_muddled' = (Edi_muddled \/ Edi!InFlight # {})
  BY DEF Edi!Remove, Edi!Request, Edi!Ends
<1>2. /\ Edi_row' \in [Edi!Columns -> Edi_Vals] /\ Edi_tokens' \in [Edi!Slots -> Edi_Vals]
      /\ Edi_want' \in [Edi!Columns \cup {"token"} -> Edi_Vals]
  BY <1>1, Edi_ClosedIs DEF Edi_Vals
<1>3. Edi_routed' \in BOOLEAN /\ Edi_muddled' \in BOOLEAN
  BY <1>1
<1>4. Edi_ops' \in 0..Edi_MaxOps
  BY <1>1 DEF Edi_Inv, Edi_Types, Edi_Assumption
<1>5. ~Edi!Exists' /\ Edi!NothingOutlives'
  BY <1>1 DEF Edi!Exists, Edi!NothingOutlives, Edi!HasToken
<1>6. Edi_Settled'
  BY <1>1, Edi_ClosedIs DEF Edi_Settled, Edi_Same, Edi_TokenIs
<1>7. ~Edi_muddled' => Edi!InFlight \subseteq {u}
  BY <1>1
<1>8. QED
  BY <1>1, <1>2, <1>3, <1>4, <1>5, <1>6, <1>7, Edi_ClosedIs, Edi_Moves

LEMMA Edi_SubmitStep ==
  ASSUME Edi_Inv, NEW u \in Edi_Users, NEW col \in Edi!Columns \cup {"token"},
           NEW val \in Edi!Domain(col),
         Edi!Submit(u, col, val)
  PROVE  Edi_Inv'
<1> DEFINE f == Edi_page[u]
           at == IF col = "name" THEN "rename" ELSE IF col = "token" THEN "token"
                 ELSE IF f.kind \in Edi!Compose THEN "merge" ELSE "update"
           next == [f EXCEPT !.col = col, !.val = val, !.shown = [f.shown EXCEPT ![col] = val],
                !.at = at]
<1>1. /\ f.at = "open" /\ col \in Edi!OwnedBy[f.kind]
      /\ Edi_ops < Edi_MaxOps /\ Edi_ops' = Edi_ops + 1
      /\ Edi_page' = [Edi_page EXCEPT ![u] = next]
      /\ Edi_muddled' = (Edi_muddled \/ Edi!InFlight # {} \/
                           \E c \in Edi!OwnedBy[f.kind] \ {"token"} : f.shown[c] # Edi_row[c])
      /\ UNCHANGED <<Edi_row, Edi_tokens, Edi_routed, Edi_want>>
  BY ZenonT(30) DEF Edi!Submit, Edi!Request
<1>2. val \in Edi_Vals /\ (col = "name" => val # Edi!None)
  BY DEF Edi!Domain, Edi!Values, Edi_Vals, Edi!None
<1>3. f \in Edi_Pages /\ Edi_PageOK(f)
  BY DEF Edi_Inv, Edi_Types
<1>4. /\ f.kind \in Edi!Kinds /\ f.shown \in [Edi!Columns \cup {"token"} -> Edi_Vals]
      /\ f.read = Edi!Gone
      /\ f.shown["name"] # Edi!None
  <2>1. f.kind # "wizard"
    BY <1>1, <1>3, Edi_TabsAre DEF Edi_PageOK
  <2>2. QED
    BY <1>1, <1>3, <2>1 DEF Edi_PageOK
<1>5. PICK p \in Edi_Pages :
         /\ Edi_page' = [Edi_page EXCEPT ![u] = p]
         /\ p.at = at /\ p.kind = f.kind /\ p.col = col /\ p.val = val /\ p.read = f.read
         /\ p.shown = [f.shown EXCEPT ![col] = val]
         /\ p.shown \in [Edi!Columns \cup {"token"} -> Edi_Vals]
  <2>1. [f.shown EXCEPT ![col] = val] \in [Edi!Columns \cup {"token"} -> Edi_Vals]
    BY <1>2, <1>4
  <2>2. at \in {"rename", "token", "merge", "update"}
    OBVIOUS
  <2>3. next \in Edi_Pages
    BY <1>2, <1>3, <2>1, <2>2 DEF Edi_Pages, Edi_Shown
  <2>4. /\ next.at = at /\ next.kind = f.kind /\ next.col = col /\ next.val = val
        /\ next.read = f.read
        /\ next.shown = [f.shown EXCEPT ![col] = val]
    BY <1>3 DEF Edi_Pages
  <2> HIDE DEF next, at
  <2>5. QED
    BY <1>1, <2>1, <2>3, <2>4
<1> HIDE DEF next
<1>6. Edi_PageOK(p)
  <2>1. p.shown[col] = val /\ \A c \in Edi!Columns \ {col} : p.shown[c] = f.shown[c]
    BY <1>4, <1>5
  <2>2. p.shown["name"] # Edi!None
    BY <1>2, <1>4, <2>1 DEF Edi!Columns, Edi!SettingsColumns
  <2>3. /\ col \in {"name", "token"} => f.kind = "settings"
        /\ at = "update" => f.kind \in {"settings", "resources"} /\ col # "name"
        /\ at = "merge" => f.kind \in Edi!Compose
        /\ at = "rename" <=> col = "name"
        /\ at = "token" <=> col = "token"
    BY <1>1, <1>4, Edi_TabsAre DEF Edi!Compose, Edi!SettingsColumns
  <2>4. at \in {"rename", "token", "merge", "update"}
    OBVIOUS
  <2> HIDE DEF at
  <2>5. QED
    BY <1>1, <1>2, <1>4, <1>5, <2>1, <2>2, <2>3, <2>4 DEF Edi_PageOK
<1>7. ASSUME ~Edi_muddled'
      PROVE  Edi!InFlight \subseteq {u} /\ p.at \notin {"closed", "open"} /\ Edi_HalfDone(p)'
  <2>1. /\ ~Edi_muddled /\ Edi!InFlight = {}
        /\ \A c \in Edi!OwnedBy[f.kind] \ {"token"} : f.shown[c] = Edi_row[c]
    BY <1>1, <1>7
  <2>2. Edi_Settled
    BY <2>1 DEF Edi_Inv, Edi_OrderOK
  <2>3. \A c \in Edi!OwnedBy[f.kind] \ {"token", col} : p.shown[c] = Edi_row[c]
    BY <1>4, <1>5, <2>1, Edi_TabsAre
  <2>4. \A c \in Edi!Columns \ {"web"} : Edi_Same(c)'
    BY <1>1, <2>2 DEF Edi_Settled, Edi_Same
  <2>5. Edi_TokenIs(Edi_want["token"])'
    BY <1>1, <2>2 DEF Edi_Settled, Edi_TokenIs
  <2>6. /\ at \in {"rename", "token", "merge", "update"} /\ (at = "update" => col # "name")
        /\ at # "token" => col # "token"
    OBVIOUS
  <2> HIDE DEF at
  <2>7. p.kind # "wizard"
    BY <1>4, <1>5, Edi_TabsAre
  <2>8. /\ \A c \in Edi!Columns \ {"web", "name"} : Edi_Same(c)'
        /\ Edi_Same("name")'
    BY <2>4 DEF Edi!Columns, Edi!SettingsColumns
  <2>9. at = "token" => p.kind = "settings"
    BY <1>5, <1>6, <2>7 DEF Edi_PageOK
  <2>10. /\ p.at = at /\ p.at \in {"rename", "token", "merge", "update"} /\ p.read = Edi!Gone
         /\ p.at = "update" => p.col # "name"
         /\ p.at # "token" => p.col # "token"
         /\ \A c \in Edi!OwnedBy[p.kind] \ {"token", p.col} : p.shown[c] = Edi_row'[c]
    BY <1>1, <1>4, <1>5, <2>3, <2>6
  <2>11. ASSUME p.at = "token"
         PROVE  Edi_HalfDone(p)'
    BY <2>5, <2>7, <2>8, <2>9, <2>10, <2>11 DEF Edi_HalfDone
  <2>12. ASSUME p.at \in {"rename", "update"}
         PROVE  Edi_HalfDone(p)'
    BY <2>5, <2>7, <2>8, <2>10, <2>12 DEF Edi_HalfDone
  <2>13. ASSUME p.at = "merge"
         PROVE  Edi_HalfDone(p)'
    BY <2>5, <2>7, <2>8, <2>10, <2>13 DEF Edi_HalfDone
  <2>14. QED
    BY <2>1, <2>10, <2>11, <2>12, <2>13
<1>8. /\ Edi_row' \in [Edi!Columns -> Edi_Vals] /\ Edi_tokens' \in [Edi!Slots -> Edi_Vals]
      /\ Edi_want' \in [Edi!Columns \cup {"token"} -> Edi_Vals] /\ Edi_routed' \in BOOLEAN
  BY <1>1 DEF Edi_Inv, Edi_Types
<1>9. Edi_muddled' \in BOOLEAN
  BY <1>1
<1>10. Edi_ops' \in 0..Edi_MaxOps
  BY <1>1 DEF Edi_Inv, Edi_Types, Edi_Assumption
<1>11. /\ Edi!Exists' => Edi_row'["name"] # Edi!None
       /\ Edi!NothingOutlives'
  BY <1>1 DEF Edi_Inv, Edi!Exists, Edi!NothingOutlives, Edi!HasToken
<1> HIDE DEF at, f
<1>12. ~Edi_muddled' => /\ Edi!InFlight \subseteq {u}
                        /\ p.at \in {"closed", "open"} => Edi_Settled'
                        /\ p.at \notin {"closed", "open"} => Edi_HalfDone(p)'
  BY <1>7
<1>13. QED
  BY <1>5, <1>6, <1>8, <1>9, <1>10, <1>11, <1>12, Edi_Moves

\* A step of a request that writes the row, the tokens or what was wanted, and does not fail.
LEMMA Edi_Goes ==
  ASSUME Edi_Inv, NEW u \in Edi_Users, Edi_page[u].at \notin {"closed", "open"},
         NEW p \in Edi_Pages, Edi_page' = [Edi_page EXCEPT ![u] = p], Edi_PageOK(p),
         UNCHANGED <<Edi_routed, Edi_muddled, Edi_ops>>,
         Edi_row' \in [Edi!Columns -> Edi_Vals], Edi_tokens' \in [Edi!Slots -> Edi_Vals],
         Edi_want' \in [Edi!Columns \cup {"token"} -> Edi_Vals],
         Edi!Exists' <=> Edi!Exists, Edi!Exists => Edi_row'["name"] # Edi!None,
         ~Edi!Exists => \A s \in Edi!Slots : Edi_tokens[s] = Edi!None => Edi_tokens'[s] = Edi!None,
         Edi_HalfDone(Edi_page[u]) =>
           /\ p.at \in {"closed", "open"} => Edi_Settled'
           /\ p.at \notin {"closed", "open"} => Edi_HalfDone(p)'
  PROVE  Edi_Inv'
<1>1. Edi_routed' \in BOOLEAN /\ Edi_muddled' \in BOOLEAN /\ Edi_ops' \in 0..Edi_MaxOps
  BY DEF Edi_Inv, Edi_Types
<1>2. Edi!NothingOutlives'
  BY DEF Edi_Inv, Edi!NothingOutlives, Edi!HasToken
<1>3. ~Edi_muddled => Edi!InFlight \subseteq {u} /\ Edi_HalfDone(Edi_page[u])
  BY Edi_Alone
<1>4. QED
  BY <1>1, <1>2, <1>3, Edi_Moves

LEMMA Edi_RenameStep ==
  ASSUME Edi_Inv, NEW u \in Edi_Users, Edi!Rename(u)
  PROVE  Edi_Inv'
<1> DEFINE f == Edi_page[u]
<1>1. /\ f.at = "rename" /\ UNCHANGED <<Edi_tokens, Edi_routed, Edi_want, Edi_ops>>
      /\ \/ /\ Edi!Exists /\ Edi_row' = [Edi_row EXCEPT !["name"] = f.val] /\ Edi!Goes(u, "update")
            /\ Edi_muddled' = Edi_muddled
         \/ Edi!Exists /\ Edi_row' = Edi_row /\ Edi!Ends(u) /\ Edi_muddled' = Edi_muddled
         \/ Edi_row' = Edi_row /\ Edi!Fails(u)
  BY DEF Edi!Rename
<1>2. f \in Edi_Pages /\ Edi_PageOK(f)
  BY DEF Edi_Inv, Edi_Types
<1>3. /\ Edi_row \in [Edi!Columns -> Edi_Vals] /\ Edi_tokens' \in [Edi!Slots -> Edi_Vals]
      /\ Edi_want' \in [Edi!Columns \cup {"token"} -> Edi_Vals]
  BY <1>1 DEF Edi_Inv, Edi_Types
<1>4. f.val # Edi!None /\ f.col = "name" /\ f.kind = "settings" /\ f.val \in Edi_Vals /\
        f.shown["name"] = f.val
  BY <1>1, <1>2 DEF Edi_PageOK, Edi_Pages
<1>5. CASE Edi_row' = Edi_row /\ Edi!Fails(u)
  BY <1>1, <1>5, Edi_FailStep
<1>6. CASE Edi!Exists /\ Edi_row' = Edi_row /\ Edi!Ends(u) /\ Edi_muddled' = Edi_muddled
  <2>1. Edi_HalfDone(f) => Edi_Settled'
    BY <1>1, <1>4, <1>6 DEF Edi_HalfDone, Edi_Settled, Edi_Same, Edi_TokenIs
  <2>2. Edi!Exists' = Edi!Exists /\ Edi_row["name"] # Edi!None
    BY <1>6 DEF Edi_Inv, Edi!Exists
  <2>3. Edi_page' = [Edi_page EXCEPT ![u] = Edi!Closed]
    BY <1>6 DEF Edi!Ends
  <2>4. QED
    BY <1>1, <1>3, <1>6, <2>1, <2>2, <2>3, Edi_ClosedIs, Edi_Goes
<1>7. CASE /\ Edi!Exists /\ Edi_row' = [Edi_row EXCEPT !["name"] = f.val] /\ Edi!Goes(u, "update")
           /\ Edi_muddled' = Edi_muddled
  <2>1. PICK p \in Edi_Pages :
           /\ Edi_page' = [Edi_page EXCEPT ![u] = p] /\ p.at = "update" /\ p.kind = f.kind
           /\ p.shown = f.shown /\ p.col = f.col /\ p.val = f.val /\ p.read = f.read
    BY <1>7, Edi_GoesTo DEF Edi_Inv
  <2>2. Edi_PageOK(p)
    BY <1>1, <1>2, <1>4, <2>1, Edi_TabsAre DEF Edi_PageOK, Edi!SettingsColumns
  <2>3. /\ Edi_row' \in [Edi!Columns -> Edi_Vals] /\ Edi_row'["name"] = f.val
        /\ \A c \in Edi!Columns \ {"name"} : Edi_row'[c] = Edi_row[c]
    BY <1>3, <1>4, <1>7 DEF Edi!Columns, Edi!SettingsColumns
  <2>4. Edi!Exists'
    BY <1>4, <2>3, Edi_ClosedIs DEF Edi!Exists, Edi!Columns, Edi!SettingsColumns
  <2>5. ASSUME Edi_HalfDone(f)
        PROVE  Edi_HalfDone(p)'
    <3>1. \A c \in Edi!Columns \ {"web", "name"} : Edi_Same(c)'
      BY <1>1, <2>3, <2>5 DEF Edi_HalfDone, Edi_Same
    <3>2. Edi_TokenIs(Edi_want["token"])'
      BY <1>1, <1>4, <2>5 DEF Edi_HalfDone, Edi_TokenIs
    <3>3. \A c \in Edi!OwnedBy["settings"] \ {"token", "name"} : p.shown[c] = Edi_row'[c]
      BY <1>1, <1>4, <2>1, <2>3, <2>5, Edi_TabsAre DEF Edi_HalfDone, Edi!Columns
    <3>4. QED
      BY <1>4, <2>1, <2>3, <3>1, <3>2, <3>3 DEF Edi_HalfDone
  <2>6. QED
    BY <1>1, <1>3, <1>4, <1>7, <2>1, <2>2, <2>3, <2>4, <2>5, Edi_Goes
<1>8. QED
  BY <1>1, <1>5, <1>6, <1>7

\* clearGitToken deletes; setGitToken looks which statement is to follow.
LEMMA Edi_FindTokenStep ==
  ASSUME Edi_Inv, NEW u \in Edi_Users, Edi!FindToken(u)
  PROVE  Edi_Inv'
<1> DEFINE f == Edi_page[u]
<1>1. PICK at \in {"update", "replace", "insert"} :
        /\ f.at = "token" /\ UNCHANGED <<Edi_row, Edi_routed, Edi_want, Edi_muddled, Edi_ops>>
        /\ Edi!Goes(u, at)
        /\ at = "update" => f.val = Edi!None /\ Edi_tokens' = [s \in Edi!Slots |-> Edi!None]
        /\ at # "update" => f.val # Edi!None /\ Edi_tokens' = Edi_tokens
        /\ at = "replace" => Edi!HasToken
        /\ at = "insert" => ~Edi!HasToken
  BY DEF Edi!FindToken
<1>2. f \in Edi_Pages /\ Edi_PageOK(f)
  BY DEF Edi_Inv, Edi_Types
<1>3. /\ Edi_row' \in [Edi!Columns -> Edi_Vals] /\ Edi_tokens' \in [Edi!Slots -> Edi_Vals]
      /\ Edi_want' \in [Edi!Columns \cup {"token"} -> Edi_Vals]
  BY <1>1 DEF Edi_Inv, Edi_Types, Edi_Vals
<1>4. /\ f.col = "token" /\ f.kind \in {"settings", "wizard"}
      /\ f.kind = "wizard" => f.val # Edi!None
      /\ f.kind = "settings" =>
           /\ f.shown \in [Edi!Columns \cup {"token"} -> Edi_Vals] /\ f.shown["name"] # Edi!None
           /\ f.shown["token"] = f.val
  BY <1>1, <1>2 DEF Edi_PageOK
<1>5. Edi!Exists' = Edi!Exists /\ (Edi!Exists => Edi_row'["name"] # Edi!None)
  BY <1>1 DEF Edi_Inv, Edi!Exists
<1>6. PICK p \in Edi_Pages :
        /\ Edi_page' = [Edi_page EXCEPT ![u] = p] /\ p.at = at /\ p.kind = f.kind
        /\ p.shown = f.shown /\ p.col = f.col /\ p.val = f.val /\ p.read = f.read
  BY <1>1, Edi_GoesTo DEF Edi_Inv
<1>7. Edi_PageOK(p)
  BY <1>1, <1>2, <1>4, <1>6, Edi_TabsAre DEF Edi_PageOK
<1>8. ~Edi!Exists => \A s \in Edi!Slots : Edi_tokens[s] = Edi!None => Edi_tokens'[s] = Edi!None
  BY <1>1
<1>9. ASSUME Edi_HalfDone(f)
      PROVE  Edi_HalfDone(p)'
  <2>1. \A c \in Edi!Columns \ {"web", "name"} : Edi_Same(c)'
    BY <1>1, <1>9 DEF Edi_HalfDone, Edi_Same
  <2>2. Edi_Same("name")'
    BY <1>1, <1>9 DEF Edi_HalfDone, Edi_Same
  <2>3. f.kind = "wizard" => Edi!Exists /\ Edi_TokenIs(Edi!None) /\ Edi_want["token"] = f.val
    BY <1>1, <1>9 DEF Edi_HalfDone
  <2>4. f.kind = "settings" =>
          /\ Edi_TokenIs(Edi_want["token"])
          /\ \A c \in Edi!OwnedBy[p.kind] \ {"token", p.col} : p.shown[c] = Edi_row'[c]
    BY <1>1, <1>6, <1>9 DEF Edi_HalfDone
  <2>5. Edi_TokenIs(Edi!None) <=> ~Edi!HasToken
    BY DEF Edi_TokenIs, Edi!HasToken
  <2>6. ASSUME at = "update"
        PROVE  Edi_HalfDone(p)'
    <3>1. Edi_TokenIs(Edi!None)'
      BY <1>1, <2>6 DEF Edi_TokenIs
    <3>2. QED
      BY <1>1, <1>4, <1>6, <2>1, <2>2, <2>4, <2>6, <3>1 DEF Edi_HalfDone
  <2>7. ASSUME at # "update"
        PROVE  Edi_HalfDone(p)'
    <3>1. \A v : Edi_TokenIs(v)' <=> Edi_TokenIs(v)
      BY <1>1, <2>7 DEF Edi_TokenIs
    <3>2. Edi_TokenIs(Edi!None)' <=> Edi_TokenIs(Edi!None)
      BY <1>1, <2>7 DEF Edi_TokenIs
    <3>3. Edi_TokenIs(Edi_want["token"])' <=> Edi_TokenIs(Edi_want["token"])
      BY <1>1, <2>7 DEF Edi_TokenIs
    <3>4. f.kind = "wizard" => at = "insert" /\ Edi!Exists'
      BY <1>1, <1>5, <2>3, <2>5, <2>7
    <3>5. at = "insert" => Edi_TokenIs(Edi!None)'
      BY <1>1, <2>5, <3>2
    <3>6. at = "replace" => ~Edi_TokenIs(Edi!None)'
      BY <1>1, <2>5, <3>2
    <3>7. f.kind = "settings" => Edi_TokenIs(Edi_want["token"])'
      BY <2>4, <3>3
    <3>8. p.at \in {"insert", "replace"} /\ Edi_want' = Edi_want
      BY <1>1, <1>6, <2>7
    <3>9. QED
      BY <1>4, <1>6, <2>1, <2>2, <2>3, <2>4, <3>4, <3>5, <3>6, <3>7, <3>8 DEF Edi_HalfDone
  <2>8. QED
    BY <2>6, <2>7
<1>10. p.at \notin {"closed", "open"} /\ f.at \notin {"closed", "open"}
  BY <1>1, <1>6
<1>11. QED
  BY <1>1, <1>3, <1>5, <1>6, <1>7, <1>8, <1>9, <1>10, Edi_Goes

\* The service reads the row before it merges.
LEMMA Edi_ReadServicesStep ==
  ASSUME Edi_Inv, NEW u \in Edi_Users, Edi!ReadServices(u)
  PROVE  Edi_Inv'
<1> DEFINE f == Edi_page[u]
<1>1. /\ f.at = "merge" /\ UNCHANGED <<Edi_row, Edi_tokens, Edi_routed, Edi_want, Edi_ops>>
      /\ \/ /\ Edi!Exists /\ Edi_page' = [Edi_page EXCEPT ![u] = [f EXCEPT !.read = Edi_row]]
            /\ Edi_muddled' = Edi_muddled
         \/ Edi!Fails(u)
  BY DEF Edi!ReadServices
<1>2. f \in Edi_Pages /\ Edi_PageOK(f) /\ Edi_row \in [Edi!Columns -> Edi_Vals]
  BY DEF Edi_Inv, Edi_Types
<1>3. CASE Edi!Fails(u)
  BY <1>1, <1>3, Edi_FailStep
<1>4. CASE /\ Edi!Exists /\ Edi_page' = [Edi_page EXCEPT ![u] = [f EXCEPT !.read = Edi_row]]
           /\ Edi_muddled' = Edi_muddled
  <2>1. PICK p \in Edi_Pages :
          /\ Edi_page' = [Edi_page EXCEPT ![u] = p] /\ p.at = "merge" /\ p.kind = f.kind
          /\ p.shown = f.shown /\ p.col = f.col /\ p.val = f.val /\ p.read = Edi_row
    <3>1. [f EXCEPT !.read = Edi_row] \in Edi_Pages
      BY <1>2 DEF Edi_Pages
    <3>2. /\ [f EXCEPT !.read = Edi_row].at = "merge" /\ [f EXCEPT !.read = Edi_row].kind = f.kind
          /\ [f EXCEPT !.read = Edi_row].shown = f.shown /\ [f EXCEPT !.read = Edi_row].col = f.col
          /\ [f EXCEPT !.read = Edi_row].val = f.val /\ [f EXCEPT !.read = Edi_row].read = Edi_row
      BY <1>1, <1>2 DEF Edi_Pages
    <3>3. QED
      BY <1>4, <3>1, <3>2
  <2>2. Edi_PageOK(p)
    BY <1>1, <1>2, <2>1 DEF Edi_PageOK
  <2>3. /\ Edi_row' \in [Edi!Columns -> Edi_Vals] /\ Edi_tokens' \in [Edi!Slots -> Edi_Vals]
        /\ Edi_want' \in [Edi!Columns \cup {"token"} -> Edi_Vals]
    BY <1>1 DEF Edi_Inv, Edi_Types
  <2>4. Edi!Exists' = Edi!Exists /\ (Edi!Exists => Edi_row'["name"] # Edi!None)
    BY <1>1 DEF Edi_Inv, Edi!Exists
  <2>5. ASSUME Edi_HalfDone(f)
        PROVE  Edi_HalfDone(p)'
    <3>1. /\ \A c \in Edi!Columns \ {"web", "name"} : Edi_Same(c)'
          /\ Edi_Same("name")'
      BY <1>1, <2>5 DEF Edi_HalfDone, Edi_Same
    <3>2. \A v : v = (IF p.col = "token" THEN p.val ELSE Edi_want'["token"]) => Edi_TokenIs(v)'
      BY <1>1, <2>1, <2>5 DEF Edi_HalfDone, Edi_TokenIs
    <3>3. p.kind # "wizard" =>
            \A c \in Edi!OwnedBy[p.kind] \ {"token", p.col} : p.shown[c] = Edi_row'[c]
      BY <1>1, <2>1, <2>5 DEF Edi_HalfDone
    <3>4. p.read = Edi_row'
      BY <1>1, <2>1
    <3>5. QED
      BY <2>1, <3>1, <3>2, <3>3, <3>4 DEF Edi_HalfDone
  <2>6. QED
    BY <1>1, <1>4, <2>1, <2>2, <2>3, <2>4, <2>5, Edi_Goes
<1>5. QED
  BY <1>1, <1>3, <1>4

\* What WriteToken writes: the insert takes a free slot, the update every slot that is taken.
LEMMA Edi_WriteTokenStep ==
  ASSUME Edi_Inv, NEW u \in Edi_Users, Edi!WriteToken(u)
  PROVE  Edi_Inv'
<1> DEFINE f == Edi_page[u]
<1>1. /\ f.at \in {"replace", "insert"} /\ UNCHANGED <<Edi_row, Edi_routed, Edi_want, Edi_ops>>
      /\ f.at = "insert" /\ Edi!Exists =>
           \E s \in Edi!Slots : Edi_tokens[s] = Edi!None /\
                Edi_tokens' = [Edi_tokens EXCEPT ![s] = f.val]
      /\ f.at = "insert" /\ ~Edi!Exists => Edi_tokens' = Edi_tokens
      /\ f.at = "replace" =>
           Edi_tokens' = [s \in Edi!Slots |-> IF Edi_tokens[s] = Edi!None THEN Edi!None ELSE f.val]
      /\ \/ f.kind = "wizard" /\ Edi!Ends(u) /\ Edi_muddled' = Edi_muddled
         \/ f.kind # "wizard" /\ Edi!Exists /\ Edi!Goes(u, "update") /\ Edi_muddled' = Edi_muddled
         \/ ~Edi!Exists /\ Edi!Fails(u)
  BY DEF Edi!WriteToken
<1>2. f \in Edi_Pages /\ Edi_PageOK(f) /\ Edi_tokens \in [Edi!Slots -> Edi_Vals]
  BY DEF Edi_Inv, Edi_Types
<1>3. /\ f.col = "token" /\ f.kind \in {"settings", "wizard"} /\ f.val # Edi!None
      /\ f.val \in Edi_Vals
      /\ f.kind = "settings" => f.shown["token"] = f.val
  BY <1>1, <1>2 DEF Edi_PageOK, Edi_Pages
<1>4. ~Edi!Exists => Edi_tokens' = Edi_tokens
  <2>1. ~Edi!Exists => \A s \in Edi!Slots : Edi_tokens[s] = Edi!None
    BY DEF Edi_Inv, Edi!NothingOutlives, Edi!HasToken
  <2>2. ~Edi!Exists /\ f.at = "replace" => Edi_tokens' = Edi_tokens
    BY <1>1, <1>2, <2>1
  <2>3. QED
    BY <1>1, <2>2
<1>5. CASE ~Edi!Exists /\ Edi!Fails(u)
  BY <1>1, <1>4, <1>5, Edi_FailStep
<1>6. Edi_tokens' \in [Edi!Slots -> Edi_Vals]
  <2>1. CASE f.at = "replace"
    BY <1>1, <1>2, <1>3, <2>1 DEF Edi_Vals
  <2>2. CASE f.at = "insert"
    BY <1>1, <1>2, <1>3, <2>2
  <2>3. QED
    BY <1>1, <2>1, <2>2
<1>7. /\ Edi_row' \in [Edi!Columns -> Edi_Vals]
      /\ Edi_want' \in [Edi!Columns \cup {"token"} -> Edi_Vals]
      /\ Edi!Exists' = Edi!Exists /\ (Edi!Exists => Edi_row'["name"] # Edi!None)
  BY <1>1 DEF Edi_Inv, Edi_Types, Edi!Exists
<1>8. \A v : v = f.val /\ Edi!Exists /\ Edi_HalfDone(f) => Edi_TokenIs(v)'
  <2> SUFFICES ASSUME NEW v, v = f.val, Edi!Exists, Edi_HalfDone(f)
               PROVE  Edi_TokenIs(v)'
    OBVIOUS
  <2>1. CASE f.at = "insert"
    <3>1. Edi_TokenIs(Edi!None)
      BY <2>1 DEF Edi_HalfDone
    <3>2. PICK s \in Edi!Slots : Edi_tokens' = [Edi_tokens EXCEPT ![s] = f.val]
      BY <1>1, <2>1
    <3>3. Edi_tokens'[s] = v /\ \A t \in Edi!Slots \ {s} : Edi_tokens'[t] = Edi!None
      BY <1>2, <3>1, <3>2 DEF Edi_TokenIs
    <3>4. QED
      BY <3>3 DEF Edi_TokenIs
  <2>2. CASE f.at = "replace"
    <3>1. ~Edi_TokenIs(Edi!None) /\ Edi_TokenIs(Edi_want["token"])
      BY <1>3, <2>2 DEF Edi_HalfDone
    <3>2. \A s \in Edi!Slots : Edi_tokens'[s] = IF Edi_tokens[s] = Edi!None THEN Edi!None ELSE v
      BY <1>1, <2>2
    <3>3. PICK s \in Edi!Slots : Edi_tokens[s] # Edi!None
      BY <3>1 DEF Edi_TokenIs
    <3>4. Edi_tokens'[s] = v /\ \A t \in Edi!Slots \ {s} : Edi_tokens'[t] = Edi!None
      BY <3>1, <3>2, <3>3 DEF Edi_TokenIs
    <3>5. QED
      BY <3>4 DEF Edi_TokenIs
  <2>3. QED
    BY <1>1, <2>1, <2>2
<1>9. ~Edi!Exists => \A s \in Edi!Slots : Edi_tokens[s] = Edi!None => Edi_tokens'[s] = Edi!None
  BY <1>4
<1>10. Edi_HalfDone(f) =>
         /\ \A c \in Edi!Columns \ {"web", "name"} : Edi_Same(c)'
         /\ Edi_Same("name")'
  BY <1>1 DEF Edi_HalfDone, Edi_Same
<1>11. CASE f.kind = "wizard" /\ Edi!Ends(u) /\ Edi_muddled' = Edi_muddled
  <2>1. Edi_page' = [Edi_page EXCEPT ![u] = Edi!Closed]
    BY <1>11 DEF Edi!Ends
  <2>2. ASSUME Edi_HalfDone(f)
        PROVE  Edi_Settled'
    <3>1. Edi!Exists /\ Edi_want["token"] = f.val
      BY <1>1, <1>11, <2>2 DEF Edi_HalfDone
    <3>2. \A v : v = f.val => Edi_TokenIs(v)'
      BY <1>8, <2>2, <3>1
    <3>3. \A c \in Edi!Columns \ {"web"} : Edi_Same(c)'
      BY <1>10, <2>2
    <3>4. QED
      BY <1>1, <3>1, <3>2, <3>3 DEF Edi_Settled, Edi_TokenIs
  <2>3. QED
    BY <1>1, <1>6, <1>7, <1>9, <1>11, <2>1, <2>2, Edi_ClosedIs, Edi_Goes
<1>12. CASE f.kind # "wizard" /\ Edi!Exists /\ Edi!Goes(u, "update") /\ Edi_muddled' = Edi_muddled
  <2>1. PICK p \in Edi_Pages :
          /\ Edi_page' = [Edi_page EXCEPT ![u] = p] /\ p.at = "update" /\ p.kind = f.kind
          /\ p.shown = f.shown /\ p.col = f.col /\ p.val = f.val /\ p.read = f.read
    BY <1>12, Edi_GoesTo DEF Edi_Inv
  <2>2. Edi_PageOK(p)
    BY <1>1, <1>2, <1>3, <1>12, <2>1, Edi_TabsAre DEF Edi_PageOK
  <2>3. ASSUME Edi_HalfDone(f)
        PROVE  Edi_HalfDone(p)'
    <3>1. \A v : v = f.val => Edi_TokenIs(v)'
      BY <1>8, <1>12, <2>3
    <3>2. \A c \in Edi!OwnedBy[p.kind] \ {"token", p.col} : p.shown[c] = Edi_row'[c]
      BY <1>1, <1>12, <2>1, <2>3 DEF Edi_HalfDone
    <3>3. QED
      BY <1>3, <1>10, <2>1, <2>3, <3>1, <3>2 DEF Edi_HalfDone
  <2>4. QED
    BY <1>1, <1>6, <1>7, <1>9, <1>12, <2>1, <2>2, <2>3, Edi_Goes
<1>13. QED
  BY <1>1, <1>5, <1>11, <1>12

\* The whole row is written with what the form shows, or the one column; that ends the request.
LEMMA Edi_UpdateStep ==
  ASSUME Edi_Inv, NEW u \in Edi_Users, Edi!Update(u)
  PROVE  Edi_Inv'
<1> DEFINE f == Edi_page[u]
<1>1. /\ f.at = "update" /\ UNCHANGED <<Edi_tokens, Edi_routed, Edi_ops>>
      /\ \/ ~Edi!Exists /\ Edi!Fails(u) /\ UNCHANGED <<Edi_row, Edi_want>>
         \/ /\ Edi!Exists /\ Edi_page' = [Edi_page EXCEPT ![u] = Edi!Closed]
            /\ Edi_row' = IF f.kind = "settings" THEN Edi!Settings(f) ELSE [Edi_row EXCEPT ![f.col] = f.val]
            /\ Edi_want' = [Edi_want EXCEPT ![f.col] = f.val] /\ Edi_muddled' = Edi_muddled
  BY DEF Edi!Update, Edi!Meant, Edi!Ends
<1>2. /\ f \in Edi_Pages /\ Edi_PageOK(f) /\ Edi_row \in [Edi!Columns -> Edi_Vals]
      /\ Edi_want \in [Edi!Columns \cup {"token"} -> Edi_Vals]
      /\ Edi_tokens' \in [Edi!Slots -> Edi_Vals]
  BY <1>1 DEF Edi_Inv, Edi_Types
<1>3. CASE ~Edi!Exists /\ Edi!Fails(u) /\ UNCHANGED <<Edi_row, Edi_want>>
  BY <1>1, <1>3, Edi_FailStep
<1>4. CASE /\ Edi!Exists /\ Edi_page' = [Edi_page EXCEPT ![u] = Edi!Closed]
           /\ Edi_row' = IF f.kind = "settings" THEN Edi!Settings(f) ELSE [Edi_row EXCEPT ![f.col] = f.val]
           /\ Edi_want' = [Edi_want EXCEPT ![f.col] = f.val] /\ Edi_muddled' = Edi_muddled
  <2>1. /\ f.kind \in {"settings", "resources"} /\ f.col \in Edi!OwnedBy[f.kind]
        /\ f.shown[f.col] = f.val
        /\ f.val \in Edi_Vals /\ f.shown \in [Edi!Columns \cup {"token"} -> Edi_Vals]
        /\ f.col \in Edi!Columns \cup {"token"}
    BY <1>1, <1>2, Edi_TabsAre DEF Edi_PageOK, Edi_Pages
  <2>2. f.kind = "resources" => f.col = "limits"
    BY <2>1, Edi_TabsAre
  <2>3. /\ Edi_want' \in [Edi!Columns \cup {"token"} -> Edi_Vals] /\ Edi_want'[f.col] = f.val
        /\ \A c \in (Edi!Columns \cup {"token"}) \ {f.col} : Edi_want'[c] = Edi_want[c]
    BY <1>2, <1>4, <2>1
  <2>4. Edi!Columns = {"name", "ref", "file", "run", "web", "limits", "svcLimits", "svcHealth"}
    BY DEF Edi!Columns, Edi!SettingsColumns
  <2>5. f.kind = "settings" =>
          /\ Edi_row' \in [Edi!Columns -> Edi_Vals]
          /\ Edi_row'["ref"] = f.shown["ref"] /\ Edi_row'["file"] = f.shown["file"]
          /\ Edi_row'["run"] = (IF f.shown["run"] = Edi!None THEN Edi_row["run"] ELSE f.shown["run"])
          /\ \A c \in Edi!Columns \ {"ref", "file", "run", "web"} : Edi_row'[c] = Edi_row[c]
    <3>1. Edi!None \in Edi_Vals
      BY DEF Edi_Vals
    <3>2. f.kind = "settings" =>
            Edi_row' = [[[[Edi_row EXCEPT !["ref"] = f.shown["ref"]] EXCEPT !["file"] = f.shown["file"]]
                           EXCEPT !["web"] = Edi!None]
                           EXCEPT !["run"] = IF f.shown["run"] = Edi!None THEN Edi_row["run"]
                                             ELSE f.shown["run"]]
      BY <1>2, <1>4, <2>4 DEF Edi!Settings
    <3>3. QED
      BY <1>2, <2>1, <2>4, <3>1, <3>2
  <2>6. f.kind = "resources" =>
          /\ Edi_row' \in [Edi!Columns -> Edi_Vals] /\ Edi_row'["limits"] = f.val
          /\ \A c \in Edi!Columns \ {"limits"} : Edi_row'[c] = Edi_row[c]
    BY <1>2, <1>4, <2>1, <2>2, <2>4
  <2>7. Edi_row' \in [Edi!Columns -> Edi_Vals] /\ Edi_row'["name"] = Edi_row["name"]
    BY <2>1, <2>4, <2>5, <2>6
  <2>8. Edi_row["name"] # Edi!None /\ Edi!Exists'
    <3>1. Edi_row["name"] # Edi!None
      BY <1>4 DEF Edi_Inv
    <3>2. Edi_row' # Edi!Gone
      BY <2>4, <2>7, <3>1, Edi_ClosedIs
    <3>3. QED
      BY <3>1, <3>2 DEF Edi!Exists
  <2>9. ASSUME Edi_HalfDone(f)
        PROVE  Edi_Settled'
    <3>1. /\ \A c \in Edi!Columns \ {"web", "name"} : Edi_Same(c)
          /\ f.col = "name" => Edi_row["name"] = f.val
          /\ f.col # "name" => Edi_Same("name")
          /\ f.col = "token" => Edi_TokenIs(f.val)
          /\ f.col # "token" => Edi_TokenIs(Edi_want["token"])
          /\ \A c \in Edi!OwnedBy[f.kind] \ {"token", f.col} : f.shown[c] = Edi_row[c]
      BY <1>1, <2>1, <2>9 DEF Edi_HalfDone
    <3>2. \A v : v = Edi_want'["token"] => Edi_TokenIs(v)'
      <4>1. f.col = "token" => Edi_TokenIs(Edi_want'["token"])
        BY <2>3, <3>1
      <4>2. f.col # "token" => Edi_TokenIs(Edi_want'["token"])
        BY <2>3, <3>1
      <4>3. QED
        BY <1>1, <4>1, <4>2 DEF Edi_TokenIs
    <3>3. \A c \in Edi!Columns \ {"web"} : c # f.col => Edi_want'[c] = Edi_want[c]
      BY <2>3
    <3>4. ASSUME f.kind = "settings"
          PROVE  \A c \in Edi!Columns \ {"web"} : Edi_Same(c)'
      <4>1. f.col \in {"name", "ref", "file", "run", "token"}
        BY <2>1, <3>4, Edi_TabsAre DEF Edi!SettingsColumns
      <4>2. \A c \in {"name", "ref", "file", "run"} \ {f.col} : f.shown[c] = Edi_row[c]
        BY <3>1, <3>4, Edi_TabsAre DEF Edi!SettingsColumns
      <4>3. Edi_Same("name")'
        BY <2>3, <2>4, <2>7, <3>1, <3>3 DEF Edi_Same
      <4>4. Edi_Same("ref")' /\ Edi_Same("file")'
        BY <2>1, <2>3, <2>4, <2>5, <3>1, <3>3, <3>4, <4>2 DEF Edi_Same
      <4>5. Edi_Same("run")'
        BY <2>1, <2>3, <2>4, <2>5, <3>1, <3>3, <3>4, <4>2 DEF Edi_Same
      <4>6. \A c \in {"limits", "svcLimits", "svcHealth"} : Edi_Same(c)'
        BY <2>4, <2>5, <3>1, <3>3, <3>4, <4>1 DEF Edi_Same
      <4>7. QED
        BY <2>4, <4>3, <4>4, <4>5, <4>6
    <3>5. ASSUME f.kind = "resources"
          PROVE  \A c \in Edi!Columns \ {"web"} : Edi_Same(c)'
      <4>1. \A c \in Edi!Columns \ {"web", "limits"} : Edi_Same(c)'
        BY <2>2, <2>4, <2>6, <3>1, <3>3, <3>5 DEF Edi_Same
      <4>2. Edi_Same("limits")'
        BY <2>2, <2>3, <2>6, <3>5 DEF Edi_Same
      <4>3. QED
        BY <4>1, <4>2
    <3>6. QED
      BY <2>1, <3>2, <3>4, <3>5 DEF Edi_Settled
  <2>10. QED
    BY <1>1, <1>2, <1>4, <2>3, <2>7, <2>8, <2>9, Edi_ClosedIs, Edi_Goes
<1>5. QED
  BY <1>1, <1>3, <1>4

\* What was read and the one entry the tab sent are written back; that ends the request.
LEMMA Edi_WriteServicesStep ==
  ASSUME Edi_Inv, NEW u \in Edi_Users, Edi!WriteServices(u)
  PROVE  Edi_Inv'
<1> DEFINE f == Edi_page[u]
           S == {"svcLimits", "svcHealth"}
<1>1. /\ f.at = "merge" /\ f.read # Edi!Gone /\ UNCHANGED <<Edi_tokens, Edi_routed, Edi_ops>>
      /\ \/ ~Edi!Exists /\ Edi!Fails(u) /\ UNCHANGED <<Edi_row, Edi_want>>
         \/ /\ Edi!Exists /\ Edi_page' = [Edi_page EXCEPT ![u] = Edi!Closed]
            /\ Edi_row' = [c \in Edi!Columns |-> IF c \in S THEN Edi!Merged(f)[c] ELSE Edi_row[c]]
            /\ Edi_want' = [Edi_want EXCEPT ![f.col] = f.val] /\ Edi_muddled' = Edi_muddled
  BY DEF Edi!WriteServices, Edi!Meant, Edi!Ends
<1>2. /\ f \in Edi_Pages /\ Edi_PageOK(f) /\ Edi_row \in [Edi!Columns -> Edi_Vals]
      /\ Edi_want \in [Edi!Columns \cup {"token"} -> Edi_Vals]
      /\ Edi_tokens' \in [Edi!Slots -> Edi_Vals]
  BY <1>1 DEF Edi_Inv, Edi_Types
<1>3. CASE ~Edi!Exists /\ Edi!Fails(u) /\ UNCHANGED <<Edi_row, Edi_want>>
  BY <1>1, <1>3, Edi_FailStep
<1>4. CASE /\ Edi!Exists /\ Edi_page' = [Edi_page EXCEPT ![u] = Edi!Closed]
           /\ Edi_row' = [c \in Edi!Columns |-> IF c \in S THEN Edi!Merged(f)[c] ELSE Edi_row[c]]
           /\ Edi_want' = [Edi_want EXCEPT ![f.col] = f.val] /\ Edi_muddled' = Edi_muddled
  <2>1. f.kind \in Edi!Compose /\ f.kind # "wizard" /\ f.col \in S /\ f.val \in Edi_Vals
        /\ f.read \in [Edi!Columns -> Edi_Vals]
    BY <1>1, <1>2, Edi_TabsAre DEF Edi_PageOK, Edi_Pages, Edi!Compose
  <2>2. Edi!Columns = {"name", "ref", "file", "run", "web", "limits", "svcLimits", "svcHealth"}
    BY DEF Edi!Columns, Edi!SettingsColumns
  <2>3. /\ Edi_want' \in [Edi!Columns \cup {"token"} -> Edi_Vals] /\ Edi_want'[f.col] = f.val
        /\ \A c \in (Edi!Columns \cup {"token"}) \ {f.col} : Edi_want'[c] = Edi_want[c]
    BY <1>2, <1>4, <2>1, <2>2
  <2>4. \A c \in S : Edi!Merged(f)[c] = (IF c = f.col THEN f.val ELSE f.read[c])
    BY DEF Edi!Merged
  <2>5. /\ Edi_row' \in [Edi!Columns -> Edi_Vals] /\ Edi_row'[f.col] = f.val
        /\ \A c \in S \ {f.col} : Edi_row'[c] = f.read[c]
        /\ \A c \in Edi!Columns \ S : Edi_row'[c] = Edi_row[c]
    <3>1. \A c \in Edi!Columns : Edi_row'[c] = IF c \in S THEN Edi!Merged(f)[c] ELSE Edi_row[c]
      BY <1>4
    <3>2. \A c \in Edi!Columns : (IF c \in S THEN Edi!Merged(f)[c] ELSE Edi_row[c]) \in Edi_Vals
      BY <1>2, <2>1, <2>2, <2>4
    <3>3. QED
      BY <1>4, <2>1, <2>2, <2>4, <3>1, <3>2
  <2>6. Edi_row["name"] # Edi!None /\ Edi_row'["name"] # Edi!None /\ Edi!Exists'
    <3>1. Edi_row["name"] # Edi!None
      BY <1>4 DEF Edi_Inv
    <3>2. Edi_row' # Edi!Gone /\ Edi_row'["name"] # Edi!None
      BY <2>2, <2>5, <3>1, Edi_ClosedIs
    <3>3. QED
      BY <3>1, <3>2 DEF Edi!Exists
  <2>7. ASSUME Edi_HalfDone(f)
        PROVE  Edi_Settled'
    <3>1. /\ \A c \in Edi!Columns \ {"web"} : Edi_Same(c)
          /\ Edi_TokenIs(Edi_want["token"]) /\ f.read = Edi_row
      BY <1>1, <2>1, <2>7 DEF Edi_HalfDone
    <3>2. \A c \in Edi!Columns \ {f.col} : Edi_row'[c] = Edi_row[c]
      BY <2>5, <3>1
    <3>3. \A c \in Edi!Columns \ {"web"} : Edi_Same(c)'
      BY <2>1, <2>3, <2>5, <3>1, <3>2 DEF Edi_Same
    <3>4. Edi_want'["token"] = Edi_want["token"]
      BY <2>1, <2>3
    <3>5. \A v : v = Edi_want'["token"] => Edi_TokenIs(v)'
      BY <1>1, <3>1, <3>4 DEF Edi_TokenIs
    <3>6. QED
      BY <3>3, <3>5 DEF Edi_Settled
  <2>8. QED
    BY <1>1, <1>2, <1>4, <2>3, <2>5, <2>6, <2>7, Edi_ClosedIs, Edi_Goes
<1>5. QED
  BY <1>1, <1>3, <1>4

LEMMA Edi_Step ==
  ASSUME Edi_Inv, Edi!Next
  PROVE  Edi_Inv'
<1>1. PICK u \in Edi_Users :
        \/ \E web, token \in {Edi!None, "x"} : Edi!Create(u, web, token)
        \/ \E kind \in Edi!Kinds : Edi!OpenForm(u, kind)
        \/ \E col \in Edi!Columns \cup {"token"} : \E val \in Edi!Domain(col) : Edi!Submit(u, col,
             val)
        \/ Edi!CreateDomain(u) \/ Edi!Remove(u) \/ Edi!Rename(u) \/ Edi!FindToken(u)
        \/ Edi!WriteToken(u) \/ Edi!Update(u) \/ Edi!ReadServices(u) \/ Edi!WriteServices(u)
  BY DEF Edi!Next
<1>2. CASE \E web, token \in {Edi!None, "x"} : Edi!Create(u, web, token)
  BY <1>2, Edi_CreateStep
<1>3. CASE \E kind \in Edi!Kinds : Edi!OpenForm(u, kind)
  BY <1>3, Edi_OpenStep
<1>4. CASE \E col \in Edi!Columns \cup {"token"} : \E val \in Edi!Domain(col) : Edi!Submit(u, col,
        val)
  BY <1>4, Edi_SubmitStep
<1>5. CASE Edi!CreateDomain(u) \/ Edi!Remove(u) \/ Edi!Rename(u) \/ Edi!FindToken(u)
  BY <1>5, Edi_CreateDomainStep, Edi_RemoveStep, Edi_RenameStep, Edi_FindTokenStep
<1>6. CASE Edi!WriteToken(u) \/ Edi!Update(u) \/ Edi!ReadServices(u) \/ Edi!WriteServices(u)
  BY <1>6, Edi_WriteTokenStep, Edi_UpdateStep, Edi_ReadServicesStep, Edi_WriteServicesStep
<1>7. QED
  BY <1>1, <1>2, <1>3, <1>4, <1>5, <1>6

\* Saves are exact as long as requests come one after another and none fails, and nothing of
\* a deployment outlives it, for any users and any bound.
THEOREM Edits_Hold == SumSpec => []EditsInv
<1>1. SumInit => Edi_Inv
  BY Edi_Init, RecordsAssumption DEF SumInit
<1>2. [SumNext]_allVars => [Edi!Next]_Edi!vars
  BY DEF SumNext, allVars, editsVars, Edi!vars
<1>3. Edi_Inv /\ [Edi!Next]_Edi!vars => Edi_Inv'
  <2>1. ASSUME Edi_Inv, UNCHANGED Edi!vars
        PROVE  Edi_Inv'
    BY <2>1 DEF Edi!vars, Edi_Inv, Edi_Assumption, Edi_Types, Edi_PageOK, Edi_OrderOK, Edi_HalfDone,
       Edi_Settled, Edi_Same, Edi_TokenIs, Edi!Exists, Edi!NothingOutlives, Edi!HasToken,
            Edi!InFlight
  <2>2. QED
    BY <2>1, Edi_Step
<1>4. Edi_Inv => EditsInv
  <2> SUFFICES ASSUME Edi_Inv
               PROVE  Edi!EditsInv
    BY DEF EditsInv
  <2>1. Edi!TypeOK
    <3>1. \A u \in Edi_Users : Edi_page[u] \in Edi_Pages
      BY DEF Edi_Inv, Edi_Types
    <3>2. \A u \in Edi_Users :
            /\ Edi_page[u].at \in {"closed", "open", "domain", "rename", "token", "insert",
                 "replace",
                 "update", "merge"}
            /\ Edi_page[u].kind \in Edi!Kinds \cup {Edi!None, "wizard"}
            /\ Edi_page[u].col \in Edi!Columns \cup {Edi!None, "token"}
            /\ Edi_page[u].val \in Edi!Values \cup {Edi!None}
      BY <3>1 DEF Edi_Pages, Edi_Vals
    <3>3. QED
      BY <3>2 DEF Edi!TypeOK, Edi_Inv, Edi_Types, Edi_Vals
  <2>2. Edi!SavesAreExact
    <3> SUFFICES ASSUME Edi!Quiet, ~Edi_muddled
                 PROVE  /\ \A c \in Edi!Columns \ {"web"} :
                             Edi_row[c] = Edi_want[c] \/ (c = "run" /\ Edi_want[c] = Edi!None)
                        /\ Edi!Token = Edi_want["token"]
                        /\ Edi!Cardinality({s \in Edi!Slots : Edi_tokens[s] # Edi!None}) <= 1
      BY DEF Edi!SavesAreExact
    <3>1. Edi_Settled /\ Edi_Types
      BY DEF Edi_Inv, Edi_OrderOK, Edi!Quiet
    <3>2. QED
      BY <3>1, Edi_TokenIsIt DEF Edi_Settled, Edi_Same
  <2>3. QED
    BY <2>1, <2>2 DEF Edi!EditsInv, Edi_Inv
<1>5. QED
  BY <1>1, <1>2, <1>3, <1>4, PTL DEF SumSpec

-----------------------------------------------------------------------------
(***************************************************************************)
(* FileManager.  As long as the user has done nothing the panel is known not   *)
(* to withstand, at most one chain is under way: the listings match the volume  *)
(* but for what that chain has written, and so do the tabs but for those it      *)
(* is about to close or to mark as saved.                                        *)
(***************************************************************************)

Fil_Dirs == {<<>>} \cup {p \in Fil!Paths : Len(p) = 1}
Fil_AllDirs == {<<>>} \cup Fil!Paths
Fil_Tabs == [content : Fil_Texts, original : Fil_Texts, loading : BOOLEAN, error : BOOLEAN]
Fil_Waiting ==
  [kind : Fil!Kinds \cup {"none"}, path : Fil_AllDirs, to : Fil_AllDirs,
   text : Fil_Texts \cup {"clash"}, dirs : SUBSET Fil_AllDirs,
   at : {"idle", "sent", "done", "reload"}, ok : BOOLEAN]
Fil_Listed ==
  [kind : Fil!Kinds \cup {"none"}, path : Fil_AllDirs, to : Fil_AllDirs,
   text : Fil_Texts \cup {"clash"}, dirs : SUBSET (Fil_AllDirs \X SUBSET Fil_Names),
   at : {"reloaded"}, ok : BOOLEAN]
Fil_Op(o) ==
  /\ IF o.at = "reloaded" THEN o \in Fil_Listed ELSE o \in Fil_Waiting
  /\ o.kind = "none" => o = Fil!NoOp
  /\ o.kind \notin {"none", "load", "refresh"} => o.path \in Fil!Paths
  /\ o.kind \in {"read", "save", "newFile", "upload"} => o.text \in Fil_Texts
  /\ o.kind = "check" => o.to \in Fil_Dirs
  /\ o.kind \in {"rename", "move", "replace"} => o.to \in Fil!Paths

\* A volume: every folder on the way to an entry is there.
Fil_Volume(v) == DOMAIN v \subseteq Fil!Paths /\ \A p \in DOMAIN v : v[p] \in Fil!Nodes
Fil_DirIn(v, d) == d = <<>> \/ (d \in DOMAIN v /\ v[d] = "<dir>")
Fil_FileIn(v, p) == p \in DOMAIN v /\ v[p] # "<dir>"
Fil_ListIn(v, d) == {Fil!baseOf(p) : p \in {q \in DOMAIN v : Fil!dirOf(q) = d}}
Fil_InsideOf(v, path) == {p \in DOMAIN v : Fil!IsPrefix(path, p)}
Fil_TargetIn(v, from, to) ==
  IF Fil_DirIn(v, to) THEN Fil!joinPath(to, Fil!baseOf(from)) ELSE to
Fil_Rooted(v) == \A p \in DOMAIN v : Fil_DirIn(v, Fil!dirOf(p))

Fil_Tree(r) == \A d \in DOMAIN r : d \in Fil_AllDirs /\ r[d] \subseteq Fil_Names
Fil_TabsIn(f) == \A p \in DOMAIN f : p \in Fil!Paths /\ f[p] \in Fil_Tabs
Fil_Ops(g) == DOMAIN g = Fil_Slots /\ \A s \in Fil_Slots : Fil_Op(g[s])
Fil_Types ==
  /\ Fil_Volume(Fil_volume) /\ Fil_Rooted(Fil_volume) /\ Fil_Tree(Fil_tree)
  /\ Fil_TabsIn(Fil_tabs) /\ DOMAIN Fil_saved = DOMAIN Fil_tabs
  /\ Fil_Ops(Fil_op) /\ Fil_ops \in 0..Fil_MaxOps

\* A request that was answered, and the move of a replacement.
Fil_Landed(o) == o.at = "done" /\ o.ok
Fil_Replacing(o) == o.kind = "move" /\ o.text = "clash"
Fil_Writers == {"save", "newFile", "newFolder", "upload", "rename", "move", "replace", "delete"}

\* The listings are to be read again.
Fil_Stale(o) ==
  \/ o.at \in {"reload", "reloaded"} /\ o.kind # "load"
  \/ Fil_Landed(o) /\ o.kind \in Fil_Writers
  \/ Fil_Replacing(o)
Fil_TreeOK(v, r, o) ==
  ~Fil_Stale(o) => \A d \in DOMAIN r : Fil_DirIn(v, d) => r[d] = Fil_ListIn(v, d)

\* The tab of p is about to be closed or marked as saved.
Fil_Apart(o, p) ==
  \/ Fil_Landed(o) /\ o.kind \in {"save", "rename", "delete", "move"} /\ p = o.path
  \/ Fil_Landed(o) /\ o.kind = "replace" /\ Fil!IsPrefix(o.to, p)
  \/ Fil_Replacing(o) /\ o.at \in {"sent", "done"} /\ p = o.to
Fil_TabsOK(v, f, o) ==
  \A p \in DOMAIN f :
    ~f[p].loading /\ ~f[p].error /\ ~Fil_Apart(o, p)
      => Fil_FileIn(v, p) /\ v[p] = f[p].original

\* The folders a chain lists again, and their listings.
Fil_DirsOK(v, r, o) ==
  /\ o.at \in {"sent", "done", "reload"} /\ o.kind \notin {"none", "read"} => o.dirs = DOMAIN r
  /\ o.at = "reload" => o.kind \notin {"none", "read", "load"}
  /\ o.at = "reloaded" /\ o.kind = "load" => o.dirs \subseteq {<<o.path, Fil_ListIn(v, o.path)>>}
  /\ o.at = "reloaded" /\ o.kind # "load"
       => o.dirs = {<<d, Fil_ListIn(v, d)>> : d \in {e \in DOMAIN r : Fil_DirIn(v, e)}}

\* A text under way: it is the tab's, and the file's once the request has landed.
Fil_TextOK(v, f, o) ==
  /\ o.kind = "save" /\ o.at \in {"sent", "done"} /\ o.path \in DOMAIN f =>
       /\ ~f[o.path].loading /\ ~f[o.path].error
       /\ f[o.path].content = o.text
  /\ o.kind \in {"save", "read"} /\ Fil_Landed(o) => Fil_FileIn(v, o.path) /\ v[o.path] = o.text

\* Where a chain writes, it writes under no tab; a new folder is new and empty.
Fil_PlaceOK(v, f, o) ==
  /\ o.kind \in {"newFile", "upload"} /\ o.at = "sent" => o.path \notin DOMAIN f
  /\ o.kind = "newFolder" /\ o.at = "sent" => ~Fil_DirIn(v, o.path)
  /\ o.kind = "newFolder" /\ (Fil_Landed(o) \/ o.at \in {"reload", "reloaded"})
       => Fil_DirIn(v, o.path) /\ Fil_ListIn(v, o.path) = {}

\* An entry that is moved carries no tab but its own, and lands on none.
Fil_Carries(o) ==
  \/ o.kind \in {"delete", "rename", "check", "move"} /\ o.at = "sent"
  \/ o.kind = "check" /\ o.at = "done"
  \/ o.kind = "replace"
Fil_MoveOK(v, f, o) ==
  /\ Fil_Carries(o) => Fil_InsideOf(v, o.path) \cap DOMAIN f \subseteq {o.path}
  /\ o.kind = "rename" /\ o.at = "sent" => Fil_TargetIn(v, o.path, o.to) \notin DOMAIN f
  /\ o.kind = "check" /\ Fil_Landed(o) /\ o.text # "clash"
       => Fil!joinPath(o.to, Fil!baseOf(o.path)) \notin DOMAIN v
  /\ o.kind = "move" /\ o.at = "sent" => o.to \notin DOMAIN v
  /\ o.kind = "replace" => o.text = "clash" /\ (Fil_Landed(o) => o.to \notin DOMAIN v)

Fil_Good(v, r, f, o) ==
  /\ Fil_TreeOK(v, r, o) /\ Fil_TabsOK(v, f, o) /\ Fil_DirsOK(v, r, o)
  /\ Fil_TextOK(v, f, o) /\ Fil_PlaceOK(v, f, o) /\ Fil_MoveOK(v, f, o)
Fil_Only(g, s) == \A t \in Fil_Slots : t # s => g[t] = Fil!NoOp
Fil_Safe ==
  \E s \in Fil_Slots :
    Fil_Only(Fil_op, s) /\ Fil_Good(Fil_volume, Fil_tree, Fil_tabs, Fil_op[s])
Fil_Inv == Fil_Assumption /\ Fil_Types /\ (Fil_careless = {} => Fil_Safe)

\* Paths have one name or two.
LEMMA Fil_InPaths ==
  \A p : p \in Fil!Paths <=>
    (\E n \in Fil_Names : p = <<n>>) \/ (\E m, n \in Fil_Names : p = <<m, n>>)
  BY DEF Fil!Paths

LEMMA Fil_Seqs ==
  /\ \A n \in Fil_Names : <<n>> \in Seq(Fil_Names) /\ Len(<<n>>) = 1 /\ <<n>> # <<>>
  /\ \A m, n \in Fil_Names : <<m, n>> \in Seq(Fil_Names) /\ Len(<<m, n>>) = 2 /\ <<m, n>> # <<>>
  OBVIOUS

LEMMA Fil_PathSeq ==
  \A p \in Fil!Paths : p \in Seq(Fil_Names) /\ (Len(p) = 1 \/ Len(p) = 2) /\ p # <<>>
<1> SUFFICES ASSUME NEW p \in Fil!Paths
             PROVE  p \in Seq(Fil_Names) /\ (Len(p) = 1 \/ Len(p) = 2) /\ p # <<>>
  OBVIOUS
<1>1. ASSUME NEW n \in Fil_Names, p = <<n>>
      PROVE  p \in Seq(Fil_Names) /\ Len(p) = 1 /\ p # <<>>
  BY <1>1, Fil_Seqs
<1>2. ASSUME NEW m \in Fil_Names, NEW n \in Fil_Names, p = <<m, n>>
      PROVE  p \in Seq(Fil_Names) /\ Len(p) = 2 /\ p # <<>>
  BY <1>2, Fil_Seqs
<1> QED BY <1>1, <1>2, Fil_InPaths

LEMMA Fil_InDirs == \A d : d \in Fil_Dirs <=> d = <<>> \/ \E n \in Fil_Names : d = <<n>>
<1>1. \A n \in Fil_Names : <<n>> \in Fil_Dirs
  BY Fil_InPaths, Fil_Seqs DEF Fil_Dirs
<1>2. \A m, n \in Fil_Names : Len(<<m, n>>) # 1
  BY Fil_Seqs
<1>3. \A p \in Fil!Paths : Len(p) = 1 => \E n \in Fil_Names : p = <<n>>
  BY <1>2, Fil_InPaths
<1> QED BY <1>1, <1>3 DEF Fil_Dirs

LEMMA Fil_OneParts ==
  \A n \in Fil_Names :
    Fil!dirOf(<<n>>) = <<>> /\ Fil!baseOf(<<n>>) = n /\ Fil!joinPath(<<>>, n) = <<n>>
  BY DEF Fil!dirOf, Fil!baseOf, Fil!joinPath, Fil!Front, Fil!Last

LEMMA Fil_TwoDir == \A m, n \in Fil_Names : Fil!dirOf(<<m, n>>) = <<m>>
<1> SUFFICES ASSUME NEW m \in Fil_Names, NEW n \in Fil_Names PROVE Fil!dirOf(<<m, n>>) = <<m>>
  OBVIOUS
<1> DEFINE s == SubSeq(<<m, n>>, 1, 1)
<1>1. s \in Seq(Fil_Names) /\ Len(s) = 1 /\ s[1] = m
  OBVIOUS
<1>2. s = <<m>>
  <2> HIDE DEF s
  <2> QED BY <1>1
<1> QED BY <1>2 DEF Fil!dirOf, Fil!Front

LEMMA Fil_TwoJoin == \A m, n \in Fil_Names : Fil!joinPath(<<m>>, n) = <<m, n>>
<1> SUFFICES ASSUME NEW m \in Fil_Names, NEW n \in Fil_Names PROVE Fil!joinPath(<<m>>, n) = <<m, n>>
  OBVIOUS
<1> DEFINE s == Append(<<m>>, n)
<1>1. s \in Seq(Fil_Names) /\ Len(s) = 2 /\ s[1] = m /\ s[2] = n
  OBVIOUS
<1>2. s = <<m, n>>
  <2> HIDE DEF s
  <2> QED BY <1>1
<1> QED BY <1>2 DEF Fil!joinPath

LEMMA Fil_TwoBase == \A m, n \in Fil_Names : Fil!baseOf(<<m, n>>) = n
  BY DEF Fil!baseOf, Fil!Last

LEMMA Fil_ThreeJoin == \A m, n, k \in Fil_Names : Fil!joinPath(<<m, n>>, k) \notin Fil!Paths
<1> SUFFICES ASSUME NEW m \in Fil_Names, NEW n \in Fil_Names, NEW k \in Fil_Names
             PROVE Fil!joinPath(<<m, n>>, k) \notin Fil!Paths
  OBVIOUS
<1>1. Len(Append(<<m, n>>, k)) = 3
  OBVIOUS
<1>2. ASSUME NEW p \in Fil!Paths PROVE Len(p) # 3
  <2>1. Len(p) = 1 \/ Len(p) = 2
    BY Fil_PathSeq
  <2> QED BY <2>1
<1> QED BY <1>1, <1>2 DEF Fil!joinPath

\* A path is the folder it is in and its name there.
LEMMA Fil_PathParts ==
  \A p \in Fil!Paths :
    /\ Fil!dirOf(p) \in Fil_Dirs /\ Fil!baseOf(p) \in Fil_Names
    /\ Fil!joinPath(Fil!dirOf(p), Fil!baseOf(p)) = p
<1> SUFFICES ASSUME NEW p \in Fil!Paths
             PROVE  /\ Fil!dirOf(p) \in Fil_Dirs /\ Fil!baseOf(p) \in Fil_Names
                    /\ Fil!joinPath(Fil!dirOf(p), Fil!baseOf(p)) = p
  OBVIOUS
<1>1. ASSUME NEW n \in Fil_Names, p = <<n>>
      PROVE  /\ Fil!dirOf(p) \in Fil_Dirs /\ Fil!baseOf(p) \in Fil_Names
             /\ Fil!joinPath(Fil!dirOf(p), Fil!baseOf(p)) = p
  BY <1>1, Fil_OneParts, Fil_InDirs
<1>2. ASSUME NEW m \in Fil_Names, NEW n \in Fil_Names, p = <<m, n>>
      PROVE  /\ Fil!dirOf(p) \in Fil_Dirs /\ Fil!baseOf(p) \in Fil_Names
             /\ Fil!joinPath(Fil!dirOf(p), Fil!baseOf(p)) = p
  BY <1>2, Fil_TwoDir, Fil_TwoBase, Fil_TwoJoin, Fil_InDirs
<1> QED BY <1>1, <1>2, Fil_InPaths

LEMMA Fil_DirKinds == \A d \in Fil_Dirs : d \in Fil_AllDirs /\ (d = <<>> \/ d \in Fil!Paths)
  BY DEF Fil_Dirs, Fil_AllDirs

LEMMA Fil_JoinParts ==
  \A d \in Fil_Dirs, n \in Fil_Names :
    /\ Fil!joinPath(d, n) \in Fil!Paths
    /\ Fil!dirOf(Fil!joinPath(d, n)) = d /\ Fil!baseOf(Fil!joinPath(d, n)) = n
<1> SUFFICES ASSUME NEW d \in Fil_Dirs, NEW n \in Fil_Names
             PROVE  /\ Fil!joinPath(d, n) \in Fil!Paths
                    /\ Fil!dirOf(Fil!joinPath(d, n)) = d /\ Fil!baseOf(Fil!joinPath(d, n)) = n
  OBVIOUS
<1>1. CASE d = <<>>
  BY <1>1, Fil_OneParts, Fil_InPaths
<1>2. ASSUME NEW m \in Fil_Names, d = <<m>>
      PROVE  /\ Fil!joinPath(d, n) \in Fil!Paths
             /\ Fil!dirOf(Fil!joinPath(d, n)) = d /\ Fil!baseOf(Fil!joinPath(d, n)) = n
  BY <1>2, Fil_TwoDir, Fil_TwoBase, Fil_TwoJoin, Fil_InPaths
<1> QED BY <1>1, <1>2, Fil_InDirs

LEMMA Fil_JoinIn ==
  \A t \in Fil!Paths, n \in Fil_Names :
    Fil!joinPath(t, n) \in Fil!Paths =>
      t \in Fil_Dirs /\ Fil!dirOf(Fil!joinPath(t, n)) = t /\ Fil!baseOf(Fil!joinPath(t, n)) = n
<1>1. \A t \in Fil!Paths, n \in Fil_Names : Fil!joinPath(t, n) \in Fil!Paths => t \in Fil_Dirs
  BY Fil_InPaths, Fil_ThreeJoin, Fil_InDirs
<1> QED BY <1>1, Fil_JoinParts

\* No folder holds a folder that holds something.
LEMMA Fil_Depth == \A p, q, r \in Fil!Paths : Fil!dirOf(q) = p => Fil!dirOf(r) # q
<1> SUFFICES ASSUME NEW p \in Fil!Paths, NEW q \in Fil!Paths, NEW r \in Fil!Paths, Fil!dirOf(q) = p,
                    Fil!dirOf(r) = q
             PROVE  FALSE
  OBVIOUS
<1>1. q \in Fil_Dirs
  BY Fil_PathParts
<1>2. \E n \in Fil_Names : q = <<n>>
  BY <1>1, Fil_InDirs, Fil_PathSeq
<1>3. p = <<>>
  BY <1>2, Fil_OneParts
<1> QED BY <1>3, Fil_PathSeq

LEMMA Fil_Prefix11 == \A m, n \in Fil_Names : Fil!IsPrefix(<<m>>, <<n>>) <=> m = n
  BY DEF Fil!IsPrefix
LEMMA Fil_Prefix12 == \A m, n, k \in Fil_Names : Fil!IsPrefix(<<m>>, <<n, k>>) <=> m = n
  BY DEF Fil!IsPrefix
LEMMA Fil_Prefix21 == \A m, n, k \in Fil_Names : ~Fil!IsPrefix(<<n, k>>, <<m>>)
  BY DEF Fil!IsPrefix
LEMMA Fil_Prefix22 ==
  \A m, n, k, l \in Fil_Names : Fil!IsPrefix(<<m, l>>, <<n, k>>) <=> m = n /\ l = k
  BY DEF Fil!IsPrefix
LEMMA Fil_Equal ==
  /\ \A m, n \in Fil_Names : <<m>> = <<n>> <=> m = n
  /\ \A m, n, k, l \in Fil_Names : <<m, l>> = <<n, k>> <=> m = n /\ l = k
  /\ \A m, n, k \in Fil_Names : <<m>> # <<n, k>>
  OBVIOUS

\* What is inside an entry: itself, and what a folder holds.
LEMMA Fil_Prefixes ==
  \A p, q \in Fil!Paths : Fil!IsPrefix(p, q) <=> q = p \/ Fil!dirOf(q) = p
<1> SUFFICES ASSUME NEW p \in Fil!Paths, NEW q \in Fil!Paths
             PROVE  Fil!IsPrefix(p, q) <=> q = p \/ Fil!dirOf(q) = p
  OBVIOUS
<1>1. ASSUME NEW m \in Fil_Names, NEW n \in Fil_Names, p = <<m>>, q = <<n>>
      PROVE  Fil!IsPrefix(p, q) <=> q = p \/ Fil!dirOf(q) = p
  BY <1>1, Fil_Prefix11, Fil_OneParts, Fil_Equal, Fil_PathSeq
<1>2. ASSUME NEW m \in Fil_Names, NEW n \in Fil_Names, NEW k \in Fil_Names, p = <<m>>, q = <<n, k>>
      PROVE  Fil!IsPrefix(p, q) <=> q = p \/ Fil!dirOf(q) = p
  BY <1>2, Fil_Prefix12, Fil_TwoDir, Fil_Equal
<1>3. ASSUME NEW m \in Fil_Names, NEW n \in Fil_Names, NEW k \in Fil_Names, p = <<n, k>>, q = <<m>>
      PROVE  Fil!IsPrefix(p, q) <=> q = p \/ Fil!dirOf(q) = p
  BY <1>3, Fil_Prefix21, Fil_OneParts, Fil_Equal, Fil_PathSeq
<1>4. ASSUME NEW m \in Fil_Names, NEW n \in Fil_Names, NEW k \in Fil_Names, NEW l \in Fil_Names,
             p = <<m, l>>, q = <<n, k>>
      PROVE  Fil!IsPrefix(p, q) <=> q = p \/ Fil!dirOf(q) = p
  BY <1>4, Fil_Prefix22, Fil_TwoDir, Fil_Equal
<1> QED BY <1>1, <1>2, <1>3, <1>4, Fil_InPaths

\* What becomes of the paths inside an entry that is carried to t.
LEMMA Fil_CarriedSelf == \A p, t \in Seq(Fil_Names) : Fil!Carried(p, p, t) = t
  BY DEF Fil!Carried

LEMMA Fil_CarriedChild ==
  \A p, q, t \in Fil!Paths : Fil!dirOf(q) = p =>
       Fil!Carried(q, p, t) = Fil!joinPath(t, Fil!baseOf(q))
<1> SUFFICES ASSUME NEW p \in Fil!Paths, NEW q \in Fil!Paths, NEW t \in Fil!Paths, Fil!dirOf(q) = p
             PROVE  Fil!Carried(q, p, t) = Fil!joinPath(t, Fil!baseOf(q))
  OBVIOUS
<1>1. PICK m \in Fil_Names, n \in Fil_Names : q = <<m, n>>
  BY Fil_InPaths, Fil_OneParts, Fil_PathSeq
<1>2. p = <<m>> /\ Fil!baseOf(q) = n
  BY <1>1, Fil_TwoDir, Fil_TwoBase
<1> DEFINE s == SubSeq(<<m, n>>, 2, 2)
<1>3. s \in Seq(Fil_Names) /\ Len(s) = 1 /\ s[1] = n
  OBVIOUS
<1>4. s = <<n>>
  <2> HIDE DEF s
  <2> QED BY <1>3
<1>5. Len(<<m>>) + 1 = 2 /\ Len(<<m, n>>) = 2
  OBVIOUS
<1>6. Fil!Carried(q, p, t) = t \o <<n>>
  BY <1>1, <1>2, <1>4, <1>5 DEF Fil!Carried
<1>7. t \in Seq(Fil_Names)
  BY Fil_PathSeq
<1>8. t \o <<n>> = Append(t, n)
  BY <1>7, AppendIsConcat
<1> QED BY <1>2, <1>6, <1>8 DEF Fil!joinPath

LEMMA Fil_Views ==
  /\ \A d : Fil!IsDir(d) <=> Fil_DirIn(Fil_volume, d)
  /\ \A p : Fil!IsFile(p) <=> Fil_FileIn(Fil_volume, p)
  /\ \A d : Fil!Listing(d) = Fil_ListIn(Fil_volume, d)
  /\ \A p : Fil!Inside(p) = Fil_InsideOf(Fil_volume, p)
  /\ \A p, t : Fil!Target(p, t) = Fil_TargetIn(Fil_volume, p, t)
<1>1. \A d : Fil!IsDir(d) <=> Fil_DirIn(Fil_volume, d)
  BY DEF Fil!IsDir, Fil_DirIn
<1>2. \A p : Fil!IsFile(p) <=> Fil_FileIn(Fil_volume, p)
  BY DEF Fil!IsFile, Fil_FileIn
<1>3. \A d : Fil!Listing(d) = Fil_ListIn(Fil_volume, d)
  BY DEF Fil!Listing, Fil_ListIn
<1>4. \A p : Fil!Inside(p) = Fil_InsideOf(Fil_volume, p)
  BY DEF Fil!Inside, Fil_InsideOf
<1>5. \A p, t : Fil!Target(p, t) = Fil_TargetIn(Fil_volume, p, t)
  BY <1>1 DEF Fil!Target, Fil_TargetIn
<1> QED BY <1>1, <1>2, <1>3, <1>4, <1>5

\* What each request leaves in the volume is a volume, and it keeps what it is not about.
LEMMA Fil_PutDoes ==
  ASSUME Fil_Volume(Fil_volume), Fil_Rooted(Fil_volume), NEW path \in Fil!Paths,
           NEW text \in Fil_Texts,
         Fil_Assumption, Fil!CanPut(path), NEW w, w = Fil!Put(path, text)
  PROVE  /\ Fil_Volume(w) /\ Fil_Rooted(w) /\ Fil_FileIn(w, path) /\ w[path] = text
         /\ \A p \in DOMAIN Fil_volume : p # path => p \in DOMAIN w /\ w[p] = Fil_volume[p]
<1>1. /\ DOMAIN w = DOMAIN Fil_volume \cup {path} /\ w[path] = text
      /\ \A p \in DOMAIN Fil_volume : p # path => w[p] = Fil_volume[p]
  BY DEF Fil!Put, Fil!With, Fil!Over
<1>2. Fil_DirIn(Fil_volume, Fil!dirOf(path)) /\ ~Fil_DirIn(Fil_volume, path)
  BY Fil_Views DEF Fil!CanPut
<1>3. Fil_Volume(w)
  BY <1>1 DEF Fil_Volume, Fil!Nodes
<1>4. Fil_FileIn(w, path)
  BY <1>1 DEF Fil_FileIn, Fil_Assumption
<1>5. \A d : Fil_DirIn(Fil_volume, d) => Fil_DirIn(w, d)
  BY <1>1, <1>2 DEF Fil_DirIn
<1>6. Fil_Rooted(w)
  BY <1>1, <1>2, <1>5 DEF Fil_Rooted
<1> QED BY <1>1, <1>3, <1>4, <1>6

LEMMA Fil_MkdirDoes ==
  ASSUME Fil_Volume(Fil_volume), Fil_Rooted(Fil_volume), NEW path \in Fil!Paths,
         Fil!CanMkdir(path), NEW w, w = Fil!Mkdir(path)
  PROVE  /\ Fil_Volume(w) /\ Fil_Rooted(w) /\ Fil_DirIn(w, path)
         /\ \A p \in DOMAIN Fil_volume : p \in DOMAIN w /\ w[p] = Fil_volume[p]
         /\ ~Fil_DirIn(Fil_volume, path) => Fil_ListIn(w, path) = {}
<1> DEFINE new == {path, Fil!dirOf(path)} \ {<<>>}
<1>1. /\ DOMAIN w = new \cup DOMAIN Fil_volume
      /\ \A p \in new : w[p] = "<dir>"
      /\ \A p \in DOMAIN Fil_volume : p \notin new => w[p] = Fil_volume[p]
  BY DEF Fil!Mkdir, Fil!Over
<1>2. ~Fil_FileIn(Fil_volume, path) /\ ~Fil_FileIn(Fil_volume, Fil!dirOf(path))
  BY Fil_Views DEF Fil!CanMkdir
<1>3. \A p \in DOMAIN Fil_volume : p \in DOMAIN w /\ w[p] = Fil_volume[p]
  BY <1>1, <1>2 DEF Fil_FileIn
<1>4. new \subseteq Fil!Paths /\ path \in new
  BY Fil_PathParts, Fil_DirKinds, Fil_PathSeq
<1>5. Fil_Volume(w)
  BY <1>1, <1>3, <1>4 DEF Fil_Volume, Fil!Nodes
<1>6. \A d : Fil_DirIn(Fil_volume, d) \/ d \in new => Fil_DirIn(w, d)
  BY <1>1, <1>3 DEF Fil_DirIn
<1>7. Fil!dirOf(path) \in new \/ Fil!dirOf(path) = <<>>
  OBVIOUS
<1>8. Fil_DirIn(w, Fil!dirOf(path))
  BY <1>6, <1>7 DEF Fil_DirIn
<1>9. \A p \in new : p = path \/ (p = Fil!dirOf(path) /\ p # <<>>)
  OBVIOUS
<1>10. ASSUME NEW p \in new, p = Fil!dirOf(path) PROVE Fil!dirOf(p) = <<>>
  <2>1. Fil!dirOf(p) \in Fil_Dirs /\ p \in Fil!Paths
    BY <1>4, Fil_PathParts
  <2>2. Fil!dirOf(p) \notin Fil!Paths
    BY <1>10, <2>1, Fil_Depth
  <2> QED BY <2>1, <2>2, Fil_DirKinds
<1>11. \A p \in new : Fil_DirIn(w, Fil!dirOf(p))
  BY <1>8, <1>9, <1>10 DEF Fil_DirIn
<1>12. Fil_Rooted(w)
  BY <1>1, <1>6, <1>11 DEF Fil_Rooted
<1>13. ASSUME ~Fil_DirIn(Fil_volume, path) PROVE Fil_ListIn(w, path) = {}
  <2>1. \A p \in DOMAIN Fil_volume : Fil!dirOf(p) # path
    BY <1>13 DEF Fil_Rooted
  <2>2. \A p \in new : Fil!dirOf(p) # path
    BY <1>4, <1>9, <1>10, Fil_PathSeq, Fil_Depth
  <2> QED BY <1>1, <2>1, <2>2 DEF Fil_ListIn
<1> QED BY <1>3, <1>4, <1>5, <1>6, <1>12, <1>13

LEMMA Fil_RemovedDoes ==
  ASSUME Fil_Volume(Fil_volume), Fil_Rooted(Fil_volume), NEW path \in Fil!Paths,
         NEW w, w = Fil!Removed(path)
  PROVE  /\ Fil_Volume(w) /\ Fil_Rooted(w) /\ path \notin DOMAIN w
         /\ DOMAIN w \subseteq DOMAIN Fil_volume
         /\ \A p \in DOMAIN Fil_volume :
              ~Fil!IsPrefix(path, p) => p \in DOMAIN w /\ w[p] = Fil_volume[p]
<1>1. /\ DOMAIN w = DOMAIN Fil_volume \ Fil_InsideOf(Fil_volume, path)
      /\ \A p \in DOMAIN w : w[p] = Fil_volume[p]
  BY Fil_Views DEF Fil!Removed, Fil!Without
<1>2. /\ \A p \in DOMAIN w : p \in DOMAIN Fil_volume /\ ~Fil!IsPrefix(path, p)
      /\ \A p \in DOMAIN Fil_volume : ~Fil!IsPrefix(path, p) => p \in DOMAIN w
  BY <1>1 DEF Fil_InsideOf
<1>3. Fil_Volume(w)
  BY <1>1, <1>2 DEF Fil_Volume
<1>4. path \notin DOMAIN w
  BY <1>2, Fil_Prefixes
<1>5. ASSUME NEW p \in DOMAIN w PROVE Fil_DirIn(w, Fil!dirOf(p))
  <2> DEFINE d == Fil!dirOf(p)
  <2>1. p \in Fil!Paths /\ p \in DOMAIN Fil_volume /\ ~Fil!IsPrefix(path, p)
    BY <1>2 DEF Fil_Volume
  <2>2. Fil_DirIn(Fil_volume, d)
    BY <2>1 DEF Fil_Rooted
  <2>3. d # path
    BY <2>1, Fil_Prefixes
  <2>4. d \in Fil!Paths => ~Fil!IsPrefix(path, d)
    BY <2>1, <2>3, Fil_Prefixes, Fil_Depth
  <2>5. d \in DOMAIN Fil_volume => d \in Fil!Paths
    BY DEF Fil_Volume
  <2> QED BY <1>1, <1>2, <2>2, <2>4, <2>5 DEF Fil_DirIn
<1> QED BY <1>1, <1>2, <1>3, <1>4, <1>5 DEF Fil_Rooted

LEMMA Fil_MoveDoes ==
  ASSUME Fil_Volume(Fil_volume), Fil_Rooted(Fil_volume), NEW from \in Fil!Paths,
           NEW to \in Fil!Paths,
         Fil!CanMove(from, to), NEW w, w = Fil!Move(from, to)
  PROVE  /\ Fil_Volume(w) /\ Fil_Rooted(w)
         /\ \A p \in DOMAIN Fil_volume :
              ~Fil!IsPrefix(from, p) /\ p # Fil_TargetIn(Fil_volume, from, to)
                => p \in DOMAIN w /\ w[p] = Fil_volume[p]
<1> DEFINE v == Fil_volume
           t == Fil_TargetIn(v, from, to)
           inside == Fil_InsideOf(v, from)
           new(p) == Fil!Carried(p, from, t)
<1>1. t = Fil!Target(from, to) /\ inside = Fil!Inside(from)
  BY Fil_Views
<1>2. /\ from \in DOMAIN v /\ t # from /\ Fil_DirIn(v, Fil!dirOf(t)) /\ ~Fil!IsPrefix(from, t)
      /\ \A p \in inside : new(p) \in Fil!Paths
      /\ Fil_DirIn(v, from) => ~Fil_DirIn(v, t) /\ ~Fil_FileIn(v, t)
      /\ ~Fil_DirIn(v, t)
  BY <1>1, Fil_Views, Fil_PathSeq DEF Fil!CanMove, Fil!Exists, Fil_DirIn, Fil_FileIn
<1>3. from \in inside
  BY <1>2, Fil_Prefixes DEF Fil_InsideOf
<1>4. t \in Seq(Fil_Names)
  <2>1. Fil!joinPath(to, Fil!baseOf(from)) \in Seq(Fil_Names)
    BY Fil_PathSeq, Fil_PathParts, AppendProperties DEF Fil!joinPath
  <2> QED BY <2>1, Fil_PathSeq DEF Fil_TargetIn
<1>5. new(from) = t /\ t \in Fil!Paths
  BY <1>2, <1>3, <1>4, Fil_PathSeq, Fil_CarriedSelf
<1>6. ASSUME NEW p \in inside, p # from
      PROVE  /\ p \in Fil!Paths /\ Fil!dirOf(p) = from /\ new(p) = Fil!joinPath(t, Fil!baseOf(p))
             /\ new(p) \in Fil!Paths
             /\ Fil!dirOf(new(p)) = t /\ Fil!baseOf(new(p)) = Fil!baseOf(p)
             /\ Fil_DirIn(v, from)
  <2>1. p \in DOMAIN v /\ Fil!IsPrefix(from, p) /\ p \in Fil!Paths
    BY DEF Fil_InsideOf, Fil_Volume
  <2>2. Fil!dirOf(p) = from
    BY <1>6, <2>1, Fil_Prefixes
  <2>3. new(p) = Fil!joinPath(t, Fil!baseOf(p)) /\ new(p) \in Fil!Paths /\
          Fil!baseOf(p) \in Fil_Names
    BY <1>2, <1>5, <2>1, <2>2, Fil_CarriedChild, Fil_PathParts
  <2>4. Fil!dirOf(new(p)) = t /\ Fil!baseOf(new(p)) = Fil!baseOf(p)
    BY <1>5, <2>3, Fil_JoinIn
  <2>5. Fil_DirIn(v, from)
    BY <2>1, <2>2 DEF Fil_Rooted
  <2> QED BY <2>1, <2>2, <2>3, <2>4, <2>5
<1>7. \A p, q \in inside : new(p) = new(q) => p = q
  <2>1. \A p \in inside : p # from => new(p) # t
    BY <1>5, <1>6, Fil_PathParts, Fil_Depth
  <2>2. \A p, q \in inside : p # from /\ q # from /\ new(p) = new(q) => p = q
    BY <1>6, Fil_PathParts
  <2> QED BY <1>5, <2>1, <2>2
<1> DEFINE landed == {new(p) : p \in inside}
<1>8. /\ DOMAIN w = landed \cup (DOMAIN v \ inside)
      /\ \A q \in landed : w[q] = v[CHOOSE p \in inside : new(p) = q]
      /\ \A q \in DOMAIN v \ inside : q \notin landed => w[q] = v[q]
  BY <1>1 DEF Fil!Move, Fil!Over, Fil!Without
<1>9. \A p \in inside : w[new(p)] = v[p]
  <2> HIDE DEF new, inside
  <2> QED BY <1>7, <1>8
<1>10. inside \subseteq DOMAIN v /\ \A p \in DOMAIN v : p \in inside <=> Fil!IsPrefix(from, p)
  BY DEF Fil_InsideOf
<1>11. Fil_Volume(w)
  <2>1. \A q \in landed : q \in Fil!Paths /\ w[q] \in Fil!Nodes
    BY <1>2, <1>9, <1>10 DEF Fil_Volume
  <2>2. \A q \in DOMAIN v : q \in Fil!Paths /\ v[q] \in Fil!Nodes
    BY DEF Fil_Volume
  <2> HIDE DEF landed, inside
  <2> QED BY <1>8, <2>1, <2>2 DEF Fil_Volume
<1>12. ASSUME NEW p \in DOMAIN v, p # t PROVE p \notin landed
  <2> SUFFICES ASSUME NEW q \in inside, p = new(q) PROVE FALSE
    OBVIOUS
  <2>1. q # from
    BY <1>5, <1>12
  <2>2. Fil!dirOf(p) = t /\ Fil_DirIn(v, from)
    BY <1>6, <2>1
  <2>3. Fil_DirIn(v, t)
    BY <2>2 DEF Fil_Rooted
  <2> QED BY <1>2, <2>2, <2>3
<1>13. \A p \in DOMAIN v : ~Fil!IsPrefix(from, p) /\ p # t => p \in DOMAIN w /\ w[p] = v[p]
  <2> HIDE DEF landed, inside
  <2> QED BY <1>8, <1>10, <1>12
<1>14. ASSUME NEW d, Fil_DirIn(v, d), d # from, Fil!dirOf(d) # from \/
         d = <<>> PROVE Fil_DirIn(w, d)
  <2>1. CASE d = <<>>
    BY <2>1 DEF Fil_DirIn
  <2>2. CASE d # <<>>
    <3>1. d \in DOMAIN v /\ v[d] = "<dir>" /\ d \in Fil!Paths
      BY <1>14, <2>2 DEF Fil_DirIn, Fil_Volume
    <3>2. ~Fil!IsPrefix(from, d) /\ d # t
      BY <1>2, <1>14, <2>2, <3>1, Fil_Prefixes
    <3> QED BY <1>13, <3>1, <3>2 DEF Fil_DirIn
  <2> QED BY <2>1, <2>2
<1>15. Fil_DirIn(w, Fil!dirOf(t))
  <2> DEFINE d == Fil!dirOf(t)
  <2>1. d # from
    BY <1>2, <1>5, Fil_Prefixes
  <2>2. d \in Fil!Paths => Fil!dirOf(d) # from
    BY <1>5, Fil_Depth
  <2>3. d = <<>> \/ d \in Fil!Paths
    BY <1>5, Fil_PathParts, Fil_DirKinds
  <2> QED BY <1>2, <1>14, <2>1, <2>2, <2>3
<1>16. ASSUME NEW p \in inside, p # from PROVE Fil_DirIn(w, t)
  <2>1. v[from] = "<dir>"
    BY <1>6, <1>16, Fil_PathSeq DEF Fil_DirIn
  <2>2. w[t] = "<dir>" /\ t \in DOMAIN w
    BY <1>3, <1>5, <1>8, <1>9, <2>1
  <2> QED BY <2>2 DEF Fil_DirIn
<1>17. ASSUME NEW q \in landed PROVE Fil_DirIn(w, Fil!dirOf(q))
  <2>1. PICK p \in inside : q = new(p)
    OBVIOUS
  <2>2. CASE p = from
    BY <1>5, <1>15, <2>1, <2>2
  <2>3. CASE p # from
    BY <1>6, <1>16, <2>1, <2>3
  <2> QED BY <2>2, <2>3
<1>18. ASSUME NEW p \in DOMAIN v, p \notin inside PROVE Fil_DirIn(w, Fil!dirOf(p))
  <2> DEFINE d == Fil!dirOf(p)
  <2>1. p \in Fil!Paths /\ ~Fil!IsPrefix(from, p) /\ Fil_DirIn(v, d)
    BY <1>10, <1>18 DEF Fil_Volume, Fil_Rooted
  <2>2. d # from
    BY <2>1, Fil_Prefixes
  <2>3. d \in Fil!Paths => Fil!dirOf(d) # from
    BY <2>1, Fil_Depth
  <2>4. d = <<>> \/ d \in Fil!Paths
    BY <2>1, Fil_PathParts, Fil_DirKinds
  <2> QED BY <1>14, <2>1, <2>2, <2>3, <2>4
<1>19. Fil_Rooted(w)
  <2> HIDE DEF landed, inside
  <2> QED BY <1>8, <1>17, <1>18 DEF Fil_Rooted
<1> QED BY <1>11, <1>13, <1>19

LEMMA Fil_OpFields ==
  ASSUME NEW o, Fil_Op(o)
  PROVE  /\ o = [kind |-> o.kind, path |-> o.path, to |-> o.to, text |-> o.text, dirs |-> o.dirs,
                 at |-> o.at, ok |-> o.ok]
         /\ o.kind \in Fil!Kinds \cup {"none"} /\ o.path \in Fil_AllDirs /\ o.to \in Fil_AllDirs
         /\ o.text \in Fil_Texts \cup {"clash"} /\ o.ok \in BOOLEAN
         /\ o.at \in {"idle", "sent", "done", "reload", "reloaded"}
         /\ o.at # "reloaded" => o.dirs \in SUBSET Fil_AllDirs
         /\ o.at = "reloaded" => o.dirs \in SUBSET (Fil_AllDirs \X SUBSET Fil_Names)
<1>1. CASE o.at = "reloaded"
  <2>1. o \in Fil_Listed
    BY <1>1 DEF Fil_Op
  <2> QED BY <1>1, <2>1 DEF Fil_Listed
<1>2. CASE o.at # "reloaded"
  <2>1. o \in Fil_Waiting
    BY <1>2 DEF Fil_Op
  <2> QED BY <1>2, <2>1 DEF Fil_Waiting
<1> QED BY <1>1, <1>2

LEMMA Fil_NoOpIn == Fil_Assumption => Fil_Op(Fil!NoOp)
  BY DEF Fil_Op, Fil!NoOp, Fil_Waiting, Fil_AllDirs, Fil_Assumption

\* A chain of the slot s goes on as o.
LEMMA Fil_StepDoes ==
  ASSUME Fil_Ops(Fil_op), Fil_careless = {} => Fil_Safe, NEW s \in Fil_Slots, Fil_op[s].at # "idle",
         NEW o, Fil_Op(o), Fil_op' = [Fil_op EXCEPT ![s] = o], Fil_careless' = {} =>
              Fil_careless = {},
         /\ Fil_careless' = {} /\ Fil_Good(Fil_volume, Fil_tree, Fil_tabs, Fil_op[s])
           => Fil_Good(Fil_volume', Fil_tree', Fil_tabs', o)
  PROVE  Fil_Ops(Fil_op') /\ (Fil_careless' = {} => Fil_Safe')
<1>1. DOMAIN Fil_op' = Fil_Slots /\ Fil_op'[s] = o /\ \A t \in Fil_Slots : t # s =>
        Fil_op'[t] = Fil_op[t]
  BY DEF Fil_Ops
<1>2. Fil_Ops(Fil_op')
  BY <1>1 DEF Fil_Ops
<1>3. ASSUME Fil_careless' = {} PROVE Fil_Safe'
  <2>1. PICK c \in Fil_Slots : Fil_Only(Fil_op, c) /\
          Fil_Good(Fil_volume, Fil_tree, Fil_tabs, Fil_op[c])
    BY <1>3 DEF Fil_Safe
  <2>2. c = s
    <3>1. Fil!NoOp.at = "idle"
      BY DEF Fil!NoOp
    <3> QED BY <2>1, <3>1 DEF Fil_Only
  <2>3. Fil_Only(Fil_op', s)
    BY <1>1, <2>1, <2>2 DEF Fil_Only
  <2>4. Fil_Good(Fil_volume', Fil_tree', Fil_tabs', Fil_op'[s])
    BY <1>1, <1>3, <2>1, <2>2
  <2> QED BY <2>3, <2>4 DEF Fil_Safe
<1> QED BY <1>2, <1>3

Fil_New(kind, path, to, text) ==
  [kind |-> kind, path |-> path, to |-> to, text |-> text, dirs |-> DOMAIN Fil_tree, at |-> "sent",
       ok |-> TRUE]

\* A chain that begins alone.
LEMMA Fil_BeginDoes ==
  ASSUME Fil_Ops(Fil_op), Fil_ops \in 0..Fil_MaxOps, Fil_Assumption, Fil_careless = {} => Fil_Safe,
         NEW kind, NEW path, NEW to, NEW text, Fil_Op(Fil_New(kind, path, to, text)),
         Fil!Begin(kind, path, to, text), Fil!Overlaps \subseteq Fil_careless',
         Fil_careless' = {} => Fil_careless = {},
         /\ Fil_careless' = {} /\ Fil_Good(Fil_volume, Fil_tree, Fil_tabs, Fil!NoOp)
           => Fil_Good(Fil_volume', Fil_tree', Fil_tabs', Fil_New(kind, path, to, text))
  PROVE  Fil_Ops(Fil_op') /\ Fil_ops' \in 0..Fil_MaxOps /\ (Fil_careless' = {} => Fil_Safe')
<1> DEFINE o == Fil_New(kind, path, to, text)
<1>1. PICK c \in Fil_Slots : Fil_op' = [Fil_op EXCEPT ![c] = o]
  BY DEF Fil!Begin, Fil!Free, Fil_New
<1>2. DOMAIN Fil_op' = Fil_Slots /\ Fil_op'[c] = o /\ \A t \in Fil_Slots : t # c =>
        Fil_op'[t] = Fil_op[t]
  BY <1>1 DEF Fil_Ops
<1>3. Fil_Ops(Fil_op')
  BY <1>2 DEF Fil_Ops
<1>4. Fil_ops' \in 0..Fil_MaxOps
  <2>1. Fil_ops < Fil_MaxOps /\ Fil_ops' = Fil_ops + 1
    BY DEF Fil!Begin
  <2>2. Fil_MaxOps \in Nat
    BY DEF Fil_Assumption
  <2> QED BY <2>1, <2>2
<1>5. ASSUME Fil_careless' = {} PROVE Fil_Safe'
  <2>1. Fil!Free = Fil_Slots
    BY <1>5 DEF Fil!Overlaps
  <2>2. \A t \in Fil_Slots : Fil_op[t] = Fil!NoOp
    BY <2>1 DEF Fil!Free
  <2>3. Fil_Good(Fil_volume, Fil_tree, Fil_tabs, Fil!NoOp)
    BY <1>5, <2>2 DEF Fil_Safe
  <2>4. Fil_Only(Fil_op', c)
    BY <1>2, <2>2 DEF Fil_Only
  <2>5. Fil_Good(Fil_volume', Fil_tree', Fil_tabs', Fil_op'[c])
    BY <1>2, <1>5, <2>3
  <2> QED BY <2>4, <2>5 DEF Fil_Safe
<1> QED BY <1>3, <1>4, <1>5

LEMMA Fil_NewIn ==
  ASSUME Fil_Types, NEW kind \in Fil!Kinds, NEW path \in Fil_AllDirs, NEW to \in Fil_AllDirs,
         NEW text \in Fil_Texts,
         kind \notin {"load", "refresh"} => path \in Fil!Paths,
         kind = "check" => to \in Fil_Dirs,
         kind \in {"rename", "move", "replace"} => to \in Fil!Paths
  PROVE  Fil_Op(Fil_New(kind, path, to, text))
<1> DEFINE o == Fil_New(kind, path, to, text)
<1>1. DOMAIN Fil_tree \in SUBSET Fil_AllDirs
  BY DEF Fil_Types, Fil_Tree
<1>2. o \in Fil_Waiting
  BY <1>1 DEF Fil_New, Fil_Waiting
<1>3. /\ o.kind = kind /\ o.path = path /\ o.to = to /\ o.text = text /\ o.at = "sent"
      /\ kind # "none"
  BY DEF Fil_New, Fil!Kinds
<1> HIDE DEF o
<1>4. IF o.at = "reloaded" THEN o \in Fil_Listed ELSE o \in Fil_Waiting
  BY <1>2, <1>3
<1>5. o.kind # "none" /\ (o.kind \notin {"none", "load", "refresh"} => o.path \in Fil!Paths)
  BY <1>3
<1>6. (o.kind = "check" => o.to \in Fil_Dirs) /\ o.text \in Fil_Texts
  BY <1>3
<1>7. o.kind \in {"rename", "move", "replace"} => o.to \in Fil!Paths
  BY <1>3
<1>8. Fil_Op(o)
  BY <1>4, <1>5, <1>6, <1>7 DEF Fil_Op
<1> QED BY <1>8 DEF o

\* With no chain under way the listings and the tabs are those of the volume.
LEMMA Fil_Quiet ==
  /\ ~Fil_Stale(Fil!NoOp) /\ \A p : ~Fil_Apart(Fil!NoOp, p)
  BY DEF Fil_Stale, Fil_Apart, Fil_Landed, Fil_Replacing, Fil_Writers, Fil!NoOp

LEMMA Fil_QuietGood ==
  ASSUME NEW v, NEW r, NEW f, Fil_TreeOK(v, r, Fil!NoOp), Fil_TabsOK(v, f, Fil!NoOp)
  PROVE  Fil_Good(v, r, f, Fil!NoOp)
<1>1. Fil_DirsOK(v, r, Fil!NoOp)
  BY DEF Fil_DirsOK, Fil!NoOp
<1>2. Fil_TextOK(v, f, Fil!NoOp)
  BY DEF Fil_TextOK, Fil!NoOp
<1>3. Fil_PlaceOK(v, f, Fil!NoOp)
  BY DEF Fil_PlaceOK, Fil!NoOp
<1>4. Fil_MoveOK(v, f, Fil!NoOp)
  BY DEF Fil_MoveOK, Fil_Carries, Fil!NoOp
<1> QED BY <1>1, <1>2, <1>3, <1>4 DEF Fil_Good

\* A chain that has just begun is known by what it will not write on.
LEMMA Fil_FreshGood ==
  ASSUME NEW v, NEW r, NEW f, NEW o, Fil_Op(o), o.at = "sent",
           o.kind \in Fil!Kinds \ {"move", "replace"},
         o.kind # "read" => o.dirs = DOMAIN r,
         Fil_TreeOK(v, r, Fil!NoOp), Fil_TabsOK(v, f, Fil!NoOp),
         o.kind = "save" /\ o.path \in DOMAIN f =>
           ~f[o.path].loading /\ ~f[o.path].error /\ f[o.path].content = o.text,
         o.kind \in {"newFile", "upload"} => o.path \notin DOMAIN f,
         o.kind = "newFolder" => ~Fil_DirIn(v, o.path),
         o.kind \in {"delete", "rename", "check"} =>
              Fil_InsideOf(v, o.path) \cap DOMAIN f \subseteq {o.path},
         o.kind = "rename" => Fil_TargetIn(v, o.path, o.to) \notin DOMAIN f
  PROVE  Fil_Good(v, r, f, o)
<1>1. ~Fil_Stale(o) /\ \A p : ~Fil_Apart(o, p)
  BY DEF Fil_Stale, Fil_Apart, Fil_Landed, Fil_Replacing
<1>2. Fil_TreeOK(v, r, o) /\ Fil_TabsOK(v, f, o)
  BY <1>1, Fil_Quiet DEF Fil_TreeOK, Fil_TabsOK
<1>3. Fil_DirsOK(v, r, o)
  BY DEF Fil_DirsOK
<1>4. Fil_TextOK(v, f, o)
  BY DEF Fil_TextOK, Fil_Landed
<1>5. Fil_PlaceOK(v, f, o)
  BY DEF Fil_PlaceOK, Fil_Landed
<1>6. Fil_MoveOK(v, f, o)
  BY DEF Fil_MoveOK, Fil_Carries, Fil_Landed
<1> QED BY <1>2, <1>3, <1>4, <1>5, <1>6 DEF Fil_Good

\* The user asks for something that a chain will do.
LEMMA Fil_Asks ==
  ASSUME Fil_Inv, NEW kind \in Fil!Kinds \ {"move", "replace", "read"}, NEW path \in Fil_AllDirs,
         NEW to \in Fil_AllDirs, NEW text \in Fil_Texts,
         kind \notin {"load", "refresh"} => path \in Fil!Paths,
         kind = "check" => to \in Fil_Dirs, kind = "rename" => to \in Fil!Paths,
         Fil!Begin(kind, path, to, text), UNCHANGED <<Fil_volume, Fil_tree, Fil_tabs, Fil_saved>>,
         Fil!Overlaps \subseteq Fil_careless', Fil_careless \subseteq Fil_careless',
         Fil_careless' = {} /\ kind = "save" /\ path \in DOMAIN Fil_tabs =>
           ~Fil_tabs[path].loading /\ ~Fil_tabs[path].error /\ Fil_tabs[path].content = text,
         Fil_careless' = {} /\ kind \in {"newFile", "upload"} => path \notin DOMAIN Fil_tabs,
         Fil_careless' = {} /\ kind = "newFolder" => ~Fil!IsDir(path),
         Fil_careless' = {} /\ kind \in {"delete", "rename", "check"}
           => Fil!Inside(path) \cap DOMAIN Fil_tabs \subseteq {path},
         Fil_careless' = {} /\ kind = "rename" => Fil!Target(path, to) \notin DOMAIN Fil_tabs
  PROVE  Fil_Inv'
<1> DEFINE o == Fil_New(kind, path, to, text)
<1>1. Fil_Op(o)
  BY Fil_NewIn DEF Fil_Inv
<1>2. /\ o.kind = kind /\ o.path = path /\ o.to = to /\ o.text = text /\ o.at = "sent"
      /\ o.dirs = DOMAIN Fil_tree
  BY DEF Fil_New
<1>3. ASSUME Fil_careless' = {}, Fil_Good(Fil_volume, Fil_tree, Fil_tabs, Fil!NoOp)
      PROVE  Fil_Good(Fil_volume', Fil_tree', Fil_tabs', o)
  <2>1. Fil_TreeOK(Fil_volume, Fil_tree, Fil!NoOp) /\ Fil_TabsOK(Fil_volume, Fil_tabs, Fil!NoOp)
    BY <1>3 DEF Fil_Good
  <2>2. /\ kind = "newFolder" => ~Fil_DirIn(Fil_volume, path)
        /\ kind \in {"delete", "rename", "check"}
             => Fil_InsideOf(Fil_volume, path) \cap DOMAIN Fil_tabs \subseteq {path}
        /\ kind = "rename" => Fil_TargetIn(Fil_volume, path, to) \notin DOMAIN Fil_tabs
    BY <1>3, Fil_Views
  <2> HIDE DEF o
  <2>3. Fil_Good(Fil_volume, Fil_tree, Fil_tabs, o)
    BY <1>1, <1>2, <1>3, <2>1, <2>2, Fil_FreshGood
  <2> QED BY <2>3
<1>4. Fil_careless' = {} => Fil_careless = {}
  OBVIOUS
<1>5. Fil_Ops(Fil_op') /\ Fil_ops' \in 0..Fil_MaxOps /\ (Fil_careless' = {} => Fil_Safe')
  BY <1>1, <1>3, <1>4, Fil_BeginDoes DEF Fil_Inv, Fil_Types
<1> QED BY <1>5 DEF Fil_Inv, Fil_Types

LEMMA Fil_NoTabLost == \A S : Fil!Loses(S) = {} => S \cap DOMAIN Fil_tabs = {}
  BY DEF Fil!Loses

LEMMA Fil_RootDir == <<>> \in Fil_AllDirs /\ Fil!Paths \subseteq Fil_AllDirs /\
     Fil_Dirs \subseteq Fil_AllDirs
  BY DEF Fil_AllDirs, Fil_Dirs

LEMMA Fil_LoadDirStep ==
  ASSUME Fil_Inv, NEW d \in Fil_Dirs, Fil!LoadDir(d) PROVE Fil_Inv'
<1>1. "" \in Fil_Texts /\ "load" \in Fil!Kinds \ {"move", "replace", "read"}
  BY DEF Fil_Inv, Fil_Assumption, Fil!Kinds
<1>2. /\ Fil!Begin("load", d, <<>>, "") /\ UNCHANGED <<Fil_volume, Fil_tree, Fil_tabs, Fil_saved>>
      /\ Fil!Overlaps \subseteq Fil_careless' /\ Fil_careless \subseteq Fil_careless'
  BY DEF Fil!LoadDir
<1> QED BY <1>1, <1>2, Fil_RootDir, Fil_Asks

LEMMA Fil_RefreshStep ==
  ASSUME Fil_Inv, Fil!Refresh PROVE Fil_Inv'
<1>1. "" \in Fil_Texts /\ "refresh" \in Fil!Kinds \ {"move", "replace", "read"}
  BY DEF Fil_Inv, Fil_Assumption, Fil!Kinds
<1>2. /\ Fil!Begin("refresh", <<>>, <<>>, "")
      /\ UNCHANGED <<Fil_volume, Fil_tree, Fil_tabs, Fil_saved>>
      /\ Fil!Overlaps \subseteq Fil_careless' /\ Fil_careless \subseteq Fil_careless'
  BY DEF Fil!Refresh
<1> QED BY <1>1, <1>2, Fil_RootDir, Fil_Asks

LEMMA Fil_SaveFileStep ==
  ASSUME Fil_Inv, NEW path \in Fil!Paths, Fil!SaveFile(path) PROVE Fil_Inv'
<1> DEFINE text == Fil_tabs[path].content
<1>1. path \in DOMAIN Fil_tabs /\ text \in Fil_Texts
  BY DEF Fil!SaveFile, Fil_Inv, Fil_Types, Fil_TabsIn, Fil_Tabs
<1>2. /\ Fil!Begin("save", path, <<>>, text)
      /\ UNCHANGED <<Fil_volume, Fil_tree, Fil_tabs, Fil_saved>>
      /\ Fil!Overlaps \subseteq Fil_careless' /\ Fil_careless \subseteq Fil_careless'
      /\ Fil_careless' = {} => ~Fil_tabs[path].loading /\ ~Fil_tabs[path].error
  BY DEF Fil!SaveFile
<1>3. "save" \in Fil!Kinds \ {"move", "replace", "read"}
  BY DEF Fil!Kinds
<1> QED BY <1>1, <1>2, <1>3, Fil_RootDir, Fil_Asks

LEMMA Fil_PromptNewFileStep ==
  ASSUME Fil_Inv, NEW d \in Fil_Dirs, NEW n \in Fil_Names, Fil!PromptNewFile(d, n) PROVE Fil_Inv'
<1> DEFINE path == Fil!joinPath(d, n)
<1>1. "" \in Fil_Texts /\ "newFile" \in Fil!Kinds \ {"move", "replace", "read"}
  BY DEF Fil_Inv, Fil_Assumption, Fil!Kinds
<1>2. /\ path \in Fil!Paths
      /\ Fil!Begin("newFile", path, <<>>, "")
      /\ UNCHANGED <<Fil_volume, Fil_tree, Fil_tabs, Fil_saved>>
      /\ Fil!Overlaps \subseteq Fil_careless' /\ Fil_careless \subseteq Fil_careless'
      /\ Fil_careless' = {} => Fil!Loses({path}) = {}
  BY DEF Fil!PromptNewFile
<1>3. Fil_careless' = {} => path \notin DOMAIN Fil_tabs
  BY <1>2, Fil_NoTabLost
<1> HIDE DEF path
<1> QED BY <1>1, <1>2, <1>3, Fil_RootDir, Fil_Asks

LEMMA Fil_PromptNewFolderStep ==
  ASSUME Fil_Inv, NEW d \in Fil_Dirs, NEW n \in Fil_Names, Fil!PromptNewFolder(d, n) PROVE Fil_Inv'
<1> DEFINE path == Fil!joinPath(d, n)
<1>1. "" \in Fil_Texts /\ "newFolder" \in Fil!Kinds \ {"move", "replace", "read"}
  BY DEF Fil_Inv, Fil_Assumption, Fil!Kinds
<1>2. /\ path \in Fil!Paths
      /\ Fil!Begin("newFolder", path, <<>>, "")
      /\ UNCHANGED <<Fil_volume, Fil_tree, Fil_tabs, Fil_saved>>
      /\ Fil!Overlaps \subseteq Fil_careless' /\ Fil_careless \subseteq Fil_careless'
      /\ Fil_careless' = {} => ~Fil!IsDir(path)
  BY DEF Fil!PromptNewFolder
<1> HIDE DEF path
<1> QED BY <1>1, <1>2, Fil_RootDir, Fil_Asks

LEMMA Fil_SubmitUploadStep ==
  ASSUME Fil_Inv, NEW d \in Fil_Dirs, NEW n \in Fil_Names, NEW text \in Fil_Texts,
         Fil!SubmitUpload(d, n, text)
  PROVE  Fil_Inv'
<1> DEFINE path == Fil!joinPath(d, n)
<1>1. "upload" \in Fil!Kinds \ {"move", "replace", "read"}
  BY DEF Fil!Kinds
<1>2. /\ path \in Fil!Paths
      /\ Fil!Begin("upload", path, <<>>, text)
      /\ UNCHANGED <<Fil_volume, Fil_tree, Fil_tabs, Fil_saved>>
      /\ Fil!Overlaps \subseteq Fil_careless' /\ Fil_careless \subseteq Fil_careless'
      /\ Fil_careless' = {} => Fil!Loses({path}) = {}
  BY DEF Fil!SubmitUpload
<1>3. Fil_careless' = {} => path \notin DOMAIN Fil_tabs
  BY <1>2, Fil_NoTabLost
<1> HIDE DEF path
<1> QED BY <1>1, <1>2, <1>3, Fil_RootDir, Fil_Asks

LEMMA Fil_DeleteEntryStep ==
  ASSUME Fil_Inv, NEW path \in Fil!Paths, Fil!DeleteEntry(path) PROVE Fil_Inv'
<1>1. "" \in Fil_Texts /\ "delete" \in Fil!Kinds \ {"move", "replace", "read"}
  BY DEF Fil_Inv, Fil_Assumption, Fil!Kinds
<1>2. /\ Fil!Begin("delete", path, <<>>, "")
      /\ UNCHANGED <<Fil_volume, Fil_tree, Fil_tabs, Fil_saved>>
      /\ Fil!Overlaps \subseteq Fil_careless' /\ Fil_careless \subseteq Fil_careless'
      /\ Fil_careless' = {} => Fil!Loses(Fil!Inside(path) \ {path}) = {}
  BY DEF Fil!DeleteEntry
<1>3. Fil_careless' = {} => Fil!Inside(path) \cap DOMAIN Fil_tabs \subseteq {path}
  BY <1>2, Fil_NoTabLost
<1> QED BY <1>1, <1>2, <1>3, Fil_RootDir, Fil_Asks

LEMMA Fil_PromptRenameStep ==
  ASSUME Fil_Inv, NEW path \in Fil!Paths, NEW n \in Fil_Names,
           Fil!PromptRename(path, n) PROVE Fil_Inv'
<1> DEFINE to == Fil!joinPath(Fil!dirOf(path), n)
<1>1. "" \in Fil_Texts /\ "rename" \in Fil!Kinds \ {"move", "replace", "read"}
  BY DEF Fil_Inv, Fil_Assumption, Fil!Kinds
<1>2. /\ Fil!Begin("rename", path, to, "")
      /\ UNCHANGED <<Fil_volume, Fil_tree, Fil_tabs, Fil_saved>>
      /\ Fil!Overlaps \subseteq Fil_careless' /\ Fil_careless \subseteq Fil_careless'
      /\ Fil_careless' = {} =>
           Fil!Loses((Fil!Inside(path) \ {path}) \cup {Fil!Target(path, to)}) = {}
  BY DEF Fil!PromptRename
<1>3. to \in Fil!Paths
  BY Fil_PathParts, Fil_JoinParts
<1> HIDE DEF to
<1>4. ASSUME Fil_careless' = {}
      PROVE  /\ Fil!Inside(path) \cap DOMAIN Fil_tabs \subseteq {path}
             /\ Fil!Target(path, to) \notin DOMAIN Fil_tabs
  <2>1. ((Fil!Inside(path) \ {path}) \cup {Fil!Target(path, to)}) \cap DOMAIN Fil_tabs = {}
    BY <1>2, <1>4, Fil_NoTabLost
  <2> QED BY <2>1
<1> QED BY <1>1, <1>2, <1>3, <1>4, Fil_RootDir, Fil_Asks

LEMMA Fil_AttemptMoveStep ==
  ASSUME Fil_Inv, NEW path \in Fil!Paths, NEW d \in Fil_Dirs,
           Fil!AttemptMove(path, d) PROVE Fil_Inv'
<1>1. "" \in Fil_Texts /\ "check" \in Fil!Kinds \ {"move", "replace", "read"}
  BY DEF Fil_Inv, Fil_Assumption, Fil!Kinds
<1>2. /\ Fil!Begin("check", path, d, "") /\ UNCHANGED <<Fil_volume, Fil_tree, Fil_tabs, Fil_saved>>
      /\ Fil!Overlaps \subseteq Fil_careless' /\ Fil_careless \subseteq Fil_careless'
      /\ Fil_careless' = {} => Fil!Loses(Fil!Inside(path) \ {path}) = {}
  BY DEF Fil!AttemptMove
<1>3. Fil_careless' = {} => Fil!Inside(path) \cap DOMAIN Fil_tabs \subseteq {path}
  BY <1>2, Fil_NoTabLost
<1> QED BY <1>1, <1>2, <1>3, Fil_RootDir, Fil_Asks

\* A tab that is closed leaves less to be right about.
LEMMA Fil_CloseGood ==
  ASSUME NEW v, NEW r, NEW f, NEW h, NEW o, Fil_Good(v, r, f, o), DOMAIN h \subseteq DOMAIN f,
         \A p \in DOMAIN h : h[p] = f[p]
  PROVE  Fil_Good(v, r, h, o)
<1>1. Fil_TreeOK(v, r, o) /\ Fil_DirsOK(v, r, o)
  BY DEF Fil_Good
<1>2. Fil_TabsOK(v, h, o)
  BY DEF Fil_Good, Fil_TabsOK
<1>3. Fil_TextOK(v, h, o)
  BY DEF Fil_Good, Fil_TextOK
<1>4. Fil_PlaceOK(v, h, o)
  BY DEF Fil_Good, Fil_PlaceOK
<1>5. Fil_MoveOK(v, h, o)
  BY DEF Fil_Good, Fil_MoveOK
<1> QED BY <1>1, <1>2, <1>3, <1>4, <1>5 DEF Fil_Good

LEMMA Fil_CloseTypes ==
  ASSUME Fil_TabsIn(Fil_tabs), DOMAIN Fil_saved = DOMAIN Fil_tabs, NEW S, Fil!Close(S)
  PROVE  /\ Fil_TabsIn(Fil_tabs') /\ DOMAIN Fil_saved' = DOMAIN Fil_tabs'
         /\ DOMAIN Fil_tabs' = DOMAIN Fil_tabs \ S
         /\ \A p \in DOMAIN Fil_tabs' : Fil_tabs'[p] = Fil_tabs[p]
<1>1. /\ DOMAIN Fil_tabs' = DOMAIN Fil_tabs \ S /\ DOMAIN Fil_saved' = DOMAIN Fil_saved \ S
      /\ \A p \in DOMAIN Fil_tabs' : Fil_tabs'[p] = Fil_tabs[p]
  BY DEF Fil!Close, Fil!Without
<1> QED BY <1>1 DEF Fil_TabsIn

LEMMA Fil_CountIn ==
  ASSUME Fil_Inv, Fil_ops < Fil_MaxOps, Fil_ops' = Fil_ops + 1 PROVE Fil_ops' \in 0..Fil_MaxOps
<1>1. Fil_ops \in 0..Fil_MaxOps /\ Fil_MaxOps \in Nat
  BY DEF Fil_Inv, Fil_Types, Fil_Assumption
<1> QED BY <1>1

LEMMA Fil_CloseFileStep ==
  ASSUME Fil_Inv, NEW path \in Fil!Paths, Fil!CloseFile(path) PROVE Fil_Inv'
<1>1. /\ Fil!Close({path}) /\ UNCHANGED <<Fil_volume, Fil_tree, Fil_op, Fil_careless>>
      /\ Fil_ops < Fil_MaxOps /\ Fil_ops' = Fil_ops + 1
  BY DEF Fil!CloseFile
<1>2. /\ Fil_TabsIn(Fil_tabs') /\ DOMAIN Fil_saved' = DOMAIN Fil_tabs'
      /\ DOMAIN Fil_tabs' \subseteq DOMAIN Fil_tabs
      /\ \A p \in DOMAIN Fil_tabs' : Fil_tabs'[p] = Fil_tabs[p]
  BY <1>1, Fil_CloseTypes DEF Fil_Inv, Fil_Types
<1>3. Fil_ops' \in 0..Fil_MaxOps
  BY <1>1, Fil_CountIn
<1>4. Fil_Types'
  BY <1>1, <1>2, <1>3 DEF Fil_Inv, Fil_Types
<1>5. Fil_Safe => Fil_Safe'
  <2> SUFFICES ASSUME NEW s \in Fil_Slots, Fil_Only(Fil_op, s),
                      Fil_Good(Fil_volume, Fil_tree, Fil_tabs, Fil_op[s])
               PROVE  Fil_Only(Fil_op', s) /\
                        Fil_Good(Fil_volume', Fil_tree', Fil_tabs', Fil_op'[s])
    BY DEF Fil_Safe
  <2>1. Fil_Good(Fil_volume, Fil_tree, Fil_tabs', Fil_op[s])
    BY <1>2, Fil_CloseGood
  <2> QED BY <1>1, <2>1
<1> QED BY <1>1, <1>4, <1>5 DEF Fil_Inv

LEMMA Fil_ChangeFileStep ==
  ASSUME Fil_Inv, NEW path \in Fil!Paths, NEW text \in Fil_Texts, Fil!ChangeFile(path, text)
  PROVE  Fil_Inv'
<1>1. /\ path \in DOMAIN Fil_tabs /\ UNCHANGED <<Fil_volume, Fil_tree, Fil_op, Fil_saved>>
      /\ Fil_tabs' = [Fil_tabs EXCEPT ![path].content = text]
      /\ Fil_ops < Fil_MaxOps /\ Fil_ops' = Fil_ops + 1
      /\ Fil_careless' = {} => Fil_careless = {} /\ ~Fil!Busy(path)
  BY DEF Fil!ChangeFile
<1>2. Fil_tabs[path] \in Fil_Tabs
  BY <1>1 DEF Fil_Inv, Fil_Types, Fil_TabsIn
<1>3. /\ DOMAIN Fil_tabs' = DOMAIN Fil_tabs
      /\ \A p \in DOMAIN Fil_tabs : p # path => Fil_tabs'[p] = Fil_tabs[p]
      /\ Fil_tabs'[path] \in Fil_Tabs /\ Fil_tabs'[path].original = Fil_tabs[path].original
      /\ Fil_tabs'[path].loading = Fil_tabs[path].loading
      /\ Fil_tabs'[path].error = Fil_tabs[path].error
  BY <1>1, <1>2 DEF Fil_Tabs
<1>4. Fil_TabsIn(Fil_tabs')
  BY <1>3 DEF Fil_Inv, Fil_Types, Fil_TabsIn
<1>5. Fil_ops' \in 0..Fil_MaxOps
  BY <1>1, Fil_CountIn
<1>6. Fil_Types'
  BY <1>1, <1>3, <1>4, <1>5 DEF Fil_Inv, Fil_Types
<1>7. ASSUME Fil_careless' = {}, Fil_Safe PROVE Fil_Safe'
  <2>1. PICK s \in Fil_Slots : Fil_Only(Fil_op, s) /\
          Fil_Good(Fil_volume, Fil_tree, Fil_tabs, Fil_op[s])
    BY <1>7 DEF Fil_Safe
  <2> DEFINE o == Fil_op[s]
  <2>2. ~(o.kind = "save" /\ o.path = path /\ o.at \in {"sent", "done"})
    BY <1>1, <1>7 DEF Fil!Busy
  <2> HIDE DEF o
  <2>3. Fil_Good(Fil_volume, Fil_tree, Fil_tabs, o)
    BY <2>1 DEF o
  <2>4. Fil_TabsOK(Fil_volume, Fil_tabs', o)
    BY <1>3, <2>3 DEF Fil_Good, Fil_TabsOK
  <2>5. Fil_TextOK(Fil_volume, Fil_tabs', o)
    BY <1>3, <2>2, <2>3 DEF Fil_Good, Fil_TextOK
  <2>6. Fil_PlaceOK(Fil_volume, Fil_tabs', o)
    BY <1>3, <2>3 DEF Fil_Good, Fil_PlaceOK
  <2>7. Fil_MoveOK(Fil_volume, Fil_tabs', o)
    BY <1>3, <2>3 DEF Fil_Good, Fil_MoveOK
  <2>8. Fil_Good(Fil_volume, Fil_tree, Fil_tabs', o)
    BY <2>3, <2>4, <2>5, <2>6, <2>7 DEF Fil_Good
  <2>9. Fil_Only(Fil_op', s) /\ Fil_Good(Fil_volume', Fil_tree', Fil_tabs', Fil_op'[s])
    BY <1>1, <2>1, <2>8 DEF o
  <2> QED BY <2>9 DEF Fil_Safe
<1> QED BY <1>1, <1>6, <1>7 DEF Fil_Inv

LEMMA Fil_OtherWritesStep ==
  ASSUME Fil_Inv, NEW path \in Fil!Paths, NEW text \in Fil_Texts, Fil!OtherWrites(path, text)
  PROVE  Fil_Inv'
<1>1. /\ Fil!CanPut(path) /\ Fil_volume' = Fil!Put(path, text) /\ Fil_careless' # {}
      /\ UNCHANGED <<Fil_tree, Fil_tabs, Fil_op, Fil_saved>>
      /\ Fil_ops < Fil_MaxOps /\ Fil_ops' = Fil_ops + 1
  BY DEF Fil!OtherWrites
<1>2. Fil_Volume(Fil_volume') /\ Fil_Rooted(Fil_volume')
  BY <1>1, Fil_PutDoes DEF Fil_Inv, Fil_Types
<1>3. Fil_ops' \in 0..Fil_MaxOps
  BY <1>1, Fil_CountIn
<1> QED BY <1>1, <1>2, <1>3 DEF Fil_Inv, Fil_Types

LEMMA Fil_OpenFileStep ==
  ASSUME Fil_Inv, NEW path \in Fil!Paths, Fil!OpenFile(path) PROVE Fil_Inv'
<1> DEFINE o == Fil_New("read", path, <<>>, "")
<1>1. /\ path \notin DOMAIN Fil_tabs /\ Fil!Begin("read", path, <<>>, "")
      /\ Fil_tabs' = Fil!With(Fil_tabs, path, Fil!Loading)
      /\ Fil_saved' = Fil!With(Fil_saved, path, "")
      /\ Fil!Overlaps \subseteq Fil_careless' /\ Fil_careless \subseteq Fil_careless'
      /\ UNCHANGED <<Fil_volume, Fil_tree>>
  BY DEF Fil!OpenFile
<1>2. "" \in Fil_Texts /\ "read" \in Fil!Kinds
  BY DEF Fil_Inv, Fil_Assumption, Fil!Kinds
<1>3. Fil_Op(o)
  BY <1>2, Fil_NewIn, Fil_RootDir DEF Fil_Inv
<1>4. /\ DOMAIN Fil_tabs' = DOMAIN Fil_tabs \cup {path} /\ Fil_tabs'[path] = Fil!Loading
      /\ \A p \in DOMAIN Fil_tabs : Fil_tabs'[p] = Fil_tabs[p]
      /\ DOMAIN Fil_saved' = DOMAIN Fil_saved \cup {path}
  BY <1>1 DEF Fil!With, Fil!Over
<1>5. Fil!Loading \in Fil_Tabs /\ Fil!Loading.loading
  BY <1>2 DEF Fil!Loading, Fil_Tabs
<1>6. Fil_TabsIn(Fil_tabs')
  BY <1>4, <1>5 DEF Fil_Inv, Fil_Types, Fil_TabsIn
<1>7. o.kind = "read" /\ o.at = "sent"
  BY DEF Fil_New
<1>8. ASSUME Fil_Good(Fil_volume, Fil_tree, Fil_tabs, Fil!NoOp)
      PROVE  Fil_Good(Fil_volume', Fil_tree', Fil_tabs', o)
  <2>1. Fil_TabsOK(Fil_volume, Fil_tabs', Fil!NoOp)
    BY <1>4, <1>5, <1>8 DEF Fil_Good, Fil_TabsOK
  <2> HIDE DEF o
  <2>2. Fil_Good(Fil_volume, Fil_tree, Fil_tabs', o)
    BY <1>2, <1>3, <1>7, <1>8, <2>1, Fil_FreshGood DEF Fil_Good
  <2> QED BY <1>1, <2>2
<1>9. Fil_careless' = {} => Fil_careless = {}
  BY <1>1
<1>10. Fil_Ops(Fil_op') /\ Fil_ops' \in 0..Fil_MaxOps /\ (Fil_careless' = {} => Fil_Safe')
  BY <1>1, <1>3, <1>8, <1>9, Fil_BeginDoes DEF Fil_Inv, Fil_Types
<1> QED BY <1>1, <1>4, <1>6, <1>10 DEF Fil_Inv, Fil_Types

\* Chains as records, where only some fields change.
LEMMA Fil_WaitingIn ==
  ASSUME NEW kind \in Fil!Kinds, NEW path \in Fil_AllDirs, NEW to \in Fil_AllDirs,
         NEW text \in Fil_Texts \cup {"clash"}, NEW dirs \in SUBSET Fil_AllDirs,
         NEW at \in {"sent", "done", "reload"}, NEW ok \in BOOLEAN,
         kind \notin {"load", "refresh"} => path \in Fil!Paths,
         kind \in {"read", "save", "newFile", "upload"} => text \in Fil_Texts,
         kind = "check" => to \in Fil_Dirs,
         kind \in {"rename", "move", "replace"} => to \in Fil!Paths,
         NEW e, e = [kind |-> kind, path |-> path, to |-> to, text |-> text, dirs |-> dirs,
                     at |-> at, ok |-> ok]
  PROVE  Fil_Op(e)
<1>1. e \in Fil_Waiting /\ e.at # "reloaded"
  BY DEF Fil_Waiting
<1>2. /\ e.kind = kind /\ e.path = path /\ e.to = to /\ e.text = text /\ kind # "none"
  BY DEF Fil!Kinds
<1>3. IF e.at = "reloaded" THEN e \in Fil_Listed ELSE e \in Fil_Waiting
  BY <1>1
<1>4. e.kind # "none" /\ (e.kind \notin {"none", "load", "refresh"} => e.path \in Fil!Paths)
  BY <1>2
<1>5. e.kind \in {"read", "save", "newFile", "upload"} => e.text \in Fil_Texts
  BY <1>2
<1>6. e.kind = "check" => e.to \in Fil_Dirs
  BY <1>2
<1>7. e.kind \in {"rename", "move", "replace"} => e.to \in Fil!Paths
  BY <1>2
<1> QED BY <1>3, <1>4, <1>5, <1>6, <1>7 DEF Fil_Op

LEMMA Fil_ListedIn ==
  ASSUME NEW o, Fil_Op(o), o.kind \in Fil!Kinds,
           NEW dirs \in SUBSET (Fil_AllDirs \X SUBSET Fil_Names),
         NEW e, e = [kind |-> o.kind, path |-> o.path, to |-> o.to, text |-> o.text, dirs |-> dirs,
                     at |-> "reloaded", ok |-> o.ok]
  PROVE  Fil_Op(e)
<1>1. /\ o.kind \in Fil!Kinds /\ o.path \in Fil_AllDirs /\ o.to \in Fil_AllDirs
      /\ o.text \in Fil_Texts \cup {"clash"} /\ o.ok \in BOOLEAN
  BY Fil_OpFields
<1>2. e \in Fil_Listed /\ e.at = "reloaded"
  BY <1>1 DEF Fil_Listed
<1>3. e.kind = o.kind /\ e.path = o.path /\ e.to = o.to /\ e.text = o.text /\ o.kind # "none"
  BY DEF Fil!Kinds
<1>4. IF e.at = "reloaded" THEN e \in Fil_Listed ELSE e \in Fil_Waiting
  BY <1>2
<1> QED BY <1>3, <1>4 DEF Fil_Op

LEMMA Fil_KindKnown == \A o : Fil_Op(o) /\ o.at # "idle" => o.kind \in Fil!Kinds
<1> SUFFICES ASSUME NEW o, Fil_Op(o), o.at # "idle" PROVE o.kind \in Fil!Kinds
  OBVIOUS
<1>1. o.kind \in Fil!Kinds \cup {"none"}
  BY Fil_OpFields
<1>2. Fil!NoOp.at = "idle"
  BY DEF Fil!NoOp
<1>3. o.kind # "none"
  BY <1>2 DEF Fil_Op
<1> QED BY <1>1, <1>3

\* The same chain, further on.
Fil_Rec(kind, path, to, text, dirs, at, ok) ==
  [kind |-> kind, path |-> path, to |-> to, text |-> text, dirs |-> dirs, at |-> at, ok |-> ok]
Fil_At(o, at, ok) == Fil_Rec(o.kind, o.path, o.to, o.text, o.dirs, at, ok)

LEMMA Fil_AtIn ==
  ASSUME NEW o, Fil_Op(o), o.at \in {"sent", "done", "reload"},
           NEW at \in {"sent", "done", "reload"},
         NEW ok \in BOOLEAN
  PROVE  Fil_Op(Fil_At(o, at, ok))
<1>1. /\ o.path \in Fil_AllDirs /\ o.to \in Fil_AllDirs /\ o.dirs \in SUBSET Fil_AllDirs
      /\ o.text \in Fil_Texts \cup {"clash"} /\ o.ok \in BOOLEAN
  BY Fil_OpFields
<1>2. o.kind \in Fil!Kinds
  BY Fil_KindKnown
<1>3. /\ o.kind \notin {"load", "refresh"} => o.path \in Fil!Paths
      /\ o.kind \in {"read", "save", "newFile", "upload"} => o.text \in Fil_Texts
      /\ o.kind = "check" => o.to \in Fil_Dirs
      /\ o.kind \in {"rename", "move", "replace"} => o.to \in Fil!Paths
  BY <1>2 DEF Fil_Op, Fil!Kinds
<1> DEFINE e == Fil_At(o, at, ok)
<1>4. e = [kind |-> o.kind, path |-> o.path, to |-> o.to, text |-> o.text, dirs |-> o.dirs,
           at |-> at, ok |-> ok]
  BY DEF Fil_At, Fil_Rec
<1> HIDE DEF e
<1>5. Fil_Op(e)
  BY <1>1, <1>2, <1>3, <1>4, Fil_WaitingIn
<1> QED BY <1>5 DEF e

LEMMA Fil_RecWith ==
  /\ \A k, p, t, x, d, a, o, z : [Fil_Rec(k, p, t, x, d, a, o) EXCEPT !.kind = z] = Fil_Rec(z, p,
       t, x, d, a, o)
  /\ \A k, p, t, x, d, a, o, z : [Fil_Rec(k, p, t, x, d, a, o) EXCEPT !.to = z] = Fil_Rec(k, p, z,
       x, d, a, o)
  /\ \A k, p, t, x, d, a, o, z : [Fil_Rec(k, p, t, x, d, a, o) EXCEPT !.text = z] = Fil_Rec(k, p,
       t, z, d, a, o)
  /\ \A k, p, t, x, d, a, o, z : [Fil_Rec(k, p, t, x, d, a, o) EXCEPT !.dirs = z] = Fil_Rec(k, p,
       t, x, z, a, o)
  /\ \A k, p, t, x, d, a, o, z : [Fil_Rec(k, p, t, x, d, a, o) EXCEPT !.at = z] = Fil_Rec(k, p, t,
       x, d, z, o)
  /\ \A k, p, t, x, d, a, o, z : [Fil_Rec(k, p, t, x, d, a, o) EXCEPT !.ok = z] = Fil_Rec(k, p, t,
       x, d, a, z)
  BY DEF Fil_Rec

LEMMA Fil_OpRec ==
  \A o : Fil_Op(o) => o = Fil_Rec(o.kind, o.path, o.to, o.text, o.dirs, o.at, o.ok)
  BY Fil_OpFields DEF Fil_Rec

\* A request that writes is refused.
LEMMA Fil_RefusedGood ==
  ASSUME NEW v, NEW r, NEW f, NEW o, Fil_Good(v, r, f, o), o.at = "sent", o.kind \in Fil_Writers,
         NEW e, e = Fil_At(o, "done", FALSE)
  PROVE  Fil_Good(v, r, f, e)
<1>1. /\ e.kind = o.kind /\ e.path = o.path /\ e.to = o.to /\ e.text = o.text /\ e.dirs = o.dirs
      /\ e.at = "done" /\ ~e.ok
  BY DEF Fil_At, Fil_Rec
<1> HIDE DEF Fil_At, Fil_Rec
<1>2. ~Fil_Landed(e) /\ ~Fil_Landed(o)
  BY <1>1 DEF Fil_Landed
<1>3. (Fil_Stale(e) <=> Fil_Stale(o)) /\ \A p : Fil_Apart(e, p) <=> Fil_Apart(o, p)
  BY <1>1, <1>2 DEF Fil_Stale, Fil_Apart, Fil_Replacing
<1>4. Fil_TreeOK(v, r, e) /\ Fil_TabsOK(v, f, e)
  BY <1>3 DEF Fil_Good, Fil_TreeOK, Fil_TabsOK
<1>5. Fil_DirsOK(v, r, e)
  BY <1>1 DEF Fil_Good, Fil_DirsOK
<1>6. Fil_TextOK(v, f, e)
  BY <1>1, <1>2 DEF Fil_Good, Fil_TextOK
<1>7. Fil_PlaceOK(v, f, e)
  BY <1>1, <1>2 DEF Fil_PlaceOK
<1>8. Fil_MoveOK(v, f, e)
  BY <1>1, <1>2 DEF Fil_Good, Fil_MoveOK, Fil_Carries, Fil_Writers
<1> QED BY <1>4, <1>5, <1>6, <1>7, <1>8 DEF Fil_Good

\* A request that writes leaves w, and does not touch the tabs it is not about.
LEMMA Fil_LandedGood ==
  ASSUME NEW v, NEW r, NEW f, NEW o, Fil_Good(v, r, f, o), o.at = "sent", o.kind \in Fil_Writers,
         NEW e, e = Fil_At(o, "done", TRUE), NEW w,
         \A p \in DOMAIN f : Fil_FileIn(v, p) /\ ~Fil_Apart(e, p) => p \in DOMAIN w /\ w[p] = v[p],
         o.kind = "save" => Fil_FileIn(w, o.path) /\ w[o.path] = o.text,
         o.kind = "newFolder" => Fil_DirIn(w, o.path) /\ Fil_ListIn(w, o.path) = {},
         o.kind = "replace" => DOMAIN w \subseteq DOMAIN v /\ o.to \notin DOMAIN w
  PROVE  Fil_Good(w, r, f, e)
<1>1. /\ e.kind = o.kind /\ e.path = o.path /\ e.to = o.to /\ e.text = o.text /\ e.dirs = o.dirs
      /\ e.at = "done" /\ e.ok
  BY DEF Fil_At, Fil_Rec
<1>2. Fil_Landed(e) /\ ~Fil_Landed(o)
  BY <1>1 DEF Fil_Landed
<1>3. Fil_Stale(e) /\ \A p : Fil_Apart(o, p) => Fil_Apart(e, p)
  BY <1>1, <1>2 DEF Fil_Stale, Fil_Apart, Fil_Replacing
<1>4. Fil_TreeOK(w, r, e)
  BY <1>3 DEF Fil_TreeOK
<1>5. Fil_TabsOK(w, f, e)
  BY <1>3 DEF Fil_Good, Fil_TabsOK, Fil_FileIn
<1>6. Fil_DirsOK(w, r, e)
  BY <1>1 DEF Fil_Good, Fil_DirsOK
<1>7. Fil_TextOK(w, f, e)
  BY <1>1, <1>2 DEF Fil_Good, Fil_TextOK, Fil_Writers
<1>8. Fil_PlaceOK(w, f, e)
  BY <1>1 DEF Fil_PlaceOK
<1>9. o.kind = "replace" => Fil_InsideOf(w, o.path) \subseteq Fil_InsideOf(v, o.path)
  BY DEF Fil_InsideOf
<1>10. Fil_MoveOK(w, f, e)
  BY <1>1, <1>9 DEF Fil_Good, Fil_MoveOK, Fil_Carries, Fil_Writers
<1> QED BY <1>4, <1>5, <1>6, <1>7, <1>8, <1>10 DEF Fil_Good

\* The tabs that a request of this kind leaves to its chain.
Fil_Leaves(o, p) ==
  \/ o.kind \in {"save", "rename", "delete", "move"} /\ p = o.path
  \/ o.kind = "replace" /\ Fil!IsPrefix(o.to, p)
  \/ Fil_Replacing(o) /\ p = o.to

LEMMA Fil_LeavesApart ==
  ASSUME NEW o, NEW p, Fil_Leaves(o, p) PROVE Fil_Apart(Fil_At(o, "done", TRUE), p)
<1> DEFINE e == Fil_At(o, "done", TRUE)
<1>1. e.kind = o.kind /\ e.path = o.path /\ e.to = o.to /\ e.text = o.text /\ e.at = "done" /\ e.ok
  BY DEF Fil_At, Fil_Rec
<1> HIDE DEF e
<1>2. Fil_Apart(e, p)
  BY <1>1 DEF Fil_Apart, Fil_Leaves, Fil_Landed, Fil_Replacing
<1> QED BY <1>2 DEF e

LEMMA Fil_GoesStep ==
  ASSUME Fil_Inv, NEW s \in Fil_Slots, NEW o, o = Fil_op[s], o.at = "sent", o.kind \in Fil_Writers,
         NEW can \in BOOLEAN, NEW w, Fil_volume' = IF can THEN w ELSE Fil_volume,
         Fil_op' = [Fil_op EXCEPT ![s].at = "done", ![s].ok = can],
         UNCHANGED <<Fil_tree, Fil_tabs, Fil_saved, Fil_ops, Fil_careless>>,
         can => Fil_Volume(w) /\ Fil_Rooted(w),
         can /\ Fil_Good(Fil_volume, Fil_tree, Fil_tabs, o) =>
           /\ \A p \in DOMAIN Fil_tabs :
                Fil_FileIn(Fil_volume, p) /\ ~Fil_Leaves(o, p) => p \in DOMAIN w /\
                     w[p] = Fil_volume[p]
           /\ o.kind = "save" => Fil_FileIn(w, o.path) /\ w[o.path] = o.text
           /\ o.kind = "newFolder" => Fil_DirIn(w, o.path) /\ Fil_ListIn(w, o.path) = {}
           /\ o.kind = "replace" => DOMAIN w \subseteq DOMAIN Fil_volume /\ o.to \notin DOMAIN w
  PROVE  Fil_Inv'
<1> DEFINE e == Fil_At(o, "done", can)
<1>1. Fil_Op(o) /\ Fil_Ops(Fil_op)
  BY DEF Fil_Inv, Fil_Types, Fil_Ops
<1>2. Fil_Op(e)
  BY <1>1, Fil_AtIn
<1>3. Fil_op' = [Fil_op EXCEPT ![s] = e]
  <2> DEFINE e1 == [o EXCEPT !.at = "done"]
             e2 == [e1 EXCEPT !.ok = can]
  <2>1. Fil_op' = [Fil_op EXCEPT ![s] = e2]
    BY <1>1 DEF Fil_Ops
  <2>2. e1 = Fil_Rec(o.kind, o.path, o.to, o.text, o.dirs, "done", o.ok)
    BY <1>1, Fil_OpRec, Fil_RecWith
  <2>3. e2 = Fil_Rec(o.kind, o.path, o.to, o.text, o.dirs, "done", can)
    <3> HIDE DEF e1
    <3> QED BY <2>2, Fil_RecWith DEF e2
  <2> HIDE DEF e1, e2
  <2> QED BY <2>1, <2>3 DEF Fil_At
<1>4. ASSUME Fil_Good(Fil_volume, Fil_tree, Fil_tabs, o)
      PROVE  Fil_Good(Fil_volume', Fil_tree', Fil_tabs', e)
  <2>1. CASE can
    <3>1. e = Fil_At(o, "done", TRUE)
      BY <2>1
    <3>2. \A p \in DOMAIN Fil_tabs : Fil_FileIn(Fil_volume, p) /\ ~Fil_Apart(e, p) =>
            ~Fil_Leaves(o, p)
      BY <3>1, Fil_LeavesApart
    <3> HIDE DEF e
    <3>3. \A p \in DOMAIN Fil_tabs :
            Fil_FileIn(Fil_volume, p) /\ ~Fil_Apart(e, p) => p \in DOMAIN w /\ w[p] = Fil_volume[p]
      BY <1>4, <2>1, <3>2
    <3>4. /\ o.kind = "save" => Fil_FileIn(w, o.path) /\ w[o.path] = o.text
          /\ o.kind = "newFolder" => Fil_DirIn(w, o.path) /\ Fil_ListIn(w, o.path) = {}
          /\ o.kind = "replace" => DOMAIN w \subseteq DOMAIN Fil_volume /\ o.to \notin DOMAIN w
      BY <1>4, <2>1
    <3>5. Fil_Good(w, Fil_tree, Fil_tabs, e)
      BY <1>4, <3>1, <3>3, <3>4, Fil_LandedGood, ZenonT(30)
    <3> QED BY <2>1, <3>5
  <2>2. CASE ~can
    <3>1. e = Fil_At(o, "done", FALSE)
      BY <2>2
    <3> HIDE DEF e
    <3>2. Fil_Good(Fil_volume, Fil_tree, Fil_tabs, e)
      BY <1>4, <3>1, Fil_RefusedGood
    <3> QED BY <2>2, <3>2
  <2> QED BY <2>1, <2>2
<1> HIDE DEF e
<1>5. Fil_Ops(Fil_op') /\ (Fil_careless' = {} => Fil_Safe')
  BY <1>1, <1>2, <1>3, <1>4, Fil_StepDoes DEF Fil_Inv
<1>6. Fil_Volume(Fil_volume') /\ Fil_Rooted(Fil_volume')
  BY DEF Fil_Inv, Fil_Types
<1> QED BY <1>5, <1>6 DEF Fil_Inv, Fil_Types

LEMMA Fil_PutStep ==
  ASSUME Fil_Inv, NEW s \in Fil_Slots, Fil_op[s].kind \in {"save", "newFile", "upload"},
         Fil!Goes(s, Fil!CanPut(Fil_op[s].path), Fil!Put(Fil_op[s].path, Fil_op[s].text))
  PROVE  Fil_Inv'
<1> DEFINE o == Fil_op[s]
           can == Fil!CanPut(o.path)
           w == Fil!Put(o.path, o.text)
<1>1. /\ o.at = "sent" /\ Fil_volume' = (IF can THEN w ELSE Fil_volume)
      /\ Fil_op' = [Fil_op EXCEPT ![s].at = "done", ![s].ok = can]
      /\ UNCHANGED <<Fil_tree, Fil_tabs, Fil_saved, Fil_ops, Fil_careless>>
  BY DEF Fil!Goes
<1>2. can \in BOOLEAN
  BY DEF Fil!CanPut
<1>3. Fil_Op(o)
  BY DEF Fil_Inv, Fil_Types, Fil_Ops
<1>4. o.path \in Fil!Paths /\ o.text \in Fil_Texts
  BY <1>3 DEF Fil_Op
<1>5. ASSUME can
      PROVE  /\ Fil_Volume(w) /\ Fil_Rooted(w) /\ Fil_FileIn(w, o.path) /\ w[o.path] = o.text
             /\ \A p \in DOMAIN Fil_volume : p # o.path => p \in DOMAIN w /\ w[p] = Fil_volume[p]
  BY <1>4, <1>5, Fil_PutDoes DEF Fil_Inv, Fil_Types
<1>6. o.kind \in Fil_Writers /\ o.kind \in {"save", "newFile", "upload"}
  BY DEF Fil_Writers
<1> HIDE DEF o, can, w
<1>7. ASSUME can, Fil_Good(Fil_volume, Fil_tree, Fil_tabs, o)
      PROVE  /\ \A p \in DOMAIN Fil_tabs :
                  Fil_FileIn(Fil_volume, p) /\ ~Fil_Leaves(o, p)
                    => p \in DOMAIN w /\ w[p] = Fil_volume[p]
             /\ o.kind = "save" => Fil_FileIn(w, o.path) /\ w[o.path] = o.text
  <2>1. ASSUME NEW p \in DOMAIN Fil_tabs, ~Fil_Leaves(o, p) PROVE p # o.path
    BY <1>1, <1>6, <1>7, <2>1 DEF Fil_Leaves, Fil_Good, Fil_PlaceOK
  <2> QED BY <1>5, <1>7, <2>1 DEF Fil_FileIn
<1>8. o.kind # "newFolder" /\ o.kind # "replace"
  BY <1>6
<1>9. o = Fil_op[s]
  BY DEF o
<1> QED BY <1>1, <1>2, <1>5, <1>6, <1>7, <1>8, <1>9, Fil_GoesStep

LEMMA Fil_MkdirStep ==
  ASSUME Fil_Inv, NEW s \in Fil_Slots, Fil_op[s].kind = "newFolder",
         Fil!Goes(s, Fil!CanMkdir(Fil_op[s].path), Fil!Mkdir(Fil_op[s].path))
  PROVE  Fil_Inv'
<1> DEFINE o == Fil_op[s]
           can == Fil!CanMkdir(o.path)
           w == Fil!Mkdir(o.path)
<1>1. /\ o.at = "sent" /\ Fil_volume' = (IF can THEN w ELSE Fil_volume)
      /\ Fil_op' = [Fil_op EXCEPT ![s].at = "done", ![s].ok = can]
      /\ UNCHANGED <<Fil_tree, Fil_tabs, Fil_saved, Fil_ops, Fil_careless>>
  BY DEF Fil!Goes
<1>2. can \in BOOLEAN
  BY DEF Fil!CanMkdir
<1>3. Fil_Op(o)
  BY DEF Fil_Inv, Fil_Types, Fil_Ops
<1>4. o.path \in Fil!Paths
  BY <1>3 DEF Fil_Op
<1>5. ASSUME can
      PROVE  /\ Fil_Volume(w) /\ Fil_Rooted(w) /\ Fil_DirIn(w, o.path)
             /\ \A p \in DOMAIN Fil_volume : p \in DOMAIN w /\ w[p] = Fil_volume[p]
             /\ ~Fil_DirIn(Fil_volume, o.path) => Fil_ListIn(w, o.path) = {}
  BY <1>4, <1>5, Fil_MkdirDoes DEF Fil_Inv, Fil_Types
<1>6. o.kind \in Fil_Writers /\ o.kind = "newFolder"
  BY DEF Fil_Writers
<1> HIDE DEF o, can, w
<1>7. ASSUME can, Fil_Good(Fil_volume, Fil_tree, Fil_tabs, o)
      PROVE  /\ \A p \in DOMAIN Fil_tabs :
                  Fil_FileIn(Fil_volume, p) => p \in DOMAIN w /\ w[p] = Fil_volume[p]
             /\ Fil_DirIn(w, o.path) /\ Fil_ListIn(w, o.path) = {}
  <2>1. ~Fil_DirIn(Fil_volume, o.path)
    BY <1>1, <1>6, <1>7 DEF Fil_Good, Fil_PlaceOK
  <2> QED BY <1>5, <1>7, <2>1 DEF Fil_FileIn
<1>8. o = Fil_op[s]
  BY DEF o
<1> QED BY <1>1, <1>2, <1>5, <1>6, <1>7, <1>8, Fil_GoesStep

LEMMA Fil_MoveStep ==
  ASSUME Fil_Inv, NEW s \in Fil_Slots, Fil_op[s].kind \in {"rename", "move"},
         Fil!Goes(s, Fil!CanMove(Fil_op[s].path, Fil_op[s].to),
              Fil!Move(Fil_op[s].path, Fil_op[s].to))
  PROVE  Fil_Inv'
<1> DEFINE o == Fil_op[s]
           can == Fil!CanMove(o.path, o.to)
           w == Fil!Move(o.path, o.to)
<1>1. /\ o.at = "sent" /\ Fil_volume' = (IF can THEN w ELSE Fil_volume)
      /\ Fil_op' = [Fil_op EXCEPT ![s].at = "done", ![s].ok = can]
      /\ UNCHANGED <<Fil_tree, Fil_tabs, Fil_saved, Fil_ops, Fil_careless>>
  BY DEF Fil!Goes
<1>2. can \in BOOLEAN
  BY DEF Fil!CanMove
<1>3. Fil_Op(o)
  BY DEF Fil_Inv, Fil_Types, Fil_Ops
<1>4. o.path \in Fil!Paths /\ o.to \in Fil!Paths
  BY <1>3 DEF Fil_Op
<1>5. ASSUME can
      PROVE  /\ Fil_Volume(w) /\ Fil_Rooted(w)
             /\ \A p \in DOMAIN Fil_volume :
                  ~Fil!IsPrefix(o.path, p) /\ p # Fil_TargetIn(Fil_volume, o.path, o.to)
                    => p \in DOMAIN w /\ w[p] = Fil_volume[p]
  BY <1>4, <1>5, Fil_MoveDoes DEF Fil_Inv, Fil_Types
<1>6. o.kind \in Fil_Writers /\ o.kind \in {"rename", "move"}
  BY DEF Fil_Writers
<1> HIDE DEF o, can, w
<1>7. ASSUME can, Fil_Good(Fil_volume, Fil_tree, Fil_tabs, o), NEW p \in DOMAIN Fil_tabs,
             Fil_FileIn(Fil_volume, p), ~Fil_Leaves(o, p)
      PROVE  p \in DOMAIN w /\ w[p] = Fil_volume[p]
  <2>1. p # o.path /\ p \in DOMAIN Fil_volume
    BY <1>6, <1>7 DEF Fil_Leaves, Fil_FileIn
  <2>2. Fil_InsideOf(Fil_volume, o.path) \cap DOMAIN Fil_tabs \subseteq {o.path}
    BY <1>1, <1>6, <1>7 DEF Fil_Good, Fil_MoveOK, Fil_Carries
  <2>3. ~Fil!IsPrefix(o.path, p)
    BY <2>1, <2>2 DEF Fil_InsideOf
  <2>4. CASE o.kind = "rename"
    <3>1. Fil_TargetIn(Fil_volume, o.path, o.to) \notin DOMAIN Fil_tabs
      BY <1>1, <1>7, <2>4 DEF Fil_Good, Fil_MoveOK
    <3> QED BY <1>5, <1>7, <2>1, <2>3, <3>1
  <2>5. CASE o.kind = "move"
    <3>1. o.to \notin DOMAIN Fil_volume
      BY <1>1, <1>7, <2>5 DEF Fil_Good, Fil_MoveOK
    <3>2. Fil_TargetIn(Fil_volume, o.path, o.to) = o.to
      BY <1>4, <3>1, Fil_PathSeq DEF Fil_TargetIn, Fil_DirIn
    <3> QED BY <1>5, <1>7, <2>1, <2>3, <3>1, <3>2
  <2> QED BY <1>6, <2>4, <2>5
<1>8. o.kind # "newFolder" /\ o.kind # "replace" /\ o.kind # "save"
  BY <1>6
<1>9. o = Fil_op[s]
  BY DEF o
<1> QED BY <1>1, <1>2, <1>5, <1>6, <1>7, <1>8, <1>9, Fil_GoesStep

LEMMA Fil_RemoveStep ==
  ASSUME Fil_Inv, NEW s \in Fil_Slots, Fil_op[s].kind \in {"delete", "replace"}, NEW path,
         path = IF Fil_op[s].kind = "delete" THEN Fil_op[s].path ELSE Fil_op[s].to,
         Fil!Goes(s, path \in DOMAIN Fil_volume, Fil!Removed(path))
  PROVE  Fil_Inv'
<1> DEFINE o == Fil_op[s]
           can == path \in DOMAIN Fil_volume
           w == Fil!Removed(path)
<1>1. /\ o.at = "sent" /\ Fil_volume' = (IF can THEN w ELSE Fil_volume)
      /\ Fil_op' = [Fil_op EXCEPT ![s].at = "done", ![s].ok = can]
      /\ UNCHANGED <<Fil_tree, Fil_tabs, Fil_saved, Fil_ops, Fil_careless>>
  BY DEF Fil!Goes
<1>2. can \in BOOLEAN
  OBVIOUS
<1>3. Fil_Op(o)
  BY DEF Fil_Inv, Fil_Types, Fil_Ops
<1>4. path \in Fil!Paths /\ path = IF o.kind = "delete" THEN o.path ELSE o.to
  BY <1>3 DEF Fil_Op
<1>5. /\ Fil_Volume(w) /\ Fil_Rooted(w) /\ path \notin DOMAIN w
      /\ DOMAIN w \subseteq DOMAIN Fil_volume
      /\ \A p \in DOMAIN Fil_volume :
           ~Fil!IsPrefix(path, p) => p \in DOMAIN w /\ w[p] = Fil_volume[p]
  BY <1>4, Fil_RemovedDoes DEF Fil_Inv, Fil_Types
<1>6. o.kind \in Fil_Writers /\ o.kind \in {"delete", "replace"}
  BY DEF Fil_Writers
<1> HIDE DEF o, can, w
<1>7. ASSUME can, Fil_Good(Fil_volume, Fil_tree, Fil_tabs, o), NEW p \in DOMAIN Fil_tabs,
             Fil_FileIn(Fil_volume, p), ~Fil_Leaves(o, p)
      PROVE  p \in DOMAIN w /\ w[p] = Fil_volume[p]
  <2>1. p \in DOMAIN Fil_volume
    BY <1>7 DEF Fil_FileIn
  <2>2. CASE o.kind = "delete"
    <3>1. p # o.path
      BY <1>7, <2>2 DEF Fil_Leaves
    <3>2. Fil_InsideOf(Fil_volume, o.path) \cap DOMAIN Fil_tabs \subseteq {o.path}
      BY <1>1, <1>7, <2>2 DEF Fil_Good, Fil_MoveOK, Fil_Carries
    <3>3. ~Fil!IsPrefix(o.path, p)
      BY <2>1, <3>1, <3>2 DEF Fil_InsideOf
    <3> QED BY <1>4, <1>5, <2>1, <2>2, <3>3
  <2>3. CASE o.kind = "replace"
    <3>1. ~Fil!IsPrefix(o.to, p)
      BY <1>7, <2>3 DEF Fil_Leaves
    <3> QED BY <1>4, <1>5, <2>1, <2>3, <3>1
  <2> QED BY <1>6, <2>2, <2>3
<1>8. o.kind # "newFolder" /\ o.kind # "save" /\ (o.kind = "replace" => path = o.to)
  BY <1>4, <1>6
<1>9. o = Fil_op[s]
  BY DEF o
<1> QED BY <1>1, <1>2, <1>5, <1>6, <1>7, <1>8, <1>9, Fil_GoesStep

LEMMA Fil_WritesStep == ASSUME Fil_Inv, NEW s \in Fil_Slots, Fil!Writes(s) PROVE Fil_Inv'
<1> DEFINE o == Fil_op[s]
           path == IF o.kind = "delete" THEN o.path ELSE o.to
<1>1. \/ o.kind \in {"save", "newFile", "upload"} /\
           Fil!Goes(s, Fil!CanPut(o.path), Fil!Put(o.path, o.text))
      \/ o.kind = "newFolder" /\ Fil!Goes(s, Fil!CanMkdir(o.path), Fil!Mkdir(o.path))
      \/ o.kind \in {"rename", "move"} /\
           Fil!Goes(s, Fil!CanMove(o.path, o.to), Fil!Move(o.path, o.to))
      \/ o.kind \in {"delete", "replace"} /\
           Fil!Goes(s, path \in DOMAIN Fil_volume, Fil!Removed(path))
  BY DEF Fil!Writes
<1>2. CASE /\ o.kind \in {"save", "newFile", "upload"}
           /\ Fil!Goes(s, Fil!CanPut(o.path), Fil!Put(o.path, o.text))
  BY <1>2, Fil_PutStep
<1>3. CASE o.kind = "newFolder" /\ Fil!Goes(s, Fil!CanMkdir(o.path), Fil!Mkdir(o.path))
  BY <1>3, Fil_MkdirStep
<1>4. CASE /\ o.kind \in {"rename", "move"}
           /\ Fil!Goes(s, Fil!CanMove(o.path, o.to), Fil!Move(o.path, o.to))
  BY <1>4, Fil_MoveStep
<1>5. CASE /\ o.kind \in {"delete", "replace"}
           /\ Fil!Goes(s, path \in DOMAIN Fil_volume, Fil!Removed(path))
  BY <1>5, Fil_RemoveStep
<1> QED BY <1>1, <1>2, <1>3, <1>4, <1>5

\* A chain of the slot s goes on as e; the volume stays as it is.
LEMMA Fil_GoesOn ==
  ASSUME Fil_Inv, NEW s \in Fil_Slots, NEW o, o = Fil_op[s], o.at # "idle", NEW e, Fil_Op(e),
         Fil_op' = [Fil_op EXCEPT ![s] = e], UNCHANGED <<Fil_volume, Fil_ops>>,
         Fil_Tree(Fil_tree'), Fil_TabsIn(Fil_tabs'), DOMAIN Fil_saved' = DOMAIN Fil_tabs',
         Fil_careless' = {} => Fil_careless = {},
         Fil_careless' = {} /\ Fil_Good(Fil_volume, Fil_tree, Fil_tabs, o)
           => Fil_Good(Fil_volume, Fil_tree', Fil_tabs', e)
  PROVE  Fil_Inv'
<1>1. Fil_Ops(Fil_op) /\ (Fil_careless = {} => Fil_Safe)
  BY DEF Fil_Inv, Fil_Types
<1>2. Fil_Ops(Fil_op') /\ (Fil_careless' = {} => Fil_Safe')
  BY <1>1, Fil_StepDoes
<1> QED BY <1>2 DEF Fil_Inv, Fil_Types

LEMMA Fil_OpIn == ASSUME Fil_Inv, NEW s \in Fil_Slots PROVE Fil_Op(Fil_op[s]) /\ Fil_Ops(Fil_op)
  BY DEF Fil_Inv, Fil_Types, Fil_Ops

LEMMA Fil_KindFacts ==
  ASSUME NEW o, Fil_Op(o), o.at # "idle"
  PROVE  /\ o.kind \in Fil!Kinds /\ o.path \in Fil_AllDirs /\ o.to \in Fil_AllDirs
         /\ o.text \in Fil_Texts \cup {"clash"} /\ o.ok \in BOOLEAN
         /\ o.kind \notin {"load", "refresh"} => o.path \in Fil!Paths
         /\ o.kind \in {"read", "save", "newFile", "upload"} => o.text \in Fil_Texts
         /\ o.kind = "check" => o.to \in Fil_Dirs
         /\ o.kind \in {"rename", "move", "replace"} => o.to \in Fil!Paths
<1>1. o.kind \in Fil!Kinds
  BY Fil_KindKnown
<1>2. o.kind \notin {"load", "refresh"} => o.path \in Fil!Paths
  BY <1>1 DEF Fil_Op, Fil!Kinds
<1>3. /\ o.kind \in {"read", "save", "newFile", "upload"} => o.text \in Fil_Texts
      /\ o.kind = "check" => o.to \in Fil_Dirs
      /\ o.kind \in {"rename", "move", "replace"} => o.to \in Fil!Paths
  BY DEF Fil_Op
<1> QED BY <1>1, <1>2, <1>3, Fil_OpFields

LEMMA Fil_RecIn ==
  \A kind \in Fil!Kinds, path \in Fil_AllDirs, to \in Fil_AllDirs,
       text \in Fil_Texts \cup {"clash"},
     dirs \in SUBSET Fil_AllDirs, at \in {"sent", "done", "reload"}, ok \in BOOLEAN :
    /\ kind \notin {"load", "refresh"} => path \in Fil!Paths
    /\ kind \in {"read", "save", "newFile", "upload"} => text \in Fil_Texts
    /\ kind = "check" => to \in Fil_Dirs
    /\ kind \in {"rename", "move", "replace"} => to \in Fil!Paths
    => Fil_Op(Fil_Rec(kind, path, to, text, dirs, at, ok))
<1> TAKE kind \in Fil!Kinds, path \in Fil_AllDirs, to \in Fil_AllDirs,
      text \in Fil_Texts \cup {"clash"},
         dirs \in SUBSET Fil_AllDirs, at \in {"sent", "done", "reload"}, ok \in BOOLEAN
<1> HAVE /\ kind \notin {"load", "refresh"} => path \in Fil!Paths
         /\ kind \in {"read", "save", "newFile", "upload"} => text \in Fil_Texts
         /\ kind = "check" => to \in Fil_Dirs
         /\ kind \in {"rename", "move", "replace"} => to \in Fil!Paths
<1> DEFINE e == Fil_Rec(kind, path, to, text, dirs, at, ok)
<1>1. e = [kind |-> kind, path |-> path, to |-> to, text |-> text, dirs |-> dirs, at |-> at,
        ok |-> ok]
  BY DEF Fil_Rec
<1> HIDE DEF e
<1>2. Fil_Op(e)
  BY <1>1, Fil_WaitingIn
<1> QED BY <1>2 DEF e

LEMMA Fil_ListNames == Fil_Volume(Fil_volume) =>
     \A d : Fil_ListIn(Fil_volume, d) \subseteq Fil_Names
  BY Fil_PathParts DEF Fil_Volume, Fil_ListIn

\* A read brings the text of the file.
LEMMA Fil_ReadStep ==
  ASSUME Fil_Inv, NEW s \in Fil_Slots, NEW o, o = Fil_op[s], o.at = "sent", o.kind = "read",
         NEW there \in BOOLEAN, NEW text \in Fil_Texts,
         there => Fil_FileIn(Fil_volume, o.path) /\ text = Fil_volume[o.path],
         NEW e, e = Fil_Rec(o.kind, o.path, o.to, text, o.dirs, "done", there),
              Fil_op' = [Fil_op EXCEPT ![s] = e],
         UNCHANGED <<Fil_volume, Fil_tree, Fil_tabs, Fil_saved, Fil_ops, Fil_careless>>
  PROVE  Fil_Inv'
<1>1. Fil_Op(o) /\ Fil_Ops(Fil_op)
  BY Fil_OpIn
<1>9. /\ e.kind = "read" /\ e.path = o.path /\ e.at = "done" /\ e.text = text /\ e.ok = there
  BY DEF Fil_Rec
<1>10. Fil_Op(e)
  <2>1. o.path \in Fil!Paths /\ o.to \in Fil_AllDirs /\ o.path \in Fil_AllDirs /\
          o.dirs \in SUBSET Fil_AllDirs
    BY <1>1, Fil_KindFacts, Fil_OpFields
  <2>2. o.kind \in Fil!Kinds
    BY DEF Fil!Kinds
  <2> QED BY <2>1, <2>2, Fil_RecIn
<1>11. ASSUME Fil_Good(Fil_volume, Fil_tree, Fil_tabs, o)
       PROVE  Fil_Good(Fil_volume, Fil_tree, Fil_tabs, e)
  <2>1. ~Fil_Stale(e) /\ ~Fil_Stale(o)
    BY <1>9 DEF Fil_Stale, Fil_Landed, Fil_Replacing, Fil_Writers
  <2>2. \A p : ~Fil_Apart(e, p) /\ ~Fil_Apart(o, p)
    BY <1>9 DEF Fil_Apart, Fil_Landed, Fil_Replacing
  <2>3. Fil_TreeOK(Fil_volume, Fil_tree, e) /\ Fil_TabsOK(Fil_volume, Fil_tabs, e)
    BY <1>11, <2>1, <2>2 DEF Fil_Good, Fil_TreeOK, Fil_TabsOK
  <2>4. Fil_DirsOK(Fil_volume, Fil_tree, e)
    BY <1>9 DEF Fil_DirsOK
  <2>5. Fil_TextOK(Fil_volume, Fil_tabs, e)
    BY <1>9 DEF Fil_TextOK, Fil_Landed
  <2>6. Fil_PlaceOK(Fil_volume, Fil_tabs, e)
    BY <1>9 DEF Fil_PlaceOK
  <2>7. Fil_MoveOK(Fil_volume, Fil_tabs, e)
    BY <1>9 DEF Fil_MoveOK, Fil_Carries
  <2> QED BY <2>3, <2>4, <2>5, <2>6, <2>7 DEF Fil_Good
<1> QED BY <1>10, <1>11, Fil_GoesOn DEF Fil_Inv, Fil_Types

\* The listing of a folder that is opened.
LEMMA Fil_LoadStep ==
  ASSUME Fil_Inv, NEW s \in Fil_Slots, NEW o, o = Fil_op[s], o.at = "sent", o.kind = "load",
           NEW dirs,
         dirs \subseteq {<<o.path, Fil_ListIn(Fil_volume, o.path)>>},
         NEW e, e = Fil_Rec(o.kind, o.path, o.to, o.text, dirs, "reloaded", o.ok),
              Fil_op' = [Fil_op EXCEPT ![s] = e],
         UNCHANGED <<Fil_volume, Fil_tree, Fil_tabs, Fil_saved, Fil_ops, Fil_careless>>
  PROVE  Fil_Inv'
<1>1. Fil_Op(o) /\ Fil_Ops(Fil_op)
  BY Fil_OpIn
<1>3. o.path \in Fil_AllDirs /\ Fil_ListIn(Fil_volume, o.path) \in SUBSET Fil_Names
  BY <1>1, Fil_OpFields, Fil_ListNames DEF Fil_Inv, Fil_Types
<1>4. dirs \in SUBSET (Fil_AllDirs \X SUBSET Fil_Names)
  BY <1>3
<1>9. e.kind = "load" /\ e.path = o.path /\ e.at = "reloaded" /\ e.dirs = dirs
  BY DEF Fil_Rec
<1>10. Fil_Op(e)
  <2>1. o.kind \in Fil!Kinds
    BY <1>1, Fil_KindKnown
  <2> QED BY <1>1, <1>4, <2>1, Fil_ListedIn DEF Fil_Rec
<1>11. ASSUME Fil_Good(Fil_volume, Fil_tree, Fil_tabs, o)
       PROVE  Fil_Good(Fil_volume, Fil_tree, Fil_tabs, e)
  <2>1. ~Fil_Stale(o)
    BY DEF Fil_Stale, Fil_Landed, Fil_Replacing
  <2>2. \A p : ~Fil_Apart(e, p) /\ ~Fil_Apart(o, p)
    BY <1>9 DEF Fil_Apart, Fil_Landed, Fil_Replacing
  <2>3. Fil_TreeOK(Fil_volume, Fil_tree, e) /\ Fil_TabsOK(Fil_volume, Fil_tabs, e)
    BY <1>11, <2>1, <2>2 DEF Fil_Good, Fil_TreeOK, Fil_TabsOK
  <2>4. Fil_DirsOK(Fil_volume, Fil_tree, e)
    BY <1>9 DEF Fil_DirsOK
  <2>5. Fil_TextOK(Fil_volume, Fil_tabs, e)
    BY <1>9 DEF Fil_TextOK
  <2>6. Fil_PlaceOK(Fil_volume, Fil_tabs, e)
    BY <1>9 DEF Fil_PlaceOK
  <2>7. Fil_MoveOK(Fil_volume, Fil_tabs, e)
    BY <1>9 DEF Fil_MoveOK, Fil_Carries
  <2> QED BY <2>3, <2>4, <2>5, <2>6, <2>7 DEF Fil_Good
<1> QED BY <1>10, <1>11, Fil_GoesOn DEF Fil_Inv, Fil_Types

\* A refresh only lists.
LEMMA Fil_RefreshSentStep ==
  ASSUME Fil_Inv, NEW s \in Fil_Slots, NEW o, o = Fil_op[s], o.at = "sent", o.kind = "refresh",
         NEW e, e = Fil_At(o, "reload", o.ok), Fil_op' = [Fil_op EXCEPT ![s] = e],
         UNCHANGED <<Fil_volume, Fil_tree, Fil_tabs, Fil_saved, Fil_ops, Fil_careless>>
  PROVE  Fil_Inv'
<1>1. Fil_Op(o) /\ Fil_Ops(Fil_op)
  BY Fil_OpIn
<1>4. e.kind = "refresh" /\ e.at = "reload" /\ e.dirs = o.dirs
  BY DEF Fil_At, Fil_Rec
<1>5. Fil_Op(e)
  BY <1>1, Fil_AtIn, Fil_OpFields
<1>6. ASSUME Fil_Good(Fil_volume, Fil_tree, Fil_tabs, o)
      PROVE  Fil_Good(Fil_volume, Fil_tree, Fil_tabs, e)
  <2>1. Fil_Stale(e) /\ \A p : ~Fil_Apart(o, p)
    BY <1>4 DEF Fil_Stale, Fil_Apart, Fil_Landed, Fil_Replacing
  <2>2. Fil_TreeOK(Fil_volume, Fil_tree, e) /\ Fil_TabsOK(Fil_volume, Fil_tabs, e)
    BY <1>6, <2>1 DEF Fil_Good, Fil_TreeOK, Fil_TabsOK
  <2>3. Fil_DirsOK(Fil_volume, Fil_tree, e)
    BY <1>4, <1>6 DEF Fil_Good, Fil_DirsOK
  <2>4. Fil_TextOK(Fil_volume, Fil_tabs, e)
    BY <1>4 DEF Fil_TextOK
  <2>5. Fil_PlaceOK(Fil_volume, Fil_tabs, e)
    BY <1>4 DEF Fil_PlaceOK
  <2>6. Fil_MoveOK(Fil_volume, Fil_tabs, e)
    BY <1>4 DEF Fil_MoveOK, Fil_Carries
  <2> QED BY <2>2, <2>3, <2>4, <2>5, <2>6 DEF Fil_Good
<1> QED BY <1>5, <1>6, Fil_GoesOn DEF Fil_Inv, Fil_Types

\* A name is not listed when nothing is there.
LEMMA Fil_NotListed ==
  ASSUME NEW v, Fil_Volume(v), NEW d \in Fil_Dirs, NEW n \in Fil_Names, n \notin Fil_ListIn(v, d)
  PROVE  Fil!joinPath(d, n) \in Fil!Paths /\ Fil!joinPath(d, n) \notin DOMAIN v
  BY Fil_JoinParts DEF Fil_ListIn

\* A move asks first what the folder holds.
LEMMA Fil_CheckStep ==
  ASSUME Fil_Inv, NEW s \in Fil_Slots, NEW o, o = Fil_op[s], o.at = "sent", o.kind = "check",
         NEW there \in BOOLEAN,
         NEW text \in Fil_Texts \cup {"clash"},
         text = "clash" \/ Fil!baseOf(o.path) \notin Fil_ListIn(Fil_volume, o.to),
         NEW e, e = Fil_Rec(o.kind, o.path, o.to, text, o.dirs, "done", there),
              Fil_op' = [Fil_op EXCEPT ![s] = e],
         UNCHANGED <<Fil_volume, Fil_tree, Fil_tabs, Fil_saved, Fil_ops, Fil_careless>>
  PROVE  Fil_Inv'
<1>1. Fil_Op(o) /\ Fil_Ops(Fil_op)
  BY Fil_OpIn
<1>9. /\ e.kind = "check" /\ e.path = o.path /\ e.to = o.to /\ e.at = "done" /\ e.text = text
      /\ e.dirs = o.dirs
  BY DEF Fil_Rec
<1>10. o.path \in Fil!Paths /\ o.to \in Fil_Dirs /\ o.path \in Fil_AllDirs /\
         o.dirs \in SUBSET Fil_AllDirs
  BY <1>1, Fil_KindFacts, Fil_OpFields
<1>11. Fil_Op(e)
  <2>1. o.kind \in Fil!Kinds
    BY DEF Fil!Kinds
  <2>2. o.to \in Fil_AllDirs
    BY <1>1, Fil_KindFacts
  <2>3. o.kind = "check"
    OBVIOUS
  <2> QED BY <1>10, <2>1, <2>2, <2>3, Fil_RecIn
<1>12. text # "clash" => Fil!joinPath(o.to, Fil!baseOf(o.path)) \notin DOMAIN Fil_volume
  BY <1>10, Fil_NotListed, Fil_PathParts DEF Fil_Inv, Fil_Types
<1>13. ASSUME Fil_Good(Fil_volume, Fil_tree, Fil_tabs, o)
       PROVE  Fil_Good(Fil_volume, Fil_tree, Fil_tabs, e)
  <2>1. ~Fil_Stale(e) /\ ~Fil_Stale(o)
    BY <1>9 DEF Fil_Stale, Fil_Landed, Fil_Replacing, Fil_Writers
  <2>2. \A p : ~Fil_Apart(e, p) /\ ~Fil_Apart(o, p)
    BY <1>9 DEF Fil_Apart, Fil_Landed, Fil_Replacing
  <2>3. Fil_TreeOK(Fil_volume, Fil_tree, e) /\ Fil_TabsOK(Fil_volume, Fil_tabs, e)
    BY <1>13, <2>1, <2>2 DEF Fil_Good, Fil_TreeOK, Fil_TabsOK
  <2>4. Fil_DirsOK(Fil_volume, Fil_tree, e)
    BY <1>9, <1>13 DEF Fil_Good, Fil_DirsOK
  <2>5. Fil_TextOK(Fil_volume, Fil_tabs, e)
    BY <1>9 DEF Fil_TextOK
  <2>6. Fil_PlaceOK(Fil_volume, Fil_tabs, e)
    BY <1>9 DEF Fil_PlaceOK
  <2>7. Fil_InsideOf(Fil_volume, o.path) \cap DOMAIN Fil_tabs \subseteq {o.path}
    BY <1>13 DEF Fil_Good, Fil_MoveOK, Fil_Carries
  <2>8. Fil_MoveOK(Fil_volume, Fil_tabs, e)
    BY <1>9, <1>12, <2>7 DEF Fil_MoveOK
  <2> QED BY <2>3, <2>4, <2>5, <2>6, <2>8 DEF Fil_Good
<1> QED BY <1>11, <1>13, Fil_GoesOn DEF Fil_Inv, Fil_Types

LEMMA Fil_ReadsStep == ASSUME Fil_Inv, NEW s \in Fil_Slots, Fil!Reads(s) PROVE Fil_Inv'
<1> DEFINE o == Fil_op[s]
           file == Fil!IsFile(o.path)
           text == IF file THEN Fil_volume[o.path] ELSE ""
           dir == Fil!IsDir(o.to)
           clash == IF Fil!baseOf(o.path) \in Fil!Listing(o.to) THEN "clash" ELSE ""
           dirs == IF Fil!IsDir(o.path) THEN {<<o.path, Fil!Listing(o.path)>>} ELSE {}
<1>1. o.at = "sent" /\ UNCHANGED <<Fil_volume, Fil_tree, Fil_tabs, Fil_saved, Fil_ops,
        Fil_careless>>
  BY DEF Fil!Reads
<1>2. \/ /\ o.kind = "read"
         /\ Fil_op' = [Fil_op EXCEPT ![s].at = "done", ![s].ok = file, ![s].text = text]
      \/ o.kind = "load" /\ Fil_op' = [Fil_op EXCEPT ![s].at = "reloaded", ![s].dirs = dirs]
      \/ o.kind = "refresh" /\ Fil_op' = [Fil_op EXCEPT ![s].at = "reload"]
      \/ /\ o.kind = "check"
         /\ Fil_op' = [Fil_op EXCEPT ![s].at = "done", ![s].ok = dir, ![s].text = clash]
  BY DEF Fil!Reads
<1>3. file \in BOOLEAN /\ dir \in BOOLEAN
  BY DEF Fil!IsFile, Fil!IsDir
<1>4. file => Fil_FileIn(Fil_volume, o.path) /\ text = Fil_volume[o.path]
  BY Fil_Views
<1>5. text \in Fil_Texts
  BY <1>4 DEF Fil_Inv, Fil_Assumption, Fil_Types, Fil_Volume, Fil!Nodes, Fil_FileIn
<1>6. /\ clash \in Fil_Texts \cup {"clash"}
      /\ clash = "clash" \/ Fil!baseOf(o.path) \notin Fil_ListIn(Fil_volume, o.to)
  BY Fil_Views DEF Fil_Inv, Fil_Assumption
<1>7. dirs \subseteq {<<o.path, Fil_ListIn(Fil_volume, o.path)>>}
  BY Fil_Views
<1>8. Fil_Op(o) /\ Fil_Ops(Fil_op)
  BY Fil_OpIn
<1>13. o = Fil_op[s]
  OBVIOUS
<1> HIDE DEF o, file, text, dir, clash, dirs
<1>9. CASE /\ o.kind = "read"
           /\ Fil_op' = [Fil_op EXCEPT ![s].at = "done", ![s].ok = file, ![s].text = text]
  <2> DEFINE e == Fil_Rec(o.kind, o.path, o.to, text, o.dirs, "done", file)
  <2>1. Fil_op' = [Fil_op EXCEPT ![s] = e]
    <3> DEFINE e1 == [o EXCEPT !.at = "done"]
               e2 == [e1 EXCEPT !.ok = file]
               e3 == [e2 EXCEPT !.text = text]
    <3>1. Fil_op' = [Fil_op EXCEPT ![s] = e3]
      BY <1>8, <1>13, <1>9 DEF Fil_Ops
    <3>2. e1 = Fil_Rec(o.kind, o.path, o.to, o.text, o.dirs, "done", o.ok)
      BY <1>8, Fil_OpRec, Fil_RecWith
    <3>3. e2 = Fil_Rec(o.kind, o.path, o.to, o.text, o.dirs, "done", file)
      <4> HIDE DEF e1
      <4> QED BY <3>2, Fil_RecWith DEF e2
    <3>4. e3 = Fil_Rec(o.kind, o.path, o.to, text, o.dirs, "done", file)
      <4> HIDE DEF e2
      <4> QED BY <3>3, Fil_RecWith DEF e3
    <3> HIDE DEF e1, e2, e3
    <3> QED BY <3>1, <3>4 DEF e
  <2>2. e = Fil_Rec(o.kind, o.path, o.to, text, o.dirs, "done", file)
    OBVIOUS
  <2> HIDE DEF e
  <2>3. o.kind = "read"
    BY <1>9, Zenon
  <2> QED BY <1>1, <1>3, <1>4, <1>5, <1>13, <2>3, <2>1, <2>2, Fil_ReadStep
<1>10. CASE o.kind = "load" /\ Fil_op' = [Fil_op EXCEPT ![s].at = "reloaded", ![s].dirs = dirs]
  <2> DEFINE e == Fil_Rec(o.kind, o.path, o.to, o.text, dirs, "reloaded", o.ok)
  <2>1. Fil_op' = [Fil_op EXCEPT ![s] = e]
    <3> DEFINE e1 == [o EXCEPT !.at = "reloaded"]
               e2 == [e1 EXCEPT !.dirs = dirs]
    <3>1. Fil_op' = [Fil_op EXCEPT ![s] = e2]
      BY <1>8, <1>13, <1>10 DEF Fil_Ops
    <3>2. e1 = Fil_Rec(o.kind, o.path, o.to, o.text, o.dirs, "reloaded", o.ok)
      BY <1>8, Fil_OpRec, Fil_RecWith
    <3>3. e2 = Fil_Rec(o.kind, o.path, o.to, o.text, dirs, "reloaded", o.ok)
      <4> HIDE DEF e1
      <4> QED BY <3>2, Fil_RecWith DEF e2
    <3> HIDE DEF e1, e2
    <3> QED BY <3>1, <3>3 DEF e
  <2>2. e = Fil_Rec(o.kind, o.path, o.to, o.text, dirs, "reloaded", o.ok)
    OBVIOUS
  <2> HIDE DEF e
  <2>3. o.kind = "load"
    BY <1>10, Zenon
  <2> QED BY <1>1, <1>7, <1>13, <2>3, <2>1, <2>2, Fil_LoadStep
<1>11. CASE o.kind = "refresh" /\ Fil_op' = [Fil_op EXCEPT ![s].at = "reload"]
  <2> DEFINE e == Fil_At(o, "reload", o.ok)
  <2>1. Fil_op' = [Fil_op EXCEPT ![s] = e]
    <3> DEFINE e1 == [o EXCEPT !.at = "reload"]
    <3>1. Fil_op' = [Fil_op EXCEPT ![s] = e1]
      BY <1>8, <1>13, <1>11 DEF Fil_Ops
    <3>2. e1 = Fil_Rec(o.kind, o.path, o.to, o.text, o.dirs, "reload", o.ok)
      BY <1>8, Fil_OpRec, Fil_RecWith
    <3> HIDE DEF e1
    <3> QED BY <3>1, <3>2 DEF Fil_At, e
  <2>2. e = Fil_At(o, "reload", o.ok)
    OBVIOUS
  <2> HIDE DEF e
  <2> QED BY <1>1, <1>13, <1>11, <2>1, <2>2, Fil_RefreshSentStep
<1>12. CASE /\ o.kind = "check"
            /\ Fil_op' = [Fil_op EXCEPT ![s].at = "done", ![s].ok = dir, ![s].text = clash]
  <2> DEFINE e == Fil_Rec(o.kind, o.path, o.to, clash, o.dirs, "done", dir)
  <2>1. Fil_op' = [Fil_op EXCEPT ![s] = e]
    <3> DEFINE e1 == [o EXCEPT !.at = "done"]
               e2 == [e1 EXCEPT !.ok = dir]
               e3 == [e2 EXCEPT !.text = clash]
    <3>1. Fil_op' = [Fil_op EXCEPT ![s] = e3]
      BY <1>8, <1>13, <1>12 DEF Fil_Ops
    <3>2. e1 = Fil_Rec(o.kind, o.path, o.to, o.text, o.dirs, "done", o.ok)
      BY <1>8, Fil_OpRec, Fil_RecWith
    <3>3. e2 = Fil_Rec(o.kind, o.path, o.to, o.text, o.dirs, "done", dir)
      <4> HIDE DEF e1
      <4> QED BY <3>2, Fil_RecWith DEF e2
    <3>4. e3 = Fil_Rec(o.kind, o.path, o.to, clash, o.dirs, "done", dir)
      <4> HIDE DEF e2
      <4> QED BY <3>3, Fil_RecWith DEF e3
    <3> HIDE DEF e1, e2, e3
    <3> QED BY <3>1, <3>4 DEF e
  <2>2. e = Fil_Rec(o.kind, o.path, o.to, clash, o.dirs, "done", dir)
    OBVIOUS
  <2> HIDE DEF e
  <2>3. o.kind = "check"
    BY <1>12, Zenon
  <2> QED BY <1>1, <1>3, <1>6, <1>13, <2>3, <2>1, <2>2, Fil_CheckStep
<1> QED BY <1>2, <1>9, <1>10, <1>11, <1>12

\* The folders are listed again.
LEMMA Fil_ListsStep == ASSUME Fil_Inv, NEW s \in Fil_Slots, Fil!Lists(s) PROVE Fil_Inv'
<1> DEFINE o == Fil_op[s]
           dirs == {<<d, Fil!Listing(d)>> : d \in {k \in Fil!Reloaded(o) : Fil!IsDir(k)}}
           e == Fil_Rec(o.kind, o.path, o.to, o.text, dirs, "reloaded", o.ok)
<1>1. o.at = "reload" /\ UNCHANGED <<Fil_volume, Fil_tree, Fil_tabs, Fil_saved, Fil_ops,
        Fil_careless>>
  BY DEF Fil!Lists
<1>2. Fil_op' = [Fil_op EXCEPT ![s].at = "reloaded", ![s].dirs = dirs]
  BY DEF Fil!Lists
<1>3. dirs = {<<d, Fil_ListIn(Fil_volume, d)>> : d \in {k \in o.dirs : Fil_DirIn(Fil_volume, k)}}
  BY Fil_Views DEF Fil!Reloaded
<1>8. Fil_Op(o) /\ Fil_Ops(Fil_op)
  BY Fil_OpIn
<1>13. o = Fil_op[s]
  OBVIOUS
<1> HIDE DEF o, dirs
<1>10. Fil_op' = [Fil_op EXCEPT ![s] = e]
  <2> DEFINE e1 == [o EXCEPT !.at = "reloaded"]
             e2 == [e1 EXCEPT !.dirs = dirs]
  <2>1. Fil_op' = [Fil_op EXCEPT ![s] = e2]
    BY <1>8, <1>13, <1>2 DEF Fil_Ops
  <2>2. e1 = Fil_Rec(o.kind, o.path, o.to, o.text, o.dirs, "reloaded", o.ok)
    BY <1>8, Fil_OpRec, Fil_RecWith
  <2>3. e2 = Fil_Rec(o.kind, o.path, o.to, o.text, dirs, "reloaded", o.ok)
    <3> HIDE DEF e1
    <3> QED BY <2>2, Fil_RecWith DEF e2
  <2> HIDE DEF e1, e2
  <2> QED BY <2>1, <2>3 DEF e
<1>4. dirs \in SUBSET (Fil_AllDirs \X SUBSET Fil_Names)
  <2>1. o.dirs \in SUBSET Fil_AllDirs
    BY <1>1, <1>8, Fil_OpFields
  <2>2. \A d : Fil_ListIn(Fil_volume, d) \subseteq Fil_Names
    BY Fil_ListNames DEF Fil_Inv, Fil_Types
  <2> QED BY <1>3, <2>1, <2>2
<1>5. Fil_Op(e)
  <2>1. o.kind \in Fil!Kinds
    BY <1>1, <1>8, Fil_KindKnown
  <2>2. e = [kind |-> o.kind, path |-> o.path, to |-> o.to, text |-> o.text, dirs |-> dirs,
             at |-> "reloaded", ok |-> o.ok]
    BY DEF Fil_Rec
  <2> HIDE DEF e
  <2> QED BY <1>4, <1>8, <2>1, <2>2, Fil_ListedIn
<1>6. /\ e.kind = o.kind /\ e.path = o.path /\ e.to = o.to /\ e.text = o.text /\ e.dirs = dirs
      /\ e.at = "reloaded" /\ e.ok = o.ok
  BY DEF Fil_Rec
<1> HIDE DEF e
<1>7. ASSUME Fil_Good(Fil_volume, Fil_tree, Fil_tabs, o)
      PROVE  Fil_Good(Fil_volume, Fil_tree, Fil_tabs, e)
  <2>1. o.kind \notin {"none", "read", "load"} /\ o.dirs = DOMAIN Fil_tree
    BY <1>1, <1>7 DEF Fil_Good, Fil_DirsOK
  <2>2. Fil_Stale(e) /\ \A p : ~Fil_Apart(o, p)
    BY <1>1, <1>6, <2>1 DEF Fil_Stale, Fil_Apart, Fil_Landed, Fil_Replacing
  <2>3. Fil_TreeOK(Fil_volume, Fil_tree, e) /\ Fil_TabsOK(Fil_volume, Fil_tabs, e)
    BY <1>7, <2>2 DEF Fil_Good, Fil_TreeOK, Fil_TabsOK
  <2>4. Fil_DirsOK(Fil_volume, Fil_tree, e)
    BY <1>3, <1>6, <2>1 DEF Fil_DirsOK
  <2>5. Fil_TextOK(Fil_volume, Fil_tabs, e)
    BY <1>6 DEF Fil_TextOK, Fil_Landed
  <2>6. Fil_PlaceOK(Fil_volume, Fil_tabs, e)
    BY <1>1, <1>6, <1>7 DEF Fil_Good, Fil_PlaceOK, Fil_Landed
  <2>7. Fil_MoveOK(Fil_volume, Fil_tabs, e)
    BY <1>6, <1>7 DEF Fil_Good, Fil_MoveOK, Fil_Carries, Fil_Landed
  <2> QED BY <2>3, <2>4, <2>5, <2>6, <2>7 DEF Fil_Good
<1>9. o.at # "idle" /\ Fil_op' = [Fil_op EXCEPT ![s] = e]
  BY <1>1, <1>10
<1> QED BY <1>1, <1>5, <1>7, <1>9, <1>13, Fil_GoesOn DEF Fil_Inv, Fil_Types

\* A chain that ends leaves the listings and the tabs in order.
LEMMA Fil_EndsStep ==
  ASSUME Fil_Inv, NEW s \in Fil_Slots, NEW o, o = Fil_op[s], o.at # "idle", Fil!Ends(s),
         UNCHANGED <<Fil_volume, Fil_ops>>, Fil_Tree(Fil_tree'), Fil_TabsIn(Fil_tabs'),
         DOMAIN Fil_saved' = DOMAIN Fil_tabs', Fil_careless' = {} => Fil_careless = {},
         Fil_careless' = {} /\ Fil_Good(Fil_volume, Fil_tree, Fil_tabs, o)
           => Fil_TreeOK(Fil_volume, Fil_tree', Fil!NoOp) /\
                Fil_TabsOK(Fil_volume, Fil_tabs', Fil!NoOp)
  PROVE  Fil_Inv'
<1> DEFINE e == Fil!NoOp
<1>1. Fil_op' = [Fil_op EXCEPT ![s] = e]
  BY DEF Fil!Ends
<1>2. Fil_Op(e)
  BY Fil_NoOpIn DEF Fil_Inv
<1>3. ASSUME Fil_careless' = {}, Fil_Good(Fil_volume, Fil_tree, Fil_tabs, o)
      PROVE  Fil_Good(Fil_volume, Fil_tree', Fil_tabs', e)
  BY <1>3, Fil_QuietGood
<1> HIDE DEF e
<1> QED BY <1>1, <1>2, <1>3, Fil_GoesOn

LEMMA Fil_RefusedStep == ASSUME Fil_Inv, NEW s \in Fil_Slots, Fil!Refused(s) PROVE Fil_Inv'
<1> DEFINE o == Fil_op[s]
           h == [Fil_tabs EXCEPT ![o.path].loading = FALSE, ![o.path].error = TRUE]
<1>1. /\ o.at = "done" /\ ~o.ok /\ Fil!Ends(s)
      /\ UNCHANGED <<Fil_volume, Fil_tree, Fil_saved, Fil_ops>>
      /\ Fil_careless' = Fil_careless
           \cup (IF o.kind = "move" /\ o.text = "clash" THEN {"partial"} ELSE {})
  BY DEF Fil!Refused
<1>2. Fil_tabs' = IF o.kind = "read" /\ o.path \in DOMAIN Fil_tabs THEN h ELSE Fil_tabs
  BY DEF Fil!Refused
<1>3. /\ DOMAIN Fil_tabs' = DOMAIN Fil_tabs
      /\ \A p \in DOMAIN Fil_tabs : Fil_tabs'[p] = Fil_tabs[p] \/
           (Fil_tabs'[p].error /\ Fil_tabs'[p] \in Fil_Tabs)
  <2>1. Fil_TabsIn(Fil_tabs)
    BY DEF Fil_Inv, Fil_Types
  <2>2. CASE o.kind = "read" /\ o.path \in DOMAIN Fil_tabs
    <3>1. Fil_tabs' = h
      BY <1>2, <2>2
    <3>2. Fil_tabs[o.path] \in Fil_Tabs
      BY <2>1, <2>2 DEF Fil_TabsIn
    <3>3. DOMAIN h = DOMAIN Fil_tabs /\ \A p \in DOMAIN Fil_tabs : p # o.path => h[p] = Fil_tabs[p]
      OBVIOUS
    <3>4. h[o.path] = [Fil_tabs[o.path] EXCEPT !.loading = FALSE, !.error = TRUE]
      BY <2>2
    <3>5. h[o.path].error /\ h[o.path] \in Fil_Tabs
      <4> DEFINE tab == Fil_tabs[o.path]
                 new == h[o.path]
      <4>1. /\ tab.content \in Fil_Texts /\ tab.original \in Fil_Texts
            /\ tab = [content |-> tab.content, original |-> tab.original, loading |-> tab.loading,
                      error |-> tab.error]
        BY <3>2 DEF Fil_Tabs
      <4>2. new = [content |-> tab.content, original |-> tab.original, loading |-> FALSE, error |-> TRUE]
        <5>1. new = [tab EXCEPT !.loading = FALSE, !.error = TRUE]
          BY <3>4
        <5> HIDE DEF tab, new
        <5> QED BY <4>1, <5>1
      <4> HIDE DEF tab, new
      <4>3. new.error /\ new \in Fil_Tabs
        BY <4>1, <4>2 DEF Fil_Tabs
      <4> QED BY <4>3 DEF new
    <3> QED BY <3>1, <3>3, <3>5
  <2> QED BY <1>2, <2>2
<1>4. Fil_TabsIn(Fil_tabs') /\ DOMAIN Fil_saved' = DOMAIN Fil_tabs' /\ Fil_Tree(Fil_tree')
  BY <1>1, <1>3 DEF Fil_Inv, Fil_Types, Fil_TabsIn
<1>5. ASSUME Fil_careless' = {}, Fil_Good(Fil_volume, Fil_tree, Fil_tabs, o)
      PROVE  /\ Fil_TreeOK(Fil_volume, Fil_tree', Fil!NoOp)
             /\ Fil_TabsOK(Fil_volume, Fil_tabs', Fil!NoOp)
  <2>1. ~Fil_Stale(o) /\ \A p : ~Fil_Apart(o, p)
    BY <1>1, <1>5 DEF Fil_Stale, Fil_Apart, Fil_Landed, Fil_Replacing
  <2> QED BY <1>1, <1>3, <1>5, <2>1, Fil_Quiet DEF Fil_Good, Fil_TreeOK, Fil_TabsOK
<1>6. Fil_careless' = {} => Fil_careless = {}
  BY <1>1
<1>7. o = Fil_op[s]
  OBVIOUS
<1> HIDE DEF o
<1> QED BY <1>1, <1>4, <1>5, <1>6, <1>7, Fil_EndsStep

LEMMA Fil_ReadAnsweredStep == ASSUME Fil_Inv, NEW s \in Fil_Slots,
     Fil!ReadAnswered(s) PROVE Fil_Inv'
<1> DEFINE o == Fil_op[s]
           tab == [content |-> o.text, original |-> o.text, loading |-> FALSE, error |-> FALSE]
<1>1. /\ Fil_Landed(o) /\ o.kind = "read" /\ o.at = "done" /\ Fil!Ends(s)
      /\ UNCHANGED <<Fil_volume, Fil_tree, Fil_ops, Fil_careless>>
  BY DEF Fil!ReadAnswered, Fil!Answered, Fil_Landed
<1>2. \/ /\ o.path \in DOMAIN Fil_tabs /\ Fil_tabs' = [Fil_tabs EXCEPT ![o.path] = tab]
         /\ Fil_saved' = [Fil_saved EXCEPT ![o.path] = o.text]
      \/ o.path \notin DOMAIN Fil_tabs /\ UNCHANGED <<Fil_tabs, Fil_saved>>
  BY DEF Fil!ReadAnswered
<1>3. o.text \in Fil_Texts
  BY <1>1, Fil_OpIn, Fil_KindFacts
<1>4. /\ DOMAIN Fil_tabs' = DOMAIN Fil_tabs /\ DOMAIN Fil_saved' = DOMAIN Fil_saved
      /\ \A p \in DOMAIN Fil_tabs : Fil_tabs'[p] = Fil_tabs[p] \/ (p = o.path /\ Fil_tabs'[p] = tab)
  BY <1>2
<1>5. tab \in Fil_Tabs /\ tab.original = o.text
  BY <1>3 DEF Fil_Tabs
<1> HIDE DEF tab
<1>6. Fil_TabsIn(Fil_tabs') /\ DOMAIN Fil_saved' = DOMAIN Fil_tabs' /\ Fil_Tree(Fil_tree')
  BY <1>1, <1>4, <1>5 DEF Fil_Inv, Fil_Types, Fil_TabsIn
<1>7. ASSUME Fil_Good(Fil_volume, Fil_tree, Fil_tabs, o)
      PROVE  /\ Fil_TreeOK(Fil_volume, Fil_tree', Fil!NoOp)
             /\ Fil_TabsOK(Fil_volume, Fil_tabs', Fil!NoOp)
  <2>1. ~Fil_Stale(o) /\ \A p : ~Fil_Apart(o, p)
    BY <1>1 DEF Fil_Stale, Fil_Apart, Fil_Replacing, Fil_Writers
  <2>2. Fil_FileIn(Fil_volume, o.path) /\ Fil_volume[o.path] = o.text
    BY <1>1, <1>7 DEF Fil_Good, Fil_TextOK
  <2> QED BY <1>1, <1>4, <1>5, <1>7, <2>1, <2>2, Fil_Quiet DEF Fil_Good, Fil_TreeOK, Fil_TabsOK
<1>8. o = Fil_op[s] /\ o.at # "idle" /\ (Fil_careless' = {} => Fil_careless = {})
  BY <1>1
<1> HIDE DEF o
<1> QED BY <1>1, <1>6, <1>7, <1>8, Fil_EndsStep

\* The answer of a request that wrote: the folders are to be listed again.
LEMMA Fil_ReloadStep ==
  ASSUME Fil_Inv, NEW s \in Fil_Slots, NEW o, o = Fil_op[s], Fil_Landed(o),
           o.kind \in Fil_Writers \ {"replace"},
         Fil!Reload(s), UNCHANGED <<Fil_volume, Fil_tree, Fil_ops, Fil_careless>>,
         Fil_TabsIn(Fil_tabs'), DOMAIN Fil_saved' = DOMAIN Fil_tabs',
         Fil_Good(Fil_volume, Fil_tree, Fil_tabs, o) => Fil_TabsOK(Fil_volume, Fil_tabs', Fil!NoOp)
  PROVE  Fil_Inv'
<1> DEFINE e == Fil_At(o, "reload", o.ok)
<1>1. o.at = "done"
  BY DEF Fil_Landed
<1>2. Fil_op' = [Fil_op EXCEPT ![s].at = "reload"]
  BY DEF Fil!Reload
<1>8. Fil_Op(o) /\ Fil_Ops(Fil_op)
  BY Fil_OpIn
<1>13. o = Fil_op[s]
  OBVIOUS
<1>10. Fil_op' = [Fil_op EXCEPT ![s] = e]
  <2> DEFINE e1 == [o EXCEPT !.at = "reload"]
  <2>1. Fil_op' = [Fil_op EXCEPT ![s] = e1]
    BY <1>8, <1>13, <1>2 DEF Fil_Ops
  <2>2. e1 = Fil_Rec(o.kind, o.path, o.to, o.text, o.dirs, "reload", o.ok)
    BY <1>8, Fil_OpRec, Fil_RecWith
  <2> HIDE DEF e1
  <2> QED BY <2>1, <2>2 DEF e, Fil_At
<1>4. /\ e.kind = o.kind /\ e.path = o.path /\ e.to = o.to /\ e.text = o.text /\ e.dirs = o.dirs
      /\ e.at = "reload" /\ e.ok = o.ok
  BY DEF Fil_At, Fil_Rec
<1>5. Fil_Op(e)
  BY <1>1, <1>8, Fil_AtIn, Fil_OpFields
<1> HIDE DEF e
<1>6. ASSUME Fil_Good(Fil_volume, Fil_tree, Fil_tabs, o)
      PROVE  Fil_Good(Fil_volume, Fil_tree', Fil_tabs', e)
  <2>1. Fil_Stale(e) /\ \A p : ~Fil_Apart(e, p)
    BY <1>4 DEF Fil_Stale, Fil_Apart, Fil_Landed, Fil_Replacing, Fil_Writers
  <2>2. Fil_TreeOK(Fil_volume, Fil_tree', e)
    BY <2>1 DEF Fil_TreeOK
  <2>3. Fil_TabsOK(Fil_volume, Fil_tabs', e)
    BY <1>6, <2>1, Fil_Quiet DEF Fil_TabsOK
  <2>4. Fil_DirsOK(Fil_volume, Fil_tree', e)
    BY <1>1, <1>4, <1>6 DEF Fil_Good, Fil_DirsOK, Fil_Writers
  <2>5. Fil_TextOK(Fil_volume, Fil_tabs', e)
    BY <1>4 DEF Fil_TextOK, Fil_Landed
  <2>6. Fil_PlaceOK(Fil_volume, Fil_tabs', e)
    BY <1>4, <1>6 DEF Fil_Good, Fil_PlaceOK, Fil_Landed
  <2>7. Fil_MoveOK(Fil_volume, Fil_tabs', e)
    BY <1>4 DEF Fil_MoveOK, Fil_Carries, Fil_Landed
  <2> QED BY <2>2, <2>3, <2>4, <2>5, <2>6, <2>7 DEF Fil_Good
<1>7. o.at # "idle" /\ Fil_Tree(Fil_tree') /\ (Fil_careless' = {} => Fil_careless = {})
  BY <1>1 DEF Fil_Inv, Fil_Types
<1> QED BY <1>5, <1>6, <1>7, <1>10, Fil_GoesOn

LEMMA Fil_SaveAnsweredStep == ASSUME Fil_Inv, NEW s \in Fil_Slots,
     Fil!SaveAnswered(s) PROVE Fil_Inv'
<1> DEFINE o == Fil_op[s]
           text == Fil_tabs[o.path].content
<1>1. /\ Fil_Landed(o) /\ o.kind = "save" /\ o.at = "done" /\ Fil!Reload(s)
      /\ UNCHANGED <<Fil_volume, Fil_tree, Fil_ops, Fil_careless>>
  BY DEF Fil!SaveAnswered, Fil!Answered, Fil_Landed
<1>2. \/ /\ o.path \in DOMAIN Fil_tabs /\ Fil_tabs' = [Fil_tabs EXCEPT ![o.path].original = text]
         /\ Fil_saved' = [Fil_saved EXCEPT ![o.path] = o.text]
      \/ o.path \notin DOMAIN Fil_tabs /\ UNCHANGED <<Fil_tabs, Fil_saved>>
  BY DEF Fil!SaveAnswered
<1>3. Fil_TabsIn(Fil_tabs) /\ DOMAIN Fil_saved = DOMAIN Fil_tabs /\ Fil_Tree(Fil_tree)
  BY DEF Fil_Inv, Fil_Types
<1>4. /\ DOMAIN Fil_tabs' = DOMAIN Fil_tabs /\ DOMAIN Fil_saved' = DOMAIN Fil_saved
      /\ \A p \in DOMAIN Fil_tabs : p # o.path => Fil_tabs'[p] = Fil_tabs[p]
  BY <1>2
<1>5. ASSUME o.path \in DOMAIN Fil_tabs
      PROVE  Fil_tabs'[o.path] \in Fil_Tabs /\ Fil_tabs'[o.path].original = text
  <2>1. Fil_tabs[o.path] \in Fil_Tabs
    BY <1>3, <1>5 DEF Fil_TabsIn
  <2>2. Fil_tabs'[o.path] = [Fil_tabs[o.path] EXCEPT !.original = text]
    BY <1>2, <1>5
  <2> QED BY <2>1, <2>2 DEF Fil_Tabs
<1>6. Fil_TabsIn(Fil_tabs') /\ DOMAIN Fil_saved' = DOMAIN Fil_tabs'
  BY <1>3, <1>4, <1>5 DEF Fil_TabsIn
<1>7. ASSUME Fil_Good(Fil_volume, Fil_tree, Fil_tabs, o)
      PROVE  Fil_TabsOK(Fil_volume, Fil_tabs', Fil!NoOp)
  <2>1. \A p : p # o.path => ~Fil_Apart(o, p)
    BY <1>1 DEF Fil_Apart, Fil_Replacing
  <2>2. o.path \in DOMAIN Fil_tabs =>
          Fil_FileIn(Fil_volume, o.path) /\ Fil_volume[o.path] = text
    BY <1>1, <1>7 DEF Fil_Good, Fil_TextOK
  <2> HIDE DEF text
  <2> QED BY <1>4, <1>5, <1>7, <2>1, <2>2, Fil_Quiet DEF Fil_Good, Fil_TabsOK
<1>8. o = Fil_op[s] /\ o.kind \in Fil_Writers \ {"replace"}
  BY <1>1 DEF Fil_Writers
<1> HIDE DEF o
<1> QED BY <1>1, <1>6, <1>7, <1>8, Fil_ReloadStep

LEMMA Fil_EntryAnsweredStep == ASSUME Fil_Inv, NEW s \in Fil_Slots,
     Fil!EntryAnswered(s) PROVE Fil_Inv'
<1> DEFINE o == Fil_op[s]
<1>1. /\ Fil_Landed(o) /\ o.kind \in {"rename", "move", "delete"} /\ Fil!Reload(s)
      /\ Fil!Close(Fil!ClosedBy(o)) /\ UNCHANGED <<Fil_volume, Fil_tree, Fil_ops, Fil_careless>>
  BY DEF Fil!EntryAnswered, Fil!Answered, Fil_Landed
<1>2. /\ Fil_TabsIn(Fil_tabs') /\ DOMAIN Fil_saved' = DOMAIN Fil_tabs'
      /\ DOMAIN Fil_tabs' = DOMAIN Fil_tabs \ Fil!ClosedBy(o)
      /\ \A p \in DOMAIN Fil_tabs' : Fil_tabs'[p] = Fil_tabs[p]
  BY <1>1, Fil_CloseTypes DEF Fil_Inv, Fil_Types
<1>3. \A p : Fil_Apart(o, p) => p \in Fil!ClosedBy(o)
  BY <1>1 DEF Fil_Apart, Fil_Replacing, Fil!ClosedBy
<1>4. ASSUME Fil_Good(Fil_volume, Fil_tree, Fil_tabs, o)
      PROVE  Fil_TabsOK(Fil_volume, Fil_tabs', Fil!NoOp)
  BY <1>2, <1>3, <1>4 DEF Fil_Good, Fil_TabsOK
<1>5. o = Fil_op[s] /\ o.kind \in Fil_Writers \ {"replace"}
  BY <1>1 DEF Fil_Writers
<1> HIDE DEF o
<1> QED BY <1>1, <1>2, <1>4, <1>5, Fil_ReloadStep

LEMMA Fil_CreateAnsweredStep == ASSUME Fil_Inv, NEW s \in Fil_Slots,
     Fil!CreateAnswered(s) PROVE Fil_Inv'
<1> DEFINE o == Fil_op[s]
<1>1. /\ Fil_Landed(o) /\ o.kind \in {"newFile", "newFolder", "upload"} /\ Fil!Reload(s)
      /\ UNCHANGED <<Fil_volume, Fil_tree, Fil_tabs, Fil_saved, Fil_ops, Fil_careless>>
  BY DEF Fil!CreateAnswered, Fil!Answered, Fil_Landed
<1>2. Fil_TabsIn(Fil_tabs') /\ DOMAIN Fil_saved' = DOMAIN Fil_tabs'
  BY <1>1 DEF Fil_Inv, Fil_Types
<1>3. \A p : ~Fil_Apart(o, p)
  BY <1>1 DEF Fil_Apart, Fil_Replacing
<1>4. ASSUME Fil_Good(Fil_volume, Fil_tree, Fil_tabs, o)
      PROVE  Fil_TabsOK(Fil_volume, Fil_tabs', Fil!NoOp)
  BY <1>1, <1>3, <1>4 DEF Fil_Good, Fil_TabsOK
<1>5. o = Fil_op[s] /\ o.kind \in Fil_Writers \ {"replace"}
  BY <1>1 DEF Fil_Writers
<1> HIDE DEF o
<1> QED BY <1>1, <1>2, <1>4, <1>5, Fil_ReloadStep

LEMMA Fil_KindWith ==
  ASSUME NEW o, Fil_Op(o), NEW z
  PROVE  [o EXCEPT !.kind = z] = Fil_Rec(z, o.path, o.to, o.text, o.dirs, o.at, o.ok)
<1>1. o = Fil_Rec(o.kind, o.path, o.to, o.text, o.dirs, o.at, o.ok)
  BY Fil_OpRec
<1> QED BY <1>1, Fil_RecWith

LEMMA Fil_TextWith ==
  \A k, p, t, x, d, a, o, z : [Fil_Rec(k, p, t, x, d, a, o) EXCEPT !.text = z] = Fil_Rec(k, p, t,
       z, d, a, o)
  BY Fil_RecWith

LEMMA Fil_ToWith ==
  \A k, p, t, x, d, a, o, z : [Fil_Rec(k, p, t, x, d, a, o) EXCEPT !.to = z] = Fil_Rec(k, p, z, x,
       d, a, o)
  BY Fil_RecWith

\* The check of a move is answered: the move, or first the removal of what has its name.
LEMMA Fil_CheckedStep ==
  ASSUME Fil_Inv, NEW s \in Fil_Slots, NEW o, o = Fil_op[s], Fil_Landed(o), o.kind = "check",
         NEW kind \in {"move", "replace"}, NEW n \in Fil_Names,
              NEW text \in Fil_Texts \cup {"clash"},
         kind = "replace" <=> text = "clash",
         NEW e, e = Fil_Rec(kind, o.path, Fil!joinPath(o.to, n), text, o.dirs, "sent", o.ok),
         Fil_op' = [Fil_op EXCEPT ![s] = e],
         UNCHANGED <<Fil_volume, Fil_tree, Fil_tabs, Fil_saved, Fil_ops, Fil_careless>>,
         /\ kind = "move" /\ Fil_Good(Fil_volume, Fil_tree, Fil_tabs, o)
           => Fil!joinPath(o.to, n) \notin DOMAIN Fil_volume
  PROVE  Fil_Inv'
<1>1. Fil_Op(o) /\ Fil_Ops(Fil_op) /\ o.at = "done" /\ o.at # "idle"
  BY Fil_OpIn DEF Fil_Landed
<1>2. /\ e.kind = kind /\ e.path = o.path /\ e.to = Fil!joinPath(o.to, n) /\ e.text = text
      /\ e.dirs = o.dirs /\ e.at = "sent" /\ e.ok = o.ok
  BY DEF Fil_Rec
<1>3. Fil_Op(e)
  <2>1. o.path \in Fil!Paths /\ o.to \in Fil_Dirs /\ o.path \in Fil_AllDirs /\ o.ok \in BOOLEAN
    BY <1>1, Fil_KindFacts
  <2>2. o.dirs \in SUBSET Fil_AllDirs
    BY <1>1, Fil_OpFields
  <2>3. Fil!joinPath(o.to, n) \in Fil!Paths /\ Fil!joinPath(o.to, n) \in Fil_AllDirs
    BY <2>1, Fil_JoinParts, Fil_RootDir
  <2>4. kind \in Fil!Kinds
    BY DEF Fil!Kinds
  <2> QED BY <2>1, <2>2, <2>3, <2>4, Fil_RecIn
<1>4. ASSUME Fil_Good(Fil_volume, Fil_tree, Fil_tabs, o)
      PROVE  Fil_Good(Fil_volume, Fil_tree, Fil_tabs, e)
  <2>1. ~Fil_Stale(e) /\ ~Fil_Stale(o)
    BY <1>1, <1>2 DEF Fil_Stale, Fil_Landed, Fil_Replacing, Fil_Writers
  <2>2. \A p : ~Fil_Apart(e, p) /\ ~Fil_Apart(o, p)
    BY <1>1, <1>2 DEF Fil_Apart, Fil_Landed, Fil_Replacing
  <2>3. Fil_TreeOK(Fil_volume, Fil_tree, e) /\ Fil_TabsOK(Fil_volume, Fil_tabs, e)
    BY <1>4, <2>1, <2>2 DEF Fil_Good, Fil_TreeOK, Fil_TabsOK
  <2>4. Fil_DirsOK(Fil_volume, Fil_tree, e)
    BY <1>1, <1>2, <1>4 DEF Fil_Good, Fil_DirsOK
  <2>5. Fil_TextOK(Fil_volume, Fil_tabs, e)
    BY <1>2 DEF Fil_TextOK
  <2>6. Fil_PlaceOK(Fil_volume, Fil_tabs, e)
    BY <1>2 DEF Fil_PlaceOK
  <2>7. Fil_InsideOf(Fil_volume, o.path) \cap DOMAIN Fil_tabs \subseteq {o.path}
    BY <1>1, <1>4 DEF Fil_Good, Fil_MoveOK, Fil_Carries
  <2>8. Fil_MoveOK(Fil_volume, Fil_tabs, e)
    BY <1>2, <1>4, <2>7 DEF Fil_MoveOK, Fil_Landed
  <2> QED BY <2>3, <2>4, <2>5, <2>6, <2>8 DEF Fil_Good
<1> QED BY <1>1, <1>3, <1>4, Fil_GoesOn DEF Fil_Inv, Fil_Types

LEMMA Fil_CheckAnsweredStep == ASSUME Fil_Inv, NEW s \in Fil_Slots,
     Fil!CheckAnswered(s) PROVE Fil_Inv'
<1> DEFINE o == Fil_op[s]
           target(n) == Fil!joinPath(o.to, n)
           base == Fil!baseOf(o.path)
<1>1. /\ Fil_Landed(o) /\ o.kind = "check" /\ o.at = "done"
      /\ UNCHANGED <<Fil_volume, Fil_tree, Fil_tabs, Fil_saved, Fil_ops, Fil_careless>>
  BY DEF Fil!CheckAnswered, Fil!Answered, Fil_Landed
<1>2. \/ /\ o.text # "clash"
         /\ Fil_op' = [Fil_op EXCEPT ![s].kind = "move", ![s].at = "sent", ![s].to = target(base)]
      \/ o.text = "clash" /\ Fil!Ends(s)
      \/ \E n \in Fil_Names \ Fil!Listing(o.to) :
           /\ o.text = "clash"
           /\ Fil_op' = [Fil_op EXCEPT ![s].kind = "move", ![s].at = "sent", ![s].text = "",
                                       ![s].to = target(n)]
      \/ /\ o.text = "clash"
         /\ Fil_op' = [Fil_op EXCEPT ![s].kind = "replace", ![s].at = "sent",
              ![s].to = target(base)]
  BY Zenon DEF Fil!CheckAnswered
<1>8. Fil_Op(o) /\ Fil_Ops(Fil_op)
  BY Fil_OpIn
<1>13. o = Fil_op[s]
  OBVIOUS
<1>3. o.path \in Fil!Paths /\ o.to \in Fil_Dirs /\ o.text \in Fil_Texts \cup {"clash"}
  BY <1>1, <1>8, Fil_KindFacts
<1>4. base \in Fil_Names /\ "" \in Fil_Texts
  BY <1>3, Fil_PathParts DEF Fil_Inv, Fil_Assumption
<1>5. \A n : target(n) = Fil!joinPath(o.to, n)
  OBVIOUS
<1>6. base = Fil!baseOf(o.path)
  OBVIOUS
<1> HIDE DEF o, target, base
<1>7. CASE /\ o.text # "clash"
           /\ Fil_op' = [Fil_op EXCEPT ![s].kind = "move", ![s].at = "sent", ![s].to = target(base)]
  <2> DEFINE e == Fil_Rec("move", o.path, target(base), o.text, o.dirs, "sent", o.ok)
  <2>1. Fil_op' = [Fil_op EXCEPT ![s] = e]
    <3> DEFINE e1 == [o EXCEPT !.kind = "move"]
               e2 == [e1 EXCEPT !.at = "sent"]
               e3 == [e2 EXCEPT !.to = target(base)]
    <3>1. Fil_op' = [Fil_op EXCEPT ![s] = e3]
      BY <1>8, <1>13, <1>7 DEF Fil_Ops
    <3>2. e1 = Fil_Rec("move", o.path, o.to, o.text, o.dirs, o.at, o.ok)
      BY <1>8, Fil_KindWith
    <3>3. e2 = Fil_Rec("move", o.path, o.to, o.text, o.dirs, "sent", o.ok)
      <4> HIDE DEF e1
      <4> QED BY <3>2, Fil_RecWith DEF e2
    <3>4. e3 = Fil_Rec("move", o.path, target(base), o.text, o.dirs, "sent", o.ok)
      <4> HIDE DEF e2
      <4> QED BY <3>3, Fil_RecWith DEF e3
    <3> HIDE DEF e1, e2, e3
    <3> QED BY <3>1, <3>4 DEF e
  <2>2. e = Fil_Rec("move", o.path, target(base), o.text, o.dirs, "sent", o.ok)
    OBVIOUS
  <2> HIDE DEF e
  <2>3. o.text # "clash" /\ o.text \in Fil_Texts
    <3>1. o.text # "clash"
      BY <1>7, Zenon
    <3> QED BY <1>3, <3>1
  <2>4. ASSUME Fil_Good(Fil_volume, Fil_tree, Fil_tabs,
          o) PROVE target(base) \notin DOMAIN Fil_volume
    BY <1>1, <1>5, <1>6, <2>3, <2>4 DEF Fil_Good, Fil_MoveOK
  <2> QED BY <1>1, <1>4, <1>5, <1>13, <2>1, <2>2, <2>3, <2>4, Fil_CheckedStep
<1>9. CASE o.text = "clash" /\ Fil!Ends(s)
  <2>1. ASSUME Fil_Good(Fil_volume, Fil_tree, Fil_tabs, o)
        PROVE  /\ Fil_TreeOK(Fil_volume, Fil_tree', Fil!NoOp)
               /\ Fil_TabsOK(Fil_volume, Fil_tabs', Fil!NoOp)
    <3>1. ~Fil_Stale(o) /\ \A p : ~Fil_Apart(o, p)
      BY <1>1 DEF Fil_Stale, Fil_Apart, Fil_Replacing, Fil_Writers
    <3> QED BY <1>1, <2>1, <3>1 DEF Fil_Good, Fil_TreeOK, Fil_TabsOK
  <2>2. /\ Fil_Tree(Fil_tree') /\ Fil_TabsIn(Fil_tabs') /\ DOMAIN Fil_saved' = DOMAIN Fil_tabs'
        /\ o.at # "idle" /\ (Fil_careless' = {} => Fil_careless = {})
    BY <1>1 DEF Fil_Inv, Fil_Types
  <2> QED BY <1>1, <1>9, <1>13, <2>1, <2>2, Fil_EndsStep
<1>10. ASSUME NEW n \in Fil_Names \ Fil!Listing(o.to), o.text = "clash",
              Fil_op' = [Fil_op EXCEPT ![s].kind = "move", ![s].at = "sent", ![s].text = "",
                                       ![s].to = target(n)]
       PROVE  Fil_Inv'
  <2> DEFINE none == ""
  <2>0. none = ""
    OBVIOUS
  <2> HIDE DEF none
  <2> DEFINE e == Fil_Rec("move", o.path, target(n), none, o.dirs, "sent", o.ok)
  <2>1. Fil_op' = [Fil_op EXCEPT ![s] = e]
    <3> DEFINE e1 == [o EXCEPT !.kind = "move"]
               e2 == [e1 EXCEPT !.at = "sent"]
               e3 == [e2 EXCEPT !.text = none]
               e4 == [e3 EXCEPT !.to = target(n)]
    <3>1. Fil_op' = [Fil_op EXCEPT ![s] = e4]
      BY <1>8, <1>13, <1>10, <2>0 DEF Fil_Ops
    <3>2. e1 = Fil_Rec("move", o.path, o.to, o.text, o.dirs, o.at, o.ok)
      BY <1>8, Fil_KindWith
    <3>3. e2 = Fil_Rec("move", o.path, o.to, o.text, o.dirs, "sent", o.ok)
      <4> HIDE DEF e1
      <4> QED BY <3>2, Fil_RecWith DEF e2
    <3>4. e3 = Fil_Rec("move", o.path, o.to, none, o.dirs, "sent", o.ok)
      <4> HIDE DEF e2
      <4> QED BY <3>3, Fil_TextWith DEF e3
    <3>5. e4 = Fil_Rec("move", o.path, target(n), none, o.dirs, "sent", o.ok)
      <4> HIDE DEF e3
      <4> QED BY <3>4, Fil_ToWith DEF e4
    <3> HIDE DEF e1, e2, e3, e4
    <3> QED BY <3>1, <3>5 DEF e
  <2>2. e = Fil_Rec("move", o.path, target(n), none, o.dirs, "sent", o.ok)
    OBVIOUS
  <2> HIDE DEF e
  <2>3. target(n) \notin DOMAIN Fil_volume
    BY <1>3, <1>5, Fil_NotListed, Fil_Views DEF Fil_Inv, Fil_Types
  <2>4. n \in Fil_Names /\ none # "clash" /\ none \in Fil_Texts \cup {"clash"}
    BY <1>4, <2>0
  <2> QED BY <1>1, <1>4, <1>5, <1>13, <2>1, <2>2, <2>3, <2>4, Fil_CheckedStep
<1>11. CASE /\ o.text = "clash"
            /\ Fil_op' = [Fil_op EXCEPT ![s].kind = "replace", ![s].at = "sent",
                 ![s].to = target(base)]
  <2> DEFINE e == Fil_Rec("replace", o.path, target(base), o.text, o.dirs, "sent", o.ok)
  <2>1. Fil_op' = [Fil_op EXCEPT ![s] = e]
    <3> DEFINE e1 == [o EXCEPT !.kind = "replace"]
               e2 == [e1 EXCEPT !.at = "sent"]
               e3 == [e2 EXCEPT !.to = target(base)]
    <3>1. Fil_op' = [Fil_op EXCEPT ![s] = e3]
      BY <1>8, <1>13, <1>11 DEF Fil_Ops
    <3>2. e1 = Fil_Rec("replace", o.path, o.to, o.text, o.dirs, o.at, o.ok)
      BY <1>8, Fil_KindWith
    <3>3. e2 = Fil_Rec("replace", o.path, o.to, o.text, o.dirs, "sent", o.ok)
      <4> HIDE DEF e1
      <4> QED BY <3>2, Fil_RecWith DEF e2
    <3>4. e3 = Fil_Rec("replace", o.path, target(base), o.text, o.dirs, "sent", o.ok)
      <4> HIDE DEF e2
      <4> QED BY <3>3, Fil_RecWith DEF e3
    <3> HIDE DEF e1, e2, e3
    <3> QED BY <3>1, <3>4 DEF e
  <2>2. e = Fil_Rec("replace", o.path, target(base), o.text, o.dirs, "sent", o.ok)
    OBVIOUS
  <2> HIDE DEF e
  <2>3. o.text = "clash"
    BY <1>11, Zenon
  <2> QED BY <1>1, <1>3, <1>4, <1>5, <1>13, <2>1, <2>2, <2>3, Fil_CheckedStep
<1> QED BY <1>2, <1>7, <1>9, <1>10, <1>11, Zenon

LEMMA Fil_ReplaceAnsweredStep == ASSUME Fil_Inv, NEW s \in Fil_Slots,
     Fil!ReplaceAnswered(s) PROVE Fil_Inv'
<1> DEFINE o == Fil_op[s]
           e == Fil_Rec("move", o.path, o.to, o.text, o.dirs, "sent", o.ok)
           under == {p \in DOMAIN Fil_tabs : Fil!IsPrefix(o.to, p)} \ {o.to}
<1>1. /\ Fil_Landed(o) /\ o.kind = "replace" /\ o.at = "done"
      /\ Fil_careless' = Fil_careless \cup Fil!Loses(under)
      /\ UNCHANGED <<Fil_volume, Fil_tree, Fil_tabs, Fil_saved, Fil_ops>>
  BY DEF Fil!ReplaceAnswered, Fil!Answered, Fil_Landed
<1>2. Fil_op' = [Fil_op EXCEPT ![s].kind = "move", ![s].at = "sent"]
  BY DEF Fil!ReplaceAnswered
<1>8. Fil_Op(o) /\ Fil_Ops(Fil_op)
  BY Fil_OpIn
<1>13. o = Fil_op[s]
  OBVIOUS
<1>3. Fil_careless' = {} => Fil_careless = {} /\
        \A p \in DOMAIN Fil_tabs : Fil!IsPrefix(o.to, p) => p = o.to
  <2>1. Fil!Loses(under) = {} => under \cap DOMAIN Fil_tabs = {}
    BY Fil_NoTabLost
  <2> QED BY <1>1, <2>1
<1> HIDE DEF o
<1>10. Fil_op' = [Fil_op EXCEPT ![s] = e]
  <2> DEFINE e1 == [o EXCEPT !.kind = "move"]
             e2 == [e1 EXCEPT !.at = "sent"]
  <2>1. Fil_op' = [Fil_op EXCEPT ![s] = e2]
    BY <1>8, <1>13, <1>2 DEF Fil_Ops
  <2>2. e1 = Fil_Rec("move", o.path, o.to, o.text, o.dirs, o.at, o.ok)
    BY <1>8, Fil_KindWith
  <2>3. e2 = Fil_Rec("move", o.path, o.to, o.text, o.dirs, "sent", o.ok)
    <3> HIDE DEF e1
    <3> QED BY <2>2, Fil_RecWith DEF e2
  <2> HIDE DEF e1, e2
  <2> QED BY <2>1, <2>3 DEF e
<1>4. /\ e.kind = "move" /\ e.path = o.path /\ e.to = o.to /\ e.text = o.text /\ e.dirs = o.dirs
      /\ e.at = "sent" /\ e.ok = o.ok
  BY DEF Fil_Rec
<1>5. Fil_Op(e)
  <2>1. /\ o.path \in Fil!Paths /\ o.to \in Fil!Paths /\ o.path \in Fil_AllDirs
        /\ o.to \in Fil_AllDirs
        /\ o.text \in Fil_Texts \cup {"clash"} /\ o.ok \in BOOLEAN
    BY <1>1, <1>8, Fil_KindFacts
  <2>2. o.dirs \in SUBSET Fil_AllDirs
    BY <1>1, <1>8, Fil_OpFields
  <2>3. "move" \in Fil!Kinds
    BY DEF Fil!Kinds
  <2> QED BY <2>1, <2>2, <2>3, Fil_RecIn
<1> HIDE DEF e
<1>6. ASSUME Fil_careless' = {}, Fil_Good(Fil_volume, Fil_tree, Fil_tabs, o)
      PROVE  Fil_Good(Fil_volume, Fil_tree', Fil_tabs', e)
  <2>1. /\ o.text = "clash" /\ o.to \notin DOMAIN Fil_volume
        /\ Fil_InsideOf(Fil_volume, o.path) \cap DOMAIN Fil_tabs \subseteq {o.path}
    BY <1>1, <1>6 DEF Fil_Good, Fil_MoveOK, Fil_Carries
  <2>2. Fil_Stale(e) /\ Fil_Apart(e, o.to)
    BY <1>4, <2>1 DEF Fil_Stale, Fil_Apart, Fil_Replacing
  <2>3. \A p \in DOMAIN Fil_tabs : Fil_Apart(o, p) => p = o.to
    BY <1>1, <1>3, <1>6 DEF Fil_Apart, Fil_Replacing
  <2>4. Fil_TreeOK(Fil_volume, Fil_tree', e) /\ Fil_TabsOK(Fil_volume, Fil_tabs', e)
    BY <1>1, <1>6, <2>2, <2>3 DEF Fil_Good, Fil_TreeOK, Fil_TabsOK
  <2>5. Fil_DirsOK(Fil_volume, Fil_tree', e)
    BY <1>1, <1>4, <1>6 DEF Fil_Good, Fil_DirsOK
  <2>6. Fil_TextOK(Fil_volume, Fil_tabs', e)
    BY <1>4 DEF Fil_TextOK
  <2>7. Fil_PlaceOK(Fil_volume, Fil_tabs', e)
    BY <1>4 DEF Fil_PlaceOK
  <2>8. Fil_MoveOK(Fil_volume, Fil_tabs', e)
    BY <1>1, <1>4, <2>1 DEF Fil_MoveOK
  <2> QED BY <2>4, <2>5, <2>6, <2>7, <2>8 DEF Fil_Good
<1>7. /\ Fil_Tree(Fil_tree') /\ Fil_TabsIn(Fil_tabs') /\ DOMAIN Fil_saved' = DOMAIN Fil_tabs'
      /\ o.at # "idle" /\ (Fil_careless' = {} => Fil_careless = {})
  BY <1>1, <1>3 DEF Fil_Inv, Fil_Types
<1> QED BY <1>1, <1>5, <1>6, <1>7, <1>10, <1>13, Fil_GoesOn

\* The listings a chain brings, and what they make of the tree.
Fil_Shown(dirs) == [d \in {pair[1] : pair \in dirs} |-> (CHOOSE pair \in dirs : pair[1] = d)[2]]

LEMMA Fil_ShownDoes ==
  ASSUME NEW dirs
  PROVE  /\ DOMAIN Fil_Shown(dirs) = {pair[1] : pair \in dirs}
         /\ \A d \in DOMAIN Fil_Shown(dirs) :
              \E pair \in dirs : pair[1] = d /\ Fil_Shown(dirs)[d] = pair[2]
  BY DEF Fil_Shown

LEMMA Fil_ShownIn ==
  ASSUME NEW v, NEW r, NEW f, NEW o, Fil_Good(v, r, f, o), o.at = "reloaded"
  PROVE  /\ \A d \in DOMAIN Fil_Shown(o.dirs) : Fil_Shown(o.dirs)[d] = Fil_ListIn(v, d)
         /\ \A d \in DOMAIN r \ DOMAIN Fil_Shown(o.dirs) : Fil_DirIn(v, d) =>
              r[d] = Fil_ListIn(v, d)
<1>1. CASE o.kind = "load"
  <2>1. o.dirs \subseteq {<<o.path, Fil_ListIn(v, o.path)>>}
    BY <1>1 DEF Fil_Good, Fil_DirsOK
  <2>2. \A pair \in o.dirs : pair[1] = o.path /\ pair[2] = Fil_ListIn(v, o.path)
    BY <2>1
  <2>3. ~Fil_Stale(o)
    BY <1>1 DEF Fil_Stale, Fil_Landed, Fil_Replacing
  <2>4. \A d \in DOMAIN r : Fil_DirIn(v, d) => r[d] = Fil_ListIn(v, d)
    BY <2>3 DEF Fil_Good, Fil_TreeOK
  <2>5. ASSUME NEW d \in DOMAIN Fil_Shown(o.dirs) PROVE Fil_Shown(o.dirs)[d] = Fil_ListIn(v, d)
    <3>1. PICK pair \in o.dirs : pair[1] = d /\ Fil_Shown(o.dirs)[d] = pair[2]
      BY Fil_ShownDoes
    <3> QED BY <2>2, <3>1
  <2> QED BY <2>4, <2>5
<1>2. CASE o.kind # "load"
  <2>1. o.dirs = {<<d, Fil_ListIn(v, d)>> : d \in {k \in DOMAIN r : Fil_DirIn(v, k)}}
    BY <1>2 DEF Fil_Good, Fil_DirsOK
  <2>2. \A pair \in o.dirs : pair[2] = Fil_ListIn(v, pair[1])
    BY <2>1
  <2>3. ASSUME NEW d \in DOMAIN Fil_Shown(o.dirs) PROVE Fil_Shown(o.dirs)[d] = Fil_ListIn(v, d)
    <3>1. PICK pair \in o.dirs : pair[1] = d /\ Fil_Shown(o.dirs)[d] = pair[2]
      BY Fil_ShownDoes
    <3> QED BY <2>2, <3>1
  <2>4. ASSUME NEW d \in DOMAIN r, Fil_DirIn(v, d) PROVE d \in DOMAIN Fil_Shown(o.dirs)
    <3>1. <<d, Fil_ListIn(v, d)>> \in o.dirs
      BY <2>1, <2>4
    <3>2. \E pair \in o.dirs : pair[1] = d
      BY <3>1
    <3>3. d \in {pair[1] : pair \in o.dirs}
      BY <3>2
    <3>4. DOMAIN Fil_Shown(o.dirs) = {pair[1] : pair \in o.dirs}
      BY Fil_ShownDoes
    <3> QED BY <3>3, <3>4
  <2> QED BY <2>3, <2>4
<1> QED BY <1>1, <1>2

LEMMA Fil_ListsAnsweredStep == ASSUME Fil_Inv, NEW s \in Fil_Slots,
     Fil!ListsAnswered(s) PROVE Fil_Inv'
<1> DEFINE o == Fil_op[s]
           h == Fil_Shown(o.dirs)
           e == [Fil!NoOp EXCEPT !.kind = "read", !.path = o.path, !.at = "sent"]
<1>1. o.at = "reloaded" /\ o.at # "idle" /\ UNCHANGED <<Fil_volume, Fil_ops, Fil_careless>>
  BY DEF Fil!ListsAnswered
<1>2. Fil_tree' = IF o.kind = "newFolder" THEN Fil!With(Fil!Over(h, Fil_tree), o.path, {})
                                           ELSE Fil!Over(h, Fil_tree)
  BY DEF Fil!ListsAnswered, Fil_Shown
<1>3. \/ /\ o.kind = "newFile" /\ o.path \notin DOMAIN Fil_tabs
         /\ Fil_tabs' = Fil!With(Fil_tabs, o.path, Fil!Loading)
         /\ Fil_saved' = Fil!With(Fil_saved, o.path, "")
         /\ Fil_op' = [Fil_op EXCEPT ![s] = e]
      \/ Fil!Ends(s) /\ UNCHANGED <<Fil_tabs, Fil_saved>>
  BY DEF Fil!ListsAnswered
<1>4. \A d \in DOMAIN Fil_tree' :
        \/ o.kind = "newFolder" /\ d = o.path /\ Fil_tree'[d] = {}
        \/ d \in DOMAIN h /\ Fil_tree'[d] = h[d]
        \/ d \in DOMAIN Fil_tree \ DOMAIN h /\ Fil_tree'[d] = Fil_tree[d]
  <2> DEFINE w == Fil!Over(h, Fil_tree)
             new == Fil_tree'
  <2>1. /\ DOMAIN w = DOMAIN h \cup DOMAIN Fil_tree /\ \A d \in DOMAIN h : w[d] = h[d]
        /\ \A d \in DOMAIN Fil_tree \ DOMAIN h : w[d] = Fil_tree[d]
    <3> HIDE DEF h
    <3> QED BY DEF Fil!Over
  <2>2. o.kind = "newFolder" => new = Fil!With(w, o.path, {})
    BY <1>2
  <2>3. o.kind # "newFolder" => new = w
    BY <1>2
  <2> HIDE DEF o, h, e, w, new
  <2>4. CASE o.kind = "newFolder"
    <3>1. new = Fil!With(w, o.path, {})
      BY <2>2, <2>4
    <3>2. /\ DOMAIN new = DOMAIN w \cup {o.path} /\ new[o.path] = {}
          /\ \A d \in DOMAIN w : d # o.path => new[d] = w[d]
      BY <3>1 DEF Fil!With, Fil!Over
    <3>3. \A d \in DOMAIN new :
            \/ d = o.path /\ new[d] = {}
            \/ d \in DOMAIN h /\ new[d] = h[d]
            \/ d \in DOMAIN Fil_tree \ DOMAIN h /\ new[d] = Fil_tree[d]
      BY <2>1, <3>2
    <3> QED BY <2>4, <3>3 DEF new
  <2>5. CASE o.kind # "newFolder"
    BY <2>1, <2>3, <2>5 DEF new
  <2> QED BY <2>4, <2>5
<1>5. Fil_Op(o) /\ Fil_Tree(Fil_tree) /\ Fil_TabsIn(Fil_tabs) /\ DOMAIN Fil_saved = DOMAIN Fil_tabs
  BY Fil_OpIn DEF Fil_Inv, Fil_Types
<1>6. Fil_Tree(Fil_tree')
  <2>1. o.path \in Fil_AllDirs /\ o.dirs \in SUBSET (Fil_AllDirs \X SUBSET Fil_Names)
    BY <1>1, <1>5, Fil_OpFields
  <2>2. ASSUME NEW d \in DOMAIN h PROVE d \in Fil_AllDirs /\ h[d] \subseteq Fil_Names
    <3>1. PICK pair \in o.dirs : pair[1] = d /\ h[d] = pair[2]
      BY Fil_ShownDoes
    <3>2. pair[1] \in Fil_AllDirs /\ pair[2] \subseteq Fil_Names
      BY <2>1, <3>1
    <3> QED BY <3>1, <3>2
  <2> HIDE DEF h
  <2> QED BY <1>4, <1>5, <2>1, <2>2 DEF Fil_Tree
<1>7. ASSUME Fil_Good(Fil_volume, Fil_tree, Fil_tabs, o)
      PROVE  Fil_TreeOK(Fil_volume, Fil_tree', Fil!NoOp) /\
               Fil_TabsOK(Fil_volume, Fil_tabs, Fil!NoOp)
  <2>1. /\ \A d \in DOMAIN h : h[d] = Fil_ListIn(Fil_volume, d)
        /\ \A d \in DOMAIN Fil_tree \ DOMAIN h :
             Fil_DirIn(Fil_volume, d) => Fil_tree[d] = Fil_ListIn(Fil_volume, d)
    BY <1>1, <1>7, Fil_ShownIn
  <2>2. o.kind = "newFolder" => Fil_ListIn(Fil_volume, o.path) = {}
    BY <1>1, <1>7 DEF Fil_Good, Fil_PlaceOK
  <2> HIDE DEF h
  <2>3. Fil_TreeOK(Fil_volume, Fil_tree', Fil!NoOp)
    BY <1>4, <2>1, <2>2 DEF Fil_TreeOK
  <2>4. \A p : ~Fil_Apart(o, p)
    BY <1>1 DEF Fil_Apart, Fil_Landed, Fil_Replacing
  <2>5. Fil_TabsOK(Fil_volume, Fil_tabs, Fil!NoOp)
    BY <1>7, <2>4 DEF Fil_Good, Fil_TabsOK
  <2> QED BY <2>3, <2>5
<1>14. e = [Fil!NoOp EXCEPT !.kind = "read", !.path = o.path, !.at = "sent"]
  OBVIOUS
<1> HIDE DEF e
<1>8. o = Fil_op[s] /\ (Fil_careless' = {} => Fil_careless = {})
  BY <1>1
<1>9. ASSUME Fil!Ends(s), UNCHANGED <<Fil_tabs, Fil_saved>>
      PROVE  Fil_Inv'
  <2>1. ASSUME Fil_Good(Fil_volume, Fil_tree, Fil_tabs, o)
        PROVE  Fil_TreeOK(Fil_volume, Fil_tree', Fil!NoOp) /\
                 Fil_TabsOK(Fil_volume, Fil_tabs', Fil!NoOp)
    BY <1>7, <1>9, <2>1
  <2> HIDE DEF o
  <2> QED BY <1>1, <1>5, <1>6, <1>8, <1>9, <2>1, Fil_EndsStep
<1>10. ASSUME o.kind = "newFile", o.path \notin DOMAIN Fil_tabs,
              Fil_tabs' = Fil!With(Fil_tabs, o.path, Fil!Loading),
              Fil_saved' = Fil!With(Fil_saved, o.path, ""), Fil_op' = [Fil_op EXCEPT ![s] = e]
       PROVE  Fil_Inv'
  <2>1. /\ DOMAIN Fil_tabs' = DOMAIN Fil_tabs \cup {o.path} /\ Fil_tabs'[o.path] = Fil!Loading
        /\ \A p \in DOMAIN Fil_tabs : p # o.path => Fil_tabs'[p] = Fil_tabs[p]
        /\ DOMAIN Fil_saved' = DOMAIN Fil_saved \cup {o.path}
    BY <1>10 DEF Fil!With, Fil!Over
  <2>2. "" \in Fil_Texts /\ o.path \in Fil!Paths /\ o.path \in Fil_AllDirs
    BY <1>1, <1>5, <1>10, Fil_KindFacts DEF Fil_Inv, Fil_Assumption
  <2>3. Fil!Loading \in Fil_Tabs /\ Fil!Loading.loading
    BY <2>2 DEF Fil!Loading, Fil_Tabs
  <2>4. Fil_TabsIn(Fil_tabs') /\ DOMAIN Fil_saved' = DOMAIN Fil_tabs'
    BY <1>5, <1>10, <2>1, <2>2, <2>3 DEF Fil_TabsIn
  <2>6. e = [kind |-> "read", path |-> o.path, to |-> <<>>, text |-> "", dirs |-> {},
          at |-> "sent", ok |-> TRUE]
    BY <1>14 DEF Fil!NoOp
  <2>5. e.kind = "read" /\ e.at = "sent"
    BY <2>6
  <2>7. "read" \in Fil!Kinds /\ <<>> \in Fil_AllDirs /\ "" \in Fil_Texts \cup {"clash"} /\
          {} \in SUBSET Fil_AllDirs
    BY <2>2, Fil_RootDir DEF Fil!Kinds
  <2>8. Fil_Op(e)
    BY <2>2, <2>6, <2>7, Fil_WaitingIn
  <2>9. ASSUME Fil_Good(Fil_volume, Fil_tree, Fil_tabs, o)
        PROVE  Fil_Good(Fil_volume, Fil_tree', Fil_tabs', e)
    <3>1. Fil_TreeOK(Fil_volume, Fil_tree', Fil!NoOp)
      BY <1>7, <2>9
    <3>2. Fil_TabsOK(Fil_volume, Fil_tabs', Fil!NoOp)
      BY <1>7, <1>10, <2>1, <2>3, <2>9 DEF Fil_TabsOK
    <3>3. "read" \in Fil!Kinds \ {"move", "replace"}
      BY <2>7
    <3> QED BY <2>5, <2>8, <3>1, <3>2, <3>3, Fil_FreshGood
  <2>10. Fil_op' = [Fil_op EXCEPT ![s] = e]
    BY <1>10
  <2> HIDE DEF o
  <2> QED BY <1>1, <1>6, <1>8, <2>4, <2>8, <2>9, <2>10, Fil_GoesOn
<1> QED BY <1>3, <1>9, <1>10

LEMMA Fil_Init == Fil!Init /\ Fil_Assumption => Fil_Inv
<1> SUFFICES ASSUME Fil!Init, Fil_Assumption PROVE Fil_Inv
  OBVIOUS
<1>1. /\ Fil_volume = Fil_Start
      /\ Fil_tree = [d \in {<<>>} |-> {n \in Fil_Names : <<n>> \in DOMAIN Fil_Start}]
      /\ DOMAIN Fil_tabs = {} /\ DOMAIN Fil_saved = {} /\ Fil_op = [s \in Fil_Slots |-> Fil!NoOp]
      /\ Fil_ops = 0 /\ Fil_careless = {}
  BY DEF Fil!Init
<1>2. Fil_Volume(Fil_volume)
  BY <1>1 DEF Fil_Assumption, Fil_Volume
<1>3. Fil_Rooted(Fil_volume)
  BY <1>1 DEF Fil_Assumption, Fil_Rooted, Fil_DirIn
<1>4. Fil_Tree(Fil_tree)
  <2>1. DOMAIN Fil_tree = {<<>>} /\ Fil_tree[<<>>] \subseteq Fil_Names
    BY <1>1
  <2> QED BY <2>1, Fil_RootDir DEF Fil_Tree
<1>5. Fil_TabsIn(Fil_tabs) /\ DOMAIN Fil_saved = DOMAIN Fil_tabs
  BY <1>1 DEF Fil_TabsIn
<1>6. Fil_Ops(Fil_op)
  BY <1>1, Fil_NoOpIn DEF Fil_Ops
<1>7. Fil_ops \in 0..Fil_MaxOps
  <2>1. Fil_MaxOps \in Nat
    BY DEF Fil_Assumption
  <2> QED BY <1>1, <2>1
<1>8. Fil_Safe
  <2>1. PICK s \in Fil_Slots : TRUE
    BY DEF Fil_Assumption
  <2>2. Fil_Only(Fil_op, s) /\ Fil_op[s] = Fil!NoOp
    BY <1>1 DEF Fil_Only
  <2>3. Fil_ListIn(Fil_volume, <<>>) = {n \in Fil_Names : <<n>> \in DOMAIN Fil_Start}
    <3>1. ASSUME NEW n \in Fil_ListIn(Fil_volume, <<>>) PROVE n \in Fil_Names /\
            <<n>> \in DOMAIN Fil_Start
      <4>1. PICK p \in DOMAIN Fil_volume : Fil!dirOf(p) = <<>> /\ Fil!baseOf(p) = n
        BY DEF Fil_ListIn
      <4>2. p \in Fil!Paths
        BY <1>2, <4>1 DEF Fil_Volume
      <4>3. n \in Fil_Names /\ Fil!joinPath(<<>>, n) = p
        BY <4>1, <4>2, Fil_PathParts
      <4> QED BY <1>1, <4>3, Fil_OneParts
    <3>2. ASSUME NEW n \in Fil_Names,
            <<n>> \in DOMAIN Fil_Start PROVE n \in Fil_ListIn(Fil_volume, <<>>)
      BY <1>1, <3>2, Fil_OneParts DEF Fil_ListIn
    <3> QED BY <3>1, <3>2
  <2>4. Fil_TreeOK(Fil_volume, Fil_tree, Fil!NoOp)
    <3>1. DOMAIN Fil_tree = {<<>>} /\
            Fil_tree[<<>>] = {n \in Fil_Names : <<n>> \in DOMAIN Fil_Start}
      BY <1>1
    <3> QED BY <2>3, <3>1 DEF Fil_TreeOK
  <2>5. Fil_TabsOK(Fil_volume, Fil_tabs, Fil!NoOp)
    BY <1>1 DEF Fil_TabsOK
  <2>6. Fil_Good(Fil_volume, Fil_tree, Fil_tabs, Fil!NoOp)
    BY <2>4, <2>5, Fil_QuietGood
  <2> QED BY <2>2, <2>6 DEF Fil_Safe
<1> QED BY <1>2, <1>3, <1>4, <1>5, <1>6, <1>7, <1>8 DEF Fil_Inv, Fil_Types

LEMMA Fil_UserStep == ASSUME Fil_Inv, Fil!UserActs PROVE Fil_Inv'
<1>1. CASE Fil!Refresh
  BY <1>1, Fil_RefreshStep
<1>2. CASE \E d \in Fil_Dirs : Fil!LoadDir(d)
  BY <1>2, Fil_LoadDirStep
<1>3. CASE \E d \in Fil_Dirs, n \in Fil_Names :
             \/ Fil!PromptNewFile(d, n) \/ Fil!PromptNewFolder(d, n)
             \/ \E t \in Fil_Texts : Fil!SubmitUpload(d, n, t)
  BY <1>3, Fil_PromptNewFileStep, Fil_PromptNewFolderStep, Fil_SubmitUploadStep
<1>4. CASE \E p \in Fil!Paths :
             \/ Fil!OpenFile(p) \/ Fil!CloseFile(p) \/ Fil!SaveFile(p) \/ Fil!DeleteEntry(p)
             \/ \E t \in Fil_Texts : Fil!ChangeFile(p, t) \/ Fil!OtherWrites(p, t)
             \/ \E n \in Fil_Names : Fil!PromptRename(p, n)
             \/ \E d \in Fil_Dirs : Fil!AttemptMove(p, d)
  BY <1>4, Fil_OpenFileStep, Fil_CloseFileStep, Fil_SaveFileStep, Fil_DeleteEntryStep,
     Fil_ChangeFileStep, Fil_OtherWritesStep, Fil_PromptRenameStep, Fil_AttemptMoveStep
<1> QED BY <1>1, <1>2, <1>3, <1>4, Zenon DEF Fil!UserActs, Fil_Dirs

LEMMA Fil_Step == ASSUME Fil_Inv, Fil!Next PROVE Fil_Inv'
  BY Fil_UserStep, Fil_WritesStep, Fil_ReadsStep, Fil_ListsStep, Fil_RefusedStep,
     Fil_ReadAnsweredStep,
     Fil_SaveAnsweredStep, Fil_EntryAnsweredStep, Fil_CreateAnsweredStep, Fil_CheckAnsweredStep,
     Fil_ReplaceAnsweredStep, Fil_ListsAnsweredStep DEF Fil!Next

LEMMA Fil_Still == ASSUME Fil_Inv, UNCHANGED Fil!vars PROVE Fil_Inv'
<1>1. /\ Fil_volume' = Fil_volume /\ Fil_tree' = Fil_tree /\ Fil_tabs' = Fil_tabs
      /\ Fil_op' = Fil_op
      /\ Fil_saved' = Fil_saved /\ Fil_ops' = Fil_ops /\ Fil_careless' = Fil_careless
  BY DEF Fil!vars
<1>2. Fil_Types'
  BY <1>1 DEF Fil_Inv, Fil_Types
<1>3. Fil_careless' = {} => Fil_Safe'
  BY <1>1 DEF Fil_Inv, Fil_Safe
<1> QED BY <1>2, <1>3 DEF Fil_Inv

LEMMA Fil_Shows == Fil_Inv => Fil!FilesInv
<1> SUFFICES ASSUME Fil_Inv PROVE Fil!FilesInv
  OBVIOUS
<1>1. Fil!TypeOK
  <2>1. \A p \in DOMAIN Fil_volume : Fil_volume[p] \in Fil!Nodes
    BY DEF Fil_Inv, Fil_Types, Fil_Volume
  <2>2. \A d \in DOMAIN Fil_tree : Fil_tree[d] \subseteq Fil_Names
    BY DEF Fil_Inv, Fil_Types, Fil_Tree
  <2>3. \A p \in DOMAIN Fil_tabs :
          Fil_tabs[p] \in [content : Fil_Texts, original : Fil_Texts, loading : BOOLEAN,
               error : BOOLEAN]
    BY DEF Fil_Inv, Fil_Types, Fil_TabsIn, Fil_Tabs
  <2>4. \A s \in Fil_Slots : Fil_op[s].kind \in Fil!Kinds \cup {"none"}
    BY Fil_OpIn, Fil_OpFields
  <2>5. DOMAIN Fil_volume \subseteq Fil!Paths /\ DOMAIN Fil_saved = DOMAIN Fil_tabs /\
          Fil_ops \in 0..Fil_MaxOps
    BY DEF Fil_Inv, Fil_Types, Fil_Volume
  <2> QED BY <2>1, <2>2, <2>3, <2>4, <2>5 DEF Fil!TypeOK
<1>2. ASSUME Fil!Settled, Fil_careless = {}
      PROVE  /\ \A d \in DOMAIN Fil_tree : Fil!IsDir(d) => Fil_tree[d] = Fil!Listing(d)
             /\ \A p \in DOMAIN Fil_tabs :
                  Fil!Clean(p) => Fil!IsFile(p) /\ Fil_volume[p] = Fil_tabs[p].original
  <2>1. PICK s \in Fil_Slots : Fil_Good(Fil_volume, Fil_tree, Fil_tabs, Fil_op[s])
    BY <1>2 DEF Fil_Inv, Fil_Safe
  <2>2. Fil_op[s] = Fil!NoOp
    BY <1>2 DEF Fil!Settled, Fil!Free
  <2>3. Fil_TreeOK(Fil_volume, Fil_tree, Fil!NoOp) /\ Fil_TabsOK(Fil_volume, Fil_tabs, Fil!NoOp)
    BY <2>1, <2>2 DEF Fil_Good
  <2>4. \A d \in DOMAIN Fil_tree : Fil_DirIn(Fil_volume, d) =>
          Fil_tree[d] = Fil_ListIn(Fil_volume, d)
    BY <2>3, Fil_Quiet DEF Fil_TreeOK
  <2>5. \A p \in DOMAIN Fil_tabs :
          Fil!Clean(p) => Fil_FileIn(Fil_volume, p) /\ Fil_volume[p] = Fil_tabs[p].original
    BY <2>3, Fil_Quiet DEF Fil_TabsOK, Fil!Clean
  <2> QED BY <2>4, <2>5, Fil_Views
<1> QED BY <1>1, <1>2 DEF Fil!FilesInv, Fil!ShowsTheVolume

\* FilesInv (module FileManager): whatever is created, renamed, moved, replaced, uploaded, saved
\* and deleted, and wherever a request is refused, when the chain has ended the listings that the
\* panel shows are those of the volume, and a tab without a mark has the text of its file.  As in
\* ShowsTheVolume, as long as chains come one after another and careless is empty.
THEOREM Files_Hold == SumSpec => []FilesInv
<1>1. SumInit => Fil_Inv
  BY Fil_Init, RecordsAssumption DEF SumInit
<1>2. [SumNext]_allVars => [Fil!Next]_Fil!vars
  BY DEF SumNext, allVars, filesVars, Fil!vars
<1>3. Fil_Inv /\ [Fil!Next]_Fil!vars => Fil_Inv'
  BY Fil_Step, Fil_Still
<1>4. Fil_Inv => FilesInv
  BY Fil_Shows DEF FilesInv
<1>5. QED
  BY <1>1, <1>2, <1>3, <1>4, PTL DEF SumSpec
=============================================================================
