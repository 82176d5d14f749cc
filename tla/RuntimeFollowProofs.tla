-------------------------- MODULE RuntimeFollowProofs --------------------------
(***************************************************************************)
(* Proofs about RuntimeFollow, for any containers, connections, lines and     *)
(* tail, and any second: what the follow of one container at a time collects.  *)
(***************************************************************************)
EXTENDS RuntimeFollow, FiniteSetTheorems, NaturalsInduction, TLAPS

-----------------------------------------------------------------------------
(* Types. *)

Connections ==
  [con : Containers \cup {None}, at : {"closed", "open", "stalled"},
   next : 0..(MaxLines + 1), skip : BOOLEAN, since : Nat]
Progress ==
  [at : {"idle", "listing", "listed", "syncing", "asking", "rejoining"},
   con : Containers \cup {None}, rest : SUBSET Containers, since : Nat]

\* What a container's log and a connection to it hold.
LogsOK ==
  /\ Len(stamp) <= MaxLines
  /\ \A i \in 1..Len(stamp) : stamp[i] >= 1
  /\ \A i, j \in 1..Len(stamp) : i <= j => stamp[i] <= stamp[j]
  /\ \A c \in Containers : /\ Len(log[c]) <= Len(stamp)
                           /\ \A i \in 1..Len(log[c]) : log[c][i] \in 1..Len(stamp)
StreamOK(s) ==
  s.at # "closed" => s.con \in Containers /\ s.next >= 1 /\ s.next <= Len(log[s.con]) + 1

FollowTypes ==
  /\ TypeOK /\ LogsOK
  /\ \A s \in Streams : StreamOK(stream[s])
  /\ \A p \in Syncers : sync[p].at \in {"syncing", "rejoining"} => sync[p].con \in Containers

-----------------------------------------------------------------------------
(***************************************************************************)
(* As long as no two syncs overlap, nothing is stopped and nothing deployed,  *)
(* the first container is the only one that runs, its lines are all there       *)
(* are, one connection at most is open, and none while one is being opened.      *)
(***************************************************************************)
Calm == rare \cap {"overlap", "stop", "deploy"} = {}

OneContainer ==
  /\ \A c \in Containers : con[c] = IF c = First THEN "running" ELSE "new"
  /\ \A c \in Containers \ {First} : log[c] = <<>> /\ follow[c] = None
  /\ Len(log[First]) = Len(stamp) /\ \A i \in 1..Len(stamp) : log[First][i] = i
  /\ job = "idle" /\ state = "RUNNING"

OneSync ==
  /\ \A p, q \in Syncers : sync[p].at # "idle" /\ sync[q].at # "idle" => p = q
  /\ \A p \in Syncers : sync[p].rest \subseteq {First}
  /\ \A p \in Syncers : sync[p].at \in {"syncing", "rejoining"} =>
       follow[First] = None /\ sync[p].con = First /\ sync[p].since = mark

OneStream ==
  \A s \in Streams : stream[s].at # "closed" => follow[First] = s /\ stream[s].con = First

\* Lines before k that are left out, between collected ones, share the millisecond of one.
GapsBefore(k) ==
  \A i, j \in Lines :
    i < j /\ j < k /\ copies[i] > 0 /\ copies[j] = 0 =>
      \E h \in Lines : i <= h /\ h < j /\ copies[h] > 0 /\ stamp[h] = stamp[j]

\* The watermark is that of the last line that was collected.
Marked ==
  /\ \A i \in Lines : copies[i] <= 1 /\ (copies[i] > 0 => i <= Len(stamp))
  /\ mark = 0 => \A i \in Lines : copies[i] = 0
  /\ mark > 0 => \E h \in Lines : /\ copies[h] > 0 /\ stamp[h] = mark
                                  /\ \A i \in Lines : copies[i] > 0 => i <= h
  /\ \A k \in Lines : copies[k] > 0 => GapsBefore(k)

\* A connection that repeats old lines is before those that are newer than the watermark; one
\* that does not is behind all that was collected.
Ahead(s) ==
  /\ s.skip = TRUE =>
       s.since = mark /\ mark > 0 /\ \A j \in 1..Len(stamp) : j < s.next => stamp[j] <= mark
  /\ s.skip = FALSE => (\A i \in Lines : copies[i] > 0 => i < s.next) /\ GapsBefore(s.next)

CalmInv ==
  /\ OneContainer /\ OneSync /\ OneStream /\ Marked
  /\ \A s \in Streams : stream[s].at # "closed" => Ahead(stream[s])

FollowIInv == FollowTypes /\ (Calm => CalmInv)

-----------------------------------------------------------------------------
(* Seconds, and where a connection begins. *)

LEMMA DivisionAscends ==
  ASSUME NEW a \in Nat, NEW b \in Nat, NEW n \in Nat, n > 0, a <= b
  PROVE  a \div n <= b \div n /\ a \div n \in Nat /\ b \div n \in Nat
<1>1. a \div n <= b \div n
  OBVIOUS
<1>2. a \div n \in Nat /\ b \div n \in Nat
  OBVIOUS
<1>3. QED
  BY <1>1, <1>2

LEMMA SecondsAscend ==
  ASSUME NEW a \in Nat, NEW b \in Nat, a <= b
  PROVE  a \div Sec <= b \div Sec /\ a \div Sec \in Nat /\ b \div Sec \in Nat
BY FollowAssumption, DivisionAscends

\* A connection begins in the log, and leaves out only lines of an earlier second.
LEMMA StartIs ==
  ASSUME FollowTypes, NEW c \in Containers, NEW since \in Nat
  PROVE  /\ StartOf(c, since) \in Nat /\ 1 <= StartOf(c, since)
         /\ StartOf(c, since) <= Len(log[c]) + 1
         /\ (\A i \in 1..Len(log[c]) : log[c][i] = i) /\ since # 0 =>
              \A j \in 1..Len(log[c]) : j < StartOf(c, since) => stamp[j] <= since
<1> DEFINE S == {i \in 1..Len(log[c]) : stamp[log[c][i]] \div Sec < since \div Sec}
<1>1. /\ Len(log[c]) \in Nat /\ Tail200 \in Nat /\ Tail200 >= 1
      /\ \A i \in 1..Len(log[c]) : stamp[log[c][i]] \in Nat
  <2>1. log[c] \in Seq(Lines) /\ stamp \in Seq(Nat)
    BY DEF FollowTypes, TypeOK
  <2>2. \A i \in 1..Len(log[c]) : log[c][i] \in 1..Len(stamp)
    BY DEF FollowTypes, LogsOK
  <2>3. QED
    BY <2>1, <2>2, FollowAssumption
<1>2. IsFiniteSet(1..Len(log[c])) /\ Cardinality(1..Len(log[c])) = Len(log[c])
  <2>1. \A k \in Nat : IsFiniteSet(1..k) /\ Cardinality(1..k) = k
    <3>1. ASSUME NEW k \in Nat
          PROVE  IsFiniteSet(1..k) /\ Cardinality(1..k) = k
      <4>1. IsFiniteSet(1..k) /\ Cardinality(1..k) = IF 1 > k THEN 0 ELSE k - 1 + 1
        BY FS_Interval
      <4>2. QED
        BY <4>1
    <3>2. QED
      BY <3>1
  <2>2. QED
    BY <1>1, <2>1
<1>3. IsFiniteSet(S) /\ Cardinality(S) \in Nat /\ Cardinality(S) <= Len(log[c])
  BY <1>2, FS_Subset, FS_CardinalityType
<1>4. CASE since = 0
  BY <1>1, <1>4 DEF StartOf
<1>5. CASE since # 0
  <2>1. StartOf(c, since) = Cardinality(S) + 1
    BY <1>5 DEF StartOf
  <2>2. ASSUME \A i \in 1..Len(log[c]) : log[c][i] = i,
               NEW j \in 1..Len(log[c]), j <= Cardinality(S), stamp[j] > since
        PROVE  FALSE
    <3>1. \A i \in j..Len(log[c]) : stamp[i] \in Nat /\ since <= stamp[i]
      <4>1. \A i \in j..Len(log[c]) : i \in 1..Len(stamp) /\ j \in 1..Len(stamp) /\ j <= i
        BY <1>1, <2>2 DEF FollowTypes, LogsOK
      <4>2. \A i \in j..Len(log[c]) : stamp[j] <= stamp[i]
        BY <4>1 DEF FollowTypes, LogsOK
      <4>3. \A i \in j..Len(log[c]) : stamp[i] \in Nat
        BY <1>1, <2>2
      <4>4. QED
        BY <2>2, <4>2, <4>3
    <3>2. \A i \in j..Len(log[c]) : ~(stamp[i] \div Sec < since \div Sec)
      <4>1. ASSUME NEW i \in j..Len(log[c])
            PROVE  ~(stamp[i] \div Sec < since \div Sec)
        <5>1. /\ since \div Sec <= stamp[i] \div Sec
              /\ since \div Sec \in Nat /\ stamp[i] \div Sec \in Nat
          BY <3>1, SecondsAscend
        <5>2. QED
          BY <5>1
      <4>2. QED
        BY <4>1
    <3>3. S \subseteq 1..(j - 1)
      BY <1>1, <2>2, <3>2
    <3>4. IsFiniteSet(1..(j - 1)) /\ Cardinality(1..(j - 1)) = j - 1
      BY FS_Interval
    <3>5. Cardinality(S) <= j - 1
      BY <3>3, <3>4, FS_Subset
    <3>6. QED
      BY <1>3, <2>2, <3>5
  <2>3. ASSUME \A i \in 1..Len(log[c]) : log[c][i] = i, NEW j \in 1..Len(log[c]),
          j < StartOf(c, since)
        PROVE  stamp[j] <= since
    <3>1. stamp[j] \in Nat /\ j <= Cardinality(S)
      BY <1>1, <1>3, <2>1, <2>3
    <3>2. QED
      BY <2>2, <2>3, <3>1
  <2>4. QED
    BY <1>3, <2>1, <2>3
<1>6. QED
  BY <1>4, <1>5

LEMMA InitInv ==
  ASSUME Init
  PROVE  FollowIInv
<1>1. \A s \in Streams : stream[s] = Closed
  BY DEF Init
<1>2. \A p \in Syncers : sync[p] = Resting
  BY DEF Init
<1>3. TypeOK
  <2>1. Closed \in Connections /\ Resting \in Progress
    BY FollowAssumption DEF Closed, Resting, Connections, Progress
  <2>2. stream \in [Streams -> Connections] /\ sync \in [Syncers -> Progress]
    BY <2>1 DEF Init
  <2>3. log \in [Containers -> Seq(Lines)] /\ stamp \in Seq(Nat)
    BY DEF Init
  <2>4. QED
    BY <2>2, <2>3 DEF Init, TypeOK, Connections, Progress
<1>4. FollowTypes
  BY <1>1, <1>2, <1>3, FollowAssumption DEF Init, FollowTypes, LogsOK, StreamOK, Closed, Resting
<1>5. CalmInv
  <2>1. OneContainer
    BY FollowAssumption DEF Init, OneContainer
  <2>2. OneSync
    BY <1>2 DEF OneSync, Resting
  <2>3. OneStream /\ \A s \in Streams : stream[s].at = "closed"
    BY <1>1 DEF OneStream, Closed
  <2>4. Marked
    BY DEF Init, Marked, GapsBefore
  <2>5. QED
    BY <2>1, <2>2, <2>3, <2>4 DEF CalmInv
<1>6. QED
  BY <1>4, <1>5 DEF FollowIInv

-----------------------------------------------------------------------------
(* What steps have in common. *)

LEMMA TypesMove ==
  ASSUME FollowTypes, UNCHANGED <<log, stamp>>, con' \in [Containers -> {"new", "running", "gone"}],
         stream' \in [Streams -> Connections], \A s \in Streams : StreamOK(stream[s])',
         follow' \in [Containers -> Streams \cup {None}], mark' \in Nat, frozen' \in BOOLEAN,
         copies' \in [Lines -> Nat], file' \in SUBSET Lines, sync' \in [Syncers -> Progress],
         \A p \in Syncers : sync'[p].at \in {"syncing", "rejoining"} => sync'[p].con \in Containers,
         job' \in {"idle", "launched", "swapped", "stopping"}, state' \in {"RUNNING", "STOPPED"},
         rare' \in SUBSET Rare
  PROVE  FollowTypes'
<1>1. TypeOK'
  BY DEF FollowTypes, TypeOK, Connections, Progress
<1>2. LogsOK'
  BY DEF FollowTypes, LogsOK
<1>3. QED
  BY <1>1, <1>2 DEF FollowTypes

\* The types, variable by variable.
LEMMA TypesAre ==
  ASSUME FollowTypes
  PROVE  /\ con \in [Containers -> {"new", "running", "gone"}]
         /\ log \in [Containers -> Seq(Lines)] /\ stamp \in Seq(Nat)
         /\ stream \in [Streams -> Connections] /\ follow \in [Containers -> Streams \cup {None}]
         /\ mark \in Nat /\ frozen \in BOOLEAN /\ copies \in [Lines -> Nat] /\ file \in SUBSET Lines
         /\ sync \in [Syncers -> Progress]
         /\ job \in {"idle", "launched", "swapped", "stopping"} /\ state \in {"RUNNING", "STOPPED"}
         /\ rare \in SUBSET Rare
BY DEF FollowTypes, TypeOK, Connections, Progress

\* While the docker side, the watermark and the buffer stay as they are.
LEMMA CalmMoves ==
  ASSUME FollowIInv, Calm, UNCHANGED <<con, log, stamp, mark, copies, job, state>>,
         \A c \in Containers \ {First} : follow'[c] = None, OneSync', OneStream',
         \A s \in Streams : \A t : t = stream'[s] /\ t.at # "closed" => Ahead(t)
  PROVE  CalmInv'
<1>1. OneContainer'
  BY DEF FollowIInv, CalmInv, OneContainer
<1>2. Marked'
  BY DEF FollowIInv, CalmInv, Marked, GapsBefore
<1>3. \A s \in Streams : stream'[s].at # "closed" => Ahead(stream[s])'
  BY DEF Ahead, GapsBefore
<1>4. QED
  BY <1>1, <1>2, <1>3 DEF CalmInv

LEMMA RestingIs == Resting \in Progress /\ Resting.at = "idle" /\ Resting.rest = {}
  BY DEF Resting, Progress

LEMMA AskingIs ==
  ASSUME NEW cs \in SUBSET Containers
  PROVE  Asking(cs) \in Progress /\ Asking(cs).at \in {"idle", "asking"} /\
           Asking(cs).rest \subseteq cs
<1>1. CASE cs = {}
  BY <1>1, RestingIs DEF Asking
<1>2. CASE cs # {}
  <2>1. Asking(cs) = [at |-> "asking", con |-> None, rest |-> cs, since |-> 0]
    BY <1>2 DEF Asking, Resting
  <2>2. QED
    BY <2>1 DEF Progress
<1>3. QED
  BY <1>1, <1>2

\* What comes next for a caller of syncDeployment.
LEMMA AfterSyncIs ==
  ASSUME FollowTypes, NEW p \in Syncers, NEW rest \in SUBSET Containers,
           NEW open \in SUBSET Containers,
         NEW idle \in SUBSET Containers, NEW to \in AfterSync(p, rest, open, idle)
  PROVE  /\ to \in Progress /\ to.at \in {"idle", "asking", "syncing"}
         /\ to.at = "syncing" => to.con \in open /\ to.since = mark
         /\ to.rest \subseteq rest \cup idle
<1>1. mark \in Nat
  BY TypesAre
<1>2. CASE open # {}
  <2>1. PICK c \in open : to = [at |-> "syncing", con |-> c, rest |-> rest \ {c}, since |-> mark]
    BY <1>2 DEF AfterSync
  <2>2. QED
    BY <1>1, <2>1 DEF Progress
<1>3. CASE open = {}
  <2>1. to = Resting \/ to = Asking(idle)
    BY <1>3 DEF AfterSync
  <2>2. QED
    BY <2>1, AskingIs, RestingIs
<1>4. QED
  BY <1>2, <1>3

LEMMA IdleAre == Idle \subseteq Followed /\ Followed \subseteq Containers
  BY DEF Idle, Followed

\* Connections that are destroyed, and the follows that are forgotten with them.
LEMMA DetachedAre ==
  ASSUME FollowTypes, NEW cs \in SUBSET Containers
  PROVE  /\ Detached(cs) \in [Streams -> Connections]
         /\ Forgotten(cs) \in [Containers -> Streams \cup {None}]
         /\ \A s \in Streams : Detached(cs)[s].at # "closed" =>
              Detached(cs)[s] = stream[s] /\ \A c \in cs : follow[c] # s
         /\ \A c \in Containers : Forgotten(cs)[c] = IF c \in cs THEN None ELSE follow[c]
<1>1. Closed \in Connections /\ Closed.at = "closed"
  BY FollowAssumption DEF Closed, Connections
<1>2. stream \in [Streams -> Connections] /\ follow \in [Containers -> Streams \cup {None}]
  BY TypesAre
<1>3. QED
  BY <1>1, <1>2 DEF Detached, Forgotten

\* One caller's progress changes while no other is at work.
LEMMA SyncMoves ==
  ASSUME FollowIInv, Calm, NEW p \in Syncers, NEW to \in Progress, sync' = [sync EXCEPT ![p] = to],
         \A q \in Syncers \ {p} : sync[q].at = "idle", to.rest \subseteq {First},
         to.at \in {"syncing", "rejoining"} => follow'[First] = None /\ to.con = First /\
              to.since = mark'
  PROVE  OneSync'
<1>1. sync'[p] = to /\ \A q \in Syncers \ {p} : sync'[q] = sync[q]
  BY TypesAre DEF FollowIInv
<1>2. \A q \in Syncers \ {p} : sync'[q].at = "idle" /\ sync'[q].rest \subseteq {First}
  BY <1>1 DEF FollowIInv, CalmInv, OneSync
<1>3. QED
  BY <1>1, <1>2 DEF OneSync

LEMMA Rarer ==
  ASSUME FollowTypes, NEW e \in Rare, Rarely(e) \/ UNCHANGED rare
  PROVE  rare \subseteq rare' /\ rare' \in SUBSET Rare /\ (Calm' => Calm)
<1>1. rare' = rare \cup {e} \/ rare' = rare
  BY DEF Rarely
<1>2. QED
  BY <1>1, TypesAre DEF Calm

-----------------------------------------------------------------------------
(* Docker, and the connections. *)

LEMMA ProduceStep ==
  ASSUME FollowIInv, NEW c \in Containers, Produce(c)
  PROVE  FollowIInv'
<1> DEFINE n == Len(stamp) + 1
<1>1. PICK v \in Nat :
        /\ stamp' = Append(stamp, v) /\ log' = [log EXCEPT ![c] = Append(log[c], n)]
        /\ v >= 1 /\ \A i \in 1..Len(stamp) : stamp[i] <= v
        /\ con[c] = "running" /\ n <= MaxLines
        /\ UNCHANGED <<con, stream, follow, mark, frozen, store, sync, jobs, rare>>
  <2>1. PICK later \in {0, 1} :
          /\ stamp' = Append(stamp, (IF n = 1 THEN 1 ELSE stamp[n - 1]) + later)
          /\ log' = [log EXCEPT ![c] = Append(log[c], n)]
          /\ con[c] = "running" /\ n <= MaxLines
          /\ UNCHANGED <<con, stream, follow, mark, frozen, store, sync, jobs, rare>>
    BY DEF Produce
  <2> DEFINE v == (IF n = 1 THEN 1 ELSE stamp[n - 1]) + later
  <2>2. stamp \in Seq(Nat) /\ Len(stamp) \in Nat
    BY TypesAre DEF FollowIInv
  <2>3. \A i \in 1..Len(stamp) : stamp[i] \in Nat /\ stamp[i] >= 1 /\ stamp[i] <= stamp[Len(stamp)]
    BY <2>2 DEF FollowIInv, FollowTypes, LogsOK
  <2>4. v \in Nat /\ v >= 1 /\ \A i \in 1..Len(stamp) : stamp[i] <= v
    BY <2>2, <2>3
  <2> HIDE DEF v
  <2>5. stamp' = Append(stamp, v)
    BY <2>1 DEF v
  <2>6. QED
    BY <2>1, <2>4, <2>5
<1>2. /\ stamp \in Seq(Nat) /\ Len(stamp) \in Nat /\ stamp' \in Seq(Nat) /\ Len(stamp') = n
      /\ stamp'[n] = v /\ \A i \in 1..Len(stamp) : stamp'[i] = stamp[i]
  BY <1>1, TypesAre DEF FollowIInv
<1>3. /\ log' \in [Containers -> Seq(Lines)]
      /\ Len(log'[c]) = Len(log[c]) + 1 /\ log'[c][Len(log[c]) + 1] = n
      /\ \A i \in 1..Len(log[c]) : log'[c][i] = log[c][i]
      /\ \A d \in Containers \ {c} : log'[d] = log[d]
  <2>1. log \in [Containers -> Seq(Lines)] /\ n \in Lines
    BY <1>1, <1>2, FollowAssumption, TypesAre DEF FollowIInv, Lines
  <2>2. Append(log[c], n) \in Seq(Lines)
    BY <2>1
  <2>3. QED
    BY <1>1, <2>1, <2>2
<1>4. LogsOK'
  <2>1. \A d \in Containers : Len(log[d]) \in Nat
    BY TypesAre DEF FollowIInv
  <2>2. \A d \in Containers : Len(log[d]) <= Len(stamp) /\
          \A i \in 1..Len(log[d]) : log[d][i] \in 1..Len(stamp)
    BY DEF FollowIInv, FollowTypes, LogsOK
  <2>3. \A d \in Containers : Len(log'[d]) <= n /\ \A i \in 1..Len(log'[d]) : log'[d][i] \in 1..n
    <3>1. \A d \in Containers \ {c} : Len(log'[d]) <= n /\
            \A i \in 1..Len(log'[d]) : log'[d][i] \in 1..n
      <4>1. ASSUME NEW d \in Containers \ {c}
            PROVE  Len(log'[d]) <= n /\ \A i \in 1..Len(log'[d]) : log'[d][i] \in 1..n
        <5>1. log'[d] = log[d] /\ Len(log[d]) \in Nat
          BY <1>3, <2>1
        <5>2. Len(log[d]) <= n /\ \A i \in 1..Len(log[d]) : log[d][i] \in 1..n
          BY <1>2, <2>2, <5>1
        <5>3. QED
          BY <5>1, <5>2
      <4>2. QED
        BY <4>1
    <3>2. Len(log'[c]) <= n /\ \A i \in 1..Len(log'[c]) : log'[c][i] \in 1..n
      <4>1. Len(log[c]) \in Nat /\ Len(log[c]) <= Len(stamp) /\ Len(log'[c]) = Len(log[c]) + 1
        BY <1>3, <2>1, <2>2
      <4>2. \A i \in 1..Len(log[c]) : log'[c][i] \in 1..n
        <5>1. ASSUME NEW i \in 1..Len(log[c])
              PROVE  log'[c][i] \in 1..n
          <6>1. log'[c][i] = log[c][i]
            BY <1>3
          <6>2. log[c][i] \in 1..Len(stamp)
            BY <2>2
          <6>3. QED
            BY <1>2, <6>1, <6>2
        <5>2. QED
          BY <5>1
      <4>3. log'[c][Len(log[c]) + 1] \in 1..n
        BY <1>2, <1>3
      <4>4. \A i \in 1..Len(log'[c]) : i \in 1..Len(log[c]) \/ i = Len(log[c]) + 1
        BY <4>1
      <4>5. Len(log'[c]) <= n
        BY <1>2, <4>1
      <4>6. QED
        BY <4>2, <4>3, <4>4, <4>5
    <3>3. QED
      BY <3>1, <3>2
  <2>4. \A i \in 1..n : stamp'[i] >= 1
    BY <1>1, <1>2 DEF FollowIInv, FollowTypes, LogsOK
  <2>5. \A i, j \in 1..n : i <= j => stamp'[i] <= stamp'[j]
    BY <1>1, <1>2 DEF FollowIInv, FollowTypes, LogsOK
  <2>6. QED
    BY <1>1, <1>2, <2>3, <2>4, <2>5 DEF LogsOK
<1>5. FollowTypes'
  <2>1. TypeOK'
    BY <1>1, <1>2, <1>3 DEF FollowIInv, FollowTypes, TypeOK, store, jobs
  <2>2. \A s \in Streams : StreamOK(stream[s])'
    <3>1. \A d \in Containers : Len(log[d]) \in Nat /\ Len(log[d]) <= Len(log'[d])
      <4>1. \A d \in Containers : Len(log[d]) \in Nat
        BY TypesAre DEF FollowIInv
      <4>2. ASSUME NEW d \in Containers
            PROVE  Len(log[d]) <= Len(log'[d])
        <5>1. CASE d = c
          BY <1>3, <4>1, <5>1
        <5>2. CASE d # c
          BY <1>3, <4>1, <5>2
        <5>3. QED
          BY <5>1, <5>2
      <4>3. QED
        BY <4>1, <4>2
    <3>2. \A d \in Containers : Len(log'[d]) \in Nat
      BY <1>3
    <3>3. \A s \in Streams : StreamOK(stream[s]) /\ stream[s].next \in Nat
      BY TypesAre, FollowAssumption DEF FollowIInv, FollowTypes, Connections
    <3>4. QED
      BY <1>1, <3>1, <3>2, <3>3 DEF StreamOK
  <2>3. QED
    BY <1>1, <1>4, <2>1, <2>2 DEF FollowIInv, FollowTypes
<1>6. ASSUME Calm
      PROVE  CalmInv'
  <2>1. c = First
    BY <1>1, <1>6 DEF FollowIInv, CalmInv, OneContainer
  <2>2. OneContainer'
    <3>1. Len(log'[First]) = n /\ \A i \in 1..n : log'[First][i] = i
      <4>1. Len(log[c]) = Len(stamp) /\ \A i \in 1..Len(stamp) : log[c][i] = i
        BY <1>6, <2>1 DEF FollowIInv, CalmInv, OneContainer
      <4>2. Len(log'[c]) = n /\ log'[c][n] = n /\ \A i \in 1..Len(stamp) : log'[c][i] = i
        BY <1>3, <4>1
      <4>3. QED
        BY <1>2, <2>1, <4>2
    <3>2. QED
      BY <1>1, <1>2, <1>3, <1>6, <2>1, <3>1 DEF FollowIInv, CalmInv, OneContainer, jobs
  <2>3. OneSync' /\ OneStream'
    BY <1>1, <1>6 DEF FollowIInv, CalmInv, OneSync, OneStream
  <2>4. ASSUME NEW k \in Nat, k <= n, GapsBefore(k)
        PROVE  GapsBefore(k)'
    BY <1>1, <1>2, <2>4, FollowAssumption DEF GapsBefore, Lines, store
  <2>5. Marked'
    <3>1. /\ \A i \in Lines : copies[i] <= 1 /\ (copies[i] > 0 => i <= Len(stamp))
          /\ mark = 0 => \A i \in Lines : copies[i] = 0
          /\ \A k \in Lines : copies[k] > 0 => GapsBefore(k)
      BY <1>6 DEF FollowIInv, CalmInv, Marked
    <3>2. mark > 0 => \E h \in Lines : /\ copies[h] > 0 /\ stamp'[h] = mark
                                       /\ \A i \in Lines : copies[i] > 0 => i <= h
      <4>1. ASSUME mark > 0
            PROVE  \E h \in Lines : /\ copies[h] > 0 /\ stamp'[h] = mark
                                     /\ \A i \in Lines : copies[i] > 0 => i <= h
        <5>1. PICK h \in Lines : /\ copies[h] > 0 /\ stamp[h] = mark
                                 /\ \A i \in Lines : copies[i] > 0 => i <= h
          BY <1>6, <4>1 DEF FollowIInv, CalmInv, Marked
        <5>2. h \in 1..Len(stamp)
          BY <1>2, <3>1, <5>1, FollowAssumption DEF Lines
        <5>3. stamp'[h] = mark
          BY <1>2, <5>1, <5>2
        <5>4. QED
          BY <5>1, <5>3
      <4>2. QED
        BY <4>1
    <3>3. \A i \in Lines : copies[i] > 0 => i <= n
      BY <1>2, <3>1, FollowAssumption DEF Lines
    <3>4. \A k \in Lines : copies[k] > 0 => GapsBefore(k)'
      BY <1>2, <2>4, <3>1, <3>3, FollowAssumption DEF Lines
    <3>5. QED
      BY <1>1, <1>2, <3>1, <3>2, <3>3, <3>4 DEF Marked, store
  <2>6. ASSUME NEW s \in Streams, stream[s].at # "closed"
        PROVE  Ahead(stream[s])'
    <3>1. stream[s].next \in Nat /\ stream[s].next <= n
      BY <1>2, <1>6, <2>6, TypesAre, FollowAssumption DEF FollowIInv, FollowTypes, StreamOK,
         Connections,
         CalmInv, OneContainer, OneStream
    <3>2. \A t : t = stream[s] => Ahead(t)
      BY <1>6, <2>6 DEF FollowIInv, CalmInv
    <3>3. \A t : t = stream[s] => Ahead(t)'
      BY <1>1, <1>2, <2>4, <3>1, <3>2 DEF Ahead, store
    <3>4. QED
      BY <1>1, <3>3
  <2>7. QED
    BY <1>1, <2>2, <2>3, <2>5, <2>6 DEF CalmInv
<1>7. QED
  BY <1>1, <1>5, <1>6 DEF FollowIInv, Calm

\* A line that a connection delivers and does not take to be old is behind all that was collected.
LEMMA NewIsBehind ==
  ASSUME FollowTypes, CalmInv, NEW s \in Streams, NEW n \in Lines, n <= Len(stamp),
         stream[s].at # "closed", stream[s].next = n, ~IsOld(s, n)
  PROVE  (\A i \in Lines : copies[i] > 0 => i < n) /\ GapsBefore(n)
<1>1. copies \in [Lines -> Nat] /\ stamp \in Seq(Nat) /\ Lines \subseteq Nat /\ mark \in Nat
      /\ stream[s] \in Connections /\ Len(stamp) \in Nat /\ n \in 1..Len(stamp)
  BY TypesAre, FollowAssumption DEF Lines
<1>2. /\ \A i \in Lines : copies[i] <= 1 /\ (copies[i] > 0 => i <= Len(stamp))
      /\ \A k \in Lines : copies[k] > 0 => GapsBefore(k)
      /\ mark = 0 => \A i \in Lines : copies[i] = 0
  BY DEF CalmInv, Marked
<1>3. CASE stream[s].skip = FALSE
  BY <1>3 DEF CalmInv, Ahead
<1>4. CASE stream[s].skip = TRUE
  <2>1. /\ stream[s].since = mark /\ mark > 0
        /\ \A j \in 1..Len(stamp) : j < n => stamp[j] <= mark
    BY <1>4 DEF CalmInv, Ahead
  <2>2. stamp[n] > mark
    BY <1>1, <1>4, <2>1 DEF IsOld
  <2>3. PICK h \in Lines : copies[h] > 0 /\ stamp[h] = mark /\ \A i \in Lines : copies[i] > 0 =>
          i <= h
    BY <2>1 DEF CalmInv, Marked
  <2>4. h \in 1..Len(stamp) /\ h < n
    <3>1. h \in 1..Len(stamp)
      BY <1>1, <1>2, <2>3 DEF Lines
    <3>2. ASSUME n <= h
          PROVE  FALSE
      <4>1. stamp[n] <= stamp[h]
        BY <1>1, <3>1, <3>2 DEF FollowTypes, LogsOK
      <4>2. QED
        BY <1>1, <2>2, <2>3, <3>1, <4>1
    <3>3. QED
      BY <1>1, <3>1, <3>2
  <2>5. \A i \in Lines : copies[i] > 0 => i < n
    BY <1>1, <2>3, <2>4
  <2>6. ASSUME NEW i \in Lines, NEW j \in Lines, i < j, j < n, copies[i] > 0, copies[j] = 0
        PROVE  \E g \in Lines : i <= g /\ g < j /\ copies[g] > 0 /\ stamp[g] = stamp[j]
    <3>1. CASE j < h
      BY <1>2, <2>3, <2>6, <3>1 DEF GapsBefore
    <3>2. CASE h < j
      <4>1. j \in 1..Len(stamp) /\ h <= j
        BY <1>1, <2>4, <2>6, <3>2 DEF Lines
      <4>2. stamp[h] <= stamp[j] /\ stamp[j] <= mark
        BY <2>1, <2>4, <2>6, <4>1 DEF FollowTypes, LogsOK
      <4>3. stamp[h] = stamp[j]
        BY <1>1, <2>3, <2>4, <4>1, <4>2
      <4>4. i <= h
        BY <2>3, <2>6
      <4>5. QED
        BY <2>3, <3>2, <4>3, <4>4
    <3>3. j # h
      BY <1>1, <2>3, <2>6
    <3>4. QED
      BY <1>1, <2>4, <3>1, <3>2, <3>3
  <2>7. QED
    BY <2>5, <2>6 DEF GapsBefore
<1>5. stream[s].skip \in BOOLEAN
  BY <1>1 DEF Connections
<1>6. QED
  BY <1>3, <1>4, <1>5

\* The connection delivers: the calm part.
LEMMA DeliverCollects ==
  ASSUME FollowTypes, CalmInv, NEW s \in Streams, NEW n \in Lines, n <= Len(stamp),
         stream[s].at # "closed", stream[s].next = n, ~IsOld(s, n),
         copies' = [copies EXCEPT ![n] = 1], mark' = stamp[n], UNCHANGED stamp
  PROVE  Marked' /\ GapsBefore(n + 1)' /\ \A i \in Lines : copies'[i] > 0 => i < n + 1
<1>1. copies \in [Lines -> Nat] /\ stamp \in Seq(Nat) /\ Lines \subseteq Nat /\ mark \in Nat
      /\ stream[s] \in Connections /\ Len(stamp) \in Nat /\ n \in 1..Len(stamp)
  BY TypesAre, FollowAssumption DEF Lines
<1>2. /\ \A i \in Lines : copies[i] <= 1 /\ (copies[i] > 0 => i <= Len(stamp))
      /\ \A k \in Lines : copies[k] > 0 => GapsBefore(k)
      /\ mark = 0 => \A i \in Lines : copies[i] = 0
  BY DEF CalmInv, Marked
<1>3. (\A i \in Lines : copies[i] > 0 => i < n) /\ GapsBefore(n)
  BY NewIsBehind
<1>4. copies'[n] = 1 /\ \A i \in Lines \ {n} : copies'[i] = copies[i]
  BY <1>1
<1>5. stamp[n] >= 1 /\ stamp[n] \in Nat
  BY <1>1 DEF FollowTypes, LogsOK
<1>6. \A i \in Lines : copies'[i] > 0 => i <= n
  BY <1>1, <1>3, <1>4
<1>7. ASSUME NEW k \in Nat, k <= n, GapsBefore(k)
      PROVE  GapsBefore(k)'
  BY <1>1, <1>3, <1>4, <1>7 DEF GapsBefore
<1>8. GapsBefore(n + 1)'
  BY <1>1, <1>3, <1>4, <1>7 DEF GapsBefore
<1>9. Marked'
  <2>1. \A i \in Lines : copies'[i] <= 1 /\ (copies'[i] > 0 => i <= Len(stamp))
    BY <1>1, <1>2, <1>4
  <2>2. \A k \in Lines : copies'[k] > 0 => GapsBefore(k)'
    BY <1>1, <1>2, <1>3, <1>4, <1>7
  <2>3. \E h \in Lines : /\ copies'[h] > 0 /\ stamp[h] = mark'
                         /\ \A i \in Lines : copies'[i] > 0 => i <= h
    BY <1>4, <1>6
  <2>4. QED
    BY <1>1, <1>5, <2>1, <2>2, <2>3 DEF Marked
<1>10. QED
  BY <1>1, <1>6, <1>8, <1>9

LEMMA DeliverStep ==
  ASSUME FollowIInv, NEW s \in Streams, Deliver(s)
  PROVE  FollowIInv'
<1> DEFINE me == stream[s]
           line == log[me.con][me.next]
<1>1. /\ me.at = "open" /\ me.next <= Len(log[me.con]) /\ frozen' = FALSE
      /\ file' \in {file, {m \in Lines : copies'[m] > 0}}
      /\ UNCHANGED <<docker, follow, sync, jobs, rare>>
      /\ \/ /\ IsOld(s, line) /\ stream' = [stream EXCEPT ![s].next = me.next + 1]
            /\ mark' = mark /\ copies' = copies
         \/ /\ ~IsOld(s, line) /\ stream' = [stream EXCEPT ![s].next = me.next + 1,
              ![s].skip = FALSE]
            /\ mark' = stamp[line] /\ copies' = [copies EXCEPT ![line] = copies[line] + 1]
  BY DEF Deliver
<1>2. /\ me \in Connections /\ me.con \in Containers /\ me.next >= 1 /\ me.next \in Nat
      /\ stamp \in Seq(Nat) /\ Len(log[me.con]) \in Nat /\ Len(stamp) \in Nat
      /\ copies \in [Lines -> Nat]
  <2>1. me \in Connections /\ stamp \in Seq(Nat) /\ copies \in [Lines -> Nat]
    BY TypesAre DEF FollowIInv
  <2>2. me.con \in Containers /\ me.next >= 1 /\ me.next \in Nat
    BY <1>1, <2>1, FollowAssumption DEF FollowIInv, FollowTypes, StreamOK, Connections
  <2>3. log[me.con] \in Seq(Lines)
    BY <2>2, TypesAre DEF FollowIInv
  <2>4. QED
    BY <2>1, <2>2, <2>3
<1>3. PICK n \in Lines :
        n = line /\ n \in 1..Len(stamp) /\ stamp[n] \in Nat /\ me.next + 1 \in 0..(MaxLines + 1)
  <2>1. line \in 1..Len(stamp)
    BY <1>1, <1>2 DEF FollowIInv, FollowTypes, LogsOK
  <2>2. Len(stamp) <= MaxLines /\ Len(log[me.con]) <= Len(stamp)
    BY <1>2 DEF FollowIInv, FollowTypes, LogsOK
  <2> HIDE DEF line
  <2>3. line \in Lines /\ stamp[line] \in Nat
    BY <1>2, <2>1, <2>2, FollowAssumption DEF Lines
  <2>4. me.next + 1 \in 0..(MaxLines + 1)
    <3>1. me.next <= MaxLines
      BY <1>1, <1>2, <2>2, FollowAssumption
    <3>2. QED
      BY <1>2, <3>1, FollowAssumption
  <2>5. QED
    BY <2>1, <2>3, <2>4
<1> HIDE DEF line
<1>4. PICK new \in Connections :
        /\ stream' = [stream EXCEPT ![s] = new] /\ new.con = me.con /\ new.at = "open"
        /\ new.next = me.next + 1 /\ new.since = me.since
        /\ IsOld(s, n) => new.skip = me.skip
        /\ ~IsOld(s, n) => new.skip = FALSE
  <2>1. CASE IsOld(s, n)
    <3>1. [me EXCEPT !.next = me.next + 1] \in Connections
      BY <1>2, <1>3 DEF Connections
    <3>2. stream' = [stream EXCEPT ![s] = [me EXCEPT !.next = me.next + 1]]
      BY <1>1, <1>3, <2>1
    <3>3. QED
      BY <1>1, <1>2, <2>1, <3>1, <3>2 DEF Connections
  <2>2. CASE ~IsOld(s, n)
    <3>1. [me EXCEPT !.next = me.next + 1, !.skip = FALSE] \in Connections
      BY <1>2, <1>3 DEF Connections
    <3>2. stream' = [stream EXCEPT ![s] = [me EXCEPT !.next = me.next + 1, !.skip = FALSE]]
      BY <1>1, <1>3, <2>2
    <3>3. QED
      BY <1>1, <1>2, <2>2, <3>1, <3>2 DEF Connections
  <2>3. QED
    BY <2>1, <2>2
<1>5. stream' \in [Streams -> Connections] /\ stream'[s] = new /\
        \A t \in Streams \ {s} : stream'[t] = stream[t]
  BY <1>4, TypesAre DEF FollowIInv
<1>6. FollowTypes'
  <2>1. mark' \in Nat /\ copies' \in [Lines -> Nat]
    <3>1. mark \in Nat /\ copies[n] + 1 \in Nat
      BY <1>2, <1>3, TypesAre DEF FollowIInv
    <3>2. QED
      BY <1>1, <1>2, <1>3, <3>1
  <2>2. file' \in SUBSET Lines
    BY <1>1, TypesAre DEF FollowIInv
  <2>3. \A t \in Streams : StreamOK(stream[t])'
    BY <1>1, <1>2, <1>4, <1>5 DEF FollowIInv, FollowTypes, StreamOK, docker
  <2>4. \A p \in Syncers : sync'[p].at \in {"syncing", "rejoining"} => sync'[p].con \in Containers
    BY <1>1 DEF FollowIInv, FollowTypes
  <2>5. QED
    BY <1>1, <1>5, <2>1, <2>2, <2>3, <2>4, TypesAre, TypesMove DEF FollowIInv, docker, jobs
<1>7. ASSUME Calm
      PROVE  CalmInv'
  <2>1. CalmInv /\ FollowTypes
    BY <1>7 DEF FollowIInv
  <2>2. /\ me.con = First /\ follow[First] = s /\ n = me.next
        /\ \A t \in Streams \ {s} : stream[t].at = "closed"
    <3>1. me.con = First /\ follow[First] = s /\ \A t \in Streams \ {s} : stream[t].at = "closed"
      BY <1>1, <2>1 DEF CalmInv, OneStream
    <3>2. log[First][me.next] = me.next
      BY <1>1, <1>2, <2>1, <3>1 DEF CalmInv, OneContainer
    <3>3. QED
      BY <1>3, <3>1, <3>2 DEF line
  <2>3. OneContainer'
    BY <1>1, <2>1 DEF CalmInv, OneContainer, docker, jobs
  <2>4. OneStream'
    BY <1>1, <1>4, <1>5, <2>1, <2>2 DEF CalmInv, OneStream
  <2>5. OneSync'
    <3>1. s \in Streams /\ None \notin Streams
      BY FollowAssumption
    <3>2. \A p \in Syncers : sync[p].at \notin {"syncing", "rejoining"}
      BY <2>1, <2>2, <3>1 DEF CalmInv, OneSync
    <3>3. QED
      BY <1>1, <2>1, <3>2 DEF CalmInv, OneSync
  <2>6. CASE IsOld(s, n)
    <3>1. copies' = copies /\ mark' = mark /\ UNCHANGED stamp
      BY <1>1, <1>3, <2>6 DEF docker
    <3>2. Marked'
      BY <2>1, <3>1 DEF CalmInv, Marked, GapsBefore
    <3>3. Ahead(me) /\ me.skip = TRUE /\ stamp[n] <= me.since
      BY <1>1, <1>2, <2>1, <2>6 DEF CalmInv, IsOld, Connections
    <3>4. /\ me.since = mark /\ mark > 0
          /\ \A j \in 1..Len(stamp) : j < n + 1 => stamp[j] <= mark
      BY <1>2, <1>3, <2>2, <3>3 DEF Ahead
    <3>5. \A t : t = new => Ahead(t)'
      BY <1>4, <2>2, <2>6, <3>1, <3>3, <3>4 DEF Ahead
    <3>6. \A t \in Streams : stream'[t].at # "closed" => stream'[t] = new
      BY <1>5, <2>2
    <3>7. QED
      BY <2>3, <2>4, <2>5, <3>2, <3>5, <3>6 DEF CalmInv
  <2>7. CASE ~IsOld(s, n)
    <3>1. copies' = [copies EXCEPT ![n] = copies[n] + 1] /\ mark' = stamp[n] /\ UNCHANGED stamp
      BY <1>1, <1>3, <2>7 DEF docker
    <3>2. copies[n] = 0
      <4>1. stream[s].at # "closed" /\ stream[s].next = n /\ n <= Len(stamp)
        BY <1>1, <1>2, <1>3, <2>2
      <4>2. \A i \in Lines : copies[i] > 0 => i < n
        BY <2>1, <2>7, <4>1, NewIsBehind
      <4>3. copies[n] \in Nat /\ ~(n < n)
        BY <1>2, <1>3
      <4>4. QED
        BY <4>2, <4>3
    <3>3. copies' = [copies EXCEPT ![n] = 1]
      BY <1>2, <1>3, <3>1, <3>2
    <3>4. /\ Marked' /\ GapsBefore(n + 1)' /\ \A i \in Lines : copies'[i] > 0 => i < n + 1
      <4>1. stream[s].at # "closed" /\ stream[s].next = n /\ n <= Len(stamp)
        BY <1>1, <1>2, <1>3, <2>2
      <4>2. QED
        BY <2>1, <2>7, <3>1, <3>3, <4>1, DeliverCollects
    <3>5. new.skip = FALSE /\ new.next = n + 1
      BY <1>4, <2>2, <2>7
    <3>6. \A t : t = new => Ahead(t)'
      BY <3>4, <3>5 DEF Ahead
    <3>7. \A t \in Streams : stream'[t].at # "closed" => stream'[t] = new
      BY <1>5, <2>2
    <3>8. QED
      BY <2>3, <2>4, <2>5, <3>4, <3>6, <3>7 DEF CalmInv
  <2>8. QED
    BY <2>6, <2>7
<1>8. QED
  BY <1>1, <1>6, <1>7 DEF FollowIInv, Calm

LEMMA EndStep ==
  ASSUME FollowIInv, NEW s \in Streams, End(s)
  PROVE  FollowIInv'
<1>1. /\ stream[s].at # "closed" /\ (Rarely("drop") \/ UNCHANGED rare)
      /\ stream' = [stream EXCEPT ![s] = Closed]
      /\ follow' = [follow EXCEPT ![stream[s].con] = None]
      /\ UNCHANGED <<docker, mark, frozen, store, sync, jobs>>
  BY DEF End
<1>2. rare \subseteq rare' /\ rare' \in SUBSET Rare /\ (Calm' => Calm)
  BY <1>1, Rarer DEF FollowIInv, Rare
<1>3. Closed \in Connections /\ Closed.at = "closed"
  BY FollowAssumption DEF Closed, Connections
<1>4. /\ stream' \in [Streams -> Connections] /\ stream'[s].at = "closed"
      /\ \A t \in Streams \ {s} : stream'[t] = stream[t]
  BY <1>1, <1>3, TypesAre DEF FollowIInv
<1>5. /\ follow' \in [Containers -> Streams \cup {None}]
      /\ \A c \in Containers : follow'[c] \in {follow[c], None}
  BY <1>1, TypesAre DEF FollowIInv
<1>6. FollowTypes'
  <2>1. \A t \in Streams : StreamOK(stream[t])'
    BY <1>1, <1>4 DEF FollowIInv, FollowTypes, StreamOK, docker
  <2>2. \A p \in Syncers : sync'[p].at \in {"syncing", "rejoining"} => sync'[p].con \in Containers
    BY <1>1 DEF FollowIInv, FollowTypes
  <2>3. QED
    BY <1>1, <1>2, <1>4, <1>5, <2>1, <2>2, TypesAre, TypesMove DEF FollowIInv, docker, store, jobs
<1>7. ASSUME Calm
      PROVE  CalmInv'
  <2>1. CalmInv
    BY <1>7 DEF FollowIInv
  <2>2. \A t \in Streams : stream'[t].at = "closed"
    BY <1>1, <1>4, <2>1 DEF CalmInv, OneStream
  <2>3. \A c \in Containers \ {First} : follow'[c] = None
    BY <1>5, <2>1 DEF CalmInv, OneContainer
  <2>4. OneSync'
    BY <1>1, <1>5, <2>1, FollowAssumption DEF CalmInv, OneSync
  <2>5. OneStream'
    BY <2>2 DEF OneStream
  <2>6. QED
    BY <1>1, <1>7, <2>2, <2>3, <2>4, <2>5, CalmMoves DEF docker, store, jobs
<1>8. QED
  BY <1>2, <1>6, <1>7 DEF FollowIInv

LEMMA StallStep ==
  ASSUME FollowIInv, NEW s \in Streams, Stall(s)
  PROVE  FollowIInv'
<1>1. /\ stream[s].at = "open" /\ Rarely("stall")
      /\ stream' = [stream EXCEPT ![s] = [stream[s] EXCEPT !.at = "stalled"]]
      /\ UNCHANGED <<docker, follow, mark, frozen, store, sync, jobs>>
  BY DEF Stall
<1>2. rare \subseteq rare' /\ rare' \in SUBSET Rare /\ (Calm' => Calm)
  BY <1>1, Rarer DEF FollowIInv, Rare
<1>3. PICK new \in Connections :
        /\ stream' = [stream EXCEPT ![s] = new] /\ new.at = "stalled" /\ new.con = stream[s].con
        /\ new.next = stream[s].next /\ new.skip = stream[s].skip /\ new.since = stream[s].since
  <2>1. stream[s] \in Connections
    BY TypesAre DEF FollowIInv
  <2>2. [stream[s] EXCEPT !.at = "stalled"] \in Connections
    BY <2>1 DEF Connections
  <2>3. QED
    BY <1>1, <2>1, <2>2 DEF Connections
<1>4. /\ stream' \in [Streams -> Connections] /\ stream'[s] = new
      /\ \A t \in Streams \ {s} : stream'[t] = stream[t]
  BY <1>3, TypesAre DEF FollowIInv
<1>5. FollowTypes'
  <2>1. \A t \in Streams : StreamOK(stream[t])'
    BY <1>1, <1>3, <1>4 DEF FollowIInv, FollowTypes, StreamOK, docker
  <2>2. \A p \in Syncers : sync'[p].at \in {"syncing", "rejoining"} => sync'[p].con \in Containers
    BY <1>1 DEF FollowIInv, FollowTypes
  <2>3. QED
    BY <1>1, <1>2, <1>4, <2>1, <2>2, TypesAre, TypesMove DEF FollowIInv, docker, store, jobs
<1>6. ASSUME Calm
      PROVE  CalmInv'
  <2>1. CalmInv
    BY <1>6 DEF FollowIInv
  <2>2. \A c \in Containers \ {First} : follow'[c] = None
    BY <1>1, <2>1 DEF CalmInv, OneContainer
  <2>3. OneSync'
    BY <1>1, <2>1 DEF CalmInv, OneSync
  <2>4. OneStream'
    BY <1>1, <1>3, <1>4, <2>1 DEF CalmInv, OneStream
  <2>5. Ahead(stream[s]) /\ \A t \in Streams \ {s} : stream[t].at = "closed"
    BY <1>1, <2>1 DEF CalmInv, OneStream
  <2>6. Ahead(new)
    BY <1>3, <2>5 DEF Ahead
  <2>7. \A t \in Streams : \A x : x = stream'[t] /\ x.at # "closed" => Ahead(x)
    BY <1>4, <2>5, <2>6
  <2>8. QED
    BY <1>1, <1>6, <2>2, <2>3, <2>4, <2>7, CalmMoves DEF docker, store, jobs
<1>7. QED
  BY <1>2, <1>5, <1>6 DEF FollowIInv

-----------------------------------------------------------------------------
(* syncDeployment and the sweep. *)

\* What a caller's step asks of the types.
LEMMA SyncTypes ==
  ASSUME FollowTypes, NEW p \in Syncers, NEW to \in Progress, sync' = [sync EXCEPT ![p] = to],
         to.at \in {"syncing", "rejoining"} => to.con \in Containers
  PROVE  /\ sync' \in [Syncers -> Progress]
         /\ \A q \in Syncers : sync'[q].at \in {"syncing", "rejoining"} =>
              sync'[q].con \in Containers
<1>1. sync'[p] = to /\ sync' \in [Syncers -> Progress] /\
        \A q \in Syncers \ {p} : sync'[q] = sync[q]
  BY TypesAre
<1>2. QED
  BY <1>1 DEF FollowTypes

LEMMA BeginStep ==
  ASSUME FollowIInv, NEW p \in Syncers, Begin(p),
           UNCHANGED <<docker, stream, follow, mark, frozen, store>>,
         job' \in {"idle", "launched", "swapped", "stopping"}, state' = state, Calm => job' = job
  PROVE  FollowIInv'
<1>1. /\ sync[p].at = "idle" /\ sync' = [sync EXCEPT ![p] = [sync[p] EXCEPT !.at = "listing"]]
      /\ Rarely("overlap") \/ UNCHANGED rare
      /\ (\E q \in Syncers \ {p} : sync[q].at # "idle") => Rarely("overlap")
  BY DEF Begin
<1>2. rare \subseteq rare' /\ rare' \in SUBSET Rare /\ (Calm' => Calm)
  BY <1>1, Rarer DEF FollowIInv, Rare
<1>3. PICK to \in Progress :
        sync' = [sync EXCEPT ![p] = to] /\ to.at = "listing" /\ to.rest = sync[p].rest
  <2>1. sync[p] \in Progress
    BY TypesAre DEF FollowIInv
  <2>2. [sync[p] EXCEPT !.at = "listing"] \in Progress
    BY <2>1 DEF Progress
  <2>3. QED
    BY <1>1, <2>1, <2>2 DEF Progress
<1>4. FollowTypes'
  <2>1. \A t \in Streams : StreamOK(stream[t])'
    BY DEF FollowIInv, FollowTypes, StreamOK, docker
  <2>2. /\ sync' \in [Syncers -> Progress]
        /\ \A q \in Syncers : sync'[q].at \in {"syncing", "rejoining"} =>
             sync'[q].con \in Containers
    BY <1>3, SyncTypes DEF FollowIInv
  <2>3. QED
    BY <1>2, <2>1, <2>2, TypesAre, TypesMove DEF FollowIInv, docker, store
<1>5. ASSUME Calm'
      PROVE  CalmInv'
  <2>1. CalmInv /\ Calm
    BY <1>2, <1>5 DEF FollowIInv
  <2>2. \A q \in Syncers \ {p} : sync[q].at = "idle"
    BY <1>1, <1>5 DEF Calm, Rarely
  <2>3. to.rest \subseteq {First}
    BY <1>3, <2>1 DEF CalmInv, OneSync
  <2>4. OneSync'
    BY <1>3, <2>1, <2>2, <2>3, SyncMoves
  <2>5. OneStream' /\ \A c \in Containers \ {First} : follow'[c] = None
    BY <2>1 DEF CalmInv, OneStream, OneContainer
  <2>6. \A t \in Streams : \A x : x = stream'[t] /\ x.at # "closed" => Ahead(x)
    BY <2>1 DEF CalmInv
  <2>7. QED
    BY <2>1, <2>4, <2>5, <2>6, CalmMoves DEF docker, store
<1>6. QED
  BY <1>4, <1>5 DEF FollowIInv

\* A caller that is at work is the only one, and goes on with the container that runs.
LEMMA AtWork ==
  ASSUME FollowIInv, Calm, NEW p \in Syncers, sync[p].at # "idle"
  PROVE  /\ \A q \in Syncers \ {p} : sync[q].at = "idle"
         /\ sync[p].rest \subseteq {First} /\ Idle \subseteq {First}
         /\ Followed \subseteq {First} /\ Running = {First}
<1>1. CalmInv
  BY DEF FollowIInv
<1>2. Followed \subseteq {First} /\ Running = {First}
  BY <1>1, FollowAssumption DEF CalmInv, OneContainer, Followed, Running
<1>3. QED
  BY <1>1, <1>2, IdleAre DEF CalmInv, OneSync

LEMMA ListStep ==
  ASSUME FollowIInv, NEW p \in Syncers, List(p)
  PROVE  FollowIInv'
<1>1. PICK to :
        /\ sync[p].at = "listing" /\ sync' = [sync EXCEPT ![p] = to]
        /\ \/ to = [sync[p] EXCEPT !.at = "listed", !.rest = Running] /\ UNCHANGED rare
           \/ Rarely("refused") /\ to \in AfterSync(p, {}, {}, Idle)
        /\ UNCHANGED <<docker, stream, follow, mark, frozen, store, jobs>>
  BY DEF List, Goes
<1>2. rare \subseteq rare' /\ rare' \in SUBSET Rare /\ (Calm' => Calm)
  BY <1>1, Rarer DEF FollowIInv, Rare
<1>3. to \in Progress /\ to.at \in {"idle", "listed", "asking"} /\
        to.rest \subseteq Running \cup Idle
  <2>1. CASE to = [sync[p] EXCEPT !.at = "listed", !.rest = Running]
    <3>1. sync[p] \in Progress
      BY TypesAre DEF FollowIInv
    <3>2. QED
      BY <2>1, <3>1 DEF Progress, Running
  <2>2. CASE to \in AfterSync(p, {}, {}, Idle)
    BY <2>2, AfterSyncIs, IdleAre DEF FollowIInv
  <2>3. QED
    BY <1>1, <2>1, <2>2
<1>4. FollowTypes'
  <2>1. \A t \in Streams : StreamOK(stream[t])'
    BY <1>1 DEF FollowIInv, FollowTypes, StreamOK, docker
  <2>2. /\ sync' \in [Syncers -> Progress]
        /\ \A q \in Syncers : sync'[q].at \in {"syncing", "rejoining"} =>
             sync'[q].con \in Containers
    BY <1>1, <1>3, SyncTypes DEF FollowIInv
  <2>3. QED
    BY <1>1, <1>2, <2>1, <2>2, TypesAre, TypesMove DEF FollowIInv, docker, store, jobs
<1>5. ASSUME Calm
      PROVE  CalmInv'
  <2>1. CalmInv
    BY <1>5 DEF FollowIInv
  <2>2. OneSync'
    BY <1>1, <1>3, <1>5, SyncMoves, AtWork
  <2>3. OneStream' /\ \A c \in Containers \ {First} : follow'[c] = None
    BY <1>1, <2>1 DEF CalmInv, OneStream, OneContainer
  <2>4. \A t \in Streams : \A x : x = stream'[t] /\ x.at # "closed" => Ahead(x)
    BY <1>1, <2>1 DEF CalmInv
  <2>5. QED
    BY <1>1, <1>5, <2>2, <2>3, <2>4, CalmMoves DEF docker, store, jobs
<1>6. QED
  BY <1>2, <1>4, <1>5 DEF FollowIInv

\* Connections are destroyed while the docker side and the buffer stay: the calm part.
LEMMA DetachCalm ==
  ASSUME FollowIInv, Calm, NEW cs \in SUBSET Containers, stream' = Detached(cs),
           follow' = Forgotten(cs)
  PROVE  /\ OneStream' /\ \A c \in Containers \ {First} : follow'[c] = None
         /\ \A t \in Streams : \A x : x = stream'[t] /\ x.at # "closed" => Ahead(x)
         /\ follow[First] = None => follow'[First] = None
<1>1. CalmInv /\ FollowTypes /\ First \in Containers
  BY FollowAssumption DEF FollowIInv
<1>2. /\ \A s \in Streams : stream'[s].at # "closed" => stream'[s] = stream[s] /\
           \A c \in cs : follow[c] # s
      /\ \A c \in Containers : follow'[c] = IF c \in cs THEN None ELSE follow[c]
  BY <1>1, DetachedAre
<1>3. OneStream'
  BY <1>1, <1>2 DEF CalmInv, OneStream
<1>4. \A c \in Containers \ {First} : follow'[c] = None
  BY <1>1, <1>2 DEF CalmInv, OneContainer
<1>5. \A t \in Streams : \A x : x = stream'[t] /\ x.at # "closed" => Ahead(x)
  BY <1>1, <1>2 DEF CalmInv
<1>6. QED
  BY <1>1, <1>2, <1>3, <1>4, <1>5

\* ... and the types.
LEMMA DetachTypes ==
  ASSUME FollowTypes, NEW cs \in SUBSET Containers, stream' = Detached(cs), follow' = Forgotten(cs),
         UNCHANGED log
  PROVE  /\ stream' \in [Streams -> Connections] /\ follow' \in [Containers -> Streams \cup {None}]
         /\ \A s \in Streams : StreamOK(stream[s])'
<1>1. /\ stream' \in [Streams -> Connections] /\ follow' \in [Containers -> Streams \cup {None}]
      /\ \A s \in Streams : stream'[s].at # "closed" => stream'[s] = stream[s]
  BY DetachedAre
<1>2. QED
  BY <1>1 DEF FollowTypes, StreamOK

LEMMA ListedStep ==
  ASSUME FollowIInv, NEW p \in Syncers, Listed(p)
  PROVE  FollowIInv'
<1>0. PICK vanished \in SUBSET Containers :
        /\ sync[p].at = "listed" /\ stream' = Detached(vanished) /\ follow' = Forgotten(vanished)
        /\ Goes(p, AfterSync(p, sync[p].rest, sync[p].rest \ Followed, Idle \ vanished))
        /\ UNCHANGED <<docker, mark, frozen, store, jobs, rare>>
  BY IdleAre DEF Listed
<1>1. PICK to :
        /\ sync[p].at = "listed" /\ stream' = Detached(vanished) /\ follow' = Forgotten(vanished)
        /\ sync' = [sync EXCEPT ![p] = to]
        /\ to \in AfterSync(p, sync[p].rest, sync[p].rest \ Followed, Idle \ vanished)
        /\ UNCHANGED <<docker, mark, frozen, store, jobs, rare>>
  BY <1>0 DEF Goes
<1>2. /\ to \in Progress /\ to.at \in {"idle", "asking", "syncing"}
      /\ to.at = "syncing" => to.con \in sync[p].rest \ Followed /\ to.since = mark
      /\ to.rest \subseteq sync[p].rest \cup Idle
  <2>1. sync[p].rest \in SUBSET Containers
    BY TypesAre DEF FollowIInv, Progress
  <2>2. PICK open \in SUBSET Containers, idle \in SUBSET Containers :
          open = sync[p].rest \ Followed /\ idle = Idle \ vanished
    BY <2>1, IdleAre
  <2>3. /\ to \in Progress /\ to.at \in {"idle", "asking", "syncing"}
        /\ to.at = "syncing" => to.con \in open /\ to.since = mark
        /\ to.rest \subseteq sync[p].rest \cup idle
    BY <1>1, <2>1, <2>2, AfterSyncIs DEF FollowIInv
  <2>4. QED
    BY <2>2, <2>3
<1>3. sync[p].rest \in SUBSET Containers
  BY TypesAre DEF FollowIInv, Progress
<1>4. FollowTypes'
  <2>1. /\ stream' \in [Streams -> Connections] /\ follow' \in [Containers -> Streams \cup {None}]
        /\ \A s \in Streams : StreamOK(stream[s])'
    BY <1>1, DetachTypes DEF FollowIInv, docker
  <2>2. /\ sync' \in [Syncers -> Progress]
        /\ \A q \in Syncers : sync'[q].at \in {"syncing", "rejoining"} =>
             sync'[q].con \in Containers
    BY <1>1, <1>2, <1>3, SyncTypes DEF FollowIInv
  <2>3. QED
    BY <1>1, <2>1, <2>2, TypesAre, TypesMove DEF FollowIInv, docker, store, jobs
<1>5. ASSUME Calm
      PROVE  CalmInv'
  <2>1. /\ OneStream' /\ \A c \in Containers \ {First} : follow'[c] = None
        /\ \A t \in Streams : \A x : x = stream'[t] /\ x.at # "closed" => Ahead(x)
        /\ follow[First] = None => follow'[First] = None
    BY <1>1, <1>5, DetachCalm
  <2>2. /\ \A q \in Syncers \ {p} : sync[q].at = "idle"
        /\ sync[p].rest \subseteq {First} /\ Idle \subseteq {First}
    BY <1>1, <1>5, AtWork
  <2>3. to.at = "syncing" => follow'[First] = None /\ to.con = First /\ to.since = mark'
    <3>1. to.at = "syncing" => to.con = First /\ First \notin Followed
      BY <1>2, <2>2
    <3>2. First \notin Followed => follow[First] = None
      BY FollowAssumption DEF Followed
    <3>3. QED
      BY <1>1, <1>2, <2>1, <3>1, <3>2
  <2>4. OneSync'
    BY <1>1, <1>2, <1>5, <2>2, <2>3, SyncMoves
  <2>5. QED
    BY <1>1, <1>5, <2>1, <2>4, CalmMoves DEF docker, store, jobs
<1>6. QED
  BY <1>1, <1>4, <1>5 DEF FollowIInv, Calm

LEMMA AskStep ==
  ASSUME FollowIInv, Ask
  PROVE  FollowIInv'
<1>0. PICK c \in sync["sweep"].rest :
        /\ sync["sweep"].at = "asking" /\ UNCHANGED <<docker, mark, store, jobs, rare>>
        /\ \/ /\ frozen' = TRUE /\ stream' = Detached({c}) /\ follow' = Forgotten({c})
              /\ Goes("sweep", {[at |-> "rejoining", con |-> c, rest |-> sync["sweep"].rest \ {c},
                   since |-> mark]})
           \/ Goes("sweep", {Asking(sync["sweep"].rest \ {c})}) /\
                UNCHANGED <<stream, follow, frozen>>
  BY DEF Ask
<1>1. PICK to :
        /\ sync["sweep"].at = "asking" /\ sync' = [sync EXCEPT !["sweep"] = to]
        /\ \/ /\ frozen' = TRUE /\ stream' = Detached({c}) /\ follow' = Forgotten({c})
              /\ to = [at |-> "rejoining", con |-> c, rest |-> sync["sweep"].rest \ {c},
                   since |-> mark]
           \/ to = Asking(sync["sweep"].rest \ {c}) /\ UNCHANGED <<stream, follow, frozen>>
        /\ UNCHANGED <<docker, mark, store, jobs, rare>>
  BY <1>0 DEF Goes
<1>2. sync["sweep"].rest \in SUBSET Containers /\ c \in Containers /\ "sweep" \in Syncers /\
        mark \in Nat
  BY <1>1, TypesAre DEF FollowIInv, Progress, Syncers
<1>3. /\ to \in Progress /\ to.at \in {"idle", "asking", "rejoining"}
      /\ to.at = "rejoining" => to.con = c /\ to.since = mark
      /\ to.rest \subseteq sync["sweep"].rest
  <2>1. CASE to = [at |-> "rejoining", con |-> c, rest |-> sync["sweep"].rest \ {c}, since |-> mark]
    BY <1>2, <2>1 DEF Progress
  <2>2. CASE to = Asking(sync["sweep"].rest \ {c})
    BY <1>2, <2>2, AskingIs
  <2>3. QED
    BY <1>1, <2>1, <2>2
<1>4. FollowTypes'
  <2>1. /\ stream' \in [Streams -> Connections] /\ follow' \in [Containers -> Streams \cup {None}]
        /\ \A s \in Streams : StreamOK(stream[s])'
    <3>1. CASE stream' = Detached({c}) /\ follow' = Forgotten({c})
      BY <1>1, <1>2, <3>1, DetachTypes DEF FollowIInv, docker
    <3>2. CASE UNCHANGED <<stream, follow>>
      BY <1>1, <3>2, TypesAre DEF FollowIInv, FollowTypes, StreamOK, docker
    <3>3. QED
      BY <1>1, <3>1, <3>2
  <2>2. /\ sync' \in [Syncers -> Progress]
        /\ \A q \in Syncers : sync'[q].at \in {"syncing", "rejoining"} =>
             sync'[q].con \in Containers
    BY <1>1, <1>2, <1>3, SyncTypes DEF FollowIInv
  <2>3. frozen' \in BOOLEAN
    BY <1>1, TypesAre DEF FollowIInv
  <2>4. QED
    BY <1>1, <2>1, <2>2, <2>3, TypesAre, TypesMove DEF FollowIInv, docker, store, jobs
<1>5. ASSUME Calm
      PROVE  CalmInv'
  <2>1. CalmInv /\ \A q \in Syncers \ {"sweep"} : sync[q].at = "idle"
    BY <1>1, <1>2, <1>5, AtWork DEF FollowIInv
  <2>2. c = First /\ to.rest \subseteq {First}
    BY <1>1, <1>2, <1>3, <1>5, AtWork
  <2>3. /\ OneStream' /\ \A d \in Containers \ {First} : follow'[d] = None
        /\ \A t \in Streams : \A x : x = stream'[t] /\ x.at # "closed" => Ahead(x)
    <3>1. CASE stream' = Detached({c}) /\ follow' = Forgotten({c})
      BY <1>2, <1>5, <3>1, DetachCalm
    <3>2. CASE UNCHANGED <<stream, follow>>
      BY <2>1, <3>2 DEF CalmInv, OneStream, OneContainer
    <3>3. QED
      BY <1>1, <3>1, <3>2
  <2>4. to.at = "rejoining" => follow'[First] = None
    <3>1. CASE follow' = Forgotten({c})
      BY <1>2, <2>2, <3>1, DetachedAre DEF FollowIInv
    <3>2. CASE to = Asking(sync["sweep"].rest \ {c})
      BY <1>2, <3>2, AskingIs
    <3>3. QED
      BY <1>1, <3>1, <3>2
  <2>5. OneSync'
    BY <1>1, <1>2, <1>3, <1>5, <2>1, <2>2, <2>4, SyncMoves
  <2>6. QED
    BY <1>1, <1>5, <2>3, <2>5, CalmMoves DEF docker, store, jobs
<1>6. QED
  BY <1>1, <1>4, <1>5 DEF FollowIInv, Calm

\* What a caller that attached goes on with.
LEMMA AfterAttach ==
  ASSUME FollowTypes, NEW p \in Syncers, sync[p].at \in {"syncing", "rejoining"},
         NEW to, to \in IF sync[p].at = "syncing"
                        THEN AfterSync(p, sync[p].rest,
                             sync[p].rest \ (Followed \cup {sync[p].con}), Idle \ {sync[p].con})
                        ELSE {Asking(sync[p].rest)}
  PROVE  /\ to \in Progress /\ to.at \in {"idle", "asking", "syncing"}
         /\ to.at = "syncing" => to.con \in sync[p].rest \ {sync[p].con}
         /\ to.rest \subseteq sync[p].rest \cup Idle
<1>1. sync[p].rest \in SUBSET Containers
  BY TypesAre DEF Progress
<1>2. CASE sync[p].at = "syncing"
  <2>1. PICK open \in SUBSET Containers, idle \in SUBSET Containers :
          open = sync[p].rest \ (Followed \cup {sync[p].con}) /\ idle = Idle \ {sync[p].con}
    BY <1>1, IdleAre
  <2>2. to \in AfterSync(p, sync[p].rest, open, idle)
    BY <1>2, <2>1
  <2>3. /\ to \in Progress /\ to.at \in {"idle", "asking", "syncing"}
        /\ to.at = "syncing" => to.con \in open
        /\ to.rest \subseteq sync[p].rest \cup idle
    BY <1>1, <2>2, AfterSyncIs
  <2>4. QED
    BY <2>1, <2>3
<1>3. CASE sync[p].at = "rejoining"
  <2>1. to = Asking(sync[p].rest)
    BY <1>3
  <2>2. QED
    BY <1>1, <2>1, AskingIs
<1>4. QED
  BY <1>2, <1>3

\* A connection that is opened for a container.
LEMMA OpenedIs ==
  ASSUME FollowTypes, NEW c \in Containers, NEW since \in Nat,
         NEW new, new = [con |-> c, at |-> "open", since |-> since, next |-> StartOf(c, since),
              skip |-> since # 0]
  PROVE  new \in Connections /\ StreamOK(new)
<1>1. StartOf(c, since) \in Nat /\ 1 <= StartOf(c, since) /\ StartOf(c, since) <= Len(log[c]) + 1
  BY StartIs
<1>2. Len(log[c]) \in Nat /\ Len(stamp) \in Nat /\ Len(log[c]) <= Len(stamp) /\
        Len(stamp) <= MaxLines
  BY TypesAre DEF FollowTypes, LogsOK
<1>3. StartOf(c, since) \in 0..(MaxLines + 1)
  BY <1>1, <1>2, FollowAssumption
<1>4. QED
  BY <1>1, <1>3 DEF Connections, StreamOK

\* ... is before every line that is newer than the watermark.
LEMMA OpenedAhead ==
  ASSUME FollowTypes, CalmInv,
         NEW new, new = [con |-> First, at |-> "open", since |-> mark,
              next |-> StartOf(First, mark), skip |-> mark # 0]
  PROVE  Ahead(new)
<1>1. /\ mark \in Nat /\ copies \in [Lines -> Nat] /\ First \in Containers
      /\ Len(log[First]) = Len(stamp) /\ \A i \in 1..Len(log[First]) : log[First][i] = i
  BY TypesAre, FollowAssumption DEF CalmInv, OneContainer
<1>2. CASE mark = 0
  <2>1. new.skip = FALSE /\ \A i \in Lines : copies[i] = 0
    BY <1>2 DEF CalmInv, Marked
  <2>2. QED
    BY <2>1 DEF Ahead, GapsBefore
<1>3. CASE mark # 0
  <2>1. \A j \in 1..Len(log[First]) : j < StartOf(First, mark) => stamp[j] <= mark
    BY <1>1, <1>3, StartIs
  <2>2. \A j \in 1..Len(stamp) : j < new.next => stamp[j] <= mark
    BY <1>1, <2>1
  <2>3. new.skip = TRUE /\ new.since = mark /\ mark > 0
    <3>1. mark > 0 /\ (mark # 0) = TRUE
      BY <1>1, <1>3
    <3>2. new.skip = (mark # 0) /\ new.since = mark
      OBVIOUS
    <3>3. QED
      BY <3>1, <3>2
  <2>4. QED
    BY <2>2, <2>3 DEF Ahead
<1>4. QED
  BY <1>2, <1>3

LEMMA AttachedStep ==
  ASSUME FollowIInv, NEW p \in Syncers, Attached(p)
  PROVE  FollowIInv'
<1>1. PICK to :
        /\ sync[p].at \in {"syncing", "rejoining"} /\ sync' = [sync EXCEPT ![p] = to]
        /\ to \in IF sync[p].at = "syncing"
                  THEN AfterSync(p, sync[p].rest, sync[p].rest \ (Followed \cup {sync[p].con}),
                       Idle \ {sync[p].con})
                  ELSE {Asking(sync[p].rest)}
        /\ UNCHANGED <<docker, mark, frozen, store, jobs>>
  BY DEF Attached, Goes
<1>2. PICK c \in Containers, since \in Nat : c = sync[p].con /\ since = sync[p].since
  BY <1>1, TypesAre DEF FollowIInv, FollowTypes, Progress
<1>3. PICK new : new = [con |-> c, at |-> "open", since |-> since, next |-> StartOf(c, since),
        skip |-> since # 0]
  OBVIOUS
<1>4. /\ Rarely("refused") \/ UNCHANGED rare
      /\ \/ UNCHANGED <<stream, follow>>
         \/ \E s \in Streams : /\ stream' = [stream EXCEPT ![s] = new]
                               /\ follow' = [follow EXCEPT ![c] = s]
  BY <1>2, <1>3 DEF Attached
<1>5. rare \subseteq rare' /\ rare' \in SUBSET Rare /\ (Calm' => Calm)
  BY <1>4, Rarer DEF FollowIInv, Rare
<1>6. /\ to \in Progress /\ to.at \in {"idle", "asking", "syncing"}
      /\ to.at = "syncing" => to.con \in sync[p].rest \ {c}
      /\ to.rest \subseteq sync[p].rest \cup Idle
  BY <1>1, <1>2, AfterAttach DEF FollowIInv
<1>7. FollowTypes'
  <2>1. /\ stream' \in [Streams -> Connections] /\ follow' \in [Containers -> Streams \cup {None}]
        /\ \A s \in Streams : StreamOK(stream[s])'
    <3>1. CASE UNCHANGED <<stream, follow>>
      BY <1>1, <3>1, TypesAre DEF FollowIInv, FollowTypes, StreamOK, docker
    <3>2. ASSUME NEW s \in Streams, stream' = [stream EXCEPT ![s] = new],
            follow' = [follow EXCEPT ![c] = s]
          PROVE  /\ stream' \in [Streams -> Connections]
                 /\ follow' \in [Containers -> Streams \cup {None}]
                 /\ \A t \in Streams : StreamOK(stream[t])'
      <4>1. new \in Connections /\ StreamOK(new)
        BY <1>3, OpenedIs DEF FollowIInv
      <4>2. /\ stream' \in [Streams -> Connections]
            /\ follow' \in [Containers -> Streams \cup {None}]
            /\ \A t \in Streams : stream'[t] = stream[t] \/ stream'[t] = new
        BY <3>2, <4>1, TypesAre DEF FollowIInv
      <4>3. \A t \in Streams : \A x : x = stream'[t] => StreamOK(x)
        BY <4>1, <4>2 DEF FollowIInv, FollowTypes
      <4>4. QED
        BY <1>1, <4>2, <4>3 DEF StreamOK, docker
    <3>3. QED
      BY <1>4, <3>1, <3>2
  <2>2. /\ sync' \in [Syncers -> Progress]
        /\ \A q \in Syncers : sync'[q].at \in {"syncing", "rejoining"} =>
             sync'[q].con \in Containers
    <3>1. sync[p].rest \in SUBSET Containers
      BY TypesAre DEF FollowIInv, Progress
    <3>2. QED
      BY <1>1, <1>6, <3>1, SyncTypes DEF FollowIInv
  <2>3. QED
    BY <1>1, <1>5, <2>1, <2>2, TypesAre, TypesMove DEF FollowIInv, docker, store, jobs
<1>8. ASSUME Calm
      PROVE  CalmInv'
  <2>1. CalmInv /\ FollowTypes /\ First \in Containers /\ None \notin Streams
    BY <1>8, FollowAssumption DEF FollowIInv
  <2>2. /\ \A q \in Syncers \ {p} : sync[q].at = "idle"
        /\ sync[p].rest \subseteq {First} /\ Idle \subseteq {First}
    BY <1>1, <1>8, AtWork
  <2>3. c = First /\ since = mark /\ follow[First] = None
    BY <1>1, <1>2, <2>1 DEF CalmInv, OneSync
  <2>4. \A s \in Streams : stream[s].at = "closed"
    BY <2>1, <2>3 DEF CalmInv, OneStream
  <2>5. /\ OneStream' /\ \A d \in Containers \ {First} : follow'[d] = None
        /\ \A t \in Streams : \A x : x = stream'[t] /\ x.at # "closed" => Ahead(x)
    <3>1. CASE UNCHANGED <<stream, follow>>
      BY <2>1, <3>1 DEF CalmInv, OneStream, OneContainer
    <3>2. ASSUME NEW s \in Streams, stream' = [stream EXCEPT ![s] = new],
            follow' = [follow EXCEPT ![c] = s]
          PROVE  /\ OneStream' /\ \A d \in Containers \ {First} : follow'[d] = None
                 /\ \A t \in Streams : \A x : x = stream'[t] /\ x.at # "closed" => Ahead(x)
      <4>1. Ahead(new) /\ new.con = First
        BY <1>3, <2>1, <2>3, OpenedAhead
      <4>2. /\ stream'[s] = new /\ \A t \in Streams \ {s} : stream'[t].at = "closed"
            /\ follow'[First] = s /\ \A d \in Containers \ {First} : follow'[d] = follow[d]
        BY <2>1, <2>3, <2>4, <3>2, TypesAre
      <4>3. OneStream'
        BY <4>1, <4>2 DEF OneStream
      <4>4. \A d \in Containers \ {First} : follow'[d] = None
        BY <2>1, <4>2 DEF CalmInv, OneContainer
      <4>5. QED
        BY <4>1, <4>2, <4>3, <4>4
    <3>3. QED
      BY <1>4, <3>1, <3>2
  <2>6. OneSync'
    <3>1. to.at \notin {"syncing", "rejoining"} /\ to.rest \subseteq {First}
      BY <1>6, <2>2, <2>3
    <3>2. QED
      BY <1>1, <1>6, <1>8, <2>2, <3>1, SyncMoves
  <2>7. QED
    BY <1>1, <1>8, <2>5, <2>6, CalmMoves DEF docker, store, jobs
<1>9. QED
  BY <1>5, <1>7, <1>8 DEF FollowIInv

-----------------------------------------------------------------------------
(* Jobs of the deployment, and the process. *)

\* What a step that leaves the connections alone asks of the types.
LEMMA Untouched ==
  ASSUME FollowTypes, UNCHANGED <<log, stream>>
  PROVE  \A s \in Streams : StreamOK(stream[s])'
BY DEF FollowTypes, StreamOK

LEMMA SweepStep ==
  ASSUME FollowIInv, Sweep
  PROVE  FollowIInv'
<1>1. /\ Begin("sweep") /\ UNCHANGED <<docker, stream, follow, mark, frozen, store>>
      /\ job' = job /\ state' = state /\ "sweep" \in Syncers
  BY DEF Sweep, jobs, Syncers
<1>2. QED
  BY <1>1, BeginStep, TypesAre DEF FollowIInv

LEMMA SyncAfterDeployStep ==
  ASSUME FollowIInv, SyncAfterDeploy
  PROVE  FollowIInv'
<1>1. /\ Begin("asked") /\ UNCHANGED <<docker, stream, follow, mark, frozen, store>>
      /\ job = "swapped" /\ job' = "idle" /\ state' = state /\ "asked" \in Syncers
  BY DEF SyncAfterDeploy, Syncers
<1>2. Calm => job' = job
  BY <1>1 DEF FollowIInv, CalmInv, OneContainer
<1>3. QED
  BY <1>1, <1>2, BeginStep

LEMMA LaunchStep ==
  ASSUME FollowIInv, NEW c \in Containers, Launch(c)
  PROVE  FollowIInv'
<1>1. /\ Rarely("deploy") /\ con' = [con EXCEPT ![c] = "running"] /\ job' = "launched"
      /\ UNCHANGED <<log, stamp, stream, follow, mark, frozen, store, sync, state>>
  BY DEF Launch
<1>2. rare' \in SUBSET Rare /\ ~Calm'
  <2>1. rare' = rare \cup {"deploy"}
    BY <1>1 DEF Rarely
  <2>2. QED
    BY <2>1, TypesAre DEF FollowIInv, Rare, Calm
<1>3. con' \in [Containers -> {"new", "running", "gone"}]
  BY <1>1, TypesAre DEF FollowIInv
<1>4. \A s \in Streams : StreamOK(stream[s])'
  BY <1>1, Untouched DEF FollowIInv
<1>5. \A p \in Syncers : sync'[p].at \in {"syncing", "rejoining"} => sync'[p].con \in Containers
  BY <1>1 DEF FollowIInv, FollowTypes
<1>6. FollowTypes'
  BY <1>1, <1>2, <1>3, <1>4, <1>5, TypesAre, TypesMove DEF FollowIInv, store
<1>7. QED
  BY <1>2, <1>6 DEF FollowIInv

LEMMA RemoveStaleStep ==
  ASSUME FollowIInv, NEW c \in Containers, RemoveStale(c)
  PROVE  FollowIInv'
<1>1. /\ job = "launched" /\ con' = [con EXCEPT ![c] = "gone"] /\ job' = "swapped"
      /\ UNCHANGED <<log, stamp, stream, follow, mark, frozen, store, sync, state, rare>>
  BY DEF RemoveStale
<1>2. ~Calm'
  BY <1>1 DEF FollowIInv, CalmInv, OneContainer, Calm
<1>3. con' \in [Containers -> {"new", "running", "gone"}]
  BY <1>1, TypesAre DEF FollowIInv
<1>4. \A s \in Streams : StreamOK(stream[s])'
  BY <1>1, Untouched DEF FollowIInv
<1>5. \A p \in Syncers : sync'[p].at \in {"syncing", "rejoining"} => sync'[p].con \in Containers
  BY <1>1 DEF FollowIInv, FollowTypes
<1>6. FollowTypes'
  BY <1>1, <1>3, <1>4, <1>5, TypesAre, TypesMove DEF FollowIInv, store
<1>7. QED
  BY <1>2, <1>6 DEF FollowIInv

LEMMA StopFollowsStep ==
  ASSUME FollowIInv, StopFollows
  PROVE  FollowIInv'
<1>1. /\ Rarely("stop") /\ job' = "stopping" /\ stream' = Detached(Followed)
      /\ follow' = Forgotten(Followed)
      /\ mark' = 0 /\ frozen' = FALSE /\ UNCHANGED <<docker, store, sync, state>>
  BY DEF StopFollows
<1>2. rare' \in SUBSET Rare /\ ~Calm'
  <2>1. rare' = rare \cup {"stop"}
    BY <1>1 DEF Rarely
  <2>2. QED
    BY <2>1, TypesAre DEF FollowIInv, Rare, Calm
<1>3. /\ stream' \in [Streams -> Connections] /\ follow' \in [Containers -> Streams \cup {None}]
      /\ \A s \in Streams : StreamOK(stream[s])'
  BY <1>1, DetachTypes, IdleAre DEF FollowIInv, docker
<1>4. \A p \in Syncers : sync'[p].at \in {"syncing", "rejoining"} => sync'[p].con \in Containers
  BY <1>1 DEF FollowIInv, FollowTypes
<1>5. FollowTypes'
  BY <1>1, <1>2, <1>3, <1>4, TypesAre, TypesMove DEF FollowIInv, docker, store
<1>6. QED
  BY <1>2, <1>5 DEF FollowIInv

LEMMA StopContainersStep ==
  ASSUME FollowIInv, StopContainers
  PROVE  FollowIInv'
<1>1. /\ job = "stopping" /\ job' = "idle" /\ state' = "STOPPED"
      /\ con' = [c \in Containers |-> IF con[c] = "running" THEN "gone" ELSE con[c]]
      /\ UNCHANGED <<log, stamp, stream, follow, mark, frozen, store, sync, rare>>
  BY DEF StopContainers
<1>2. ~Calm'
  BY <1>1 DEF FollowIInv, CalmInv, OneContainer, Calm
<1>3. con' \in [Containers -> {"new", "running", "gone"}]
  BY <1>1, TypesAre DEF FollowIInv
<1>4. \A s \in Streams : StreamOK(stream[s])'
  BY <1>1, Untouched DEF FollowIInv
<1>5. \A p \in Syncers : sync'[p].at \in {"syncing", "rejoining"} => sync'[p].con \in Containers
  BY <1>1 DEF FollowIInv, FollowTypes
<1>6. FollowTypes'
  BY <1>1, <1>3, <1>4, <1>5, TypesAre, TypesMove DEF FollowIInv, store
<1>7. QED
  BY <1>2, <1>6 DEF FollowIInv

\* The buffer, the watermark and the follows are lost together.
LEMMA RestartStep ==
  ASSUME FollowIInv, Restart
  PROVE  FollowIInv'
<1>1. /\ Rarely("restart") /\ stream' = [s \in Streams |-> Closed]
      /\ follow' = [c \in Containers |-> None]
      /\ mark' = 0 /\ frozen' = FALSE /\ copies' = [n \in Lines |-> 0]
      /\ sync' = [q \in Syncers |-> IF q = "asked" /\
           state = "RUNNING" THEN [Resting EXCEPT !.at = "listing"] ELSE Resting]
      /\ UNCHANGED <<docker, file, jobs>>
  BY DEF Restart
<1>2. rare \subseteq rare' /\ rare' \in SUBSET Rare /\ (Calm' => Calm)
  BY <1>1, Rarer DEF FollowIInv, Rare
<1>3. /\ [Resting EXCEPT !.at = "listing"] \in Progress
      /\ [Resting EXCEPT !.at = "listing"].at = "listing"
      /\ [Resting EXCEPT !.at = "listing"].rest = {}
  BY DEF Resting, Progress
<1>4. Closed \in Connections /\ Closed.at = "closed"
  BY FollowAssumption DEF Closed, Connections
<1>5. /\ sync' \in [Syncers -> Progress]
      /\ \A q \in Syncers : sync'[q].at \in {"idle", "listing"} /\ sync'[q].rest = {}
      /\ \A q \in Syncers : sync'[q].at # "idle" => q = "asked"
  BY <1>1, <1>3, RestingIs
<1>6. stream' \in [Streams -> Connections] /\ \A s \in Streams : stream'[s].at = "closed"
  BY <1>1, <1>4
<1>7. FollowTypes'
  <2>1. \A s \in Streams : StreamOK(stream[s])'
    BY <1>6 DEF StreamOK
  <2>2. follow' \in [Containers -> Streams \cup {None}] /\ copies' \in [Lines -> Nat]
    BY <1>1
  <2>3. QED
    BY <1>1, <1>2, <1>5, <1>6, <2>1, <2>2, TypesAre, TypesMove DEF FollowIInv, docker, jobs
<1>8. ASSUME Calm
      PROVE  CalmInv'
  <2>1. OneContainer'
    BY <1>1, <1>8 DEF FollowIInv, CalmInv, OneContainer, docker, jobs
  <2>2. OneSync'
    BY <1>5 DEF OneSync
  <2>3. OneStream'
    BY <1>6 DEF OneStream
  <2>4. Marked'
    BY <1>1 DEF Marked
  <2>5. QED
    BY <1>6, <2>1, <2>2, <2>3, <2>4 DEF CalmInv
<1>9. QED
  BY <1>2, <1>7, <1>8 DEF FollowIInv

LEMMA StutterStep ==
  ASSUME FollowIInv, UNCHANGED vars
  PROVE  FollowIInv'
<1>1. UNCHANGED <<con, log, stamp, stream, follow, mark, frozen, copies, file, sync, job, state,
        rare>>
  BY DEF vars, store, jobs, docker
<1>2. FollowTypes'
  <2>1. \A s \in Streams : StreamOK(stream[s])'
    BY <1>1, Untouched DEF FollowIInv
  <2>2. \A p \in Syncers : sync'[p].at \in {"syncing", "rejoining"} => sync'[p].con \in Containers
    BY <1>1 DEF FollowIInv, FollowTypes
  <2>3. QED
    BY <1>1, <2>1, <2>2, TypesAre, TypesMove DEF FollowIInv
<1>3. ASSUME Calm
      PROVE  CalmInv'
  <2>1. CalmInv
    BY <1>3 DEF FollowIInv
  <2>2. OneSync' /\ OneStream' /\ \A c \in Containers \ {First} : follow'[c] = None
    BY <1>1, <2>1 DEF CalmInv, OneSync, OneStream, OneContainer
  <2>3. \A s \in Streams : \A t : t = stream'[s] /\ t.at # "closed" => Ahead(t)
    BY <1>1, <2>1 DEF CalmInv
  <2>4. QED
    BY <1>1, <1>3, <2>2, <2>3, CalmMoves
<1>4. QED
  BY <1>1, <1>2, <1>3 DEF FollowIInv, Calm

LEMMA NextInv ==
  ASSUME FollowIInv, [Next]_vars
  PROVE  FollowIInv'
<1>1. ASSUME NEW c \in Containers, Produce(c) \/ Launch(c)
      PROVE  FollowIInv'
  BY <1>1, ProduceStep, LaunchStep
<1>2. ASSUME NEW s \in Streams, Deliver(s) \/ End(s) \/ Stall(s)
      PROVE  FollowIInv'
  BY <1>2, DeliverStep, EndStep, StallStep
<1>3. ASSUME NEW p \in Syncers, Step(p)
      PROVE  FollowIInv'
  BY <1>3, ListStep, ListedStep, AttachedStep DEF Step
<1>4. CASE Job
  BY <1>4, RemoveStaleStep, SyncAfterDeployStep, StopContainersStep DEF Job
<1>5. CASE Sweep \/ Ask \/ StopFollows \/ Restart
  BY <1>5, SweepStep, AskStep, StopFollowsStep, RestartStep
<1>6. CASE UNCHANGED vars
  BY <1>6, StutterStep
<1>7. QED
  BY <1>1, <1>2, <1>3, <1>4, <1>5, <1>6 DEF Next

-----------------------------------------------------------------------------
(* What follows. *)

LEMMA OnceFollows ==
  ASSUME FollowIInv
  PROVE  FollowInv
<1>1. TypeOK
  BY DEF FollowIInv, FollowTypes
<1>2. ASSUME Calm, NEW c \in Containers
      PROVE  LET has(i) == copies[log[c][i]] > 0 IN
             /\ \A i \in 1..Len(log[c]) : copies[log[c][i]] <= 1
             /\ \A i, j, k \in 1..Len(log[c]) :
                  i < j /\ j < k /\ has(i) /\ has(k) /\ ~has(j) =>
                    \E h \in i..(j - 1) : has(h) /\ stamp[log[c][h]] = stamp[log[c][j]]
  <2>1. CalmInv
    BY <1>2 DEF FollowIInv
  <2>2. CASE c # First
    <3>1. log[c] = <<>>
      BY <1>2, <2>1, <2>2 DEF CalmInv, OneContainer
    <3>2. 1..Len(log[c]) = {}
      BY <3>1
    <3>3. QED
      BY <3>2
  <2>3. CASE c = First
    <3>1. /\ Len(log[c]) = Len(stamp) /\ Len(stamp) \in Nat /\ Len(stamp) <= MaxLines
          /\ \A i \in 1..Len(stamp) : log[c][i] = i
          /\ copies \in [Lines -> Nat]
      BY <2>1, <2>3, TypesAre DEF FollowIInv, FollowTypes, LogsOK, CalmInv, OneContainer
    <3>2. 1..Len(stamp) \subseteq Lines
      BY <3>1, FollowAssumption DEF Lines
    <3>3. \A i \in 1..Len(stamp) : copies[i] <= 1 /\ copies[i] \in Nat
      BY <2>1, <3>1, <3>2 DEF CalmInv, Marked
    <3>4. ASSUME NEW i \in 1..Len(stamp), NEW j \in 1..Len(stamp), NEW k \in 1..Len(stamp),
                 i < j, j < k, copies[i] > 0, copies[k] > 0, ~(copies[j] > 0)
          PROVE  \E h \in i..(j - 1) : copies[h] > 0 /\ stamp[h] = stamp[j]
      <4>1. copies[j] = 0
        BY <3>3, <3>4
      <4>2. GapsBefore(k)
        BY <2>1, <3>2, <3>4 DEF CalmInv, Marked
      <4>3. PICK h \in Lines : i <= h /\ h < j /\ copies[h] > 0 /\ stamp[h] = stamp[j]
        BY <3>2, <3>4, <4>1, <4>2 DEF GapsBefore
      <4>4. h \in i..(j - 1)
        BY <4>3, FollowAssumption DEF Lines
      <4>5. QED
        BY <4>3, <4>4
    <3>5. ASSUME NEW i \in 1..Len(log[c]), NEW j \in 1..Len(log[c]), NEW k \in 1..Len(log[c]),
                 i < j, j < k, copies[log[c][i]] > 0, copies[log[c][k]] > 0,
                      ~(copies[log[c][j]] > 0)
          PROVE  \E h \in i..(j - 1) : copies[log[c][h]] > 0 /\ stamp[log[c][h]] = stamp[log[c][j]]
      <4>1. PICK h \in i..(j - 1) : copies[h] > 0 /\ stamp[h] = stamp[j]
        BY <3>1, <3>4, <3>5
      <4>2. log[c][h] = h /\ log[c][j] = j
        BY <3>1, <3>5, <4>1
      <4>3. QED
        BY <4>1, <4>2
    <3>6. \A i \in 1..Len(log[c]) : copies[log[c][i]] <= 1
      BY <3>1, <3>3
    <3>7. QED
      BY <3>5, <3>6
  <2>4. QED
    BY <2>2, <2>3
<1>3. CollectedOnce
  BY <1>2 DEF CollectedOnce, Calm
<1>4. QED
  BY <1>1, <1>3 DEF FollowInv

(* No line is stored twice while one container is followed and one caller syncs at a time,
     and a    *)
(* line left out between two others shares its millisecond with one collected before: the           *)
(* watermark, the second `since' is rounded to and the lines a resumed connection repeats fit         *)
(* together (attach and its "data" listener), for any number of lines,
     connections and drops.         *)
THEOREM Follow_CollectedOnce == Spec => []FollowInv
<1>1. Init => FollowIInv
  BY InitInv
<1>2. FollowIInv /\ [Next]_vars => FollowIInv'
  BY NextInv
<1>3. FollowIInv => FollowInv
  BY OnceFollows
<1>4. QED
  BY <1>1, <1>2, <1>3, PTL DEF Spec

=============================================================================
