---------------------------- MODULE QueuesProofs ----------------------------
(***************************************************************************)
(* Proofs about the two modules of Queues: VolumeHelper, for every set of   *)
(* volumes, whatever the daemon's name filter finds, and any number of      *)
(* operations and deaths; and BuildQueue, for every set of keys and jobs    *)
(* and every concurrency limit.                                             *)
(***************************************************************************)
EXTENDS Queues, TLAPS, FiniteSetTheorems

-----------------------------------------------------------------------------
(* VolumeHelper.                                                           *)

\* The cardinality that VolumeHelper counts with is the one the library's theorems are about.
LEMMA CardinalityIs == \A S : Hlp!Cardinality(S) = Cardinality(S)
  BY DEF Hlp!Cardinality, Cardinality

OpRecords == [at : Hlp!Creating \cup Hlp!Ended \cup {"new", "inspect", "alive", "dead", "join",
     "started", "use"},
              vol : Hlp_Volumes \cup {Hlp_None}, con : Hlp!Ops \cup {Hlp_None},
              on : Hlp!Ops \cup {Hlp_None}, found : SUBSET Hlp!Ops]
EntryRecords == [con : Hlp!Ops \cup {Hlp_None}, acquiring : BOOLEAN, inFlight : Int, idle : BOOLEAN]
ConRecords == [st : {"absent", "created", "running", "removed"}, vol : Hlp_Volumes \cup {Hlp_None}]
Types ==
  /\ Hlp_op \in [Hlp!Ops -> OpRecords] /\ Hlp_entry \in [Hlp!Ops -> EntryRecords]
  /\ Hlp_helpers \in [Hlp_Volumes -> Hlp!Ops \cup {Hlp_None}] /\ Hlp_con \in [Hlp!Ops -> ConRecords]
  /\ Hlp_reaping \in Hlp!Ops \cup {Hlp_None} /\ Hlp_deaths \in 0..Hlp_MaxDeaths

(***************************************************************************)
(* The inductive invariant.  What each operation holds on to, by its progress: *)
(* a container or an entry of its own volume, which only its creator makes.   *)
(***************************************************************************)
Fresh == {"new", "inspect", "alive", "dead", "join", "clear", "remove", "create"}
OpOK(o) ==
  /\ Hlp_op[o].at = "new" <=> Hlp_op[o].vol = Hlp_None
  /\ Hlp_op[o].at \in {"join", "inspect", "alive"} => Hlp_op[o].on \in Hlp!Ops /\
       Hlp_op[Hlp_op[o].on].vol = Hlp_op[o].vol
  /\ Hlp_op[o].at \in {"inspect", "alive", "use"} => Hlp_op[o].con \in Hlp!Ops /\
       Hlp_con[Hlp_op[o].con].vol = Hlp_op[o].vol
  /\ Hlp_op[o].at \in Fresh => Hlp_con[o].vol = Hlp_None /\ Hlp_con[o].st = "absent" /\
       Hlp_entry[o].con = Hlp_None
  /\ Hlp_op[o].at \in {"start", "started"} => Hlp_con[o].vol = Hlp_op[o].vol
  /\ Hlp_entry[o].con # Hlp_None => Hlp_entry[o].con = o /\ Hlp_con[o].vol = Hlp_op[o].vol

\* The entry of a volume: its creation runs, or its container is there; and its count.
CacheOK(v) ==
  LET e == Hlp_helpers[v] IN
  e # Hlp_None =>
    /\ Hlp_op[e].vol = v
    /\ Hlp_entry[e].acquiring => Hlp_op[e].at \in Hlp!Creating \cup {"started"}
    /\ ~Hlp_entry[e].acquiring => Hlp_entry[e].con = e
    /\ Hlp_entry[e].inFlight <= Cardinality(Hlp!Users(v))

HelperInv ==
  /\ Hlp!HelperAssumption /\ Types
  /\ \A o \in Hlp!Ops : OpOK(o)
  /\ \A v \in Hlp_Volumes : CacheOK(v)

LEMMA UsersFinite ==
  ASSUME Hlp!HelperAssumption, NEW S \in SUBSET Hlp!Ops
  PROVE  IsFiniteSet(S) /\ Cardinality(S) \in Nat
<1>1. IsFiniteSet(Hlp!Ops)
  BY FS_Interval DEF Hlp!HelperAssumption, Hlp!Ops
<1>2. QED
  BY <1>1, FS_Subset, FS_CardinalityType

\* Users of a volume stay, or more come.
LEMMA UsersKept ==
  ASSUME HelperInv, NEW v \in Hlp_Volumes, Hlp!Users(v) \subseteq Hlp!Users(v)'
  PROVE  Cardinality(Hlp!Users(v)) <= Cardinality(Hlp!Users(v)')
<1>1. Hlp!Users(v)' \in SUBSET Hlp!Ops /\ Hlp!Users(v) \in SUBSET Hlp!Ops
  BY DEF Hlp!Users
<1>2. QED
  BY <1>1, UsersFinite, FS_Subset DEF HelperInv

LEMMA UsersMore ==
  ASSUME HelperInv, NEW v \in Hlp_Volumes, NEW S \in SUBSET Hlp!Ops,
           Hlp!Users(v)' = Hlp!Users(v) \cup S, Hlp!Users(v) \cap S = {}
  PROVE  Cardinality(Hlp!Users(v)') = Cardinality(Hlp!Users(v)) + Cardinality(S)
<1>1. Hlp!Users(v) \in SUBSET Hlp!Ops
  BY DEF Hlp!Users
<1>2. IsFiniteSet(S) /\ IsFiniteSet(Hlp!Users(v)) /\ Cardinality(S) \in Nat /\
        Cardinality(Hlp!Users(v)) \in Nat
  BY <1>1, UsersFinite DEF HelperInv
<1>3. Cardinality(Hlp!Users(v) \cup S) = Cardinality(Hlp!Users(v)) + Cardinality(S) - Cardinality(Hlp!Users(v) \cap S)
  BY <1>2, FS_Union
<1>4. Cardinality(Hlp!Users(v) \cap S) = 0
  BY FS_EmptySet
<1>5. QED
  BY <1>2, <1>3, <1>4

LEMMA UsersLess ==
  ASSUME HelperInv, NEW v \in Hlp_Volumes, NEW o \in Hlp!Users(v),
           Hlp!Users(v)' = Hlp!Users(v) \ {o}
  PROVE  Cardinality(Hlp!Users(v)') = Cardinality(Hlp!Users(v)) - 1
<1>1. Hlp!Users(v) \in SUBSET Hlp!Ops
  BY DEF Hlp!Users
<1>2. QED
  BY <1>1, UsersFinite, FS_RemoveElement DEF HelperInv

\* What an entry counts when its volume's users are not fewer.
LEMMA CountKept ==
  ASSUME HelperInv, Types', NEW v \in Hlp_Volumes, Hlp!Users(v) \subseteq Hlp!Users(v)',
         Hlp_helpers'[v] = Hlp_helpers[v], Hlp_helpers[v] # Hlp_None,
         Hlp_entry'[Hlp_helpers[v]].inFlight = Hlp_entry[Hlp_helpers[v]].inFlight
  PROVE  Hlp_entry'[Hlp_helpers[v]].inFlight <= Cardinality(Hlp!Users(v)')
<1>1. Hlp_entry[Hlp_helpers[v]].inFlight <= Cardinality(Hlp!Users(v)) /\
        Hlp_entry[Hlp_helpers[v]].inFlight \in Int
  BY DEF HelperInv, CacheOK, Types, EntryRecords
<1>2. Hlp!Users(v)' \in SUBSET Hlp!Ops /\ Hlp!Users(v) \in SUBSET Hlp!Ops
  BY DEF Hlp!Users
<1>3. Cardinality(Hlp!Users(v)) \in Nat /\ Cardinality(Hlp!Users(v)') \in Nat
  BY <1>2, UsersFinite DEF HelperInv
<1>4. QED
  BY <1>1, <1>3, UsersKept

\* A miss, or a helper that is dead: the volume gets a new entry.
LEMMA NewEntryStep ==
  ASSUME HelperInv, NEW o \in Hlp!Ops, NEW v \in Hlp_Volumes, Hlp!NewEntry(o, v),
           UNCHANGED <<Hlp_con, Hlp!outside>>,
         Hlp_op[o].at = "new" \/ (Hlp_op[o].at = "dead" /\ Hlp_op[o].vol = v)
  PROVE  HelperInv'
<1>1. /\ Hlp_helpers' = [Hlp_helpers EXCEPT ![v] = o]
      /\ Hlp_entry' = [Hlp_entry EXCEPT ![o] = [Hlp!NoEntry EXCEPT !.acquiring = TRUE]]
      /\ Hlp_op' = [Hlp_op EXCEPT ![o] = [Hlp!NoOp EXCEPT !.at = "clear", !.vol = v]]
      /\ Hlp_con' = Hlp_con /\ Hlp_reaping' = Hlp_reaping /\ Hlp_deaths' = Hlp_deaths
  BY DEF Hlp!NewEntry, Hlp!outside
<1>2. Hlp!HelperAssumption /\ Types /\ Hlp_None \notin Hlp_Volumes /\ Hlp_None \notin Hlp!Ops
  BY DEF HelperInv, Hlp!HelperAssumption
<1>3. Types'
  <2>1. [Hlp!NoOp EXCEPT !.at = "clear", !.vol = v] \in OpRecords
    BY DEF OpRecords, Hlp!NoOp, Hlp!Creating
  <2>2. [Hlp!NoEntry EXCEPT !.acquiring = TRUE] \in EntryRecords
    <3>1. Hlp!NoEntry \in EntryRecords
      BY DEF EntryRecords, Hlp!NoEntry
    <3>2. ASSUME NEW x \in BOOLEAN PROVE [Hlp!NoEntry EXCEPT !.acquiring = x] \in EntryRecords
      BY <3>1 DEF EntryRecords
    <3>3. QED
      BY <3>2
  <2>3. Hlp_op' \in [Hlp!Ops -> OpRecords] /\ Hlp_entry' \in [Hlp!Ops -> EntryRecords]
    BY <1>1, <1>2, <2>1, <2>2 DEF Types
  <2>4. Hlp_helpers' \in [Hlp_Volumes -> Hlp!Ops \cup {Hlp_None}]
    BY <1>1, <1>2 DEF Types
  <2>5. QED
    BY <1>1, <1>2, <2>3, <2>4 DEF Types
<1>4. /\ Hlp_op'[o].at = "clear" /\ Hlp_op'[o].vol = v /\ Hlp_op'[o].con = Hlp_None
      /\ \A q \in Hlp!Ops \ {o} : Hlp_op'[q] = Hlp_op[q]
      /\ Hlp_entry'[o].con = Hlp_None /\ Hlp_entry'[o].acquiring /\ Hlp_entry'[o].inFlight = 0
      /\ \A q \in Hlp!Ops \ {o} : Hlp_entry'[q] = Hlp_entry[q]
      /\ Hlp_helpers'[v] = o /\ \A w \in Hlp_Volumes \ {v} : Hlp_helpers'[w] = Hlp_helpers[w]
  BY <1>1, <1>2 DEF Types, Hlp!NoEntry, Hlp!NoOp
<1>5. ASSUME NEW q \in Hlp!Ops PROVE OpOK(q)'
  <2>1. OpOK(q) /\ OpOK(o)
    BY DEF HelperInv
  <2>2. CASE q = o
    BY <1>1, <1>2, <1>4, <2>1, <2>2 DEF OpOK, Fresh
  <2>3. CASE q # o
    <3>1. Hlp_op[q].at \in {"join", "inspect", "alive"} => Hlp_op'[Hlp_op[q].on].vol = Hlp_op[q].vol
      BY <1>4, <2>1, <2>3 DEF OpOK, HelperInv
    <3>2. QED
      BY <1>1, <1>2, <1>4, <2>1, <2>3, <3>1 DEF OpOK
  <2>4. QED
    BY <2>2, <2>3
<1>6. ASSUME NEW w \in Hlp_Volumes PROVE CacheOK(w)'
  <2>1. CacheOK(w) /\ OpOK(o)
    BY DEF HelperInv
  <2>2. CASE w = v
    <3>1. Hlp!Users(v)' \in SUBSET Hlp!Ops
      BY DEF Hlp!Users
    <3>2. Cardinality(Hlp!Users(v)') \in Nat
      BY <1>2, <3>1, UsersFinite
    <3>3. QED
      BY <1>4, <2>2, <3>2 DEF CacheOK, Hlp!Creating
  <2>3. CASE w # v /\ Hlp_helpers[w] # Hlp_None
    <3>1. Hlp_helpers[w] \in Hlp!Ops \ {o}
      BY <1>2, <2>1, <2>3 DEF CacheOK, Types, OpOK
    <3>2. Hlp!Users(w) \subseteq Hlp!Users(w)'
      BY <1>4 DEF Hlp!Users
    <3>3. Hlp_entry'[Hlp_helpers[w]].inFlight <= Cardinality(Hlp!Users(w)')
      BY <1>3, <1>4, <2>3, <3>1, <3>2, CountKept
    <3>4. QED
      BY <1>4, <2>1, <2>3, <3>1, <3>3 DEF CacheOK
  <2>4. CASE w # v /\ Hlp_helpers[w] = Hlp_None
    BY <1>4, <2>4 DEF CacheOK
  <2>5. QED
    BY <2>2, <2>3, <2>4
<1>7. Hlp!HelperAssumption'
  BY <1>2 DEF Hlp!HelperAssumption, Hlp!Ops
<1> QED
  BY <1>3, <1>5, <1>6, <1>7 DEF HelperInv

\* The operations S get container c and are counted.
LEMMA UseStep ==
  ASSUME HelperInv, NEW S \in SUBSET Hlp!Ops, NEW v \in Hlp_Volumes, NEW c \in Hlp!Ops,
           Hlp_con[c].vol = v,
         NEW ents \in [Hlp!Ops -> EntryRecords], Hlp!Use(S, v, c, ents),
         \A q \in S : Hlp_op[q].vol = v /\ Hlp_op[q].at # "use",
         \A q \in Hlp!Ops : ents[q].inFlight = Hlp_entry[q].inFlight,
         \A q \in Hlp!Ops : ents[q].con # Hlp_None => ents[q].con = q /\
              Hlp_con[q].vol = Hlp_op[q].vol,
         \A q \in Hlp!Ops \ S : Hlp_op[q].at \in Fresh => ents[q].con = Hlp_None,
         \A w \in Hlp_Volumes : Hlp_helpers[w] # Hlp_None =>
            /\ ents[Hlp_helpers[w]].acquiring => Hlp_helpers[w] \notin S /\
                 Hlp_op[Hlp_helpers[w]].at \in Hlp!Creating \cup {"started"}
            /\ ~ents[Hlp_helpers[w]].acquiring => ents[Hlp_helpers[w]].con = Hlp_helpers[w]
  PROVE  HelperInv'
<1> DEFINE e == Hlp_helpers[v]
<1>1. /\ Hlp_op' = [o \in Hlp!Ops |-> IF o \in S THEN [Hlp_op[o] EXCEPT !.at = "use", !.con = c,
           !.on = Hlp_None, !.found = {}] ELSE Hlp_op[o]]
      /\ Hlp_entry' = IF e = Hlp_None THEN ents
                      ELSE [ents EXCEPT ![e].inFlight = @ + Cardinality(S), ![e].idle = FALSE]
      /\ Hlp_helpers' = Hlp_helpers /\ Hlp_con' = Hlp_con /\ Hlp_reaping' = Hlp_reaping
      /\ Hlp_deaths' = Hlp_deaths
  BY CardinalityIs DEF Hlp!Use, Hlp!outside
<1>2. Hlp!HelperAssumption /\ Types /\ Hlp_None \notin Hlp_Volumes /\ Hlp_None \notin Hlp!Ops /\
        Cardinality(S) \in Nat
  BY UsersFinite DEF HelperInv, Hlp!HelperAssumption
<1>3. e \in Hlp!Ops \cup {Hlp_None}
  BY <1>2 DEF Types
<1>4. /\ \A q \in S : Hlp_op'[q].at = "use" /\ Hlp_op'[q].con = c /\ Hlp_op'[q].vol = v /\
           Hlp_op'[q] \in OpRecords
      /\ \A q \in Hlp!Ops \ S : Hlp_op'[q] = Hlp_op[q]
  <2>1. ASSUME NEW q \in S
        PROVE  Hlp_op'[q].at = "use" /\ Hlp_op'[q].con = c /\ Hlp_op'[q].vol = v /\
                 Hlp_op'[q] \in OpRecords
    <3>1. Hlp_op'[q] = [Hlp_op[q] EXCEPT !.at = "use", !.con = c, !.on = Hlp_None, !.found = {}]
      BY <1>1
    <3>2. Hlp_op[q] \in OpRecords /\ Hlp_op[q].vol = v
      BY <1>2 DEF Types
    <3>3. QED
      BY <3>1, <3>2 DEF OpRecords
  <2>2. \A q \in Hlp!Ops \ S : Hlp_op'[q] = Hlp_op[q]
    BY <1>1
  <2>3. QED
    BY <2>1, <2>2
<1>5. /\ \A q \in Hlp!Ops : Hlp_entry'[q].con = ents[q].con /\
           Hlp_entry'[q].acquiring = ents[q].acquiring /\ Hlp_entry'[q] \in EntryRecords
      /\ \A q \in Hlp!Ops \ {e} : Hlp_entry'[q].inFlight = Hlp_entry[q].inFlight
      /\ e # Hlp_None => Hlp_entry'[e].inFlight = Hlp_entry[e].inFlight + Cardinality(S)
  <2>1. CASE e = Hlp_None
    BY <1>1, <1>2, <2>1 DEF EntryRecords
  <2>2. CASE e # Hlp_None
    <3> DEFINE mid == [ents EXCEPT ![e].inFlight = @ + Cardinality(S)]
    <3>1. Hlp_entry' = [mid EXCEPT ![e].idle = FALSE]
      BY <1>1, <2>2
    <3>2. ents[e] \in EntryRecords /\ e \in Hlp!Ops
      BY <1>3, <2>2
    <3>3. /\ mid[e] \in EntryRecords /\ mid[e].con = ents[e].con
          /\ mid[e].acquiring = ents[e].acquiring
          /\ mid[e].inFlight = ents[e].inFlight + Cardinality(S)
          /\ mid \in [Hlp!Ops -> EntryRecords] /\ \A q \in Hlp!Ops \ {e} : mid[q] = ents[q]
      <4>1. mid = [ents EXCEPT ![e] = [ents[e] EXCEPT !.inFlight = @ + Cardinality(S)]]
        OBVIOUS
      <4>2. ents[e].inFlight + Cardinality(S) \in Int
        BY <1>2, <3>2 DEF EntryRecords
      <4>3. /\ [ents[e] EXCEPT !.inFlight = @ + Cardinality(S)] \in EntryRecords
            /\ [ents[e] EXCEPT !.inFlight = @ + Cardinality(S)].con = ents[e].con
            /\ [ents[e] EXCEPT !.inFlight = @ + Cardinality(S)].acquiring = ents[e].acquiring
            /\ [ents[e] EXCEPT !.inFlight = @ + Cardinality(S)].inFlight = ents[e].inFlight + Cardinality(S)
        BY <3>2, <4>2 DEF EntryRecords
      <4>4. QED
        BY <3>2, <4>1, <4>3
    <3> HIDE DEF mid
    <3>4. Hlp_entry'[e].con = ents[e].con /\ Hlp_entry'[e].acquiring = ents[e].acquiring /\
            Hlp_entry'[e] \in EntryRecords
          /\ Hlp_entry'[e].inFlight = ents[e].inFlight + Cardinality(S)
      <4>1. Hlp_entry'[e] = [mid[e] EXCEPT !.idle = FALSE]
        BY <3>1, <3>2, <3>3
      <4>2. QED
        BY <3>3, <4>1 DEF EntryRecords
    <3>5. \A q \in Hlp!Ops \ {e} : Hlp_entry'[q] = ents[q]
      BY <3>1, <3>3
    <3>6. QED
      BY <2>2, <3>2, <3>4, <3>5
  <2>3. QED
    BY <2>1, <2>2
<1>6. Types'
  <2>1. Hlp_op' \in [Hlp!Ops -> OpRecords]
    <3>1. \A q \in Hlp!Ops : Hlp_op'[q] \in OpRecords
      BY <1>2, <1>4 DEF Types
    <3>2. QED
      BY <1>1, <3>1
  <2>2. Hlp_entry' \in [Hlp!Ops -> EntryRecords]
    BY <1>1, <1>5
  <2>3. QED
    BY <1>1, <1>2, <2>1, <2>2 DEF Types
<1>7. ASSUME NEW q \in Hlp!Ops PROVE OpOK(q)'
  <2>1. OpOK(q) /\ \A r \in Hlp!Ops : Hlp_op'[r].vol = Hlp_op[r].vol
    BY <1>4 DEF HelperInv
  <2>2. Hlp_entry'[q].con # Hlp_None => Hlp_entry'[q].con = q /\ Hlp_con[q].vol = Hlp_op[q].vol
    BY <1>5
  <2>3. CASE q \in S
    <3>1. Hlp_op'[q].at = "use" /\ Hlp_op'[q].con = c /\ Hlp_op'[q].vol = v
      BY <1>4, <2>3
    <3>2. v # Hlp_None /\ c \in Hlp!Ops /\ Hlp_con'[c].vol = v
      BY <1>1, <1>2
    <3>3. Hlp_entry'[q].con # Hlp_None => Hlp_entry'[q].con = q /\ Hlp_con'[q].vol = Hlp_op'[q].vol
      BY <1>1, <2>1, <2>2
    <3>4. QED
      BY <3>1, <3>2, <3>3 DEF OpOK, Fresh
  <2>4. CASE q \notin S
    <3>1. Hlp_op'[q] = Hlp_op[q] /\ (Hlp_op[q].at \in Fresh => Hlp_entry'[q].con = Hlp_None)
      BY <1>4, <1>5, <2>4
    <3>2. Hlp_op[q].at \in {"join", "inspect", "alive"} => Hlp_op'[Hlp_op[q].on].vol = Hlp_op[q].vol
      BY <2>1 DEF OpOK
    <3>3. QED
      BY <1>1, <2>1, <2>2, <3>1, <3>2 DEF OpOK
  <2>5. QED
    BY <2>3, <2>4
<1>8. ASSUME NEW w \in Hlp_Volumes PROVE CacheOK(w)'
  <2>1. CacheOK(w)
    BY DEF HelperInv
  <2>2. CASE Hlp_helpers[w] = Hlp_None
    BY <1>1, <2>2 DEF CacheOK
  <2>3. CASE Hlp_helpers[w] # Hlp_None
    <3> DEFINE f == Hlp_helpers[w]
    <3>1. f \in Hlp!Ops /\ Hlp_helpers'[w] = f /\ Hlp_op[f].vol = w /\ Hlp_op'[f].vol = w
      <4>1. f \in Hlp!Ops /\ Hlp_helpers'[w] = f /\ Hlp_op[f].vol = w
        <5>1. Hlp_helpers[w] \in Hlp!Ops \cup {Hlp_None}
          BY <1>2 DEF Types
        <5>2. Hlp_op[Hlp_helpers[w]].vol = w
          BY <2>1, <2>3 DEF CacheOK
        <5>3. QED
          BY <1>1, <2>3, <5>1, <5>2
      <4>2. Hlp_op'[f].vol = Hlp_op[f].vol
        BY <1>4, <4>1
      <4>3. QED
        BY <4>1, <4>2
    <3>2. Hlp_entry'[f].acquiring => Hlp_op'[f].at \in Hlp!Creating \cup {"started"}
      BY <1>4, <1>5, <2>3, <3>1
    <3>3. ~Hlp_entry'[f].acquiring => Hlp_entry'[f].con = f
      BY <1>5, <2>3, <3>1
    <3>4. Hlp_entry'[f].inFlight <= Cardinality(Hlp!Users(w)')
      <4>1. CASE w = v
        <5>1. Hlp!Users(v)' = Hlp!Users(v) \cup S /\ Hlp!Users(v) \cap S = {}
          BY <1>4 DEF Hlp!Users
        <5>2. Hlp_entry'[f].inFlight = Hlp_entry[f].inFlight + Cardinality(S)
          BY <1>5, <2>3, <4>1
        <5>3. Cardinality(Hlp!Users(v)') = Cardinality(Hlp!Users(v)) + Cardinality(S)
          BY <5>1, UsersMore
        <5>4. Hlp!Users(v) \in SUBSET Hlp!Ops
          BY DEF Hlp!Users
        <5>5. Cardinality(Hlp!Users(v)) \in Nat /\ Hlp_entry[f].inFlight \in Int /\
                Hlp_entry[f].inFlight <= Cardinality(Hlp!Users(v))
          BY <1>2, <2>1, <2>3, <3>1, <4>1, <5>4, UsersFinite DEF CacheOK, Types, EntryRecords
        <5>6. QED
          BY <1>2, <4>1, <5>2, <5>3, <5>5
      <4>2. CASE w # v
        <5>1. f # e
          <6>1. CacheOK(v)
            BY DEF HelperInv
          <6>2. QED
            BY <2>3, <3>1, <4>2, <6>1 DEF CacheOK
        <5>2. Hlp!Users(w) \subseteq Hlp!Users(w)'
          BY <1>4 DEF Hlp!Users
        <5>3. QED
          BY <1>5, <1>6, <2>3, <3>1, <5>1, <5>2, CountKept
      <4>3. QED
        BY <4>1, <4>2
    <3>5. QED
      BY <3>1, <3>2, <3>3, <3>4 DEF CacheOK
  <2>4. QED
    BY <2>2, <2>3
<1>9. Hlp!HelperAssumption'
  BY <1>2 DEF Hlp!HelperAssumption, Hlp!Ops
<1> QED
  BY <1>6, <1>7, <1>8, <1>9 DEF HelperInv

\* A creation fails for all who share it.
LEMMA RejectStep ==
  ASSUME HelperInv, NEW o \in Hlp!Ops, Hlp_op[o].at \in Hlp!Creating, Hlp!Reject(o)
  PROVE  HelperInv'
<1> DEFINE S == {o} \cup Hlp!Joiners(o)
           v == Hlp_op[o].vol
<1>1. /\ Hlp_helpers' = [Hlp_helpers EXCEPT ![v] = Hlp_None]
      /\ Hlp_op' = [q \in Hlp!Ops |-> IF q \in S THEN [Hlp_op[q] EXCEPT !.at = "failed",
           !.on = Hlp_None, !.found = {}] ELSE Hlp_op[q]]
      /\ Hlp_entry' = Hlp_entry /\ Hlp_con' = Hlp_con /\ Hlp_reaping' = Hlp_reaping
      /\ Hlp_deaths' = Hlp_deaths
  BY DEF Hlp!Reject, Hlp!outside
<1>2. Hlp!HelperAssumption /\ Types /\ Hlp_None \notin Hlp_Volumes /\ Hlp_None \notin Hlp!Ops
  BY DEF HelperInv, Hlp!HelperAssumption
<1>3. v \in Hlp_Volumes
  BY <1>2 DEF HelperInv, OpOK, Types, OpRecords, Hlp!Creating
<1>4. S \in SUBSET Hlp!Ops /\ \A q \in S : Hlp_op[q].at \in Hlp!Creating \cup {"join"}
  BY DEF Hlp!Joiners
<1> HIDE DEF S, v
<1>5. /\ \A q \in S : Hlp_op'[q].at = "failed" /\ Hlp_op'[q].vol = Hlp_op[q].vol /\
           Hlp_op'[q] \in OpRecords
      /\ \A q \in Hlp!Ops \ S : Hlp_op'[q] = Hlp_op[q]
      /\ \A q \in Hlp!Ops : Hlp_op'[q].vol = Hlp_op[q].vol
  <2>1. ASSUME NEW q \in S PROVE Hlp_op'[q].at = "failed" /\ Hlp_op'[q].vol = Hlp_op[q].vol /\
          Hlp_op'[q] \in OpRecords
    <3>1. Hlp_op'[q] = [Hlp_op[q] EXCEPT !.at = "failed", !.on = Hlp_None, !.found = {}] /\
            Hlp_op[q] \in OpRecords
      BY <1>1, <1>2, <1>4 DEF Types
    <3>2. QED
      BY <3>1 DEF OpRecords, Hlp!Ended
  <2>2. \A q \in Hlp!Ops \ S : Hlp_op'[q] = Hlp_op[q]
    BY <1>1
  <2>3. QED
    BY <2>1, <2>2
<1>6. Hlp_helpers'[v] = Hlp_None /\ \A w \in Hlp_Volumes \ {v} : Hlp_helpers'[w] = Hlp_helpers[w]
  BY <1>1, <1>2, <1>3 DEF Types
<1>7. Types'
  <2>1. Hlp_op' \in [Hlp!Ops -> OpRecords]
    <3>1. \A q \in Hlp!Ops : Hlp_op'[q] \in OpRecords
      BY <1>2, <1>5 DEF Types
    <3>2. QED
      BY <1>1, <3>1
  <2>2. Hlp_helpers' \in [Hlp_Volumes -> Hlp!Ops \cup {Hlp_None}]
    BY <1>1, <1>2 DEF Types
  <2>3. QED
    BY <1>1, <1>2, <2>1, <2>2 DEF Types
<1>8. ASSUME NEW q \in Hlp!Ops PROVE OpOK(q)'
  <2>1. OpOK(q)
    BY DEF HelperInv
  <2>2. CASE q \in S
    <3>1. Hlp_op'[q].at = "failed" /\ Hlp_op'[q].vol = Hlp_op[q].vol /\ Hlp_op[q].at # "new"
      BY <1>4, <1>5, <2>2 DEF Hlp!Creating
    <3>2. QED
      BY <1>1, <2>1, <3>1 DEF OpOK, Fresh
  <2>3. CASE q \notin S
    <3>1. Hlp_op'[q] = Hlp_op[q] /\
            (Hlp_op[q].at \in {"join", "inspect", "alive"} =>
                 Hlp_op'[Hlp_op[q].on].vol = Hlp_op[q].vol)
      BY <1>5, <2>1, <2>3 DEF OpOK
    <3>2. QED
      BY <1>1, <2>1, <3>1 DEF OpOK
  <2>4. QED
    BY <2>2, <2>3
<1>9. ASSUME NEW w \in Hlp_Volumes PROVE CacheOK(w)'
  <2>1. CacheOK(w)
    BY DEF HelperInv
  <2>2. CASE w = v \/ Hlp_helpers[w] = Hlp_None
    BY <1>6, <2>2 DEF CacheOK
  <2>3. CASE w # v /\ Hlp_helpers[w] # Hlp_None
    <3> DEFINE f == Hlp_helpers[w]
    <3>1. f \in Hlp!Ops /\ Hlp_helpers'[w] = f /\ Hlp_op[f].vol = w
      <4>1. Hlp_helpers[w] \in Hlp!Ops \cup {Hlp_None}
        BY <1>2 DEF Types
      <4>2. QED
        BY <1>6, <2>1, <2>3, <4>1 DEF CacheOK
    <3>2. Hlp_entry[f].acquiring => Hlp_op'[f].at \in Hlp!Creating \cup {"started"}
      <4>1. f \in S => f \in Hlp!Joiners(o)
        BY <2>3, <3>1 DEF S, v
      <4>2. Hlp_op[f].at = "join" => ~Hlp_entry[f].acquiring
        BY <2>1, <2>3 DEF CacheOK, Hlp!Creating
      <4>3. f \in S => Hlp_op[f].at = "join"
        BY <4>1 DEF Hlp!Joiners
      <4>4. QED
        BY <1>5, <2>1, <2>3, <3>1, <4>2, <4>3 DEF CacheOK
    <3>3. Hlp!Users(w) \subseteq Hlp!Users(w)'
      BY <1>4, <1>5 DEF Hlp!Users, Hlp!Creating
    <3>4. Hlp_entry'[f].inFlight <= Cardinality(Hlp!Users(w)')
      BY <1>1, <1>7, <2>3, <3>1, <3>3, CountKept
    <3>5. QED
      BY <1>1, <1>5, <2>1, <2>3, <3>1, <3>2, <3>4 DEF CacheOK
  <2>4. QED
    BY <2>2, <2>3
<1>10. Hlp!HelperAssumption'
  BY <1>2 DEF Hlp!HelperAssumption, Hlp!Ops
<1> QED
  BY <1>7, <1>8, <1>9, <1>10 DEF HelperInv

\* A step of one operation that changes its progress, and containers perhaps: nobody's
\* container or entry changes its volume, and no user is lost.
LEMMA MoveStep ==
  ASSUME HelperInv, NEW o \in Hlp!Ops,
           UNCHANGED <<Hlp_entry, Hlp_helpers, Hlp_reaping, Hlp_deaths>>,
         Hlp_op' \in [Hlp!Ops -> OpRecords], Hlp_con' \in [Hlp!Ops -> ConRecords],
         \A q \in Hlp!Ops \ {o} : Hlp_op'[q] = Hlp_op[q], Hlp_op'[o].vol = Hlp_op[o].vol,
              Hlp_op'[o].on = Hlp_op[o].on,
         Hlp_op[o].at \notin {"new", "use", "started"},
         Hlp_op[o].at \in Hlp!Creating => Hlp_op'[o].at \in Hlp!Creating \cup {"started"},
         \A q \in Hlp!Ops : Hlp_con'[q].vol = Hlp_con[q].vol \/
              (q = o /\ Hlp_con[o].vol = Hlp_None),
         \A q \in Hlp!Ops : q # o /\ Hlp_con[q].st = "absent" => Hlp_con'[q].st = "absent",
         OpOK(o)'
  PROVE  HelperInv'
<1>1. Hlp!HelperAssumption /\ Types /\ Hlp_None \notin Hlp_Volumes /\ Hlp_None \notin Hlp!Ops
  BY DEF HelperInv, Hlp!HelperAssumption
<1>2. Types'
  BY <1>1 DEF Types
<1>3. \A q \in Hlp!Ops : Hlp_op'[q].vol = Hlp_op[q].vol
  OBVIOUS
<1>4. ASSUME NEW q \in Hlp!Ops PROVE OpOK(q)'
  <2>1. OpOK(q)
    BY DEF HelperInv
  <2>2. CASE q # o
    <3>1. Hlp_op'[q] = Hlp_op[q] /\ Hlp_con'[q].vol = Hlp_con[q].vol /\ Hlp_entry'[q] = Hlp_entry[q]
      BY <2>2
    <3>2. Hlp_op[q].at \in {"join", "inspect", "alive"} => Hlp_op[q].on \in Hlp!Ops /\
            Hlp_op'[Hlp_op[q].on].vol = Hlp_op[q].vol
      BY <1>3, <2>1 DEF OpOK
    <3>3. Hlp_op[q].at \in {"inspect", "alive", "use"} => Hlp_op[q].con \in Hlp!Ops /\
            Hlp_con'[Hlp_op[q].con].vol = Hlp_op[q].vol
      <4>1. Hlp_op[q].at # "new" => Hlp_op[q].vol # Hlp_None
        BY <2>1 DEF OpOK
      <4>2. QED
        BY <2>1, <4>1 DEF OpOK
    <3>4. Hlp_op[q].at \in Fresh => Hlp_con'[q].vol = Hlp_None /\ Hlp_con'[q].st = "absent"
      BY <2>1, <2>2, <3>1 DEF OpOK
    <3>5. QED
      BY <2>1, <3>1, <3>2, <3>3, <3>4 DEF OpOK
  <2>3. QED
    BY <2>2
<1>5. ASSUME NEW w \in Hlp_Volumes PROVE CacheOK(w)'
  <2>1. CacheOK(w)
    BY DEF HelperInv
  <2>2. CASE Hlp_helpers[w] = Hlp_None
    BY <2>2 DEF CacheOK
  <2>3. CASE Hlp_helpers[w] # Hlp_None
    <3> DEFINE f == Hlp_helpers[w]
    <3>1. f \in Hlp!Ops /\ Hlp_op'[f].vol = w
      <4>1. f \in Hlp!Ops \cup {Hlp_None}
        BY <1>1 DEF Types
      <4>2. QED
        BY <1>3, <2>1, <2>3, <4>1 DEF CacheOK
    <3>2. Hlp_entry[f].acquiring => Hlp_op'[f].at \in Hlp!Creating \cup {"started"}
      <4>1. CASE f = o
        <5>1. Hlp_entry[f].acquiring => Hlp_op[o].at \in Hlp!Creating \cup {"started"}
          BY <2>1, <2>3, <4>1 DEF CacheOK
        <5>2. QED
          BY <5>1, <4>1
      <4>2. CASE f # o
        BY <2>1, <2>3, <3>1, <4>2 DEF CacheOK
      <4>3. QED
        BY <4>1, <4>2
    <3>3. Hlp!Users(w) \subseteq Hlp!Users(w)'
      BY DEF Hlp!Users
    <3>4. Hlp_entry'[f].inFlight <= Cardinality(Hlp!Users(w)')
      BY <1>2, <2>3, <3>3, CountKept
    <3>5. QED
      BY <2>1, <2>3, <3>1, <3>2, <3>4 DEF CacheOK
  <2>4. QED
    BY <2>2, <2>3
<1>6. Hlp!HelperAssumption'
  BY <1>1 DEF Hlp!HelperAssumption, Hlp!Ops
<1> QED
  BY <1>2, <1>4, <1>5, <1>6 DEF HelperInv

LEMMA BeginStep ==
  ASSUME HelperInv, NEW o \in Hlp!Ops, Hlp!Begin(o)
  PROVE  HelperInv'
<1>1. Hlp_op[o].at = "new"
  BY DEF Hlp!Begin
<1>2. PICK v \in Hlp_Volumes :
        LET e == Hlp_helpers[v] IN
        \/ /\ e = Hlp_None
           /\ Hlp!NewEntry(o, v)
        \/ /\ e # Hlp_None
           /\ Hlp_op' = [Hlp_op EXCEPT ![o] = [Hlp!NoOp EXCEPT !.vol = v, !.on = e,
                           !.at = IF Hlp_entry[e].acquiring THEN "join" ELSE "inspect",
                                !.con = Hlp_entry[e].con]]
           /\ UNCHANGED <<Hlp_entry, Hlp_helpers>>
  BY DEF Hlp!Begin
<1>3. UNCHANGED <<Hlp_con, Hlp!outside>>
  BY DEF Hlp!Begin
<1>4. CASE Hlp_helpers[v] = Hlp_None
  BY <1>1, <1>2, <1>3, <1>4, NewEntryStep
<1>5. CASE Hlp_helpers[v] # Hlp_None
  <2> DEFINE e == Hlp_helpers[v]
             rec == [Hlp!NoOp EXCEPT !.vol = v, !.on = e,
                       !.at = IF Hlp_entry[e].acquiring THEN "join" ELSE "inspect",
                            !.con = Hlp_entry[e].con]
  <2>1. /\ Hlp_op' = [Hlp_op EXCEPT ![o] = rec] /\ Hlp_entry' = Hlp_entry
        /\ Hlp_helpers' = Hlp_helpers
        /\ Hlp_con' = Hlp_con /\ Hlp_reaping' = Hlp_reaping /\ Hlp_deaths' = Hlp_deaths
    BY <1>2, <1>3, <1>5 DEF Hlp!outside
  <2>2. Hlp!HelperAssumption /\ Types /\ Hlp_None \notin Hlp_Volumes /\ Hlp_None \notin Hlp!Ops
    BY DEF HelperInv, Hlp!HelperAssumption
  <2>3. /\ e \in Hlp!Ops /\ Hlp_op[e].vol = v /\ e # o
        /\ Hlp_entry[e].con \in Hlp!Ops \cup {Hlp_None}
        /\ Hlp_entry[e].acquiring \/ (Hlp_entry[e].con = e /\ Hlp_con[e].vol = v)
    <3>1. CacheOK(v) /\ OpOK(o) /\ Hlp_helpers[v] \in Hlp!Ops \cup {Hlp_None}
      BY <2>2 DEF HelperInv, Types
    <3>2. Hlp_helpers[v] \in Hlp!Ops /\ Hlp_op[Hlp_helpers[v]].vol = v
      BY <1>5, <3>1 DEF CacheOK
    <3>3. OpOK(Hlp_helpers[v]) /\ Hlp_entry[Hlp_helpers[v]] \in EntryRecords
      BY <2>2, <3>2 DEF HelperInv, Types
    <3>4. Hlp_helpers[v] # o
      BY <1>1, <2>2, <3>1, <3>2 DEF OpOK
    <3>5. ~Hlp_entry[Hlp_helpers[v]].acquiring => Hlp_entry[Hlp_helpers[v]].con = Hlp_helpers[v] /\
            Hlp_con[Hlp_helpers[v]].vol = v
      BY <1>5, <2>2, <3>1, <3>2, <3>3 DEF CacheOK, OpOK
    <3>6. QED
      BY <3>2, <3>3, <3>4, <3>5 DEF EntryRecords
  <2>4. /\ rec.vol = v /\ rec.on = e /\ rec.con = Hlp_entry[e].con /\ rec \in OpRecords
        /\ (Hlp_entry[e].acquiring /\ rec.at = "join") \/
             (~Hlp_entry[e].acquiring /\ rec.at = "inspect")
    <3>1. ASSUME NEW at \in {"join", "inspect"}
          PROVE  [Hlp!NoOp EXCEPT !.vol = v, !.on = e, !.at = at,
                   !.con = Hlp_entry[e].con] \in OpRecords
      BY <2>3 DEF OpRecords, Hlp!NoOp
    <3>2. rec \in OpRecords
      BY <3>1
    <3>3. QED
      BY <3>2 DEF Hlp!NoOp
  <2> HIDE DEF e, rec
  <2>5. Hlp_op'[o] = rec /\ (\A q \in Hlp!Ops \ {o} : Hlp_op'[q] = Hlp_op[q]) /\
          Hlp_op' \in [Hlp!Ops -> OpRecords]
    BY <2>1, <2>2, <2>4 DEF Types
  <2>6. Types'
    BY <2>1, <2>2, <2>5 DEF Types
  <2>7. ASSUME NEW q \in Hlp!Ops PROVE OpOK(q)'
    <3>1. OpOK(q) /\ OpOK(o)
      BY DEF HelperInv
    <3>2. CASE q = o
      <4>1. Hlp_op'[o].vol # Hlp_None /\ Hlp_op'[o].at \in {"join", "inspect"} /\ Hlp_op'[e].vol = v
        BY <2>2, <2>3, <2>4, <2>5
      <4>2. Hlp_op'[o].at = "inspect" => Hlp_op'[o].con \in Hlp!Ops /\
              Hlp_con[Hlp_op'[o].con].vol = v
        BY <2>3, <2>4, <2>5
      <4>3. Hlp_con[o].vol = Hlp_None /\ Hlp_con[o].st = "absent" /\ Hlp_entry[o].con = Hlp_None
        BY <1>1, <3>1 DEF OpOK, Fresh
      <4>4. QED
        BY <2>1, <2>3, <2>4, <2>5, <3>2, <4>1, <4>2, <4>3 DEF OpOK
    <3>3. CASE q # o
      <4>1. Hlp_op[q].at \in {"join", "inspect", "alive"} =>
              Hlp_op'[Hlp_op[q].on].vol = Hlp_op[q].vol
        <5>1. Hlp_op[q].at \in {"join", "inspect", "alive"} => Hlp_op[q].on \in Hlp!Ops /\
                Hlp_op[Hlp_op[q].on].vol # Hlp_None
          BY <3>1 DEF OpOK
        <5>2. Hlp_op[o].vol = Hlp_None
          BY <1>1, <3>1 DEF OpOK
        <5>3. QED
          BY <2>5, <3>1, <5>1, <5>2 DEF OpOK
      <4>2. Hlp_entry[q].con # Hlp_None => Hlp_op[q].at # "new" /\ Hlp_con[q].vol = Hlp_op[q].vol
        BY <3>1 DEF OpOK, Fresh
      <4>3. QED
        BY <2>1, <2>5, <3>1, <3>3, <4>1, <4>2 DEF OpOK
    <3>4. QED
      BY <3>2, <3>3
  <2>8. ASSUME NEW w \in Hlp_Volumes PROVE CacheOK(w)'
    <3>1. CacheOK(w) /\ OpOK(o)
      BY DEF HelperInv
    <3>2. CASE Hlp_helpers[w] = Hlp_None
      BY <2>1, <3>2 DEF CacheOK
    <3>3. CASE Hlp_helpers[w] # Hlp_None
      <4>1. Hlp_helpers[w] \in Hlp!Ops \cup {Hlp_None} /\ Hlp_op[Hlp_helpers[w]].vol = w
        BY <2>2, <3>1, <3>3 DEF CacheOK, Types
      <4>2. Hlp_helpers[w] \in Hlp!Ops \ {o}
        BY <1>1, <2>2, <3>1, <3>3, <4>1 DEF OpOK
      <4>3. Hlp_op'[Hlp_helpers[w]] = Hlp_op[Hlp_helpers[w]]
        BY <2>5, <4>2
      <4>4. Hlp!Users(w) \subseteq Hlp!Users(w)'
        BY <1>1, <2>5 DEF Hlp!Users
      <4>5. Hlp_entry[Hlp_helpers[w]].inFlight <= Cardinality(Hlp!Users(w)')
        BY <2>1, <2>6, <3>3, <4>4, CountKept
      <4>6. QED
        BY <2>1, <3>1, <3>3, <4>3, <4>5 DEF CacheOK
    <3>4. QED
      BY <3>2, <3>3
  <2>9. Hlp!HelperAssumption'
    BY <2>2 DEF Hlp!HelperAssumption, Hlp!Ops
  <2> QED
    BY <2>6, <2>7, <2>8, <2>9 DEF HelperInv
<1> QED
  BY <1>4, <1>5

\* What the steps of an operation that acquires a helper or makes one do to it.
LEMMA InspectStep ==
  ASSUME HelperInv, NEW o \in Hlp!Ops, Hlp!Inspect(o)
  PROVE  HelperInv'
<1>1. Types /\ OpOK(o) /\ Hlp_op[o] \in OpRecords
  BY DEF HelperInv, Types
<1>2. PICK at \in {"alive", "dead"} : Hlp_op' = [Hlp_op EXCEPT ![o].at = at]
  BY DEF Hlp!Inspect
<1>3. Hlp_op[o].at = "inspect" /\
        UNCHANGED <<Hlp_entry, Hlp_helpers, Hlp_con, Hlp_reaping, Hlp_deaths>>
  BY DEF Hlp!Inspect, Hlp!outside
<1>4. /\ Hlp_op'[o].at = at /\ Hlp_op'[o].vol = Hlp_op[o].vol /\ Hlp_op'[o].on = Hlp_op[o].on
      /\ Hlp_op'[o].con = Hlp_op[o].con
      /\ \A q \in Hlp!Ops \ {o} : Hlp_op'[q] = Hlp_op[q]
  BY <1>1, <1>2 DEF Types, OpRecords
<1>5. Hlp_op' \in [Hlp!Ops -> OpRecords] /\ Hlp_con' \in [Hlp!Ops -> ConRecords]
  BY <1>1, <1>2, <1>3 DEF Types, OpRecords
<1>6. OpOK(o)'
  <2>1. Hlp_op[o].on \in Hlp!Ops /\ Hlp_op'[Hlp_op[o].on].vol = Hlp_op[o].vol
    BY <1>1, <1>3, <1>4 DEF OpOK
  <2>2. QED
    BY <1>1, <1>3, <1>4, <2>1 DEF OpOK, Fresh
<1>7. QED
  BY <1>3, <1>4, <1>5, <1>6, MoveStep DEF Hlp!Creating

LEMMA ClearStep ==
  ASSUME HelperInv, NEW o \in Hlp!Ops, Hlp!Clear(o)
  PROVE  HelperInv'
<1>1. Types /\ OpOK(o) /\ Hlp_op[o] \in OpRecords
  BY DEF HelperInv, Types
<1>2. Hlp_op[o].at = "clear"
  BY DEF Hlp!Clear
<1>3. CASE Hlp!Reject(o)
  BY <1>2, <1>3, RejectStep DEF Hlp!Creating
<1>4. CASE ~Hlp!Reject(o)
  <2>1. PICK S \in SUBSET Hlp!Ops : Hlp_op' = [Hlp_op EXCEPT ![o].at = "remove", ![o].found = S]
    <3>1. Hlp_op' = [Hlp_op EXCEPT ![o].at = "remove",
            ![o].found = {c \in Hlp!Present : Hlp_con[c].vol \in Hlp_Named[Hlp_op[o].vol]}]
      BY <1>4 DEF Hlp!Clear
    <3>2. {c \in Hlp!Present : Hlp_con[c].vol \in Hlp_Named[Hlp_op[o].vol]} \in SUBSET Hlp!Ops
      BY DEF Hlp!Present
    <3>3. QED
      BY <3>1, <3>2
  <2>2. UNCHANGED <<Hlp_entry, Hlp_helpers, Hlp_con, Hlp_reaping, Hlp_deaths>>
    BY <1>4 DEF Hlp!Clear, Hlp!outside
  <2>3. /\ Hlp_op'[o].at = "remove" /\ Hlp_op'[o].vol = Hlp_op[o].vol
        /\ Hlp_op'[o].on = Hlp_op[o].on
        /\ (\A q \in Hlp!Ops \ {o} : Hlp_op'[q] = Hlp_op[q]) /\ Hlp_op' \in [Hlp!Ops -> OpRecords]
    BY <1>1, <2>1 DEF Types, OpRecords, Hlp!Creating
  <2>4. OpOK(o)' /\ Hlp_con' \in [Hlp!Ops -> ConRecords]
    BY <1>1, <1>2, <2>2, <2>3 DEF OpOK, Fresh, Types
  <2>5. QED
    BY <1>2, <2>2, <2>3, <2>4, MoveStep DEF Hlp!Creating
<1>5. QED
  BY <1>3, <1>4

\* Removing containers of whatever set makes no container absent or of another volume.
LEMMA RemovedKeeps ==
  ASSUME Types, NEW S
  PROVE  /\ Hlp!Removed(S) \in [Hlp!Ops -> ConRecords]
         /\ \A c \in Hlp!Ops : Hlp!Removed(S)[c].vol = Hlp_con[c].vol /\
              (Hlp_con[c].st = "absent" => Hlp!Removed(S)[c] = Hlp_con[c])
<1>1. ASSUME NEW c \in Hlp!Ops
      PROVE  /\ Hlp!Removed(S)[c] \in ConRecords /\ Hlp!Removed(S)[c].vol = Hlp_con[c].vol
             /\ Hlp_con[c].st = "absent" => Hlp!Removed(S)[c] = Hlp_con[c]
  <2>1. Hlp_con[c] \in ConRecords
    BY DEF Types
  <2>2. CASE c \in S \cap Hlp!Present
    <3>1. Hlp!Removed(S)[c] = [Hlp_con[c] EXCEPT !.st = "removed"] /\ Hlp_con[c].st # "absent"
      BY <2>2 DEF Hlp!Removed, Hlp!Present
    <3>2. QED
      BY <2>1, <3>1 DEF ConRecords
  <2>3. CASE c \notin S \cap Hlp!Present
    BY <2>1, <2>3 DEF Hlp!Removed
  <2>4. QED
    BY <2>2, <2>3
<1>2. QED
  BY <1>1 DEF Hlp!Removed

LEMMA RemoveFoundStep ==
  ASSUME HelperInv, NEW o \in Hlp!Ops, Hlp!RemoveFound(o)
  PROVE  HelperInv'
<1>1. Types /\ OpOK(o) /\ Hlp_op[o] \in OpRecords
  BY DEF HelperInv, Types
<1>2. /\ Hlp_op[o].at = "remove" /\ Hlp_con' = Hlp!Removed(Hlp_op[o].found)
      /\ Hlp_op' = [Hlp_op EXCEPT ![o].at = "create", ![o].found = {}]
      /\ UNCHANGED <<Hlp_entry, Hlp_helpers, Hlp_reaping, Hlp_deaths>>
  BY DEF Hlp!RemoveFound, Hlp!outside
<1>3. /\ Hlp_op'[o].at = "create" /\ Hlp_op'[o].vol = Hlp_op[o].vol /\ Hlp_op'[o].on = Hlp_op[o].on
      /\ (\A q \in Hlp!Ops \ {o} : Hlp_op'[q] = Hlp_op[q]) /\ Hlp_op' \in [Hlp!Ops -> OpRecords]
  BY <1>1, <1>2 DEF Types, OpRecords, Hlp!Creating
<1>4. /\ Hlp_con' \in [Hlp!Ops -> ConRecords]
      /\ \A c \in Hlp!Ops : Hlp_con'[c].vol = Hlp_con[c].vol /\
           (Hlp_con[c].st = "absent" => Hlp_con'[c] = Hlp_con[c])
  BY <1>1, <1>2, RemovedKeeps
<1>5. OpOK(o)'
  BY <1>1, <1>2, <1>3, <1>4 DEF OpOK, Fresh
<1>6. QED
  BY <1>2, <1>3, <1>4, <1>5, MoveStep DEF Hlp!Creating

LEMMA CreateStep ==
  ASSUME HelperInv, NEW o \in Hlp!Ops, Hlp!Create(o)
  PROVE  HelperInv'
<1>1. Types /\ OpOK(o) /\ Hlp_op[o] \in OpRecords
  BY DEF HelperInv, Types
<1>2. Hlp_op[o].at = "create"
  BY DEF Hlp!Create
<1>3. CASE Hlp!Reject(o)
  BY <1>2, <1>3, RejectStep DEF Hlp!Creating
<1>4. CASE ~Hlp!Reject(o)
  <2>1. /\ Hlp_con' = [Hlp_con EXCEPT ![o] = [st |-> "created", vol |-> Hlp_op[o].vol]]
        /\ Hlp_op' = [Hlp_op EXCEPT ![o].at = "start", ![o].con = o]
        /\ UNCHANGED <<Hlp_entry, Hlp_helpers, Hlp_reaping, Hlp_deaths>>
    BY <1>4 DEF Hlp!Create, Hlp!outside
  <2>2. /\ Hlp_op'[o].at = "start" /\ Hlp_op'[o].vol = Hlp_op[o].vol /\ Hlp_op'[o].on = Hlp_op[o].on
        /\ (\A q \in Hlp!Ops \ {o} : Hlp_op'[q] = Hlp_op[q]) /\ Hlp_op' \in [Hlp!Ops -> OpRecords]
    BY <1>1, <2>1 DEF Types, OpRecords, Hlp!Creating
  <2>3. /\ Hlp_con' \in [Hlp!Ops -> ConRecords] /\ Hlp_con'[o].vol = Hlp_op[o].vol
        /\ \A c \in Hlp!Ops \ {o} : Hlp_con'[c] = Hlp_con[c]
    <3>1. [st |-> "created", vol |-> Hlp_op[o].vol] \in ConRecords
      BY <1>1 DEF ConRecords, OpRecords
    <3>2. QED
      BY <1>1, <2>1, <3>1 DEF Types
  <2>4. Hlp_con[o].vol = Hlp_None /\ Hlp_entry[o].con = Hlp_None
    BY <1>1, <1>2 DEF OpOK, Fresh
  <2>5. OpOK(o)'
    BY <1>1, <1>2, <2>1, <2>2, <2>3, <2>4 DEF OpOK, Fresh
  <2>6. QED
    BY <1>2, <2>1, <2>2, <2>3, <2>4, <2>5, MoveStep DEF Hlp!Creating
<1>5. QED
  BY <1>3, <1>4

LEMMA StartContainerStep ==
  ASSUME HelperInv, NEW o \in Hlp!Ops, Hlp!StartContainer(o)
  PROVE  HelperInv'
<1>1. Types /\ OpOK(o) /\ Hlp_op[o] \in OpRecords /\ Hlp_con[o] \in ConRecords
  BY DEF HelperInv, Types
<1>2. Hlp_op[o].at = "start"
  BY DEF Hlp!StartContainer
<1>3. CASE Hlp!Reject(o)
  BY <1>2, <1>3, RejectStep DEF Hlp!Creating
<1>4. CASE ~Hlp!Reject(o)
  <2>1. /\ Hlp_con' = [Hlp_con EXCEPT ![o].st = "running"]
        /\ Hlp_op' = [Hlp_op EXCEPT ![o].at = "started"]
        /\ UNCHANGED <<Hlp_entry, Hlp_helpers, Hlp_reaping, Hlp_deaths>>
    BY <1>4 DEF Hlp!StartContainer, Hlp!outside
  <2>2. /\ Hlp_op'[o].at = "started" /\ Hlp_op'[o].vol = Hlp_op[o].vol
        /\ Hlp_op'[o].on = Hlp_op[o].on
        /\ (\A q \in Hlp!Ops \ {o} : Hlp_op'[q] = Hlp_op[q]) /\ Hlp_op' \in [Hlp!Ops -> OpRecords]
    BY <1>1, <2>1 DEF Types, OpRecords, Hlp!Creating
  <2>3. /\ Hlp_con' \in [Hlp!Ops -> ConRecords] /\ Hlp_con'[o].vol = Hlp_con[o].vol
        /\ \A c \in Hlp!Ops \ {o} : Hlp_con'[c] = Hlp_con[c]
    BY <1>1, <2>1 DEF Types, ConRecords
  <2>4. OpOK(o)'
    BY <1>1, <1>2, <2>1, <2>2, <2>3 DEF OpOK, Fresh
  <2>5. QED
    BY <1>2, <2>1, <2>2, <2>3, <2>4, MoveStep DEF Hlp!Creating
<1>5. QED
  BY <1>3, <1>4

\* A helper that is alive is used; one that is dead is made anew.
LEMMA AliveStep ==
  ASSUME HelperInv, NEW o \in Hlp!Ops, Hlp!Alive(o) \/ Hlp!Dead(o)
  PROVE  HelperInv'
<1>1. Hlp!HelperAssumption /\ Types /\ OpOK(o) /\ Hlp_op[o] \in OpRecords /\
        Hlp_None \notin Hlp!Ops /\ Hlp_None \notin Hlp_Volumes
  BY DEF HelperInv, Types, Hlp!HelperAssumption
<1>2. CASE Hlp!Dead(o)
  <2>1. Hlp_op[o].at = "dead" /\ Hlp!NewEntry(o, Hlp_op[o].vol) /\
          UNCHANGED <<Hlp_con, Hlp!outside>>
    BY <1>2 DEF Hlp!Dead
  <2>2. Hlp_op[o].vol \in Hlp_Volumes
    BY <1>1, <2>1 DEF OpOK, OpRecords
  <2>3. QED
    BY <2>1, <2>2, NewEntryStep
<1>3. CASE Hlp!Alive(o)
  <2> DEFINE v == Hlp_op[o].vol
             c == Hlp_op[o].con
             ents == [Hlp_entry EXCEPT ![Hlp_op[o].on].idle = FALSE]
  <2>1. Hlp_op[o].at = "alive" /\ Hlp!Use({o}, v, c, ents)
    BY <1>3 DEF Hlp!Alive
  <2>2. v \in Hlp_Volumes /\ c \in Hlp!Ops /\ Hlp_con[c].vol = v /\ Hlp_op[o].on \in Hlp!Ops
    BY <1>1, <2>1 DEF OpOK, OpRecords
  <2>3. /\ ents \in [Hlp!Ops -> EntryRecords]
        /\ \A q \in Hlp!Ops : /\ ents[q].inFlight = Hlp_entry[q].inFlight
                              /\ ents[q].con = Hlp_entry[q].con
                              /\ ents[q].acquiring = Hlp_entry[q].acquiring
    <3>1. ASSUME NEW q \in Hlp!Ops
          PROVE  /\ ents[q] \in EntryRecords
                 /\ ents[q].inFlight = Hlp_entry[q].inFlight /\ ents[q].con = Hlp_entry[q].con
                 /\ ents[q].acquiring = Hlp_entry[q].acquiring
      <4>1. Hlp_entry[q] \in EntryRecords
        BY <1>1 DEF Types
      <4>2. ents[q] = Hlp_entry[q] \/ ents[q] = [Hlp_entry[q] EXCEPT !.idle = FALSE]
        BY <1>1 DEF Types
      <4>3. CASE ents[q] = [Hlp_entry[q] EXCEPT !.idle = FALSE]
        <5>1. [Hlp_entry[q] EXCEPT !.idle = FALSE] \in EntryRecords
          BY <4>1 DEF EntryRecords
        <5>2. LET e == [Hlp_entry[q] EXCEPT !.idle = FALSE]
              IN  /\ e.inFlight = Hlp_entry[q].inFlight /\ e.con = Hlp_entry[q].con
                  /\ e.acquiring = Hlp_entry[q].acquiring
          BY <4>1 DEF EntryRecords
        <5>3. QED
          BY <4>3, <5>1, <5>2
      <4>4. QED
        BY <4>1, <4>2, <4>3
    <3>2. ents \in [Hlp!Ops -> EntryRecords]
      BY <1>1, <3>1 DEF Types
    <3>3. QED
      BY <3>1, <3>2
  <2> HIDE DEF v, c, ents
  <2>4. \A q \in {o} : Hlp_op[q].vol = v /\ Hlp_op[q].at # "use"
    BY <2>1 DEF v
  <2>5. \A q \in Hlp!Ops : ents[q].con # Hlp_None => ents[q].con = q /\
          Hlp_con[q].vol = Hlp_op[q].vol
    BY <2>3 DEF HelperInv, OpOK
  <2>6. \A q \in Hlp!Ops \ {o} : Hlp_op[q].at \in Fresh => ents[q].con = Hlp_None
    BY <2>3 DEF HelperInv, OpOK
  <2>7. ASSUME NEW w \in Hlp_Volumes, Hlp_helpers[w] # Hlp_None
        PROVE  /\ ents[Hlp_helpers[w]].acquiring => Hlp_helpers[w] \notin {o} /\
                    Hlp_op[Hlp_helpers[w]].at \in Hlp!Creating \cup {"started"}
               /\ ~ents[Hlp_helpers[w]].acquiring => ents[Hlp_helpers[w]].con = Hlp_helpers[w]
    <3>1. CacheOK(w)
      BY DEF HelperInv
    <3>2. Hlp_helpers[w] \in Hlp!Ops
      BY <1>1, <2>7 DEF Types
    <3>3. Hlp_op[o].at \notin Hlp!Creating \cup {"started"}
      BY <2>1 DEF Hlp!Creating
    <3>4. QED
      BY <2>3, <2>7, <3>1, <3>2, <3>3 DEF CacheOK
  <2>8. {o} \in SUBSET Hlp!Ops
    OBVIOUS
  <2>9. QED
    BY <2>1, <2>2, <2>3, <2>4, <2>5, <2>6, <2>7, <2>8, UseStep
<1>4. QED
  BY <1>2, <1>3

LEMMA StartedStep ==
  ASSUME HelperInv, NEW o \in Hlp!Ops, Hlp!Started(o)
  PROVE  HelperInv'
<1>1. Hlp!HelperAssumption /\ Types /\ OpOK(o) /\ Hlp_op[o] \in OpRecords /\
        Hlp_None \notin Hlp!Ops /\ Hlp_None \notin Hlp_Volumes
  BY DEF HelperInv, Types, Hlp!HelperAssumption
<1> DEFINE v == Hlp_op[o].vol
           S == {o} \cup Hlp!Joiners(o)
           ents == [Hlp_entry EXCEPT ![o] = [@ EXCEPT !.con = o, !.acquiring = FALSE,
                !.idle = FALSE]]
<1>2. Hlp_op[o].at = "started" /\ Hlp!Use(S, v, o, ents)
  BY DEF Hlp!Started
<1>3. v \in Hlp_Volumes /\ Hlp_con[o].vol = v
  BY <1>1, <1>2 DEF OpOK, OpRecords
<1>4. S \in SUBSET Hlp!Ops /\ \A q \in S : Hlp_op[q].vol = v /\ Hlp_op[q].at \in {"started", "join"}
  <2>1. ASSUME NEW q \in Hlp!Joiners(o) PROVE q \in Hlp!Ops /\ Hlp_op[q].vol = v /\
          Hlp_op[q].at = "join"
    <3>1. q \in Hlp!Ops /\ Hlp_op[q].at = "join" /\ Hlp_op[q].on = o
      BY DEF Hlp!Joiners
    <3>2. OpOK(q)
      BY <3>1 DEF HelperInv
    <3>3. QED
      BY <3>1, <3>2 DEF OpOK
  <2>2. QED
    BY <1>2, <2>1
<1>5. /\ ents \in [Hlp!Ops -> EntryRecords]
      /\ ents[o].con = o /\ ~ents[o].acquiring /\ ents[o].inFlight = Hlp_entry[o].inFlight
      /\ \A q \in Hlp!Ops \ {o} : ents[q] = Hlp_entry[q]
  <2>1. Hlp_entry[o] \in EntryRecords
    BY <1>1 DEF Types
  <2>2. /\ [Hlp_entry[o] EXCEPT !.con = o, !.acquiring = FALSE, !.idle = FALSE] \in EntryRecords
        /\ [Hlp_entry[o] EXCEPT !.con = o, !.acquiring = FALSE, !.idle = FALSE].con = o
        /\ [Hlp_entry[o] EXCEPT !.con = o, !.acquiring = FALSE, !.idle = FALSE].acquiring = FALSE
        /\ [Hlp_entry[o] EXCEPT !.con = o, !.acquiring = FALSE,
             !.idle = FALSE].inFlight = Hlp_entry[o].inFlight
    BY <2>1 DEF EntryRecords
  <2>3. QED
    BY <1>1, <2>2 DEF Types
<1> HIDE DEF v, S, ents
<1>6. \A q \in Hlp!Ops : ents[q].inFlight = Hlp_entry[q].inFlight
  BY <1>5
<1>7. \A q \in Hlp!Ops : ents[q].con # Hlp_None => ents[q].con = q /\ Hlp_con[q].vol = Hlp_op[q].vol
  BY <1>3, <1>5 DEF HelperInv, OpOK, v
<1>8. \A q \in Hlp!Ops \ S : Hlp_op[q].at \in Fresh => ents[q].con = Hlp_None
  BY <1>5 DEF HelperInv, OpOK, S
<1>9. ASSUME NEW w \in Hlp_Volumes, Hlp_helpers[w] # Hlp_None
      PROVE  /\ ents[Hlp_helpers[w]].acquiring => Hlp_helpers[w] \notin S /\
                  Hlp_op[Hlp_helpers[w]].at \in Hlp!Creating \cup {"started"}
             /\ ~ents[Hlp_helpers[w]].acquiring => ents[Hlp_helpers[w]].con = Hlp_helpers[w]
  <2>1. CacheOK(w) /\ Hlp_helpers[w] \in Hlp!Ops
    BY <1>1, <1>9 DEF HelperInv, Types
  <2>2. CASE Hlp_helpers[w] = o
    BY <1>5, <2>2
  <2>3. CASE Hlp_helpers[w] # o
    <3>1. ents[Hlp_helpers[w]] = Hlp_entry[Hlp_helpers[w]]
      BY <1>5, <2>1, <2>3
    <3>2. Hlp_helpers[w] \in S => Hlp_op[Hlp_helpers[w]].at = "join"
      BY <2>3 DEF S, Hlp!Joiners
    <3>3. QED
      BY <1>9, <2>1, <3>1, <3>2 DEF CacheOK, Hlp!Creating
  <2>4. QED
    BY <2>2, <2>3
<1>10. \A q \in S : Hlp_op[q].vol = v /\ Hlp_op[q].at # "use"
  BY <1>4
<1>11. QED
  BY <1>2, <1>3, <1>4, <1>5, <1>6, <1>7, <1>8, <1>9, <1>10, UseStep

LEMMA FinishStep ==
  ASSUME HelperInv, NEW o \in Hlp!Ops, Hlp!Finish(o)
  PROVE  HelperInv'
<1>0. PICK v : v = Hlp_op[o].vol
  OBVIOUS
<1> DEFINE e == Hlp_helpers[v]
<1>1. Hlp!HelperAssumption /\ Types /\ OpOK(o) /\ Hlp_op[o] \in OpRecords /\
        Hlp_None \notin Hlp!Ops /\ Hlp_None \notin Hlp_Volumes
  BY DEF HelperInv, Types, Hlp!HelperAssumption
<1>2. PICK at \in Hlp!Ended : Hlp_op' = [Hlp_op EXCEPT ![o].at = at]
  BY DEF Hlp!Finish, Hlp!Ended
<1>3. /\ Hlp_op[o].at = "use" /\ Hlp_helpers' = Hlp_helpers /\ Hlp_con' = Hlp_con
      /\ Hlp_reaping' = Hlp_reaping /\ Hlp_deaths' = Hlp_deaths
      /\ Hlp_entry' = IF e = Hlp_None THEN Hlp_entry ELSE [Hlp_entry EXCEPT ![e].inFlight = @ - 1,
           ![e].idle = FALSE]
  BY <1>0 DEF Hlp!Finish, Hlp!outside
<1>4. v \in Hlp_Volumes /\ e \in Hlp!Ops \cup {Hlp_None}
  <2>1. v \in Hlp_Volumes
    BY <1>0, <1>1, <1>3 DEF OpOK, OpRecords
  <2>2. QED
    BY <1>1, <2>1 DEF Types
<1>5. /\ Hlp_op'[o].at = at /\ Hlp_op'[o].vol = v /\ Hlp_op' \in [Hlp!Ops -> OpRecords]
      /\ \A q \in Hlp!Ops \ {o} : Hlp_op'[q] = Hlp_op[q]
  BY <1>0, <1>1, <1>2 DEF Types, OpRecords
<1> HIDE DEF e
<1>6. /\ \A q \in Hlp!Ops : Hlp_entry'[q].con = Hlp_entry[q].con /\
           Hlp_entry'[q].acquiring = Hlp_entry[q].acquiring
      /\ \A q \in Hlp!Ops \ {e} : Hlp_entry'[q].inFlight = Hlp_entry[q].inFlight
      /\ e # Hlp_None => Hlp_entry'[e].inFlight = Hlp_entry[e].inFlight - 1
      /\ Hlp_entry' \in [Hlp!Ops -> EntryRecords]
  <2>1. CASE e = Hlp_None
    BY <1>1, <1>3, <2>1 DEF Types
  <2>2. CASE e # Hlp_None
    <3> DEFINE mid == [Hlp_entry EXCEPT ![e].inFlight = @ - 1]
    <3>1. Hlp_entry' = [mid EXCEPT ![e].idle = FALSE] /\ e \in Hlp!Ops
      BY <1>3, <1>4, <2>2
    <3>2. Hlp_entry[e] \in EntryRecords
      BY <1>1, <3>1 DEF Types
    <3>3. /\ mid[e] \in EntryRecords /\ mid[e].con = Hlp_entry[e].con
          /\ mid[e].acquiring = Hlp_entry[e].acquiring
          /\ mid[e].inFlight = Hlp_entry[e].inFlight - 1
          /\ mid \in [Hlp!Ops -> EntryRecords] /\ \A q \in Hlp!Ops \ {e} : mid[q] = Hlp_entry[q]
      <4>1. Hlp_entry[e].inFlight - 1 \in Int
        BY <3>2 DEF EntryRecords
      <4>2. /\ [Hlp_entry[e] EXCEPT !.inFlight = @ - 1] \in EntryRecords
            /\ [Hlp_entry[e] EXCEPT !.inFlight = @ - 1].con = Hlp_entry[e].con
            /\ [Hlp_entry[e] EXCEPT !.inFlight = @ - 1].acquiring = Hlp_entry[e].acquiring
            /\ [Hlp_entry[e] EXCEPT !.inFlight = @ - 1].inFlight = Hlp_entry[e].inFlight - 1
        BY <3>2, <4>1 DEF EntryRecords
      <4>3. QED
        BY <1>1, <3>1, <4>2 DEF Types
    <3> HIDE DEF mid
    <3>4. /\ Hlp_entry'[e].con = Hlp_entry[e].con
          /\ Hlp_entry'[e].acquiring = Hlp_entry[e].acquiring
          /\ Hlp_entry'[e].inFlight = Hlp_entry[e].inFlight - 1 /\ Hlp_entry'[e] \in EntryRecords
      <4>1. Hlp_entry'[e] = [mid[e] EXCEPT !.idle = FALSE]
        BY <3>1, <3>3
      <4>2. QED
        BY <3>3, <4>1 DEF EntryRecords
    <3>5. \A q \in Hlp!Ops \ {e} : Hlp_entry'[q] = Hlp_entry[q]
      BY <3>1, <3>3
    <3>6. Hlp_entry' \in [Hlp!Ops -> EntryRecords]
      BY <3>1, <3>3, <3>4
    <3>7. QED
      BY <2>2, <3>1, <3>4, <3>5, <3>6
  <2>3. QED
    BY <2>1, <2>2
<1>7. Types'
  BY <1>1, <1>3, <1>5, <1>6 DEF Types
<1>8. ASSUME NEW q \in Hlp!Ops PROVE OpOK(q)'
  <2>1. OpOK(q) /\ \A r \in Hlp!Ops : Hlp_op'[r].vol = Hlp_op[r].vol
    BY <1>0, <1>5 DEF HelperInv
  <2>2. CASE q = o
    BY <1>0, <1>1, <1>3, <1>5, <1>6, <2>1, <2>2 DEF OpOK, Hlp!Ended, Fresh
  <2>3. CASE q # o
    <3>1. Hlp_op[q].at \in {"join", "inspect", "alive"} => Hlp_op'[Hlp_op[q].on].vol = Hlp_op[q].vol
      BY <2>1 DEF OpOK
    <3>2. QED
      BY <1>3, <1>5, <1>6, <2>1, <2>3, <3>1 DEF OpOK
  <2>4. QED
    BY <2>2, <2>3
<1>9. ASSUME NEW w \in Hlp_Volumes PROVE CacheOK(w)'
  <2>1. CacheOK(w)
    BY DEF HelperInv
  <2>2. CASE Hlp_helpers[w] = Hlp_None
    BY <1>3, <2>2 DEF CacheOK
  <2>3. CASE Hlp_helpers[w] # Hlp_None
    <3> DEFINE f == Hlp_helpers[w]
    <3>1. f \in Hlp!Ops /\ Hlp_helpers'[w] = f /\ Hlp_op'[f].vol = w
      <4>1. Hlp_helpers[w] \in Hlp!Ops \cup {Hlp_None} /\ Hlp_op[Hlp_helpers[w]].vol = w
        BY <1>1, <2>1, <2>3 DEF CacheOK, Types
      <4>2. QED
        BY <1>0, <1>3, <1>5, <2>3, <4>1
    <3>2. Hlp_entry'[f].acquiring => Hlp_op'[f].at \in Hlp!Creating \cup {"started"}
      <4>1. Hlp_entry[f].acquiring => Hlp_op[f].at \in Hlp!Creating \cup {"started"}
        BY <2>1, <2>3 DEF CacheOK
      <4>2. Hlp_entry[f].acquiring => f # o
        BY <1>3, <4>1 DEF Hlp!Creating
      <4>3. QED
        BY <1>5, <1>6, <3>1, <4>1, <4>2
    <3>3. ~Hlp_entry'[f].acquiring => Hlp_entry'[f].con = f
      BY <1>6, <2>1, <2>3, <3>1 DEF CacheOK
    <3>4. Hlp_entry'[f].inFlight <= Cardinality(Hlp!Users(w)')
      <4>1. CASE w = v
        <5>1. Hlp!Users(v)' = Hlp!Users(v) \ {o} /\ o \in Hlp!Users(v)
          BY <1>0, <1>3, <1>4, <1>5 DEF Hlp!Users, Hlp!Ended
        <5>2. Cardinality(Hlp!Users(v)') = Cardinality(Hlp!Users(v)) - 1
          BY <1>4, <5>1, UsersLess
        <5>3. Hlp_entry'[f].inFlight = Hlp_entry[f].inFlight - 1
          BY <1>6, <2>3, <4>1 DEF e
        <5>4. Hlp!Users(v) \in SUBSET Hlp!Ops
          BY DEF Hlp!Users
        <5>5. Cardinality(Hlp!Users(v)) \in Nat /\ Hlp_entry[f].inFlight \in Int /\
                Hlp_entry[f].inFlight <= Cardinality(Hlp!Users(v))
          BY <1>1, <2>1, <2>3, <3>1, <4>1, <5>4, UsersFinite DEF CacheOK, Types, EntryRecords
        <5>6. QED
          BY <4>1, <5>2, <5>3, <5>5
      <4>2. CASE w # v
        <5>1. f # e
          <6>1. CacheOK(v)
            BY <1>4 DEF HelperInv
          <6>2. QED
            BY <2>1, <2>3, <4>2, <6>1 DEF CacheOK, e
        <5>2. Hlp!Users(w) \subseteq Hlp!Users(w)'
          BY <1>0, <1>5, <4>2 DEF Hlp!Users
        <5>3. QED
          BY <1>6, <1>7, <2>3, <3>1, <5>1, <5>2, CountKept
      <4>3. QED
        BY <4>1, <4>2
    <3>5. QED
      BY <3>1, <3>2, <3>3, <3>4 DEF CacheOK
  <2>4. QED
    BY <2>2, <2>3
<1>10. Hlp!HelperAssumption'
  BY <1>1 DEF Hlp!HelperAssumption, Hlp!Ops
<1> QED
  BY <1>7, <1>8, <1>9, <1>10 DEF HelperInv

\* What happens beside the operations: the reaper, time, and the daemon.
LEMMA HostSteps ==
  ASSUME HelperInv, (\E v \in Hlp_Volumes : Hlp!Reap(v)) \/ Hlp!ReapRemove \/ Hlp!Age \/ Hlp!Die
  PROVE  HelperInv'
<1>1. Hlp!HelperAssumption /\ Types
  BY DEF HelperInv
<1>2. Hlp_op' = Hlp_op /\ Hlp_deaths' \in 0..Hlp_MaxDeaths
  BY <1>1 DEF Hlp!Reap, Hlp!ReapRemove, Hlp!Age, Hlp!Die, Types, Hlp!HelperAssumption
<1>3. \/ Hlp_con' = Hlp_con
      \/ \E S : Hlp_con' = Hlp!Removed(S)
  BY DEF Hlp!Reap, Hlp!ReapRemove, Hlp!Age, Hlp!Die
<1>4. Hlp_con' \in [Hlp!Ops -> ConRecords] /\
        \A c \in Hlp!Ops : Hlp_con'[c].vol = Hlp_con[c].vol /\
             (Hlp_con[c].st = "absent" => Hlp_con'[c].st = "absent")
  BY <1>1, <1>3, RemovedKeeps DEF Types
<1>5. /\ Hlp_entry' \in [Hlp!Ops -> EntryRecords]
      /\ \A q \in Hlp!Ops : Hlp_entry'[q].con = Hlp_entry[q].con /\
           Hlp_entry'[q].acquiring = Hlp_entry[q].acquiring
                            /\ Hlp_entry'[q].inFlight = Hlp_entry[q].inFlight
  <2>1. CASE Hlp!Age
    <3>1. Hlp_entry' = [q \in Hlp!Ops |-> [Hlp_entry[q] EXCEPT !.idle = @ \/
            \E v \in Hlp_Volumes : Hlp_helpers[v] = q]]
      BY <2>1 DEF Hlp!Age
    <3>2. ASSUME NEW q \in Hlp!Ops
          PROVE  /\ Hlp_entry'[q] \in EntryRecords /\ Hlp_entry'[q].con = Hlp_entry[q].con
                 /\ Hlp_entry'[q].acquiring = Hlp_entry[q].acquiring
                 /\ Hlp_entry'[q].inFlight = Hlp_entry[q].inFlight
      <4>1. PICK b \in BOOLEAN : Hlp_entry'[q] = [Hlp_entry[q] EXCEPT !.idle = b]
        <5>1. Hlp_entry'[q] = [Hlp_entry[q] EXCEPT !.idle = @ \/
                \E v \in Hlp_Volumes : Hlp_helpers[v] = q]
          BY <3>1
        <5>2. QED
          BY <5>1
      <4>2. Hlp_entry[q] \in EntryRecords
        BY <1>1 DEF Types
      <4>3. QED
        BY <4>1, <4>2 DEF EntryRecords
    <3>3. QED
      BY <3>1, <3>2
  <2>2. CASE ~Hlp!Age
    BY <1>1, <2>2 DEF Hlp!Reap, Hlp!ReapRemove, Hlp!Die, Types
  <2>3. QED
    BY <2>1, <2>2
<1>6. /\ Hlp_helpers' \in [Hlp_Volumes -> Hlp!Ops \cup {Hlp_None}]
      /\ \A v \in Hlp_Volumes : Hlp_helpers'[v] \in {Hlp_helpers[v], Hlp_None}
  BY <1>1 DEF Hlp!Reap, Hlp!ReapRemove, Hlp!Age, Hlp!Die, Types
<1>7. Hlp_reaping' \in Hlp!Ops \cup {Hlp_None}
  <2>1. ASSUME NEW v \in Hlp_Volumes, Hlp!Reap(v) PROVE Hlp_reaping' \in Hlp!Ops \cup {Hlp_None}
    <3>1. Hlp_helpers[v] \in Hlp!Ops /\ Hlp_reaping' = Hlp_entry[Hlp_helpers[v]].con
      BY <1>1, <2>1 DEF Hlp!Reap, Types
    <3>2. QED
      BY <1>1, <3>1 DEF Types, EntryRecords
  <2>2. QED
    BY <1>1, <2>1 DEF Hlp!ReapRemove, Hlp!Age, Hlp!Die, Types
<1>8. Types'
  BY <1>1, <1>2, <1>4, <1>5, <1>6, <1>7 DEF Types
<1>9. ASSUME NEW q \in Hlp!Ops PROVE OpOK(q)'
  <2>1. OpOK(q)
    BY DEF HelperInv
  <2>2. QED
    BY <1>2, <1>4, <1>5, <2>1 DEF OpOK
<1>10. ASSUME NEW w \in Hlp_Volumes PROVE CacheOK(w)'
  <2>1. CacheOK(w) /\ Hlp_helpers[w] \in Hlp!Ops \cup {Hlp_None}
    BY <1>1 DEF HelperInv, Types
  <2>2. CASE Hlp_helpers'[w] = Hlp_None
    BY <2>2 DEF CacheOK
  <2>3. CASE Hlp_helpers'[w] # Hlp_None
    <3>1. Hlp_helpers'[w] = Hlp_helpers[w] /\ Hlp_helpers[w] \in Hlp!Ops /\
            Hlp_helpers[w] # Hlp_None
      BY <1>6, <2>1, <2>3
    <3>2. Hlp!Users(w) \subseteq Hlp!Users(w)'
      BY <1>2 DEF Hlp!Users
    <3>3. Hlp_entry'[Hlp_helpers[w]].inFlight <= Cardinality(Hlp!Users(w)')
      BY <1>5, <1>8, <3>1, <3>2, CountKept
    <3>4. QED
      BY <1>2, <1>5, <2>1, <3>1, <3>3 DEF CacheOK
  <2>4. QED
    BY <2>2, <2>3
<1>11. Hlp!HelperAssumption'
  BY <1>1 DEF Hlp!HelperAssumption, Hlp!Ops
<1> QED
  BY <1>8, <1>9, <1>10, <1>11 DEF HelperInv

LEMMA InitHelpers == Hlp!HelperAssumption /\ Hlp!Init => HelperInv
<1> SUFFICES ASSUME Hlp!HelperAssumption, Hlp!Init PROVE HelperInv
  OBVIOUS
<1>1. Types
  <2>1. Hlp!NoOp \in OpRecords
    BY DEF Hlp!NoOp, OpRecords
  <2>2. Hlp!NoEntry \in EntryRecords
    BY DEF Hlp!NoEntry, EntryRecords
  <2>3. [st |-> "absent", vol |-> Hlp_None] \in ConRecords
    BY DEF ConRecords
  <2>4. QED
    BY <2>1, <2>2, <2>3 DEF Hlp!Init, Types, Hlp!HelperAssumption
<1>2. ASSUME NEW o \in Hlp!Ops PROVE OpOK(o)
  BY DEF Hlp!Init, OpOK, Hlp!NoOp, Hlp!NoEntry, Fresh
<1>3. ASSUME NEW v \in Hlp_Volumes PROVE CacheOK(v)
  BY DEF Hlp!Init, CacheOK
<1> QED
  BY <1>1, <1>2, <1>3 DEF HelperInv

LEMMA StepHelpers == HelperInv /\ [Hlp!Next]_Hlp!vars => HelperInv'
<1> SUFFICES ASSUME HelperInv, [Hlp!Next]_Hlp!vars PROVE HelperInv'
  OBVIOUS
<1>1. CASE UNCHANGED Hlp!vars
  <2>1. UNCHANGED <<Hlp_op, Hlp_entry, Hlp_helpers, Hlp_con, Hlp_reaping, Hlp_deaths>>
    BY <1>1 DEF Hlp!vars
  <2>2. Types' /\ Hlp!HelperAssumption'
    BY <2>1 DEF HelperInv, Types, Hlp!HelperAssumption, Hlp!Ops
  <2>3. \A o \in Hlp!Ops : OpOK(o)'
    BY <2>1 DEF HelperInv, OpOK
  <2>4. \A v \in Hlp_Volumes : CacheOK(v)'
    BY <2>1 DEF HelperInv, CacheOK, Hlp!Users
  <2>5. QED
    BY <2>2, <2>3, <2>4 DEF HelperInv
<1>2. ASSUME NEW o \in Hlp!Ops, Hlp!Acquire(o) PROVE HelperInv'
  BY <1>2, BeginStep, InspectStep, AliveStep DEF Hlp!Acquire
<1>3. ASSUME NEW o \in Hlp!Ops, Hlp!MakeHelper(o) PROVE HelperInv'
  BY <1>3, ClearStep, RemoveFoundStep, CreateStep, StartContainerStep, StartedStep DEF
     Hlp!MakeHelper
<1>4. QED
  BY <1>1, <1>2, <1>3, FinishStep, HostSteps DEF Hlp!Next

\* Counts, creations and containers stay what the cache says, whatever operations share a
\* helper, fail, or find it dead, and whatever the reaper and the daemon remove meanwhile.
THEOREM HelpersHold == SumSpec => []HelpersCount
<1>1. SumInit => HelperInv
  BY InitHelpers, HelperConstants DEF SumInit
<1>2. [SumNext]_allVars => [Hlp!Next]_Hlp!vars
  BY DEF SumNext, allVars, helperVars, Hlp!vars
<1>3. HelperInv /\ [Hlp!Next]_Hlp!vars => HelperInv'
  BY StepHelpers
<1>4. HelperInv => Hlp!TypeOK
  BY DEF HelperInv, Types, CacheOK, Hlp!TypeOK, OpRecords, EntryRecords, ConRecords
<1>5. HelperInv => Hlp!BusyMeansUsed /\ Hlp!AcquiringIsReal
  BY CardinalityIs DEF HelperInv, CacheOK, Hlp!BusyMeansUsed, Hlp!AcquiringIsReal
<1>6. HelperInv => Hlp!OwnVolume
  BY DEF HelperInv, OpOK, Hlp!OwnVolume, Hlp!Users
<1>7. HelperInv => HelpersCount
  BY <1>4, <1>5, <1>6 DEF HelpersCount, Hlp!HelpersCount
<1> QED
  BY <1>1, <1>2, <1>3, <1>7, PTL DEF SumSpec

-----------------------------------------------------------------------------
(* BuildQueue.                                                             *)

USE KeyOfAssumption, MaxConcurrentAssumption

(***************************************************************************)
(* Sequences: what Tail and Append do to positions.                         *)
(***************************************************************************)

\* The tail of a non-empty line of jobs is the line without its first position.
LEMMA TailShift ==
  ASSUME NEW s \in Seq(Jobs), s # <<>>
  PROVE  /\ Tail(s) \in Seq(Jobs)
         /\ Len(Tail(s)) = Len(s) - 1
         /\ \A n \in 1..Len(Tail(s)) : Tail(s)[n] = s[n + 1]
         /\ Head(s) = s[1] /\ Head(s) \in Jobs /\ Len(s) >= 1
OBVIOUS

\* Appending a job leaves every earlier position alone.
LEMMA AppendShift ==
  ASSUME NEW s \in Seq(Jobs), NEW j \in Jobs
  PROVE  /\ Append(s, j) \in Seq(Jobs)
         /\ Len(Append(s, j)) = Len(s) + 1
         /\ \A n \in 1..Len(s) : Append(s, j)[n] = s[n]
         /\ Append(s, j)[Len(s) + 1] = j
OBVIOUS

(***************************************************************************)
(* Slots: one job more, or one job less, among the holders.                 *)
(***************************************************************************)

\* A job that gets a slot adds one to the number of holders.
LEMMA HolderAdded ==
  ASSUME NEW S, IsFiniteSet(S), NEW j, j \notin S
  PROVE  IsFiniteSet(S \union {j}) /\ Cardinality(S \union {j}) = Cardinality(S) + 1
BY FS_AddElement

\* A job that gives its slot back takes one from the number of holders.
LEMMA HolderRemoved ==
  ASSUME NEW S, IsFiniteSet(S), NEW j \in S
  PROVE  /\ IsFiniteSet(S \ {j}) /\ Cardinality(S \ {j}) = Cardinality(S) - 1
         /\ Cardinality(S) \in Nat /\ Cardinality(S) > 0
BY FS_RemoveElement, FS_CardinalityType, FS_EmptySet

\* The queue starts empty and idle.
LEMMA InitQueueInv == Init => QueueInv
<1> SUFFICES ASSUME Init PROVE QueueInv
  OBVIOUS
<1>1. TypeOK
  BY DEF Init, TypeOK, Phases
<1>2. TurnInv /\ ChainInv /\ WaitersInv
  BY DEF Init, TurnInv, ChainInv, WaitersInv
<1>3. Holders = {}
  BY DEF Init, Holders
<1>4. SlotInv
  BY <1>3, FS_EmptySet DEF Init, SlotInv
<1> QED
  BY <1>1, <1>2, <1>4 DEF QueueInv

\* enqueue preserves the invariant: the new job goes behind the others.
LEMMA EnqueueStep ==
  ASSUME QueueInv, NEW j \in Jobs, Enqueue(j)
  PROVE  QueueInv'
<1> DEFINE k0 == KeyOf[j]
<1> USE DEF QueueInv
<1>0. /\ phase[j] = "new" /\ k0 \in Keys
      /\ phase' = [phase EXCEPT ![j] = "chained"]
      /\ chain' = [chain EXCEPT ![k0] = Append(chain[k0], j)]
      /\ chain[k0] \in Seq(Jobs)
  BY DEF Enqueue, TypeOK
<1>1. TypeOK'
  BY <1>0, AppendShift DEF Enqueue, TypeOK, Phases
<1>2. TurnInv'
  <2> SUFFICES ASSUME NEW i \in Jobs, phase'[i] \in {"waiting", "granted", "running"}
               PROVE  ItsTurn(i)'
    BY DEF TurnInv
  <2>1. i # j /\ phase'[i] = phase[i]
    BY <1>0 DEF TypeOK
  <2>2. ItsTurn(i)
    BY <2>1 DEF TurnInv
  <2>3. CASE KeyOf[i] = k0
    <3>1. chain'[k0] = Append(chain[k0], j) /\ chain[k0] # <<>>
      BY <1>0, <2>2, <2>3 DEF TypeOK, ItsTurn
    <3>2. Head(chain'[k0]) = Head(chain[k0]) /\ chain'[k0] # <<>>
      BY <3>1, <1>0
    <3> QED
      BY <3>2, <2>2, <2>3 DEF ItsTurn
  <2>4. CASE KeyOf[i] # k0
    BY <2>2, <2>4, <1>0 DEF TypeOK, ItsTurn
  <2> QED
    BY <2>3, <2>4
<1>3. ChainInv'
  <2> SUFFICES ASSUME NEW k \in Keys
      PROVE /\ \A n \in 1..Len(chain'[k]) :
                 /\ KeyOf[chain'[k][n]] = k
                 /\ phase'[chain'[k][n]] \in InLine
                 /\ n > 1 => phase'[chain'[k][n]] = "chained"
            /\ \A m, n \in 1..Len(chain'[k]) : chain'[k][m] = chain'[k][n] => m = n
    BY DEF ChainInv
  <2>0. /\ chain[k] \in Seq(Jobs)
        /\ \A n \in 1..Len(chain[k]) :
             /\ chain[k][n] \in Jobs /\ chain[k][n] # j
             /\ phase'[chain[k][n]] = phase[chain[k][n]]
    <3>1. chain[k] \in Seq(Jobs)
      BY DEF TypeOK
    <3> SUFFICES ASSUME NEW n \in 1..Len(chain[k])
                 PROVE  /\ chain[k][n] \in Jobs /\ chain[k][n] # j
                        /\ phase'[chain[k][n]] = phase[chain[k][n]]
      BY <3>1
    <3>2. chain[k][n] \in Jobs /\ phase[chain[k][n]] \in InLine
      BY <3>1 DEF ChainInv
    <3>3. chain[k][n] # j
      BY <3>2, <1>0 DEF InLine
    <3> QED
      BY <3>2, <3>3, <1>0 DEF TypeOK
  <2>1. CASE k = k0
    <3>1. chain'[k] = Append(chain[k], j)
      BY <1>0, <2>1 DEF TypeOK
    <3>2. phase'[j] = "chained"
      BY <1>0 DEF TypeOK
    <3> QED
      BY <3>1, <3>2, <2>0, <2>1, AppendShift DEF ChainInv, InLine
  <2>2. CASE k # k0
    BY <2>2, <2>0, <1>0 DEF TypeOK, ChainInv
  <2> QED
    BY <2>1, <2>2
<1>4. WaitersInv'
  BY <1>0 DEF Enqueue, WaitersInv, TypeOK
<1>5. SlotInv'
  <2>1. Holders' = Holders
    BY <1>0 DEF Holders, TypeOK
  <2> QED
    BY <2>1 DEF SlotInv, Enqueue
<1> QED
  BY <1>1, <1>2, <1>3, <1>4, <1>5

\* acquire and the resumption of runWithLimit move the first job of a chain on
\* and leave the chains alone.
LEMMA AdvanceStep ==
  ASSUME QueueInv, NEW j \in Jobs, ItsTurn(j), chain' = chain,
         NEW p \in {"waiting", "granted", "running"},
         phase' = [phase EXCEPT ![j] = p]
  PROVE  /\ phase' \in [Jobs -> Phases] /\ chain' \in [Keys -> Seq(Jobs)]
         /\ TurnInv' /\ ChainInv'
<1> USE DEF QueueInv
<1>1. phase' \in [Jobs -> Phases] /\ chain' \in [Keys -> Seq(Jobs)]
  BY DEF TypeOK, Phases
<1>2. TurnInv'
  BY DEF TurnInv, TypeOK, ItsTurn
<1>3. ChainInv'
  <2> SUFFICES ASSUME NEW k \in Keys, NEW n \in 1..Len(chain[k])
      PROVE /\ phase'[chain[k][n]] \in InLine
            /\ n > 1 => phase'[chain[k][n]] = "chained"
    BY DEF ChainInv
  <2>1. chain[k] \in Seq(Jobs) /\ chain[k][n] \in Jobs
    BY DEF TypeOK
  <2>2. CASE chain[k][n] # j
    BY <2>1, <2>2 DEF ChainInv, TypeOK
  <2>3. CASE chain[k][n] = j
    <3>1. KeyOf[j] = k
      BY <2>3 DEF ChainInv
    <3>2. chain[k][1] = j /\ 1 \in 1..Len(chain[k])
      BY <3>1, <2>1 DEF ItsTurn
    <3>3. n = 1
      BY <3>2, <2>3 DEF ChainInv
    <3>4. phase'[j] = p
      BY DEF TypeOK
    <3> QED
      BY <3>3, <3>4, <2>3 DEF InLine
  <2> QED
    BY <2>2, <2>3
<1> QED
  BY <1>1, <1>2, <1>3

\* acquire preserves the invariant, on the fast path and when it parks the job.
LEMMA AcquireStep ==
  ASSUME QueueInv, NEW j \in Jobs, Acquire(j)
  PROVE  QueueInv'
<1> USE DEF QueueInv
<1>0. /\ phase[j] = "chained" /\ ItsTurn(j) /\ chain' = chain /\ up' = up
      /\ TypeOK /\ waiters \in Seq(Jobs)
  BY DEF Acquire, TypeOK
<1>1. CASE TakeSlot(j)
  <2>0. /\ active < MaxConcurrent /\ active' = active + 1 /\ waiters' = waiters
        /\ phase' = [phase EXCEPT ![j] = "granted"]
    BY <1>1 DEF TakeSlot
  <2>1. TypeOK' /\ TurnInv' /\ ChainInv'
    <3>1. "granted" \in {"waiting", "granted", "running"}
      OBVIOUS
    <3>2. /\ phase' \in [Jobs -> Phases] /\ chain' \in [Keys -> Seq(Jobs)]
          /\ TurnInv' /\ ChainInv'
      BY <3>1, <2>0, <1>0, AdvanceStep
    <3> QED
      BY <3>2, <2>0, <1>0 DEF TypeOK
  <2>2. waiters = <<>>
    BY <2>0 DEF SlotInv, TypeOK
  <2>3. WaitersInv'
    BY <2>0, <2>2 DEF WaitersInv
  <2>4. Holders' = Holders \union {j} /\ j \notin Holders
    BY <2>0, <1>0 DEF Holders, TypeOK
  <2>5. SlotInv'
    BY <2>0, <2>2, <2>4, HolderAdded DEF SlotInv, TypeOK
  <2> QED
    BY <2>1, <2>3, <2>5
<1>2. CASE Park(j)
  <2>0. /\ active >= MaxConcurrent /\ active' = active
        /\ waiters' = Append(waiters, j)
        /\ phase' = [phase EXCEPT ![j] = "waiting"]
    BY <1>2 DEF Park
  <2>1. TypeOK' /\ TurnInv' /\ ChainInv'
    <3>1. "waiting" \in {"waiting", "granted", "running"}
      OBVIOUS
    <3>2. /\ phase' \in [Jobs -> Phases] /\ chain' \in [Keys -> Seq(Jobs)]
          /\ TurnInv' /\ ChainInv'
      BY <3>1, <2>0, <1>0, AdvanceStep
    <3>3. waiters' \in Seq(Jobs)
      BY <2>0, <1>0, AppendShift
    <3> QED
      BY <3>2, <3>3, <2>0, <1>0 DEF TypeOK
  <2>2. WaitersInv'
    <3>1. \A n \in 1..Len(waiters) :
            /\ waiters[n] \in Jobs /\ waiters[n] # j
            /\ phase'[waiters[n]] = "waiting"
      BY <2>0, <1>0 DEF WaitersInv, TypeOK
    <3>2. phase'[j] = "waiting"
      BY <2>0 DEF TypeOK
    <3> QED
      BY <3>1, <3>2, <2>0, <1>0, AppendShift DEF WaitersInv
  <2>3. Holders' = Holders
    BY <2>0, <1>0 DEF Holders, TypeOK
  <2>4. SlotInv'
    BY <2>0, <2>3 DEF SlotInv, TypeOK
  <2> QED
    BY <2>1, <2>2, <2>4
<1> QED
  BY <1>1, <1>2 DEF Acquire

\* Starting the task of a granted job preserves the invariant.
LEMMA RunStep ==
  ASSUME QueueInv, NEW j \in Jobs, Run(j)
  PROVE  QueueInv'
<1> USE DEF QueueInv
<1>0. /\ phase[j] = "granted" /\ phase' = [phase EXCEPT ![j] = "running"]
      /\ UNCHANGED <<chain, waiters, active, up>>
  BY DEF Run
<1>1. ItsTurn(j)
  BY <1>0 DEF TurnInv
<1>2. TypeOK' /\ TurnInv' /\ ChainInv'
  BY <1>0, <1>1, AdvanceStep DEF TypeOK
<1>3. WaitersInv'
  BY <1>0 DEF WaitersInv, TypeOK
<1>4. Holders' = Holders
  BY <1>0 DEF Holders, TypeOK
<1>5. SlotInv'
  BY <1>0, <1>4 DEF SlotInv
<1> QED
  BY <1>2, <1>3, <1>5

\* A job that leaves its chain hands the turn to its successor; another job may
\* be granted the slot in the same step.
LEMMA LeaveChain ==
  ASSUME QueueInv, NEW j \in Jobs, phase[j] = "running", Dequeue(j),
         phase' \in [Jobs -> Phases], phase'[j] = "settled",
         \A i \in Jobs \ {j} : \/ phase'[i] = phase[i]
                               \/ phase[i] = "waiting" /\ phase'[i] = "granted"
  PROVE  chain' \in [Keys -> Seq(Jobs)] /\ TurnInv' /\ ChainInv'
<1> DEFINE k0 == KeyOf[j]
<1> USE DEF QueueInv
<1>0. /\ k0 \in Keys /\ chain[k0] \in Seq(Jobs) /\ chain[k0] # <<>>
      /\ chain[k0][1] = j /\ Head(chain[k0]) = j
      /\ chain' = [chain EXCEPT ![k0] = Tail(chain[k0])]
  BY DEF Dequeue, TypeOK, TurnInv, ItsTurn
<1>1. chain' \in [Keys -> Seq(Jobs)]
  BY <1>0, TailShift DEF TypeOK
<1>2. TurnInv'
  <2> SUFFICES ASSUME NEW i \in Jobs, phase'[i] \in {"waiting", "granted", "running"}
               PROVE  ItsTurn(i)'
    BY DEF TurnInv
  <2>1. i # j /\ phase[i] \in {"waiting", "granted", "running"}
    OBVIOUS
  <2>2. ItsTurn(i)
    BY <2>1 DEF TurnInv
  <2>3. KeyOf[i] # k0
    BY <2>1, <2>2, <1>0 DEF ItsTurn
  <2> QED
    BY <2>2, <2>3, <1>0 DEF ItsTurn, TypeOK
<1>3. ChainInv'
  <2> SUFFICES ASSUME NEW k \in Keys
      PROVE /\ \A n \in 1..Len(chain'[k]) :
                 /\ KeyOf[chain'[k][n]] = k
                 /\ phase'[chain'[k][n]] \in InLine
                 /\ n > 1 => phase'[chain'[k][n]] = "chained"
            /\ \A m, n \in 1..Len(chain'[k]) : chain'[k][m] = chain'[k][n] => m = n
    BY DEF ChainInv
  <2>0. chain[k] \in Seq(Jobs)
    BY DEF TypeOK
  <2>1. CASE k = k0
    <3>1. /\ chain'[k] = Tail(chain[k]) /\ Len(chain'[k]) = Len(chain[k]) - 1
          /\ \A n \in 1..Len(chain'[k]) :
                chain'[k][n] = chain[k][n + 1] /\ n + 1 \in 1..Len(chain[k])
      BY <1>0, <2>1, <2>0, TailShift DEF TypeOK
    <3>2. \A n \in 1..Len(chain'[k]) :
            /\ chain'[k][n] \in Jobs /\ chain'[k][n] # j
            /\ KeyOf[chain'[k][n]] = k /\ phase[chain'[k][n]] = "chained"
      <4> TAKE n \in 1..Len(chain'[k])
      <4>1. n + 1 \in 1..Len(chain[k]) /\ n + 1 > 1 /\ chain'[k][n] = chain[k][n + 1]
        BY <3>1, <2>0
      <4>2. phase[chain[k][n + 1]] = "chained" /\ KeyOf[chain[k][n + 1]] = k
        BY <4>1 DEF ChainInv
      <4> QED
        BY <4>1, <4>2, <2>0
    <3>3. \A n \in 1..Len(chain'[k]) : phase'[chain'[k][n]] = "chained"
      BY <3>2
    <3>4. \A m, n \in 1..Len(chain'[k]) : chain'[k][m] = chain'[k][n] => m = n
      <4> TAKE m, n \in 1..Len(chain'[k])
      <4> HAVE chain'[k][m] = chain'[k][n]
      <4>1. m + 1 = n + 1
        BY <3>1 DEF ChainInv
      <4> QED
        BY <4>1
    <3> QED
      BY <3>2, <3>3, <3>4 DEF InLine
  <2>2. CASE k # k0
    <3>1. chain'[k] = chain[k]
      BY <2>2, <1>0 DEF TypeOK
    <3>2. \A n \in 1..Len(chain[k]) :
            /\ chain[k][n] \in Jobs /\ KeyOf[chain[k][n]] = k
            /\ chain[k][n] # j
      BY <2>0, <2>2 DEF ChainInv
    <3>3. \A n \in 1..Len(chain[k]) :
            /\ phase[chain[k][n]] \in InLine
            /\ n > 1 => phase[chain[k][n]] = "chained"
      BY DEF ChainInv
    <3>4. \A n \in 1..Len(chain[k]) :
            /\ phase'[chain[k][n]] \in InLine
            /\ n > 1 => phase'[chain[k][n]] = "chained"
      BY <3>2, <3>3 DEF InLine
    <3> QED
      BY <3>1, <3>2, <3>4 DEF ChainInv
  <2> QED
    BY <2>1, <2>2
<1> QED
  BY <1>1, <1>2, <1>3

\* release preserves the invariant: with nobody waiting a slot becomes free,
\* otherwise the first waiter takes it over and the count stays.
LEMMA ReleaseStep ==
  ASSUME QueueInv, NEW j \in Jobs, phase[j] = "running",
         ReleaseSlot(j), Dequeue(j), up' = up
  PROVE  QueueInv'
<1> USE DEF QueueInv
<1>0. waiters \in Seq(Jobs) /\ phase \in [Jobs -> Phases] /\ active \in Nat
  BY DEF TypeOK
<1>1. CASE waiters = <<>>
  <2>0. /\ active' = active - 1 /\ waiters' = waiters
        /\ phase' = [phase EXCEPT ![j] = "settled"]
    BY <1>1 DEF ReleaseSlot
  <2>1. phase' \in [Jobs -> Phases] /\ phase'[j] = "settled"
    BY <2>0, <1>0 DEF Phases
  <2>2. \A i \in Jobs \ {j} : phase'[i] = phase[i]
    BY <2>0, <1>0
  <2>3. chain' \in [Keys -> Seq(Jobs)] /\ TurnInv' /\ ChainInv'
    BY <2>1, <2>2, LeaveChain
  <2>4. WaitersInv'
    BY <2>0, <1>1 DEF WaitersInv
  <2>5. Holders' = Holders \ {j} /\ j \in Holders
    BY <2>1, <2>2 DEF Holders
  <2>6. SlotInv' /\ active' \in Nat
    <3>1. IsFiniteSet(Holders) /\ active = Cardinality(Holders) /\ active <= MaxConcurrent
      BY DEF SlotInv
    <3>2. /\ IsFiniteSet(Holders \ {j})
          /\ Cardinality(Holders \ {j}) = Cardinality(Holders) - 1
          /\ Cardinality(Holders) \in Nat
      BY <2>5, <3>1, HolderRemoved
    <3>3. active >= 1
      BY <2>5, <3>1, <1>0, FS_EmptySet, FS_CardinalityType
    <3>4. IsFiniteSet(Holders') /\ active' = Cardinality(Holders')
      BY <2>0, <2>5, <3>1, <3>2
    <3> QED
      BY <2>0, <3>1, <3>3, <3>4, <1>0, <1>1 DEF SlotInv
  <2> QED
    BY <2>0, <2>1, <2>3, <2>4, <2>6, <1>0 DEF TypeOK
<1>2. CASE waiters # <<>>
  <2> DEFINE w == Head(waiters)
  <2>0. /\ active' = active /\ waiters' = Tail(waiters)
        /\ phase' = [phase EXCEPT ![j] = "settled", ![w] = "granted"]
    BY <1>2, <1>0 DEF ReleaseSlot
  <2>1. /\ w \in Jobs /\ w = waiters[1] /\ Len(waiters) >= 1
        /\ Len(waiters') = Len(waiters) - 1 /\ waiters' \in Seq(Jobs)
        /\ \A n \in 1..Len(waiters') : waiters'[n] = waiters[n + 1]
    BY <2>0, <1>0, <1>2, TailShift
  <2>2. phase[w] = "waiting" /\ w # j
    BY <2>1 DEF WaitersInv
  <2>3. /\ phase' \in [Jobs -> Phases] /\ phase'[j] = "settled"
        /\ phase'[w] = "granted"
        /\ \A i \in Jobs \ {j, w} : phase'[i] = phase[i]
    BY <2>0, <2>1, <2>2, <1>0 DEF Phases
  <2>4. chain' \in [Keys -> Seq(Jobs)] /\ TurnInv' /\ ChainInv'
    <3>1. \A i \in Jobs \ {j} : \/ phase'[i] = phase[i]
                                \/ phase[i] = "waiting" /\ phase'[i] = "granted"
      BY <2>2, <2>3
    <3> QED
      BY <3>1, <2>3, LeaveChain
  <2>5. WaitersInv'
    <3>1. \A n \in 1..Len(waiters') :
            /\ n + 1 \in 1..Len(waiters) /\ waiters[n + 1] \in Jobs
            /\ waiters[n + 1] # w /\ phase[waiters[n + 1]] = "waiting"
      BY <2>1, <1>0 DEF WaitersInv
    <3>2. \A n \in 1..Len(waiters') : phase'[waiters'[n]] = "waiting"
      BY <3>1, <2>1, <2>3
    <3>3. \A m, n \in 1..Len(waiters') : waiters'[m] = waiters'[n] => m = n
      <4> TAKE m, n \in 1..Len(waiters')
      <4> HAVE waiters'[m] = waiters'[n]
      <4>1. m + 1 = n + 1
        BY <3>1, <2>1 DEF WaitersInv
      <4> QED
        BY <4>1
    <3> QED
      BY <3>2, <3>3 DEF WaitersInv
  <2>6. Holders' = (Holders \ {j}) \union {w} /\ j \in Holders /\ w \notin Holders \ {j}
    BY <2>1, <2>2, <2>3 DEF Holders
  <2>7. SlotInv'
    <3>1. /\ IsFiniteSet(Holders \ {j})
          /\ Cardinality(Holders \ {j}) = Cardinality(Holders) - 1
          /\ Cardinality(Holders) \in Nat
      BY <2>6, HolderRemoved DEF SlotInv
    <3>2. /\ IsFiniteSet(Holders')
          /\ Cardinality(Holders') = (Cardinality(Holders) - 1) + 1
      BY <3>1, <2>6, HolderAdded
    <3> QED
      BY <3>1, <3>2, <2>0, <1>0, <1>2 DEF SlotInv
  <2> QED
    BY <2>0, <2>1, <2>3, <2>4, <2>5, <2>7, <1>0 DEF TypeOK
<1> QED
  BY <1>1, <1>2

\* The end of the process empties the queue.
LEMMA RejectUnhandledStep ==
  ASSUME QueueInv, NEW j \in Jobs, RejectUnhandled(j)
  PROVE  QueueInv'
<1> USE DEF QueueInv
<1>0. /\ chain' = [k \in Keys |-> <<>>] /\ waiters' = <<>> /\ active' = 0
      /\ up' = FALSE
      /\ phase' = [i \in Jobs |->
                     IF i = j THEN "settled"
                     ELSE IF phase[i] \in {"new", "settled"} THEN phase[i] ELSE "lost"]
  BY DEF RejectUnhandled
<1>1. TypeOK'
  <2>1. \A i \in Jobs :
          (IF i = j THEN "settled"
           ELSE IF phase[i] \in {"new", "settled"} THEN phase[i] ELSE "lost") \in Phases
    BY DEF Phases
  <2>2. phase' \in [Jobs -> Phases]
    BY <1>0, <2>1
  <2>3. chain' \in [Keys -> Seq(Jobs)] /\ waiters' \in Seq(Jobs) /\ active' \in Nat
    BY <1>0
  <2> QED
    BY <1>0, <2>2, <2>3 DEF TypeOK
<1>2. \A i \in Jobs : phase'[i] \in {"new", "settled", "lost"}
  BY <1>0
<1>3. TurnInv' /\ ChainInv' /\ WaitersInv'
  BY <1>0, <1>2 DEF TurnInv, ChainInv, WaitersInv
<1>4. Holders' = {}
  BY <1>2 DEF Holders
<1>5. SlotInv'
  BY <1>0, <1>4, FS_EmptySet DEF SlotInv
<1> QED
  BY <1>1, <1>3, <1>5

(***************************************************************************)
(* The theorems.                                                            *)
(***************************************************************************)

\* The invariant is inductive: whatever promise callback runs next, the chains,
\* the waiters and the slot counter of build-queue.ts still fit together.
THEOREM QueueInvariant == Spec => []QueueInv
<1>1. Init => QueueInv
  BY InitQueueInv
<1>2. QueueInv /\ [Next]_vars => QueueInv'
  <2> SUFFICES ASSUME QueueInv, [Next]_vars PROVE QueueInv'
    OBVIOUS
  <2>1. ASSUME NEW j \in Jobs, Enqueue(j) PROVE QueueInv'
    BY <2>1, EnqueueStep
  <2>2. ASSUME NEW j \in Jobs, Acquire(j) PROVE QueueInv'
    BY <2>2, AcquireStep
  <2>3. ASSUME NEW j \in Jobs, Run(j) PROVE QueueInv'
    BY <2>3, RunStep
  <2>4. ASSUME NEW j \in Jobs, Resolve(j) PROVE QueueInv'
    BY <2>4, ReleaseStep DEF Resolve
  <2>5. ASSUME NEW j \in Jobs, RejectHandled(j) PROVE QueueInv'
    BY <2>5, ReleaseStep DEF RejectHandled
  <2>6. ASSUME NEW j \in Jobs, RejectUnhandled(j) PROVE QueueInv'
    BY <2>6, RejectUnhandledStep
  <2>7. CASE UNCHANGED vars
    BY <2>7 DEF vars, QueueInv, TypeOK, TurnInv, ItsTurn, ChainInv, WaitersInv,
                SlotInv, Holders
  <2> QED
    BY <2>1, <2>2, <2>3, <2>4, <2>5, <2>6, <2>7 DEF Next
<1> QED
  BY <1>1, <1>2, PTL DEF Spec

\* Every variable keeps its type, the slot counter never becomes negative.
THEOREM TypeCorrect == Spec => []TypeOK
BY QueueInvariant, PTL DEF QueueInv

\* Two jobs of one key are never running together.
THEOREM SerialPerKey == Spec => []OneRunnerPerKey
<1>1. QueueInv => OneRunnerPerKey
  BY DEF QueueInv, TurnInv, ItsTurn, OneRunnerPerKey, Running
<1> QED
  BY <1>1, QueueInvariant, PTL

\* There are never more running jobs than the configured limit.
THEOREM BoundedConcurrency == Spec => []CapRespected
<1>1. QueueInv => CapRespected
  <2> SUFFICES ASSUME QueueInv PROVE CapRespected
    OBVIOUS
  <2>1. Running \subseteq Holders /\ IsFiniteSet(Holders)
    BY DEF Running, Holders, QueueInv, SlotInv
  <2>2. /\ IsFiniteSet(Running) /\ Cardinality(Running) <= Cardinality(Holders)
        /\ Cardinality(Running) \in Nat /\ Cardinality(Holders) \in Nat
    BY <2>1, FS_Subset, FS_CardinalityType
  <2> QED
    BY <2>2 DEF CapRespected, QueueInv, SlotInv, TypeOK
<1> QED
  BY <1>1, QueueInvariant, PTL

\* The counter agrees with the jobs that hold a slot, and nobody waits while a
\* slot is free.
THEOREM NoIdleSlot == Spec => []SlotsAccounted
<1>1. QueueInv => SlotsAccounted
  BY DEF QueueInv, SlotInv, SlotsAccounted
<1> QED
  BY <1>1, QueueInvariant, PTL

\* No step lets a job overtake the first waiter.
THEOREM FirstWaiterFirst == Spec => NoBarging
<1>1. QueueInv /\ [Next]_vars =>
        [\A j \in Jobs :
           (phase[j] \in {"chained", "waiting"} /\ phase'[j] = "granted"
              /\ waiters # <<>>) => j = Head(waiters)]_vars
  <2> SUFFICES ASSUME QueueInv, Next, waiters # <<>>, NEW j \in Jobs,
                      phase[j] \in {"chained", "waiting"}, phase'[j] = "granted"
               PROVE  j = Head(waiters)
    BY DEF vars
  <2>0. phase \in [Jobs -> Phases] /\ active = MaxConcurrent
    BY DEF QueueInv, TypeOK, SlotInv
  <2>1. ASSUME NEW i \in Jobs, Enqueue(i) PROVE j = Head(waiters)
    BY <2>1, <2>0 DEF Enqueue
  <2>2. ASSUME NEW i \in Jobs, Acquire(i) PROVE j = Head(waiters)
    BY <2>2, <2>0 DEF Acquire, TakeSlot, Park
  <2>3. ASSUME NEW i \in Jobs, Run(i) PROVE j = Head(waiters)
    BY <2>3, <2>0 DEF Run
  <2>4. ASSUME NEW i \in Jobs, ReleaseSlot(i) PROVE j = Head(waiters)
    BY <2>4, <2>0 DEF ReleaseSlot
  <2>5. ASSUME NEW i \in Jobs, RejectUnhandled(i) PROVE j = Head(waiters)
    <3>1. phase'[j] \in {phase[j], "settled", "lost"}
      BY <2>5 DEF RejectUnhandled
    <3> QED
      BY <3>1
  <2> QED
    BY <2>1, <2>2, <2>3, <2>4, <2>5 DEF Next, Resolve, RejectHandled
<1> QED
  BY <1>1, QueueInvariant, PTL DEF Spec, NoBarging

(***************************************************************************)
(* The queue implements the abstract executor: enqueue submits, the first   *)
(* line of a task begins it, its settling ends it; everything else the code *)
(* does is invisible to the caller.                                         *)
(***************************************************************************)
\* Starting a granted job finds fewer than MaxConcurrent running.
LEMMA RoomToRun ==
  ASSUME QueueInv, NEW j \in Jobs, phase[j] = "granted"
  PROVE  Cardinality(Running) < MaxConcurrent
<1>1. Running \subseteq Holders \ {j} /\ j \in Holders /\ IsFiniteSet(Holders)
  BY DEF Running, Holders, QueueInv, SlotInv
<1>2. /\ IsFiniteSet(Holders \ {j})
      /\ Cardinality(Holders \ {j}) = Cardinality(Holders) - 1
      /\ Cardinality(Holders) \in Nat /\ Cardinality(Holders) > 0
  BY <1>1, HolderRemoved
<1>3. /\ IsFiniteSet(Running) /\ Cardinality(Running) \in Nat
      /\ Cardinality(Running) <= Cardinality(Holders \ {j})
  BY <1>1, <1>2, FS_Subset, FS_CardinalityType
<1> QED
  BY <1>2, <1>3 DEF QueueInv, SlotInv, TypeOK

\* The instance counts with the same Cardinality.
LEMMA SameCardinality == ASSUME NEW S PROVE Abs!Cardinality(S) = Cardinality(S)
BY DEF Abs!Cardinality, Cardinality

\* Every behaviour of the queue is a behaviour of the abstract executor: serial
\* per key, in order, bounded.  (Its fairness is left to the model checker.)
THEOREM ImplementsExecutor == Spec => Abs!Safety
<1>1. Init => Abs!AbsInit
  BY DEF Init, Abs!AbsInit, Running
<1>2. QueueInv /\ [Next]_vars => [Abs!AbsNext]_(Abs!absVars)
  <2> SUFFICES ASSUME QueueInv, [Next]_vars PROVE [Abs!AbsNext]_(Abs!absVars)
    OBVIOUS
  <2> USE DEF Abs!AbsNext, Abs!absVars
  <2>0. phase \in [Jobs -> Phases]
    BY DEF QueueInv, TypeOK
  <2>1. ASSUME NEW j \in Jobs, Enqueue(j) PROVE Abs!Submit(j)
    BY <2>1, <2>0 DEF Enqueue, Abs!Submit, Running
  <2>2. ASSUME NEW j \in Jobs, Acquire(j) PROVE UNCHANGED Abs!absVars
    BY <2>2, <2>0 DEF Acquire, TakeSlot, Park, Running
  <2>3. ASSUME NEW j \in Jobs, Run(j) PROVE Abs!Begin(j)
    <3>1. Running' = Running \union {j} /\ j \notin Running
      BY <2>3, <2>0 DEF Run, Running
    <3>2. ItsTurn(j) /\ Cardinality(Running) < MaxConcurrent
      BY <2>3, RoomToRun DEF Run, QueueInv, TurnInv
    <3> QED
      BY <2>3, <3>1, <3>2, SameCardinality DEF Run, ItsTurn, Abs!Begin, Abs!First
  <2>4. ASSUME NEW j \in Jobs, phase[j] = "running", up, ReleaseSlot(j), Dequeue(j), up' = up
        PROVE  Abs!End(j)
    <3>1. Running' = Running \ {j} /\ j \in Running
      <4>1. CASE waiters = <<>>
        BY <2>4, <4>1, <2>0 DEF ReleaseSlot, Running
      <4>2. CASE waiters # <<>>
        <5>1. phase[Head(waiters)] = "waiting" /\ Head(waiters) \in Jobs
          BY <4>2, TailShift DEF QueueInv, TypeOK, WaitersInv
        <5> QED
          BY <2>4, <4>2, <5>1, <2>0 DEF ReleaseSlot, Running
      <4> QED
        BY <4>1, <4>2
    <3> QED
      BY <2>4, <3>1 DEF Dequeue, Abs!End
  <2>5. ASSUME NEW j \in Jobs, RejectUnhandled(j) PROVE Abs!Die
    <3>1. \A i \in Jobs : phase'[i] # "running"
      BY <2>5 DEF RejectUnhandled
    <3>2. Running' = {}
      BY <3>1 DEF Running
    <3> QED
      BY <2>5, <3>2 DEF RejectUnhandled, Abs!Die
  <2>6. CASE UNCHANGED vars
    BY <2>6 DEF vars, Running
  <2> QED
    BY <2>1, <2>2, <2>3, <2>4, <2>5, <2>6 DEF Next, Resolve, RejectHandled
<1> QED
  BY <1>1, <1>2, QueueInvariant, PTL DEF Spec, Abs!Safety
=============================================================================
