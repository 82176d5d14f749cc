---------------------------- MODULE VolumeHelper ----------------------------
(***************************************************************************)
(* VolumeHelperService: one warm helper container per volume of a deployment, *)
(* shared by the file operations on it, created on demand and reaped when      *)
(* idle.  The process is single-threaded: what happens between two awaits is    *)
(* one step.                                                                 *)
(*                                                                         *)
(* Operations are numbered in the order they begin.  A cache entry is an object  *)
(* that an operation creates and keeps hold of, and so is the container it        *)
(* creates: both are named by the operation.  `helpers` says which entry the key  *)
(* has now.                                                                   *)
(***************************************************************************)
EXTENDS Naturals, Integers, FiniteSets

CONSTANTS
  MaxOps,      \* bound: file operations, calls of withHelper or beginStream
  Volumes,     \* volumes of the deployment
  Named,       \* Named[v]: volumes whose helper the daemon's name filter finds for v's name
  MaxDeaths,   \* bound: helpers that die or are removed by somebody else
  None

Ops == 1..MaxOps

\* What the proofs take for granted: None is no operation and no volume.
HelperAssumption ==
  /\ MaxOps \in Nat /\ MaxDeaths \in Nat
  /\ None \notin Ops \cup Volumes /\ Named \in [Volumes -> SUBSET Volumes]

VARIABLES
  op,       \* per operation: where it is, its volume, its container, and what it waits for
  entry,    \* the cache entry an operation has created
  helpers,  \* per volume: the entry in the cache
  con,      \* the container an operation has created: run state and volume
  reaping,  \* the container the reaper is removing
  deaths    \* helpers that have died

vars == <<op, entry, helpers, con, reaping, deaths>>

NoOp == [at |-> "new", vol |-> None, con |-> None, on |-> None, found |-> {}]
NoEntry == [con |-> None, acquiring |-> FALSE, inFlight |-> 0, idle |-> FALSE]
Creating == {"clear", "remove", "create", "start"}
Ended == {"done", "failed"}

TypeOK ==
  /\ op \in [Ops -> [at : Creating \cup Ended \cup {"new", "inspect", "alive", "dead", "join", "started", "use"},
                     vol : Volumes \cup {None}, con : Ops \cup {None},
                     on : Ops \cup {None}, found : SUBSET Ops]]
  /\ entry \in [Ops -> [con : Ops \cup {None}, acquiring : BOOLEAN, inFlight : Int, idle : BOOLEAN]]
  /\ helpers \in [Volumes -> Ops \cup {None}]
  /\ \A v \in Volumes : helpers[v] # None => op[helpers[v]].vol = v
  /\ con \in [Ops -> [st : {"absent", "created", "running", "removed"}, vol : Volumes \cup {None}]]
  /\ reaping \in Ops \cup {None}
  /\ deaths \in 0..MaxDeaths

Init ==
  /\ op = [o \in Ops |-> NoOp] /\ entry = [o \in Ops |-> NoEntry]
  /\ helpers = [v \in Volumes |-> None]
  /\ con = [c \in Ops |-> [st |-> "absent", vol |-> None]]
  /\ reaping = None /\ deaths = 0

-----------------------------------------------------------------------------
Present == {c \in Ops : con[c].st \in {"created", "running"}}
Removed(S) == [c \in Ops |-> IF c \in S \cap Present THEN [con[c] EXCEPT !.st = "removed"] ELSE con[c]]
Users(v) == {o \in Ops : op[o].at = "use" /\ op[o].vol = v}
outside == <<reaping, deaths>>

\* acquire, cache miss: an entry that is being acquired, and create begins.
NewEntry(o, v) ==
  /\ helpers' = [helpers EXCEPT ![v] = o]
  /\ entry' = [entry EXCEPT ![o] = [NoEntry EXCEPT !.acquiring = TRUE]]
  /\ op' = [op EXCEPT ![o] = [NoOp EXCEPT !.at = "clear", !.vol = v]]

\* acquire: share the creation in flight, check the cached container, or create one.
Begin(o) ==
  /\ op[o].at = "new" /\ \A q \in 1..(o - 1) : op[q].at # "new"
  /\ \E v \in Volumes :
       LET e == helpers[v] IN
       \/ /\ e = None
          /\ NewEntry(o, v)
       \/ /\ e # None
          /\ op' = [op EXCEPT ![o] = [NoOp EXCEPT !.vol = v, !.on = e,
                       !.at = IF entry[e].acquiring THEN "join" ELSE "inspect", !.con = entry[e].con]]
          /\ UNCHANGED <<entry, helpers>>
  /\ UNCHANGED <<con, outside>>

\* isAlive: the daemon's answer, which the process reads later.
Inspect(o) ==
  /\ op[o].at = "inspect"
  /\ op' = [op EXCEPT ![o].at = IF con[op[o].con].st = "running" THEN "alive" ELSE "dead"]
  /\ UNCHANGED <<entry, helpers, con, outside>>

\* Operations S get container c: each counts itself on the entry the key has then.
Use(S, v, c, ents) ==
  LET e == helpers[v] IN
  /\ op' = [o \in Ops |-> IF o \in S THEN [op[o] EXCEPT !.at = "use", !.con = c, !.on = None, !.found = {}] ELSE op[o]]
  /\ entry' = IF e = None THEN ents
              ELSE [ents EXCEPT ![e].inFlight = @ + Cardinality(S), ![e].idle = FALSE]
  /\ UNCHANGED <<helpers, con, outside>>

Alive(o) ==
  /\ op[o].at = "alive"
  /\ Use({o}, op[o].vol, op[o].con, [entry EXCEPT ![op[o].on].idle = FALSE])

\* The key is cleared whatever entry it has by now, then the caller creates its own.
Dead(o) ==
  /\ op[o].at = "dead"
  /\ NewEntry(o, op[o].vol)
  /\ UNCHANGED <<con, outside>>

(***************************************************************************)
(* create: image, removeByName, createContainer, start.                      *)
(***************************************************************************)
Joiners(o) == {q \in Ops : op[q].at = "join" /\ op[q].on = o}

\* Mutant: the creation that failed is told to its caller only.
RejectAlone(o) ==
  /\ helpers' = [helpers EXCEPT ![op[o].vol] = None]
  /\ op' = [op EXCEPT ![o].at = "failed"]
  /\ UNCHANGED <<entry, con, outside>>

\* Every caller that shares the creation is rejected; the key loses its entry,
\* whichever that is.
Reject(o) ==
  /\ helpers' = [helpers EXCEPT ![op[o].vol] = None]
  /\ op' = [q \in Ops |-> IF q \in {o} \cup Joiners(o)
                         THEN [op[q] EXCEPT !.at = "failed", !.on = None, !.found = {}] ELSE op[q]]
  /\ UNCHANGED <<entry, con, outside>>

\* ensureImage may fail; then list the containers of this name.
Clear(o) ==
  /\ op[o].at = "clear"
  /\ \/ /\ op' = [op EXCEPT ![o].at = "remove",
                            ![o].found = {c \in Present : con[c].vol \in Named[op[o].vol]}]
        /\ UNCHANGED <<entry, helpers, con, outside>>
     \/ Reject(o)

RemoveFound(o) ==
  /\ op[o].at = "remove"
  /\ con' = Removed(op[o].found)
  /\ op' = [op EXCEPT ![o].at = "create", ![o].found = {}]
  /\ UNCHANGED <<entry, helpers, outside>>

\* The daemon refuses a name that is taken.
Create(o) ==
  /\ op[o].at = "create"
  /\ IF \E c \in Present : con[c].vol = op[o].vol THEN Reject(o)
     ELSE /\ con' = [con EXCEPT ![o] = [st |-> "created", vol |-> op[o].vol]]
          /\ op' = [op EXCEPT ![o].at = "start", ![o].con = o]
          /\ UNCHANGED <<entry, helpers, outside>>

StartContainer(o) ==
  /\ op[o].at = "start"
  /\ \/ /\ con[o].st = "created"
        /\ con' = [con EXCEPT ![o].st = "running"]
        /\ op' = [op EXCEPT ![o].at = "started"]
        /\ UNCHANGED <<entry, helpers, outside>>
     \/ Reject(o)

\* The creator keeps its entry's object, cached or not; all who share it go on.
Started(o) ==
  /\ op[o].at = "started"
  /\ Use({o} \cup Joiners(o), op[o].vol, o,
         [entry EXCEPT ![o] = [@ EXCEPT !.con = o, !.acquiring = FALSE, !.idle = FALSE]])

-----------------------------------------------------------------------------
\* Mutant: an operation that fails does not give its count back.
FinishIfGood(o) ==
  LET e == helpers[op[o].vol]
      good == con[op[o].con].st = "running"
  IN
  /\ op[o].at = "use"
  /\ entry' = IF e = None \/ ~good THEN entry ELSE [entry EXCEPT ![e].inFlight = @ - 1, ![e].idle = FALSE]
  /\ op' = [op EXCEPT ![o].at = IF good THEN "done" ELSE "failed"]
  /\ UNCHANGED <<helpers, con, outside>>

\* The operation (or its stream) ends, well or not: the count of the entry the key
\* has now goes down, if there is one.
Finish(o) ==
  LET e == helpers[op[o].vol] IN
  /\ op[o].at = "use"
  /\ entry' = IF e = None THEN entry ELSE [entry EXCEPT ![e].inFlight = @ - 1, ![e].idle = FALSE]
  /\ op' = [op EXCEPT ![o].at = IF con[op[o].con].st = "running" THEN "done" ELSE "failed"]
  /\ UNCHANGED <<helpers, con, outside>>

\* reap: an entry that is idle and not busy leaves the cache; then its container is removed.
Reap(v) ==
  LET e == helpers[v] IN
  /\ reaping = None /\ e # None
  /\ ~entry[e].acquiring /\ entry[e].inFlight <= 0 /\ entry[e].idle
  /\ helpers' = [helpers EXCEPT ![v] = None] /\ reaping' = entry[e].con
  /\ UNCHANGED <<op, entry, con, deaths>>

ReapRemove ==
  /\ reaping # None
  /\ con' = Removed({reaping}) /\ reaping' = None
  /\ UNCHANGED <<op, entry, helpers, deaths>>

\* The idle period passes with no sign of life from the operations that run.
Age ==
  /\ entry' = [o \in Ops |-> [entry[o] EXCEPT !.idle = @ \/ \E v \in Volumes : helpers[v] = o]]
  /\ UNCHANGED <<op, helpers, con, reaping, deaths>>

\* A helper dies, or a deploy removes it: it carries the deployment's owner label.
Die ==
  /\ deaths < MaxDeaths /\ deaths' = deaths + 1
  /\ \E c \in Present : con' = Removed({c})
  /\ UNCHANGED <<op, entry, helpers, reaping>>

Acquire(o) == Begin(o) \/ Inspect(o) \/ Alive(o) \/ Dead(o)
MakeHelper(o) == Clear(o) \/ RemoveFound(o) \/ Create(o) \/ StartContainer(o) \/ Started(o)
Next == \/ \E o \in Ops : Acquire(o) \/ MakeHelper(o) \/ Finish(o)
        \/ \E v \in Volumes : Reap(v)
        \/ ReapRemove \/ Age \/ Die
Spec == Init /\ [][Next]_vars

\* Awaits end (a daemon's answer, an operation), and the reaper's interval goes on.
Fairness ==
  /\ \A o \in Ops : WF_vars(Inspect(o) \/ Alive(o) \/ Dead(o) \/ MakeHelper(o) \/ Finish(o))
  /\ \A v \in Volumes : WF_vars(Reap(v))
  /\ WF_vars(ReapRemove) /\ WF_vars(Age)
FairSpec == Spec /\ Fairness

-----------------------------------------------------------------------------
(***************************************************************************)
(* Properties.                                                              *)
(***************************************************************************)
\* No count is left behind: a cached helper counts no more operations than run on its
\* volume, so once they end the reaper may take it.
BusyMeansUsed ==
  \A v \in Volumes : helpers[v] # None => entry[helpers[v]].inFlight <= Cardinality(Users(v))

\* A cached entry that says it is being acquired has a creation behind it: nobody waits
\* for, and nobody is answered by, a creation that has ended.
AcquiringIsReal ==
  \A v \in Volumes : LET e == helpers[v] IN
     e # None /\ entry[e].acquiring => op[e].at \in Creating \cup {"started"}

\* An operation works in the container of its own volume.
OwnVolume == \A v \in Volumes : \A o \in Users(v) : con[op[o].con].vol = v

\* Counts, creations and containers are what the cache says they are.
HelpersCount == TypeOK /\ BusyMeansUsed /\ AcquiringIsReal /\ OwnVolume

\* Every operation that has begun ends, however many share a creation that fails.
OpsEnd == \A o \in Ops : op[o].at # "new" ~> op[o].at \in Ended

\* A cached helper leaves the cache once nobody uses its volume any more.
IdleIsReaped ==
  \A v \in Volumes :
    (\A o \in Ops : op[o].at \in Ended \cup {"new"}) /\ helpers[v] # None
      ~> helpers[v] = None \/ Users(v) # {}

\* Known counterexamples (see README.md).
\* volume-helper.service.ts:36: "the reaper never kills a busy one".
ReaperSparesBusy ==
  [][\A c \in Ops : c = reaping /\ reaping' = None /\ con[c].st = "running"
       => ~\E o \in Ops : op[o].at = "use" /\ op[o].con = c]_vars

\* volume-helper.service.ts:190: "Concurrent callers share the in-flight create".
OneCreation == \A o, q \in Ops :
  op[o].at \in Creating /\ op[q].at \in Creating /\ op[o].vol = op[q].vol => o = q

\* A helper that runs when nothing is under way is in the cache, so that the reaper sees it.
HelperTracked ==
  (\A o \in Ops : op[o].at \in Ended \cup {"new"}) /\ reaping = None =>
    \A o \in Ops : con[o].st = "running" => \E v \in Volumes : helpers[v] # None /\ entry[helpers[v]].con = o
=============================================================================
