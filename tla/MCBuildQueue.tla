---------------------------- MODULE MCBuildQueue ----------------------------
(***************************************************************************)
(* Queues on small sets.                                                     *)
(***************************************************************************)
EXTENDS Queues, TLC

CONSTANTS data, data2

\* Two slots and four keys, so that two jobs can wait at the same time and be
\* woken in the wrong order; two keys have a second job in their line.
MCKeys == {"a", "b", "c", "d"}
MCJobs == {"a1", "a2", "b1", "b2", "c1", "d1"}
MCKeyOf == [j \in MCJobs |->
              CASE j \in {"a1", "a2"} -> "a"
                [] j \in {"b1", "b2"} -> "b"
                [] j = "c1"           -> "c"
                [] j = "d1"           -> "d"]

\* Two volumes of one deployment; the name of one is a prefix of the other's.
NamePrefix == data :> {data, data2} @@ data2 :> {data2}
=============================================================================
