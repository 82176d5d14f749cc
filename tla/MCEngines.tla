--------------------------------- MODULE MCEngines ---------------------------------
(***************************************************************************)
(* Engines on small sets, given in the configuration.                        *)
(***************************************************************************)
EXTENDS Engines, TLC

\* A compose file with one routed service and one with state.
Layouts == {{}, {"store"}, {"web", "store"}}

(* Executions and start requests are interchangeable, and so are releases, which take the same ids. *)
Symmetry == Permutations(Runs) \cup Permutations(Callers)
=============================================================================
