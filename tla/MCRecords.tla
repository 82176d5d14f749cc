--------------------------------- MODULE MCRecords ---------------------------------
(***************************************************************************)
(* Records on small sets, given in the configuration.                        *)
(***************************************************************************)
EXTENDS Records, TLC

\* A folder d with a file f in it, and a file f next to it.
StartVolume == <<"d">> :> "<dir>" @@ <<"f">> :> "x" @@ <<"d", "f">> :> "y"
=============================================================================
