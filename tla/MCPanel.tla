---------------------------------- MODULE MCPanel ----------------------------------
(* Panel: two requests of one tab, and one of another tab. *)
EXTENDS Panel, TLC

TabOfCaller == "f1" :> "A" @@ "f2" :> "A" @@ "g" :> "B"

=============================================================================
