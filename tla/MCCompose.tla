------------------------------ MODULE MCCompose ------------------------------
(* Instances of ComposeRelease: one routed service and one with state.        *)
EXTENDS ComposeRelease, TLC

CONSTANTS r1, r2, r3, web, store, c1

Both == {{}, {store}, {web, store}}
Eligible1 == {{store}}
Sym == Permutations(Releases)
=============================================================================
