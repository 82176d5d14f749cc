----------------------------- MODULE MCLogStream -----------------------------
(* Two consoles on a build of three lines in a window of two. *)
EXTENDS LogStream
CONSTANTS v1, v2
=============================================================================
