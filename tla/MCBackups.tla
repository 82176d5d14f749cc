------------------------------ MODULE MCBackups ------------------------------
(* Three operations on one volume that two containers mount. *)
EXTENDS Backups
CONSTANTS c1, c2
=============================================================================
