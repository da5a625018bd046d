--------------------------- MODULE MC_ConnectionLocks --------------------------
(* ConnectionLocks for TLC: its only constant is the number of socket errors. *)
EXTENDS ConnectionLocks
================================================================================
