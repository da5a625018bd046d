--------------------------- MODULE MC_RaknetHandshake --------------------------
(***************************************************************************)
(* RaknetHandshake for TLC.  The sizes of the configurations are scaled: one *)
(* unit is some 28 bytes, so a server adds 1 to a probe, a probe is 2 smaller *)
(* than the one before, and 32 units are where 16 bits wrap.                 *)
(***************************************************************************)
EXTENDS RaknetHandshake
================================================================================
