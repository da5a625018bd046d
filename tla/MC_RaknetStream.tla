---------------------------- MODULE MC_RaknetStream ----------------------------
(***************************************************************************)
(* Instances of RaknetStream for TLC: a message of one chunk and messages   *)
(* of two, whose chunks are all different, so that a chunk that ends up in  *)
(* another message is seen.                                                 *)
(***************************************************************************)
EXTENDS RaknetStream

CONSTANTS a, b, c, d, e, bye

MCChunk == {a, b, c, d, e, bye}
MCBye == <<bye>>
MixedMessages == {<<a>>, <<b, c>>}
SplitMessage == {<<b, c>>}
MCThrow == {<<a>>}
NoneThrow == {}
================================================================================
