--------------------------- MODULE MC_ClientConnect ----------------------------
(* ClientConnect for TLC: what the server may answer to a Login.            *)
EXTENDS ClientConnect

MCEveryReply == {"secure", "plain", "refuse", "forge"}
================================================================================
