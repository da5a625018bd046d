------------------------- MODULE ReliableOrderedStream -------------------------
(***************************************************************************)
(* What the RakNet layer promises for a packet of reliability               *)
(* reliabilityReliableOrdered (include/raknet/packet.h, the comment of that *)
(* constant): "every packet sent arrives, arrives in the right order and is *)
(* not duplicated".  The network, the datagrams and the retransmissions are *)
(* hidden: one side appends messages to a history and the other side takes  *)
(* them out, some at a time, never out of order and never twice.            *)
(***************************************************************************)
EXTENDS Naturals, Sequences

CONSTANT Message

VARIABLES
    written,     \* the messages given to the stream, in the order they were given
    fetched      \* the messages the other side took out, in that order

vars == <<written, fetched>>

Init ==
    /\ written = <<>>
    /\ fetched = <<>>

Write(m) ==
    /\ written' = Append(written, m)
    /\ UNCHANGED fetched

\* One datagram may fill a gap, so several messages can become ready at once.
Deliver ==
    /\ \E n \in Len(fetched)+1 .. Len(written) : fetched' = SubSeq(written, 1, n)
    /\ UNCHANGED written

Next == (\E m \in Message : Write(m)) \/ Deliver

Spec == Init /\ [][Next]_vars

================================================================================
