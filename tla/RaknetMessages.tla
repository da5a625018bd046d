----------------------------- MODULE RaknetMessages ----------------------------
(***************************************************************************)
(* The messages of RakNet (message.h) and what datagrams hold (packet.h,     *)
(* packet.cpp), as bytes: the messages of the handshake, the packet around a *)
(* message or a fragment of one, and the acknowledgements.                   *)
(*                                                                          *)
(* Each structure has a Write and a Read of its own in the code; they name   *)
(* the same fields in the same order except where both are given below.      *)
(***************************************************************************)
EXTENDS WireCodec, FiniteSets

CONSTANT MaxAck         \* maxAcknowledgementPackets

ASSUME MaxAckAssumption == MaxAck \in Nat

--------------------------------------------------------------------------------
(* message.h                                                                *)

ConnectedPing == 0
OpenConnectionRequest1 == 5
OpenConnectionReply1 == 6
UnconnectedPing == 1
OpenConnectionRequest2 == 7
OpenConnectionReply2 == 8
ConnectedPong == 3
ConnectionRequest == 9
ConnectionRequestAccepted == 16
UnconnectedPong == 28
NewIncomingConnection == 19
IncompatibleProtocolVersion == 25

Messages == {ConnectedPing, UnconnectedPing, ConnectedPong, UnconnectedPong,
             OpenConnectionRequest1, OpenConnectionReply1, OpenConnectionRequest2,
             OpenConnectionReply2, ConnectionRequest, ConnectionRequestAccepted,
             NewIncomingConnection, IncompatibleProtocolVersion}

Magic == Group(<<"U64BE", "U64BE">>)
MagicValue == <<<<<<0, 255, 255, 0, 254, 254, 254, 254>>,
                  <<253, 253, 253, 253, 18, 52, 86, 120>>>>>>
Addresses == Group([i \in 1 .. 20 |-> "Address"])

\* The fields after the id, of the messages before there is a connection.
OfflineLayout(id) ==
    CASE id = UnconnectedPing -> <<One("U64BE"), Magic, One("U64BE")>>
      [] id = UnconnectedPong ->
           <<One("U64BE"), One("U64BE"), Magic, Many("U16BE", <<"U8">>)>>
      [] id = OpenConnectionRequest1 -> <<Magic, One("U8")>>
      [] id = IncompatibleProtocolVersion -> <<Magic, One("U8"), One("U64BE")>>
      [] id = OpenConnectionRequest2 ->
           <<Magic, One("Address"), One("U16BE"), One("U64BE")>>
      [] id = OpenConnectionReply1 -> <<Magic, One("U64BE"), One("IsOne"), One("U16BE")>>
      [] id = OpenConnectionReply2 ->
           <<Magic, One("U64BE"), One("Address"), One("U16BE"), One("IsOne")>>

\* And of those over a connection.
OnlineLayout(id) ==
    CASE id = ConnectedPing -> <<One("I64BE")>>
      [] id = ConnectedPong -> <<One("I64BE"), One("I64BE")>>
      [] id = ConnectionRequest -> <<One("I64BE"), One("I64BE"), One("IsOne")>>
      [] id = ConnectionRequestAccepted ->
           <<One("Address"), One("I16BE"), Addresses, One("I64BE"), One("I64BE")>>
      [] id = NewIncomingConnection ->
           <<One("Address"), Addresses, One("I64BE"), One("I64BE")>>

Online == {ConnectedPing, ConnectedPong, ConnectionRequest, ConnectionRequestAccepted,
           NewIncomingConnection}
Layout(id) == IF id \in Online THEN OnlineLayout(id) ELSE OfflineLayout(id)

\* IncompatibleProtocolVersion goes out under the id of another message.
WrittenId(id) ==
    IF id = IncompatibleProtocolVersion THEN OpenConnectionRequest1 ELSE id

\* OpenConnectionRequest1 fills a datagram of the MTU that is tried, which
\* sendOpenConnectionRequest1 does with zeros; the size field is among the filling.
Fill(bytes, mtu) == [i \in 1 .. mtu |-> IF i <= Len(bytes) THEN bytes[i] ELSE 0]

WriteMessage(id, v) == <<WrittenId(id)>> \o Write(Layout(id), v)
WriteRequest1(protocol, mtu) ==
    LET bytes == WriteMessage(OpenConnectionRequest1, <<MagicValue, protocol>>)
        size  == mtu - Len(bytes) + 28
    IN  Fill(bytes \o <<size \div 256, size % 256>>, mtu)

\* What OpenConnectionRequest1::Read takes for the MTU: the datagram and 28 bytes.
TriedMtu(bytes) == Len(bytes) + 28

\* NewIncomingConnection::Read stops at the address after which 16 bytes are left;
\* the others stay those of an endpoint nobody set.
NoEndpoint == <<4>> \o Zeros(6)
ReadAddresses(s) ==
    LET Turns[i \in 0 .. 20] ==
            IF i = 0 THEN Done(<<>>, s)
            ELSE IF i > 1 /\ Len(Turns[i - 1].rest) = 16 THEN Turns[i - 1]
            ELSE Then(Turns[i - 1], LAMBDA v, r :
                     Map(Get("Address", r), LAMBDA a : Append(v, a)))
    IN  Map(Turns[20], LAMBDA v :
            [i \in 1 .. 20 |-> IF i <= Len(v) THEN v[i] ELSE NoEndpoint])

ReadIncoming(s) ==
    Then(Get("Address", s), LAMBDA server, r :
    Then(ReadAddresses(r), LAMBDA systems, r2 :
        Map(Read(<<One("I64BE"), One("I64BE")>>, r2), LAMBDA times :
            <<<<<<server>>>>, <<systems>>>> \o times)))

ReadMessage(bytes) ==
    Then(Take(1, bytes), LAMBDA id, r :
        IF id = <<NewIncomingConnection>> THEN ReadIncoming(r) ELSE Read(Layout(id[1]), r))

--------------------------------------------------------------------------------
(* packet::write and read: a message, or a fragment of one, in a datagram.    *)

Reliable(reliability) == reliability \in {2, 3, 4}
Sequenced(reliability) == reliability \in {1, 4}
SequencedOrOrdered(reliability) == reliability \in {1, 3, 4}

\* The indices that a packet of this reliability carries, each 24 bits.
PacketIndices(p) ==
    (IF Reliable(p.reliability) THEN <<One("U24")>> ELSE <<>>)
      \o (IF Sequenced(p.reliability) THEN <<One("U24")>> ELSE <<>>)
      \o (IF SequencedOrOrdered(p.reliability) THEN <<One("U24"), One("U8")>> ELSE <<>>)
      \o (IF p.split THEN <<One("U32BE"), One("U16BE"), One("U32BE")>> ELSE <<>>)

\* The header is reliability << 5 with the flag of a split; the length is in bits.
WritePacketHeader(p) ==
    LET bits == (Len(p.content) * 8) % 65536
    IN  <<p.reliability * 32 + (IF p.split THEN 16 ELSE 0), bits \div 256, bits % 256>>
WriteFrame(p) == WritePacketHeader(p) \o Write(PacketIndices(p), p.indices) \o p.content

\* packet::read: the content is as long as the header says.
ReadFrame(s) ==
    Then(Take(3, s), LAMBDA h, r :
        LET p == [reliability |-> h[1] \div 32, split |-> (h[1] \div 16) % 2 = 1]
            length == (256 * h[2] + h[3]) \div 8
        IN  IF length = 0 THEN Refused
            ELSE Then(Read(PacketIndices(p), r), LAMBDA indices, r2 :
                Map(Take(length, r2), LAMBDA content :
                    [reliability |-> p.reliability, split |-> p.split,
                     indices |-> indices, content |-> content])))

--------------------------------------------------------------------------------
(* acknowledgement::write and read: ranges of datagram numbers.              *)

U24(n) == <<(n \div 65536) % 256, (n \div 256) % 256, n % 256>>
FromU24(v) == 65536 * v[1] + 256 * v[2] + v[3]

AckRecord(first, last) ==
    IF first = last THEN <<1>> \o Put("U24", U24(first))
    ELSE <<0>> \o Put("U24", U24(first)) \o Put("U24", U24(last))

\* Mutant of AckTurn: the loop goes on to the MTU itself.
AckTurn_ToMtu(w, n, mtu) ==
    IF w.stopped \/ Len(w.bytes) >= mtu THEN [w EXCEPT !.stopped = TRUE]
    ELSE IF w.taken = 0 THEN [w EXCEPT !.taken = 1, !.first = n, !.last = n]
    ELSE IF n = w.last + 1 THEN [w EXCEPT !.taken = @ + 1, !.last = n]
    ELSE [w EXCEPT !.taken = @ + 1, !.first = n, !.last = n, !.records = @ + 1,
                   !.bytes = @ \o AckRecord(w.first, w.last)]

\* One turn of the loop for a number, in ascending order.  It stops once the
\* records are within 10 bytes of the MTU; the number of numbers taken is what
\* write returns.
AckTurn(w, n, mtu) ==
    IF w.stopped \/ Len(w.bytes) >= mtu - 10 THEN [w EXCEPT !.stopped = TRUE]
    ELSE IF w.taken = 0 THEN [w EXCEPT !.taken = 1, !.first = n, !.last = n]
    ELSE IF n = w.last + 1 THEN [w EXCEPT !.taken = @ + 1, !.last = n]
    ELSE [w EXCEPT !.taken = @ + 1, !.first = n, !.last = n, !.records = @ + 1,
                   !.bytes = @ \o AckRecord(w.first, w.last)]

AckLoop(numbers, mtu) ==
    LET Turns[i \in 0 .. Len(numbers)] ==
            IF i = 0 THEN [stopped |-> FALSE, taken |-> 0, first |-> 0, last |-> 0,
                           records |-> 0, bytes |-> <<>>]
            ELSE AckTurn(Turns[i - 1], numbers[i], mtu)
    IN  Turns[Len(numbers)]

WriteAck(numbers, mtu) ==
    LET w == AckLoop(numbers, mtu)
        records == IF numbers = <<>> THEN 0 ELSE w.records + 1
    IN  <<records \div 256, records % 256>> \o w.bytes
          \o (IF numbers = <<>> THEN <<>> ELSE AckRecord(w.first, w.last))

\* A record of another type is passed over with nothing read.
ReadRecord(s) ==
    Then(Take(1, s), LAMBDA type, r :
        CASE type = <<0>> -> Then(Get("U24", r), LAMBDA start, r2 :
                                 Map(Get("U24", r2), LAMBDA end : <<FromU24(start), FromU24(end)>>))
          [] type = <<1>> -> Map(Get("U24", r), LAMBDA n : <<FromU24(n), FromU24(n)>>)
          [] OTHER -> Done(<<1, 0>>, r))

RangeOf(record) == [i \in 1 .. record[2] - record[1] + 1 |-> record[1] + i - 1]

ReadAck(s) ==
    Then(Take(2, s), LAMBDA n, r :
        LET records == InTurn(256 * n[1] + n[2], LAMBDA i, rest : ReadRecord(rest), r)
            numbers == FlattenSeq([i \in DOMAIN records.value |-> RangeOf(records.value[i])])
        IN  IF records.error # "" THEN records
            ELSE IF Len(numbers) > MaxAck THEN Refused
            ELSE Done(numbers, records.rest))
================================================================================
