---------------------------- MODULE DatagramExchange ---------------------------
(***************************************************************************)
(* The bytes two RakNet ends send each other: the messages of the handshake  *)
(* one after the other (raknet.cpp, state.cpp), then the acknowledgements of *)
(* the datagrams that came in the meantime (state::flushACKs,                *)
(* sendAcknowledgement, handleACK).                                          *)
(*                                                                          *)
(* Both ends read and write with the code of this library.  The order of the *)
(* handshake under loss is the subject of RaknetHandshake; here it is fixed, *)
(* and the question is what the bytes say.                                   *)
(***************************************************************************)
EXTENDS RaknetMessages

CONSTANTS
    Endpoints,          \* addresses that may be told: of version 4 or 6, with a port
    Mtus,               \* datagram sizes that may be told or tried
    MtuSize,            \* of the connection that sends acknowledgements: an int16_t of
                        \* more than the 10 bytes that write leaves free
    Numbers,            \* the datagram numbers that may come, of 24 bits
    MaxTwice            \* bound on the datagrams that come a second time

\* The bytes of an address: its version, 4 or 16 bytes and 2 for the port.
IsAddress(a) == a \in Seq(0 .. 255) /\ <<Head(a), Len(a)>> \in {<<4, 7>>, <<6, 19>>}

ASSUME ExchangeAssumption ==
    /\ \A a \in Endpoints : IsAddress(a)
    /\ Mtus \subseteq 46 .. 1500
    /\ MtuSize \in Nat /\ MtuSize > 10 /\ MtuSize < 2^15
    /\ Numbers \subseteq Nat /\ \A n \in Numbers : n < 2^24
    /\ MaxTwice \in Nat

VARIABLES
    turn,               \* the message of Conversation that is next
    meant,              \* the fields its writer gave it
    bytes,              \* what is on its way
    understood,         \* what was read of the last message
    told,               \* the system addresses of ConnectionRequestAccepted
    datagramsReceived,  \* numbers to acknowledge, in order
    arrived,            \* history: the numbers that came
    twice,              \* how many came again
    acks,               \* acknowledgements on their way
    acknowledged,       \* history: the numbers handleACK read
    deaf                \* handleACK threw

talk == <<turn, meant, bytes, understood, told>>
ackVars == <<datagramsReceived, arrived, twice, acks, acknowledged, deaf>>
exchangeVars == <<talk, ackVars>>

Conversation == <<UnconnectedPing, UnconnectedPong, OpenConnectionRequest1,
                  OpenConnectionReply1, OpenConnectionRequest2, OpenConnectionReply2,
                  ConnectionRequest, ConnectionRequestAccepted, NewIncomingConnection,
                  ConnectedPing, ConnectedPong>>

Nothing == Done(<<>>, <<>>)

ExchangeInit ==
    /\ turn = 1 /\ meant = <<>> /\ bytes = <<>> /\ understood = Nothing /\ told = <<>>
    /\ datagramsReceived = <<>> /\ arrived = {} /\ twice = 0 /\ acks = <<>>
    /\ acknowledged = {} /\ deaf = FALSE

--------------------------------------------------------------------------------
(* The conversation.                                                        *)

Guid == <<1, 2, 3, 4, 5, 6, 7, 8>>
Now  == <<0, 0, 0, 0, 101, 102, 103, 104>>
Just(leaf) == <<<<leaf>>>>
Word(n) == Just(<<n \div 256, n % 256>>)
Flags == {Just(<<0>>), Just(<<1>>)}
Protocol == Just(<<10>>)

\* What the code gives the fields of each message.
Contents(id) ==
    CASE id = UnconnectedPing -> {<<Just(Now), MagicValue, Just(Guid)>>}
      [] id = UnconnectedPong ->
           {<<Just(Now), Just(Guid), MagicValue, data>> :
              data \in {<<>>, <<<<<<77>>>>, <<<<67>>>>>>}}
      [] id = OpenConnectionRequest1 -> {<<MagicValue, Protocol>>}
      [] id = OpenConnectionReply1 ->
           {<<MagicValue, Just(Guid), f, Word(mtu)>> : f \in Flags, mtu \in Mtus}
      [] id = OpenConnectionRequest2 ->
           {<<MagicValue, Just(a), Word(mtu), Just(Guid)>> : a \in Endpoints, mtu \in Mtus}
      [] id = OpenConnectionReply2 ->
           {<<MagicValue, Just(Guid), Just(a), Word(mtu), f>> :
              a \in Endpoints, mtu \in Mtus, f \in Flags}
      [] id = ConnectionRequest -> {<<Just(Guid), Just(Now), Just(<<0>>)>>}
      [] id = ConnectionRequestAccepted ->
           {<<Just(NoEndpoint), Word(0), <<[i \in 1 .. 20 |-> IF i = 1 THEN a ELSE b]>>,
              Just(Now), Just(Now)>> : a \in Endpoints, b \in Endpoints}
      [] id = NewIncomingConnection -> {<<Just(NoEndpoint), <<told>>, Just(Now), Just(Now)>>}
      [] id = ConnectedPing -> {<<Just(Now)>>}
      [] id = ConnectedPong -> {<<Just(Now), Just(Now)>>}

\* Request1 and Request2 are sent in a buffer resized to the MTU.
Encodings(id, v) ==
    CASE id = OpenConnectionRequest1 -> {WriteRequest1(v[2], mtu) : mtu \in Mtus}
      [] id = OpenConnectionRequest2 ->
           {Fill(WriteMessage(id, v), v[3][1][1][1] * 256 + v[3][1][1][2])}
      [] OTHER -> {WriteMessage(id, v)}

\* An exception of PacketBuff leaves the IO thread: nothing follows it.
Speak ==
    /\ turn <= Len(Conversation) /\ bytes = <<>> /\ understood.error = ""
    /\ \E v \in Contents(Conversation[turn]) :
          meant' = v /\ bytes' \in Encodings(Conversation[turn], v)
    /\ understood' = Nothing
    /\ UNCHANGED <<turn, told, ackVars>>

Hear ==
    /\ bytes # <<>>
    /\ understood' = ReadMessage(bytes)
    /\ told' = IF Head(bytes) = ConnectionRequestAccepted /\ understood'.error = ""
               THEN understood'.value[3][1] ELSE told
    /\ bytes' = <<>> /\ turn' = turn + 1
    /\ UNCHANGED <<meant, ackVars>>

--------------------------------------------------------------------------------
(* Acknowledgements, once the conversation is over.                         *)

Connected == turn > Len(Conversation)

\* The numbers are kept in the order in which acknowledgement::write sorts them.
Insert(numbers, n) ==
    InsertAt(numbers, 1 + Cardinality({i \in DOMAIN numbers : numbers[i] <= n}), n)

\* state::receiveDatagram keeps the number before it looks whether it is new.
ReceiveDatagram(n) ==
    /\ Connected /\ acks = <<>> /\ ~deaf
    /\ n \in arrived => twice < MaxTwice
    /\ twice' = IF n \in arrived THEN twice + 1 ELSE twice
    /\ arrived' = arrived \cup {n}
    /\ datagramsReceived' = Insert(datagramsReceived, n)
    /\ UNCHANGED <<talk, acks, acknowledged, deaf>>

\* Mutant of SendAcknowledgement: one message, whatever it has room for.
SendAcknowledgement_Once(numbers) == <<<<192>> \o WriteAck(numbers, MtuSize)>>

\* sendAcknowledgement: a message of the numbers, and again without the first of
\* them until none is left.  What write could not take is in a later one.
SendAcknowledgement(numbers) ==
    [i \in DOMAIN numbers |-> <<192>> \o WriteAck(SubSeq(numbers, i, Len(numbers)), MtuSize)]

FlushACKs ==
    /\ Connected /\ datagramsReceived # <<>>
    /\ acks' = acks \o SendAcknowledgement(datagramsReceived)
    /\ datagramsReceived' = <<>>
    /\ UNCHANGED <<talk, arrived, twice, acknowledged, deaf>>

\* PacketReadException is not one of those process catches.
HandleACK ==
    /\ acks # <<>> /\ ~deaf
    /\ LET r == ReadAck(Tail(Head(acks))) IN
          /\ deaf' = (r.error # "")
          /\ acknowledged' = acknowledged \cup ToSet(r.value)
    /\ acks' = Tail(acks)
    /\ UNCHANGED <<talk, datagramsReceived, arrived, twice>>

ExchangeNext ==
    \/ Speak \/ Hear \/ FlushACKs \/ HandleACK
    \/ \E n \in Numbers : ReceiveDatagram(n)

ExchangeSpec == ExchangeInit /\ [][ExchangeNext]_exchangeVars

--------------------------------------------------------------------------------
\* The parts keep their types, and what is acknowledged was received.
ExchangeTypeOK ==
    /\ turn \in 1 .. Len(Conversation) + 1 /\ bytes \in Seq(0 .. 255)
    /\ understood.error \in {"", "short", "refused"}
    /\ datagramsReceived \in Seq(arrived) /\ arrived \subseteq Numbers
    /\ twice \in 0 .. MaxTwice /\ acks \in Seq(Seq(0 .. 255)) /\ deaf \in BOOLEAN

SurvivesField(field, v) ==
    \A i \in DOMAIN v : \A j \in DOMAIN field.of : Survives(field.of[j], v[i][j])

\* Every Read of message.h against its Write: a message whose addresses are of
\* version 4 is never refused, and the fields of any message are those that were
\* written, up to the first one that does not survive the wire.
MessageUnderstood ==
    bytes = <<>> /\ turn > 1 =>
       LET id == Conversation[turn - 1]
           layout == Layout(id)
       IN  /\ understood.error # "" => \E i \in DOMAIN layout :
                 "Address" \in ToSet(layout[i].of) /\ ~SurvivesField(layout[i], meant[i])
           /\ understood.error = "" => \A i \in DOMAIN layout :
                 (\A k \in 1 .. i : SurvivesField(layout[k], meant[k]))
                    => understood.value[i] = meant[i]

\* sendAcknowledgement and handleACK: whatever gaps and copies there are, and however
\* little room a message has, exactly the datagrams that came are acknowledged.
AllAcknowledged ==
    /\ acknowledged \subseteq arrived
    /\ datagramsReceived = <<>> /\ acks = <<>> /\ ~deaf => acknowledged = arrived

\* acknowledgement::write stops 10 bytes short of the MTU and may then add two
\* ranges: with the flag and the count, a message goes at most 6 bytes over it.
\* acknowledgement::read throws over maxAcknowledgementPackets numbers, which process
\* does not catch: it takes more datagrams than that to get there.
AckUsable ==
    /\ \A i \in DOMAIN acks : Len(acks[i]) <= MtuSize + 6
    /\ deaf => Cardinality(arrived) + twice > MaxAck
================================================================================
