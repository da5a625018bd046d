----------------------------- MODULE PacketExchange ----------------------------
(***************************************************************************)
(* Game packets from one Client to another over an established connection:   *)
(* WritePacket, flush and Encoder (client.cpp, encoder.cpp), the fragments   *)
(* of a message in datagrams and their reassembly (state.cpp, packet.cpp),   *)
(* Decoder, listenLoop and the packets as objects of the PacketPool.         *)
(*                                                                          *)
(* Datagrams are those of RaknetStream, which brings the messages in order:  *)
(* the fragments of the next message come in any order.  Encryption is the   *)
(* subject of MinecraftClient and is off here.  libdeflate is external: a    *)
(* lossless Deflate that shortens the longest run of a byte.                 *)
(***************************************************************************)
EXTENDS PacketLayouts, RaknetMessages

CONSTANTS
    Samples,            \* the packets that may be written, [id, value]
    MaxWritten,         \* bound on how many are
    Mtu,                \* mtuSize of the connection
    Slack               \* the 1024 of Decompressor::Decompress

ASSUME PacketAssumption ==
    /\ MaxWritten \in Nat /\ Slack \in Nat /\ Mtu \in 53 .. 1492

VARIABLES
    written,            \* history: the packets given to WritePacket
    bufferedSend,
    orderIndex, splitId,
    flight,             \* messages under way, each the set of its frames
    splits,             \* fragments of the next message: index -> content
    messages,           \* what conn->Read returns, one after the other
    packets,            \* what Decode returned and receive has not taken
    expectedIds,
    heap,               \* packet objects: [id, value]
    pool,               \* id -> the objects given back, the first first
    deferredPackets,    \* objects
    received,           \* history: [id, value, object, fate] of each packet received
    listen              \* "open", "stopped" once the connection is, "closed" by an
                        \* Exception, "dead" by an exception that is not caught

sender == <<written, bufferedSend, orderIndex, splitId>>
objects == <<expectedIds, heap, pool, deferredPackets, received>>
packetVars == <<sender, flight, splits, messages, packets, objects, listen>>

PacketInit ==
    /\ written = <<>> /\ bufferedSend = <<>> /\ orderIndex = 0 /\ splitId = 0
    /\ flight = <<>> /\ splits = <<>> /\ messages = <<>> /\ packets = <<>>
    /\ expectedIds = {ServerToClientHandshake, PlayStatus}
    /\ heap = <<>> /\ pool = <<>>
    /\ deferredPackets = <<>> /\ received = <<>> /\ listen = "open"

--------------------------------------------------------------------------------
(* The sender.                                                              *)

WritePacket(p) ==
    /\ Len(written) < MaxWritten /\ Serializes(p.id, p.value)
    /\ written' = Append(written, p)
    /\ bufferedSend' = Append(bufferedSend, SerializePacket(p.id, p.value))
    /\ UNCHANGED <<orderIndex, splitId, flight, splits, messages, packets, objects, listen>>

\* The longest run of one byte as its place, its length and the byte, before the rest.
LongestRun(s) ==
    LET starts == {i \in DOMAIN s : i = 1 \/ s[i] # s[i - 1]}
        End(i) == CHOOSE j \in i .. Len(s) :
                      /\ \A k \in i .. j : s[k] = s[i]
                      /\ j = Len(s) \/ s[j + 1] # s[i]
        runs   == {<<i, End(i)>> : i \in starts}
    IN  CHOOSE r \in runs : \A q \in runs : q[2] - q[1] <= r[2] - r[1]
TwoBytes(n) == <<n \div 256, n % 256>>
Deflate(s) ==
    LET r == LongestRun(s)
    IN  TwoBytes(r[1]) \o TwoBytes(r[2]) \o <<s[r[1]]>>
          \o SubSeq(s, 1, r[1] - 1) \o SubSeq(s, r[2] + 1, Len(s))
Inflate(s) ==
    LET first == 256 * s[1] + s[2]
        last  == 256 * s[3] + s[4]
    IN  SubSeq(s, 6, first + 4) \o [i \in 1 .. last - first + 1 |-> s[5]]
          \o SubSeq(s, first + 5, Len(s))

\* Mutant of Encode: each packet is put before the others.
Encode_Before(batch) ==
    <<254>> \o Deflate(FlattenSeq([i \in DOMAIN batch |->
                          LET p == batch[Len(batch) + 1 - i]
                          IN  Put("VarU32", <<Len(p)>>) \o p]))

\* Encoder::Encode: each packet behind its length, compressed, behind 0xFE.
Encode(batch) ==
    <<254>> \o Deflate(FlattenSeq([i \in DOMAIN batch |->
                          Put("VarU32", <<Len(batch[i])>>) \o batch[i]]))

\* state::split: the room of a datagram, less 10 bytes when one is not enough.
Room(length) ==
    LET size == Mtu - 14 - 28 IN IF length > size THEN size - 10 ELSE size
Fragments(b) ==
    LET n == (Len(b) + Room(Len(b)) - 1) \div Room(Len(b))
    IN  [i \in 1 .. n |->
            SubSeq(b, (i - 1) * Room(Len(b)) + 1,
                   IF i = n THEN Len(b) ELSE i * Room(Len(b)))]

\* The bytes of each fragment behind the number of its datagram.
Frames(b) ==
    LET fragments == Fragments(b)
        n == Len(fragments)
        split == n > 1
    IN  {WriteFrame([reliability |-> 3, split |-> split, content |-> fragments[i],
            indices |-> <<<<<<U24(i - 1)>>>>, <<<<U24(orderIndex)>>>>, <<<<<<0>>>>>>>>
              \o IF ~split THEN <<>>
                 ELSE <<<<<<Length("U32BE", n)>>>>, <<<<Length("U16BE", splitId)>>>>,
                        <<<<Length("U32BE", i - 1)>>>>>>]) : i \in 1 .. n}

\* flush: one message, of the next order index, for all that is buffered.
Flush ==
    /\ bufferedSend # <<>>
    /\ LET b == Encode(bufferedSend) IN
          /\ flight' = Append(flight, Frames(b))
          /\ splitId' = IF Len(Fragments(b)) > 1 THEN splitId + 1 ELSE splitId
    /\ orderIndex' = orderIndex + 1 /\ bufferedSend' = <<>>
    /\ UNCHANGED <<written, splits, messages, packets, objects, listen>>

--------------------------------------------------------------------------------
(* Reassembly.                                                              *)

Number(bytes) == FoldLeft(LAMBDA n, b : n * 256 + b, 0, bytes)
SplitCount(p) == Number(p.indices[4][1][1])
SplitIndex(p) == Number(p.indices[6][1][1])

\* handleSplitPacket: nothing more until every fragment is there.
Reassembled(p) ==
    IF ~p.split THEN [i \in {0} |-> p.content]
    ELSE [i \in DOMAIN splits \cup {SplitIndex(p)} |->
            IF i = SplitIndex(p) THEN p.content ELSE splits[i]]

ReceiveFrame ==
    /\ flight # <<>>
    /\ \E frame \in Head(flight) :
          LET p == ReadFrame(frame).value
              parts == Reassembled(p)
              count == IF p.split THEN SplitCount(p) ELSE 1
          IN  IF DOMAIN parts = 0 .. count - 1
              THEN /\ messages' = Append(messages,
                        FlattenSeq([i \in 1 .. count |-> parts[i - 1]]))
                   /\ splits' = <<>> /\ flight' = Tail(flight)
              ELSE /\ splits' = parts /\ UNCHANGED messages
                   /\ flight' = [flight EXCEPT ![1] = @ \ {frame}]
    /\ UNCHANGED <<sender, packets, objects, listen>>

--------------------------------------------------------------------------------
(* listenLoop.                                                              *)

\* Mutant of Inflates: no second try.
Inflates_Once(b) == Len(Inflate(b)) <= 2 * Len(b) + Slack

\* Decompressor::Decompress: a buffer of twice the input and Slack, and once again
\* of twice that.
Inflates(b) == Len(Inflate(b)) <= 2 * (2 * Len(b) + Slack)

\* readVaruint32 of decoder.cpp: like ReadInt, but the last group that a number has
\* room for ends it, marked or not.
ReadLength(s) ==
    LET ends == {i \in 1 .. IntGroups : i <= Len(s) /\ (s[i] < 128 \/ i = IntGroups)}
    IN  IF ends = {} THEN Short ELSE ReadGroups(s, FirstEnd(ends), IntMod)

\* The loop of Decode: packets behind their lengths, until nothing is left.  A batch
\* has at most MaxWritten of them.
Divide(s) ==
    LET Step(r) == Then(ReadLength(r.rest), LAMBDA n, rest :
                       IF n[1] = 0 \/ n[1] > Len(rest) THEN Refused
                       ELSE Map(Take(n[1], rest), LAMBDA b : Append(r.value, b)))
        Steps[i \in 0 .. MaxWritten] ==
            IF i = 0 THEN Done(<<>>, s)
            ELSE IF Steps[i - 1].error # "" \/ Steps[i - 1].rest = <<>> THEN Steps[i - 1]
            ELSE Step(Steps[i - 1])
    IN  Steps[MaxWritten]

Decode(b) ==
    IF b = <<>> \/ Head(b) # 254 \/ ~Inflates(Tail(b)) THEN Refused
    ELSE Divide(Inflate(Tail(b)))

\* An Exception ends the loop; the exceptions of PacketBuff and of std are not caught.
Ended(error) == IF error = "refused" THEN "closed" ELSE "dead"

\* On a connection that is stopped, Read throws.
ListenLoop_Stopped ==
    /\ listen = "stopped" /\ packets = <<>> /\ listen' = "closed"
    /\ UNCHANGED <<sender, flight, splits, messages, packets, objects>>

ListenLoop_Read ==
    /\ listen = "open" /\ packets = <<>> /\ messages # <<>>
    /\ messages' = Tail(messages)
    /\ LET r == Decode(Head(messages)) IN
          IF r.error # "" THEN listen' = Ended(r.error) /\ UNCHANGED packets
          ELSE packets' = r.value /\ UNCHANGED listen
    /\ UNCHANGED <<sender, flight, splits, objects>>

\* PacketPool::Get: the object of this id that was given back first, or a new one.
Returned(id) == IF id \in DOMAIN pool THEN pool[id] ELSE <<>>
Object(id) == IF Returned(id) = <<>> THEN Len(heap) + 1 ELSE Head(Returned(id))
Held(o) == IF o \in DOMAIN heap THEN heap[o].value ELSE <<>>

\* handlePacket: a Disconnect is dropped, what is not expected is put aside.
Fate(id) ==
    CASE id = PacketDisconnect -> "dropped"
      [] id \in expectedIds    -> "handled"
      [] OTHER                 -> "deferred"

ExpectedAfter(p) ==
    CASE p.id = PlayStatus /\ p.value[1][1][1] = Zeros(4) -> {ResourcePacksInfo}
      [] p.id = ResourcePacksInfo -> {ResourcePackStack}
      [] p.id = ResourcePackStack -> {StartGame}
      [] OTHER -> expectedIds

\* Mutant of Return: what is put aside goes back to the pool as well.
Return_Deferred(id, o, fate) ==
    LET rest == IF Returned(id) = <<>> THEN <<>> ELSE Tail(Returned(id))
    IN  [i \in DOMAIN pool \cup {id} |->
            IF i # id THEN pool[i] ELSE IF fate # "dropped" THEN Append(rest, o) ELSE rest]

\* Mutant of Return: Get leaves the object in its list.
Return_Kept(id, o, fate) ==
    LET rest == Returned(id)
    IN  [i \in DOMAIN pool \cup {id} |->
            IF i # id THEN pool[i] ELSE IF fate = "handled" THEN Append(rest, o) ELSE rest]

\* Get takes the object out; handleInternalPacket gives it back at its end.
Return(id, o, fate) ==
    LET rest == IF Returned(id) = <<>> THEN <<>> ELSE Tail(Returned(id))
    IN  [i \in DOMAIN pool \cup {id} |->
            IF i # id THEN pool[i] ELSE IF fate = "handled" THEN Append(rest, o) ELSE rest]

\* handlePlayStatus of most failures, and a Disconnect, stop the connection; the
\* packets of the batch are still received.
Refusals == {1, 2, 4, 6, 7}
Stops(p) ==
    \/ Fate(p.id) = "dropped"
    \/ p.id = PlayStatus /\ Fate(p.id) = "handled" /\ Number(p.value[1][1][1]) \in Refusals

\* receive: header, PacketPool::Get, Deserialize, handlePacket.  An object that
\* Deserialize failed on is with nobody; nor does a Disconnect give its own back.
Receive ==
    /\ listen \in {"open", "stopped"} /\ packets # <<>>
    /\ packets' = Tail(packets)
    /\ LET header == ReadInt(Head(packets))
           id == PacketId(header.value)
           o  == Object(id)
           r  == Read(Deserialized(id), header.rest)
           p  == [id |-> id, value |-> DeserializeInto(id, Held(o), r.value)]
       IN  IF header.error # "" \/ id \notin Registered
           THEN /\ listen' = Ended(IF header.error # "" THEN header.error ELSE "refused")
                /\ UNCHANGED objects
           ELSE IF r.error # ""
           THEN /\ listen' = Ended(r.error)
                /\ pool' = Return(id, o, "failed")
                /\ UNCHANGED <<expectedIds, heap, deferredPackets, received>>
           ELSE /\ heap' = IF o > Len(heap) THEN Append(heap, p) ELSE [heap EXCEPT ![o] = p]
                /\ pool' = Return(id, o, Fate(id))
                /\ deferredPackets' = IF Fate(id) # "deferred" THEN deferredPackets
                                      ELSE Append(deferredPackets, o)
                /\ expectedIds' = IF Fate(id) = "handled" THEN ExpectedAfter(p) ELSE expectedIds
                /\ received' = Append(received, [id |-> id, value |-> p.value,
                                                 object |-> o, fate |-> Fate(id)])
                /\ listen' = IF Stops(p) THEN "stopped" ELSE listen
    /\ UNCHANGED <<sender, flight, splits, messages>>

PacketNext ==
    \/ \E p \in Samples : WritePacket(p)
    \/ Flush \/ ReceiveFrame \/ ListenLoop_Read \/ ListenLoop_Stopped \/ Receive

PacketSpec == PacketInit /\ [][PacketNext]_packetVars

--------------------------------------------------------------------------------
\* The parts keep their types; an object is one of those that exist.
PacketTypeOK ==
    /\ Len(written) <= MaxWritten /\ bufferedSend \in Seq(Seq(0 .. 255))
    /\ orderIndex \in Nat /\ splitId \in 0 .. orderIndex
    /\ messages \in Seq(Seq(0 .. 255)) /\ packets \in Seq(Seq(0 .. 255))
    /\ expectedIds \subseteq Registered
    /\ Range(pool) \subseteq Seq(DOMAIN heap) /\ deferredPackets \in Seq(DOMAIN heap)
    /\ listen \in {"open", "stopped", "closed", "dead"}

SurvivesIn(field, v) ==
    \A i \in DOMAIN v : \A j \in DOMAIN field.of : Survives(field.of[j], v[i][j])

\* A RawPacket holds the bytes of the fields.
IsRaw(id) == Deserialized(id) = <<One("Raw")>>
Expected(w) == IF IsRaw(w.id) THEN <<<<<<Write(Serialized(w.id), w.value)>>>>>> ELSE w.value

\* What can be counted on of a packet read: up to the first field that does not
\* survive or is read in another width.  Lists and payloads of an object that had
\* an earlier packet in it end with what was written.
ReadAs(w, r, fresh) ==
    LET layout == IF IsRaw(w.id) THEN <<One("Raw")>> ELSE Serialized(w.id)
        value  == Expected(w)
    IN  /\ r.id = w.id
        /\ \A i \in DOMAIN layout :
              (\A k \in 1 .. i : /\ SameWidth(layout[k], Deserialized(w.id)[k])
                                /\ SurvivesIn(layout[k], value[k]))
                => \/ r.value[i] = value[i]
                   \/ ~fresh /\ IsList(layout[i]) /\ IsSuffix(value[i], r.value[i])
                   \/ /\ ~fresh /\ layout[i] = One("Raw")
                      /\ IsSuffix(value[i][1][1], r.value[i][1][1])

\* Writer, Encoder, split and back through Reader: the packets come out in the order
\* they were written, none left out, with the values they had.
PacketsArriveAsWritten ==
    /\ Len(received) <= Len(written)
    /\ \A k \in DOMAIN received :
          ReadAs(written[k], received[k],
                 \A j \in 1 .. k - 1 : received[j].object # received[k].object)
    /\ (listen = "open" /\ <<bufferedSend, flight, messages, packets>> = <<<<>>, <<>>, <<>>, <<>>>>)
          => Len(received) = Len(written)

\* PacketPool and deferPacket: an object is in one place at most, so nobody reads
\* into one that is waiting to be taken.
ObjectsApart ==
    /\ IsInjective(deferredPackets)
    /\ \A id \in DOMAIN pool :
          /\ IsInjective(pool[id])
          /\ \A o \in ToSet(pool[id]) : o \notin ToSet(deferredPackets) /\ heap[o].id = id

\* A packet put aside still says what it said when it was received.
DeferredIntact ==
    \A k \in DOMAIN received :
       received[k].fate = "deferred"
          => heap[received[k].object] = [id |-> received[k].id, value |-> received[k].value]

TooLong(p) ==
    ~IsRaw(p.id) /\ \E i \in DOMAIN p.value : ~SurvivesIn(Serialized(p.id)[i], p.value[i])
Size(batch) == Len(FlattenSeq([i \in DOMAIN batch |-> SerializePacket(batch[i].id, batch[i].value)]))

\* listenLoop ends for a packet that no list of the pool knows, a string too long, a
\* batch that may inflate to more than the decompressor tries, a refusal or a kick,
\* and the process for experiments in a ResourcePackStack; for nothing else.
EndsForAReason ==
    /\ listen \in {"stopped", "closed"} => \E p \in ToSet(written) :
          \/ p.id \notin Registered \/ TooLong(p) \/ p.id = PacketDisconnect
          \/ p.id = PlayStatus /\ Number(p.value[1][1][1]) \in Refusals
          \/ p.id = ResourcePackStack /\ p.value[5] # <<>>
          \/ Size(written) + 2 * Len(written) > 2 * Slack
    /\ listen = "dead" => \E p \in ToSet(written) :
          p.id = ResourcePackStack /\ p.value[5] # <<>>

\* "Get a packet": whatever Get returns, a packet holds what was read into it.
ObjectsAreFresh ==
    \A k \in DOMAIN received : ReadAs(written[k], received[k], TRUE)

\* "Raw packet for unknown packets": one of these does not end the loop.
UnknownPacketsAreRaw ==
    listen = "closed" => \E p \in ToSet(written) : p.id \in Registered
================================================================================
