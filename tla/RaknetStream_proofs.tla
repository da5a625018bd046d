-------------------------- MODULE RaknetStream_proofs --------------------------
(***************************************************************************)
(* Proofs about RaknetStream, for every value of its constants: the types,  *)
(* that messages are handled in the order in which they were written, that  *)
(* the protocol implements ReliableOrderedStream up to liveness, and that   *)
(* nothing written is lost unless receiveDatagram gives it up.              *)
(***************************************************************************)
EXTENDS RaknetStream, FiniteSetTheorems, SequenceTheorems, TLAPS

\* What the wire carries is a number, and the number itself below the modulus.
LEMMA WireType ==
    ASSUME NEW n \in Nat
    PROVE  Wire(n) \in Nat /\ n % SplitIdMod \in Nat
  BY LimitAssumption DEF Wire

LEMMA WireSmall ==
    ASSUME NEW n \in Nat, NEW m \in Nat \ {0}, n < m
    PROVE  n % m = n
  OBVIOUS

\* A message is a non-empty sequence of chunks.
LEMMA MessageType ==
    ASSUME NEW m \in Message \cup {Bye}
    PROVE  /\ m \in Seq(Chunk) /\ Len(m) \in Nat /\ Len(m) >= 1
           /\ \A i \in 1..Len(m) : m[i] \in Chunk
<1>1. CASE m \in Message
  <2>1. m \in Seq(Chunk) \ {<<>>}
    BY <1>1, MessageAssumption
  <2> QED
    BY <2>1
<1>2. CASE m = Bye
  BY <1>2, MessageAssumption
<1> QED
  BY <1>1, <1>2

\* An enumeration of a set of sequence numbers lists elements of it.
LEMMA EnumerationType ==
    ASSUME NEW n \in Nat, NEW S \in SUBSET (0..(n - 1)), NEW f \in Enumerations(S)
    PROVE  /\ Cardinality(S) \in Nat /\ Len(f) = Cardinality(S)
           /\ \A i \in 1..Len(f) : f[i] \in S
<1>1. 0 \in Int /\ n - 1 \in Int
  OBVIOUS
<1>2. IsFiniteSet(0..(n - 1))
  BY <1>1, FS_Interval
<1>3. IsFiniteSet(S)
  BY <1>2, FS_Subset
<1>4. Cardinality(S) \in Nat
  BY <1>3, FS_CardinalityType
<1>5. f \in [1..Cardinality(S) -> S]
  BY DEF Enumerations
<1> QED
  BY <1>4, <1>5

\* What Transmit leaves in recQueue and in flight: old packets and the new ones,
\* for any set P that holds them all.
LEMMA TransmitKeeps ==
    ASSUME NEW P, seq \in Nat,
           NEW queue, DOMAIN queue \subseteq 0..(seq - 1),
           \A s \in DOMAIN queue : queue[s] \in P,
           NEW packets, Len(packets) \in Nat,
           \A i \in 1..Len(packets) : packets[i] \in P,
           Transmit(queue, packets)
    PROVE  /\ seq' = seq + Len(packets)
           /\ DOMAIN recQueue' \subseteq 0..(seq' - 1)
           /\ \A s \in DOMAIN recQueue' : recQueue'[s] \in P
           /\ recQueue' \in [DOMAIN recQueue' -> P]
           /\ \A d \in datagrams' \ datagrams : d.number \in Nat /\ d.packet \in P
           /\ \A d \in datagrams' \ datagrams : d \in [number : Nat, packet : P]
<1> DEFINE n == Len(packets)
<1>1. /\ seq' = seq + n
      /\ recQueue' = [s \in DOMAIN queue \cup seq..(seq + n - 1) |->
                         IF s < seq THEN queue[s] ELSE packets[s - seq + 1]]
      /\ datagrams' = datagrams \cup
            {[number |-> Wire(seq + i - 1), packet |-> packets[i]] : i \in 1..n}
  BY DEF Transmit
<1>2. n \in Nat /\ \A i \in 1..n : packets[i] \in P
  OBVIOUS
<1> HIDE DEF n
<1>3. DOMAIN recQueue' = DOMAIN queue \cup seq..(seq + n - 1)
  BY <1>1
<1>4. DOMAIN recQueue' \subseteq 0..(seq' - 1)
  BY <1>1, <1>2, <1>3
<1>5. ASSUME NEW s \in DOMAIN recQueue' PROVE recQueue'[s] \in P
  <2>1. CASE s < seq
    <3>1. s \notin seq..(seq + n - 1)
      BY <1>2, <2>1
    <3>2. s \in DOMAIN queue /\ recQueue'[s] = queue[s]
      BY <1>1, <1>3, <2>1, <3>1
    <3> QED
      BY <3>2
  <2>2. CASE ~(s < seq)
    <3>1. s \notin DOMAIN queue
      BY <2>2
    <3>2. s \in seq..(seq + n - 1) /\ recQueue'[s] = packets[s - seq + 1]
      BY <1>1, <1>3, <2>2, <3>1
    <3>3. s - seq + 1 \in 1..n
      BY <1>2, <3>2
    <3> QED
      BY <1>2, <3>2, <3>3
  <2> QED
    BY <2>1, <2>2
<1>6. ASSUME NEW d \in datagrams' \ datagrams
      PROVE  d.number \in Nat /\ d.packet \in P /\ d \in [number : Nat, packet : P]
  <2>1. PICK i \in 1..n : d = [number |-> Wire(seq + i - 1), packet |-> packets[i]]
    BY <1>1
  <2>2. Wire(seq + i - 1) \in Nat
    <3>1. seq + i - 1 \in Nat
      BY <1>2
    <3> QED
      BY <3>1, WireType
  <2>3. packets[i] \in P
    BY <1>2
  <2>4. d.number = Wire(seq + i - 1) /\ d.packet = packets[i]
    BY <2>1
  <2> HIDE DEF Wire
  <2> QED
    BY <2>1, <2>2, <2>3, <2>4
<1>7. recQueue' \in [DOMAIN recQueue' -> P]
  BY <1>1, <1>5
<1> QED
  BY <1>1, <1>4, <1>5, <1>6, <1>7 DEF n

LEMMA InitType == Init => TypeOK
<1> SUFFICES ASSUME Init PROVE TypeOK
  OBVIOUS
<1>1. WriterTypeOK
  <2>1. written \in Seq(Message \cup {Bye}) /\ splitOwner \in Seq(Nat)
    BY DEF Init
  <2>2. seq \in 0..MaxSeq /\ orderIndex \in Nat /\ splitId \in Nat /\ resends \in Nat
    BY LimitAssumption DEF Init
  <2>3. recQueue = [s \in {} |-> Bye]
    BY DEF Init
  <2>4. DOMAIN recQueue = {} /\ recQueue \in [DOMAIN recQueue -> Packet]
    BY <2>3
  <2> QED
    BY <2>1, <2>2, <2>4 DEF Init, WriterTypeOK
<1>2. NetworkTypeOK
  BY LimitAssumption DEF Init, NetworkTypeOK
<1>3. WindowTypeOK
  BY LimitAssumption DEF Init, WindowTypeOK
<1>4. DeliveryTypeOK
  <2>1. splits = [i \in {} |-> <<>>] /\ packQueue.data = [i \in {} |-> <<>>]
    BY DEF Init
  <2>2. /\ DOMAIN splits = {} /\ splits \in [DOMAIN splits -> Seq(Chunk \cup {NoChunk})]
        /\ DOMAIN packQueue.data = {}
        /\ packQueue.data \in [DOMAIN packQueue.data -> Seq(Chunk)]
    BY <2>1
  <2>3. packQueue.lowest = 0 /\ packQueue.highest = 0
    BY DEF Init
  <2>4. fetched = <<>> /\ skipped = {} /\ remoteStop = FALSE
    BY DEF Init
  <2>5. fetched \in Seq(Seq(Chunk))
    <3>1. <<>> \in Seq(Seq(Chunk))
      BY EmptySeq
    <3> QED
      BY <2>4, <3>1
  <2>6. /\ DOMAIN splits \subseteq Nat /\ DOMAIN packQueue.data \subseteq Nat
    BY <2>2
  <2>7. packQueue.lowest \in Nat /\ packQueue.highest \in Nat
    BY <2>3
  <2>8. remoteStop \in BOOLEAN /\ skipped \subseteq Nat
    BY <2>4
  <2> QED
    BY <2>2, <2>5, <2>6, <2>7, <2>8, Zenon DEF DeliveryTypeOK
<1> QED
  BY <1>1, <1>2, <1>3, <1>4 DEF TypeOK

LEMMA FragmentsType ==
    ASSUME NEW m \in Message \cup {Bye}, orderIndex \in Nat, splitId \in Nat
    PROVE  /\ Len(Fragments(m)) = Len(m)
           /\ \A i \in 1..Len(m) : Fragments(m)[i] \in Packet
<1> DEFINE n == Len(m)
           id == IF n > 1 THEN splitId % SplitIdMod ELSE 0
           order == Wire(orderIndex)
<1>1. n \in Nat /\ \A i \in 1..n : m[i] \in Chunk
  BY MessageType
<1>2. order \in Nat /\ id \in Nat
  BY WireType
<1>3. Fragments(m) = [i \in 1..n |-> [order |-> order, split |-> n > 1, splitId |-> id,
                        splitIndex |-> i - 1, splitCount |-> n, content |-> m[i]]]
  BY DEF Fragments
<1> HIDE DEF n, id, order
<1>4. ASSUME NEW i \in 1..n PROVE Fragments(m)[i] \in Packet
  <2>1. i - 1 \in Nat /\ m[i] \in Chunk /\ (n > 1) \in BOOLEAN
    BY <1>1
  <2> QED
    BY <1>1, <1>2, <1>3, <2>1 DEF Packet
<1>5. Len(Fragments(m)) = n
  BY <1>1, <1>3
<1> QED
  BY <1>4, <1>5 DEF n

\* Write and Disconnect: the writer's variables after Send.
LEMMA SendType ==
    ASSUME TypeOK, NEW m \in Message \cup {Bye}, seq + Len(m) <= MaxSeq, Send(m),
           UNCHANGED resends, stop' \in BOOLEAN, ioGivingUp' \in BOOLEAN, UNCHANGED crashed
    PROVE  WriterTypeOK' /\ datagrams' \subseteq Datagram
<1>1. /\ seq \in Nat /\ orderIndex \in Nat /\ splitId \in Nat
      /\ DOMAIN recQueue \subseteq 0..(seq - 1)
      /\ \A s \in DOMAIN recQueue : recQueue[s] \in Packet
  BY LimitAssumption, SMTT(30) DEF TypeOK, WriterTypeOK
<1>2. /\ Len(Fragments(m)) = Len(m) /\ Len(m) \in Nat
      /\ \A i \in 1..Len(m) : Fragments(m)[i] \in Packet
  BY <1>1, FragmentsType, MessageType
<1>3. Transmit(recQueue, Fragments(m))
  BY DEF Send
<1>4. /\ seq' = seq + Len(m)
      /\ DOMAIN recQueue' \subseteq 0..(seq' - 1)
      /\ recQueue' \in [DOMAIN recQueue' -> Packet]
      /\ \A d \in datagrams' \ datagrams : d \in [number : Nat, packet : Packet]
  BY <1>1, <1>2, <1>3, TransmitKeeps
<1>5. datagrams' \subseteq Datagram
  BY <1>4 DEF TypeOK, NetworkTypeOK, Datagram
<1>6. /\ written' \in Seq(Message \cup {Bye}) /\ splitOwner' \in Seq(Nat)
      /\ orderIndex' \in Nat /\ splitId' \in Nat
  <2>1. written \in Seq(Message \cup {Bye}) /\ splitOwner \in Seq(Nat)
    BY DEF TypeOK, WriterTypeOK
  <2>2. written' = Append(written, m) /\ orderIndex' = orderIndex + 1
    BY DEF Send
  <2>3. \/ splitId' = splitId /\ splitOwner' = splitOwner
        \/ splitId' = splitId + 1 /\ splitOwner' = Append(splitOwner, orderIndex)
    BY DEF Send
  <2>4. written' \in Seq(Message \cup {Bye})
    BY <2>1, <2>2, AppendProperties
  <2>5. splitOwner' \in Seq(Nat)
    <3>1. Append(splitOwner, orderIndex) \in Seq(Nat)
      BY <1>1, <2>1, AppendProperties
    <3> QED
      BY <2>1, <2>3, <3>1
  <2> QED
    BY <1>1, <2>2, <2>3, <2>4, <2>5
<1>7. seq' \in 0..MaxSeq
  BY <1>1, <1>2, <1>4
<1> QED
  BY <1>4, <1>5, <1>6, <1>7 DEF TypeOK, WriterTypeOK

\* CheckResend and HandleNACK: the writer's variables after Resend.
LEMMA ResendType ==
    ASSUME TypeOK, NEW S \in SUBSET (DOMAIN recQueue), NEW old \in Enumerations(S),
           seq + Cardinality(S) <= MaxSeq, Resend(old),
           resends' \in Nat, UNCHANGED stop, ioGivingUp' \in BOOLEAN, crashed' \in BOOLEAN
    PROVE  WriterTypeOK' /\ datagrams' \subseteq Datagram
<1> DEFINE queue == [s \in DOMAIN recQueue \ {old[i] : i \in 1..Len(old)} |-> recQueue[s]]
           packets == [i \in 1..Len(old) |-> recQueue[old[i]]]
<1>1. /\ seq \in Nat /\ DOMAIN recQueue \subseteq 0..(seq - 1)
      /\ \A s \in DOMAIN recQueue : recQueue[s] \in Packet
  BY LimitAssumption, SMTT(30) DEF TypeOK, WriterTypeOK
<1>2. /\ Len(old) \in Nat /\ Len(old) = Cardinality(S)
      /\ \A i \in 1..Len(old) : old[i] \in DOMAIN recQueue
  <2>1. seq \in Nat /\ S \in SUBSET (0..(seq - 1)) /\ S \subseteq DOMAIN recQueue
    BY <1>1
  <2>2. /\ Cardinality(S) \in Nat /\ Len(old) = Cardinality(S)
        /\ \A i \in 1..Len(old) : old[i] \in S
    BY <2>1, EnumerationType, Zenon
  <2> QED
    BY <2>1, <2>2, Zenon
<1>3. /\ Len(packets) = Len(old)
      /\ \A i \in 1..Len(packets) : packets[i] \in Packet
  BY <1>1, <1>2
<1>4. DOMAIN queue \subseteq 0..(seq - 1) /\ \A s \in DOMAIN queue : queue[s] \in Packet
  BY <1>1
<1>5. Transmit(queue, packets)
  BY DEF Resend
<1> HIDE DEF queue, packets
<1>6. /\ seq' = seq + Len(old)
      /\ DOMAIN recQueue' \subseteq 0..(seq' - 1)
      /\ recQueue' \in [DOMAIN recQueue' -> Packet]
      /\ \A d \in datagrams' \ datagrams : d \in [number : Nat, packet : Packet]
  BY <1>1, <1>2, <1>3, <1>4, <1>5, TransmitKeeps
<1>7. datagrams' \subseteq Datagram
  BY <1>6 DEF TypeOK, NetworkTypeOK, Datagram
<1>8. seq' \in 0..MaxSeq
  BY <1>1, <1>2, <1>6
<1> QED
  BY <1>6, <1>7, <1>8 DEF Resend, TypeOK, WriterTypeOK

LEMMA TakeFeedbackType ==
    ASSUME TypeOK, NEW f, TakeFeedback(f)
    PROVE  feedback' \subseteq Feedback /\ faults' \in 0..MaxFaults
  BY LimitAssumption DEF TakeFeedback, Fault, TypeOK, NetworkTypeOK

LEMMA TakeDatagramType ==
    ASSUME TypeOK, NEW d, TakeDatagram(d)
    PROVE  datagrams' \subseteq Datagram /\ faults' \in 0..MaxFaults
  BY LimitAssumption DEF TakeDatagram, Fault, TypeOK, NetworkTypeOK

LEMMA AcknowledgementsType ==
    ASSUME NEW kind \in {"ACK", "NACK"}, NEW numbers \in SUBSET Nat
    PROVE  Acknowledgements(kind, numbers) \subseteq Feedback
<1> SUFFICES ASSUME NEW f \in Acknowledgements(kind, numbers) PROVE f \in Feedback
  OBVIOUS
<1>1. PICK first \in numbers : f = [kind |-> kind, numbers |-> {n \in numbers : n >= first}]
  BY DEF Acknowledgements
<1>2. {n \in numbers : n >= first} \in SUBSET Nat
  OBVIOUS
<1> QED
  BY <1>1, <1>2 DEF Feedback

\* packQueue, fetched, skipped and remoteStop after receivePacket.
LEMMA ReceivePacketType ==
    ASSUME DeliveryTypeOK, NEW order \in Nat, NEW m \in Seq(Chunk), ReceivePacket(order, m)
    PROVE  /\ packQueue'.lowest \in Nat /\ packQueue'.highest \in Nat
           /\ DOMAIN packQueue'.data \subseteq Nat
           /\ packQueue'.data \in [DOMAIN packQueue'.data -> Seq(Chunk)]
           /\ fetched' \in Seq(Seq(Chunk))
           /\ skipped' \subseteq Nat
           /\ remoteStop' \in BOOLEAN
<1>1. CASE UNCHANGED <<packQueue, fetched, skipped, remoteStop>>
  BY <1>1 DEF DeliveryTypeOK
<1>2. CASE ~AlreadyQueued(order) /\ ~UNCHANGED <<packQueue, fetched, skipped, remoteStop>>
  <2> DEFINE lowest  == packQueue.lowest
             highest == IF order >= packQueue.highest THEN order + 1 ELSE packQueue.highest
             keys    == DOMAIN packQueue.data \cup {order}
             data    == [k \in keys |-> IF k = order THEN m ELSE packQueue.data[k]]
  <2>1. PICK end \in lowest..highest :
           /\ IsRunEnd(lowest, end, keys)
           /\ fetched' = fetched \o [i \in 1..(end - lowest) |-> data[lowest + i - 1]]
           /\ packQueue' = [lowest |-> end, highest |-> highest,
                            data |-> [k \in keys \ (lowest..(end - 1)) |-> data[k]]]
           /\ \E last \in {end - 1} \cup {k \in lowest..(end - 1) : data[k] \in MayThrow} :
                /\ skipped' = skipped \cup ((last + 1)..(end - 1))
                /\ remoteStop' = (\E k \in lowest..last : data[k] = Bye)
    BY <1>2 DEF ReceivePacket
  <2>2. /\ lowest \in Nat /\ highest \in Nat /\ end \in Nat /\ keys \subseteq Nat
        /\ fetched \in Seq(Seq(Chunk))
    BY DEF DeliveryTypeOK
  <2>3. \A k \in keys : data[k] \in Seq(Chunk)
    BY DEF DeliveryTypeOK
  <2>4. \A i \in lowest..(end - 1) : i \in keys
    BY <2>1 DEF IsRunEnd
  <2> HIDE DEF lowest, highest, keys, data
  <2> DEFINE run == [i \in 1..(end - lowest) |-> data[lowest + i - 1]]
             rest == [k \in keys \ (lowest..(end - 1)) |-> data[k]]
  <2>5. end - lowest \in Nat
    BY <2>1, <2>2
  <2>6. run \in Seq(Seq(Chunk))
    <3>1. ASSUME NEW i \in 1..(end - lowest) PROVE data[lowest + i - 1] \in Seq(Chunk)
      <4>1. lowest + i - 1 \in lowest..(end - 1)
        BY <2>2, <2>5
      <4> QED
        BY <2>3, <2>4, <4>1
    <3> QED
      BY <2>5, <3>1
  <2>7. fetched' = fetched \o run
    BY <2>1
  <2>8. /\ packQueue'.lowest = end /\ packQueue'.highest = highest
        /\ packQueue'.data = rest
    BY <2>1
  <2>9. DOMAIN rest \subseteq Nat /\ rest \in [DOMAIN rest -> Seq(Chunk)]
    BY <2>2, <2>3
  <2> HIDE DEF run, rest
  <2>10. fetched' \in Seq(Seq(Chunk))
    BY <2>2, <2>6, <2>7
  <2>11. remoteStop' \in BOOLEAN
    BY <2>1
  <2>12. skipped' \subseteq Nat
    <3>1. PICK last \in {end - 1} \cup {k \in lowest..(end - 1) : data[k] \in MayThrow} :
            skipped' = skipped \cup ((last + 1)..(end - 1))
      BY <2>1
    <3>2. last + 1 \in Nat
      BY <2>1, <2>2
    <3>3. (last + 1)..(end - 1) \subseteq Nat
      BY <2>2, <3>2
    <3>4. skipped \subseteq Nat
      BY DEF DeliveryTypeOK
    <3> QED
      BY <3>1, <3>3, <3>4
  <2> QED
    BY <2>2, <2>8, <2>9, <2>10, <2>11, <2>12
<1> QED
  BY <1>1, <1>2 DEF ReceivePacket

\* splits and the rest of deliveryVars after the packet of a datagram.
LEMMA HandlePacketType ==
    ASSUME DeliveryTypeOK, NEW p \in Packet, HandlePacket(p)
    PROVE  DeliveryTypeOK'
<1>1. /\ p.order \in Nat /\ p.splitId \in Nat /\ p.splitIndex \in Nat
      /\ p.splitCount \in Nat /\ p.content \in Chunk
  BY DEF Packet
<1>2. CASE ReceivePacket(p.order, <<p.content>>) /\ UNCHANGED splits
  <2>1. <<p.content>> \in Seq(Chunk)
    BY <1>1
  <2> QED
    BY <1>1, <1>2, <2>1, ReceivePacketType DEF DeliveryTypeOK
<1>3. CASE HandleSplitPacket(p)
  <2> DEFINE entry == IF p.splitId \in DOMAIN splits THEN splits[p.splitId]
                      ELSE [i \in 1..p.splitCount |-> NoChunk]
             chunks == [entry EXCEPT ![p.splitIndex + 1] = p.content]
             Keep(e) == splits' = [i \in DOMAIN splits \cup {p.splitId} |->
                                     IF i = p.splitId THEN e ELSE splits[i]]
  <2>1. entry \in Seq(Chunk \cup {NoChunk})
    <3>1. [i \in 1..p.splitCount |-> NoChunk] \in Seq(Chunk \cup {NoChunk})
      BY <1>1
    <3> QED
      BY <3>1 DEF DeliveryTypeOK
  <2>2. p.splitIndex + 1 \in DOMAIN entry => chunks \in Seq(Chunk \cup {NoChunk})
    <3> SUFFICES ASSUME p.splitIndex + 1 \in DOMAIN entry
                 PROVE  chunks \in Seq(Chunk \cup {NoChunk})
      OBVIOUS
    <3> HIDE DEF entry
    <3>1. p.splitIndex + 1 \in 1..Len(entry)
      BY <2>1, LenProperties
    <3> QED
      BY <1>1, <2>1, <3>1, ExceptSeq
  <2>3. \A e \in Seq(Chunk \cup {NoChunk}) : Keep(e) =>
            /\ DOMAIN splits' \subseteq Nat
            /\ splits' \in [DOMAIN splits' -> Seq(Chunk \cup {NoChunk})]
    BY <1>1 DEF DeliveryTypeOK
  <2>4. CASE UNCHANGED deliveryVars
    BY <2>4 DEF deliveryVars, DeliveryTypeOK
  <2>5. CASE Keep(entry) /\ UNCHANGED <<packQueue, fetched, skipped, remoteStop>>
    BY <2>1, <2>3, <2>5 DEF DeliveryTypeOK
  <2>6. CASE /\ p.splitIndex + 1 \in DOMAIN entry
             /\ Keep(chunks) /\ UNCHANGED <<packQueue, fetched, skipped, remoteStop>>
    BY <2>2, <2>3, <2>6 DEF DeliveryTypeOK
  <2>7. CASE /\ p.splitIndex + 1 \in DOMAIN entry
             /\ \A i \in DOMAIN chunks : chunks[i] # NoChunk
             /\ splits' = [i \in DOMAIN splits \ {p.splitId} |-> splits[i]]
             /\ ReceivePacket(p.order, chunks)
    <3> HIDE DEF chunks
    <3>1. chunks \in Seq(Chunk \cup {NoChunk})
      BY <2>2, <2>7
    <3>2. chunks \in [1..Len(chunks) -> Chunk] /\ Len(chunks) \in Nat
      BY <2>7, <3>1
    <3>3. chunks \in Seq(Chunk)
      BY <3>2
    <3>4. /\ DOMAIN splits' \subseteq Nat
          /\ splits' \in [DOMAIN splits' -> Seq(Chunk \cup {NoChunk})]
      BY <2>7 DEF DeliveryTypeOK
    <3> QED
      BY <1>1, <2>7, <3>3, <3>4, ReceivePacketType DEF DeliveryTypeOK
  <2> QED
    BY <1>3, <2>4, <2>5, <2>6, <2>7 DEF HandleSplitPacket
<1> QED
  BY <1>2, <1>3 DEF HandlePacket

\* dataQueue, missingDatagramTimes and feedback after put, clear and missing.
LEMMA AdvanceType ==
    ASSUME TypeOK, NEW n \in Nat, Advance(n)
    PROVE  /\ dataQueue' \in [lowest : Nat, highest : Nat, data : SUBSET Nat]
           /\ missingDatagramTimes' \in 0..(MissingLimit - 1)
           /\ feedback' \subseteq Feedback
<1> DEFINE highest == IF n >= dataQueue.highest THEN n + 1 ELSE dataQueue.highest
           data    == dataQueue.data \cup {n}
<1>1. /\ dataQueue.lowest \in Nat /\ highest \in Nat /\ data \subseteq Nat
      /\ missingDatagramTimes \in Nat /\ MissingLimit \in Nat \ {0}
      /\ feedback \subseteq Feedback
  BY LimitAssumption DEF TypeOK, WindowTypeOK, NetworkTypeOK
<1>2. PICK end \in dataQueue.lowest..highest :
        LET times == IF end = dataQueue.lowest THEN missingDatagramTimes + 1 ELSE 0
        IN  \/ /\ times < MissingLimit
               /\ missingDatagramTimes' = times
               /\ dataQueue' = [lowest |-> end, highest |-> highest,
                                data |-> Cleared(data, end)]
               /\ UNCHANGED feedback
            \/ /\ times >= MissingLimit
               /\ missingDatagramTimes' = 0
               /\ dataQueue' = [lowest |-> highest, highest |-> highest, data |-> {}]
               /\ feedback' = feedback \cup Acknowledgements("NACK", Missing(data, end, highest))
  BY DEF Advance
<1> HIDE DEF highest, data
<1>3. Missing(data, end, highest) \in SUBSET Nat
  BY <1>1 DEF Missing
<1>4. Acknowledgements("NACK", Missing(data, end, highest)) \subseteq Feedback
  BY <1>3, AcknowledgementsType
<1> DEFINE times == IF end = dataQueue.lowest THEN missingDatagramTimes + 1 ELSE 0
<1>5. CASE /\ times < MissingLimit
           /\ missingDatagramTimes' = times
           /\ dataQueue' = [lowest |-> end, highest |-> highest,
                            data |-> Cleared(data, end)]
           /\ UNCHANGED feedback
  <2>1. end \in Nat /\ times \in Nat
    BY <1>1
  <2>2. Cleared(data, end) \in SUBSET Nat
    BY <1>1 DEF Cleared
  <2> HIDE DEF times
  <2> QED
    BY <1>1, <1>5, <2>1, <2>2
<1>6. CASE /\ missingDatagramTimes' = 0
           /\ dataQueue' = [lowest |-> highest, highest |-> highest, data |-> {}]
           /\ feedback' = feedback \cup Acknowledgements("NACK", Missing(data, end, highest))
  BY <1>1, <1>4, <1>6
<1> QED
  BY <1>2, <1>5, <1>6

LEMMA StepType == TypeOK /\ [Next]_vars => TypeOK'
<1> SUFFICES ASSUME TypeOK, [Next]_vars PROVE TypeOK'
  OBVIOUS
<1>0. DOMAIN recQueue \subseteq 0..(seq - 1) /\ seq \in Nat /\ MaxSeq \in Nat
  BY LimitAssumption DEF TypeOK, WriterTypeOK
<1>1. ASSUME NEW m \in Message, Write(m) PROVE TypeOK'
  <2>1. WriterTypeOK' /\ datagrams' \subseteq Datagram
    BY <1>1, SendType DEF Write, TypeOK, WriterTypeOK
  <2> QED
    BY <1>1, <2>1 DEF Write, receiverVars, deliveryVars, TypeOK, NetworkTypeOK,
                      WindowTypeOK, DeliveryTypeOK
<1>2. ASSUME DisconnectBody, ioGivingUp' \in BOOLEAN PROVE TypeOK'
  <2>1. seq + Len(Bye) <= MaxSeq
    BY <1>0, <1>2, MessageAssumption DEF DisconnectBody
  <2>2. stop' \in BOOLEAN /\ UNCHANGED resends /\ UNCHANGED crashed /\ Send(Bye)
    BY <1>2 DEF DisconnectBody
  <2>3. WriterTypeOK' /\ datagrams' \subseteq Datagram
    BY <1>2, <2>1, <2>2, SendType
  <2> QED
    BY <1>2, <2>3 DEF DisconnectBody, receiverVars, deliveryVars, TypeOK, NetworkTypeOK,
                      WindowTypeOK, DeliveryTypeOK
<1>3. CASE Disconnect
  BY <1>2, <1>3 DEF Disconnect, TypeOK, WriterTypeOK
<1>4. CASE CheckResend
  <2>0. PICK latest \in DOMAIN recQueue :
          LET late == {s \in DOMAIN recQueue : s <= latest} IN
          /\ seq + Cardinality(late) <= MaxSeq
          /\ \E old \in Enumerations(late) : Resend(old)
          /\ resends' = resends + Cardinality(late)
          /\ ioGivingUp' = (resends' > MaxResends)
    BY <1>4 DEF CheckResend
  <2> DEFINE late == {s \in DOMAIN recQueue : s <= latest}
  <2>1. PICK old \in Enumerations(late) : Resend(old)
    BY <2>0
  <2>2. late \in SUBSET (DOMAIN recQueue) /\ late \in SUBSET (0..(seq - 1))
    BY <1>0
  <2>3. Cardinality(late) \in Nat
    BY <1>0, <2>1, <2>2, EnumerationType
  <2>4. resends' \in Nat /\ ioGivingUp' \in BOOLEAN
    BY <2>0, <2>3 DEF TypeOK, WriterTypeOK
  <2>5. UNCHANGED <<stop, crashed, feedback, faults, receiverVars>>
    BY <1>4 DEF CheckResend
  <2>6. WriterTypeOK' /\ datagrams' \subseteq Datagram
    BY <2>0, <2>1, <2>2, <2>4, <2>5, ResendType DEF TypeOK, WriterTypeOK
  <2> QED
    BY <2>5, <2>6 DEF receiverVars, deliveryVars, TypeOK, NetworkTypeOK,
                      WindowTypeOK, DeliveryTypeOK
<1>5. CASE GiveUp
  <2>1. CASE DisconnectBody
    BY <1>2, <1>5, <2>1 DEF GiveUp
  <2>2. CASE UNCHANGED <<writerVars, resends, stop, crashed, datagrams, feedback, faults,
                         receiverVars>>
    BY <1>5, <2>2 DEF GiveUp, writerVars, receiverVars, deliveryVars, TypeOK, WriterTypeOK,
                      NetworkTypeOK, WindowTypeOK, DeliveryTypeOK
  <2> QED
    BY <1>5, <2>1, <2>2 DEF GiveUp
<1>6. ASSUME NEW f \in feedback, HandleACK(f) PROVE TypeOK'
  <2>1. feedback' \subseteq Feedback /\ faults' \in 0..MaxFaults
    BY <1>6, TakeFeedbackType DEF HandleACK
  <2>2. /\ DOMAIN recQueue' \subseteq 0..(seq' - 1)
        /\ recQueue' \in [DOMAIN recQueue' -> Packet]
    BY <1>6 DEF HandleACK, TypeOK, WriterTypeOK
  <2>3. resends' \in Nat
    BY <1>6 DEF HandleACK, TypeOK, WriterTypeOK
  <2> QED
    BY <1>6, <2>1, <2>2, <2>3 DEF HandleACK, receiverVars, deliveryVars, TypeOK,
       WriterTypeOK, NetworkTypeOK, WindowTypeOK, DeliveryTypeOK
<1>7. ASSUME NEW f \in feedback, HandleNACK(f) PROVE TypeOK'
  <2> DEFINE unknown == f.numbers \ DOMAIN recQueue
             known   == {n \in f.numbers : \A u \in unknown : n < u}
  <2>1. feedback' \subseteq Feedback /\ faults' \in 0..MaxFaults
    BY <1>7, TakeFeedbackType DEF HandleNACK
  <2>2. known \in SUBSET (DOMAIN recQueue)
    <3>1. f.numbers \in SUBSET Nat
      BY DEF TypeOK, NetworkTypeOK, Feedback
    <3>2. ASSUME NEW n \in known PROVE n \in DOMAIN recQueue
      <4>1. n \in Nat /\ (n \in unknown => n < n)
        BY <3>1
      <4> QED
        BY <4>1
    <3> QED
      BY <3>2
  <2>3. PICK old \in Enumerations(known) : Resend(old)
    BY <1>7 DEF HandleNACK
  <2>4. /\ seq + Cardinality(known) <= MaxSeq /\ crashed' = (unknown # {})
        /\ UNCHANGED <<resends, stop, ioGivingUp, receiverVars>>
    BY <1>7 DEF HandleNACK
  <2> HIDE DEF unknown, known
  <2>5. WriterTypeOK' /\ datagrams' \subseteq Datagram
    BY <2>2, <2>3, <2>4, ResendType DEF TypeOK, WriterTypeOK
  <2> QED
    BY <2>1, <2>4, <2>5 DEF receiverVars, deliveryVars, TypeOK, NetworkTypeOK,
                            WindowTypeOK, DeliveryTypeOK
<1>8. CASE FlushACKs
  <2>1. feedback' \subseteq Feedback
    BY <1>8, AcknowledgementsType DEF FlushACKs, TypeOK, NetworkTypeOK, WindowTypeOK
  <2> QED
    BY <1>8, <2>1 DEF FlushACKs, writerVars, deliveryVars, TypeOK, WriterTypeOK,
                      NetworkTypeOK, WindowTypeOK, DeliveryTypeOK
<1>9. ASSUME NEW d \in datagrams, ReceiveDatagram(d) PROVE TypeOK'
  <2>1. datagrams' \subseteq Datagram /\ faults' \in 0..MaxFaults
    BY <1>9, TakeDatagramType DEF ReceiveDatagram
  <2>2. d.number \in Nat /\ d.packet \in Packet
    BY DEF TypeOK, NetworkTypeOK, Datagram
  <2>3. datagramsReceived' \subseteq Nat
    BY <1>9, <2>2 DEF ReceiveDatagram, TypeOK, WindowTypeOK
  <2>4. /\ dataQueue' \in [lowest : Nat, highest : Nat, data : SUBSET Nat]
        /\ missingDatagramTimes' \in 0..(MissingLimit - 1)
        /\ feedback' \subseteq Feedback
    <3>1. CASE UNCHANGED <<dataQueue, missingDatagramTimes, feedback, deliveryVars>>
      BY <3>1 DEF TypeOK, WindowTypeOK, NetworkTypeOK
    <3>2. CASE Advance(d.number)
      BY <2>2, <3>2, AdvanceType
    <3> QED
      BY <1>9, <3>1, <3>2 DEF ReceiveDatagram
  <2>5. DeliveryTypeOK'
    <3>1. CASE UNCHANGED deliveryVars
      BY <3>1 DEF deliveryVars, TypeOK, DeliveryTypeOK
    <3>2. CASE HandlePacket(d.packet)
      BY <2>2, <3>2, HandlePacketType DEF TypeOK
    <3> QED
      BY <1>9, <3>1, <3>2 DEF ReceiveDatagram
  <2>6. WriterTypeOK'
    BY <1>9 DEF ReceiveDatagram, writerVars, TypeOK, WriterTypeOK
  <2> QED
    BY <2>1, <2>3, <2>4, <2>5, <2>6 DEF TypeOK, NetworkTypeOK, WindowTypeOK
<1>10. CASE Lose
  <2>1. datagrams' \subseteq datagrams /\ feedback' \subseteq feedback
    BY <1>10 DEF Lose
  <2>2. faults' \in 0..MaxFaults
    BY <1>10, LimitAssumption DEF Lose, Fault, TypeOK, NetworkTypeOK
  <2>3. UNCHANGED <<writerVars, resends, stop, ioGivingUp, crashed, receiverVars>>
    BY <1>10 DEF Lose
  <2>4. WriterTypeOK'
    BY <2>3 DEF writerVars, TypeOK, WriterTypeOK
  <2>5. WindowTypeOK' /\ DeliveryTypeOK'
    BY <2>3 DEF receiverVars, deliveryVars, TypeOK, WindowTypeOK, DeliveryTypeOK
  <2>6. NetworkTypeOK'
    BY <2>1, <2>2 DEF TypeOK, NetworkTypeOK
  <2> QED
    BY <2>4, <2>5, <2>6 DEF TypeOK
<1>11. CASE UNCHANGED vars
  BY <1>11 DEF vars, writerVars, receiverVars, deliveryVars, TypeOK, WriterTypeOK,
     NetworkTypeOK, WindowTypeOK, DeliveryTypeOK
<1> QED
  BY <1>1, <1>3, <1>4, <1>5, <1>6, <1>7, <1>8, <1>9, <1>10, <1>11 DEF Next

\* Every reachable state is well typed: in particular each packet that is kept for
\* resending has a sequence number below seq.
THEOREM TypeCorrect == Spec => []TypeOK
  BY InitType, StepType, PTL DEF Spec

--------------------------------------------------------------------------------
(* Messages are handled in the order of Write.                              *)

LEMMA InitStreamInv == Init => StreamInv
<1> SUFFICES ASSUME Init PROVE StreamInv
  OBVIOUS
<1>1. written = <<>> /\ splitOwner = <<>> /\ orderIndex = 0 /\ splitId = 0 /\ fetched = <<>>
      /\ skipped = {}
  BY DEF Init
<1>2. HistoryInv
  BY <1>1 DEF HistoryInv
<1>3. DOMAIN recQueue = {} /\ datagrams = {} /\ DOMAIN splits = {}
  BY DEF Init
<1>4. PacketsInv /\ SplitsInv
  BY <1>3 DEF PacketsInv, SplitsInv
<1>5. packQueue.lowest = 0 /\ DOMAIN packQueue.data = {}
  BY DEF Init
<1>6. QueueInv
  BY <1>1, <1>5 DEF QueueInv
<1> QED
  BY <1>2, <1>4, <1>6 DEF StreamInv

\* Appending to a sequence keeps what it holds.
LEMMA AppendKeeps ==
    ASSUME NEW S, NEW s \in Seq(S), NEW x \in S
    PROVE  /\ Len(s) \in Nat /\ Len(Append(s, x)) = Len(s) + 1
           /\ \A i \in 1..Len(s) : Append(s, x)[i] = s[i]
           /\ Append(s, x)[Len(s) + 1] = x
           /\ DOMAIN Append(s, x) = 1..(Len(s) + 1)
  BY AppendProperties

\* What Send does to the two histories.
LEMMA SendHistory ==
    ASSUME TypeOK, HistoryInv, NEW m \in Message \cup {Bye}, Send(m)
    PROVE  /\ orderIndex \in Nat /\ splitId \in Nat
           /\ Len(written') = orderIndex' /\ orderIndex' = orderIndex + 1
           /\ \A k \in 0..(orderIndex - 1) : written'[k + 1] = written[k + 1]
           /\ written'[orderIndex + 1] = m
           /\ Len(splitOwner') = splitId' /\ splitId' \in Nat /\ splitId <= splitId'
           /\ \A i \in 1..splitId : splitOwner'[i] = splitOwner[i]
           /\ Len(m) > 1 => splitId' = splitId + 1 /\ splitOwner'[splitId + 1] = orderIndex
           /\ \A i \in 1..splitId' : splitOwner'[i] < orderIndex'
<1>1. /\ written \in Seq(Message \cup {Bye}) /\ splitOwner \in Seq(Nat)
      /\ orderIndex \in Nat /\ splitId \in Nat
  BY DEF TypeOK, WriterTypeOK
<1>2. /\ Len(written) = orderIndex /\ Len(splitOwner) = splitId
      /\ \A i \in 1..splitId : splitOwner[i] < orderIndex
      /\ \A i \in 1..splitId : splitOwner[i] \in Nat
  BY <1>1 DEF HistoryInv
<1>3. written' = Append(written, m) /\ orderIndex' = orderIndex + 1
  BY DEF Send
<1>4. /\ Len(written') = orderIndex' /\ written'[orderIndex + 1] = m
      /\ \A i \in 1..orderIndex : written'[i] = written[i]
  BY <1>1, <1>2, <1>3, AppendKeeps
<1>5. \A k \in 0..(orderIndex - 1) : written'[k + 1] = written[k + 1]
  BY <1>1, <1>4
<1>6. /\ Len(Append(splitOwner, orderIndex)) = splitId + 1
      /\ \A i \in 1..splitId : Append(splitOwner, orderIndex)[i] = splitOwner[i]
      /\ Append(splitOwner, orderIndex)[splitId + 1] = orderIndex
  BY <1>1, <1>2, AppendKeeps
<1>7. CASE Len(m) = 1 /\ UNCHANGED <<splitId, splitOwner>>
  BY <1>1, <1>2, <1>3, <1>4, <1>5, <1>7
<1>8. CASE Len(m) > 1 /\ splitId' = splitId + 1 /\ splitOwner' = Append(splitOwner, orderIndex)
  <2>1. ASSUME NEW i \in 1..splitId' PROVE splitOwner'[i] < orderIndex'
    BY <1>1, <1>2, <1>3, <1>6, <1>8
  <2> QED
    BY <1>1, <1>2, <1>3, <1>4, <1>5, <1>6, <1>8, <2>1
<1> QED
  BY <1>7, <1>8 DEF Send

\* A genuine packet stays genuine when another message is written.
LEMMA GenuineKept ==
    ASSUME TypeOK, HistoryInv, NEW m \in Message \cup {Bye}, Send(m),
           NEW p \in Packet, Genuine(p)
    PROVE  Genuine(p)'
<1>1. p.order \in Nat /\ p.splitId \in Nat
  BY DEF Packet
<1>2. p.order \in 0..(orderIndex - 1)
  BY <1>1, SendHistory DEF Genuine
<1>3. written'[p.order + 1] = written[p.order + 1] /\ p.order < orderIndex'
  BY <1>2, SendHistory
<1>4. p.split => p.splitId < splitId' /\ splitOwner'[p.splitId + 1] = p.order
  <2> SUFFICES ASSUME p.split PROVE p.splitId < splitId' /\ splitOwner'[p.splitId + 1] = p.order
    OBVIOUS
  <2>1. p.splitId < splitId /\ splitOwner[p.splitId + 1] = p.order
    BY DEF Genuine
  <2>2. p.splitId + 1 \in 1..splitId
    BY <1>1, <2>1, SendHistory
  <2> QED
    BY <1>1, <2>1, <2>2, SendHistory
<1> QED
  BY <1>3, <1>4 DEF Genuine

\* The fragments Send makes are genuine, unless an index wraps.
LEMMA FragmentsGenuine ==
    ASSUME TypeOK, HistoryInv, NEW m \in Message \cup {Bye}, Send(m), NoWrap',
           NEW i \in 1..Len(m), NEW p, p = Fragments(m)[i]
    PROVE  Genuine(p)'
<1> DEFINE id == IF Len(m) > 1 THEN splitId % SplitIdMod ELSE 0
<1>1. p = [order |-> Wire(orderIndex), split |-> Len(m) > 1, splitId |-> id,
           splitIndex |-> i - 1, splitCount |-> Len(m), content |-> m[i]]
  BY DEF Fragments
<1>2. Wire(orderIndex) = orderIndex
  <2>1. orderIndex \in Nat /\ orderIndex < WireMod
    BY SendHistory, LimitAssumption DEF NoWrap
  <2> QED
    BY <2>1, WireSmall, LimitAssumption DEF Wire
<1>3. Len(m) > 1 => id = splitId
  <2> SUFFICES ASSUME Len(m) > 1 PROVE splitId % SplitIdMod = splitId
    OBVIOUS
  <2>1. splitId \in Nat /\ splitId < SplitIdMod
    BY SendHistory, LimitAssumption DEF NoWrap
  <2> QED
    BY <2>1, WireSmall, LimitAssumption
<1> HIDE DEF id
<1>4. /\ p.order = orderIndex /\ p.split = (Len(m) > 1) /\ p.splitId = id
      /\ p.splitIndex = i - 1 /\ p.splitCount = Len(m) /\ p.content = m[i]
  BY <1>1, <1>2
<1>5. i - 1 + 1 = i /\ DOMAIN m = 1..Len(m)
  BY MessageType
<1>6. written'[p.order + 1] = m /\ p.order < orderIndex'
  BY <1>4, SendHistory
<1>7. Len(m) > 1 => p.splitId < splitId' /\ splitOwner'[p.splitId + 1] = p.order
  BY <1>3, <1>4, SendHistory
<1> QED
  BY <1>4, <1>5, <1>6, <1>7 DEF Genuine

\* Write and Disconnect keep the invariant.
LEMMA SendKeepsInv ==
    ASSUME TypeOK, StreamInv, NEW m \in Message \cup {Bye}, Send(m), UNCHANGED deliveryVars
    PROVE  StreamInv'
<1>1. HistoryInv
  BY DEF StreamInv
<1>2. HistoryInv'
  BY <1>1, SendHistory DEF HistoryInv
<1> SUFFICES ASSUME NoWrap' PROVE PacketsInv' /\ SplitsInv' /\ QueueInv'
  BY <1>2 DEF StreamInv
<1>3. NoWrap /\ PacketsInv /\ SplitsInv /\ QueueInv
  <2>1. orderIndex <= orderIndex' /\ splitId <= splitId' /\ orderIndex' \in Nat
        /\ orderIndex \in Nat /\ splitId \in Nat /\ splitId' \in Nat
    BY <1>1, SendHistory
  <2>2. NoWrap
    BY <2>1, LimitAssumption DEF NoWrap
  <2> QED
    BY <2>2 DEF StreamInv
<1>4. PacketsInv'
  <2> DEFINE P == {p \in Packet : Genuine(p)'}
  <2>1. /\ seq \in Nat /\ DOMAIN recQueue \subseteq 0..(seq - 1)
        /\ \A s \in DOMAIN recQueue : recQueue[s] \in Packet
        /\ \A d \in datagrams : d.packet \in Packet
    BY LimitAssumption, SMTT(30) DEF TypeOK, WriterTypeOK, NetworkTypeOK, Datagram
  <2>2. \A s \in DOMAIN recQueue : recQueue[s] \in P
    BY <1>1, <1>3, <2>1, GenuineKept DEF PacketsInv
  <2>3. \A d \in datagrams : d.packet \in P
    BY <1>1, <1>3, <2>1, GenuineKept DEF PacketsInv
  <2>4. /\ Len(Fragments(m)) = Len(m) /\ Len(m) \in Nat
        /\ \A i \in 1..Len(m) : Fragments(m)[i] \in Packet
    BY <1>1, FragmentsType, MessageType, SendHistory
  <2>5. \A i \in 1..Len(m) : Fragments(m)[i] \in P
    BY <1>1, <2>4, FragmentsGenuine
  <2>6. Transmit(recQueue, Fragments(m))
    BY DEF Send
  <2> HIDE DEF P
  <2>7. /\ \A s \in DOMAIN recQueue' : recQueue'[s] \in P
        /\ \A d \in datagrams' \ datagrams : d.packet \in P
    BY <2>1, <2>2, <2>4, <2>5, <2>6, TransmitKeeps
  <2>8. \A p \in P : Genuine(p)'
    BY DEF P
  <2> QED
    BY <2>3, <2>7, <2>8 DEF PacketsInv
<1>5. SplitsInv'
  <2> SUFFICES ASSUME NEW id \in DOMAIN splits
               PROVE  /\ id < splitId'
                      /\ Len(splits[id]) = Len(written'[splitOwner'[id + 1] + 1])
                      /\ \A i \in DOMAIN splits[id] : splits[id][i] \in
                            {NoChunk, written'[splitOwner'[id + 1] + 1][i]}
    BY DEF SplitsInv, deliveryVars
  <2>1. id \in Nat /\ id < splitId
    BY <1>3 DEF SplitsInv, TypeOK, DeliveryTypeOK
  <2>2. id + 1 \in 1..splitId
    BY <1>1, <2>1, SendHistory
  <2>3. splitOwner'[id + 1] = splitOwner[id + 1]
    BY <1>1, <2>2, SendHistory
  <2>4. splitOwner[id + 1] \in 0..(orderIndex - 1)
    BY <1>1, <2>2, SendHistory DEF HistoryInv, TypeOK, WriterTypeOK
  <2>5. written'[splitOwner[id + 1] + 1] = written[splitOwner[id + 1] + 1]
    BY <1>1, <2>4, SendHistory
  <2>6. id < splitId'
    BY <1>1, <2>1, SendHistory
  <2> QED
    BY <1>3, <2>3, <2>5, <2>6 DEF SplitsInv
<1>6. QueueInv'
  <2>1. UNCHANGED <<packQueue, fetched>>
    BY DEF deliveryVars
  <2>2. fetched \in Seq(Seq(Chunk)) /\ DOMAIN packQueue.data \subseteq Nat /\ orderIndex \in Nat
    BY DEF TypeOK, DeliveryTypeOK, WriterTypeOK
  <2>3. orderIndex' = orderIndex + 1
        /\ \A k \in 0..(orderIndex - 1) : written'[k + 1] = written[k + 1]
    BY <1>1, SendHistory
  <2>4. ASSUME NEW k \in DOMAIN packQueue.data
        PROVE  k < orderIndex' /\ packQueue.data[k] = written'[k + 1]
    BY <1>3, <2>2, <2>3 DEF QueueInv
  <2>5. Len(fetched) \in Nat /\ Len(fetched) <= orderIndex
    BY <1>3, <2>2 DEF QueueInv
  <2>6. ASSUME NEW i \in 1..Len(fetched) PROVE fetched[i] = written'[i]
    <3>1. i - 1 \in 0..(orderIndex - 1) /\ i - 1 + 1 = i
      BY <2>2, <2>5
    <3>2. written'[i - 1 + 1] = written[i - 1 + 1]
      BY <2>3, <3>1
    <3> QED
      BY <1>3, <3>1, <3>2 DEF QueueInv
  <2>7. packQueue.lowest = Len(fetched) /\ Len(fetched) <= orderIndex'
    BY <1>3, <2>2, <2>3, <2>5 DEF QueueInv
  <2>8. ASSUME NEW k \in skipped' PROVE k < Len(fetched') /\ Excused(k)'
    <3>1. skipped' = skipped /\ skipped \subseteq Nat /\ fetched' = fetched
      BY DEF deliveryVars, TypeOK, DeliveryTypeOK
    <3>2. k < Len(fetched) /\ Excused(k) /\ k \in Nat
      BY <1>3, <3>1 DEF QueueInv
    <3>3. PICK j \in 0..(k - 1) : written[j + 1] \in MayThrow /\ (j + 1)..k \subseteq skipped
      BY <3>2 DEF Excused
    <3>4. written'[j + 1] = written[j + 1]
      BY <2>2, <2>3, <2>5, <3>2
    <3> QED
      BY <3>1, <3>2, <3>3, <3>4 DEF Excused
  <2> QED
    BY <2>1, <2>4, <2>6, <2>7, <2>8 DEF QueueInv
<1> QED
  BY <1>4, <1>5, <1>6

\* Steps that change no message and nothing the receiver keeps, and leave genuine
\* packets in recQueue and in flight, keep the invariant.
LEMMA PacketsKeepInv ==
    ASSUME StreamInv, UNCHANGED <<written, splitOwner, orderIndex, splitId, deliveryVars>>,
           NoWrap => /\ \A s \in DOMAIN recQueue' : Genuine(recQueue'[s])
                     /\ \A d \in datagrams' : Genuine(d.packet)
    PROVE  StreamInv'
<1>1. HistoryInv' /\ (NoWrap' <=> NoWrap)
  BY DEF StreamInv, HistoryInv, NoWrap
<1>2. NoWrap => PacketsInv'
  BY DEF PacketsInv, Genuine
<1>3. NoWrap => SplitsInv' /\ QueueInv'
  BY DEF StreamInv, SplitsInv, QueueInv, Excused, deliveryVars
<1> QED
  BY <1>1, <1>2, <1>3 DEF StreamInv

LEMMA ResendKeepsInv ==
    ASSUME TypeOK, StreamInv, NEW S \in SUBSET (DOMAIN recQueue), NEW old \in Enumerations(S),
           Resend(old), UNCHANGED deliveryVars
    PROVE  StreamInv'
<1> DEFINE queue == [s \in DOMAIN recQueue \ {old[i] : i \in 1..Len(old)} |-> recQueue[s]]
           packets == [i \in 1..Len(old) |-> recQueue[old[i]]]
           P == {p \in Packet : Genuine(p)}
<1> SUFFICES ASSUME NoWrap
             PROVE  /\ \A s \in DOMAIN recQueue' : Genuine(recQueue'[s])
                    /\ \A d \in datagrams' : Genuine(d.packet)
  BY PacketsKeepInv DEF Resend
<1>1. /\ seq \in Nat /\ DOMAIN recQueue \subseteq 0..(seq - 1)
      /\ \A s \in DOMAIN recQueue : recQueue[s] \in P
      /\ \A d \in datagrams : Genuine(d.packet)
  BY LimitAssumption, SMTT(30) DEF TypeOK, WriterTypeOK, StreamInv, PacketsInv
<1> HIDE DEF P
<1>2. /\ Len(old) \in Nat
      /\ \A i \in 1..Len(old) : old[i] \in DOMAIN recQueue
  <2>1. seq \in Nat /\ S \in SUBSET (0..(seq - 1)) /\ S \subseteq DOMAIN recQueue
    BY <1>1
  <2>2. /\ Cardinality(S) \in Nat /\ Len(old) = Cardinality(S)
        /\ \A i \in 1..Len(old) : old[i] \in S
    BY <2>1, EnumerationType, Zenon
  <2> QED
    BY <2>1, <2>2, Zenon
<1>3. Len(packets) = Len(old) /\ \A i \in 1..Len(packets) : packets[i] \in P
  BY <1>1, <1>2
<1>4. DOMAIN queue \subseteq 0..(seq - 1) /\ \A s \in DOMAIN queue : queue[s] \in P
  BY <1>1
<1>5. Transmit(queue, packets)
  BY DEF Resend
<1> HIDE DEF queue, packets
<1>6. /\ \A s \in DOMAIN recQueue' : recQueue'[s] \in P
      /\ \A d \in datagrams' \ datagrams : d.packet \in P
  BY <1>1, <1>2, <1>3, <1>4, <1>5, TransmitKeeps
<1> QED
  BY <1>1, <1>6 DEF P

\* The queue that puts messages in order: what receivePacket is given is the message
\* its order index names, and so is all it gives to handlePacket.
LEMMA ReceivePacketKeepsInv ==
    ASSUME DeliveryTypeOK, QueueInv, orderIndex \in Nat, Len(written) = orderIndex,
           NEW order \in Nat, order < orderIndex, ReceivePacket(order, written[order + 1]),
           written[order + 1] \in Seq(Chunk),
           UNCHANGED <<written, orderIndex>>
    PROVE  QueueInv'
<1> DEFINE m       == written[order + 1]
           lowest  == packQueue.lowest
           highest == IF order >= packQueue.highest THEN order + 1 ELSE packQueue.highest
           keys    == DOMAIN packQueue.data \cup {order}
           data    == [k \in keys |-> IF k = order THEN m ELSE packQueue.data[k]]
<1>1. CASE UNCHANGED <<packQueue, fetched, skipped, remoteStop>>
  BY <1>1 DEF QueueInv, Excused
<1>2. CASE ~AlreadyQueued(order) /\ ~UNCHANGED <<packQueue, fetched, skipped, remoteStop>>
  <2>1. PICK end \in lowest..highest :
           /\ IsRunEnd(lowest, end, keys)
           /\ fetched' = fetched \o [i \in 1..(end - lowest) |-> data[lowest + i - 1]]
           /\ packQueue' = [lowest |-> end, highest |-> highest,
                            data |-> [k \in keys \ (lowest..(end - 1)) |-> data[k]]]
           /\ \E last \in {end - 1} \cup {k \in lowest..(end - 1) : data[k] \in MayThrow} :
                skipped' = skipped \cup ((last + 1)..(end - 1))
    BY <1>2 DEF ReceivePacket
  <2>2. /\ lowest \in Nat /\ highest \in Nat /\ end \in Nat /\ keys \subseteq Nat
        /\ fetched \in Seq(Seq(Chunk)) /\ lowest = Len(fetched) /\ lowest <= orderIndex
        /\ \A i \in 1..lowest : fetched[i] = written[i]
    BY DEF DeliveryTypeOK, QueueInv
  <2>3. \A k \in keys : k < orderIndex /\ data[k] = written[k + 1]
    BY DEF QueueInv
  <2>4. \A k \in keys : data[k] \in Seq(Chunk)
    BY DEF DeliveryTypeOK
  <2>5. \A i \in lowest..(end - 1) : i \in keys
    BY <2>1 DEF IsRunEnd
  <2> HIDE DEF m, lowest, highest, keys, data
  <2> DEFINE run == [i \in 1..(end - lowest) |-> data[lowest + i - 1]]
             rest == [k \in keys \ (lowest..(end - 1)) |-> data[k]]
  <2>6. end - lowest \in Nat /\ end <= orderIndex
    <3>1. CASE end = lowest
      BY <2>2, <3>1
    <3>2. CASE end > lowest
      <4>1. end - 1 \in lowest..(end - 1)
        BY <2>2, <3>2
      <4>2. end - 1 < orderIndex
        BY <2>3, <2>5, <4>1
      <4> QED
        BY <2>2, <3>2, <4>2
    <3> QED
      BY <2>1, <2>2, <3>1, <3>2
  <2>7. ASSUME NEW i \in 1..(end - lowest)
        PROVE  run[i] = written[lowest + i] /\ run[i] \in Seq(Chunk)
    <3>1. lowest + i - 1 \in lowest..(end - 1) /\ lowest + i - 1 + 1 = lowest + i
      BY <2>2, <2>6
    <3>2. run[i] = data[lowest + i - 1]
      OBVIOUS
    <3> QED
      BY <2>3, <2>4, <2>5, <3>1, <3>2
  <2>8. run \in Seq(Seq(Chunk)) /\ Len(run) = end - lowest
    <3>1. run = [i \in 1..(end - lowest) |-> run[i]]
      OBVIOUS
    <3> HIDE DEF run
    <3> QED
      BY <2>6, <2>7, <3>1, SMTT(30)
  <2>9. fetched' = fetched \o run /\ packQueue'.lowest = end /\ packQueue'.data = rest
    BY <2>1
  <2>10. \A k \in DOMAIN rest : k < orderIndex /\ rest[k] = written[k + 1]
    BY <2>3
  <2> HIDE DEF run, rest
  <2>11. /\ Len(fetched') = end
         /\ \A i \in 1..end : fetched'[i] =
               IF i <= lowest THEN fetched[i] ELSE run[i - lowest]
    <3>1. fetched \in Seq(Seq(Chunk)) /\ run \in Seq(Seq(Chunk)) /\ fetched' = fetched \o run
          /\ Len(run) = end - lowest /\ lowest = Len(fetched) /\ lowest \in Nat /\ end \in Nat
      BY <2>2, <2>8, <2>9
    <3>2. /\ Len(fetched \o run) = Len(fetched) + Len(run)
          /\ \A i \in 1..(Len(fetched) + Len(run)) : (fetched \o run)[i] =
                IF i <= Len(fetched) THEN fetched[i] ELSE run[i - Len(fetched)]
      BY <3>1, ConcatProperties
    <3>3. Len(fetched) + Len(run) = end
      BY <3>1
    <3> QED
      BY <3>1, <3>2, <3>3
  <2>12. ASSUME NEW i \in 1..end PROVE fetched'[i] = written[i]
    <3>1. CASE i <= lowest
      <4>1. i \in 1..lowest
        BY <2>2, <3>1
      <4>2. fetched'[i] = fetched[i]
        BY <2>11, <3>1
      <4> QED
        BY <2>2, <4>1, <4>2
    <3>2. CASE ~(i <= lowest)
      <4>1. i - lowest \in 1..(end - lowest) /\ lowest + (i - lowest) = i
        BY <2>2, <3>2
      <4> QED
        BY <2>7, <2>11, <3>2, <4>1
    <3> QED
      BY <3>1, <3>2
  <2>13. ASSUME NEW k \in skipped' PROVE k < Len(fetched') /\ Excused(k)'
    <3>1. PICK last \in {end - 1} \cup {j \in lowest..(end - 1) : data[j] \in MayThrow} :
            skipped' = skipped \cup ((last + 1)..(end - 1))
      BY <2>1
    <3>2. CASE k \in skipped
      <4>1. k < lowest /\ Excused(k) /\ k \in Nat
        BY <2>2, <3>2 DEF QueueInv, DeliveryTypeOK
      <4>2. skipped \subseteq skipped'
        BY <3>1
      <4> QED
        BY <2>1, <2>2, <2>11, <4>1, <4>2 DEF Excused
    <3>3. CASE k \in (last + 1)..(end - 1)
      <4>1. last \in lowest..(end - 1) /\ data[last] \in MayThrow /\ last \in Nat
        BY <2>2, <3>1, <3>3
      <4>2. written[last + 1] \in MayThrow
        BY <2>3, <2>5, <4>1
      <4>3. (last + 1)..k \subseteq skipped' /\ last \in 0..(k - 1) /\ k < end
        BY <2>2, <3>1, <3>3, <4>1
      <4> QED
        BY <2>11, <4>2, <4>3 DEF Excused
    <3> QED
      BY <3>1, <3>2, <3>3
  <2> QED
    BY <2>6, <2>9, <2>10, <2>11, <2>12, <2>13 DEF QueueInv
<1> QED
  BY <1>1, <1>2 DEF ReceivePacket

LEMMA HandlePacketKeepsInv ==
    ASSUME TypeOK, HistoryInv, SplitsInv, QueueInv, NEW p \in Packet, Genuine(p),
           HandlePacket(p), UNCHANGED <<written, splitOwner, orderIndex, splitId>>
    PROVE  SplitsInv' /\ QueueInv'
<1> DEFINE m == written[p.order + 1]
<1>1. /\ p.order \in Nat /\ p.splitId \in Nat /\ p.splitIndex \in Nat
      /\ p.splitCount \in Nat /\ p.content \in Chunk /\ p.split \in BOOLEAN
      /\ p.order < orderIndex
  BY DEF Packet, Genuine
<1>2. /\ DeliveryTypeOK /\ orderIndex \in Nat /\ Len(written) = orderIndex
      /\ written \in Seq(Message \cup {Bye})
  BY DEF TypeOK, WriterTypeOK, HistoryInv
<1>3. m \in Message \cup {Bye}
  <2>1. p.order + 1 \in 1..Len(written)
    BY <1>1, <1>2
  <2> QED
    BY <1>2, <2>1, ElementOfSeq
<1>4. m \in Seq(Chunk) /\ Len(m) \in Nat /\ Len(m) >= 1 /\ DOMAIN m = 1..Len(m)
      /\ \A i \in 1..Len(m) : m[i] \in Chunk
  BY <1>3, MessageType
<1>5. /\ p.splitCount = Len(m) /\ p.splitIndex + 1 \in 1..Len(m)
      /\ p.content = m[p.splitIndex + 1] /\ (p.split <=> Len(m) > 1)
      /\ p.split => p.splitId < splitId /\ splitOwner[p.splitId + 1] = p.order
  BY <1>4 DEF Genuine
<1>6. ASSUME ReceivePacket(p.order, m) PROVE QueueInv'
  BY <1>1, <1>2, <1>4, <1>6, ReceivePacketKeepsInv
<1> HIDE DEF m
<1>7. CASE ~p.split /\ ReceivePacket(p.order, <<p.content>>) /\ UNCHANGED splits
  <2>1. Len(m) = 1 /\ p.splitIndex + 1 = 1
    BY <1>1, <1>4, <1>5, <1>7
  <2>2. m = <<p.content>>
    BY <1>4, <1>5, <2>1
  <2> QED
    BY <1>6, <1>7, <2>2 DEF SplitsInv
<1>8. CASE p.split /\ HandleSplitPacket(p)
  <2> DEFINE entry == IF p.splitId \in DOMAIN splits THEN splits[p.splitId]
                      ELSE [i \in 1..p.splitCount |-> NoChunk]
             chunks == [entry EXCEPT ![p.splitIndex + 1] = p.content]
             Keep(e) == splits' = [i \in DOMAIN splits \cup {p.splitId} |->
                                     IF i = p.splitId THEN e ELSE splits[i]]
             Of(e) == Len(e) = Len(m) /\ \A i \in DOMAIN e : e[i] \in {NoChunk, m[i]}
  <2>1. /\ p.splitId < splitId /\ splitOwner[p.splitId + 1] = p.order
        /\ m = written[splitOwner[p.splitId + 1] + 1]
    BY <1>5, <1>8 DEF m
  <2>2. Of(entry) /\ entry \in Seq(Chunk \cup {NoChunk})
    <3>1. CASE p.splitId \in DOMAIN splits
      BY <1>2, <2>1, <3>1 DEF SplitsInv, DeliveryTypeOK
    <3>2. CASE p.splitId \notin DOMAIN splits
      <4>1. entry = [i \in 1..Len(m) |-> NoChunk]
        BY <1>5, <3>2
      <4> HIDE DEF entry
      <4> QED
        BY <1>4, <4>1
    <3> QED
      BY <3>1, <3>2
  <2> HIDE DEF entry
  <2>3. DOMAIN entry = 1..Len(m)
    BY <2>2, LenProperties
  <2>4. /\ chunks \in Seq(Chunk \cup {NoChunk}) /\ Len(chunks) = Len(entry)
        /\ \A j \in 1..Len(entry) :
              chunks[j] = IF j = p.splitIndex + 1 THEN p.content ELSE entry[j]
    BY <1>1, <1>5, <2>2, ExceptSeq
  <2> HIDE DEF chunks
  <2>5. DOMAIN chunks = 1..Len(m)
    BY <2>2, <2>4, LenProperties
  <2>6. Of(chunks)
    <3>1. ASSUME NEW i \in DOMAIN chunks PROVE chunks[i] \in {NoChunk, m[i]}
      BY <1>5, <2>2, <2>3, <2>4, <2>5
    <3> QED
      BY <2>2, <2>4, <3>1
  <2>7. ASSUME NEW e, Of(e), Keep(e) PROVE SplitsInv'
    <3>1. splits' = [i \in DOMAIN splits \cup {p.splitId} |->
                        IF i = p.splitId THEN e ELSE splits[i]]
      BY <2>7
    <3> SUFFICES ASSUME NEW id \in DOMAIN splits'
                 PROVE  /\ id < splitId
                        /\ Len(splits'[id]) = Len(written[splitOwner[id + 1] + 1])
                        /\ \A i \in DOMAIN splits'[id] : splits'[id][i] \in
                              {NoChunk, written[splitOwner[id + 1] + 1][i]}
      BY DEF SplitsInv
    <3>2. CASE id = p.splitId
      <4>1. splits'[id] = e
        BY <3>1, <3>2
      <4> QED
        BY <2>1, <2>7, <3>2, <4>1
    <3>3. CASE id # p.splitId
      <4>1. id \in DOMAIN splits /\ splits'[id] = splits[id]
        BY <3>1, <3>3
      <4> QED
        BY <4>1 DEF SplitsInv
    <3> QED
      BY <3>2, <3>3
  <2> HIDE DEF Of, Keep
  <2>8. CASE UNCHANGED deliveryVars
    BY <2>8 DEF deliveryVars, SplitsInv, QueueInv, Excused
  <2>9. CASE Keep(entry) /\ UNCHANGED <<packQueue, fetched, skipped, remoteStop>>
    BY <2>2, <2>7, <2>9 DEF QueueInv, Excused
  <2>10. CASE Keep(chunks) /\ UNCHANGED <<packQueue, fetched, skipped, remoteStop>>
    BY <2>6, <2>7, <2>10 DEF QueueInv, Excused
  <2>11. CASE /\ \A i \in DOMAIN chunks : chunks[i] # NoChunk
              /\ splits' = [i \in DOMAIN splits \ {p.splitId} |-> splits[i]]
              /\ ReceivePacket(p.order, chunks)
    <3>1. Len(chunks) = Len(m) /\ \A i \in 1..Len(m) : chunks[i] = m[i]
      BY <2>5, <2>6, <2>11 DEF Of
    <3>2. m \in Seq(Chunk \cup {NoChunk})
      BY <1>4
    <3>3. chunks = m
      BY <2>4, <3>1, <3>2, SeqEqual
    <3>4. SplitsInv'
      BY <2>11 DEF SplitsInv
    <3> QED
      BY <1>6, <2>11, <3>3, <3>4
  <2> QED
    BY <1>8, <2>8, <2>9, <2>10, <2>11 DEF HandleSplitPacket, Keep, chunks, entry
<1> QED
  BY <1>7, <1>8 DEF HandlePacket

LEMMA StepStreamInv == TypeOK /\ StreamInv /\ [Next]_vars => StreamInv'
<1> SUFFICES ASSUME TypeOK, StreamInv, [Next]_vars PROVE StreamInv'
  OBVIOUS
<1>0. NoWrap => PacketsInv /\ SplitsInv /\ QueueInv
  BY DEF StreamInv
<1>1. ASSUME NEW m \in Message, Write(m) PROVE StreamInv'
  BY <1>1, SendKeepsInv DEF Write, receiverVars
<1>2. ASSUME DisconnectBody PROVE StreamInv'
  BY <1>2, SendKeepsInv DEF DisconnectBody, receiverVars
<1>3. CASE Disconnect
  BY <1>2, <1>3 DEF Disconnect
<1>4. CASE CheckResend
  <2>1. PICK latest \in DOMAIN recQueue :
          \E old \in Enumerations({s \in DOMAIN recQueue : s <= latest}) : Resend(old)
    BY <1>4 DEF CheckResend
  <2>2. {s \in DOMAIN recQueue : s <= latest} \in SUBSET (DOMAIN recQueue)
    OBVIOUS
  <2>3. UNCHANGED deliveryVars
    BY <1>4 DEF CheckResend, receiverVars
  <2> QED
    BY <2>1, <2>2, <2>3, ResendKeepsInv
<1>5. CASE GiveUp
  <2>1. CASE UNCHANGED <<writerVars, resends, stop, crashed, datagrams, feedback, faults,
                         receiverVars>>
    BY <1>0, <2>1, PacketsKeepInv DEF writerVars, receiverVars, PacketsInv
  <2> QED
    BY <1>2, <1>5, <2>1 DEF GiveUp
<1>6. ASSUME NEW f \in feedback, HandleACK(f) PROVE StreamInv'
  <2>1. /\ UNCHANGED <<written, splitOwner, orderIndex, splitId, deliveryVars, datagrams>>
        /\ recQueue' = [s \in DOMAIN recQueue \ f.numbers |-> recQueue[s]]
    BY <1>6 DEF HandleACK, receiverVars
  <2> QED
    BY <1>0, <2>1, PacketsKeepInv DEF PacketsInv
<1>7. ASSUME NEW f \in feedback, HandleNACK(f) PROVE StreamInv'
  <2> DEFINE unknown == f.numbers \ DOMAIN recQueue
             known   == {n \in f.numbers : \A u \in unknown : n < u}
  <2>1. known \in SUBSET (DOMAIN recQueue)
    <3>1. f.numbers \in SUBSET Nat
      BY DEF TypeOK, NetworkTypeOK, Feedback
    <3>2. ASSUME NEW n \in known PROVE n \in DOMAIN recQueue
      <4>1. n \in Nat /\ (n \in unknown => n < n)
        BY <3>1
      <4> QED
        BY <4>1
    <3> QED
      BY <3>2
  <2>2. PICK old \in Enumerations(known) : Resend(old)
    BY <1>7 DEF HandleNACK
  <2>3. UNCHANGED deliveryVars
    BY <1>7 DEF HandleNACK, receiverVars
  <2> HIDE DEF unknown, known
  <2> QED
    BY <2>1, <2>2, <2>3, ResendKeepsInv
<1>8. CASE FlushACKs
  BY <1>0, <1>8, PacketsKeepInv DEF FlushACKs, writerVars, PacketsInv
<1>9. ASSUME NEW d \in datagrams, ReceiveDatagram(d) PROVE StreamInv'
  <2>1. /\ UNCHANGED <<written, splitOwner, orderIndex, splitId, recQueue>>
        /\ datagrams' \subseteq datagrams
    BY <1>9 DEF ReceiveDatagram, TakeDatagram, writerVars
  <2>2. HistoryInv' /\ (NoWrap' <=> NoWrap)
    BY <2>1 DEF StreamInv, HistoryInv, NoWrap
  <2>3. NoWrap => PacketsInv'
    BY <1>0, <2>1 DEF PacketsInv, Genuine
  <2>4. NoWrap => SplitsInv' /\ QueueInv'
    <3> SUFFICES ASSUME NoWrap PROVE SplitsInv' /\ QueueInv'
      OBVIOUS
    <3>1. CASE UNCHANGED deliveryVars
      BY <1>0, <2>1, <3>1 DEF deliveryVars, SplitsInv, QueueInv, Excused
    <3>2. CASE HandlePacket(d.packet)
      <4>1. d.packet \in Packet /\ Genuine(d.packet)
        BY <1>0 DEF TypeOK, NetworkTypeOK, Datagram, PacketsInv
      <4>2. HistoryInv
        BY DEF StreamInv
      <4> QED
        BY <1>0, <2>1, <3>2, <4>1, <4>2, HandlePacketKeepsInv
    <3> QED
      BY <1>9, <3>1, <3>2 DEF ReceiveDatagram
  <2> QED
    BY <2>2, <2>3, <2>4 DEF StreamInv
<1>10. CASE Lose
  <2>1. /\ UNCHANGED <<written, splitOwner, orderIndex, splitId, recQueue, deliveryVars>>
        /\ datagrams' \subseteq datagrams
    BY <1>10 DEF Lose, writerVars, receiverVars
  <2> QED
    BY <1>0, <2>1, PacketsKeepInv DEF PacketsInv
<1>11. CASE UNCHANGED vars
  BY <1>0, <1>11, PacketsKeepInv DEF vars, writerVars, receiverVars, PacketsInv
<1> QED
  BY <1>1, <1>3, <1>4, <1>5, <1>6, <1>7, <1>8, <1>9, <1>10, <1>11 DEF Next

\* On any network Write, Send and receivePacket keep StreamInv, of which the theorems of this
\* section are consequences.
THEOREM StreamInvariant == Spec => []StreamInv
  BY InitType, InitStreamInv, StepType, StepStreamInv, PTL DEF Spec

\* What receivePacket hands on is a prefix of what Write was given, in order, none
\* twice, whatever the network loses, duplicates or reorders and however often the
\* timer resends, as long as no order index and no split id has wrapped.
THEOREM OrderCorrect == Spec => []HandledInOrder
<1>1. TypeOK /\ StreamInv => HandledInOrder
  BY DEF StreamInv, HistoryInv, QueueInv, HandledInOrder
<1> QED
  BY <1>1, TypeCorrect, StreamInvariant, PTL

--------------------------------------------------------------------------------
(* The stream that packet.h promises.                                       *)

\* receivePacket never moves the lowest order index back.
LEMMA LowestGrows ==
    ASSUME DeliveryTypeOK, NEW order \in Nat, NEW m, ReceivePacket(order, m)
    PROVE  packQueue'.lowest >= packQueue.lowest
<1> DEFINE lowest == packQueue.lowest
           highest == IF order >= packQueue.highest THEN order + 1 ELSE packQueue.highest
<1>1. lowest \in Nat /\ highest \in Nat
  BY DEF DeliveryTypeOK
<1>2. CASE UNCHANGED packQueue
  BY <1>1, <1>2
<1>3. CASE ~UNCHANGED packQueue
  <2> DEFINE keys == DOMAIN packQueue.data \cup {order}
             data == [k \in keys |-> IF k = order THEN m ELSE packQueue.data[k]]
  <2>1. PICK end \in lowest..highest :
          packQueue' = [lowest |-> end, highest |-> highest,
                        data |-> [k \in keys \ (lowest..(end - 1)) |-> data[k]]]
    BY <1>3 DEF ReceivePacket
  <2> HIDE DEF keys, data
  <2>2. packQueue'.lowest = end
    BY <2>1
  <2> QED
    BY <1>1, <2>2
<1> QED
  BY <1>2, <1>3

\* A step adds a message to written, or may hand on messages, and never both.
LEMMA HistoriesStep ==
    ASSUME TypeOK, [Next]_vars
    PROVE  \/ \E m \in Message \cup {Bye} : written' = Append(written, m) /\ UNCHANGED fetched
           \/ UNCHANGED written /\ packQueue'.lowest >= packQueue.lowest
<1> DEFINE Goal ==
        \/ \E m \in Message \cup {Bye} : written' = Append(written, m) /\ UNCHANGED fetched
        \/ UNCHANGED written /\ packQueue'.lowest >= packQueue.lowest
<1>0. packQueue.lowest \in Nat /\ DeliveryTypeOK
  BY DEF TypeOK, DeliveryTypeOK
<1>1. ASSUME NEW m \in Message, Write(m) PROVE Goal
  BY <1>1 DEF Write, Send, receiverVars, deliveryVars
<1>2. ASSUME DisconnectBody PROVE Goal
  BY <1>2 DEF DisconnectBody, Send, receiverVars, deliveryVars
<1>3. CASE Disconnect
  BY <1>2, <1>3 DEF Disconnect
<1>4. CASE CheckResend
  BY <1>0, <1>4 DEF CheckResend, Resend, receiverVars, deliveryVars
<1>5. CASE GiveUp
  BY <1>0, <1>2, <1>5 DEF GiveUp, writerVars, receiverVars, deliveryVars
<1>6. ASSUME NEW f \in feedback, HandleACK(f) \/ HandleNACK(f) PROVE Goal
  <2>1. UNCHANGED <<written, packQueue>>
    BY <1>6 DEF HandleACK, HandleNACK, Resend, receiverVars, deliveryVars
  <2> QED
    BY <1>0, <2>1
<1>7. CASE FlushACKs
  BY <1>0, <1>7 DEF FlushACKs, writerVars, deliveryVars
<1>8. ASSUME NEW d \in datagrams, ReceiveDatagram(d) PROVE Goal
  <2>1. UNCHANGED written
    BY <1>8 DEF ReceiveDatagram, writerVars
  <2>2. CASE UNCHANGED packQueue
    BY <1>0, <2>1, <2>2
  <2>3. ASSUME NEW m, ReceivePacket(d.packet.order, m) PROVE Goal
    <3>1. d.packet.order \in Nat
      BY DEF TypeOK, NetworkTypeOK, Datagram, Packet
    <3> QED
      BY <1>0, <2>1, <2>3, <3>1, LowestGrows
  <2>4. UNCHANGED packQueue \/ \E m : ReceivePacket(d.packet.order, m)
    BY <1>8 DEF ReceiveDatagram, HandlePacket, HandleSplitPacket, deliveryVars
  <2> QED
    BY <2>2, <2>3, <2>4
<1>9. CASE Lose \/ UNCHANGED vars
  BY <1>0, <1>9 DEF Lose, vars, writerVars, receiverVars, deliveryVars
<1> QED
  BY <1>1, <1>3, <1>4, <1>5, <1>6, <1>7, <1>8, <1>9 DEF Next

\* Sequences of one length with the same elements.
LEMMA SameElements ==
    ASSUME NEW S, NEW R, NEW s \in Seq(S), NEW r \in Seq(R), Len(s) = Len(r),
           \A i \in 1..Len(s) : s[i] = r[i]
    PROVE  s = r
  OBVIOUS

\* Both histories before and after a step: what fetched gained was next in written.
LEMMA StepImplementsStream ==
    ASSUME TypeOK, StreamInv, StreamInv', NoWrap, NoWrap', TypeOK', [Next]_vars
    PROVE  [Stream!Next]_<<written, fetched>>
<1>1. CASE \E m \in Message \cup {Bye} : written' = Append(written, m) /\ UNCHANGED fetched
  BY <1>1 DEF Stream!Next, Stream!Write
<1>2. CASE UNCHANGED written /\ packQueue'.lowest >= packQueue.lowest
  <2>1. /\ packQueue.lowest = Len(fetched) /\ \A i \in 1..Len(fetched) : fetched[i] = written[i]
        /\ Len(fetched) <= Len(written)
    BY DEF StreamInv, HistoryInv, QueueInv
  <2>2. /\ packQueue'.lowest = Len(fetched') /\ \A i \in 1..Len(fetched') : fetched'[i] = written'[i]
        /\ Len(fetched') <= Len(written')
    BY DEF StreamInv, HistoryInv, QueueInv
  <2>3. fetched \in Seq(Seq(Chunk)) /\ fetched' \in Seq(Seq(Chunk)) /\ written \in Seq(Message \cup {Bye})
    BY DEF TypeOK, WriterTypeOK, DeliveryTypeOK
  <2>4. /\ Len(fetched) \in Nat /\ Len(fetched') \in Nat /\ Len(written) \in Nat
        /\ Len(fetched) <= Len(fetched') /\ Len(fetched') <= Len(written)
    BY <1>2, <2>1, <2>2, <2>3
  <2>5. CASE Len(fetched') = Len(fetched)
    <3>1. \A i \in 1..Len(fetched) : fetched'[i] = fetched[i]
      BY <1>2, <2>1, <2>2, <2>5
    <3>2. fetched' = fetched
      BY <2>3, <2>5, <3>1, SameElements
    <3> QED
      BY <1>2, <3>2
  <2>6. CASE Len(fetched') # Len(fetched)
    <3>1. Len(fetched') \in Len(fetched)+1 .. Len(written)
      BY <2>4, <2>6
    <3>2. SubSeq(written, 1, Len(fetched')) \in Seq(Message \cup {Bye})
          /\ Len(SubSeq(written, 1, Len(fetched'))) = Len(fetched')
          /\ \A i \in 1..Len(fetched') : SubSeq(written, 1, Len(fetched'))[i] = written[i]
      BY <2>3, <2>4
    <3>3. fetched' = SubSeq(written, 1, Len(fetched'))
      <4> DEFINE prefix == SubSeq(written, 1, Len(fetched'))
      <4>1. Len(prefix) = Len(fetched') /\ \A i \in 1..Len(fetched') : fetched'[i] = prefix[i]
        BY <1>2, <2>2, <3>2
      <4>2. prefix \in Seq(Message \cup {Bye})
        BY <3>2
      <4> HIDE DEF prefix
      <4> QED
        BY <2>3, <4>1, <4>2, SameElements DEF prefix
    <3> QED
      BY <1>2, <3>1, <3>3 DEF Stream!Next, Stream!Deliver
  <2> QED
    BY <2>5, <2>6
<1> QED
  BY <1>1, <1>2, HistoriesStep

\* state.cpp implements the stream that packet.h promises, but for delivery in the
\* end: on any network, as long as no order index and no split id wraps.
THEOREM StreamImplemented == Spec /\ []NoWrap => ImplementsStream
<1>1. Init => Stream!Init
  BY DEF Init, Stream!Init
<1>2. <<written, fetched>> = Stream!vars
  BY DEF Stream!vars
<1>3. TypeOK /\ StreamInv /\ NoWrap /\ (TypeOK /\ StreamInv /\ NoWrap)' /\ [Next]_vars
        => [Stream!Next]_Stream!vars
  BY StepImplementsStream DEF Stream!vars
<1> QED
  BY <1>1, <1>3, TypeCorrect, StreamInvariant, PTL DEF Spec, ImplementsStream, Stream!Spec
--------------------------------------------------------------------------------
(* Nothing that was written is lost.                                        *)

\* What the proof of NothingLost assumes of a run: no sequence number wraps on the
\* wire, and receiveDatagram met none of the limits at which it drops a packet that
\* it has already marked as received (the gap it gives up, the window, the open
\* reassemblies, the fragments of a message).
NothingGivenUp ==
    /\ seq <= WireMod
    /\ \A f \in feedback : f.kind = "ACK"
    /\ dataQueue.highest - dataQueue.lowest <= MaxWindowSize
    /\ Cardinality(DOMAIN splits) <= MaxSplits
    /\ \A i \in 1..Len(written) : Len(written[i]) <= MaxSplitCount

\* The receiver has all of a packet.
HasPacket(p) == Holds(p.order, p.splitIndex + 1)

\* What makes NothingLost inductive: a sequence number names one packet as long as
\* the packet is in recQueue; a number below seq, and none other, may have been seen;
\* a number that was seen is that of a packet the receiver has; and only numbers that
\* were seen are acknowledged.
InFlightInv ==
    \A d \in datagrams :
        /\ d.number < seq
        /\ d.number \in DOMAIN recQueue => d.packet = recQueue[d.number]
SeenInv == \A n \in Nat : AlreadyReceived(n) => n < seq
HeldInv == \A n \in DOMAIN recQueue : AlreadyReceived(n) => HasPacket(recQueue[n])
AckedInv ==
    /\ \A n \in datagramsReceived : AlreadyReceived(n)
    /\ \A f \in feedback : \A n \in f.numbers : AlreadyReceived(n)
LossInv == InFlightInv /\ SeenInv /\ HeldInv /\ AckedInv /\ NothingLost

\* What Transmit keeps and what it adds, as long as no sequence number wraps.
LEMMA TransmitAdds ==
    ASSUME seq \in Nat, NEW queue, DOMAIN queue \subseteq 0..(seq - 1),
           NEW packets, Len(packets) \in Nat,
           Transmit(queue, packets), seq' <= WireMod
    PROVE  /\ seq' = seq + Len(packets)
           /\ \A s \in DOMAIN queue : s \in DOMAIN recQueue' /\ recQueue'[s] = queue[s]
           /\ \A s \in DOMAIN recQueue' : s \in DOMAIN queue \/ (s \in Nat /\ s >= seq)
           /\ \A i \in 1..Len(packets) : /\ seq + i - 1 \in DOMAIN recQueue'
                                         /\ recQueue'[seq + i - 1] = packets[i]
           /\ \A d \in datagrams' :
                 \/ d \in datagrams
                 \/ \E i \in 1..Len(packets) : d.number = seq + i - 1 /\ d.packet = packets[i]
<1> DEFINE n == Len(packets)
<1>1. /\ seq' = seq + n
      /\ recQueue' = [s \in DOMAIN queue \cup seq..(seq + n - 1) |->
                         IF s < seq THEN queue[s] ELSE packets[s - seq + 1]]
      /\ datagrams' = datagrams \cup
            {[number |-> Wire(seq + i - 1), packet |-> packets[i]] : i \in 1..n}
  BY DEF Transmit
<1>2. n \in Nat
  OBVIOUS
<1> HIDE DEF n
<1>3. DOMAIN recQueue' = DOMAIN queue \cup seq..(seq + n - 1)
  BY <1>1
<1>4. ASSUME NEW s \in DOMAIN queue PROVE s \in DOMAIN recQueue' /\ recQueue'[s] = queue[s]
  BY <1>1, <1>3
<1>5. ASSUME NEW s \in DOMAIN recQueue' PROVE s \in DOMAIN queue \/ (s \in Nat /\ s >= seq)
  BY <1>2, <1>3
<1>6. ASSUME NEW i \in 1..n
      PROVE  seq + i - 1 \in DOMAIN recQueue' /\ recQueue'[seq + i - 1] = packets[i]
  <2>1. seq + i - 1 \in seq..(seq + n - 1) /\ ~(seq + i - 1 < seq)
        /\ (seq + i - 1) - seq + 1 = i
    BY <1>2
  <2> QED
    BY <1>1, <1>3, <2>1
<1>7. ASSUME NEW d \in datagrams', d \notin datagrams
      PROVE  \E i \in 1..n : d.number = seq + i - 1 /\ d.packet = packets[i]
  <2>1. PICK i \in 1..n : d = [number |-> Wire(seq + i - 1), packet |-> packets[i]]
    BY <1>1, <1>7
  <2>2. Wire(seq + i - 1) = seq + i - 1
    <3>1. seq + i - 1 \in Nat /\ seq + i - 1 < WireMod
      BY <1>1, <1>2, LimitAssumption
    <3> QED
      BY <3>1, WireSmall, LimitAssumption DEF Wire
  <2> QED
    BY <2>1, <2>2
<1> QED
  BY <1>1, <1>4, <1>5, <1>6, <1>7 DEF n

\* A packet the receiver has, it still has when it loses no message and no chunk.
LEMMA HoldsKept ==
    ASSUME UNCHANGED <<splits, packQueue>>,
           \A id \in DOMAIN splits : splitOwner'[id + 1] = splitOwner[id + 1],
           NEW order, NEW i, Holds(order, i)
    PROVE  Holds(order, i)'
  BY DEF Holds

\* The ids of open reassemblies keep their owners when a message is written.
LEMMA OwnersKept ==
    ASSUME TypeOK, HistoryInv, SplitsInv, NEW m \in Message \cup {Bye}, Send(m)
    PROVE  \A id \in DOMAIN splits : splitOwner'[id + 1] = splitOwner[id + 1]
<1> TAKE id \in DOMAIN splits
<1>1. id \in Nat /\ id < splitId
  BY DEF SplitsInv, TypeOK, DeliveryTypeOK
<1>2. id + 1 \in 1..splitId
  BY <1>1, SendHistory
<1> QED
  BY <1>2, SendHistory

\* Write, Disconnect and resend: new packets get numbers that nobody has seen.
LEMMA TransmitKeepsSeen ==
    ASSUME TypeOK, InFlightInv, SeenInv, HeldInv, AckedInv,
           NEW queue, DOMAIN queue \subseteq DOMAIN recQueue,
           \A s \in DOMAIN queue : queue[s] = recQueue[s],
           NEW packets, Len(packets) \in Nat,
           Transmit(queue, packets), seq' <= WireMod,
           UNCHANGED <<dataQueue, datagramsReceived, splits, packQueue>>,
           feedback' \subseteq feedback,
           \A id \in DOMAIN splits : splitOwner'[id + 1] = splitOwner[id + 1]
    PROVE  InFlightInv' /\ SeenInv' /\ HeldInv' /\ AckedInv'
<1>1. seq \in Nat /\ DOMAIN recQueue \subseteq 0..(seq - 1)
  BY LimitAssumption, SMTT(30) DEF TypeOK, WriterTypeOK
<1>2. DOMAIN queue \subseteq 0..(seq - 1)
  BY <1>1
<1>3. /\ seq' = seq + Len(packets)
      /\ \A s \in DOMAIN queue : s \in DOMAIN recQueue' /\ recQueue'[s] = queue[s]
      /\ \A s \in DOMAIN recQueue' : s \in DOMAIN queue \/ (s \in Nat /\ s >= seq)
      /\ \A i \in 1..Len(packets) : /\ seq + i - 1 \in DOMAIN recQueue'
                                    /\ recQueue'[seq + i - 1] = packets[i]
      /\ \A d \in datagrams' :
            \/ d \in datagrams
            \/ \E i \in 1..Len(packets) : d.number = seq + i - 1 /\ d.packet = packets[i]
  BY <1>1, <1>2, TransmitAdds
<1>4. \A n : AlreadyReceived(n)' <=> AlreadyReceived(n)
  BY DEF AlreadyReceived
<1>5. InFlightInv'
  <2> SUFFICES ASSUME NEW d \in datagrams'
               PROVE  /\ d.number < seq'
                      /\ d.number \in DOMAIN recQueue' => d.packet = recQueue'[d.number]
    BY DEF InFlightInv
  <2>1. CASE d \in datagrams
    <3>1. d.number \in Nat /\ d.number < seq
          /\ (d.number \in DOMAIN recQueue => d.packet = recQueue[d.number])
      BY <2>1 DEF InFlightInv, TypeOK, NetworkTypeOK, Datagram
    <3>2. d.number \in DOMAIN recQueue' => d.number \in DOMAIN queue
      BY <1>1, <1>3, <3>1
    <3> QED
      BY <1>1, <1>3, <3>1, <3>2
  <2>2. CASE d \notin datagrams
    <3>1. PICK i \in 1..Len(packets) : d.number = seq + i - 1 /\ d.packet = packets[i]
      BY <1>3, <2>2
    <3>2. recQueue'[seq + i - 1] = packets[i]
      BY <1>3
    <3>3. seq + i - 1 < seq'
      BY <1>1, <1>3
    <3> QED
      BY <3>1, <3>2, <3>3
  <2> QED
    BY <2>1, <2>2
<1>6. SeenInv'
  BY <1>1, <1>3, <1>4 DEF SeenInv
<1>7. HeldInv'
  <2> SUFFICES ASSUME NEW n \in DOMAIN recQueue', AlreadyReceived(n)
               PROVE  HasPacket(recQueue[n])'
    BY <1>4 DEF HeldInv
  <2>1. n \in DOMAIN queue
    BY <1>1, <1>3 DEF SeenInv
  <2>2. recQueue'[n] = recQueue[n] /\ HasPacket(recQueue[n])
    BY <1>3, <2>1 DEF HeldInv
  <2> QED
    BY <2>2, HoldsKept DEF HasPacket
<1>8. AckedInv'
  BY <1>4 DEF AckedInv
<1> QED
  BY <1>5, <1>6, <1>7, <1>8

\* Write and Disconnect: the chunks of the new message are all in recQueue.
LEMMA SendLosesNothing ==
    ASSUME TypeOK, StreamInv, NoWrap, NoWrap', NothingLost,
           NEW m \in Message \cup {Bye}, Send(m), seq' <= WireMod,
           UNCHANGED <<splits, packQueue>>
    PROVE  NothingLost'
<1>1. HistoryInv /\ SplitsInv
  BY DEF StreamInv
<1>2. /\ orderIndex \in Nat /\ orderIndex' = orderIndex + 1
      /\ \A k \in 0..(orderIndex - 1) : written'[k + 1] = written[k + 1]
      /\ written'[orderIndex + 1] = m
  BY <1>1, SendHistory
<1>3. seq \in Nat /\ DOMAIN recQueue \subseteq 0..(seq - 1) /\ splitId \in Nat
  BY LimitAssumption, SMTT(30) DEF TypeOK, WriterTypeOK
<1>4. Len(Fragments(m)) = Len(m) /\ Len(m) \in Nat
  BY <1>2, <1>3, FragmentsType, MessageType
<1>5. Transmit(recQueue, Fragments(m))
  BY DEF Send
<1>6. /\ \A s \in DOMAIN recQueue : s \in DOMAIN recQueue' /\ recQueue'[s] = recQueue[s]
      /\ \A i \in 1..Len(m) : /\ seq + i - 1 \in DOMAIN recQueue'
                              /\ recQueue'[seq + i - 1] = Fragments(m)[i]
  BY <1>3, <1>4, <1>5, TransmitAdds
<1>7. \A id \in DOMAIN splits : splitOwner'[id + 1] = splitOwner[id + 1]
  BY <1>1, OwnersKept
<1> SUFFICES ASSUME NEW order \in 0..(orderIndex' - 1), NEW i \in 1..Len(written'[order + 1])
             PROVE  Pending(order, i)' \/ Holds(order, i)'
  BY DEF NothingLost
<1>8. CASE order < orderIndex
  <2>1. order \in 0..(orderIndex - 1) /\ i \in 1..Len(written[order + 1])
    BY <1>2, <1>8
  <2>2. CASE Pending(order, i)
    BY <1>6, <2>2 DEF Pending
  <2>3. CASE Holds(order, i)
    BY <1>7, <2>3, HoldsKept
  <2> QED
    BY <2>1, <2>2, <2>3 DEF NothingLost
<1>9. CASE ~(order < orderIndex)
  <2>1. order = orderIndex /\ i \in 1..Len(m)
    BY <1>2, <1>9
  <2>2. Wire(orderIndex) = orderIndex
    <3>1. orderIndex < WireMod
      BY <1>2, LimitAssumption DEF NoWrap
    <3> QED
      BY <1>2, <3>1, WireSmall, LimitAssumption DEF Wire
  <2>3. Fragments(m)[i].order = order /\ Fragments(m)[i].splitIndex = i - 1
    BY <2>1, <2>2 DEF Fragments
  <2> QED
    BY <1>6, <2>1, <2>3 DEF Pending
<1> QED
  BY <1>8, <1>9

\* resend: a packet that leaves its place in recQueue gets another one.
LEMMA ResendLosesNothing ==
    ASSUME TypeOK, NothingLost, NEW S \in SUBSET (DOMAIN recQueue), NEW old \in Enumerations(S),
           Resend(old), seq' <= WireMod, UNCHANGED <<splits, packQueue>>
    PROVE  NothingLost'
<1> DEFINE queue == [s \in DOMAIN recQueue \ {old[i] : i \in 1..Len(old)} |-> recQueue[s]]
           packets == [i \in 1..Len(old) |-> recQueue[old[i]]]
<1>1. seq \in Nat /\ DOMAIN recQueue \subseteq 0..(seq - 1)
  BY LimitAssumption, SMTT(30) DEF TypeOK, WriterTypeOK
<1>2. Len(old) \in Nat
  BY <1>1, EnumerationType
<1>3. Transmit(queue, packets)
  BY DEF Resend
<1>4. /\ DOMAIN queue = DOMAIN recQueue \ {old[i] : i \in 1..Len(old)}
      /\ \A s \in DOMAIN queue : queue[s] = recQueue[s]
      /\ Len(packets) = Len(old) /\ \A i \in 1..Len(old) : packets[i] = recQueue[old[i]]
  BY <1>2
<1> HIDE DEF queue, packets
<1>5. /\ \A s \in DOMAIN queue : s \in DOMAIN recQueue' /\ recQueue'[s] = queue[s]
      /\ \A i \in 1..Len(packets) : /\ seq + i - 1 \in DOMAIN recQueue'
                                    /\ recQueue'[seq + i - 1] = packets[i]
  BY <1>1, <1>2, <1>3, <1>4, TransmitAdds
<1>6. UNCHANGED <<written, splitOwner, orderIndex>>
  BY DEF Resend
<1>7. ASSUME NEW s \in DOMAIN recQueue
      PROVE  \E t \in DOMAIN recQueue' : recQueue'[t] = recQueue[s]
  <2>1. CASE s \in DOMAIN queue
    BY <1>4, <1>5, <2>1
  <2>2. CASE s \notin DOMAIN queue
    <3>1. PICK i \in 1..Len(old) : s = old[i]
      BY <1>4, <2>2
    <3> QED
      BY <1>4, <1>5, <3>1
  <2> QED
    BY <2>1, <2>2
<1>8. \A order, i : Pending(order, i) => Pending(order, i)'
  BY <1>7 DEF Pending
<1>9. \A order, i : Holds(order, i) => Holds(order, i)'
  BY <1>6, HoldsKept
<1> QED
  BY <1>6, <1>8, <1>9 DEF NothingLost

\* Acknowledgements name only numbers of the set they are given.
LEMMA AcknowledgedNumbers ==
    ASSUME NEW kind, NEW numbers, NEW f \in Acknowledgements(kind, numbers)
    PROVE  f.kind = kind /\ f.numbers \subseteq numbers
  BY DEF Acknowledgements

\* datagramQueue::put and clear, without a gap given up: the numbers seen grow by the
\* one of the datagram.
LEMMA AdvanceSees ==
    ASSUME TypeOK, NEW n \in Nat, ~AlreadyReceived(n), Advance(n),
           \A f \in feedback' : f.kind = "ACK"
    PROVE  /\ \A k \in Nat : AlreadyReceived(k)' <=> (AlreadyReceived(k) \/ k = n)
           /\ UNCHANGED feedback
<1> DEFINE highest == IF n >= dataQueue.highest THEN n + 1 ELSE dataQueue.highest
           data    == dataQueue.data \cup {n}
           lowest  == dataQueue.lowest
<1>1. /\ lowest \in Nat /\ highest \in Nat /\ data \subseteq Nat /\ n < highest
      /\ missingDatagramTimes \in Nat /\ MissingLimit \in Nat \ {0}
  BY LimitAssumption DEF TypeOK, WindowTypeOK
<1>2. lowest <= n /\ n \in data
  BY <1>1 DEF AlreadyReceived
<1>3. PICK end \in lowest..highest :
        /\ IsRunEnd(lowest, end, data)
        /\ LET times == IF end = lowest THEN missingDatagramTimes + 1 ELSE 0
           IN  \/ /\ times < MissingLimit
                  /\ dataQueue' = [lowest |-> end, highest |-> highest,
                                   data |-> Cleared(data, end)]
                  /\ UNCHANGED feedback
               \/ /\ times >= MissingLimit
                  /\ feedback' = feedback \cup Acknowledgements("NACK", Missing(data, end, highest))
  BY DEF Advance
<1> HIDE DEF highest, data
<1>4. CASE /\ dataQueue' = [lowest |-> end, highest |-> highest, data |-> Cleared(data, end)]
           /\ UNCHANGED feedback
  <2>1. dataQueue'.lowest = end /\ dataQueue'.data = data \ (lowest..(end - 1))
    BY <1>4 DEF Cleared
  <2>2. \A i \in lowest..(end - 1) : i \in data
    BY <1>3 DEF IsRunEnd
  <2>3. ASSUME NEW k \in Nat
        PROVE  (k < end \/ k \in data \ (lowest..(end - 1))) <=> (k < lowest \/ k \in data)
    <3>1. CASE k < end
      BY <1>1, <2>2, <3>1
    <3>2. CASE ~(k < end)
      BY <1>1, <3>2
    <3> QED
      BY <3>1, <3>2
  <2>4. \A k \in Nat : AlreadyReceived(k)' <=> (k < lowest \/ k \in data)
    BY <2>1, <2>3 DEF AlreadyReceived
  <2>5. \A k \in Nat : (k < lowest \/ k \in data) <=> (AlreadyReceived(k) \/ k = n)
    BY DEF AlreadyReceived, data
  <2> HIDE DEF lowest
  <2> QED
    BY <1>4, <2>4, <2>5
<1>5. CASE /\ (IF end = lowest THEN missingDatagramTimes + 1 ELSE 0) >= MissingLimit
           /\ feedback' = feedback \cup Acknowledgements("NACK", Missing(data, end, highest))
  <2>1. end = lowest
    BY <1>1, <1>5
  <2>2. end \in end..(highest - 1) /\ end \notin data
    BY <1>1, <1>2, <1>3, <2>1 DEF IsRunEnd
  <2>3. end \in Missing(data, end, highest)
    BY <2>2 DEF Missing
  <2> DEFINE gaps == Missing(data, end, highest)
             f == [kind |-> "NACK", numbers |-> {k \in gaps : k >= end}]
  <2>4. f \in Acknowledgements("NACK", gaps) /\ f.kind = "NACK"
    BY <2>3, Zenon DEF Acknowledgements
  <2> HIDE DEF f
  <2> QED
    BY <1>5, <2>4
<1> QED
  BY <1>3, <1>4, <1>5

\* receivePacket: the message is at the receiver for good, and so are all that were.
LEMMA ReceivePacketHolds ==
    ASSUME DeliveryTypeOK, NEW order \in Nat, NEW m, ReceivePacket(order, m)
    PROVE  /\ order < packQueue'.lowest \/ order \in DOMAIN packQueue'.data
           /\ packQueue.lowest <= packQueue'.lowest /\ packQueue'.lowest \in Nat
           /\ \A k \in DOMAIN packQueue.data :
                 k < packQueue'.lowest \/ k \in DOMAIN packQueue'.data
<1> DEFINE lowest  == packQueue.lowest
           highest == IF order >= packQueue.highest THEN order + 1 ELSE packQueue.highest
           keys    == DOMAIN packQueue.data \cup {order}
           data    == [k \in keys |-> IF k = order THEN m ELSE packQueue.data[k]]
<1>1. /\ lowest \in Nat /\ highest \in Nat /\ keys \subseteq Nat
  BY DEF DeliveryTypeOK
<1>2. CASE AlreadyQueued(order) /\ UNCHANGED packQueue
  BY <1>1, <1>2 DEF AlreadyQueued
<1>3. CASE ~(AlreadyQueued(order) /\ UNCHANGED packQueue)
  <2>1. PICK end \in lowest..highest :
          packQueue' = [lowest |-> end, highest |-> highest,
                        data |-> [k \in keys \ (lowest..(end - 1)) |-> data[k]]]
    BY <1>3 DEF ReceivePacket
  <2>2. packQueue'.lowest = end /\ DOMAIN packQueue'.data = keys \ (lowest..(end - 1))
    BY <2>1
  <2>3. \A k \in keys : k < end \/ k \in keys \ (lowest..(end - 1))
    BY <1>1
  <2>4. lowest <= end /\ end \in Nat
    BY <1>1
  <2>5. order \in keys /\ \A k \in DOMAIN packQueue.data : k \in keys
    OBVIOUS
  <2> HIDE DEF keys, data, highest
  <2> QED
    BY <2>2, <2>3, <2>4, <2>5
<1> QED
  BY <1>2, <1>3

\* Chunk i of a message exists.
IsChunkOf(order, i) == order \in 0..(orderIndex - 1) /\ i \in 1..Len(written[order + 1])

LEMMA GenuineIsChunk ==
    ASSUME TypeOK, HistoryInv, NEW p \in Packet, Genuine(p)
    PROVE  IsChunkOf(p.order, p.splitIndex + 1)
<1>1. p.order \in 0..(orderIndex - 1) /\ p.order + 1 \in 1..Len(written)
  BY DEF Genuine, Packet, HistoryInv, TypeOK, WriterTypeOK
<1>2. written[p.order + 1] \in Message \cup {Bye}
  BY <1>1, ElementOfSeq DEF TypeOK, WriterTypeOK
<1>3. DOMAIN written[p.order + 1] = 1..Len(written[p.order + 1])
  BY <1>2, MessageType
<1> QED
  BY <1>1, <1>3 DEF Genuine, IsChunkOf

\* handleSplitPacket and receivePacket: the packet is at the receiver for good, and so
\* is all that was, unless a limit on messages or on reassemblies drops it.
LEMMA HandlePacketHolds ==
    ASSUME TypeOK, HistoryInv, SplitsInv, NEW p \in Packet, Genuine(p), HandlePacket(p),
           UNCHANGED <<written, splitOwner, orderIndex, splitId>>,
           Cardinality(DOMAIN splits) <= MaxSplits, Len(written[p.order + 1]) <= MaxSplitCount
    PROVE  /\ HasPacket(p)'
           /\ \A order, i : IsChunkOf(order, i) /\ Holds(order, i) => Holds(order, i)'
<1> DEFINE m == written[p.order + 1]
<1>1. /\ p.order \in Nat /\ p.splitId \in Nat /\ p.splitIndex \in Nat
      /\ p.splitCount \in Nat /\ p.content \in Chunk
      /\ DeliveryTypeOK /\ orderIndex \in Nat /\ splitId \in Nat /\ MaxSplits \in Nat
      /\ MaxSplitCount \in Nat
  BY LimitAssumption DEF Packet, TypeOK, WriterTypeOK
<1>2. p.order \in 0..(orderIndex - 1) /\ p.splitIndex + 1 \in 1..Len(m)
  BY GenuineIsChunk DEF IsChunkOf
<1>3. Len(m) \in Nat
  <2>1. Len(written) = orderIndex /\ written \in Seq(Message \cup {Bye})
    BY DEF HistoryInv, TypeOK, WriterTypeOK
  <2>2. p.order + 1 \in 1..Len(written)
    BY <1>1, <1>2, <2>1
  <2>3. m \in Message \cup {Bye}
    BY <2>1, <2>2, ElementOfSeq
  <2> QED
    BY <2>3, MessageType
<1>4. ASSUME NEW chunks, ReceivePacket(p.order, chunks)
      PROVE  /\ HasPacket(p)'
             /\ \A order \in Nat : \A i :
                    order < packQueue.lowest \/ order \in DOMAIN packQueue.data
                        => Holds(order, i)'
  <2>1. /\ p.order < packQueue'.lowest \/ p.order \in DOMAIN packQueue'.data
        /\ packQueue.lowest <= packQueue'.lowest /\ packQueue'.lowest \in Nat
        /\ \A k \in DOMAIN packQueue.data :
              k < packQueue'.lowest \/ k \in DOMAIN packQueue'.data
    BY <1>1, <1>4, ReceivePacketHolds
  <2>2. packQueue.lowest \in Nat
    BY <1>1 DEF DeliveryTypeOK
  <2> QED
    BY <2>1, <2>2 DEF HasPacket, Holds
<1> HIDE DEF m
<1>5. CASE ReceivePacket(p.order, <<p.content>>) /\ UNCHANGED splits
  <2> SUFFICES ASSUME NEW order, NEW i, IsChunkOf(order, i), Holds(order, i)
               PROVE  Holds(order, i)'
    BY <1>4, <1>5
  <2>1. order \in Nat
    BY DEF IsChunkOf
  <2>2. CASE order < packQueue.lowest \/ order \in DOMAIN packQueue.data
    BY <1>4, <1>5, <2>1, <2>2
  <2>3. CASE \E id \in DOMAIN splits : splitOwner[id + 1] = order /\ splits[id][i] # NoChunk
    BY <1>5, <2>3 DEF Holds
  <2> QED
    BY <2>2, <2>3 DEF Holds
<1>6. CASE p.split /\ HandleSplitPacket(p)
  <2> DEFINE entry == IF p.splitId \in DOMAIN splits THEN splits[p.splitId]
                      ELSE [i \in 1..p.splitCount |-> NoChunk]
             chunks == [entry EXCEPT ![p.splitIndex + 1] = p.content]
  <2>1. splitOwner[p.splitId + 1] = p.order /\ p.splitCount = Len(m)
    BY <1>6 DEF Genuine, m
  <2>2. DOMAIN entry = 1..Len(m)
    <3>1. CASE p.splitId \in DOMAIN splits
      <4>1. Len(entry) = Len(m) /\ entry \in Seq(Chunk \cup {NoChunk})
        BY <1>1, <2>1, <3>1 DEF SplitsInv, DeliveryTypeOK, m
      <4> QED
        BY <4>1, LenProperties
    <3>2. CASE p.splitId \notin DOMAIN splits
      BY <2>1, <3>2
    <3> QED
      BY <3>1, <3>2
  <2>3. ~(p.splitCount > MaxSplitCount \/ Cardinality(DOMAIN splits) > MaxSplits)
    <3>1. DOMAIN splits \subseteq 0..(splitId - 1)
      BY <1>1 DEF SplitsInv, DeliveryTypeOK
    <3>2. IsFiniteSet(DOMAIN splits)
      <4>1. IsFiniteSet(0..(splitId - 1))
        BY <1>1, FS_Interval
      <4> QED
        BY <3>1, <4>1, FS_Subset
    <3>3. Cardinality(DOMAIN splits) \in Nat
      BY <3>2, FS_CardinalityType
    <3> QED
      BY <1>1, <1>3, <2>1, <3>3 DEF m
  <2>4. \A i \in 1..Len(m) : chunks[i] = IF i = p.splitIndex + 1 THEN p.content ELSE entry[i]
    BY <2>2
  <2> HIDE DEF chunks
  <2>5. \/ /\ splits' = [i \in DOMAIN splits \cup {p.splitId} |->
                            IF i = p.splitId THEN chunks ELSE splits[i]]
           /\ UNCHANGED packQueue
        \/ /\ splits' = [i \in DOMAIN splits \ {p.splitId} |-> splits[i]]
           /\ ReceivePacket(p.order, chunks)
    BY <1>2, <1>6, <2>2, <2>3 DEF HandleSplitPacket, chunks
  <2>6. CASE /\ splits' = [i \in DOMAIN splits \cup {p.splitId} |->
                            IF i = p.splitId THEN chunks ELSE splits[i]]
             /\ UNCHANGED packQueue
    <3>1. /\ p.splitId \in DOMAIN splits' /\ splits'[p.splitId] = chunks
          /\ \A id \in DOMAIN splits : id \in DOMAIN splits'
                                       /\ (id # p.splitId => splits'[id] = splits[id])
      BY <2>6
    <3>2. p.content # NoChunk
      BY <1>1, MessageAssumption
    <3>3. HasPacket(p)'
      BY <1>2, <2>1, <2>4, <3>1, <3>2 DEF HasPacket, Holds
    <3> SUFFICES ASSUME NEW order, NEW i, IsChunkOf(order, i), Holds(order, i)
                 PROVE  Holds(order, i)'
      BY <3>3
    <3>4. CASE order < packQueue.lowest \/ order \in DOMAIN packQueue.data
      BY <2>6, <3>4 DEF Holds
    <3>5. ASSUME NEW id \in DOMAIN splits, splitOwner[id + 1] = order, splits[id][i] # NoChunk
          PROVE  splits'[id][i] # NoChunk
      <4>1. CASE id = p.splitId
        <5>1. i \in 1..Len(m)
          BY <2>1, <3>5, <4>1 DEF IsChunkOf, m
        <5> QED
          BY <2>4, <3>1, <3>2, <3>5, <4>1, <5>1
      <4> QED
        BY <3>1, <3>5, <4>1
    <3> QED
      BY <3>1, <3>4, <3>5 DEF Holds
  <2>7. CASE /\ splits' = [i \in DOMAIN splits \ {p.splitId} |-> splits[i]]
             /\ ReceivePacket(p.order, chunks)
    <3>1. HasPacket(p)'
      BY <1>4, <2>7
    <3> SUFFICES ASSUME NEW order, NEW i, IsChunkOf(order, i), Holds(order, i)
                 PROVE  Holds(order, i)'
      BY <3>1
    <3>2. order \in Nat
      BY DEF IsChunkOf
    <3>3. CASE order < packQueue.lowest \/ order \in DOMAIN packQueue.data
      BY <1>4, <2>7, <3>2, <3>3
    <3>4. ASSUME NEW id \in DOMAIN splits, splitOwner[id + 1] = order, splits[id][i] # NoChunk
          PROVE  Holds(order, i)'
      <4>1. CASE id = p.splitId
        <5>1. p.order < packQueue'.lowest \/ p.order \in DOMAIN packQueue'.data
          BY <1>1, <2>7, ReceivePacketHolds
        <5> QED
          BY <2>1, <3>4, <4>1, <5>1 DEF Holds
      <4>2. CASE id # p.splitId
        BY <2>7, <3>4, <4>2 DEF Holds
      <4> QED
        BY <4>1, <4>2
    <3> QED
      BY <3>3, <3>4 DEF Holds
  <2> QED
    BY <2>5, <2>6, <2>7
<1> QED
  BY <1>5, <1>6 DEF HandlePacket

\* Steps that move no packet into or out of recQueue and leave the receiver's queues
\* alone: what is in flight may go, and a number that was seen may be acknowledged.
LEMMA IdleKeepsLossInv ==
    ASSUME LossInv, UNCHANGED <<writerVars, dataQueue, splits, packQueue>>,
           datagrams' \subseteq datagrams,
           \A n \in datagramsReceived' : AlreadyReceived(n),
           \A f \in feedback' : \A n \in f.numbers : AlreadyReceived(n)
    PROVE  LossInv'
<1>1. UNCHANGED <<written, splitOwner, seq, orderIndex, recQueue>>
  BY DEF writerVars
<1>2. \A n : AlreadyReceived(n)' <=> AlreadyReceived(n)
  BY DEF AlreadyReceived
<1>3. \A order, i : (Holds(order, i)' <=> Holds(order, i)) /\ (Pending(order, i)' <=> Pending(order, i))
  BY <1>1 DEF Holds, Pending
<1>4. InFlightInv' /\ SeenInv'
  BY <1>1, <1>2 DEF LossInv, InFlightInv, SeenInv
<1>5. HeldInv'
  BY <1>1, <1>2, <1>3 DEF LossInv, HeldInv, HasPacket
<1>6. AckedInv'
  BY <1>2 DEF AckedInv
<1>7. NothingLost'
  BY <1>1, <1>3 DEF LossInv, NothingLost
<1> QED
  BY <1>4, <1>5, <1>6, <1>7 DEF LossInv

LEMMA ACKKeepsLossInv ==
    ASSUME LossInv, NEW f \in feedback, HandleACK(f)
    PROVE  LossInv'
<1>1. /\ recQueue' = [s \in DOMAIN recQueue \ f.numbers |-> recQueue[s]]
      /\ UNCHANGED <<written, splitOwner, seq, orderIndex, datagrams, dataQueue,
                     datagramsReceived, splits, packQueue>>
      /\ feedback' \subseteq feedback
  BY DEF HandleACK, TakeFeedback, receiverVars, deliveryVars
<1>2. /\ DOMAIN recQueue' = DOMAIN recQueue \ f.numbers
      /\ \A s \in DOMAIN recQueue' : recQueue'[s] = recQueue[s]
  BY <1>1
<1>3. \A n : AlreadyReceived(n)' <=> AlreadyReceived(n)
  BY <1>1 DEF AlreadyReceived
<1>4. \A order, i : Holds(order, i)' <=> Holds(order, i)
  BY <1>1 DEF Holds
<1>5. InFlightInv' /\ SeenInv' /\ AckedInv'
  BY <1>1, <1>2, <1>3 DEF LossInv, InFlightInv, SeenInv, AckedInv
<1>6. HeldInv'
  BY <1>2, <1>3, <1>4 DEF LossInv, HeldInv, HasPacket
<1>7. NothingLost'
  <2> SUFFICES ASSUME NEW order \in 0..(orderIndex - 1), NEW i \in 1..Len(written[order + 1])
               PROVE  Pending(order, i)' \/ Holds(order, i)
    BY <1>1, <1>4 DEF NothingLost
  <2>1. CASE Pending(order, i)
    <3>1. PICK s \in DOMAIN recQueue : recQueue[s].order = order /\ recQueue[s].splitIndex = i - 1
      BY <2>1 DEF Pending
    <3>2. CASE s \in f.numbers
      <4>1. HasPacket(recQueue[s])
        BY <3>2 DEF LossInv, AckedInv, HeldInv
      <4>2. i - 1 + 1 = i
        OBVIOUS
      <4> QED
        BY <3>1, <4>1, <4>2 DEF HasPacket
    <3>3. CASE s \notin f.numbers
      BY <1>2, <3>1, <3>3 DEF Pending
    <3> QED
      BY <3>2, <3>3
  <2> QED
    BY <2>1 DEF LossInv, NothingLost
<1> QED
  BY <1>5, <1>6, <1>7 DEF LossInv

\* receiveDatagram: the number is seen, and the packet it brought is kept.
LEMMA ReceiveKeepsLossInv ==
    ASSUME TypeOK, StreamInv, NoWrap, NothingGivenUp, NothingGivenUp', LossInv,
           NEW d \in datagrams, ReceiveDatagram(d)
    PROVE  LossInv'
<1>1. /\ UNCHANGED <<written, splitOwner, seq, orderIndex, splitId, recQueue>>
      /\ datagrams' \subseteq datagrams
      /\ datagramsReceived' = datagramsReceived \cup {d.number}
  BY DEF ReceiveDatagram, TakeDatagram, writerVars
<1>2. /\ d.number \in Nat /\ d.packet \in Packet /\ Genuine(d.packet)
      /\ d.number < seq /\ datagramsReceived \subseteq Nat /\ feedback \subseteq Feedback
      /\ DOMAIN recQueue \subseteq Nat
  <2>1. d.number \in Nat /\ d.packet \in Packet /\ datagramsReceived \subseteq Nat
        /\ feedback \subseteq Feedback
    BY DEF TypeOK, NetworkTypeOK, WindowTypeOK, Datagram
  <2>2. Genuine(d.packet) /\ d.number < seq
    BY DEF StreamInv, PacketsInv, LossInv, InFlightInv
  <2>3. DOMAIN recQueue \subseteq Nat
    BY DEF TypeOK, WriterTypeOK
  <2> QED
    BY <2>1, <2>2, <2>3
<1>3. CASE AlreadyReceived(d.number)
           /\ UNCHANGED <<dataQueue, missingDatagramTimes, feedback, deliveryVars>>
  <2>1. UNCHANGED <<writerVars, dataQueue, splits, packQueue>>
    BY <1>1, <1>3 DEF writerVars, deliveryVars
  <2> QED
    BY <1>1, <1>3, <2>1, IdleKeepsLossInv DEF LossInv, AckedInv
<1>4. CASE /\ ~AlreadyReceived(d.number)
           /\ Advance(d.number)
           /\ HandlePacket(d.packet)
  <2>1. /\ \A k \in Nat : AlreadyReceived(k)' <=> (AlreadyReceived(k) \/ k = d.number)
        /\ UNCHANGED feedback
    BY <1>2, <1>4, AdvanceSees DEF NothingGivenUp
  <2>2. Len(written[d.packet.order + 1]) <= MaxSplitCount
    <3>1. IsChunkOf(d.packet.order, d.packet.splitIndex + 1)
      BY <1>2, GenuineIsChunk DEF StreamInv
    <3>2. Len(written) = orderIndex /\ orderIndex \in Nat
      BY DEF StreamInv, HistoryInv, TypeOK, WriterTypeOK
    <3>3. d.packet.order + 1 \in 1..Len(written)
      BY <3>1, <3>2 DEF IsChunkOf
    <3> QED
      BY <3>3 DEF NothingGivenUp
  <2>3. /\ HasPacket(d.packet)'
        /\ \A order, i : IsChunkOf(order, i) /\ Holds(order, i) => Holds(order, i)'
    BY <1>1, <1>2, <1>4, <2>2, HandlePacketHolds DEF StreamInv, NothingGivenUp
  <2>4. InFlightInv'
    BY <1>1 DEF LossInv, InFlightInv
  <2>5. SeenInv'
    BY <1>1, <1>2, <2>1 DEF LossInv, SeenInv
  <2>6. HeldInv'
    <3> SUFFICES ASSUME NEW n \in DOMAIN recQueue, AlreadyReceived(n) \/ n = d.number
                 PROVE  HasPacket(recQueue[n])'
      BY <1>1, <1>2, <2>1 DEF HeldInv
    <3>1. CASE n = d.number
      BY <1>1, <2>3, <3>1 DEF LossInv, InFlightInv, HasPacket
    <3>2. CASE AlreadyReceived(n)
      <4>1. HasPacket(recQueue[n])
        BY <3>2 DEF LossInv, HeldInv
      <4>2. recQueue[n] \in Packet /\ Genuine(recQueue[n])
        BY DEF TypeOK, WriterTypeOK, StreamInv, PacketsInv
      <4>3. IsChunkOf(recQueue[n].order, recQueue[n].splitIndex + 1)
        BY <4>2, GenuineIsChunk DEF StreamInv
      <4> QED
        BY <1>1, <2>3, <4>1, <4>3 DEF HasPacket
    <3> QED
      BY <3>1, <3>2
  <2>7. AckedInv'
    <3>1. \A f \in feedback : f.numbers \subseteq Nat
      BY <1>2 DEF Feedback
    <3> QED
      BY <1>1, <1>2, <2>1, <3>1 DEF LossInv, AckedInv
  <2>8. NothingLost'
    <3> SUFFICES ASSUME NEW order \in 0..(orderIndex - 1), NEW i \in 1..Len(written[order + 1])
                 PROVE  Pending(order, i)' \/ Holds(order, i)'
      BY <1>1 DEF NothingLost
    <3>1. IsChunkOf(order, i)
      BY DEF IsChunkOf
    <3>2. Pending(order, i) => Pending(order, i)'
      BY <1>1 DEF Pending
    <3> QED
      BY <2>3, <3>1, <3>2 DEF LossInv, NothingLost
  <2> QED
    BY <2>4, <2>5, <2>6, <2>7, <2>8 DEF LossInv
<1>5. ~(dataQueue'.highest - dataQueue'.lowest > MaxWindowSize)
  <2>1. dataQueue' \in [lowest : Nat, highest : Nat, data : SUBSET Nat] \/ UNCHANGED dataQueue
    BY <1>2, AdvanceType DEF ReceiveDatagram
  <2>2. dataQueue'.highest \in Nat /\ dataQueue'.lowest \in Nat
    BY <2>1 DEF TypeOK, WindowTypeOK
  <2> QED
    BY <2>2, LimitAssumption DEF NothingGivenUp
<1> QED
  BY <1>3, <1>4, <1>5 DEF ReceiveDatagram

LEMMA InitLossInv == Init => LossInv
<1> SUFFICES ASSUME Init PROVE LossInv
  OBVIOUS
<1>1. /\ recQueue = [s \in {} |-> Bye] /\ datagrams = {} /\ feedback = {}
      /\ dataQueue = [lowest |-> 0, highest |-> 0, data |-> {}] /\ datagramsReceived = {}
      /\ orderIndex = 0
  BY DEF Init
<1>2. DOMAIN recQueue = {} /\ \A n \in Nat : ~AlreadyReceived(n)
  BY <1>1 DEF AlreadyReceived
<1> QED
  BY <1>1, <1>2 DEF LossInv, InFlightInv, SeenInv, HeldInv, AckedInv, NothingLost

LEMMA StepLossInv ==
    TypeOK /\ StreamInv /\ NoWrap /\ NoWrap' /\ NothingGivenUp /\ NothingGivenUp' /\ LossInv
        /\ [Next]_vars => LossInv'
<1> SUFFICES ASSUME TypeOK, StreamInv, NoWrap, NoWrap', NothingGivenUp, NothingGivenUp',
                    LossInv, [Next]_vars
             PROVE  LossInv'
  OBVIOUS
<1>0. /\ InFlightInv /\ SeenInv /\ HeldInv /\ AckedInv /\ NothingLost
      /\ HistoryInv /\ SplitsInv
      /\ seq \in Nat /\ orderIndex \in Nat /\ splitId \in Nat /\ seq' <= WireMod
  BY DEF LossInv, StreamInv, TypeOK, WriterTypeOK, NothingGivenUp
<1>1. ASSUME NEW m \in Message \cup {Bye}, Send(m), UNCHANGED <<feedback, receiverVars>>
      PROVE  LossInv'
  <2>1. UNCHANGED <<dataQueue, datagramsReceived, splits, packQueue, feedback>>
    BY <1>1 DEF receiverVars, deliveryVars
  <2>2. Len(Fragments(m)) \in Nat
    BY <1>0, FragmentsType, MessageType
  <2>3. \A id \in DOMAIN splits : splitOwner'[id + 1] = splitOwner[id + 1]
    BY <1>0, <1>1, OwnersKept
  <2>4. Transmit(recQueue, Fragments(m))
    BY <1>1 DEF Send
  <2>5. InFlightInv' /\ SeenInv' /\ HeldInv' /\ AckedInv'
    BY <1>0, <2>1, <2>2, <2>3, <2>4, TransmitKeepsSeen
  <2>6. NothingLost'
    BY <1>0, <1>1, <2>1, SendLosesNothing
  <2> QED
    BY <2>5, <2>6 DEF LossInv
<1>2. ASSUME DisconnectBody PROVE LossInv'
  BY <1>1, <1>2 DEF DisconnectBody
<1>3. ASSUME NEW S \in SUBSET (DOMAIN recQueue), NEW old \in Enumerations(S), Resend(old),
             feedback' \subseteq feedback, UNCHANGED receiverVars
      PROVE  LossInv'
  <2> DEFINE queue == [s \in DOMAIN recQueue \ {old[i] : i \in 1..Len(old)} |-> recQueue[s]]
             packets == [i \in 1..Len(old) |-> recQueue[old[i]]]
  <2>1. UNCHANGED <<dataQueue, datagramsReceived, splits, packQueue, splitOwner>>
    BY <1>3 DEF receiverVars, deliveryVars, Resend
  <2>2. Len(old) \in Nat
    <3>1. S \in SUBSET (0..(seq - 1))
      BY DEF TypeOK, WriterTypeOK
    <3> QED
      BY <1>0, <3>1, EnumerationType
  <2>3. Len(packets) \in Nat /\ DOMAIN queue \subseteq DOMAIN recQueue
        /\ \A s \in DOMAIN queue : queue[s] = recQueue[s]
    BY <2>2
  <2>4. Transmit(queue, packets)
    BY <1>3 DEF Resend
  <2> HIDE DEF queue, packets
  <2>5. InFlightInv' /\ SeenInv' /\ HeldInv' /\ AckedInv'
    BY <1>0, <1>3, <2>1, <2>3, <2>4, TransmitKeepsSeen
  <2>6. NothingLost'
    BY <1>0, <1>3, <2>1, ResendLosesNothing
  <2> QED
    BY <2>5, <2>6 DEF LossInv
<1>4. ASSUME NEW m \in Message, Write(m) PROVE LossInv'
  BY <1>1, <1>4 DEF Write
<1>5. CASE Disconnect
  BY <1>2, <1>5 DEF Disconnect
<1>6. CASE CheckResend
  <2>1. PICK latest \in DOMAIN recQueue :
          \E old \in Enumerations({s \in DOMAIN recQueue : s <= latest}) : Resend(old)
    BY <1>6 DEF CheckResend
  <2>2. {s \in DOMAIN recQueue : s <= latest} \in SUBSET (DOMAIN recQueue)
    OBVIOUS
  <2>3. UNCHANGED <<feedback, receiverVars>>
    BY <1>6 DEF CheckResend
  <2> QED
    BY <1>3, <2>1, <2>2, <2>3
<1>7. CASE GiveUp
  <2>1. CASE UNCHANGED <<writerVars, resends, stop, crashed, datagrams, feedback, faults,
                         receiverVars>>
    BY <1>0, <2>1, IdleKeepsLossInv DEF receiverVars, deliveryVars, AckedInv
  <2> QED
    BY <1>2, <1>7, <2>1 DEF GiveUp
<1>8. ASSUME NEW f \in feedback, HandleACK(f) PROVE LossInv'
  BY <1>8, ACKKeepsLossInv
<1>9. ASSUME NEW f \in feedback, HandleNACK(f) PROVE LossInv'
  BY <1>9 DEF HandleNACK, NothingGivenUp
<1>10. CASE FlushACKs
  <2>1. \A f \in feedback' : \A n \in f.numbers : AlreadyReceived(n)
    BY <1>0, <1>10, AcknowledgedNumbers DEF FlushACKs, AckedInv
  <2> QED
    BY <1>0, <1>10, <2>1, IdleKeepsLossInv DEF FlushACKs, deliveryVars, AckedInv
<1>11. ASSUME NEW d \in datagrams, ReceiveDatagram(d) PROVE LossInv'
  BY <1>11, ReceiveKeepsLossInv
<1>12. CASE Lose
  <2>1. feedback' \subseteq feedback /\ datagrams' \subseteq datagrams
        /\ UNCHANGED <<writerVars, receiverVars>>
    BY <1>12 DEF Lose
  <2> QED
    BY <1>0, <2>1, IdleKeepsLossInv DEF receiverVars, deliveryVars, AckedInv
<1>13. CASE UNCHANGED vars
  BY <1>0, <1>13, IdleKeepsLossInv DEF vars, receiverVars, deliveryVars, AckedInv
<1> QED
  BY <1>4, <1>5, <1>6, <1>7, <1>8, <1>9, <1>10, <1>11, <1>12, <1>13 DEF Next

\* Nothing is acknowledged and thrown away: on any network, each chunk written is in
\* recQueue or has reached the receiver for good, as long as no index wraps and the
\* receiver meets none of the limits of NothingGivenUp.
THEOREM NothingIsLost == Spec /\ []NoWrap /\ []NothingGivenUp => []NothingLost
<1>1. LossInv => NothingLost
  BY DEF LossInv
<1> QED
  BY <1>1, StepLossInv, InitLossInv, TypeCorrect, StreamInvariant, PTL DEF Spec
================================================================================
