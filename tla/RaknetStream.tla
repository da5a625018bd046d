----------------------------- MODULE RaknetStream ------------------------------
(***************************************************************************)
(* One direction of an established RakNet connection                        *)
(* (libs/protorock/src/raknet/state.cpp in state NORMAL): an endpoint that  *)
(* writes and an endpoint that receives, both running this code, and the    *)
(* UDP network between them.                                                *)
(*                                                                          *)
(* Threads of the writer: Write and Disconnect are called from user         *)
(* threads, the handlers and the timer run on the IO thread.  connectionMtx *)
(* makes Write, the handlers and the resend part of checkResend atomic;     *)
(* checkResend gives it up before it calls Disconnect, so a Write may slip  *)
(* in between (ioGivingUp).  All the receiver does runs on its IO thread.   *)
(*                                                                          *)
(* A message is a non-empty sequence of chunks, one chunk for each fragment *)
(* split() cuts it into.  What the wire truncates is truncated: sequence    *)
(* numbers and order indexes to 24 bits (WireMod), split ids to 16 bits     *)
(* (SplitIdMod).                                                            *)
(***************************************************************************)
EXTENDS Integers, Sequences, FiniteSets

CONSTANTS
    Chunk,           \* contents of a fragment
    NoChunk,         \* the empty buffer: a fragment that has not arrived
    Message,         \* what the users write
    Bye,             \* the DisconnectNotification, a message of one chunk
    MayThrow,        \* messages whose handler may throw, as that of a ConnectedPong
                     \* does when the clock was set back since the ping
    WireMod,         \* 2^24
    SplitIdMod,      \* 2^16
    MaxSplitCount,   \* 256, maxSplitCount
    MaxSplits,       \* 64, the bound on open reassemblies
    MissingLimit,    \* 10, datagrams received past a gap before it is given up
    MaxWindowSize,   \* 1024, maxWindowSize
    MaxResends,      \* 30, outstanding retransmissions before Disconnect
    MaxWrites,       \* bound on the messages written (not in the code)
    MaxSeq,          \* bound on the datagrams ever sent (not in the code)
    EarlyLimit,      \* bound on the numbers of resends that are early (not in the code)
    MaxFaults        \* bound on the losses and duplications of the network

ASSUME MessageAssumption ==
    /\ NoChunk \notin Chunk
    /\ Message \subseteq Seq(Chunk) \ {<<>>}
    /\ Bye \in Seq(Chunk) /\ Len(Bye) = 1 /\ Bye \notin Message
    /\ MayThrow \subseteq Message

ASSUME LimitAssumption ==
    /\ WireMod \in Nat \ {0} /\ SplitIdMod \in Nat \ {0}
    /\ MaxSplitCount \in Nat /\ MaxSplits \in Nat
    /\ MissingLimit \in Nat \ {0} /\ MaxWindowSize \in Nat /\ MaxResends \in Nat
    /\ MaxWrites \in Nat /\ MaxSeq \in Nat /\ EarlyLimit \in Nat /\ MaxFaults \in Nat

VARIABLES
    \* the writer
    written,               \* history: the messages written
    splitOwner,            \* history: the order index each split id was given to
    seq, orderIndex, splitId,
    recQueue,              \* sequence number -> packet sent and not acknowledged
    resends,
    stop,                  \* Disconnect was called: socket closed, handlers off
    ioGivingUp,            \* the IO thread is between resend and Disconnect
    crashed,               \* the IO thread dereferenced a null packet
    \* the network
    datagrams,             \* data in flight
    feedback,              \* ACKs and NACKs in flight
    faults,                \* losses and duplications so far
    \* the receiver
    dataQueue,             \* sequence numbers seen above the first gap
    datagramsReceived,     \* sequence numbers to acknowledge
    missingDatagramTimes,
    splits,                \* split id -> chunks of a message being reassembled
    packQueue,             \* messages that wait for an earlier one
    fetched,               \* history: the messages taken out of packQueue, in order
    skipped,               \* history: the order indexes of those of fetched that
                           \* never got to handlePacket, as one before them threw
    remoteStop             \* the receiver handled a DisconnectNotification

writerVars   == <<written, splitOwner, seq, orderIndex, splitId, recQueue>>
deliveryVars == <<splits, packQueue, fetched, skipped, remoteStop>>
receiverVars == <<dataQueue, datagramsReceived, missingDatagramTimes, deliveryVars>>
vars == <<writerVars, resends, stop, ioGivingUp, crashed,
          datagrams, feedback, faults, receiverVars>>

Packet == [order : Nat, split : BOOLEAN, splitId : Nat, splitIndex : Nat,
           splitCount : Nat, content : Chunk]
Datagram == [number : Nat, packet : Packet]
Feedback == [kind : {"ACK", "NACK"}, numbers : SUBSET Nat]

Wire(n) == n % WireMod

--------------------------------------------------------------------------------
Init ==
    /\ written = <<>> /\ splitOwner = <<>>
    /\ seq = 0 /\ orderIndex = 0 /\ splitId = 0
    /\ recQueue = [s \in {} |-> Bye]
    /\ resends = 0 /\ stop = FALSE /\ ioGivingUp = FALSE /\ crashed = FALSE
    /\ datagrams = {} /\ feedback = {} /\ faults = 0
    /\ dataQueue = [lowest |-> 0, highest |-> 0, data |-> {}]
    /\ datagramsReceived = {} /\ missingDatagramTimes = 0
    /\ splits = [i \in {} |-> <<>>]
    /\ packQueue = [lowest |-> 0, highest |-> 0, data |-> [i \in {} |-> <<>>]]
    /\ fetched = <<>> /\ skipped = {} /\ remoteStop = FALSE

--------------------------------------------------------------------------------
(* The network.  A datagram that is taken may stay in flight (a duplicate), *)
(* and sets keep no order.                                                  *)

Fault == faults < MaxFaults /\ faults' = faults + 1

TakeDatagram(d) ==
    \/ datagrams' = datagrams \ {d} /\ UNCHANGED faults
    \/ Fault /\ UNCHANGED datagrams

TakeFeedback(f) ==
    \/ feedback' = feedback \ {f} /\ UNCHANGED faults
    \/ Fault /\ UNCHANGED feedback

Lose ==
    /\ Fault
    /\ \/ \E d \in datagrams : datagrams' = datagrams \ {d} /\ UNCHANGED feedback
       \/ \E f \in feedback : feedback' = feedback \ {f} /\ UNCHANGED datagrams
    /\ UNCHANGED <<writerVars, resends, stop, ioGivingUp, crashed, receiverVars>>

--------------------------------------------------------------------------------
(* The writer.                                                              *)

\* Each packet gets the next sequence number, leaves, and is kept until it is
\* acknowledged.  The queue is recQueue, without the packets taken out of it.
Transmit(queue, packets) ==
    LET n == Len(packets) IN
    /\ seq' = seq + n
    /\ recQueue' = [s \in DOMAIN queue \cup seq..(seq + n - 1) |->
                       IF s < seq THEN queue[s] ELSE packets[s - seq + 1]]
    /\ datagrams' = datagrams \cup
          {[number |-> Wire(seq + i - 1), packet |-> packets[i]] : i \in 1..n}

\* Mutant of Fragments: the split id is not counted.
Fragments_SameSplitId(m) ==
    [i \in 1..Len(m) |->
        [order |-> Wire(orderIndex), split |-> Len(m) > 1, splitId |-> 0,
         splitIndex |-> i - 1, splitCount |-> Len(m), content |-> m[i]]]

\* The packets of a message: one order index for all, one split id if there are
\* several.
Fragments(m) ==
    [i \in 1..Len(m) |->
        [order      |-> Wire(orderIndex),
         split      |-> Len(m) > 1,
         splitId    |-> IF Len(m) > 1 THEN splitId % SplitIdMod ELSE 0,
         splitIndex |-> i - 1,
         splitCount |-> Len(m),
         content    |-> m[i]]]

\* state::write.
Send(m) ==
    /\ written' = Append(written, m)
    /\ orderIndex' = orderIndex + 1
    /\ \/ Len(m) = 1 /\ UNCHANGED <<splitId, splitOwner>>
       \/ Len(m) > 1 /\ splitId' = splitId + 1
                     /\ splitOwner' = Append(splitOwner, orderIndex)
    /\ Transmit(recQueue, Fragments(m))

Write(m) ==
    /\ ~stop /\ ~crashed
    /\ orderIndex < MaxWrites /\ seq + Len(m) <= MaxSeq
    /\ Send(m)
    /\ UNCHANGED <<resends, stop, ioGivingUp, crashed, feedback, faults, receiverVars>>

\* state::Disconnect: the notification goes out before the socket is closed.
DisconnectBody ==
    /\ seq < MaxSeq
    /\ Send(Bye)
    /\ stop' = TRUE
    /\ UNCHANGED <<resends, crashed, feedback, faults, receiverVars>>

Disconnect ==
    /\ ~stop /\ ~crashed
    /\ DisconnectBody
    /\ UNCHANGED ioGivingUp

IOThreadReady == ~stop /\ ~crashed /\ ~ioGivingUp

\* The orders in which the elements of a set can be enumerated.
Enumerations(S) ==
    {f \in [1..Cardinality(S) -> S] : \A i, j \in DOMAIN f : f[i] = f[j] => i = j}

\* Mutant of Resend: the packets get new numbers, and nothing is sent.
Resend_Unsent(old) ==
    /\ seq' = seq + Len(old)
    /\ recQueue' = [s \in (DOMAIN recQueue \ {old[i] : i \in 1..Len(old)})
                            \cup seq..(seq + Len(old) - 1) |->
                       IF s < seq THEN recQueue[s] ELSE recQueue[old[s - seq + 1]]]
    /\ UNCHANGED <<written, splitOwner, orderIndex, splitId, datagrams>>

\* state::resend: each packet moves to a new sequence number and leaves again.
Resend(old) ==
    /\ Transmit([s \in DOMAIN recQueue \ {old[i] : i \in 1..Len(old)} |-> recQueue[s]],
                [i \in 1..Len(old) |-> recQueue[old[i]]])
    /\ UNCHANGED <<written, splitOwner, orderIndex, splitId>>

\* state::checkResend, up to the unlock: the packets older than the delay, which
\* are those sent no later than some sequence number, in the order of a hash map.
CheckResend ==
    /\ IOThreadReady
    /\ \E latest \in DOMAIN recQueue :
         LET late == {s \in DOMAIN recQueue : s <= latest} IN
         /\ seq + Cardinality(late) <= MaxSeq
         /\ \E old \in Enumerations(late) : Resend(old)
         /\ resends' = resends + Cardinality(late)
         /\ ioGivingUp' = (resends' > MaxResends)
    /\ UNCHANGED <<stop, crashed, feedback, faults, receiverVars>>

\* The call of Disconnect at the end of checkResend; a user's Disconnect may have
\* come first, and then no second notification is written.
GiveUp ==
    /\ ioGivingUp /\ ~crashed
    /\ ioGivingUp' = FALSE
    /\ \/ ~stop /\ DisconnectBody
       \/ stop /\ UNCHANGED <<writerVars, resends, stop, crashed, datagrams, feedback,
                              faults, receiverVars>>

HandleACK(f) ==
    /\ IOThreadReady /\ f.kind = "ACK"
    /\ TakeFeedback(f)
    /\ recQueue' = [s \in DOMAIN recQueue \ f.numbers |-> recQueue[s]]
    /\ resends' = IF resends > 0 THEN resends - 1 ELSE 0
    /\ UNCHANGED <<written, splitOwner, seq, orderIndex, splitId, stop, ioGivingUp,
                   crashed, datagrams, receiverVars>>

\* state::handleNACK: the numbers come in ascending order, and the first one that
\* is not in recQueue any more makes resend dereference a null pointer.
HandleNACK(f) ==
    /\ IOThreadReady /\ f.kind = "NACK"
    /\ TakeFeedback(f)
    /\ LET unknown == f.numbers \ DOMAIN recQueue
           known   == {n \in f.numbers : \A u \in unknown : n < u}
       IN  /\ seq + Cardinality(known) <= MaxSeq
           /\ \E old \in Enumerations(known) :
                /\ \A i, j \in DOMAIN old : i < j => old[i] < old[j]
                /\ Resend(old)
           /\ crashed' = (unknown # {})
    /\ UNCHANGED <<resends, stop, ioGivingUp, receiverVars>>

--------------------------------------------------------------------------------
(* The receiver.                                                            *)

\* The end of the run of consecutive members of S that starts at first:
\* packetQueue::fetch and datagramQueue::clear both stop there.
IsRunEnd(first, end, S) ==
    /\ \A i \in first..(end - 1) : i \in S
    /\ end \notin S

\* Mutant of Acknowledgements: one range from the smallest to the largest number.
Acknowledgements_Range(kind, numbers) ==
    {[kind |-> kind,
      numbers |-> {n \in 0..seq : \E i, j \in numbers : i <= n /\ n <= j}]}

\* sendAcknowledgement sends one message for each element: the whole list, then
\* the list without its smallest element, and so on down to the largest.
Acknowledgements(kind, numbers) ==
    {[kind |-> kind, numbers |-> {n \in numbers : n >= first}] : first \in numbers}

FlushACKs ==
    /\ ~remoteStop
    /\ datagramsReceived # {}
    /\ feedback' = feedback \cup Acknowledgements("ACK", datagramsReceived)
    /\ datagramsReceived' = {}
    /\ UNCHANGED <<writerVars, resends, stop, ioGivingUp, crashed, datagrams, faults,
                   dataQueue, missingDatagramTimes, deliveryVars>>

\* packetQueue::put refuses a message that is waiting or was taken out before.
AlreadyQueued(order) == order < packQueue.lowest \/ order \in DOMAIN packQueue.data

\* Mutants of ReceivePacket: messages handed on as they arrive; a message that was
\* handled before handed on again.
ReceivePacket_Unordered(order, m) ==
    /\ fetched' = Append(fetched, m)
    /\ UNCHANGED <<packQueue, skipped, remoteStop>>

ReceivePacket_Twice(order, m) ==
    /\ order = packQueue.lowest \/ order < packQueue.lowest
    /\ fetched' = Append(fetched, m)
    /\ packQueue' = [packQueue EXCEPT !.lowest = order + 1]
    /\ UNCHANGED <<skipped, remoteStop>>

\* state::receivePacket with packetQueue::put and fetch.  Its loop ends at last, the
\* end of the run or a message whose handler throws: what fetch took out of the queue
\* behind that one is not handled, then or later.
ReceivePacket(order, m) ==
    \/ /\ AlreadyQueued(order)
       /\ UNCHANGED <<packQueue, fetched, skipped, remoteStop>>
    \/ /\ ~AlreadyQueued(order)
       /\ LET lowest  == packQueue.lowest
              highest == IF order >= packQueue.highest THEN order + 1 ELSE packQueue.highest
              keys    == DOMAIN packQueue.data \cup {order}
              data    == [k \in keys |-> IF k = order THEN m ELSE packQueue.data[k]]
          IN \E end \in lowest..highest :
               /\ IsRunEnd(lowest, end, keys)
               /\ fetched' = fetched \o [i \in 1..(end - lowest) |-> data[lowest + i - 1]]
               /\ packQueue' = [lowest |-> end, highest |-> highest,
                                data |-> [k \in keys \ (lowest..(end - 1)) |-> data[k]]]
               /\ \E last \in {end - 1} \cup {k \in lowest..(end - 1) : data[k] \in MayThrow} :
                    /\ skipped' = skipped \cup ((last + 1)..(end - 1))
                    /\ remoteStop' = (\E k \in lowest..last : data[k] = Bye)

\* state::handleSplitPacket.
HandleSplitPacket(p) ==
    LET open  == p.splitId \in DOMAIN splits
        entry == IF open THEN splits[p.splitId]
                         ELSE [i \in 1..p.splitCount |-> NoChunk]
        chunks == [entry EXCEPT ![p.splitIndex + 1] = p.content]
        Keep(e) == splits' = [i \in DOMAIN splits \cup {p.splitId} |->
                                 IF i = p.splitId THEN e ELSE splits[i]]
        full == p.splitCount > MaxSplitCount \/ Cardinality(DOMAIN splits) > MaxSplits
        inRange == p.splitIndex + 1 \in DOMAIN entry
        complete == \A i \in DOMAIN chunks : chunks[i] # NoChunk
    IN  \/ full /\ UNCHANGED deliveryVars
        \/ ~full /\ ~inRange /\ Keep(entry)
             /\ UNCHANGED <<packQueue, fetched, skipped, remoteStop>>
        \/ ~full /\ inRange /\ ~complete /\ Keep(chunks)
             /\ UNCHANGED <<packQueue, fetched, skipped, remoteStop>>
        \/ /\ ~full /\ inRange /\ complete
           /\ splits' = [i \in DOMAIN splits \ {p.splitId} |-> splits[i]]
           /\ ReceivePacket(p.order, chunks)

HandlePacket(p) ==
    \/ p.split /\ HandleSplitPacket(p)
    \/ ~p.split /\ ReceivePacket(p.order, <<p.content>>) /\ UNCHANGED splits

\* Mutant of AlreadyReceived: only what extends the window is new.
AlreadyReceived_Highest(n) == n < dataQueue.highest

\* datagramQueue::put refuses what was received, or given up by missing.
AlreadyReceived(n) == n < dataQueue.lowest \/ n \in dataQueue.data

\* datagramQueue::clear, given the end of the run at lowest.
Cleared(data, end) == data \ (dataQueue.lowest..(end - 1))

\* datagramQueue::missing: the gaps, which count as received from then on.
Missing(data, end, highest) == (end..(highest - 1)) \ data

\* Mutant of Advance: the count of datagrams past a gap is not reset when the gap
\* is given up.
Advance_NoReset(n) ==
    LET highest == IF n >= dataQueue.highest THEN n + 1 ELSE dataQueue.highest
        data    == dataQueue.data \cup {n}
    IN \E end \in dataQueue.lowest..highest :
         /\ IsRunEnd(dataQueue.lowest, end, data)
         /\ missingDatagramTimes' =
               IF end = dataQueue.lowest THEN missingDatagramTimes + 1 ELSE 0
         /\ dataQueue' = [lowest |-> end, highest |-> highest, data |-> Cleared(data, end)]
         /\ UNCHANGED feedback

\* The part of receiveDatagram before the packet is read: datagramQueue::put and
\* clear, and after MissingLimit datagrams without progress a NACK for the gaps,
\* which missing() at the same time records as received.
Advance(n) ==
    LET highest == IF n >= dataQueue.highest THEN n + 1 ELSE dataQueue.highest
        data    == dataQueue.data \cup {n}
    IN \E end \in dataQueue.lowest..highest :
         LET times == IF end = dataQueue.lowest THEN missingDatagramTimes + 1 ELSE 0
         IN /\ IsRunEnd(dataQueue.lowest, end, data)
            /\ \/ /\ times < MissingLimit
                  /\ missingDatagramTimes' = times
                  /\ dataQueue' = [lowest |-> end, highest |-> highest,
                                   data |-> Cleared(data, end)]
                  /\ UNCHANGED feedback
               \/ /\ times >= MissingLimit
                  /\ missingDatagramTimes' = 0
                  /\ dataQueue' = [lowest |-> highest, highest |-> highest, data |-> {}]
                  /\ feedback' = feedback \cup Acknowledgements("NACK",
                                                      Missing(data, end, highest))

\* state::receiveDatagram.
ReceiveDatagram(d) ==
    /\ ~remoteStop
    /\ TakeDatagram(d)
    /\ datagramsReceived' = datagramsReceived \cup {d.number}
    /\ \/ AlreadyReceived(d.number)
          /\ UNCHANGED <<dataQueue, missingDatagramTimes, feedback, deliveryVars>>
       \/ /\ ~AlreadyReceived(d.number)
          /\ Advance(d.number)
          /\ \/ /\ dataQueue'.highest - dataQueue'.lowest > MaxWindowSize
                /\ UNCHANGED deliveryVars
             \/ /\ dataQueue'.highest - dataQueue'.lowest <= MaxWindowSize
                /\ HandlePacket(d.packet)
    /\ UNCHANGED <<writerVars, resends, stop, ioGivingUp, crashed>>

--------------------------------------------------------------------------------
Next ==
    \/ \E m \in Message : Write(m)
    \/ Disconnect
    \/ CheckResend
    \/ GiveUp
    \/ \E f \in feedback : HandleACK(f) \/ HandleNACK(f)
    \/ FlushACKs
    \/ \E d \in datagrams : ReceiveDatagram(d)
    \/ Lose

Spec == Init /\ [][Next]_vars

\* Nothing is on its way to the receiver or back, nor waits to be acknowledged.
Quiet == datagrams = {} /\ feedback = {} /\ datagramsReceived = {}

\* A session without Disconnect, with a timer that waits for three times the mean
\* delay and more (state.cpp:115): while numbers below EarlyLimit are left it may
\* still resend what is only late, after that it resends what was lost.
PatientNext ==
    \/ \E m \in Message : Write(m)
    \/ CheckResend /\ (Quiet \/ seq' <= EarlyLimit)
    \/ GiveUp
    \/ \E f \in feedback : HandleACK(f) \/ HandleNACK(f)
    \/ FlushACKs
    \/ \E d \in datagrams : ReceiveDatagram(d)
    \/ Lose

\* The timer of state::onTick fires again and again until Disconnect, and asio runs
\* each handler that is ready.  Nobody has to write, and the network may drop
\* MaxFaults messages but in the end delivers what stays in flight.
Fairness ==
    /\ WF_vars(Quiet /\ CheckResend)
    /\ WF_vars(GiveUp)
    /\ WF_vars(\E f \in feedback : HandleACK(f) \/ HandleNACK(f))
    /\ WF_vars(FlushACKs)
    /\ WF_vars(\E d \in datagrams : ReceiveDatagram(d))

PatientSpec == Init /\ [][PatientNext]_vars /\ Fairness

--------------------------------------------------------------------------------
WriterTypeOK ==
    /\ written \in Seq(Message \cup {Bye})
    /\ splitOwner \in Seq(Nat)
    /\ seq \in 0..MaxSeq /\ orderIndex \in Nat /\ splitId \in Nat
    /\ DOMAIN recQueue \subseteq 0..(seq - 1)
    /\ recQueue \in [DOMAIN recQueue -> Packet]
    /\ resends \in Nat /\ stop \in BOOLEAN /\ ioGivingUp \in BOOLEAN /\ crashed \in BOOLEAN
NetworkTypeOK ==
    /\ datagrams \subseteq Datagram
    /\ feedback \subseteq Feedback
    /\ faults \in 0..MaxFaults
WindowTypeOK ==
    /\ dataQueue \in [lowest : Nat, highest : Nat, data : SUBSET Nat]
    /\ datagramsReceived \subseteq Nat
    /\ missingDatagramTimes \in 0..(MissingLimit - 1)
DeliveryTypeOK ==
    /\ DOMAIN splits \subseteq Nat
    /\ splits \in [DOMAIN splits -> Seq(Chunk \cup {NoChunk})]
    /\ packQueue.lowest \in Nat /\ packQueue.highest \in Nat
    /\ DOMAIN packQueue.data \subseteq Nat
    /\ packQueue.data \in [DOMAIN packQueue.data -> Seq(Chunk)]
    /\ fetched \in Seq(Seq(Chunk)) /\ skipped \subseteq Nat
    /\ remoteStop \in BOOLEAN

\* Every variable keeps its type, every counter its bound: datagrams are numbered
\* below seq, and a gap is never counted up to MissingLimit without being closed.
TypeOK == WriterTypeOK /\ NetworkTypeOK /\ WindowTypeOK /\ DeliveryTypeOK

--------------------------------------------------------------------------------
\* Fewer messages than order indexes, fewer split messages than split ids.
NoWrap == orderIndex <= WireMod /\ splitId <= SplitIdMod

\* A message that may throw comes before message k, and all from there to k are skipped.
Excused(k) ==
    \E j \in 0..(k - 1) : written[j + 1] \in MayThrow /\ (j + 1)..k \subseteq skipped

\* Messages come out of packQueue in the order in which write numbered them, none
\* twice and none with the chunks of another, whatever the network loses,
\* duplicates and reorders, as long as no index has wrapped on the wire; and those
\* that are not handled then come right behind one whose handler may throw.
HandledInOrder ==
    NoWrap => /\ Len(fetched) <= Len(written)
              /\ \A i \in 1..Len(fetched) : fetched[i] = written[i]
              /\ \A k \in skipped : Excused(k)

\* What makes HandledInOrder inductive: every packet that is still somewhere is the
\* fragment it claims to be of the message its order index and its split id name.
Genuine(p) ==
    /\ p.order < orderIndex
    /\ p.splitIndex + 1 \in DOMAIN written[p.order + 1]
    /\ p.splitCount = Len(written[p.order + 1])
    /\ p.content = written[p.order + 1][p.splitIndex + 1]
    /\ p.split <=> p.splitCount > 1
    /\ p.split => p.splitId < splitId /\ splitOwner[p.splitId + 1] = p.order

HistoryInv ==
    /\ Len(written) = orderIndex /\ Len(splitOwner) = splitId
    /\ \A i \in 1..splitId : splitOwner[i] < orderIndex
PacketsInv ==
    /\ \A s \in DOMAIN recQueue : Genuine(recQueue[s])
    /\ \A d \in datagrams : Genuine(d.packet)
SplitsInv ==
    \A id \in DOMAIN splits :
        /\ id < splitId
        /\ Len(splits[id]) = Len(written[splitOwner[id + 1] + 1])
        /\ \A i \in DOMAIN splits[id] :
              splits[id][i] \in {NoChunk, written[splitOwner[id + 1] + 1][i]}
QueueInv ==
    /\ packQueue.lowest = Len(fetched) /\ Len(fetched) <= orderIndex
    /\ \A k \in DOMAIN packQueue.data :
          k < orderIndex /\ packQueue.data[k] = written[k + 1]
    /\ \A i \in 1..Len(fetched) : fetched[i] = written[i]
    /\ \A k \in skipped : k < Len(fetched) /\ Excused(k)
StreamInv == HistoryInv /\ (NoWrap => PacketsInv /\ SplitsInv /\ QueueInv)

\* The receiver still has chunk i of a message, or is done with it.
Holds(order, i) ==
    \/ order < packQueue.lowest
    \/ order \in DOMAIN packQueue.data
    \/ \E id \in DOMAIN splits : /\ splitOwner[id + 1] = order
                                 /\ splits[id][i] # NoChunk

\* The writer can still resend chunk i of a message.
Pending(order, i) ==
    \E s \in DOMAIN recQueue : /\ recQueue[s].order = order
                               /\ recQueue[s].splitIndex = i - 1

\* Nothing is acknowledged and thrown away: each chunk written can still be resent
\* by checkResend or handleNACK, or has reached the receiver for good.
NothingLost ==
    \A order \in 0..(orderIndex - 1) :
        \A i \in 1..Len(written[order + 1]) : Pending(order, i) \/ Holds(order, i)

\* An entry of splits belongs to a message that is still being reassembled.
SplitsAreActive ==
    \A id \in DOMAIN splits : /\ splitOwner[id + 1] >= packQueue.lowest
                              /\ splitOwner[id + 1] \notin DOMAIN packQueue.data

\* The sender never looks for a packet that recQueue no longer has.
NoNullPacket == ~crashed

\* Each message that is written is handled in the end, whatever is lost on the way:
\* the timer resends until all its packets have arrived.
EveryMessageArrives ==
    \A n \in 1..MaxWrites :
        Len(written) >= n ~> Len(fetched) >= n /\ n - 1 \notin skipped

Stream == INSTANCE ReliableOrderedStream WITH Message <- Message \cup {Bye}

\* The connection implements the ordered stream of packet.h.
ImplementsStream == Stream!Spec
================================================================================
