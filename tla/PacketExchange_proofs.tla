------------------------- MODULE PacketExchange_proofs -------------------------
(***************************************************************************)
(* Proofs about PacketExchange: whatever the packets and however they are   *)
(* batched, an object of the pool is in one place at most (ObjectsApart),    *)
(* and a packet that was put aside is not read into again (DeferredIntact).  *)
(***************************************************************************)
EXTENDS PacketExchange, TLAPS

\* Heap and history are sequences, and the pool and the deferred packets hold
\* objects of the heap.
Stored ==
    /\ \E S : heap \in Seq(S)
    /\ \E S : received \in Seq(S)
    /\ deferredPackets \in Seq(1 .. Len(heap))
    /\ \A id \in DOMAIN pool : pool[id] \in Seq(1 .. Len(heap))

\* A deferred packet is among the deferred ones.
DeferredKept ==
    \A k \in DOMAIN received :
       received[k].fate = "deferred" => received[k].object \in ToSet(deferredPackets)

OwnerInv == Stored /\ ObjectsApart /\ DeferredKept /\ DeferredIntact

--------------------------------------------------------------------------------
(* Sequences.                                                               *)

\* What Append does to a sequence.
LEMMA AppendFacts ==
    ASSUME NEW S, NEW s \in Seq(S), NEW e \in S
    PROVE  /\ Append(s, e) \in Seq(S) /\ Len(s) \in Nat /\ Len(Append(s, e)) = Len(s) + 1
           /\ DOMAIN s = 1 .. Len(s) /\ DOMAIN Append(s, e) = 1 .. Len(s) + 1
           /\ \A i \in 1 .. Len(s) : Append(s, e)[i] = s[i]
           /\ Append(s, e)[Len(s) + 1] = e
OBVIOUS

\* What replacing an element does.
LEMMA ExceptFacts ==
    ASSUME NEW S, NEW s \in Seq(S), NEW e \in S, NEW i \in 1 .. Len(s)
    PROVE  /\ [s EXCEPT ![i] = e] \in Seq(S) /\ Len([s EXCEPT ![i] = e]) = Len(s)
           /\ [s EXCEPT ![i] = e][i] = e
           /\ \A j \in 1 .. Len(s) : j # i => [s EXCEPT ![i] = e][j] = s[j]
OBVIOUS

\* A sequence over a smaller set is one over a larger.
LEMMA SeqGrows ==
    ASSUME NEW S, NEW T, S \subseteq T, NEW s \in Seq(S)
    PROVE  s \in Seq(T)
OBVIOUS

\* An element added to a sequence that does not have it keeps it injective.
LEMMA InjectiveAppend ==
    ASSUME NEW S, NEW s \in Seq(S), NEW e, IsInjective(s), e \notin ToSet(s)
    PROVE  IsInjective(Append(s, e)) /\ ToSet(Append(s, e)) = ToSet(s) \cup {e}
<1> DEFINE T == S \cup {e}
<1>1. s \in Seq(T) /\ e \in T
    OBVIOUS
<1>2. /\ Len(Append(s, e)) = Len(s) + 1 /\ DOMAIN Append(s, e) = 1 .. Len(s) + 1
      /\ DOMAIN s = 1 .. Len(s)
      /\ \A i \in 1 .. Len(s) : Append(s, e)[i] = s[i]
      /\ Append(s, e)[Len(s) + 1] = e
    BY <1>1
<1>3. IsInjective(Append(s, e))
    BY <1>2 DEF IsInjective, ToSet
<1>4. ToSet(Append(s, e)) = ToSet(s) \cup {e}
    BY <1>2 DEF ToSet
<1> QED BY <1>3, <1>4

\* The tail of an injective sequence has everything but the head.
LEMMA InjectiveTail ==
    ASSUME NEW S, NEW s \in Seq(S), s # <<>>, IsInjective(s)
    PROVE  /\ Tail(s) \in Seq(S) /\ IsInjective(Tail(s))
           /\ ToSet(Tail(s)) = ToSet(s) \ {Head(s)} /\ Head(s) \in ToSet(s)
<1>1. /\ Tail(s) \in Seq(S) /\ DOMAIN s = 1 .. Len(s) /\ Len(s) >= 1
      /\ DOMAIN Tail(s) = 1 .. Len(s) - 1
      /\ \A i \in 1 .. Len(s) - 1 : Tail(s)[i] = s[i + 1]
      /\ Head(s) = s[1]
    OBVIOUS
<1>2. IsInjective(Tail(s))
    BY <1>1 DEF IsInjective
<1>3. ASSUME NEW x \in ToSet(Tail(s)) PROVE x \in ToSet(s) \ {Head(s)}
    BY <1>1 DEF IsInjective, ToSet
<1>4. ASSUME NEW x \in ToSet(s) \ {Head(s)} PROVE x \in ToSet(Tail(s))
  <2>1. PICK i \in 1 .. Len(s) : x = s[i]
      BY <1>1 DEF ToSet
  <2>2. i - 1 \in 1 .. Len(s) - 1 /\ Tail(s)[i - 1] = x
      BY <1>1, <2>1
  <2> QED BY <1>1, <2>2 DEF ToSet
<1>5. Head(s) \in ToSet(s)
    BY <1>1 DEF ToSet
<1> QED BY <1>1, <1>2, <1>3, <1>4, <1>5

--------------------------------------------------------------------------------
(* PacketPool::Get and Return.                                              *)

\* What a list holds once Get has taken an object of it: the rest, without it.
Rest(id) == IF Returned(id) = <<>> THEN <<>> ELSE Tail(Returned(id))

\* The object that Get gives is with nobody else, and no longer in a list.
LEMMA GetTakes ==
    ASSUME OwnerInv, NEW id
    PROVE  /\ Len(heap) \in Nat /\ Object(id) \in 1 .. Len(heap) + 1
           /\ Object(id) \notin ToSet(deferredPackets)
           /\ Rest(id) \in Seq(1 .. Len(heap)) /\ IsInjective(Rest(id))
           /\ Object(id) \notin ToSet(Rest(id))
           /\ \A x \in ToSet(Rest(id)) : x \notin ToSet(deferredPackets) /\ heap[x].id = id
           /\ \A i \in DOMAIN pool \ {id} : Object(id) \notin ToSet(pool[i])
<1>1. Len(heap) \in Nat /\ DOMAIN heap = 1 .. Len(heap)
    BY DEF OwnerInv, Stored
<1>2. /\ \A x \in ToSet(deferredPackets) : x \in 1 .. Len(heap)
      /\ \A i \in DOMAIN pool : \A x \in ToSet(pool[i]) : x \in 1 .. Len(heap)
    BY DEF OwnerInv, Stored, ToSet
<1>3. CASE Returned(id) = <<>>
  <2>1. Object(id) = Len(heap) + 1 /\ Rest(id) = <<>>
      BY <1>3 DEF Object, Rest
  <2>2. ToSet(<<>>) = {} /\ IsInjective(<<>>) /\ <<>> \in Seq(1 .. Len(heap))
      BY DEF ToSet, IsInjective
  <2>3. Len(heap) + 1 \notin 1 .. Len(heap)
      BY <1>1
  <2> QED BY <1>1, <1>2, <2>1, <2>2, <2>3
<1>4. CASE Returned(id) # <<>>
  <2>1. id \in DOMAIN pool /\ Returned(id) = pool[id] /\ pool[id] # <<>>
      BY <1>4 DEF Returned
  <2>2. /\ pool[id] \in Seq(1 .. Len(heap)) /\ IsInjective(pool[id])
        /\ \A x \in ToSet(pool[id]) : x \notin ToSet(deferredPackets) /\ heap[x].id = id
      BY <2>1 DEF OwnerInv, Stored, ObjectsApart
  <2>3. Object(id) = Head(pool[id]) /\ Rest(id) = Tail(pool[id])
      BY <1>4, <2>1 DEF Object, Rest
  <2>4. /\ Tail(pool[id]) \in Seq(1 .. Len(heap)) /\ IsInjective(Tail(pool[id]))
        /\ ToSet(Tail(pool[id])) = ToSet(pool[id]) \ {Head(pool[id])}
        /\ Head(pool[id]) \in ToSet(pool[id])
      BY <2>1, <2>2, InjectiveTail
  <2>5. /\ Head(pool[id]) \in 1 .. Len(heap) + 1 /\ Head(pool[id]) \notin ToSet(Tail(pool[id]))
        /\ Head(pool[id]) \notin ToSet(deferredPackets)
        /\ \A x \in ToSet(Tail(pool[id])) : x \notin ToSet(deferredPackets) /\ heap[x].id = id
      BY <1>1, <1>2, <2>1, <2>2, <2>4
  <2>6. \A i \in DOMAIN pool \ {id} : Head(pool[id]) \notin ToSet(pool[i])
      BY <2>2, <2>4 DEF OwnerInv, ObjectsApart
  <2> QED BY <1>1, <2>3, <2>4, <2>5, <2>6
<1> QED BY <1>3, <1>4

--------------------------------------------------------------------------------
(* The steps of receive.                                                    *)

\* An object that Deserialize failed on: Get took it and nobody has it.
LEMMA FailedKeeps ==
    ASSUME OwnerInv, NEW id, pool' = Return(id, Object(id), "failed"),
           UNCHANGED <<heap, deferredPackets, received>>
    PROVE  OwnerInv'
<1>1. /\ DOMAIN pool' = DOMAIN pool \cup {id} /\ pool'[id] = Rest(id)
      /\ \A i \in DOMAIN pool \ {id} : pool'[i] = pool[i]
    BY DEF Return, Rest
<1>2. Stored'
    BY <1>1, GetTakes DEF OwnerInv, Stored
<1>3. ObjectsApart'
    BY <1>1, GetTakes DEF OwnerInv, ObjectsApart
<1>4. DeferredKept' /\ DeferredIntact'
    BY DEF OwnerInv, DeferredKept, DeferredIntact
<1> QED BY <1>2, <1>3, <1>4 DEF OwnerInv

\* What receive does to the heap: the object holds the packet, no other changes.
LEMMA HeapStep ==
    ASSUME OwnerInv, NEW o \in 1 .. Len(heap) + 1, NEW p,
           heap' = IF o > Len(heap) THEN Append(heap, p) ELSE [heap EXCEPT ![o] = p]
    PROVE  /\ \E S : heap' \in Seq(S)
           /\ Len(heap) \in Nat /\ Len(heap') \in Nat /\ Len(heap') >= Len(heap)
           /\ o \in 1 .. Len(heap') /\ heap'[o] = p
           /\ \A i \in 1 .. Len(heap) : i # o => heap'[i] = heap[i]
<1>1. PICK S : heap \in Seq(S)
    BY DEF OwnerInv, Stored
<1> DEFINE T == S \cup {p}
<1>2. heap \in Seq(T) /\ p \in T /\ Len(heap) \in Nat
    BY <1>1, SeqGrows
<1> HIDE DEF T
<1>3. CASE o > Len(heap)
  <2>1. o = Len(heap) + 1 /\ heap' = Append(heap, p)
      BY <1>2, <1>3
  <2>2. /\ heap' \in Seq(T) /\ Len(heap') = Len(heap) + 1 /\ heap'[Len(heap) + 1] = p
        /\ \A i \in 1 .. Len(heap) : heap'[i] = heap[i]
      BY <1>2, <2>1, AppendFacts
  <2> QED BY <1>2, <2>1, <2>2
<1>4. CASE ~(o > Len(heap))
  <2>1. o \in 1 .. Len(heap) /\ heap' = [heap EXCEPT ![o] = p]
      BY <1>2, <1>4
  <2>2. /\ heap' \in Seq(T) /\ Len(heap') = Len(heap) /\ heap'[o] = p
        /\ \A i \in 1 .. Len(heap) : i # o => heap'[i] = heap[i]
      BY <1>2, <2>1, ExceptFacts
  <2> QED BY <1>2, <2>1, <2>2
<1> QED BY <1>3, <1>4

\* A packet that is dropped, handled or put aside: its object is given back, kept
\* among the deferred packets, or with nobody.
LEMMA ReceivedKeeps ==
    ASSUME OwnerInv, NEW id, NEW v, NEW fate \in {"dropped", "handled", "deferred"},
           NEW o, o = Object(id), NEW p, p = [id |-> id, value |-> v],
           heap' = IF o > Len(heap) THEN Append(heap, p) ELSE [heap EXCEPT ![o] = p],
           pool' = Return(id, o, fate),
           deferredPackets' = IF fate # "deferred" THEN deferredPackets
                              ELSE Append(deferredPackets, o),
           received' = Append(received, [id |-> id, value |-> v, object |-> o, fate |-> fate])
    PROVE  OwnerInv'
<1> DEFINE n == Len(heap)
           m == Len(heap')
           r == [id |-> id, value |-> v, object |-> o, fate |-> fate]
<1>1. /\ n \in Nat /\ o \in 1 .. n + 1 /\ o \notin ToSet(deferredPackets)
      /\ Rest(id) \in Seq(1 .. n) /\ IsInjective(Rest(id)) /\ o \notin ToSet(Rest(id))
      /\ \A x \in ToSet(Rest(id)) : x \notin ToSet(deferredPackets) /\ heap[x].id = id
      /\ \A i \in DOMAIN pool \ {id} : o \notin ToSet(pool[i])
    BY GetTakes
<1>2. /\ \E S : heap' \in Seq(S)
      /\ m \in Nat /\ m >= n /\ o \in 1 .. m /\ heap'[o] = p
      /\ \A i \in 1 .. n : i # o => heap'[i] = heap[i]
    BY <1>1, HeapStep
<1>3. /\ deferredPackets \in Seq(1 .. n) /\ IsInjective(deferredPackets)
      /\ \A i \in DOMAIN pool : /\ pool[i] \in Seq(1 .. n) /\ IsInjective(pool[i])
                                /\ \A x \in ToSet(pool[i]) :
                                      x \notin ToSet(deferredPackets) /\ heap[x].id = i
    BY DEF OwnerInv, Stored, ObjectsApart
<1>4. /\ ToSet(deferredPackets) \subseteq 1 .. n /\ ToSet(Rest(id)) \subseteq 1 .. n
      /\ \A i \in DOMAIN pool : ToSet(pool[i]) \subseteq 1 .. n
    BY <1>1, <1>3, SMTT(30) DEF ToSet
<1>5. \A s : s \in Seq(1 .. n) => s \in Seq(1 .. m)
  <2>1. 1 .. n \subseteq 1 .. m
      BY <1>1, <1>2
  <2> QED BY <2>1
<1>6. /\ deferredPackets' \in Seq(1 .. m) /\ IsInjective(deferredPackets')
      /\ ToSet(deferredPackets') = ToSet(deferredPackets)
                                     \cup (IF fate = "deferred" THEN {o} ELSE {})
  <2>1. CASE fate = "deferred"
    <3>1. deferredPackets' = Append(deferredPackets, o)
        BY <2>1
    <3>2. IsInjective(deferredPackets') /\ ToSet(deferredPackets') = ToSet(deferredPackets) \cup {o}
        BY <1>1, <1>3, <3>1, InjectiveAppend
    <3>3. deferredPackets' \in Seq(1 .. m)
      <4>1. deferredPackets \in Seq(1 .. m) /\ o \in 1 .. m
          BY <1>2, <1>3, <1>5
      <4>2. Append(deferredPackets, o) \in Seq(1 .. m)
          BY <4>1, AppendFacts
      <4> QED BY <3>1, <4>2
    <3> QED BY <2>1, <3>2, <3>3
  <2>2. CASE fate # "deferred"
      BY <1>3, <1>5, <2>2
  <2> QED BY <2>1, <2>2
<1>7. /\ DOMAIN pool' = DOMAIN pool \cup {id}
      /\ pool'[id] = IF fate = "handled" THEN Append(Rest(id), o) ELSE Rest(id)
      /\ \A i \in DOMAIN pool \ {id} : pool'[i] = pool[i]
    BY DEF Return, Rest
<1>8. /\ pool'[id] \in Seq(1 .. m) /\ IsInjective(pool'[id])
      /\ ToSet(pool'[id]) = ToSet(Rest(id)) \cup (IF fate = "handled" THEN {o} ELSE {})
  <2>1. CASE fate = "handled"
    <3>1. IsInjective(pool'[id]) /\ ToSet(pool'[id]) = ToSet(Rest(id)) \cup {o}
        BY <1>1, <1>7, <2>1, InjectiveAppend
    <3>2. pool'[id] \in Seq(1 .. m)
        BY <1>1, <1>2, <1>5, <1>7, <2>1
    <3> QED BY <2>1, <3>1, <3>2
  <2>2. CASE fate # "handled"
      BY <1>1, <1>5, <1>7, <2>2
  <2> QED BY <2>1, <2>2
<1>9. PICK R : received \in Seq(R)
    BY DEF OwnerInv, Stored
<1> DEFINE Q == R \cup {r}
<1>10. /\ received' \in Seq(Q) /\ DOMAIN received = 1 .. Len(received)
       /\ DOMAIN received' = 1 .. Len(received) + 1 /\ Len(received) \in Nat
       /\ \A k \in 1 .. Len(received) : received'[k] = received[k]
       /\ received'[Len(received) + 1] = r
  <2>1. received \in Seq(Q) /\ r \in Q
      BY <1>9
  <2> QED BY <2>1
<1>11. Stored'
  <2>1. \A i \in DOMAIN pool' : pool'[i] \in Seq(1 .. m)
      BY <1>3, <1>5, <1>7, <1>8
  <2> QED BY <1>2, <1>6, <1>10, <2>1 DEF Stored
<1>12. ObjectsApart'
  <2>1. ASSUME NEW i \in DOMAIN pool', NEW x \in ToSet(pool'[i])
        PROVE  x \notin ToSet(deferredPackets') /\ heap'[x].id = i
    <3>1. CASE i = id /\ x = o
      <4>1. fate = "handled"
          BY <1>1, <1>8, <2>1, <3>1
      <4> QED BY <1>1, <1>2, <1>6, <3>1, <4>1
    <3>2. CASE i = id /\ x # o
      <4>1. x \in ToSet(Rest(id))
          BY <1>8, <2>1, <3>2
      <4> QED BY <1>1, <1>2, <1>4, <1>6, <3>2, <4>1
    <3>3. CASE i # id
      <4>1. i \in DOMAIN pool /\ x \in ToSet(pool[i]) /\ x # o
          BY <1>1, <1>7, <2>1, <3>3
      <4> QED BY <1>2, <1>3, <1>4, <1>6, <4>1
    <3> QED BY <3>1, <3>2, <3>3
  <2>2. \A i \in DOMAIN pool' : IsInjective(pool'[i])
      BY <1>3, <1>7, <1>8
  <2> QED BY <1>6, <2>1, <2>2 DEF ObjectsApart
<1>13. DeferredKept'
  <2>1. ASSUME NEW k \in DOMAIN received', received'[k].fate = "deferred"
        PROVE  received'[k].object \in ToSet(deferredPackets')
    <3>1. CASE k = Len(received) + 1
      <4>1. received'[k] = r
          BY <1>10, <3>1
      <4>2. r.fate = "deferred" => o \in ToSet(deferredPackets')
          BY <1>6
      <4> QED BY <2>1, <4>1, <4>2
    <3>2. CASE k \in 1 .. Len(received)
        BY <1>6, <1>10, <2>1, <3>2 DEF OwnerInv, DeferredKept
    <3> QED BY <1>10, <3>1, <3>2
  <2> QED BY <2>1 DEF DeferredKept
<1>14. DeferredIntact'
  <2>1. ASSUME NEW k \in DOMAIN received', received'[k].fate = "deferred"
        PROVE  heap'[received'[k].object]
                 = [id |-> received'[k].id, value |-> received'[k].value]
    <3>1. CASE k = Len(received) + 1
        BY <1>2, <1>10, <3>1
    <3>2. CASE k \in 1 .. Len(received)
      <4>1. received'[k] = received[k] /\ received[k].object \in ToSet(deferredPackets)
          BY <1>10, <2>1, <3>2 DEF OwnerInv, DeferredKept
      <4>2. received[k].object \in 1 .. n /\ received[k].object # o
          BY <1>1, <1>4, <4>1
      <4>3. heap'[received[k].object] = heap[received[k].object]
          BY <1>2, <4>2
      <4>4. heap[received[k].object] = [id |-> received[k].id, value |-> received[k].value]
          BY <1>10, <2>1, <3>2, <4>1 DEF OwnerInv, DeferredIntact
      <4>5. /\ received'[k].object = received[k].object /\ received'[k].id = received[k].id
            /\ received'[k].value = received[k].value
          BY <4>1
      <4>6. heap'[received'[k].object] = heap[received[k].object]
          BY <4>3, <4>5
      <4>7. [id |-> received'[k].id, value |-> received'[k].value]
              = [id |-> received[k].id, value |-> received[k].value]
          BY <4>5
      <4> QED BY <4>4, <4>6, <4>7
    <3>3. k = Len(received) + 1 \/ k \in 1 .. Len(received)
        BY <1>10
    <3> QED BY <3>1, <3>2, <3>3
  <2> QED BY <2>1 DEF DeferredIntact
<1> QED BY <1>11, <1>12, <1>13, <1>14 DEF OwnerInv

--------------------------------------------------------------------------------
\* receive keeps the invariant, whatever the bytes say.
LEMMA ReceiveKeeps == OwnerInv /\ Receive => OwnerInv'
<1> SUFFICES ASSUME OwnerInv, Receive PROVE OwnerInv'
    OBVIOUS
<1> DEFINE header == ReadInt(Head(packets))
           id == PacketId(header.value)
           o  == Object(id)
           r  == Read(Deserialized(id), header.rest)
           v  == DeserializeInto(id, Held(o), r.value)
           p  == [id |-> id, value |-> v]
<1>1. CASE header.error # "" \/ id \notin Registered
  <2>1. UNCHANGED objects
      BY <1>1 DEF Receive
  <2> QED BY <2>1 DEF objects, OwnerInv, Stored, ObjectsApart, DeferredKept, DeferredIntact
<1>2. CASE ~(header.error # "" \/ id \notin Registered) /\ r.error # ""
  <2>1. pool' = Return(id, Object(id), "failed") /\ UNCHANGED <<heap, deferredPackets, received>>
      BY <1>2 DEF Receive
  <2> HIDE DEF id
  <2> QED BY <2>1, FailedKeeps
<1>3. CASE ~(header.error # "" \/ id \notin Registered) /\ ~(r.error # "")
  <2>1. /\ heap' = IF o > Len(heap) THEN Append(heap, p) ELSE [heap EXCEPT ![o] = p]
        /\ pool' = Return(id, o, Fate(id))
        /\ deferredPackets' = IF Fate(id) # "deferred" THEN deferredPackets
                              ELSE Append(deferredPackets, o)
        /\ received' = Append(received, [id |-> id, value |-> p.value,
                                         object |-> o, fate |-> Fate(id)])
      BY <1>3 DEF Receive
  <2>2. Fate(id) \in {"dropped", "handled", "deferred"}
      BY DEF Fate
  <2>3. p.value = v
      OBVIOUS
  <2> HIDE DEF id, v
  <2> QED BY <2>1, <2>2, <2>3, ReceivedKeeps
<1> QED BY <1>1, <1>2, <1>3

\* The invariant holds in every reachable state.
THEOREM OwnerInvariant == PacketSpec => []OwnerInv
<1>1. PacketInit => OwnerInv
  <2> SUFFICES ASSUME PacketInit PROVE OwnerInv
      OBVIOUS
  <2>1. heap = <<>> /\ pool = <<>> /\ deferredPackets = <<>> /\ received = <<>>
      BY DEF PacketInit
  <2>2. DOMAIN <<>> = {} /\ \A S : <<>> \in Seq(S)
      OBVIOUS
  <2> QED BY <2>1, <2>2 DEF OwnerInv, Stored, ObjectsApart, DeferredKept, DeferredIntact,
                            IsInjective
<1>2. OwnerInv /\ [PacketNext]_packetVars => OwnerInv'
  <2> SUFFICES ASSUME OwnerInv, [PacketNext]_packetVars PROVE OwnerInv'
      OBVIOUS
  <2>1. CASE Receive
      BY <2>1, ReceiveKeeps
  <2>2. CASE UNCHANGED objects
      BY <2>2 DEF objects, OwnerInv, Stored, ObjectsApart, DeferredKept, DeferredIntact
  <2>3. ASSUME [PacketNext]_packetVars PROVE Receive \/ UNCHANGED objects
      BY <2>3 DEF PacketNext, packetVars, WritePacket, Flush, ReceiveFrame,
                  ListenLoop_Read, ListenLoop_Stopped
  <2> QED BY <2>1, <2>2, <2>3
<1> QED BY <1>1, <1>2, PTL DEF PacketSpec

\* PacketPool and deferPacket: for every set of packets, an object is in one list of
\* the pool, or among the deferred packets, or with nobody.
THEOREM ObjectsStayApart == PacketSpec => []ObjectsApart
<1>1. OwnerInv => ObjectsApart
    BY DEF OwnerInv
<1> QED BY <1>1, OwnerInvariant, PTL

\* deferPacket: a packet put aside keeps what was read into it for ever.
THEOREM DeferredStayIntact == PacketSpec => []DeferredIntact
<1>1. OwnerInv => DeferredIntact
    BY DEF OwnerInv
<1> QED BY <1>1, OwnerInvariant, PTL
================================================================================
