----------------------- MODULE DatagramExchange_proofs -----------------------
(***************************************************************************)
(* Proofs about the bytes of DatagramExchange.                              *)
(*                                                                          *)
(* First the acknowledgements.                                              *)
(* What acknowledgement::write makes of the numbers is the records of a list *)
(* of ranges, and the ranges make up a first part of the numbers; read gives *)
(* back the numbers of the ranges.  The loop of write and the readings of    *)
(* read are recursive functions: what holds after each of their turns is     *)
(* shown by the induction of SequenceLemmas.  From there on the state is     *)
(* followed: every number that came is acknowledged, waits, or is the first  *)
(* of a message on its way.                                                  *)
(*                                                                          *)
(* Then the conversation.  A kind, an element, a field and a message pass    *)
(* when reading what was written of them, with anything behind it, gives     *)
(* them back and leaves what is behind: each is shown of the ones before it, *)
(* by one induction over readings in turn.  Of a message whose fields pass   *)
(* only so far, those are read; it is refused only for an address.  So each  *)
(* message of the conversation is heard, which the state is then followed    *)
(* through.                                                                  *)
(***************************************************************************)
EXTENDS DatagramExchange, SequenceLemmas, TLAPS

--------------------------------------------------------------------------------
(* Bytes: the first of two parts, and a number of 24 bits.                  *)

\* Reading the first of two parts leaves the second.
LEMMA TakeFirst ==
    ASSUME NEW a \in Seq(Nat), NEW t \in Seq(Nat)
    PROVE  Take(Len(a), a \o t) = Done(a, t)
<1> DEFINE s == a \o t
<1>1. /\ Len(a) \in Nat /\ Len(t) \in Nat /\ s \in Seq(Nat) /\ Len(s) = Len(a) + Len(t)
      /\ \A i \in 1 .. Len(a) : s[i] = a[i]
      /\ \A i \in 1 .. Len(t) : s[Len(a) + i] = t[i]
  BY ConcatProperties
<1> HIDE DEF s
<1>2. SubSeq(s, 1, Len(a)) = a
  <2>1. /\ SubSeq(s, 1, Len(a)) \in Seq(Nat) /\ Len(SubSeq(s, 1, Len(a))) = Len(a)
        /\ \A i \in 1 .. Len(a) : SubSeq(s, 1, Len(a))[i] = s[i]
    BY <1>1
  <2> QED
    BY <1>1, <2>1, SeqEqual
<1>3. SubSeq(s, Len(a) + 1, Len(s)) = t
  <2>1. /\ SubSeq(s, Len(a) + 1, Len(s)) \in Seq(Nat)
        /\ Len(SubSeq(s, Len(a) + 1, Len(s))) = Len(t)
        /\ \A i \in 1 .. Len(t) : SubSeq(s, Len(a) + 1, Len(s))[i] = s[Len(a) + 1 + i - 1]
    BY <1>1, SubSeqProperties
  <2>2. \A i \in 1 .. Len(t) : SubSeq(s, Len(a) + 1, Len(s))[i] = s[Len(a) + i]
    BY <1>1, <2>1
  <2> QED
    BY <1>1, <2>1, <2>2, SeqEqual
<1>4. ~(Len(a) > Len(s))
  BY <1>1
<1> QED
  BY <1>2, <1>3, <1>4 DEF Take, s

\* The numbers of 24 bits, and the ranges of them that a record may name.
Numbers24 == {n \in Nat : n < 2^24}
Ranges == {r \in Numbers24 \X Numbers24 : r[1] <= r[2]}

\* They are written as three bytes, the lowest first.
LEMMA ThreeBytes ==
    ASSUME NEW n \in Numbers24
    PROVE  /\ FromU24(U24(n)) = n
           /\ U24(n) \in Seq(Nat) /\ Len(U24(n)) = 3
<1> DEFINE a == (n \div 65536) % 256
           b == (n \div 256) % 256
           c == n % 256
<1>1. n \in Nat /\ n < 16777216
  BY SMT DEF Numbers24
<1>2. a \in 0 .. 255 /\ b \in 0 .. 255 /\ c \in 0 .. 255 /\ 65536 * a + 256 * b + c = n
  BY <1>1, SMT
<1>3. U24(n) = <<a, b, c>>
  BY SMT DEF U24
<1> HIDE DEF a, b, c
<1>4. FromU24(<<a, b, c>>) = n
  BY <1>2, SMT DEF FromU24
<1>5. <<a, b, c>> \in Seq(Nat) /\ Len(<<a, b, c>>) = 3
  BY <1>2
<1> QED
  BY <1>3, <1>4, <1>5

\* A number of three bytes is written with its bytes turned around, and read back so.
LEMMA ThreeReversed ==
    ASSUME NEW a \in Seq(Nat), Len(a) = 3
    PROVE  /\ Put("U24", a) = Reverse(a)
           /\ Reverse(a) \in Seq(Nat) /\ Len(Reverse(a)) = 3
           /\ Reverse(Reverse(a)) = a
<1>1. Put("U24", a) = Reverse(a)
  BY DEF Put, BigEndian, LittleEndian
<1>2. ASSUME NEW b \in Seq(Nat), Len(b) = 3
      PROVE  /\ Reverse(b) \in Seq(Nat) /\ Len(Reverse(b)) = 3
             /\ \A i \in 1 .. 3 : Reverse(b)[i] = b[4 - i]
  <2>1. Reverse(b) = [i \in 1 .. 3 |-> b[(3 - i) + 1]]
    BY <1>2 DEF Reverse
  <2>2. \A i \in 1 .. 3 : b[(3 - i) + 1] \in Nat /\ (3 - i) + 1 = 4 - i
    <3>1. \A j \in 1 .. 3 : b[j] \in Nat
      BY <1>2, ElementOfSeq
    <3>2. \A i \in 1 .. 3 : (3 - i) + 1 \in 1 .. 3 /\ (3 - i) + 1 = 4 - i
      OBVIOUS
    <3> QED
      BY <3>1, <3>2
  <2> QED
    BY <2>1, <2>2
<1>3. /\ Reverse(a) \in Seq(Nat) /\ Len(Reverse(a)) = 3
      /\ Reverse(Reverse(a)) \in Seq(Nat) /\ Len(Reverse(Reverse(a))) = 3
      /\ \A i \in 1 .. 3 : Reverse(a)[i] = a[4 - i] /\ Reverse(Reverse(a))[i] = Reverse(a)[4 - i]
  BY <1>2
<1>4. \A i \in 1 .. 3 : Reverse(Reverse(a))[i] = a[i]
  BY <1>3
<1>5. Reverse(Reverse(a)) = a
  BY <1>3, <1>4, SeqEqual
<1> QED
  BY <1>1, <1>3, <1>5

\* And read again.
LEMMA GetNumber ==
    ASSUME NEW n \in Numbers24, NEW t \in Seq(Nat)
    PROVE  Get("U24", Put("U24", U24(n)) \o t) = Done(U24(n), t)
<1> DEFINE a == U24(n)
           b == Reverse(a)
<1>0. a \in Seq(Nat) /\ Len(a) = 3
  BY ThreeBytes
<1> HIDE DEF a
<1>1. b \in Seq(Nat) /\ Len(b) = 3 /\ Reverse(b) = a /\ Put("U24", a) = b
  BY <1>0, ThreeReversed
<1> HIDE DEF b
<1>2. Take(3, b \o t) = Done(b, t)
  <2>1. b \in Seq(Nat)
    BY <1>1
  <2> QED
    BY <1>1, <2>1, TakeFirst
<1>3. Get("U24", b \o t) = Map(Take(3, b \o t), Reverse)
  BY DEF Get, ReadFixed, BigEndian, LittleEndian, Width
<1>4. Map(Done(b, t), Reverse) = Done(Reverse(b), t)
  BY DEF Map, Done
<1> QED
  BY <1>1, <1>2, <1>3, <1>4 DEF a

--------------------------------------------------------------------------------
(* The records of ranges.                                                   *)

\* The lengths of a record: the byte of its kind, and one number or two.
LEMMA ThreeAndOne == 3 + 1 = 4 /\ 6 + 1 = 7
  OBVIOUS

\* A single byte.
Byte(n) == <<n>>

\* A record of one number.
LEMMA ReadSingle ==
    ASSUME NEW s, NEW r, NEW v, NEW t,
           Take(1, s) = Done(Byte(1), r), Get("U24", r) = Done(v, t)
    PROVE  ReadRecord(s) = Done(<<FromU24(v), FromU24(v)>>, t)
<1>1. PICK x : x = Take(1, s)
  OBVIOUS
<1>2. PICK y : y = Get("U24", r)
  OBVIOUS
<1>3. x = Done(<<1>>, r) /\ y = Done(v, t)
  BY <1>1, <1>2, Zenon DEF Byte
<1>4. x.error = "" /\ x.value = <<1>> /\ x.rest = r
  BY <1>3, Zenon DEF Done
<1>5. y.error = "" /\ y.value = v /\ y.rest = t
  BY <1>3, Zenon DEF Done
<1>6. <<1>> # <<0>>
  OBVIOUS
<1> QED
  BY <1>1, <1>2, <1>4, <1>5, <1>6, Zenon DEF ReadRecord, Then, Map

\* A record of two numbers.
LEMMA ReadRange ==
    ASSUME NEW s, NEW r, NEW v, NEW r2, NEW w, NEW t
    PROVE  Take(1, s) = Done(Byte(0), r) /\ Get("U24", r) = Done(v, r2) /\ Get("U24", r2) = Done(w, t)
              => ReadRecord(s) = Done(<<FromU24(v), FromU24(w)>>, t)
<1>0. <<0>> # <<1>>
  OBVIOUS
<1>1. HAVE Take(1, s) = Done(Byte(0), r) /\ Get("U24", r) = Done(v, r2) /\ Get("U24", r2) = Done(w, t)
<1>2. PICK x : x = Take(1, s)
  OBVIOUS
<1>3. PICK y : y = Get("U24", r)
  OBVIOUS
<1>4. PICK z : z = Get("U24", r2)
  OBVIOUS
<1>5. x = Done(<<0>>, r)
  BY <1>1, <1>2, Zenon DEF Byte
<1>6. y = Done(v, r2)
  BY <1>1, <1>3, Zenon
<1>7. z = Done(w, t)
  BY <1>1, <1>4, Zenon
<1>8. x.error = "" /\ x.value = <<0>> /\ x.rest = r
  BY <1>5, Zenon DEF Done
<1>9. y.error = "" /\ y.value = v /\ y.rest = r2
  BY <1>6, Zenon DEF Done
<1>10. z.error = "" /\ z.value = w /\ z.rest = t
  BY <1>7, Zenon DEF Done
<1>11. ReadRecord(s) = Then(y, LAMBDA start, rest :
                           Map(Get("U24", rest), LAMBDA end : <<FromU24(start), FromU24(end)>>))
  BY <1>0, <1>2, <1>3, <1>8, Zenon DEF ReadRecord, Then, Map
<1>12. ReadRecord(s) = Map(z, LAMBDA end : <<FromU24(v), FromU24(end)>>)
  BY <1>4, <1>9, <1>11, Zenon DEF Then, Map
<1> QED
  BY <1>10, <1>12, Zenon DEF Map

\* Joining three sequences of bytes.
LEMMA NatsAssociative == \A u, v, w \in Seq(Nat) : (u \o v) \o w = u \o (v \o w)
  OBVIOUS

\* A byte before others.
LEMMA Prefixed ==
    ASSUME NEW n \in Nat, NEW a \in Seq(Nat)
    PROVE  /\ <<n>> \o a \in Seq(Nat) /\ Len(<<n>> \o a) = Len(a) + 1
           /\ Take(1, <<n>> \o a) = Done(<<n>>, a)
           /\ \A t \in Seq(Nat) : (<<n>> \o a) \o t = <<n>> \o (a \o t)
<1>1. <<n>> \in Seq(Nat) /\ Len(<<n>>) = 1
  OBVIOUS
<1>2. <<n>> \o a \in Seq(Nat) /\ Len(<<n>> \o a) = 1 + Len(a)
  BY <1>1, ConcatProperties
<1>3. Take(1, <<n>> \o a) = Done(<<n>>, a)
  BY <1>1, TakeFirst
<1>4. \A t \in Seq(Nat) : (<<n>> \o a) \o t = <<n>> \o (a \o t)
  BY <1>1, NatsAssociative, Zenon
<1>5. Len(a) \in Nat
  OBVIOUS
<1> QED
  BY <1>2, <1>3, <1>4, <1>5

\* What comes after it.
LEMMA TailOfPrefixed == \A n \in Nat : \A a \in Seq(Nat) : Tail(<<n>> \o a) = a
<1> SUFFICES ASSUME NEW n \in Nat, NEW a \in Seq(Nat) PROVE Tail(<<n>> \o a) = a
  OBVIOUS
<1> DEFINE s == <<n>> \o a
<1>1. s \in Seq(Nat) /\ Len(s) = Len(a) + 1 /\ Len(a) \in Nat
  BY Prefixed
<1>2. \A i \in 1 .. Len(a) : s[i + 1] = a[i]
  OBVIOUS
<1> HIDE DEF s
<1>3. s # <<>>
  BY <1>1
<1>4. /\ Tail(s) \in Seq(Nat) /\ Len(Tail(s)) = Len(s) - 1
      /\ \A i \in 1 .. Len(Tail(s)) : Tail(s)[i] = s[i + 1]
  BY <1>1, <1>3, HeadTailProperties
<1>5. Len(Tail(s)) = Len(a)
  BY <1>1, <1>4
<1> QED
  BY <1>2, <1>4, <1>5, SeqEqual DEF s

\* A record is read as the range it was written for.
LEMMA RecordRead ==
    ASSUME NEW first \in Numbers24, NEW last \in Numbers24
    PROVE  /\ AckRecord(first, last) \in Seq(Nat) /\ Len(AckRecord(first, last)) \in {4, 7}
           /\ \A t \in Seq(Nat) :
                 ReadRecord(AckRecord(first, last) \o t) = Done(<<first, last>>, t)
<1> DEFINE a == Put("U24", U24(first))
           b == Put("U24", U24(last))
<1>1. /\ a \in Seq(Nat) /\ Len(a) = 3 /\ b \in Seq(Nat) /\ Len(b) = 3
      /\ FromU24(U24(first)) = first /\ FromU24(U24(last)) = last
  BY ThreeBytes, ThreeReversed
<1>2. \A t \in Seq(Nat) : Get("U24", a \o t) = Done(U24(first), t)
                          /\ Get("U24", b \o t) = Done(U24(last), t)
  BY GetNumber
<1> HIDE DEF a, b
<1>3. CASE first = last
  <2>1. AckRecord(first, last) = <<1>> \o a
    BY <1>3 DEF AckRecord, a
  <2>2. ASSUME NEW t \in Seq(Nat)
        PROVE  ReadRecord((<<1>> \o a) \o t) = Done(<<first, first>>, t)
    <3>1. a \o t \in Seq(Nat)
      BY <1>1, ConcatProperties
    <3>2. Take(1, <<1>> \o (a \o t)) = Done(<<1>>, a \o t) /\ (<<1>> \o a) \o t = <<1>> \o (a \o t)
      <4>1. Take(1, <<1>> \o (a \o t)) = Done(<<1>>, a \o t)
        BY <3>1, Prefixed
      <4>2. (<<1>> \o a) \o t = <<1>> \o (a \o t)
        <5>1. <<1>> \in Seq(Nat)
          OBVIOUS
        <5> QED
          BY <1>1, <5>1, NatsAssociative, Zenon
      <4> QED
        BY <4>1, <4>2
    <3>3. Get("U24", a \o t) = Done(U24(first), t)
      BY <1>2
    <3>4. ReadRecord(<<1>> \o (a \o t)) = Done(<<FromU24(U24(first)), FromU24(U24(first))>>, t)
      <4>1. Take(1, <<1>> \o (a \o t)) = Done(Byte(1), a \o t)
        BY <3>2, Zenon DEF Byte
      <4> QED
        BY <3>3, <4>1, ReadSingle
    <3> QED
      BY <1>1, <3>2, <3>4, Zenon
  <2>3. <<1>> \o a \in Seq(Nat) /\ Len(<<1>> \o a) = 4
    <3>1. <<1>> \o a \in Seq(Nat) /\ Len(<<1>> \o a) = Len(a) + 1
      BY <1>1, Prefixed
    <3> QED
      BY <1>1, <3>1, Zenon, ThreeAndOne
  <2> QED
    BY <1>3, <2>1, <2>2, <2>3
<1>4. CASE first # last
  <2> DEFINE c == a \o b
  <2>0. c \in Seq(Nat) /\ Len(c) = 6
    <3>1. c \in Seq(Nat) /\ Len(c) = Len(a) + Len(b)
      BY <1>1, ConcatProperties
    <3> HIDE DEF c
    <3> QED
      BY <1>1, <3>1
  <2> HIDE DEF c
  <2>1. AckRecord(first, last) = <<0>> \o c
    <3>1. AckRecord(first, last) = (<<0>> \o a) \o b
      BY <1>4 DEF AckRecord, a, b
    <3> QED
      BY <1>1, <3>1, Prefixed DEF c
  <2>2. ASSUME NEW t \in Seq(Nat)
        PROVE  ReadRecord((<<0>> \o c) \o t) = Done(<<first, last>>, t)
    <3>1. b \o t \in Seq(Nat) /\ c \o t \in Seq(Nat)
      BY <1>1, <2>0, ConcatProperties
    <3>2. c \o t = a \o (b \o t)
      BY <1>1, NatsAssociative, Zenon DEF c
    <3>3. Take(1, <<0>> \o (c \o t)) = Done(<<0>>, c \o t) /\ (<<0>> \o c) \o t = <<0>> \o (c \o t)
      <4>1. Take(1, <<0>> \o (c \o t)) = Done(<<0>>, c \o t)
        BY <3>1, Prefixed
      <4>2. (<<0>> \o c) \o t = <<0>> \o (c \o t)
        BY <2>0, Prefixed
      <4> QED
        BY <4>1, <4>2
    <3>4. /\ Get("U24", a \o (b \o t)) = Done(U24(first), b \o t)
          /\ Get("U24", b \o t) = Done(U24(last), t)
      BY <1>2, <3>1
    <3>5. ReadRecord(<<0>> \o (c \o t)) = Done(<<FromU24(U24(first)), FromU24(U24(last))>>, t)
      <4>1. Take(1, <<0>> \o (c \o t)) = Done(Byte(0), c \o t)
        BY <3>3, Zenon DEF Byte
      <4> QED
        BY <3>2, <3>4, <4>1, ReadRange
    <3> QED
      BY <1>1, <3>3, <3>5, Zenon
  <2>3. <<0>> \o c \in Seq(Nat) /\ Len(<<0>> \o c) = 7
    <3>1. <<0>> \o c \in Seq(Nat) /\ Len(<<0>> \o c) = Len(c) + 1
      BY <2>0, Prefixed
    <3> QED
      BY <2>0, <3>1, Zenon, ThreeAndOne
  <2> QED
    BY <2>1, <2>2, <2>3
<1> QED
  BY <1>3, <1>4

\* The records of ranges, as bytes, and the numbers of each.
Records(R) == [j \in DOMAIN R |-> AckRecord(R[j][1], R[j][2])]
Spans(R) == [j \in DOMAIN R |-> RangeOf(R[j])]

\* The numbers of a range are as many as it spans.
LEMMA SpanIs ==
    ASSUME NEW r \in Ranges
    PROVE  RangeOf(r) \in Seq(Nat) /\ Len(RangeOf(r)) = r[2] - r[1] + 1
<1>1. r[1] \in Nat /\ r[2] \in Nat /\ r[1] <= r[2]
  BY DEF Ranges, Numbers24
<1> DEFINE n == r[2] - r[1] + 1
<1>2. n \in Nat
  BY <1>1
<1>3. \A i \in 1 .. n : r[1] + i - 1 \in Nat
  BY <1>1
<1>4. RangeOf(r) = [i \in 1 .. n |-> r[1] + i - 1]
  BY DEF RangeOf
<1> HIDE DEF n
<1>5. RangeOf(r) \in Seq(Nat) /\ Len(RangeOf(r)) = n
  BY <1>2, <1>3, <1>4
<1> QED
  BY <1>5 DEF n

\* The records of ranges and their numbers, one for each range.
LEMMA RecordsType ==
    ASSUME NEW R \in Seq(Ranges)
    PROVE  /\ Records(R) \in Seq(Seq(Nat)) /\ Len(Records(R)) = Len(R)
           /\ Spans(R) \in Seq(Seq(Nat)) /\ Len(Spans(R)) = Len(R)
           /\ \A j \in 1 .. Len(R) : /\ R[j] \in Ranges /\ R[j] = <<R[j][1], R[j][2]>>
                                     /\ R[j][1] \in Numbers24 /\ R[j][2] \in Numbers24
                                     /\ Records(R)[j] = AckRecord(R[j][1], R[j][2])
                                     /\ Spans(R)[j] = RangeOf(R[j])
<1>0. DOMAIN R = 1 .. Len(R) /\ Len(R) \in Nat
  OBVIOUS
<1>1. ASSUME NEW j \in 1 .. Len(R)
      PROVE  /\ R[j] \in Ranges /\ R[j] = <<R[j][1], R[j][2]>>
             /\ R[j][1] \in Numbers24 /\ R[j][2] \in Numbers24
  <2>1. R[j] \in Ranges
    BY ElementOfSeq
  <2> QED
    BY <2>1 DEF Ranges
<1>2. \A j \in 1 .. Len(R) : AckRecord(R[j][1], R[j][2]) \in Seq(Nat) /\ RangeOf(R[j]) \in Seq(Nat)
  BY <1>1, RecordRead, SpanIs
<1>3. /\ Records(R) = [j \in 1 .. Len(R) |-> AckRecord(R[j][1], R[j][2])]
      /\ Spans(R) = [j \in 1 .. Len(R) |-> RangeOf(R[j])]
  BY <1>0 DEF Records, Spans
<1>4. Records(R) \in Seq(Seq(Nat)) /\ Len(Records(R)) = Len(R)
  BY <1>0, <1>2, <1>3
<1>5. Spans(R) \in Seq(Seq(Nat)) /\ Len(Spans(R)) = Len(R)
  BY <1>0, <1>2, <1>3
<1> QED
  BY <1>1, <1>3, <1>4, <1>5

\* One more of them.
LEMMA RecordsAppend ==
    ASSUME NEW R \in Seq(Ranges), NEW r \in Ranges
    PROVE  /\ Append(R, r) \in Seq(Ranges) /\ Len(Append(R, r)) = Len(R) + 1
           /\ Records(Append(R, r)) = Append(Records(R), AckRecord(r[1], r[2]))
           /\ Spans(Append(R, r)) = Append(Spans(R), RangeOf(r))
<1> DEFINE T == Append(R, r)
<1>1. /\ T \in Seq(Ranges) /\ Len(T) = Len(R) + 1 /\ T[Len(R) + 1] = r
      /\ \A j \in 1 .. Len(R) : T[j] = R[j]
      /\ Len(R) \in Nat
  OBVIOUS
<1> HIDE DEF T
<1>2. /\ Records(T) \in Seq(Seq(Nat)) /\ Len(Records(T)) = Len(T)
      /\ Spans(T) \in Seq(Seq(Nat)) /\ Len(Spans(T)) = Len(T)
      /\ \A j \in 1 .. Len(T) : Records(T)[j] = AckRecord(T[j][1], T[j][2])
                                /\ Spans(T)[j] = RangeOf(T[j])
  BY <1>1, RecordsType
<1>3. /\ Records(R) \in Seq(Seq(Nat)) /\ Len(Records(R)) = Len(R)
      /\ Spans(R) \in Seq(Seq(Nat)) /\ Len(Spans(R)) = Len(R)
      /\ \A j \in 1 .. Len(R) : Records(R)[j] = AckRecord(R[j][1], R[j][2])
                                /\ Spans(R)[j] = RangeOf(R[j])
  BY RecordsType
<1>4. AckRecord(r[1], r[2]) \in Seq(Nat) /\ RangeOf(r) \in Seq(Nat)
  <2>1. r[1] \in Numbers24 /\ r[2] \in Numbers24
    BY DEF Ranges
  <2> QED
    BY <2>1, RecordRead, SpanIs
<1>5. ASSUME NEW a \in Seq(Seq(Nat)), NEW b \in Seq(Seq(Nat)), NEW x \in Seq(Nat),
             Len(b) = Len(a) + 1,
             b[Len(a) + 1] = x, \A j \in 1 .. Len(a) : b[j] = a[j]
      PROVE  b = Append(a, x)
  <2>1. /\ Append(a, x) \in Seq(Seq(Nat)) /\ Len(Append(a, x)) = Len(a) + 1 /\ Len(a) \in Nat
        /\ Append(a, x)[Len(a) + 1] = x /\ \A j \in 1 .. Len(a) : Append(a, x)[j] = a[j]
    BY AppendProperties
  <2>2. \A j \in 1 .. Len(b) : b[j] = Append(a, x)[j]
    BY <1>5, <2>1
  <2> QED
    BY <1>5, <2>1, <2>2, SeqEqual
<1>6. Records(T) = Append(Records(R), AckRecord(r[1], r[2]))
  <2> DEFINE a == Records(R)
             b == Records(T)
  <2>1. /\ Len(a) = Len(R) /\ Len(b) = Len(T)
        /\ \A j \in 1 .. Len(T) : b[j] = AckRecord(T[j][1], T[j][2])
        /\ \A j \in 1 .. Len(R) : a[j] = AckRecord(R[j][1], R[j][2])
    BY <1>2, <1>3, Zenon
  <2> HIDE DEF a, b
  <2>2. Len(R) + 1 \in 1 .. Len(T) /\ \A j \in 1 .. Len(R) : j \in 1 .. Len(T)
    BY <1>1
  <2>3. b[Len(a) + 1] = AckRecord(r[1], r[2]) /\ Len(b) = Len(a) + 1
    BY <1>1, <2>1, <2>2, Zenon
  <2>4. \A j \in 1 .. Len(a) : b[j] = a[j]
    BY <1>1, <2>1, <2>2, Zenon
  <2> QED
    BY <1>2, <1>3, <1>4, <1>5, <2>3, <2>4 DEF a, b
<1>7. Spans(T) = Append(Spans(R), RangeOf(r))
  <2> DEFINE a == Spans(R)
             b == Spans(T)
  <2>1. /\ Len(a) = Len(R) /\ Len(b) = Len(T)
        /\ \A j \in 1 .. Len(T) : b[j] = RangeOf(T[j])
        /\ \A j \in 1 .. Len(R) : a[j] = RangeOf(R[j])
    BY <1>2, <1>3, Zenon
  <2> HIDE DEF a, b
  <2>2. Len(R) + 1 \in 1 .. Len(T) /\ \A j \in 1 .. Len(R) : j \in 1 .. Len(T)
    BY <1>1
  <2>3. b[Len(a) + 1] = RangeOf(r) /\ Len(b) = Len(a) + 1
    BY <1>1, <2>1, <2>2, Zenon
  <2>4. \A j \in 1 .. Len(a) : b[j] = a[j]
    BY <1>1, <2>1, <2>2, Zenon
  <2> QED
    BY <1>2, <1>3, <1>4, <1>5, <2>3, <2>4 DEF a, b
<1> QED
  BY <1>1, <1>6, <1>7 DEF T

--------------------------------------------------------------------------------
(* A turn of the loop of write, and the loop.                               *)

\* The state of the loop of write.
Working == [stopped : BOOLEAN, taken : Nat, first : Numbers24, last : Numbers24,
            records : Nat, bytes : Seq(Nat)]
Blank == [stopped |-> FALSE, taken |-> 0, first |-> 0, last |-> 0, records |-> 0,
          bytes |-> <<>>]
IsTurns(f, numbers, mtu) ==
    f = [i \in 0 .. Len(numbers) |->
            IF i = 0 THEN Blank ELSE AckTurn(f[i - 1], numbers[i], mtu)]

\* The guards of a turn.
Stops(w, mtu) == w.stopped \/ Len(w.bytes) >= mtu - 10
Follows(w, n) == n = w.last + 1

\* The fields of the state of the loop.
LEMMA Worked ==
    ASSUME NEW w \in Working
    PROVE  /\ w.stopped \in BOOLEAN /\ w.taken \in Nat /\ w.first \in Numbers24
           /\ w.last \in Numbers24 /\ w.records \in Nat /\ w.bytes \in Seq(Nat)
           /\ w = [stopped |-> w.stopped, taken |-> w.taken, first |-> w.first, last |-> w.last,
                   records |-> w.records, bytes |-> w.bytes]
  BY DEF Working

\* What a turn makes of it.
HasStopped(u, w) ==
    /\ u \in Working /\ u.stopped = TRUE /\ u.taken = w.taken /\ u.first = w.first
    /\ u.last = w.last /\ u.records = w.records /\ u.bytes = w.bytes
HasRecorded(u, w, n) ==
    /\ u \in Working /\ u.stopped = w.stopped /\ u.taken = w.taken + 1
    /\ u.first = n /\ u.last = n /\ u.records = w.records + 1
    /\ u.bytes = w.bytes \o AckRecord(w.first, w.last)

\* The turn that finds the message full.
LEMMA TurnStops ==
    ASSUME NEW w \in Working, NEW n \in Numbers24, NEW mtu \in Nat, NEW u,
           u = AckTurn(w, n, mtu), Stops(w, mtu)
    PROVE  HasStopped(u, w)
<1>1. u = [w EXCEPT !.stopped = TRUE]
  BY Zenon DEF AckTurn, Stops
<1> QED
  BY <1>1 DEF Working, HasStopped

\* The turn that takes the first number.
LEMMA TurnBegins ==
    ASSUME NEW w \in Working, NEW n \in Numbers24, NEW mtu \in Nat, NEW u,
           u = AckTurn(w, n, mtu), ~Stops(w, mtu), w.taken = 0
    PROVE  /\ u \in Working /\ u.stopped = w.stopped /\ u.taken = 1 /\ u.first = n
           /\ u.last = n /\ u.records = w.records /\ u.bytes = w.bytes
<1>1. u = [w EXCEPT !.taken = 1, !.first = n, !.last = n]
  BY Zenon DEF AckTurn, Stops
<1>2. PICK k \in Nat : k = 1
  OBVIOUS
<1>3. u = [w EXCEPT !.taken = k, !.first = n, !.last = n]
  BY <1>1, <1>2, Zenon
<1>4. /\ u \in Working /\ u.stopped = w.stopped /\ u.taken = k /\ u.first = n
      /\ u.last = n /\ u.records = w.records /\ u.bytes = w.bytes
  BY <1>3 DEF Working
<1> QED
  BY <1>2, <1>4, Zenon

\* The turn that takes the number after the last.
LEMMA TurnGoesOn ==
    ASSUME NEW w \in Working, NEW n \in Numbers24, NEW mtu \in Nat, NEW u,
           u = AckTurn(w, n, mtu), ~Stops(w, mtu), w.taken # 0, Follows(w, n)
    PROVE  /\ u \in Working /\ u.stopped = w.stopped /\ u.taken = w.taken + 1
           /\ u.first = w.first /\ u.last = n /\ u.records = w.records /\ u.bytes = w.bytes
<1>1. u = [w EXCEPT !.taken = @ + 1, !.last = n]
  BY Zenon DEF AckTurn, Stops, Follows
<1>2. PICK k \in Nat : k = w.taken + 1
  BY Worked
<1>3. u = [w EXCEPT !.taken = k, !.last = n]
  BY <1>1, <1>2, Zenon
<1>4. /\ u \in Working /\ u.stopped = w.stopped /\ u.taken = k
      /\ u.first = w.first /\ u.last = n /\ u.records = w.records /\ u.bytes = w.bytes
  BY <1>3 DEF Working
<1> QED
  BY <1>2, <1>4, Zenon

\* The turn that closes a range with a record and begins another.
LEMMA TurnRecords ==
    ASSUME NEW w \in Working, NEW n \in Numbers24, NEW mtu \in Nat, NEW u,
           u = AckTurn(w, n, mtu), ~Stops(w, mtu), w.taken # 0, ~Follows(w, n)
    PROVE  HasRecorded(u, w, n)
<1>1. u = [w EXCEPT !.taken = @ + 1, !.first = n, !.last = n, !.records = @ + 1,
                    !.bytes = @ \o AckRecord(w.first, w.last)]
  BY Zenon DEF AckTurn, Stops, Follows
<1>2. w.taken + 1 \in Nat /\ w.records + 1 \in Nat
      /\ w.bytes \o AckRecord(w.first, w.last) \in Seq(Nat)
  <2>1. w.taken \in Nat /\ w.records \in Nat
    BY Worked
  <2>2. w.bytes \in Seq(Nat) /\ AckRecord(w.first, w.last) \in Seq(Nat)
    BY Worked, RecordRead
  <2>3. w.bytes \o AckRecord(w.first, w.last) \in Seq(Nat)
    BY <2>2, ConcatProperties
  <2> QED
    BY <2>1, <2>3
<1>3. PICK k \in Nat, l \in Nat, b \in Seq(Nat) :
         k = w.taken + 1 /\ l = w.records + 1 /\ b = w.bytes \o AckRecord(w.first, w.last)
  BY <1>2
<1>4. u = [w EXCEPT !.taken = k, !.first = n, !.last = n, !.records = l, !.bytes = b]
  BY <1>1, <1>3, Zenon
<1>5. /\ u \in Working /\ u.stopped = w.stopped /\ u.taken = k
      /\ u.first = n /\ u.last = n /\ u.records = l /\ u.bytes = b
  BY <1>4 DEF Working
<1> QED
  BY <1>3, <1>5, Zenon DEF HasRecorded

\* Every turn leaves a state of the loop.
LEMMA TurnType ==
    ASSUME NEW w \in Working, NEW n \in Numbers24, NEW mtu \in Nat
    PROVE  AckTurn(w, n, mtu) \in Working
  BY TurnStops, TurnBegins, TurnGoesOn, TurnRecords, Zenon DEF HasStopped, HasRecorded

\* The loop has its turns.
LEMMA LoopIs ==
    ASSUME NEW numbers \in Seq(Numbers24), NEW mtu \in Nat
    PROVE  \E f : IsTurns(f, numbers, mtu) /\ AckLoop(numbers, mtu) = f[Len(numbers)]
<1> DEFINE N == Len(numbers)
           step == [p \in Nat \X Working |->
                      IF p[1] \in 1 .. N THEN AckTurn(p[2], numbers[p[1]], mtu) ELSE p[2]]
<1>1. N \in Nat /\ \A i \in 1 .. N : numbers[i] \in Numbers24
  BY ElementOfSeq
<1>2. step \in [Nat \X Working -> Working]
  <2>1. ASSUME NEW p \in Nat \X Working, p[1] \in 1 .. N
        PROVE  AckTurn(p[2], numbers[p[1]], mtu) \in Working
    BY <1>1, <2>1, TurnType
  <2> QED
    BY <2>1
<1>3. Blank \in Working
  BY DEF Blank, Working, Numbers24
<1> HIDE DEF step
<1>4. PICK f \in [0 .. N -> Working] :
         \A i \in 0 .. N : f[i] = IF i = 0 THEN Blank ELSE step[<<i, f[i - 1]>>]
  <2>1. PICK b \in Working : b = Blank
    BY <1>3
  <2>2. PICK n \in Nat : n = N
    BY <1>1
  <2>3. PICK g \in [Nat \X Working -> Working] : g = step
    BY <1>2
  <2>4. \E f \in [0 .. n -> Working] : Recurs(f, n, b, g)
    BY Recursion
  <2> QED
    BY <2>1, <2>2, <2>3, <2>4 DEF Recurs
<1>5. ASSUME NEW i \in 0 .. N, i # 0
      PROVE  step[<<i, f[i - 1]>>] = AckTurn(f[i - 1], numbers[i], mtu)
  <2>1. i \in 1 .. N /\ i \in Nat /\ f[i - 1] \in Working
    BY <1>1, <1>5
  <2> QED
    BY <2>1 DEF step
<1>6. IsTurns(f, numbers, mtu)
  <2>1. f = [i \in 0 .. N |-> f[i]]
    BY <1>4
  <2>2. \A i \in 0 .. N : f[i] = IF i = 0 THEN Blank ELSE AckTurn(f[i - 1], numbers[i], mtu)
    BY <1>4, <1>5
  <2> QED
    BY <2>1, <2>2 DEF IsTurns
<1> DEFINE g == CHOOSE h : IsTurns(h, numbers, mtu)
<1>7. IsTurns(g, numbers, mtu)
  BY <1>6
<1>8. AckLoop(numbers, mtu) = g[N]
  BY DEF AckLoop, IsTurns, Blank
<1> QED
  BY <1>7, <1>8

--------------------------------------------------------------------------------
(* What is known after each turn.                                           *)

\* A range of one number, and a range that goes on.
LEMMA SpanOne ==
    ASSUME NEW n \in Nat
    PROVE  RangeOf(<<n, n>>) = <<n>>
<1>1. n - n + 1 = 1 /\ n + 1 - 1 = n
  OBVIOUS
<1>2. RangeOf(<<n, n>>) = [i \in 1 .. n - n + 1 |-> n + i - 1]
  BY DEF RangeOf
<1>3. RangeOf(<<n, n>>) = [i \in 1 .. 1 |-> n + i - 1]
  BY <1>1, <1>2, Zenon
<1>4. [i \in 1 .. 1 |-> n + i - 1] = <<n>>
  OBVIOUS
<1> QED
  BY <1>3, <1>4

\* A range that takes the number after its last.
LEMMA SpanGrows ==
    ASSUME NEW first \in Nat, NEW last \in Nat, first <= last
    PROVE  RangeOf(<<first, last + 1>>) = Append(RangeOf(<<first, last>>), last + 1)
<1> DEFINE n == last - first + 1
           a == [i \in 1 .. n |-> first + i - 1]
           b == [i \in 1 .. n + 1 |-> first + i - 1]
<1>1. n \in Nat /\ first + (n + 1) - 1 = last + 1 /\ last + 1 - first + 1 = n + 1
  OBVIOUS
<1>2. /\ RangeOf(<<first, last>>) = a
      /\ RangeOf(<<first, last + 1>>) = [i \in 1 .. last + 1 - first + 1 |-> first + i - 1]
  BY DEF RangeOf
<1>3. RangeOf(<<first, last + 1>>) = b
  BY <1>1, <1>2, Zenon
<1>4. a \in Seq(Nat) /\ Len(a) = n /\ b \in Seq(Nat) /\ Len(b) = n + 1
  BY <1>1
<1>5. b[n + 1] = last + 1 /\ \A i \in 1 .. n : b[i] = a[i]
  BY <1>1
<1> HIDE DEF a, b
<1>6. /\ Append(a, last + 1) \in Seq(Nat) /\ Len(Append(a, last + 1)) = n + 1
      /\ Append(a, last + 1)[n + 1] = last + 1 /\ \A i \in 1 .. n : Append(a, last + 1)[i] = a[i]
  BY <1>4, AppendProperties
<1>7. \A i \in 1 .. n + 1 : b[i] = Append(a, last + 1)[i]
  BY <1>1, <1>5, <1>6
<1>8. b = Append(a, last + 1)
  BY <1>4, <1>6, <1>7, SeqEqual
<1> QED
  BY <1>2, <1>3, <1>8

\* The first element, as a sequence.
LEMMA FirstOf ==
    ASSUME NEW X, NEW s \in Seq(X), 0 < Len(s)
    PROVE  SubSeq(s, 1, 1) = <<s[1]>>
<1>1. Len(s) \in Nat /\ 1 \in 1 .. Len(s) /\ s[1] \in X
  OBVIOUS
<1>2. SubSeq(s, 1, 1) = [i \in 1 .. 1 |-> s[i]]
  BY <1>1
<1>3. [i \in 1 .. 1 |-> s[i]] = <<s[1]>>
  OBVIOUS
<1> QED
  BY <1>2, <1>3, Zenon

\* The first elements of a sequence, and one more.
LEMMA OneMoreOf ==
    ASSUME NEW X, NEW s \in Seq(X), NEW k \in Nat, k < Len(s)
    PROVE  /\ SubSeq(s, 1, k) \in Seq(X) /\ Len(SubSeq(s, 1, k)) = k
           /\ SubSeq(s, 1, k + 1) = Append(SubSeq(s, 1, k), s[k + 1])
  OBVIOUS

\* Appending to the second of two parts.
LEMMA AppendLast ==
    \A s, t \in Seq(Nat) : \A x \in Nat : s \o Append(t, x) = Append(s \o t, x)
  OBVIOUS

\* A single element, joined or appended.
LEMMA ConcatIsAppend ==
    ASSUME NEW X, NEW s \in Seq(X), NEW x \in X
    PROVE  s \o <<x>> = Append(s, x)
  OBVIOUS

\* The records of a list of ranges, and one more.
LEMMA RecordsGrow ==
    ASSUME NEW R \in Seq(Ranges), NEW r \in Ranges
    PROVE  LET T == Append(R, r)
           IN  /\ T \in Seq(Ranges) /\ Len(T) = Len(R) + 1
               /\ FlattenSeq(Records(R)) \in Seq(Nat) /\ FlattenSeq(Spans(R)) \in Seq(Nat)
               /\ FlattenSeq(Records(T)) = FlattenSeq(Records(R)) \o AckRecord(r[1], r[2])
               /\ FlattenSeq(Spans(T)) = FlattenSeq(Spans(R)) \o RangeOf(r)
               /\ Len(FlattenSeq(Records(T))) >= Len(FlattenSeq(Records(R))) + 4
               /\ Len(FlattenSeq(Records(T))) <= Len(FlattenSeq(Records(R))) + 7
<1>1. /\ AckRecord(r[1], r[2]) \in Seq(Nat) /\ Len(AckRecord(r[1], r[2])) \in {4, 7}
      /\ RangeOf(r) \in Seq(Nat)
  <2>1. r[1] \in Numbers24 /\ r[2] \in Numbers24
    BY DEF Ranges
  <2> QED
    BY <2>1, RecordRead, SpanIs
<1>2. /\ Append(R, r) \in Seq(Ranges) /\ Len(Append(R, r)) = Len(R) + 1
      /\ Records(Append(R, r)) = Append(Records(R), AckRecord(r[1], r[2]))
      /\ Spans(Append(R, r)) = Append(Spans(R), RangeOf(r))
  BY RecordsAppend
<1>3. Records(R) \in Seq(Seq(Nat)) /\ Spans(R) \in Seq(Seq(Nat))
  BY RecordsType
<1>4. /\ FlattenSeq(Records(R)) \in Seq(Nat) /\ FlattenSeq(Spans(R)) \in Seq(Nat)
      /\ FlattenSeq(Append(Records(R), AckRecord(r[1], r[2])))
            = FlattenSeq(Records(R)) \o AckRecord(r[1], r[2])
      /\ FlattenSeq(Append(Spans(R), RangeOf(r))) = FlattenSeq(Spans(R)) \o RangeOf(r)
  BY <1>1, <1>3, FlattenType, FlattenAppend
<1>5. /\ Len(FlattenSeq(Records(R)) \o AckRecord(r[1], r[2])) >= Len(FlattenSeq(Records(R))) + 4
      /\ Len(FlattenSeq(Records(R)) \o AckRecord(r[1], r[2])) <= Len(FlattenSeq(Records(R))) + 7
  <2>1. PICK a \in Seq(Nat), b \in Seq(Nat) : a = FlattenSeq(Records(R)) /\ b = AckRecord(r[1], r[2])
    BY <1>1, <1>4
  <2>2. Len(a \o b) = Len(a) + Len(b) /\ Len(a) \in Nat /\ (Len(b) = 4 \/ Len(b) = 7)
    BY <1>1, <2>1, ConcatProperties
  <2>3. PICK k \in Nat, l \in Nat : k = Len(a) /\ l = Len(b)
    BY <2>2
  <2>4. k + l >= k + 4 /\ k + l <= k + 7
    <3>1. l = 4 \/ l = 7
      BY <2>2, <2>3, Zenon
    <3> QED
      BY <3>1
  <2> QED
    BY <2>1, <2>2, <2>3, <2>4, Zenon
<1> QED
  BY <1>2, <1>4, <1>5

\* What is known after i turns: the ranges that were closed, R, and the one that is open
\* make up the numbers that were taken.
Held(w, R, numbers, mtu, i) ==
    /\ w \in Working /\ R \in Seq(Ranges)
    /\ w.records = Len(R) /\ w.bytes = FlattenSeq(Records(R))
    /\ w.taken <= i /\ (w.stopped = FALSE => w.taken = i) /\ (i > 0 => w.taken > 0)
    /\ w.taken = 0 => w.stopped = FALSE /\ Len(w.bytes) = 0
    /\ w.taken > 0 =>
          /\ w.first <= w.last
          /\ FlattenSeq(Spans(R)) \o RangeOf(<<w.first, w.last>>) = SubSeq(numbers, 1, w.taken)
    /\ Len(w.bytes) <= mtu - 4 /\ 4 * Len(R) <= Len(w.bytes)

\* It holds before the first turn.
LEMMA HeldFirst ==
    ASSUME NEW numbers \in Seq(Numbers24), NEW mtu \in Nat, mtu > 10
    PROVE  Held(Blank, <<>>, numbers, mtu, 0)
<1>1. /\ Blank \in Working /\ Blank.records = 0 /\ Blank.bytes = <<>>
      /\ Blank.taken = 0 /\ Blank.stopped = FALSE
  BY DEF Blank, Working, Numbers24
<1>2. Records(<<>>) = <<>>
  BY DEF Records
<1>3. FlattenSeq(Records(<<>>)) = <<>>
  BY <1>2, FlattenEmpty
<1>4. <<>> \in Seq(Ranges) /\ Len(<<>>) = 0
  OBVIOUS
<1> QED
  BY <1>1, <1>3, <1>4 DEF Held

\* It is kept by every turn: this is the invariant of the loop of acknowledgement::write.
LEMMA HeldNext ==
    ASSUME NEW numbers \in Seq(Numbers24), NEW mtu \in Nat, mtu > 10,
           NEW i \in Nat, i < Len(numbers),
           NEW n, n = numbers[i + 1],
           NEW w, NEW R, Held(w, R, numbers, mtu, i), NEW u, u = AckTurn(w, n, mtu)
    PROVE  \E T : Held(u, T, numbers, mtu, i + 1)
<1>0. n \in Numbers24 /\ n \in Nat
  <2>1. i + 1 \in 1 .. Len(numbers)
    OBVIOUS
  <2>2. n \in Numbers24
    BY <2>1, ElementOfSeq
  <2> QED
    BY <2>2 DEF Numbers24
<1>1. /\ w \in Working /\ R \in Seq(Ranges) /\ w.records = Len(R) /\ w.bytes = FlattenSeq(Records(R))
      /\ w.taken <= i /\ (w.stopped = FALSE => w.taken = i) /\ (i > 0 => w.taken > 0)
      /\ w.taken = 0 => w.stopped = FALSE /\ Len(w.bytes) = 0
      /\ w.taken > 0 => w.first <= w.last
      /\ w.taken > 0 =>
            FlattenSeq(Spans(R)) \o RangeOf(<<w.first, w.last>>) = SubSeq(numbers, 1, w.taken)
      /\ Len(w.bytes) <= mtu - 4 /\ 4 * Len(R) <= Len(w.bytes)
  BY DEF Held
<1>2. /\ w.taken \in Nat /\ w.records \in Nat /\ w.bytes \in Seq(Nat) /\ w.stopped \in BOOLEAN
      /\ w.first \in Numbers24 /\ w.last \in Numbers24 /\ w.first \in Nat /\ w.last \in Nat
      /\ Len(R) \in Nat /\ Len(w.bytes) \in Nat
  <2>1. /\ w.taken \in Nat /\ w.records \in Nat /\ w.bytes \in Seq(Nat) /\ w.stopped \in BOOLEAN
        /\ w.first \in Numbers24 /\ w.last \in Numbers24
    BY <1>1, Worked
  <2>2. w.first \in Nat /\ w.last \in Nat
    BY <2>1 DEF Numbers24
  <2> QED
    BY <1>1, <2>1, <2>2
<1>9. w \in Working /\ n \in Numbers24
  BY <1>0, <1>1
<1>3. CASE Stops(w, mtu)
  <2>1. /\ u \in Working /\ u.stopped = TRUE /\ u.taken = w.taken /\ u.first = w.first
        /\ u.last = w.last /\ u.records = w.records /\ u.bytes = w.bytes
    <3>1. HasStopped(u, w)
      BY <1>3, <1>9, TurnStops
    <3> QED
      BY <3>1 DEF HasStopped
  <2>2. w.taken > 0
    <3>1. SUFFICES ASSUME w.taken = 0 PROVE FALSE
      BY <1>2
    <3>2. ~w.stopped /\ Len(w.bytes) = 0
      BY <1>1, <3>1
    <3>3. Len(w.bytes) >= mtu - 10
      BY <1>3, <3>2 DEF Stops
    <3> QED
      BY <3>2, <3>3
  <2>3. w.taken <= i + 1 /\ (i + 1 > 0 => w.taken > 0)
    BY <1>1, <1>2, <2>2
  <2>4. Held(u, R, numbers, mtu, i + 1)
    <3>1. u.taken <= i + 1 /\ (i + 1 > 0 => u.taken > 0) /\ u.taken > 0 /\ u.taken # 0
      BY <1>2, <2>1, <2>2, <2>3
    <3>2. u.stopped # FALSE
      BY <2>1
    <3> QED
      BY <1>1, <2>1, <2>2, <3>1, <3>2, Zenon DEF Held
  <2> QED
    BY <2>4
<1>4. ASSUME ~Stops(w, mtu) PROVE w.stopped = FALSE /\ Len(w.bytes) < mtu - 10 /\ w.taken = i
  <2>1. w.stopped = FALSE
    BY <1>2, <1>4, Zenon DEF Stops
  <2>2. ~(Len(w.bytes) >= mtu - 10)
    BY <1>4, Zenon DEF Stops
  <2> QED
    BY <1>1, <1>2, <2>1, <2>2
<1>5. CASE ~Stops(w, mtu) /\ w.taken = 0
  <2>1. /\ u \in Working /\ u.stopped = w.stopped /\ u.taken = 1 /\ u.first = n
        /\ u.last = n /\ u.records = w.records /\ u.bytes = w.bytes
    BY <1>5, <1>9, TurnBegins
  <2>2. i = 0 /\ Len(R) = 0 /\ R = <<>>
    <3>1. i = 0 /\ Len(R) = 0
      BY <1>1, <1>2, <1>4, <1>5
    <3> QED
      BY <1>1, <3>1, EmptySeq
  <2>3. FlattenSeq(Spans(R)) \o RangeOf(<<n, n>>) = SubSeq(numbers, 1, 1)
    <3>1. Spans(R) = <<>>
      BY <2>2 DEF Spans
    <3>2. FlattenSeq(Spans(R)) = <<>>
      BY <3>1, FlattenEmpty
    <3>3. RangeOf(<<n, n>>) = <<n>>
      BY <1>0, SpanOne
    <3>4. <<>> \o <<n>> = <<n>>
      OBVIOUS
    <3>5. SubSeq(numbers, 1, 1) = <<n>>
      <4>1. 0 < Len(numbers) /\ numbers[1] = n
        BY <2>2
      <4> QED
        BY <4>1, FirstOf
    <3> QED
      BY <3>2, <3>3, <3>4, <3>5, Zenon
  <2>4. u.taken <= i + 1 /\ u.taken = i + 1 /\ u.taken > 0 /\ u.taken # 0 /\ n <= n
    BY <1>0, <2>1, <2>2
  <2>5. Held(u, R, numbers, mtu, i + 1)
    <3>1. FlattenSeq(Spans(R)) \o RangeOf(<<u.first, u.last>>) = SubSeq(numbers, 1, u.taken)
      BY <2>1, <2>3, Zenon
    <3>2. u.first <= u.last
      BY <2>1, <2>4, Zenon
    <3> QED
      BY <1>1, <2>1, <2>4, <3>1, <3>2, Zenon DEF Held
  <2> QED
    BY <2>5
<1>6. CASE ~Stops(w, mtu) /\ w.taken # 0 /\ Follows(w, n)
  <2>1. /\ u \in Working /\ u.stopped = w.stopped /\ u.taken = w.taken + 1
        /\ u.first = w.first /\ u.last = n /\ u.records = w.records /\ u.bytes = w.bytes
    BY <1>6, <1>9, TurnGoesOn
  <2>2. n = w.last + 1
    BY <1>6 DEF Follows
  <2>3. w.taken > 0 /\ w.taken = i /\ u.taken = i + 1 /\ u.taken > 0 /\ u.taken # 0 /\ u.taken <= i + 1
    BY <1>2, <1>4, <1>6, <2>1
  <2>4. FlattenSeq(Spans(R)) \o RangeOf(<<w.first, n>>) = SubSeq(numbers, 1, i + 1)
    <3>1. FlattenSeq(Spans(R)) \in Seq(Nat) /\ RangeOf(<<w.first, w.last>>) \in Seq(Nat)
      <4>1. Spans(R) \in Seq(Seq(Nat))
        BY <1>1, RecordsType
      <4>2. <<w.first, w.last>> \in Ranges
        BY <1>1, <1>2, <2>3 DEF Ranges
      <4> QED
        BY <4>1, <4>2, FlattenType, SpanIs
    <3>2. RangeOf(<<w.first, n>>) = Append(RangeOf(<<w.first, w.last>>), n)
      <4>1. w.first \in Nat /\ w.last \in Nat /\ w.first <= w.last
        BY <1>1, <1>2, <2>3
      <4>2. PICK a \in Nat, b \in Nat : a = w.first /\ b = w.last
        BY <4>1
      <4>3. RangeOf(<<a, b + 1>>) = Append(RangeOf(<<a, b>>), b + 1)
        BY <4>1, <4>2, SpanGrows
      <4> QED
        BY <2>2, <4>2, <4>3, Zenon
    <3>3. FlattenSeq(Spans(R)) \o Append(RangeOf(<<w.first, w.last>>), n)
             = Append(FlattenSeq(Spans(R)) \o RangeOf(<<w.first, w.last>>), n)
      <4>1. PICK a \in Seq(Nat), b \in Seq(Nat) :
               a = FlattenSeq(Spans(R)) /\ b = RangeOf(<<w.first, w.last>>)
        BY <3>1
      <4>2. a \o Append(b, n) = Append(a \o b, n)
        BY <1>0, AppendLast, Zenon
      <4> QED
        BY <4>1, <4>2, Zenon
    <3>4. SubSeq(numbers, 1, i + 1) = Append(SubSeq(numbers, 1, i), n)
      BY OneMoreOf
    <3> QED
      BY <1>1, <2>3, <3>2, <3>3, <3>4, Zenon
  <2>5. w.first <= n
    <3>1. w.first \in Nat /\ w.last \in Nat /\ w.first <= w.last
      BY <1>1, <1>2, <2>3
    <3>2. PICK a \in Nat, b \in Nat : a = w.first /\ b = w.last
      BY <3>1
    <3>3. a <= b /\ n = b + 1
      BY <2>2, <3>1, <3>2, Zenon
    <3>4. a <= n
      BY <3>3
    <3> QED
      BY <3>2, <3>4, Zenon
  <2>6. Held(u, R, numbers, mtu, i + 1)
    <3>1. FlattenSeq(Spans(R)) \o RangeOf(<<u.first, u.last>>) = SubSeq(numbers, 1, u.taken)
      BY <2>1, <2>3, <2>4, Zenon
    <3>2. u.first <= u.last
      BY <2>1, <2>5, Zenon
    <3> QED
      BY <1>1, <2>1, <2>3, <3>1, <3>2, Zenon DEF Held
  <2> QED
    BY <2>6
<1>7. CASE ~Stops(w, mtu) /\ w.taken # 0 /\ ~Follows(w, n)
  <2> DEFINE r == <<w.first, w.last>>
             T == Append(R, r)
  <2>1. /\ u \in Working /\ u.stopped = w.stopped /\ u.taken = w.taken + 1
        /\ u.first = n /\ u.last = n /\ u.records = w.records + 1
        /\ u.bytes = w.bytes \o AckRecord(w.first, w.last)
    <3>1. HasRecorded(u, w, n)
      BY <1>7, <1>9, TurnRecords
    <3> QED
      BY <3>1 DEF HasRecorded
  <2>2. w.taken > 0 /\ w.taken = i /\ u.taken = i + 1 /\ u.taken > 0 /\ u.taken # 0 /\ u.taken <= i + 1
    BY <1>2, <1>4, <1>7, <2>1
  <2>3. r \in Ranges /\ r[1] = w.first /\ r[2] = w.last
    BY <1>1, <1>2, <2>2 DEF Ranges
  <2> HIDE DEF r
  <2>4. /\ T \in Seq(Ranges) /\ Len(T) = Len(R) + 1
        /\ FlattenSeq(Records(R)) \in Seq(Nat) /\ FlattenSeq(Spans(R)) \in Seq(Nat)
        /\ FlattenSeq(Records(T)) = FlattenSeq(Records(R)) \o AckRecord(w.first, w.last)
        /\ FlattenSeq(Spans(T)) = FlattenSeq(Spans(R)) \o RangeOf(r)
        /\ Len(FlattenSeq(Records(T))) >= Len(FlattenSeq(Records(R))) + 4
        /\ Len(FlattenSeq(Records(T))) <= Len(FlattenSeq(Records(R))) + 7
    BY <1>1, <2>3, RecordsGrow
  <2> HIDE DEF T
  <2>5. u.bytes = FlattenSeq(Records(T)) /\ u.records = Len(T)
    BY <1>1, <2>1, <2>4, Zenon
  <2>6. Len(u.bytes) <= mtu - 4 /\ 4 * Len(T) <= Len(u.bytes)
    <3>1. PICK a \in Nat, b \in Nat, c \in Nat, d \in Nat :
             a = Len(w.bytes) /\ b = Len(u.bytes) /\ c = Len(R) /\ d = Len(T)
      <4>1. u.bytes \in Seq(Nat)
        BY <2>1, Worked
      <4>2. Len(u.bytes) \in Nat /\ Len(T) \in Nat
        BY <2>4, <4>1
      <4> QED
        BY <1>2, <4>2
    <3>2. b >= a + 4 /\ b <= a + 7 /\ d = c + 1
      BY <1>1, <2>4, <2>5, <3>1, Zenon
    <3>3. a < mtu - 10 /\ 4 * c <= a
      BY <1>1, <1>4, <1>7, <3>1
    <3>4. b <= mtu - 4 /\ 4 * d <= b
      BY <3>2, <3>3
    <3> QED
      BY <3>1, <3>4, Zenon
  <2>7. FlattenSeq(Spans(T)) \o RangeOf(<<n, n>>) = SubSeq(numbers, 1, i + 1)
    <3>1. RangeOf(<<n, n>>) = <<n>>
      BY <1>0, SpanOne
    <3>2. SubSeq(numbers, 1, i + 1) = Append(SubSeq(numbers, 1, i), n)
      BY OneMoreOf
    <3>3. FlattenSeq(Spans(T)) = SubSeq(numbers, 1, i)
      BY <1>1, <2>2, <2>4, Zenon DEF r
    <3>4. SubSeq(numbers, 1, i) \in Seq(Numbers24)
      BY OneMoreOf
    <3>5. SubSeq(numbers, 1, i) \o <<n>> = Append(SubSeq(numbers, 1, i), n)
      BY <1>0, <3>4, ConcatIsAppend
    <3> QED
      BY <3>1, <3>2, <3>3, <3>5, Zenon
  <2>8. n <= n
    BY <1>0
  <2>9. Held(u, T, numbers, mtu, i + 1)
    <3>1. FlattenSeq(Spans(T)) \o RangeOf(<<u.first, u.last>>) = SubSeq(numbers, 1, u.taken)
      BY <2>1, <2>2, <2>7, Zenon
    <3>2. u.first <= u.last
      BY <2>1, <2>8, Zenon
    <3> QED
      BY <2>1, <2>2, <2>4, <2>5, <2>6, <3>1, <3>2, Zenon DEF Held
  <2> QED
    BY <2>9
<1> QED
  BY <1>3, <1>5, <1>6, <1>7

--------------------------------------------------------------------------------
(* What write makes of numbers.                                             *)

\* An acknowledgement of ranges: the count of its records, and the records.
IsAck(s, R) == s = <<Len(R) \div 256, Len(R) % 256>> \o FlattenSeq(Records(R))

\* The ranges R are those of Q and the one that was open.
FinishedBy(R, Q, first, last, mtu) ==
    /\ IsAck(<<(Len(Q) + 1) \div 256, (Len(Q) + 1) % 256>> \o FlattenSeq(Records(Q))
               \o AckRecord(first, last), R)
    /\ Len(FlattenSeq(Records(R))) <= mtu + 3
    /\ FlattenSeq(Spans(R)) = FlattenSeq(Spans(Q)) \o RangeOf(<<first, last>>)

\* The record of the range that is still open after the loop.
LEMMA Finished ==
    ASSUME NEW Q \in Seq(Ranges), NEW first \in Numbers24, NEW last \in Numbers24, first <= last,
           NEW mtu \in Nat, Len(FlattenSeq(Records(Q))) <= mtu - 4,
           4 * Len(Q) <= Len(FlattenSeq(Records(Q)))
    PROVE  \E R \in Seq(Ranges) : FinishedBy(R, Q, first, last, mtu)
<1> DEFINE r == <<first, last>>
           R == Append(Q, r)
           b == FlattenSeq(Records(Q))
           c == AckRecord(first, last)
<1>1. r \in Ranges /\ r[1] = first /\ r[2] = last
  BY DEF Ranges
<1> HIDE DEF r
<1>2. /\ R \in Seq(Ranges) /\ Len(R) = Len(Q) + 1 /\ b \in Seq(Nat)
      /\ FlattenSeq(Records(R)) = b \o c
      /\ FlattenSeq(Spans(R)) = FlattenSeq(Spans(Q)) \o RangeOf(r)
      /\ Len(FlattenSeq(Records(R))) <= Len(b) + 7
  BY <1>1, RecordsGrow
<1>3. c \in Seq(Nat)
  BY RecordRead
<1>4. Len(b) <= mtu - 4 /\ 4 * Len(Q) <= Len(b)
  OBVIOUS
<1> HIDE DEF R, b, c
<1>5. Len(Q) \in Nat /\ Len(b) \in Nat /\ b \o c \in Seq(Nat)
  BY <1>2, <1>3, ConcatProperties
<1>6. PICK k \in Nat, l \in Nat, m \in Nat : k = Len(Q) /\ l = Len(b) /\ m = Len(b \o c)
  BY <1>5
<1>7. m <= l + 7
  BY <1>2, <1>6, Zenon
<1>8. l <= mtu - 4 /\ 4 * k <= l
  BY <1>4, <1>6, Zenon
<1>9. m <= mtu + 3
  BY <1>7, <1>8
<1>10. PICK a \in Seq(Nat) : a = <<(k + 1) \div 256, (k + 1) % 256>>
  <2>1. PICK x \in Nat, y \in Nat : x = (k + 1) \div 256 /\ y = (k + 1) % 256
    OBVIOUS
  <2>2. <<x, y>> \in Seq(Nat)
    OBVIOUS
  <2> QED
    BY <2>1, <2>2, Zenon
<1>11. (a \o b) \o c = a \o (b \o c)
  <2>1. PICK p \in Seq(Nat), q \in Seq(Nat) : p = b /\ q = c
    BY <1>2, <1>3
  <2>2. (a \o p) \o q = a \o (p \o q)
    BY NatsAssociative, Zenon
  <2> QED
    BY <2>1, <2>2, Zenon
<1>12. IsAck((a \o b) \o c, R)
  <2>1. Len(R) = k + 1
    BY <1>2, <1>6, Zenon
  <2>2. a = <<Len(R) \div 256, Len(R) % 256>>
    BY <1>10, <2>1, Zenon
  <2>3. (a \o b) \o c = a \o FlattenSeq(Records(R))
    BY <1>2, <1>11, Zenon
  <2> QED
    BY <2>2, <2>3, Zenon DEF IsAck
<1>13. IsAck(<<(Len(Q) + 1) \div 256, (Len(Q) + 1) % 256>> \o b \o c, R)
  BY <1>6, <1>10, <1>12, Zenon
<1>14. Len(FlattenSeq(Records(R))) <= mtu + 3
  BY <1>2, <1>6, <1>9, Zenon
<1> QED
  BY <1>2, <1>13, <1>14, Zenon DEF b, c, r, FinishedBy

\* write puts the count of the records first, and closes the range that is still open.
AckOfParts(count, ranges, open) == <<count \div 256, count % 256>> \o ranges \o open
AckOfLoop(w) == AckOfParts(w.records + 1, w.bytes, AckRecord(w.first, w.last))

\* It does so after the loop.
LEMMA WriteIs ==
    ASSUME NEW numbers, numbers # <<>>, NEW mtu, NEW w, w = AckLoop(numbers, mtu)
    PROVE  WriteAck(numbers, mtu) = AckOfLoop(w)
<1>1. WriteAck(numbers, mtu) = AckOfLoop(AckLoop(numbers, mtu))
  BY Zenon DEF WriteAck, AckOfLoop, AckOfParts
<1> QED
  BY <1>1, Zenon

\* What write makes of numbers: the ranges that they form, of as many as it takes.
LEMMA AckWritten ==
    ASSUME NEW numbers \in Seq(Numbers24), numbers # <<>>, NEW mtu \in Nat, mtu > 10
    PROVE  \E R \in Seq(Ranges) : \E k \in 1 .. Len(numbers) :
              /\ IsAck(WriteAck(numbers, mtu), R)
              /\ FlattenSeq(Spans(R)) = SubSeq(numbers, 1, k)
              /\ Len(FlattenSeq(Records(R))) <= mtu + 3
<1> DEFINE N == Len(numbers)
<1>1. N \in Nat /\ N > 0
  <2>1. N \in Nat
    OBVIOUS
  <2>2. N # 0
    BY EmptySeq
  <2> QED
    BY <2>1, <2>2
<1>2. PICK f : IsTurns(f, numbers, mtu) /\ AckLoop(numbers, mtu) = f[N]
  BY LoopIs
<1>3. f[0] = Blank /\ \A i \in 1 .. N : f[i] = AckTurn(f[i - 1], numbers[i], mtu)
  <2>1. f = [i \in 0 .. N |-> IF i = 0 THEN Blank ELSE AckTurn(f[i - 1], numbers[i], mtu)]
    BY <1>2 DEF IsTurns
  <2> HIDE DEF N
  <2> QED
    BY <1>1, <2>1
<1> DEFINE S == {i \in Nat : i <= N => \E R : Held(f[i], R, numbers, mtu, i)}
<1>4. 0 \in S
  BY <1>3, HeldFirst
<1>5. ASSUME NEW i \in S PROVE i + 1 \in S
  <2>1. i \in Nat /\ (i <= N => \E R : Held(f[i], R, numbers, mtu, i))
    OBVIOUS
  <2>2. ASSUME i + 1 <= N PROVE \E R : Held(f[i + 1], R, numbers, mtu, i + 1)
    <3>1. i < N /\ i <= N /\ i + 1 \in 1 .. N /\ (i + 1) - 1 = i
      BY <1>1, <2>1, <2>2
    <3>2. PICK R : Held(f[i], R, numbers, mtu, i)
      BY <2>1, <3>1
    <3>3. PICK u, n : n = numbers[i + 1] /\ u = AckTurn(f[i], n, mtu)
      OBVIOUS
    <3>4. f[i + 1] = u
      BY <1>3, <3>1, <3>3
    <3>5. PICK w : w = f[i]
      OBVIOUS
    <3>6. \E T : Held(u, T, numbers, mtu, i + 1)
      <4>1. Held(w, R, numbers, mtu, i) /\ u = AckTurn(w, n, mtu)
        BY <3>2, <3>3, <3>5
      <4> QED
        BY <2>1, <3>1, <3>3, <4>1, HeldNext
    <3> QED
      BY <3>4, <3>6
  <2> QED
    BY <2>1, <2>2
<1> HIDE DEF S
<1>6. S = Nat
  <2>1. S \subseteq Nat
    BY DEF S
  <2> QED
    BY <1>4, <1>5, <2>1, Induction
<1>7. PICK Q : Held(f[N], Q, numbers, mtu, N)
  <2>1. N \in S
    BY <1>1, <1>6
  <2> QED
    BY <1>1, <2>1 DEF S
<1>8. PICK w : w = f[N]
  OBVIOUS
<1>9. Held(w, Q, numbers, mtu, N)
  BY <1>7, <1>8
<1>10. w \in Working /\ Q \in Seq(Ranges) /\ w.records = Len(Q) /\ w.bytes = FlattenSeq(Records(Q))
  BY <1>9, Zenon DEF Held
<1>11. PICK first \in Numbers24, last \in Numbers24, taken \in Nat :
          first = w.first /\ last = w.last /\ taken = w.taken
  BY <1>10, Worked
<1>12. taken \in 1 .. N
  <2>1. w.taken <= N /\ (N > 0 => w.taken > 0)
    BY <1>9, Zenon DEF Held
  <2>2. taken <= N /\ taken > 0
    BY <1>1, <1>11, <2>1, Zenon
  <2> HIDE DEF N
  <2> QED
    BY <1>1, <2>2
<1>13. /\ first <= last
       /\ FlattenSeq(Spans(Q)) \o RangeOf(<<first, last>>) = SubSeq(numbers, 1, taken)
  <2>1. w.taken > 0
    BY <1>11, <1>12
  <2> QED
    BY <1>9, <1>11, <2>1, Zenon DEF Held
<1>14. Len(FlattenSeq(Records(Q))) <= mtu - 4 /\ 4 * Len(Q) <= Len(FlattenSeq(Records(Q)))
  <2>1. Len(w.bytes) <= mtu - 4 /\ 4 * Len(Q) <= Len(w.bytes)
    BY <1>9, Zenon DEF Held
  <2> QED
    BY <1>10, <2>1, Zenon
<1>15. WriteAck(numbers, mtu)
          = <<(Len(Q) + 1) \div 256, (Len(Q) + 1) % 256>> \o FlattenSeq(Records(Q))
               \o AckRecord(first, last)
  <2>1. AckLoop(numbers, mtu) = w
    BY <1>2, <1>8
  <2>2. PICK k, b, c : k = Len(Q) + 1 /\ b = FlattenSeq(Records(Q)) /\ c = AckRecord(first, last)
    OBVIOUS
  <2>3. k = w.records + 1 /\ b = w.bytes
    BY <1>10, <2>2, Zenon
  <2>4. c = AckRecord(w.first, w.last)
    BY <1>11, <2>2, Zenon
  <2>5. AckOfLoop(w) = AckOfParts(k, b, c)
    BY <2>3, <2>4, Zenon DEF AckOfLoop
  <2>6. WriteAck(numbers, mtu) = AckOfLoop(w)
    BY <2>1, WriteIs, Zenon
  <2>7. WriteAck(numbers, mtu) = AckOfParts(Len(Q) + 1, FlattenSeq(Records(Q)), AckRecord(first, last))
    BY <2>2, <2>5, <2>6, Zenon
  <2> QED
    BY <2>7, Zenon DEF AckOfParts
<1>16. PICK R \in Seq(Ranges) : FinishedBy(R, Q, first, last, mtu)
  BY <1>10, <1>13, <1>14, Finished
<1> QED
  BY <1>12, <1>13, <1>15, <1>16, Zenon DEF FinishedBy

--------------------------------------------------------------------------------
(* What read makes of the records.                                          *)

\* One more reading, and readings one after the other.
ReadNext(x) ==
    Then(x, LAMBDA v, r : Then(ReadRecord(r), LAMBDA w, rest : Done(Append(v, w), rest)))
IsReads(f, n, s) == f = [i \in 0 .. n |-> IF i = 0 THEN Done(<<>>, s) ELSE ReadNext(f[i - 1])]

\* The readings are those of the function that InTurn chooses.
LEMMA InTurnIs ==
    ASSUME NEW n, NEW s
    PROVE  InTurn(n, LAMBDA i, rest : ReadRecord(rest), s) = (CHOOSE f : IsReads(f, n, s))[n]
  BY DEF InTurn, IsReads, ReadNext

\* A reading that succeeds adds its range to those that were read.
LEMMA ReadNextIs ==
    ASSUME NEW v, NEW r, NEW w, NEW rest, ReadRecord(r) = Done(w, rest)
    PROVE  ReadNext(Done(v, r)) = Done(Append(v, w), rest)
<1>1. PICK x : x = Done(v, r)
  OBVIOUS
<1>2. x.error = "" /\ x.value = v /\ x.rest = r
  BY <1>1, Zenon DEF Done
<1>0. PICK y : y = ReadRecord(r)
  OBVIOUS
<1>3. y.error = "" /\ y.value = w /\ y.rest = rest
  <2>1. PICK z : z = Done(w, rest)
    OBVIOUS
  <2>2. z.error = "" /\ z.value = w /\ z.rest = rest
    BY <2>1, Zenon DEF Done
  <2>3. y = z
    BY <1>0, <2>1, Zenon
  <2> QED
    BY <2>2, <2>3
<1>4. ReadNext(x) = Then(y, LAMBDA w1, rest1 : Done(Append(v, w1), rest1))
  BY <1>0, <1>2, Zenon DEF ReadNext, Then
<1>5. ReadNext(x) = Done(Append(v, w), rest)
  BY <1>3, <1>4, Zenon DEF Then
<1> QED
  BY <1>1, <1>5

\* What is left of a sequence from one of its places on.
LEMMA FromIs ==
    ASSUME NEW X, NEW c \in Seq(X), NEW j \in 1 .. Len(c)
    PROVE  LET a == SubSeq(c, j, Len(c))
               b == SubSeq(c, j + 1, Len(c))
           IN  a \in Seq(X) /\ a # <<>> /\ Head(a) = c[j] /\ Tail(a) = b /\ b \in Seq(X)
<1> DEFINE N == Len(c)
           a == SubSeq(c, j, N)
           b == SubSeq(c, j + 1, N)
<1>1. N \in Nat /\ j \in Nat /\ j <= N /\ 1 <= j
  OBVIOUS
<1>2. \A k \in 1 .. N : c[k] \in X
  BY ElementOfSeq
<1>3. a = [k \in 1 .. N - j + 1 |-> c[k + j - 1]]
  BY <1>1
<1>4. b = [k \in 1 .. N - j |-> c[k + j]]
  <2>1. PICK n \in Nat : n = j + 1
    BY <1>1
  <2>2. SubSeq(c, n, N) = [k \in 1 .. N - n + 1 |-> c[k + n - 1]]
    BY <1>1, <2>1
  <2>3. N - n + 1 = N - j /\ \A k \in 1 .. N - j : k + n - 1 = k + j
    BY <1>1, <2>1
  <2> QED
    BY <2>1, <2>2, <2>3
<1>5. a \in Seq(X) /\ Len(a) = N - j + 1 /\ b \in Seq(X) /\ Len(b) = N - j
  BY <1>1, SubSeqProperties
<1>6. a[1] = c[j] /\ \A k \in 1 .. N - j : b[k] = c[k + j] /\ a[k + 1] = c[k + j]
  BY <1>1, <1>3, <1>4
<1> HIDE DEF a, b
<1>7. a # <<>> /\ Head(a) = a[1]
  BY <1>1, <1>5
<1>8. Tail(a) = b
  <2>1. /\ Tail(a) \in Seq(X) /\ Len(Tail(a)) = N - j
        /\ \A k \in 1 .. N - j : Tail(a)[k] = a[k + 1]
    BY <1>1, <1>5, <1>7
  <2>2. \A k \in 1 .. N - j : Tail(a)[k] = b[k]
    BY <1>6, <2>1
  <2> QED
    BY <1>5, <2>1, <2>2, SeqEqual
<1> QED
  BY <1>5, <1>6, <1>7, <1>8 DEF a, b

\* What is left after i of the records.
Rest(R, i) == FlattenSeq(SubSeq(Records(R), i + 1, Len(R)))
ReadSoFar(R, i) == Done(SubSeq(R, 1, i), Rest(R, i))

\* What is left begins with the next of the records.
LEMMA RestIs ==
    ASSUME NEW R \in Seq(Ranges), NEW i \in Nat, i < Len(R)
    PROVE  /\ Rest(R, i + 1) \in Seq(Nat)
           /\ Rest(R, i) = AckRecord(R[i + 1][1], R[i + 1][2]) \o Rest(R, i + 1)
<1> DEFINE c == Records(R)
           a == SubSeq(c, i + 1, Len(R))
           b == SubSeq(c, i + 2, Len(R))
<1>1. c \in Seq(Seq(Nat)) /\ Len(c) = Len(R) /\ Len(R) \in Nat
      /\ \A j \in 1 .. Len(R) : c[j] = AckRecord(R[j][1], R[j][2])
  BY RecordsType
<1>2. i + 1 \in 1 .. Len(R) /\ (i + 1) + 1 = i + 2
  BY <1>1
<1>3. c[i + 1] = AckRecord(R[i + 1][1], R[i + 1][2])
  BY <1>1, <1>2
<1> HIDE DEF c
<1>4. /\ a \in Seq(Seq(Nat)) /\ a # <<>> /\ Head(a) = c[i + 1] /\ Tail(a) = b
      /\ b \in Seq(Seq(Nat))
  <2>1. PICK k \in 1 .. Len(c), l \in Nat : k = i + 1 /\ l = i + 2 /\ l = k + 1
    BY <1>1, <1>2
  <2>2. /\ SubSeq(c, k, Len(c)) \in Seq(Seq(Nat)) /\ SubSeq(c, k, Len(c)) # <<>>
        /\ Head(SubSeq(c, k, Len(c))) = c[k]
        /\ Tail(SubSeq(c, k, Len(c))) = SubSeq(c, k + 1, Len(c))
        /\ SubSeq(c, k + 1, Len(c)) \in Seq(Seq(Nat))
    BY <1>1, FromIs, Zenon
  <2> QED
    BY <1>1, <2>1, <2>2, Zenon
<1>5. Rest(R, i) = FlattenSeq(a) /\ Rest(R, i + 1) = FlattenSeq(b)
  BY <1>2 DEF Rest, c
<1> HIDE DEF a, b
<1>6. FlattenSeq(a) = Head(a) \o FlattenSeq(Tail(a))
  BY <1>4, FlattenHead
<1>7. FlattenSeq(b) \in Seq(Nat)
  BY <1>4, FlattenType
<1> QED
  BY <1>3, <1>4, <1>5, <1>6, <1>7, Zenon

\* The next reading reads the next of the ranges.
LEMMA ReadsNext ==
    ASSUME NEW R \in Seq(Ranges), NEW i \in Nat, i < Len(R)
    PROVE  ReadNext(ReadSoFar(R, i)) = ReadSoFar(R, i + 1)
<1>1. i + 1 \in 1 .. Len(R)
  OBVIOUS
<1>2. /\ R[i + 1] = <<R[i + 1][1], R[i + 1][2]>>
      /\ R[i + 1][1] \in Numbers24 /\ R[i + 1][2] \in Numbers24
  BY <1>1, RecordsType
<1>3. PICK first \in Numbers24, last \in Numbers24 :
         R[i + 1] = <<first, last>> /\ first = R[i + 1][1] /\ last = R[i + 1][2]
  BY <1>2
<1>4. PICK t \in Seq(Nat) : t = Rest(R, i + 1)
  BY RestIs
<1>5. Rest(R, i) = AckRecord(first, last) \o t
  BY <1>3, <1>4, RestIs
<1>6. PICK y : y = ReadRecord(Rest(R, i))
  OBVIOUS
<1>7. y = Done(<<first, last>>, t)
  <2>1. ReadRecord(AckRecord(first, last) \o t) = Done(<<first, last>>, t)
    BY RecordRead
  <2> QED
    BY <1>5, <1>6, <2>1, Zenon
<1>8. ReadNext(Done(SubSeq(R, 1, i), Rest(R, i))) = Done(Append(SubSeq(R, 1, i), <<first, last>>), t)
  <2>1. PICK v, r, w : v = SubSeq(R, 1, i) /\ r = Rest(R, i) /\ w = <<first, last>>
    OBVIOUS
  <2>2. ReadRecord(r) = Done(w, t)
    BY <1>6, <1>7, <2>1, Zenon
  <2>3. ReadNext(Done(v, r)) = Done(Append(v, w), t)
    BY <2>2, ReadNextIs
  <2> QED
    BY <2>1, <2>3
<1>9. SubSeq(R, 1, i + 1) = Append(SubSeq(R, 1, i), R[i + 1])
  BY OneMoreOf
<1> QED
  BY <1>3, <1>4, <1>8, <1>9, Zenon DEF ReadSoFar

\* All the records are read, and nothing is left.
LEMMA RecordsRead ==
    ASSUME NEW R \in Seq(Ranges)
    PROVE  InTurn(Len(R), LAMBDA i, rest : ReadRecord(rest), FlattenSeq(Records(R))) = Done(R, <<>>)
<1> DEFINE N == Len(R)
           s == FlattenSeq(Records(R))
           g == [i \in 0 .. N |-> ReadSoFar(R, i)]
<1>1. N \in Nat
  OBVIOUS
<1>2. ReadSoFar(R, 0) = Done(<<>>, s) /\ ReadSoFar(R, N) = Done(R, <<>>)
  <2>1. Records(R) \in Seq(Seq(Nat)) /\ Len(Records(R)) = N
    BY RecordsType
  <2>2. PICK c \in Seq(Seq(Nat)) : c = Records(R)
    BY <2>1
  <2>3. SubSeq(c, 0 + 1, Len(c)) = c /\ SubSeq(c, Len(c) + 1, Len(c)) = <<>>
    OBVIOUS
  <2>4. SubSeq(R, 1, 0) = <<>> /\ SubSeq(R, 1, N) = R
    OBVIOUS
  <2>5. Rest(R, 0) = s /\ Rest(R, N) = <<>>
    <3>1. SubSeq(Records(R), 0 + 1, N) = Records(R) /\ SubSeq(Records(R), N + 1, N) = <<>>
      BY <2>1, <2>2, <2>3
    <3> QED
      BY <3>1, FlattenEmpty, Zenon DEF Rest
  <2> QED
    BY <2>4, <2>5, Zenon DEF ReadSoFar
<1>3. ASSUME NEW i \in 1 .. N
      PROVE  ReadNext(ReadSoFar(R, i - 1)) = ReadSoFar(R, i)
  <2>1. i - 1 \in Nat /\ i - 1 < N /\ (i - 1) + 1 = i
    BY <1>1
  <2>2. PICK k \in Nat : k = i - 1 /\ k + 1 = i /\ k < N
    BY <2>1
  <2> QED
    BY <2>2, ReadsNext
<1>4. IsReads(g, N, s)
  <2> HIDE DEF N, s
  <2>1. ASSUME NEW i \in 0 .. N
        PROVE  ReadSoFar(R, i) = IF i = 0 THEN Done(<<>>, s) ELSE ReadNext(g[i - 1])
    <3>1. CASE i = 0
      BY <1>2, <3>1
    <3>2. CASE i # 0
      <4>1. i \in 1 .. N /\ i - 1 \in 0 .. N
        BY <1>1, <3>2
      <4>2. g[i - 1] = ReadSoFar(R, i - 1)
        BY <4>1
      <4> QED
        BY <1>3, <3>2, <4>1, <4>2, Zenon
    <3> QED
      BY <3>1, <3>2
  <2>2. g = [i \in 0 .. N |-> IF i = 0 THEN Done(<<>>, s) ELSE ReadNext(g[i - 1])]
    BY <2>1, Zenon
  <2> QED
    BY <2>2 DEF IsReads
<1> DEFINE f == CHOOSE h : IsReads(h, N, s)
<1> HIDE DEF g
<1>5. IsReads(f, N, s)
  BY <1>4
<1> HIDE DEF f, s
<1>6. f[0] = Done(<<>>, s) /\ \A i \in 1 .. N : f[i] = ReadNext(f[i - 1])
  <2>1. f = [i \in 0 .. N |-> IF i = 0 THEN Done(<<>>, s) ELSE ReadNext(f[i - 1])]
    BY <1>5 DEF IsReads
  <2> HIDE DEF N
  <2>2. 0 \in 0 .. N /\ \A i \in 1 .. N : i \in 0 .. N /\ i # 0
    BY <1>1
  <2> QED
    BY <2>1, <2>2, Zenon
<1> DEFINE S == {i \in Nat : i <= N => f[i] = ReadSoFar(R, i)}
<1>7. 0 \in S
  BY <1>2, <1>6
<1>8. ASSUME NEW i \in S PROVE i + 1 \in S
  <2>1. i \in Nat /\ (i <= N => f[i] = ReadSoFar(R, i))
    OBVIOUS
  <2>2. ASSUME i + 1 <= N PROVE f[i + 1] = ReadSoFar(R, i + 1)
    <3>1. i < N /\ i <= N /\ i + 1 \in 1 .. N /\ (i + 1) - 1 = i
      BY <1>1, <2>1, <2>2
    <3>2. f[i + 1] = ReadNext(f[i])
      BY <1>6, <3>1, Zenon
    <3>3. ReadNext(ReadSoFar(R, i)) = ReadSoFar(R, i + 1)
      BY <2>1, <3>1, ReadsNext
    <3> QED
      BY <2>1, <3>1, <3>2, <3>3, Zenon
  <2> QED
    BY <2>1, <2>2
<1> HIDE DEF S
<1>9. S = Nat
  <2>1. S \subseteq Nat
    BY DEF S
  <2> QED
    BY <1>7, <1>8, <2>1, Induction
<1>10. f[N] = ReadSoFar(R, N)
  <2>1. N \in S /\ N <= N
    BY <1>1, <1>9
  <2> QED
    BY <2>1 DEF S
<1>11. InTurn(N, LAMBDA i, rest : ReadRecord(rest), s) = f[N]
  BY InTurnIs DEF f
<1> QED
  BY <1>2, <1>10, <1>11, Zenon DEF s

\* The readings of n records, and what read makes of what they name.
Readings(n, s) == InTurn(n, LAMBDA i, rest : ReadRecord(rest), s)
Judged(records) ==
    LET numbers == FlattenSeq([i \in DOMAIN records.value |-> RangeOf(records.value[i])])
    IN  IF records.error # "" THEN records
        ELSE IF Len(numbers) > MaxAck THEN Refused
        ELSE Done(numbers, records.rest)

\* read takes the count of the records, reads as many and judges the numbers they name.
LEMMA ReadAckIs ==
    ASSUME NEW s, NEW n, NEW r, Take(2, s) = Done(n, r)
    PROVE  ReadAck(s) = Judged(Readings(256 * n[1] + n[2], r))
<1>1. PICK y : y = Take(2, s)
  OBVIOUS
<1>2. PICK z : z = Done(n, r)
  OBVIOUS
<1>3. z.error = "" /\ z.value = n /\ z.rest = r
  BY <1>2, Zenon DEF Done
<1>4. y = z
  BY <1>1, <1>2, Zenon
<1>5. y.error = "" /\ y.value = n /\ y.rest = r
  BY <1>3, <1>4
<1>6. ReadAck(s) = IF Take(2, s).error # "" THEN Take(2, s)
                   ELSE Judged(Readings(256 * Take(2, s).value[1] + Take(2, s).value[2],
                                        Take(2, s).rest))
  BY DEF ReadAck, Then, Judged, Readings, InTurn
<1> QED
  BY <1>1, <1>5, <1>6, Zenon

\* What read makes of what was written: the numbers of the ranges, unless they are too many.
LEMMA AckRead ==
    ASSUME NEW R \in Seq(Ranges), NEW s, IsAck(s, R)
    PROVE  ReadAck(s) = IF Len(FlattenSeq(Spans(R))) > MaxAck THEN Refused
                        ELSE Done(FlattenSeq(Spans(R)), <<>>)
<1> DEFINE b == FlattenSeq(Records(R))
<1>1. PICK k \in Nat : k = Len(R)
  OBVIOUS
<1>2. PICK x \in Nat, y \in Nat : x = k \div 256 /\ y = k % 256 /\ 256 * x + y = k
  <2>1. k \div 256 \in Nat /\ k % 256 \in Nat /\ 256 * (k \div 256) + (k % 256) = k
    OBVIOUS
  <2> QED
    BY <2>1
<1>3. PICK a \in Seq(Nat) : a = <<x, y>>
  <2>1. <<x, y>> \in Seq(Nat)
    BY <1>2
  <2> QED
    BY <2>1, Zenon
<1>4. Len(a) = 2 /\ 256 * a[1] + a[2] = k
  BY <1>2, <1>3
<1>5. b \in Seq(Nat)
  BY RecordsType, FlattenType
<1>6. s = a \o b
  BY <1>1, <1>2, <1>3, Zenon DEF IsAck
<1>7. Readings(Len(R), b) = Done(R, <<>>)
  BY RecordsRead DEF Readings
<1> HIDE DEF b
<1>8. Take(2, a \o b) = Done(a, b)
  <2>1. Take(Len(a), a \o b) = Done(a, b)
    BY <1>5, TakeFirst
  <2> QED
    BY <1>4, <2>1, Zenon
<1>9. ReadAck(s) = Judged(Readings(256 * a[1] + a[2], b))
  BY <1>6, <1>8, ReadAckIs
<1>10. PICK records : records = Done(R, <<>>)
  OBVIOUS
<1>11. ReadAck(s) = Judged(records)
  BY <1>1, <1>4, <1>7, <1>9, <1>10, Zenon
<1>12. records.error = "" /\ records.value = R /\ records.rest = <<>>
  BY <1>10, Zenon DEF Done
<1>13. [i \in DOMAIN records.value |-> RangeOf(records.value[i])] = Spans(R)
  BY <1>12, Zenon DEF Spans
<1> QED
  BY <1>11, <1>12, <1>13, Zenon DEF Judged

--------------------------------------------------------------------------------
(* A message on its way, and the numbers that wait.                         *)

\* What the assumptions on the constants come to.
LEMMA Assumed ==
    MtuSize \in Nat /\ MtuSize > 10 /\ MaxAck \in Nat /\ Numbers \subseteq Numbers24
<1>1. MtuSize \in Nat /\ MtuSize > 10 /\ Numbers \subseteq Nat /\ \A n \in Numbers : n < 2^24
  BY ExchangeAssumption, SMT
<1>2. Numbers \subseteq Numbers24
  BY <1>1, Zenon DEF Numbers24
<1> QED
  BY <1>1, <1>2, MaxAckAssumption

\* The byte of the flags, before an acknowledgement.
LEMMA AckLength ==
    ASSUME NEW R \in Seq(Ranges), NEW s, IsAck(s, R), NEW mtu \in Nat,
           Len(FlattenSeq(Records(R))) <= mtu + 3
    PROVE  s \in Seq(Nat) /\ Len(s) <= mtu + 5
<1> DEFINE b == FlattenSeq(Records(R))
<1>1. PICK k \in Nat : k = Len(R)
  OBVIOUS
<1>2. PICK x \in Nat, y \in Nat : x = k \div 256 /\ y = k % 256
  OBVIOUS
<1>3. PICK a \in Seq(Nat) : a = <<x, y>> /\ Len(a) = 2
  <2>1. <<x, y>> \in Seq(Nat) /\ Len(<<x, y>>) = 2
    BY <1>2
  <2> QED
    BY <2>1, Zenon
<1>4. b \in Seq(Nat)
  BY RecordsType, FlattenType
<1>5. s = a \o b
  BY <1>1, <1>2, <1>3, Zenon DEF IsAck
<1> HIDE DEF b
<1>6. a \o b \in Seq(Nat) /\ Len(a \o b) = Len(a) + Len(b)
  BY <1>4, ConcatProperties
<1>7. PICK l \in Nat : l = Len(b)
  BY <1>4
<1>8. l <= mtu + 3
  BY <1>7 DEF b
<1>9. 2 + l <= mtu + 5
  BY <1>8
<1> QED
  BY <1>3, <1>5, <1>6, <1>7, <1>9, Zenon

\* What it comes to, on the way: a message that is short enough, and from which a first
\* part of the numbers is read unless it is of more numbers than read takes.
ReadsAs(a, ns) ==
    LET r == ReadAck(Tail(a)) IN
    \/ r.error # "" /\ r.value = <<>> /\ Len(ns) > MaxAck
    \/ /\ r.error = ""
       /\ \E k \in 1 .. Len(ns) : r.value = SubSeq(ns, 1, k)

\* The message of numbers, after the byte of the flags.
AckOf(ns) == <<192>> \o WriteAck(ns, MtuSize)

\* It does so.
LEMMA AckGoes ==
    ASSUME NEW ns \in Seq(Numbers24), ns # <<>>, NEW a, a = AckOf(ns)
    PROVE  Len(a) <= MtuSize + 6 /\ ReadsAs(a, ns)
<1>1. MtuSize \in Nat /\ MtuSize > 10 /\ MaxAck \in Nat
  BY Assumed
<1>2. PICK R \in Seq(Ranges), k \in 1 .. Len(ns) :
         /\ IsAck(WriteAck(ns, MtuSize), R)
         /\ FlattenSeq(Spans(R)) = SubSeq(ns, 1, k)
         /\ Len(FlattenSeq(Records(R))) <= MtuSize + 3
  BY <1>1, AckWritten
<1>3. PICK s : s = WriteAck(ns, MtuSize)
  OBVIOUS
<1>4. IsAck(s, R)
  BY <1>2, <1>3
<1>5. s \in Seq(Nat) /\ Len(s) <= MtuSize + 5
  BY <1>1, <1>2, <1>4, AckLength
<1>6. PICK f \in Nat : f = 192
  OBVIOUS
<1>7. a = <<f>> \o s
  BY <1>3, <1>6, Zenon DEF AckOf
<1>8. Len(<<f>> \o s) = Len(s) + 1 /\ Tail(<<f>> \o s) = s
  BY <1>5, Prefixed, TailOfPrefixed, Zenon
<1>9. Len(a) <= MtuSize + 6
  <2>1. PICK l \in Nat : l = Len(s)
    BY <1>5
  <2>2. l + 1 <= MtuSize + 6
    BY <1>1, <1>5, <2>1
  <2> QED
    BY <1>7, <1>8, <2>1, <2>2, Zenon
<1> DEFINE m == FlattenSeq(Spans(R))
<1>10. ReadAck(s) = IF Len(m) > MaxAck THEN Refused ELSE Done(m, <<>>)
  BY <1>4, AckRead
<1>11. Len(m) = k /\ k \in Nat /\ k <= Len(ns) /\ m = SubSeq(ns, 1, k)
  <2>1. Len(SubSeq(ns, 1, k)) = k /\ k \in Nat /\ k <= Len(ns)
    OBVIOUS
  <2> QED
    BY <1>2, <2>1, Zenon
<1> HIDE DEF m
<1>12. ReadAck(Tail(a)) = ReadAck(s)
  BY <1>7, <1>8, Zenon
<1>13. CASE Len(m) > MaxAck
  <2>1. Len(ns) > MaxAck
    <3>1. Len(ns) \in Nat
      OBVIOUS
    <3>2. k > MaxAck
      BY <1>11, <1>13, Zenon
    <3> QED
      BY <1>1, <1>11, <3>1, <3>2
  <2>2. PICK r : r = Refused
    OBVIOUS
  <2>3. r.error # "" /\ r.value = <<>>
    BY <2>2 DEF Refused
  <2>4. ReadAck(Tail(a)) = r
    BY <1>10, <1>12, <1>13, <2>2, Zenon
  <2> QED
    BY <1>9, <2>1, <2>3, <2>4, Zenon DEF ReadsAs
<1>14. CASE ~(Len(m) > MaxAck)
  <2>1. PICK r : r = Done(m, <<>>)
    OBVIOUS
  <2>2. r.error = "" /\ r.value = m
    BY <2>1, Zenon DEF Done
  <2>3. ReadAck(Tail(a)) = r
    BY <1>10, <1>12, <1>14, <2>1, Zenon
  <2> QED
    BY <1>9, <1>11, <2>2, <2>3, Zenon DEF ReadsAs
<1> QED
  BY <1>13, <1>14

\* The first n numbers are n.
LEMMA FirstNumbers == \A n \in Nat : IsFiniteSet(1 .. n) /\ Cardinality(1 .. n) = n
<1> TAKE n \in Nat
<1>1. 1 \in Int /\ n \in Int /\ (1 > n => n = 0) /\ n - 1 + 1 = n
  OBVIOUS
<1>2. /\ IsFiniteSet(1 .. n)
      /\ Cardinality(1 .. n) = IF 1 > n THEN 0 ELSE n - 1 + 1
  BY <1>1, FS_Interval, Zenon
<1> QED
  BY <1>1, <1>2, SMT

\* A number is inserted among others.
LEMMA Inserted ==
    ASSUME NEW X, NEW s \in Seq(X), NEW n
    PROVE  /\ Insert(s, n) \in Seq(X \cup {n}) /\ Len(Insert(s, n)) = Len(s) + 1
           /\ ToSet(Insert(s, n)) = ToSet(s) \cup {n}
<1> DEFINE before == {i \in DOMAIN s : s[i] <= n}
           Y == X \cup {n}
<1>1. PICK c \in Nat : c = Cardinality(before) /\ c <= Len(s)
  <2>1. before \subseteq 1 .. Len(s)
    OBVIOUS
  <2>2. Len(s) \in Nat
    OBVIOUS
  <2>3. IsFiniteSet(1 .. Len(s)) /\ Cardinality(1 .. Len(s)) = Len(s)
    BY <2>2, FirstNumbers, Zenon
  <2> HIDE DEF before
  <2>4. IsFiniteSet(before) /\ Cardinality(before) <= Cardinality(1 .. Len(s))
    BY <2>1, <2>3, FS_Subset
  <2>5. Cardinality(before) \in Nat
    BY <2>4, FS_CardinalityType
  <2> QED
    BY <2>3, <2>4, <2>5
<1> HIDE DEF before
<1>2. PICK j \in Nat : j = 1 + c /\ j - 1 = c /\ j >= 1
  BY <1>1
<1> DEFINE a == SubSeq(s, 1, c)
           b == SubSeq(s, j, Len(s))
<1>3. Insert(s, n) = a \o <<n>> \o b
  <2>1. Insert(s, n) = InsertAt(s, 1 + c, n)
    BY <1>1 DEF Insert, before
  <2> QED
    BY <1>2, <2>1, Zenon DEF InsertAt
<1>4. s \in Seq(Y) /\ \A i \in 1 .. Len(s) : s[i] \in Y
  <2>1. \A i \in 1 .. Len(s) : s[i] \in X
    BY ElementOfSeq
  <2>2. s = [i \in 1 .. Len(s) |-> s[i]] /\ Len(s) \in Nat
    OBVIOUS
  <2> QED
    BY <2>1, <2>2
<1> HIDE DEF Y
<1>5. /\ a \in Seq(Y) /\ Len(a) = c /\ b \in Seq(Y) /\ Len(b) = Len(s) - c
      /\ \A i \in 1 .. c : a[i] = s[i]
      /\ \A i \in 1 .. Len(s) - c : b[i] = s[c + i]
  BY <1>1, <1>2, <1>4
<1>6. <<n>> \in Seq(Y) /\ Len(<<n>>) = 1
  BY DEF Y
<1> HIDE DEF a, b
<1>7. a \o <<n>> \in Seq(Y) /\ Len(a \o <<n>>) = c + 1
      /\ (\A i \in 1 .. c : (a \o <<n>>)[i] = a[i]) /\ (a \o <<n>>)[c + 1] = n
  BY <1>5, <1>6
<1> DEFINE u == a \o <<n>>
           t == u \o b
<1>8. /\ u \in Seq(Y) /\ Len(u) = c + 1 /\ (\A i \in 1 .. c : u[i] = s[i]) /\ u[c + 1] = n
  <2>1. \A i \in 1 .. c : (a \o <<n>>)[i] = s[i]
    BY <1>5, <1>7, Zenon
  <2> QED
    BY <1>7, <2>1, Zenon
<1> HIDE DEF u
<1>9. /\ t \in Seq(Y) /\ Len(t) = Len(s) + 1 /\ (\A i \in 1 .. c : t[i] = s[i]) /\ t[c + 1] = n
      /\ \A i \in 1 .. Len(s) - c : t[c + 1 + i] = s[c + i]
  <2>1. PICK N \in Nat : N = Len(s)
    OBVIOUS
  <2>2. c <= N /\ Len(b) = N - c /\ \A i \in 1 .. N - c : b[i] = s[c + i]
    BY <1>1, <1>5, <2>1
  <2>3. /\ u \o b \in Seq(Y) /\ Len(u \o b) = Len(u) + Len(b)
        /\ \A i \in 1 .. Len(u) : (u \o b)[i] = u[i]
        /\ \A i \in 1 .. Len(b) : (u \o b)[Len(u) + i] = b[i]
    <3>1. PICK p \in Seq(Y), q \in Seq(Y) : p = u /\ q = b
      BY <1>5, <1>8
    <3>2. /\ p \o q \in Seq(Y) /\ Len(p \o q) = Len(p) + Len(q)
          /\ \A i \in 1 .. Len(p) : (p \o q)[i] = p[i]
          /\ \A i \in 1 .. Len(q) : (p \o q)[Len(p) + i] = q[i]
      BY ConcatProperties
    <3> QED
      BY <3>1, <3>2, Zenon
  <2> HIDE DEF t
  <2>4. /\ t \in Seq(Y) /\ Len(t) = (c + 1) + (N - c)
        /\ \A i \in 1 .. c + 1 : t[i] = u[i]
        /\ \A i \in 1 .. N - c : t[(c + 1) + i] = b[i]
    BY <1>8, <2>2, <2>3, Zenon DEF t
  <2>5. Len(t) = N + 1 /\ \A i \in 1 .. c : i \in 1 .. c + 1
    BY <2>2, <2>4
  <2>6. (\A i \in 1 .. c : t[i] = s[i]) /\ t[c + 1] = n
    <3>1. c + 1 \in 1 .. c + 1
      OBVIOUS
    <3> QED
      BY <1>8, <2>4, <2>5, <3>1, Zenon
  <2>7. \A i \in 1 .. N - c : t[c + 1 + i] = s[c + i]
    BY <2>2, <2>4, Zenon
  <2> QED
    BY <2>1, <2>4, <2>5, <2>6, <2>7, Zenon
<1> HIDE DEF t
<1>10. ToSet(t) = ToSet(s) \cup {n}
  <2>1. DOMAIN t = 1 .. Len(s) + 1 /\ DOMAIN s = 1 .. Len(s) /\ Len(s) \in Nat
    BY <1>9
  <2>2. ASSUME NEW i \in 1 .. Len(s) + 1 PROVE t[i] = n \/ \E k \in 1 .. Len(s) : t[i] = s[k]
    <3>1. CASE i <= c
      BY <1>1, <1>9, <2>1, <3>1
    <3>2. CASE i = c + 1
      BY <1>9, <3>2
    <3>3. CASE i > c + 1
      <4>1. PICK k \in 1 .. Len(s) - c : i = c + 1 + k
        <5>1. i - c - 1 \in 1 .. Len(s) - c /\ i = c + 1 + (i - c - 1)
          BY <1>1, <2>1, <3>3
        <5> QED
          BY <5>1
      <4>2. t[i] = s[c + k] /\ c + k \in 1 .. Len(s)
        BY <1>1, <1>9, <2>1, <4>1
      <4> QED
        BY <4>2
    <3> QED
      BY <1>1, <2>1, <3>1, <3>2, <3>3
  <2>3. ASSUME NEW k \in 1 .. Len(s) PROVE \E i \in 1 .. Len(s) + 1 : t[i] = s[k]
    <3>1. CASE k <= c
      <4>1. k \in 1 .. c /\ k \in 1 .. Len(s) + 1
        BY <1>1, <2>1, <3>1
      <4> QED
        BY <1>9, <4>1
    <3>2. CASE k > c
      <4>1. PICK i \in 1 .. Len(s) - c : k = c + i
        <5>1. k - c \in 1 .. Len(s) - c /\ k = c + (k - c)
          BY <1>1, <2>1, <3>2
        <5> QED
          BY <5>1
      <4>2. t[c + 1 + i] = s[k] /\ c + 1 + i \in 1 .. Len(s) + 1
        BY <1>1, <1>9, <2>1, <4>1
      <4> QED
        BY <4>2
    <3> QED
      BY <1>1, <2>1, <3>1, <3>2
  <2>4. c + 1 \in 1 .. Len(s) + 1
    BY <1>1, <2>1
  <2>5. ASSUME NEW x PROVE x \in ToSet(t) <=> x \in ToSet(s) \cup {n}
    <3>1. x \in ToSet(t) <=> \E i \in 1 .. Len(s) + 1 : x = t[i]
      BY <2>1, Zenon DEF ToSet
    <3>2. x \in ToSet(s) <=> \E k \in 1 .. Len(s) : x = s[k]
      BY <2>1, Zenon DEF ToSet
    <3> QED
      BY <1>9, <2>2, <2>3, <2>4, <3>1, <3>2, Zenon
  <2> QED
    BY <2>5, Zenon
<1> QED
  BY <1>3, <1>9, <1>10, Zenon DEF t, u, Y

--------------------------------------------------------------------------------
(* The state.                                                               *)

\* How many datagrams came, the lists of numbers that may be acknowledged, and their messages.
Came == Cardinality(arrived) + twice
Lists == {ns \in Seq(arrived) : ns # <<>> /\ Len(ns) <= Came}

\* The types of the variables: messages are those of lists of numbers that came.
AckTypes ==
    /\ IsFiniteSet(arrived) /\ arrived \subseteq Numbers /\ twice \in Nat
    /\ datagramsReceived \in Seq(arrived) /\ Len(datagramsReceived) <= Came
    /\ acks \in Seq({AckOf(ns) : ns \in Lists})
    /\ acknowledged \subseteq arrived /\ deaf \in BOOLEAN
\* A number that came is acknowledged, waits, or is the first of a message on its way.
Covered(n) ==
    \/ n \in acknowledged \/ n \in ToSet(datagramsReceived)
    \/ \E i \in 1 .. Len(acks) : \E ns \in Lists : ns[1] = n /\ acks[i] = AckOf(ns)
\* While the peer listens, every number that came is covered.
AckCovered == deaf = FALSE => \A n \in arrived : Covered(n)
DeafIsMany == deaf = TRUE => Came > MaxAck
AckInv == AckTypes /\ AckCovered /\ DeafIsMany

\* They are counted.
LEMMA CameIs ==
    ASSUME AckTypes
    PROVE  Came \in Nat /\ Cardinality(arrived) \in Nat
<1>1. Cardinality(arrived) \in Nat
  BY FS_CardinalityType DEF AckTypes
<1>2. twice \in Nat
  BY DEF AckTypes
<1> QED
  BY <1>1, <1>2 DEF Came

\* It holds before any datagram came.
LEMMA AckInvInit == ExchangeInit => AckInv
<1> SUFFICES ASSUME ExchangeInit PROVE AckInv
  OBVIOUS
<1>1. /\ datagramsReceived = <<>> /\ arrived = {} /\ twice = 0 /\ acks = <<>>
      /\ acknowledged = {} /\ deaf = FALSE
  BY DEF ExchangeInit
<1>2. IsFiniteSet(arrived) /\ Came = 0
  <2>1. IsFiniteSet({}) /\ Cardinality({}) = 0
    BY FS_EmptySet
  <2> QED
    BY <1>1, <2>1 DEF Came
<1>3. <<>> \in Seq(arrived) /\ <<>> \in Seq({AckOf(ns) : ns \in Lists}) /\ Len(<<>>) <= 0
  OBVIOUS
<1>4. AckTypes
  BY <1>1, <1>2, <1>3 DEF AckTypes
<1> QED
  BY <1>1, <1>4 DEF AckInv, AckCovered, DeafIsMany

\* It is kept by the steps that exchange messages: they do not touch these variables.
LEMMA AckInvStutter ==
    ASSUME AckInv, UNCHANGED ackVars
    PROVE  AckInv'
<1>1. /\ datagramsReceived' = datagramsReceived /\ arrived' = arrived /\ twice' = twice
      /\ acks' = acks /\ acknowledged' = acknowledged /\ deaf' = deaf
  BY DEF ackVars
<1>2. Came' = Came /\ Lists' = Lists
  BY <1>1, Zenon DEF Came, Lists
<1>3. AckTypes'
  <2>1. {AckOf(ns) : ns \in Lists}' = {AckOf(ns) : ns \in Lists}
    BY <1>2, Zenon DEF AckOf
  <2> QED
    BY <1>1, <1>2, <2>1, Zenon DEF AckInv, AckTypes
<1>4. AckCovered'
  <2>1. ASSUME NEW n PROVE Covered(n)' <=> Covered(n)
    <3>1. \A i, ns : (acks[i] = AckOf(ns))' <=> acks[i] = AckOf(ns)
      BY <1>1, Zenon DEF AckOf
    <3> QED
      BY <1>1, <1>2, <3>1, Zenon DEF Covered
  <2> QED
    BY <1>1, <2>1, Zenon DEF AckInv, AckCovered
<1>5. DeafIsMany'
  BY <1>1, <1>2, Zenon DEF AckInv, DeafIsMany
<1> QED
  BY <1>3, <1>4, <1>5, Zenon DEF AckInv

\* It is kept by the arrival of a datagram: its number waits from then on.
LEMMA AckInvReceive ==
    ASSUME AckInv, NEW n \in Numbers, ReceiveDatagram(n)
    PROVE  AckInv'
<1>1. /\ acks = <<>> /\ deaf = FALSE /\ arrived' = arrived \cup {n}
      /\ twice' = (IF n \in arrived THEN twice + 1 ELSE twice)
      /\ datagramsReceived' = Insert(datagramsReceived, n)
      /\ acks' = acks /\ acknowledged' = acknowledged /\ deaf' = deaf
  <2>1. /\ acks = <<>> /\ ~deaf /\ arrived' = arrived \cup {n}
        /\ twice' = (IF n \in arrived THEN twice + 1 ELSE twice)
        /\ datagramsReceived' = Insert(datagramsReceived, n)
        /\ acks' = acks /\ acknowledged' = acknowledged /\ deaf' = deaf
    BY Zenon DEF ReceiveDatagram
  <2>2. deaf = FALSE
    BY <2>1, Zenon DEF AckInv, AckTypes
  <2> QED
    BY <2>1, <2>2, Zenon
<1>2. AckTypes
  BY DEF AckInv
<1>3. /\ Insert(datagramsReceived, n) \in Seq(arrived \cup {n})
      /\ Len(Insert(datagramsReceived, n)) = Len(datagramsReceived) + 1
      /\ ToSet(Insert(datagramsReceived, n)) = ToSet(datagramsReceived) \cup {n}
  BY <1>2, Inserted DEF AckTypes
<1>4. IsFiniteSet(arrived') /\ twice' \in Nat /\ Came' = Came + 1
  <2>1. IsFiniteSet(arrived) /\ twice \in Nat /\ Cardinality(arrived) \in Nat
    BY <1>2, CameIs DEF AckTypes
  <2>2. /\ IsFiniteSet(arrived \cup {n})
        /\ Cardinality(arrived \cup {n}) =
               IF n \in arrived THEN Cardinality(arrived) ELSE Cardinality(arrived) + 1
    BY <2>1, FS_AddElement
  <2>3. PICK c \in Nat, t \in Nat : c = Cardinality(arrived) /\ t = twice
    BY <2>1
  <2>4. Came = c + t /\ Came' = Cardinality(arrived \cup {n}) + twice'
    BY <1>1, <2>3 DEF Came
  <2>5. CASE n \in arrived
    <3>1. Cardinality(arrived \cup {n}) = c /\ twice' = t + 1
      BY <1>1, <2>2, <2>3, <2>5, Zenon
    <3>2. t + 1 \in Nat /\ c + (t + 1) = (c + t) + 1
      OBVIOUS
    <3> QED
      BY <1>1, <2>2, <2>4, <3>1, <3>2, Zenon
  <2>6. CASE n \notin arrived
    <3>1. Cardinality(arrived \cup {n}) = c + 1 /\ twice' = t
      BY <1>1, <2>2, <2>3, <2>6, Zenon
    <3>2. (c + 1) + t = (c + t) + 1
      OBVIOUS
    <3> QED
      BY <1>1, <2>2, <2>3, <2>4, <3>1, <3>2, Zenon
  <2> QED
    BY <2>5, <2>6
<1>5. AckTypes'
  <2>1. arrived' \subseteq Numbers /\ acknowledged' \subseteq arrived'
    BY <1>1, <1>2 DEF AckTypes
  <2>2. datagramsReceived' \in Seq(arrived') /\ Len(datagramsReceived') <= Came'
    <3>1. Len(datagramsReceived) <= Came /\ Len(datagramsReceived) \in Nat
      BY <1>2 DEF AckTypes
    <3>2. Came \in Nat
      BY <1>2, CameIs
    <3>3. Len(datagramsReceived) + 1 <= Came + 1
      BY <3>1, <3>2
    <3> QED
      BY <1>1, <1>3, <1>4, <3>3, Zenon
  <2>3. acks' \in Seq({AckOf(ns) : ns \in Lists}')
    <3>1. <<>> \in Seq({AckOf(ns) : ns \in Lists}')
      OBVIOUS
    <3> QED
      BY <1>1, <3>1, Zenon
  <2>4. deaf' \in BOOLEAN
    BY <1>1, <1>2, Zenon DEF AckTypes
  <2> QED
    BY <1>4, <2>1, <2>2, <2>3, <2>4, Zenon DEF AckTypes
<1>6. AckCovered'
  <2>1. ASSUME NEW m \in arrived' PROVE Covered(m)'
    <3>1. m \in acknowledged' \/ m \in ToSet(datagramsReceived)'
      <4>1. ToSet(datagramsReceived)' = ToSet(datagramsReceived) \cup {n}
        BY <1>1, <1>3, Zenon
      <4>2. CASE m = n
        BY <4>1, <4>2, Zenon
      <4>3. CASE m # n
        <5>1. m \in arrived
          BY <1>1, <4>3, Zenon
        <5>2. Covered(m)
          BY <1>1, <5>1, Zenon DEF AckInv, AckCovered
        <5>3. ~\E i \in 1 .. Len(acks) : \E ns \in Lists : ns[1] = m /\ acks[i] = AckOf(ns)
          <6>1. \A i \in 1 .. Len(acks) : FALSE
            BY <1>1
          <6> QED
            BY <6>1, Zenon
        <5> QED
          BY <1>1, <4>1, <5>2, <5>3, Zenon DEF Covered
      <4> QED
        BY <4>2, <4>3
    <3> QED
      BY <3>1, Zenon DEF Covered
  <2> QED
    BY <2>1, Zenon DEF AckCovered
<1>7. DeafIsMany'
  BY <1>1, Zenon DEF DeafIsMany
<1> QED
  BY <1>5, <1>6, <1>7, Zenon DEF AckInv

\* The sequence with nothing in it.
LEMMA EmptyLength == Len(<<>>) = 0
  OBVIOUS

\* It is kept by FlushACKs: the first of the numbers that waited is the first of a message,
\* and so is the first of those that the message left over.
LEMMA AckInvFlush ==
    ASSUME AckInv, FlushACKs
    PROVE  AckInv'
<1>1. /\ datagramsReceived # <<>> /\ acks' = acks \o SendAcknowledgement(datagramsReceived)
      /\ datagramsReceived' = <<>>
      /\ arrived' = arrived /\ twice' = twice /\ acknowledged' = acknowledged /\ deaf' = deaf
  BY Zenon DEF FlushACKs
<1>2. AckTypes
  BY DEF AckInv
<1>3. Came' = Came /\ Lists' = Lists
  BY <1>1, Zenon DEF Came, Lists
<1> DEFINE d == datagramsReceived
           sent == SendAcknowledgement(d)
           Wire == {AckOf(ns) : ns \in Lists}
<1>4. d \in Seq(arrived) /\ Len(d) <= Came /\ Came \in Nat /\ acks \in Seq(Wire) /\ Len(d) \in Nat
  BY <1>2, CameIs DEF AckTypes
<1>5. ASSUME NEW i \in 1 .. Len(d)
      PROVE  SubSeq(d, i, Len(d)) \in Lists /\ SubSeq(d, i, Len(d))[1] = d[i]
  <2>1. PICK s \in Seq(arrived) : s = d
    BY <1>4
  <2>2. SubSeq(s, i, Len(s)) \in Seq(arrived) /\ Len(SubSeq(s, i, Len(s))) = Len(s) - i + 1
    BY <2>1, SubSeqProperties
  <2>3. SubSeq(s, i, Len(s))[1] = s[i]
    <3>1. SubSeq(s, i, Len(s)) = [k \in 1 .. Len(s) - i + 1 |-> s[k + i - 1]]
      BY <2>1
    <3>2. 1 \in 1 .. Len(s) - i + 1 /\ 1 + i - 1 = i
      BY <2>1, <1>4
    <3> HIDE DEF d
    <3> QED
      BY <3>1, <3>2
  <2>4. Len(s) - i + 1 > 0 /\ Len(s) - i + 1 <= Came
    BY <1>4, <2>1
  <2>5. SubSeq(s, i, Len(s)) # <<>>
    <3>1. PICK u \in Seq(arrived) : u = SubSeq(s, i, Len(s)) /\ Len(u) = Len(s) - i + 1
      BY <2>2
    <3>2. Len(u) > 0 /\ Len(<<>>) = 0
      BY <2>4, <3>1, Zenon, EmptyLength
    <3>3. ~(0 > 0)
      OBVIOUS
    <3> QED
      BY <3>1, <3>2, <3>3, Zenon
  <2> QED
    BY <2>1, <2>2, <2>3, <2>4, <2>5 DEF Lists
<1>6. /\ Len(sent) = Len(d) /\ sent \in Seq(Wire)
      /\ \A i \in 1 .. Len(d) : sent[i] = AckOf(SubSeq(d, i, Len(d)))
  <2>1. sent = [i \in 1 .. Len(d) |-> AckOf(SubSeq(d, i, Len(d)))]
    <3>1. DOMAIN d = 1 .. Len(d)
      BY <1>4
    <3> QED
      BY <3>1, Zenon DEF SendAcknowledgement, AckOf
  <2>2. \A i \in 1 .. Len(d) : AckOf(SubSeq(d, i, Len(d))) \in Wire
    BY <1>5
  <2> HIDE DEF sent, d, Wire
  <2> QED
    BY <1>4, <2>1, <2>2
<1> HIDE DEF sent, Wire
<1>7. /\ acks' \in Seq(Wire) /\ Len(acks') = Len(acks) + Len(d) /\ Len(acks) \in Nat
      /\ \A i \in 1 .. Len(acks) : acks'[i] = acks[i]
      /\ \A i \in 1 .. Len(d) : acks'[Len(acks) + i] = sent[i]
  <2>1. PICK p \in Seq(Wire), q \in Seq(Wire) : p = acks /\ q = sent
    BY <1>4, <1>6
  <2>2. /\ p \o q \in Seq(Wire) /\ Len(p \o q) = Len(p) + Len(q) /\ Len(p) \in Nat
        /\ \A i \in 1 .. Len(p) : (p \o q)[i] = p[i]
        /\ \A i \in 1 .. Len(q) : (p \o q)[Len(p) + i] = q[i]
    BY ConcatProperties
  <2>3. acks' = p \o q
    BY <1>1, <2>1 DEF sent
  <2> QED
    BY <1>6, <2>1, <2>2, <2>3, Zenon
<1>8. AckTypes'
  <2>1. <<>> \in Seq(arrived) /\ Len(<<>>) = 0 /\ 0 <= Came
    BY <1>4
  <2>2. datagramsReceived' \in Seq(arrived') /\ Len(datagramsReceived') <= Came'
    BY <1>1, <1>3, <2>1, Zenon
  <2>3. acks' \in Seq({AckOf(ns) : ns \in Lists}')
    <3>1. {AckOf(ns) : ns \in Lists}' = Wire
      BY <1>3, Zenon DEF Wire, AckOf
    <3> QED
      BY <1>7, <3>1, Zenon
  <2> QED
    BY <1>1, <1>2, <2>2, <2>3, Zenon DEF AckTypes
<1>9. AckCovered'
  <2> SUFFICES ASSUME deaf' = FALSE, NEW n \in arrived' PROVE Covered(n)'
    BY Zenon DEF AckCovered
  <2>0. ASSUME NEW ns \in Lists, NEW j \in 1 .. Len(acks'), ns[1] = n, acks'[j] = AckOf(ns)
        PROVE  Covered(n)'
    <3>1. ns \in Lists' /\ (acks[j] = AckOf(ns))'
      BY <1>3, <2>0, Zenon DEF AckOf
    <3> QED
      BY <2>0, <3>1, Zenon DEF Covered
  <2>1. Covered(n)
    BY <1>1, Zenon DEF AckInv, AckCovered
  <2>2. CASE n \in acknowledged
    BY <1>1, <2>2, Zenon DEF Covered
  <2>3. CASE n \in ToSet(d)
    <3>1. PICK i \in 1 .. Len(d) : n = d[i]
      BY <1>4, <2>3 DEF ToSet
    <3>2. SubSeq(d, i, Len(d)) \in Lists /\ SubSeq(d, i, Len(d))[1] = n
      BY <1>5, <3>1
    <3>3. acks'[Len(acks) + i] = AckOf(SubSeq(d, i, Len(d)))
      BY <1>6, <1>7, Zenon
    <3>4. Len(acks) + i \in 1 .. Len(acks')
      BY <1>4, <1>7
    <3>5. PICK ns \in Lists, j \in 1 .. Len(acks') : ns[1] = n /\ acks'[j] = AckOf(ns)
      BY <3>2, <3>3, <3>4, Zenon
    <3> QED
      BY <2>0, <3>5, Zenon
  <2>4. CASE \E i \in 1 .. Len(acks) : \E ns \in Lists : ns[1] = n /\ acks[i] = AckOf(ns)
    <3>1. PICK i \in 1 .. Len(acks) : \E ns \in Lists : ns[1] = n /\ acks[i] = AckOf(ns)
      BY <2>4
    <3>2. i \in 1 .. Len(acks') /\ acks'[i] = acks[i]
      BY <1>4, <1>7
    <3> QED
      BY <2>0, <3>1, <3>2, Zenon
  <2> QED
    BY <2>1, <2>2, <2>3, <2>4, Zenon DEF Covered
<1>10. DeafIsMany'
  BY <1>1, <1>3, Zenon DEF AckInv, DeafIsMany
<1> QED
  BY <1>8, <1>9, <1>10, Zenon DEF AckInv

\* What is known of a message on its way.
LEMMA OnItsWay ==
    ASSUME AckTypes, NEW ns \in Lists
    PROVE  /\ Len(AckOf(ns)) <= MtuSize + 6 /\ ReadsAs(AckOf(ns), ns)
           /\ ns \in Seq(arrived) /\ ns # <<>> /\ Len(ns) <= Came
<1>1. ns \in Seq(arrived) /\ ns # <<>> /\ Len(ns) <= Came
  BY DEF Lists
<1>2. arrived \subseteq Numbers24
  BY Assumed DEF AckTypes
<1>3. ns \in Seq(Numbers24)
  <2>1. ns = [i \in 1 .. Len(ns) |-> ns[i]] /\ Len(ns) \in Nat
    BY <1>1
  <2>2. \A i \in 1 .. Len(ns) : ns[i] \in Numbers24
    BY <1>1, <1>2, ElementOfSeq
  <2> QED
    BY <2>1, <2>2
<1>4. Len(AckOf(ns)) <= MtuSize + 6 /\ ReadsAs(AckOf(ns), ns)
  BY <1>1, <1>3, AckGoes, Zenon
<1> QED
  BY <1>1, <1>4

\* A sequence that is not empty: its first element and the others.
LEMMA FirstAndRest ==
    ASSUME NEW X, NEW s \in Seq(X), s # <<>>
    PROVE  /\ Head(s) \in X /\ Head(s) = s[1] /\ Tail(s) \in Seq(X)
           /\ Len(s) \in Nat /\ Len(s) > 0 /\ Len(Tail(s)) = Len(s) - 1
           /\ \A i \in 1 .. Len(s) - 1 : Tail(s)[i] = s[i + 1]
<1>1. Head(s) \in X /\ Head(s) = s[1] /\ Len(s) \in Nat /\ Len(s) > 0
  <2>1. Len(s) \in Nat /\ Len(s) # 0
    BY EmptySeq
  <2> QED
    BY <2>1
<1>2. Tail(s) \in Seq(X) /\ Len(Tail(s)) = Len(s) - 1
      /\ \A i \in 1 .. Len(s) - 1 : Tail(s)[i] = s[i + 1]
  BY HeadTailProperties
<1> QED
  BY <1>1, <1>2

\* It is kept by HandleACK: the numbers read are a first part of those of the message.
LEMMA AckInvHandle ==
    ASSUME AckInv, HandleACK
    PROVE  AckInv'
<1> DEFINE r == ReadAck(Tail(Head(acks)))
<1>1. /\ acks # <<>> /\ deaf = FALSE /\ deaf' = (r.error # "")
      /\ acknowledged' = acknowledged \cup ToSet(r.value) /\ acks' = Tail(acks)
      /\ datagramsReceived' = datagramsReceived /\ arrived' = arrived /\ twice' = twice
  <2>1. /\ acks # <<>> /\ ~deaf /\ deaf' = (r.error # "")
        /\ acknowledged' = acknowledged \cup ToSet(r.value) /\ acks' = Tail(acks)
        /\ datagramsReceived' = datagramsReceived /\ arrived' = arrived /\ twice' = twice
    BY Zenon DEF HandleACK
  <2>2. deaf = FALSE
    BY <2>1, Zenon DEF AckInv, AckTypes
  <2> QED
    BY <2>1, <2>2, Zenon
<1> HIDE DEF r
<1>2. AckTypes
  BY DEF AckInv
<1>3. Came' = Came /\ Lists' = Lists
  BY <1>1, Zenon DEF Came, Lists
<1> DEFINE Wire == {AckOf(ns) : ns \in Lists}
<1>4. acks \in Seq(Wire)
  BY <1>2 DEF AckTypes
<1>5. /\ Head(acks) \in Wire /\ Head(acks) = acks[1] /\ Tail(acks) \in Seq(Wire)
      /\ Len(acks) \in Nat /\ Len(acks) > 0 /\ Len(Tail(acks)) = Len(acks) - 1
      /\ \A i \in 1 .. Len(acks) - 1 : Tail(acks)[i] = acks[i + 1]
  <2> HIDE DEF Wire
  <2> QED
    BY <1>1, <1>4, FirstAndRest
<1>6. ASSUME NEW ns \in Lists, Head(acks) = AckOf(ns)
      PROVE  /\ r.error # "" => r.value = <<>> /\ Came > MaxAck
             /\ r.error = "" => ns[1] \in ToSet(r.value) /\ ToSet(r.value) \subseteq arrived
  <2>1. ReadsAs(Head(acks), ns) /\ ns \in Seq(arrived) /\ ns # <<>> /\ Len(ns) <= Came
    BY <1>2, <1>6, OnItsWay
  <2>2. \/ r.error # "" /\ r.value = <<>> /\ Len(ns) > MaxAck
        \/ r.error = "" /\ \E k \in 1 .. Len(ns) : r.value = SubSeq(ns, 1, k)
    BY <2>1, Zenon DEF ReadsAs, r
  <2>3. ASSUME r.error # "" PROVE r.value = <<>> /\ Came > MaxAck
    <3>1. r.value = <<>> /\ Len(ns) > MaxAck
      BY <2>2, <2>3, Zenon
    <3>2. Came > MaxAck
      <4>1. Came \in Nat /\ Len(ns) \in Nat /\ MaxAck \in Nat
        BY <1>2, <2>1, CameIs, Assumed
      <4> QED
        BY <2>1, <3>1, <4>1
    <3> QED
      BY <3>1, <3>2
  <2>4. ASSUME r.error = "" PROVE ns[1] \in ToSet(r.value) /\ ToSet(r.value) \subseteq arrived
    <3>1. PICK k \in 1 .. Len(ns) : r.value = SubSeq(ns, 1, k)
      BY <2>2, <2>4, Zenon
    <3>2. /\ SubSeq(ns, 1, k) \in Seq(arrived) /\ Len(SubSeq(ns, 1, k)) = k
          /\ SubSeq(ns, 1, k)[1] = ns[1] /\ k \in Nat /\ k >= 1
      BY <2>1
    <3>3. PICK s \in Seq(arrived) : s = SubSeq(ns, 1, k)
      BY <3>2
    <3>4. 1 \in DOMAIN s /\ ToSet(s) \subseteq arrived
      <4>1. DOMAIN s = 1 .. Len(s) /\ \A i \in 1 .. Len(s) : s[i] \in arrived
        BY ElementOfSeq
      <4>2. 1 \in 1 .. Len(s)
        BY <3>2, <3>3
      <4> QED
        BY <4>1, <4>2 DEF ToSet
    <3>5. s[1] \in ToSet(s)
      BY <3>4 DEF ToSet
    <3> QED
      BY <3>1, <3>2, <3>3, <3>4, <3>5, Zenon
  <2> QED
    BY <2>3, <2>4
<1>7. PICK first \in Lists : Head(acks) = AckOf(first)
  BY <1>5
<1>8. ToSet(<<>>) = {}
  BY DEF ToSet
<1>9. ToSet(r.value) \subseteq arrived
  <2>1. CASE r.error # ""
    <3>1. r.value = <<>>
      BY <1>6, <1>7, <2>1, Zenon
    <3> QED
      BY <1>8, <3>1, Zenon
  <2>2. CASE r.error = ""
    BY <1>6, <1>7, <2>2, Zenon
  <2> QED
    BY <2>1, <2>2
<1>10. AckTypes'
  <2>1. acknowledged' \subseteq arrived'
    BY <1>1, <1>2, <1>9, Zenon DEF AckTypes
  <2>2. deaf' \in BOOLEAN
    BY <1>1, Zenon
  <2>3. acks' \in Seq({AckOf(ns) : ns \in Lists}')
    <3>1. {AckOf(ns) : ns \in Lists}' = Wire
      BY <1>3, Zenon DEF AckOf
    <3> HIDE DEF Wire
    <3> QED
      BY <1>1, <1>5, <3>1, Zenon
  <2>4. datagramsReceived' \in Seq(arrived') /\ Len(datagramsReceived') <= Came'
    BY <1>1, <1>2, <1>3, Zenon DEF AckTypes
  <2> QED
    BY <1>1, <1>2, <2>1, <2>2, <2>3, <2>4, Zenon DEF AckTypes
<1>11. AckCovered'
  <2> SUFFICES ASSUME deaf' = FALSE, NEW n \in arrived' PROVE Covered(n)'
    BY Zenon DEF AckCovered
  <2>0. r.error = ""
    BY <1>1, Zenon
  <2>1. Covered(n)
    BY <1>1, Zenon DEF AckInv, AckCovered
  <2>2. CASE n \in acknowledged
    BY <1>1, <2>2, Zenon DEF Covered
  <2>3. CASE n \in ToSet(datagramsReceived)
    BY <1>1, <2>3, Zenon DEF Covered
  <2>4. CASE \E i \in 1 .. Len(acks) : \E ns \in Lists : ns[1] = n /\ acks[i] = AckOf(ns)
    <3>1. PICK i \in 1 .. Len(acks), ns \in Lists : ns[1] = n /\ acks[i] = AckOf(ns)
      BY <2>4
    <3>2. CASE i = 1
      <4>1. Head(acks) = AckOf(ns)
        BY <1>5, <3>1, <3>2, Zenon
      <4>2. ns[1] \in ToSet(r.value)
        BY <1>6, <2>0, <4>1, Zenon
      <4> QED
        BY <1>1, <3>1, <4>2, Zenon DEF Covered
    <3>3. CASE i # 1
      <4>1. PICK j \in 1 .. Len(acks) - 1 : i = j + 1
        <5>1. i - 1 \in 1 .. Len(acks) - 1 /\ i = (i - 1) + 1
          BY <1>5, <3>3
        <5> QED
          BY <5>1
      <4>2. acks'[j] = AckOf(ns) /\ j \in 1 .. Len(acks')
        <5>1. Tail(acks)[j] = acks[i]
          BY <1>5, <4>1, Zenon
        <5> QED
          BY <1>1, <1>5, <3>1, <5>1, Zenon
      <4> QED
        BY <1>3, <3>1, <4>2, Zenon DEF Covered, AckOf
    <3> QED
      BY <3>2, <3>3
  <2> QED
    BY <2>1, <2>2, <2>3, <2>4, Zenon DEF Covered
<1>12. DeafIsMany'
  <2> SUFFICES ASSUME deaf' = TRUE PROVE Came' > MaxAck
    BY Zenon DEF DeafIsMany
  <2>1. r.error # ""
    BY <1>1, Zenon
  <2>2. Came > MaxAck
    BY <1>6, <1>7, <2>1, Zenon
  <2> QED
    BY <1>3, <2>2, Zenon
<1> QED
  BY <1>10, <1>11, <1>12, Zenon DEF AckInv

\* Every number that came is acknowledged, waits, or is the first of a message on its way, and a
\* peer that stopped listening was sent more numbers than acknowledgement::read takes.
THEOREM AckInvariant == ExchangeSpec => []AckInv
<1>1. AckInv /\ [ExchangeNext]_exchangeVars => AckInv'
  <2> SUFFICES ASSUME AckInv, [ExchangeNext]_exchangeVars PROVE AckInv'
    OBVIOUS
  <2>1. CASE Speak \/ Hear \/ UNCHANGED exchangeVars
    <3>1. UNCHANGED ackVars
      BY <2>1, Zenon DEF Speak, Hear, exchangeVars
    <3> QED
      BY <3>1, AckInvStutter
  <2>2. CASE FlushACKs
    BY <2>2, AckInvFlush
  <2>3. CASE HandleACK
    BY <2>3, AckInvHandle
  <2>4. CASE \E n \in Numbers : ReceiveDatagram(n)
    BY <2>4, AckInvReceive
  <2> QED
    BY <2>1, <2>2, <2>3, <2>4, Zenon DEF ExchangeNext
<1> QED
  BY <1>1, AckInvInit, PTL DEF ExchangeSpec

\* Every acknowledgement that SendAcknowledgement puts on the wire keeps to the MTU up to six bytes,
\* and acknowledgement::read refuses one only when more datagrams came than it accepts numbers.
THEOREM AcknowledgementsUsable == ExchangeSpec => []AckUsable
<1>1. AckInv => AckUsable
  <2> SUFFICES ASSUME AckInv PROVE AckUsable
    OBVIOUS
  <2>1. AckTypes
    BY DEF AckInv
  <2>2. ASSUME NEW i \in DOMAIN acks PROVE Len(acks[i]) <= MtuSize + 6
    <3>1. PICK ns \in Lists : acks[i] = AckOf(ns)
      <4> DEFINE Wire == {AckOf(ns) : ns \in Lists}
      <4>1. acks \in Seq(Wire)
        BY <2>1 DEF AckTypes
      <4>2. acks[i] \in Wire
        <5> HIDE DEF Wire
        <5> QED
          BY <4>1
      <4> QED
        BY <4>2
    <3> QED
      BY <2>1, <3>1, OnItsWay, Zenon
  <2>3. deaf => Came > MaxAck
    BY <2>1, Zenon DEF AckInv, AckTypes, DeafIsMany
  <2> QED
    BY <2>2, <2>3, Zenon DEF AckUsable, Came
<1> QED
  BY <1>1, AckInvariant, PTL

\* With nothing waiting and nothing on its way, FlushACKs and HandleACK have acknowledged exactly
\* the numbers that came, unless the peer refused a message.
THEOREM EverythingAcknowledged == ExchangeSpec => []AllAcknowledged
<1>1. AckInv => AllAcknowledged
  <2> SUFFICES ASSUME AckInv PROVE AllAcknowledged
    OBVIOUS
  <2>1. acknowledged \subseteq arrived /\ deaf \in BOOLEAN
    BY Zenon DEF AckInv, AckTypes
  <2>2. ASSUME datagramsReceived = <<>>, acks = <<>>, ~deaf PROVE acknowledged = arrived
    <3>1. deaf = FALSE
      BY <2>1, <2>2, Zenon
    <3>2. ASSUME NEW n \in arrived PROVE n \in acknowledged
      <4>1. Covered(n)
        BY <3>1, Zenon DEF AckInv, AckCovered
      <4>2. ToSet(<<>>) = {} /\ \A i \in 1 .. Len(<<>>) : FALSE
        BY DEF ToSet
      <4> QED
        BY <2>2, <4>1, <4>2, Zenon DEF Covered
    <3> QED
      BY <2>1, <3>2, Zenon
  <2> QED
    BY <2>1, <2>2, Zenon DEF AllAcknowledged
<1> QED
  BY <1>1, AckInvariant, PTL

--------------------------------------------------------------------------------
(* Readings one after the other: the kinds of an element, the elements of a   *)
(* field, the fields of a layout.                                           *)

Item(level, c, i, r) ==
    CASE level = "kinds" -> Get(c[i], r)
      [] level = "elements" -> ReadElement(c, r)
      [] level = "fields" -> ReadField(c[i], r)
TurnOf(level, c, i, x) ==
    Then(x, LAMBDA v, r :
        Then(Item(level, c, i, r), LAMBDA w, rest : Done(Append(v, w), rest)))
Reads(f, level, c, n, s) ==
    f[0] = Done(<<>>, s) /\ \A i \in 1 .. n : f[i] = TurnOf(level, c, i, f[i - 1])

\* Such readings exist, however many there are.
LEMMA ReadsExist ==
    ASSUME NEW level, NEW c, NEW s, NEW n \in Nat
    PROVE  \E f : f = [i \in 0 .. n |-> f[i]] /\ Reads(f, level, c, n, s)
<1> DEFINE Is(f, k) == f = [i \in 0 .. k |-> f[i]] /\ Reads(f, level, c, k, s)
           S == {k \in Nat : \E f : Is(f, k)}
<1>1. 0 \in S
  <2> DEFINE f == [i \in 0 .. 0 |-> Done(<<>>, s)]
  <2>1. f = [i \in 0 .. 0 |-> f[i]] /\ f[0] = Done(<<>>, s)
    OBVIOUS
  <2> HIDE DEF f
  <2>2. Is(f, 0)
    BY <2>1 DEF Reads
  <2> QED
    BY <2>2
<1>2. ASSUME NEW k \in S PROVE k + 1 \in S
  <2>1. k \in Nat
    OBVIOUS
  <2>2. PICK f : Is(f, k)
    OBVIOUS
  <2> DEFINE x == TurnOf(level, c, k + 1, f[k])
             g == [i \in 0 .. k + 1 |-> IF i <= k THEN f[i] ELSE x]
  <2>3. f[0] = Done(<<>>, s) /\ \A i \in 1 .. k : f[i] = TurnOf(level, c, i, f[i - 1])
    BY <2>2 DEF Reads
  <2>4. g[0] = f[0] /\ g = [i \in 0 .. k + 1 |-> g[i]]
    BY <2>1
  <2>5. ASSUME NEW i \in 1 .. k + 1 PROVE g[i] = TurnOf(level, c, i, g[i - 1])
    <3>1. CASE i <= k
      <4>1. i \in 1 .. k /\ g[i] = f[i] /\ g[i - 1] = f[i - 1]
        BY <2>1, <3>1
      <4> HIDE DEF g
      <4> QED
        BY <2>3, <4>1
    <3>2. CASE i = k + 1
      <4>1. g[i] = x /\ i - 1 = k /\ g[i - 1] = f[k]
        BY <2>1, <3>2
      <4> HIDE DEF g
      <4> QED
        BY <3>2, <4>1
    <3> QED
      BY <2>1, <3>1, <3>2
  <2> HIDE DEF g
  <2>6. Is(g, k + 1)
    BY <2>3, <2>4, <2>5 DEF Reads
  <2> QED
    BY <2>1, <2>6
<1> HIDE DEF S
<1>3. S = Nat
  <2>1. S \subseteq Nat
    BY DEF S
  <2> QED
    BY <1>1, <1>2, <2>1, Induction
<1> QED
  BY <1>3 DEF S

\* InTurn chooses a function like that.
IsInTurn(f, level, c, n, s) ==
    f = [i \in 0 .. n |-> IF i = 0 THEN Done(<<>>, s) ELSE TurnOf(level, c, i, f[i - 1])]

\* The same readings, as InTurn has them.
LEMMA InTurnReads ==
    ASSUME NEW level, NEW c, NEW s, NEW n \in Nat
    PROVE  /\ \E f : IsInTurn(f, level, c, n, s)
           /\ \A f : IsInTurn(f, level, c, n, s) => Reads(f, level, c, n, s)
<1>1. PICK f : f = [i \in 0 .. n |-> f[i]] /\ Reads(f, level, c, n, s)
  BY ReadsExist
<1>2. IsInTurn(f, level, c, n, s)
  <2>1. ASSUME NEW i \in 0 .. n
        PROVE  f[i] = IF i = 0 THEN Done(<<>>, s) ELSE TurnOf(level, c, i, f[i - 1])
    <3>1. i # 0 => i \in 1 .. n
      OBVIOUS
    <3> QED
      BY <1>1, <3>1, Zenon DEF Reads
  <2> QED
    BY <1>1, <2>1, Zenon DEF IsInTurn
<1>3. ASSUME NEW g, IsInTurn(g, level, c, n, s) PROVE Reads(g, level, c, n, s)
  <2>1. g = [i \in 0 .. n |-> IF i = 0 THEN Done(<<>>, s) ELSE TurnOf(level, c, i, g[i - 1])]
    BY <1>3 DEF IsInTurn
  <2>2. 0 \in 0 .. n /\ \A i \in 1 .. n : i \in 0 .. n /\ i # 0
    OBVIOUS
  <2> QED
    BY <2>1, <2>2, Zenon DEF Reads
<1> QED
  BY <1>2, <1>3

\* The next kind of an element.
NextKind(c, i, x) ==
    Then(x, LAMBDA v, r : Then(Get(c[i], r), LAMBDA w, rest : Done(Append(v, w), rest)))

\* It is one turn.
LEMMA KindTurn ==
    ASSUME NEW c, NEW i, NEW x
    PROVE  TurnOf("kinds", c, i, x) = NextKind(c, i, x)
<1>1. Item("kinds", c, i, x.rest) = Get(c[i], x.rest)
  BY DEF Item
<1> DEFINE y == Get(c[i], x.rest)
           z == Then(y, LAMBDA w, rest : Done(Append(x.value, w), rest))
<1>2. NextKind(c, i, x) = IF x.error # "" THEN x ELSE z
  BY Zenon DEF NextKind, Then
<1>3. TurnOf("kinds", c, i, x) = IF x.error # "" THEN x ELSE z
  BY <1>1, Zenon DEF TurnOf, Then
<1> QED
  BY <1>2, <1>3, Zenon

\* An element is read kind by kind.
LEMMA ElementReads ==
    ASSUME NEW kinds, NEW s, Len(kinds) \in Nat
    PROVE  \E f : Reads(f, "kinds", kinds, Len(kinds), s) /\ ReadElement(kinds, s) = f[Len(kinds)]
<1> DEFINE n == Len(kinds)
           P(f) == f = [i \in 0 .. n |-> IF i = 0 THEN Done(<<>>, s) ELSE
                          Then(f[i - 1], LAMBDA v, r :
                             Then(Get(kinds[i], r), LAMBDA w, rest : Done(Append(v, w), rest)))]
           h == CHOOSE f : P(f)
<1>1. ReadElement(kinds, s) = h[n]
  BY DEF ReadElement, InTurn
<1>2. ASSUME NEW f PROVE P(f) <=> IsInTurn(f, "kinds", kinds, n, s)
  <2> DEFINE a(i) == IF i = 0 THEN Done(<<>>, s) ELSE
                        Then(f[i - 1], LAMBDA v, r :
                           Then(Get(kinds[i], r), LAMBDA w, rest : Done(Append(v, w), rest)))
             b(i) == IF i = 0 THEN Done(<<>>, s) ELSE TurnOf("kinds", kinds, i, f[i - 1])
  <2>1. ASSUME NEW i PROVE a(i) = b(i)
    <3>1. TurnOf("kinds", kinds, i, f[i - 1]) = NextKind(kinds, i, f[i - 1])
      BY KindTurn, Zenon
    <3> QED
      BY <3>1, Zenon DEF NextKind
  <2>2. P(f) <=> f = [i \in 0 .. n |-> a(i)]
    OBVIOUS
  <2>3. IsInTurn(f, "kinds", kinds, n, s) <=> f = [i \in 0 .. n |-> b(i)]
    BY DEF IsInTurn
  <2> HIDE DEF a, b, P
  <2> QED
    BY <2>1, <2>2, <2>3
<1> HIDE DEF P
<1>3. P(h)
  BY <1>2, InTurnReads
<1> HIDE DEF h
<1> QED
  BY <1>1, <1>2, <1>3, InTurnReads

\* The next element of a field.
NextElement(c, i, x) ==
    Then(x, LAMBDA v, r : Then(ReadElement(c, r), LAMBDA w, rest : Done(Append(v, w), rest)))

\* Reading the next element of a field is one turn.
LEMMA ElementTurn ==
    ASSUME NEW c, NEW i, NEW x
    PROVE  TurnOf("elements", c, i, x) = NextElement(c, i, x)
<1>1. Item("elements", c, i, x.rest) = ReadElement(c, x.rest)
  BY DEF Item
<1> DEFINE y == ReadElement(c, x.rest)
           z == Then(y, LAMBDA w, rest : Done(Append(x.value, w), rest))
<1>2. NextElement(c, i, x) = IF x.error # "" THEN x ELSE z
  BY Zenon DEF NextElement, Then
<1>3. TurnOf("elements", c, i, x) = IF x.error # "" THEN x ELSE z
  BY <1>1, Zenon DEF TurnOf, Then
<1> QED
  BY <1>2, <1>3, Zenon

\* Elements are read one by one.
Elements(kinds, n, s) == InTurn(n, LAMBDA i, r : ReadElement(kinds, r), s)

\* So they are.
LEMMA ElementsRead ==
    ASSUME NEW kinds, NEW s, NEW n \in Nat
    PROVE  \E f : Reads(f, "elements", kinds, n, s) /\ Elements(kinds, n, s) = f[n]
<1> DEFINE P(f) == f = [i \in 0 .. n |-> IF i = 0 THEN Done(<<>>, s) ELSE
                          Then(f[i - 1], LAMBDA v, r :
                             Then(ReadElement(kinds, r), LAMBDA w, rest : Done(Append(v, w), rest)))]
           h == CHOOSE f : P(f)
<1>1. Elements(kinds, n, s) = h[n]
  BY DEF Elements, InTurn
<1>2. ASSUME NEW f PROVE P(f) <=> IsInTurn(f, "elements", kinds, n, s)
  <2> DEFINE a(i) == IF i = 0 THEN Done(<<>>, s) ELSE
                        Then(f[i - 1], LAMBDA v, r :
                           Then(ReadElement(kinds, r), LAMBDA w, rest : Done(Append(v, w), rest)))
             b(i) == IF i = 0 THEN Done(<<>>, s) ELSE TurnOf("elements", kinds, i, f[i - 1])
  <2>1. ASSUME NEW i PROVE a(i) = b(i)
    <3>1. TurnOf("elements", kinds, i, f[i - 1]) = NextElement(kinds, i, f[i - 1])
      BY ElementTurn, Zenon
    <3> QED
      BY <3>1, Zenon DEF NextElement
  <2>2. P(f) <=> f = [i \in 0 .. n |-> a(i)]
    OBVIOUS
  <2>3. IsInTurn(f, "elements", kinds, n, s) <=> f = [i \in 0 .. n |-> b(i)]
    BY DEF IsInTurn
  <2> HIDE DEF a, b, P
  <2> QED
    BY <2>1, <2>2, <2>3
<1> HIDE DEF P
<1>3. P(h)
  BY <1>2, InTurnReads
<1> HIDE DEF h
<1> QED
  BY <1>1, <1>2, <1>3, InTurnReads

\* The next field of a layout.
NextField(c, i, x) ==
    Then(x, LAMBDA v, r : Then(ReadField(c[i], r), LAMBDA w, rest : Done(Append(v, w), rest)))

\* Reading the next field of a layout is one turn.
LEMMA FieldTurn ==
    ASSUME NEW c, NEW i, NEW x
    PROVE  TurnOf("fields", c, i, x) = NextField(c, i, x)
<1>1. Item("fields", c, i, x.rest) = ReadField(c[i], x.rest)
  BY DEF Item
<1> DEFINE y == ReadField(c[i], x.rest)
           z == Then(y, LAMBDA w, rest : Done(Append(x.value, w), rest))
<1>2. NextField(c, i, x) = IF x.error # "" THEN x ELSE z
  BY Zenon DEF NextField, Then
<1>3. TurnOf("fields", c, i, x) = IF x.error # "" THEN x ELSE z
  BY <1>1, Zenon DEF TurnOf, Then
<1> QED
  BY <1>2, <1>3, Zenon

\* A layout is read field by field.
LEMMA LayoutReads ==
    ASSUME NEW layout, NEW s, Len(layout) \in Nat
    PROVE  \E f : Reads(f, "fields", layout, Len(layout), s) /\ Read(layout, s) = f[Len(layout)]
<1> DEFINE n == Len(layout)
           P(f) == f = [i \in 0 .. n |-> IF i = 0 THEN Done(<<>>, s) ELSE
                          Then(f[i - 1], LAMBDA v, r :
                             Then(ReadField(layout[i], r), LAMBDA w, rest : Done(Append(v, w), rest)))]
           h == CHOOSE f : P(f)
<1>1. Read(layout, s) = h[n]
  BY DEF Read, InTurn
<1>2. ASSUME NEW f PROVE P(f) <=> IsInTurn(f, "fields", layout, n, s)
  <2> DEFINE a(i) == IF i = 0 THEN Done(<<>>, s) ELSE
                        Then(f[i - 1], LAMBDA v, r :
                           Then(ReadField(layout[i], r), LAMBDA w, rest : Done(Append(v, w), rest)))
             b(i) == IF i = 0 THEN Done(<<>>, s) ELSE TurnOf("fields", layout, i, f[i - 1])
  <2>1. ASSUME NEW i PROVE a(i) = b(i)
    <3>1. TurnOf("fields", layout, i, f[i - 1]) = NextField(layout, i, f[i - 1])
      BY FieldTurn, Zenon
    <3> QED
      BY <3>1, Zenon DEF NextField
  <2>2. P(f) <=> f = [i \in 0 .. n |-> a(i)]
    OBVIOUS
  <2>3. IsInTurn(f, "fields", layout, n, s) <=> f = [i \in 0 .. n |-> b(i)]
    BY DEF IsInTurn
  <2> HIDE DEF a, b, P
  <2> QED
    BY <2>1, <2>2, <2>3
<1> HIDE DEF P
<1>3. P(h)
  BY <1>2, InTurnReads
<1> HIDE DEF h
<1> QED
  BY <1>1, <1>2, <1>3, InTurnReads

\* A reading that succeeds.
Works(x) == x.error = ""

\* What it gives.
LEMMA DoneIs ==
    \A v, r : Works(Done(v, r)) /\ Done(v, r).value = v /\ Done(v, r).rest = r
<1> SUFFICES ASSUME NEW v, NEW r
             PROVE  Works(Done(v, r)) /\ Done(v, r).value = v /\ Done(v, r).rest = r
  OBVIOUS
<1>1. PICK y : y = Done(v, r)
  OBVIOUS
<1>2. y.error = "" /\ y.value = v /\ y.rest = r
  BY <1>1, Zenon DEF Done
<1> QED
  BY <1>1, <1>2, Zenon DEF Works

\* A turn whose reading succeeds adds what was read; one after a failure does nothing.
LEMMA TurnGood ==
    ASSUME NEW level, NEW c, NEW i, NEW v, NEW r, NEW w, NEW rest,
           Item(level, c, i, r) = Done(w, rest)
    PROVE  TurnOf(level, c, i, Done(v, r)) = Done(Append(v, w), rest)
<1>1. PICK x : x = Done(v, r)
  OBVIOUS
<1>2. PICK y : y = Item(level, c, i, r) /\ y = Done(w, rest)
  OBVIOUS
<1>3. x.error = "" /\ x.value = v /\ x.rest = r
  BY <1>1, DoneIs, Zenon DEF Works
<1>4. y.error = "" /\ y.value = w /\ y.rest = rest
  <2>1. Works(Done(w, rest)) /\ Done(w, rest).value = w /\ Done(w, rest).rest = rest
    BY DoneIs, Zenon
  <2> QED
    BY <1>2, <2>1, Zenon DEF Works
<1>5. TurnOf(level, c, i, x) = Then(y, LAMBDA w1, rest1 : Done(Append(v, w1), rest1))
  BY <1>2, <1>3, Zenon DEF TurnOf, Then
<1>6. TurnOf(level, c, i, x) = Done(Append(v, w), rest)
  BY <1>4, <1>5, Zenon DEF Then
<1> QED
  BY <1>1, <1>6

\* A reading that fails ends the readings.
LEMMA TurnBad ==
    ASSUME NEW level, NEW c, NEW i, NEW x
    PROVE  /\ ~Works(x) => TurnOf(level, c, i, x) = x
           /\ Works(x) =>
                 /\ Works(Item(level, c, i, x.rest)) =>
                       TurnOf(level, c, i, x) = Done(Append(x.value, Item(level, c, i, x.rest).value),
                                                     Item(level, c, i, x.rest).rest)
                 /\ ~Works(Item(level, c, i, x.rest)) =>
                       TurnOf(level, c, i, x) = Item(level, c, i, x.rest)
  BY Zenon DEF TurnOf, Then, Works

\* Parts that are each read as a value, whatever follows.
AreParts(V, level, c, m, parts, v) ==
    /\ parts \in Seq(Seq(Nat)) /\ Len(parts) = m /\ v \in Seq(V) /\ Len(v) = m
    /\ \A i \in 1 .. m : \A u \in Seq(Nat) : Item(level, c, i, parts[i] \o u) = Done(v[i], u)

\* One after the other they are read as the values, with nothing of what follows them.
LEMMA PartsRead ==
    \A V, level, c, parts, v, f : \A n \in Nat : \A m \in 0 .. n : \A t \in Seq(Nat) :
        AreParts(V, level, c, m, parts, v) /\ Reads(f, level, c, n, FlattenSeq(parts) \o t)
           => f[m] = Done(v, t)
<1> SUFFICES ASSUME NEW V, NEW level, NEW c, NEW parts, NEW v, NEW f, NEW n \in Nat,
                    NEW m \in 0 .. n, NEW t \in Seq(Nat), AreParts(V, level, c, m, parts, v),
                    Reads(f, level, c, n, FlattenSeq(parts) \o t)
             PROVE  f[m] = Done(v, t)
  OBVIOUS
<1>p. parts \in Seq(Seq(Nat)) /\ Len(parts) = m /\ v \in Seq(V) /\ Len(v) = m
  BY DEF AreParts
<1>i. \A i \in 1 .. m : \A u \in Seq(Nat) : Item(level, c, i, parts[i] \o u) = Done(v[i], u)
  BY DEF AreParts
<1> USE <1>p
<1> DEFINE From(i) == SubSeq(parts, i + 1, m)
           So(i) == Done(SubSeq(v, 1, i), FlattenSeq(From(i)) \o t)
           S == {i \in Nat : i <= m => f[i] = So(i)}
<1>0. m \in Nat /\ m <= n /\ f[0] = Done(<<>>, FlattenSeq(parts) \o t)
      /\ \A i \in 1 .. m : f[i] = TurnOf(level, c, i, f[i - 1])
  <2>1. m \in Nat /\ m <= n /\ \A i \in 1 .. m : i \in 1 .. n
    OBVIOUS
  <2> QED
    BY <2>1, Zenon DEF Reads
<1>1. So(0) = Done(<<>>, FlattenSeq(parts) \o t)
  <2>1. SubSeq(v, 1, 0) = <<>> /\ SubSeq(parts, 0 + 1, m) = parts
    OBVIOUS
  <2> QED
    BY <2>1
<1>2. So(m) = Done(v, t)
  <2>1. SubSeq(v, 1, m) = v /\ SubSeq(parts, m + 1, m) = <<>>
    BY <1>0
  <2>2. <<>> \o t = t
    OBVIOUS
  <2> QED
    BY <2>1, <2>2, FlattenEmpty
<1>3. ASSUME NEW i \in Nat, i < m PROVE TurnOf(level, c, i + 1, So(i)) = So(i + 1)
  <2>1. i + 1 \in 1 .. Len(parts) /\ i + 1 \in 1 .. Len(v) /\ i + 1 \in 1 .. m
    BY <1>0, <1>3
  <2>2. /\ From(i) \in Seq(Seq(Nat)) /\ From(i) # <<>> /\ Head(From(i)) = parts[i + 1]
        /\ Tail(From(i)) = From(i + 1) /\ From(i + 1) \in Seq(Seq(Nat))
    <3>1. PICK j \in 1 .. Len(parts) : j = i + 1
      BY <2>1
    <3>2. /\ SubSeq(parts, j, Len(parts)) \in Seq(Seq(Nat)) /\ SubSeq(parts, j, Len(parts)) # <<>>
          /\ Head(SubSeq(parts, j, Len(parts))) = parts[j]
          /\ Tail(SubSeq(parts, j, Len(parts))) = SubSeq(parts, j + 1, Len(parts))
          /\ SubSeq(parts, j + 1, Len(parts)) \in Seq(Seq(Nat))
      BY FromIs, Zenon
    <3> QED
      BY <3>1, <3>2, Zenon
  <2>3. FlattenSeq(From(i)) = parts[i + 1] \o FlattenSeq(From(i + 1))
        /\ FlattenSeq(From(i + 1)) \in Seq(Nat)
    BY <2>2, FlattenHead, FlattenType
  <2>4. parts[i + 1] \in Seq(Nat)
    BY <2>1, ElementOfSeq
  <2> DEFINE r == FlattenSeq(From(i + 1)) \o t
  <2>5. r \in Seq(Nat) /\ FlattenSeq(From(i)) \o t = parts[i + 1] \o r
    <3>1. PICK u \in Seq(Nat), w \in Seq(Nat) : u = parts[i + 1] /\ w = FlattenSeq(From(i + 1))
      BY <2>3, <2>4
    <3>2. (u \o w) \o t = u \o (w \o t) /\ w \o t \in Seq(Nat)
      BY NatsAssociative, ConcatProperties
    <3> QED
      BY <2>3, <3>1, <3>2, Zenon
  <2>6. SubSeq(v, 1, i + 1) = Append(SubSeq(v, 1, i), v[i + 1])
    BY <2>1, OneMoreOf
  <2> HIDE DEF r
  <2>7. Item(level, c, i + 1, parts[i + 1] \o r) = Done(v[i + 1], r)
    BY <1>i, <2>1, <2>5
  <2>8. TurnOf(level, c, i + 1, Done(SubSeq(v, 1, i), parts[i + 1] \o r))
          = Done(Append(SubSeq(v, 1, i), v[i + 1]), r)
    BY <2>7, TurnGood
  <2> QED
    BY <2>5, <2>6, <2>8, Zenon DEF r
<1> HIDE DEF So, From
<1>4. 0 \in S
  BY <1>0, <1>1
<1>5. ASSUME NEW i \in S PROVE i + 1 \in S
  <2>1. i \in Nat /\ (i <= m => f[i] = So(i))
    OBVIOUS
  <2>2. ASSUME i + 1 <= m PROVE f[i + 1] = So(i + 1)
    <3>1. i < m /\ i <= m /\ i + 1 \in 1 .. m /\ (i + 1) - 1 = i
      BY <1>0, <2>1, <2>2
    <3>2. f[i + 1] = TurnOf(level, c, i + 1, f[i])
      BY <1>0, <3>1, Zenon
    <3> QED
      BY <1>3, <2>1, <3>1, <3>2, Zenon
  <2> QED
    BY <2>1, <2>2
<1> HIDE DEF S
<1>6. S = Nat
  <2>1. S \subseteq Nat
    BY DEF S
  <2> QED
    BY <1>4, <1>5, <2>1, Induction
<1>7. f[m] = So(m)
  BY <1>0, <1>6 DEF S
<1> QED
  BY <1>2, <1>7

\* Readings that succeed in the end, and what they have read after m turns.
GoesOn(V, level, c, s, f, n, m, v, t) ==
    /\ n \in Nat /\ m \in 0 .. n /\ v \in Seq(V)
    /\ Reads(f, level, c, n, s) /\ f[m] = Done(v, t) /\ Works(f[n])

\* They keep it.
LEMMA ReadOn ==
    \A V, level, c, s, f, n, m, v, t : GoesOn(V, level, c, s, f, n, m, v, t)
        => \A j \in 1 .. Len(v) : f[n].value[j] = v[j]
<1> SUFFICES ASSUME NEW V, NEW level, NEW c, NEW n \in Nat, NEW m \in 0 .. n, NEW s, NEW f,
                    Reads(f, level, c, n, s), NEW v \in Seq(V), NEW t, f[m] = Done(v, t), Works(f[n])
             PROVE  \A j \in 1 .. Len(v) : f[n].value[j] = v[j]
  BY DEF GoesOn
<1> DEFINE Good(i) == /\ \E W : f[i].value \in Seq(W)
                      /\ Len(v) <= Len(f[i].value)
                      /\ \A j \in 1 .. Len(v) : f[i].value[j] = v[j]
           S == {k \in Nat : m + k <= n /\ Works(f[m + k]) => Good(m + k)}
<1>1. 0 \in S
  <2>1. f[m].value = v
    BY DoneIs
  <2>2. Good(m)
    BY <2>1
  <2> QED
    BY <2>2
<1>2. ASSUME NEW k \in S PROVE k + 1 \in S
  <2>1. k \in Nat /\ (m + k <= n /\ Works(f[m + k]) => Good(m + k))
    OBVIOUS
  <2>2. ASSUME m + (k + 1) <= n, Works(f[m + (k + 1)]) PROVE Good(m + (k + 1))
    <3>1. PICK i \in 1 .. n : i = m + (k + 1) /\ i - 1 = m + k
      BY <2>1, <2>2
    <3>2. PICK x, y : x = f[i - 1] /\ y = Item(level, c, i, x.rest)
      OBVIOUS
    <3>3. f[i] = TurnOf(level, c, i, x)
      BY <3>2, Zenon DEF Reads
    <3>4. Works(x)
      BY <2>2, <3>1, <3>3, TurnBad
    <3>5. Works(y) /\ f[i] = Done(Append(x.value, y.value), y.rest)
      <4>1. ~Works(y) => TurnOf(level, c, i, x) = y
        BY <3>2, <3>4, TurnBad
      <4>2. Works(y) => TurnOf(level, c, i, x) = Done(Append(x.value, y.value), y.rest)
        BY <3>2, <3>4, TurnBad
      <4>3. Works(y)
        BY <2>2, <3>1, <3>3, <4>1
      <4> QED
        BY <3>3, <4>2, <4>3
    <3>6. f[i].value = Append(x.value, y.value)
      <4>1. Done(Append(x.value, y.value), y.rest).value = Append(x.value, y.value)
        BY DoneIs, Zenon
      <4> QED
        BY <3>5, <4>1, Zenon
    <3>7. Good(i - 1)
      BY <2>1, <2>2, <3>1, <3>2, <3>4
    <3>8. PICK W : x.value \in Seq(W)
      BY <3>2, <3>7
    <3> DEFINE U == W \cup {y.value}
    <3>9. x.value \in Seq(U) /\ y.value \in U
      BY <3>8
    <3> HIDE DEF U
    <3>10. /\ Append(x.value, y.value) \in Seq(U) /\ Len(Append(x.value, y.value)) = Len(x.value) + 1
           /\ \A j \in 1 .. Len(x.value) : Append(x.value, y.value)[j] = x.value[j]
      BY <3>9, AppendProperties
    <3>11. Len(v) <= Len(x.value) /\ \A j \in 1 .. Len(v) : x.value[j] = v[j]
      BY <3>2, <3>7
    <3>12. Len(x.value) \in Nat /\ Len(v) \in Nat
      BY <3>8
    <3>13. Good(i)
      BY <3>6, <3>10, <3>11, <3>12
    <3> QED
      BY <3>1, <3>13
  <2> QED
    BY <2>1, <2>2
<1> HIDE DEF S
<1>3. S = Nat
  <2>1. S \subseteq Nat
    BY DEF S
  <2> QED
    BY <1>1, <1>2, <2>1, Induction
<1>4. n - m \in Nat /\ m + (n - m) = n
  OBVIOUS
<1>5. PICK k \in Nat : m + k = n
  BY <1>4
<1> HIDE DEF Good
<1>6. Good(n)
  <2>1. k \in S /\ m + k <= n /\ Works(f[m + k])
    BY <1>3, <1>5
  <2>2. Good(m + k)
    <3> HIDE DEF Good
    <3> QED
      BY <2>1 DEF S
  <2> QED
    BY <1>5, <2>2
<1> QED
  BY <1>6 DEF Good

--------------------------------------------------------------------------------
(* What is read back as it was written, whatever follows it.                  *)

Octets == 0 .. 255

\* Bytes are numbers.
LEMMA BytesAreNumbers == \A s \in Seq(Octets) : s \in Seq(Nat)
<1> SUFFICES ASSUME NEW s \in Seq(Octets) PROVE s \in Seq(Nat)
  OBVIOUS
<1>1. \A i \in 1 .. Len(s) : s[i] \in Octets
  BY ElementOfSeq
<1>2. \A i \in 1 .. Len(s) : s[i] \in Nat
  <2>1. \A x \in Octets : x \in Nat
    BY DEF Octets
  <2> QED
    BY <1>1, <2>1, Zenon
<1>3. s = [i \in 1 .. Len(s) |-> s[i]] /\ Len(s) \in Nat
  OBVIOUS
<1> QED
  BY <1>2, <1>3

Passes(kind, v) ==
    /\ Put(kind, v) \in Seq(Octets)
    /\ \A t \in Seq(Nat) : Get(kind, Put(kind, v) \o t) = Done(v, t)
ElementPasses(kinds, e) ==
    /\ WriteElement(kinds, e) \in Seq(Octets)
    /\ \A t \in Seq(Nat) : ReadElement(kinds, WriteElement(kinds, e) \o t) = Done(e, t)
FieldPasses(field, v) ==
    /\ WriteField(field, v) \in Seq(Octets)
    /\ \A t \in Seq(Nat) : ReadField(field, WriteField(field, v) \o t) = Done(v, t)

\* A number of fixed width, its highest byte first.
Fixed == {"U8", "U16BE", "I16BE", "U64BE"}

\* It passes.
LEMMA FixedPasses ==
    ASSUME NEW kind \in Fixed, NEW v \in Seq(Octets), Len(v) = Width(kind)
    PROVE  Passes(kind, v)
<1>1. Put(kind, v) = v
  BY DEF Fixed, Put, BigEndian, LittleEndian
<1>2. ASSUME NEW t \in Seq(Nat) PROVE Get(kind, v \o t) = Done(v, t)
  <2>1. Get(kind, v \o t) = Take(Width(kind), v \o t)
    BY DEF Fixed, Get, BigEndian, LittleEndian, ReadFixed
  <2> QED
    BY <2>1, TakeFirst, BytesAreNumbers
<1> QED
  BY <1>1, <1>2 DEF Passes

\* A flag, as the writer has it.
LEMMA FlagPasses ==
    ASSUME NEW v \in {Byte(0), Byte(1)}
    PROVE  Passes("IsOne", v)
<1>1. v \in Seq(Octets) /\ v \in Seq(Nat) /\ Len(v) = 1 /\ (v = <<0>> \/ v = <<1>>) /\ <<0>> # <<1>>
  <2>1. /\ <<0>> \in Seq(Octets) /\ <<1>> \in Seq(Octets)
        /\ <<0>> \in Seq(Nat) /\ Len(<<0>>) = 1 /\ <<1>> \in Seq(Nat) /\ Len(<<1>>) = 1
        /\ <<0>> # <<1>>
    BY DEF Octets
  <2>2. v = <<0>> \/ v = <<1>>
    BY DEF Byte
  <2> QED
    BY <2>1, <2>2, Zenon
<1>2. Put("IsOne", v) = v
  BY DEF Put, BigEndian, LittleEndian
<1>3. ASSUME NEW t \in Seq(Nat) PROVE Get("IsOne", v \o t) = Done(v, t)
  <2>1. Take(1, v \o t) = Done(v, t)
    BY <1>1, TakeFirst
  <2>2. Get("IsOne", v \o t) = Map(Take(1, v \o t), LAMBDA b : IF b = <<1>> THEN b ELSE <<0>>)
    BY DEF Get, BigEndian, LittleEndian
  <2>3. PICK y : y = Done(v, t)
    OBVIOUS
  <2>4. Works(y) /\ y.value = v /\ y.rest = t
    BY <2>3, DoneIs
  <2>5. Map(y, LAMBDA b : IF b = <<1>> THEN b ELSE <<0>>) = Done(IF v = <<1>> THEN v ELSE <<0>>, t)
    BY <2>4, Zenon DEF Map, Works
  <2> QED
    BY <1>1, <2>1, <2>2, <2>3, <2>5, Zenon
<1> QED
  BY <1>1, <1>2, <1>3 DEF Passes

\* Two and four of the bytes of a sequence.
LEMMA TwoOf ==
    ASSUME NEW s \in Seq(Nat), NEW k \in Nat, k + 2 <= Len(s)
    PROVE  SubSeq(s, k + 1, k + 2) = <<s[k + 1], s[k + 2]>>
<1> DEFINE u == SubSeq(s, k + 1, k + 2)
           w == <<s[k + 1], s[k + 2]>>
<1>1. k + 1 \in 1 .. Len(s) /\ k + 2 \in 1 .. Len(s)
  OBVIOUS
<1>2. u \in Seq(Nat) /\ Len(u) = 2 /\ \A i \in 1 .. 2 : u[i] = s[k + 1 + i - 1]
  BY <1>1, SubSeqProperties
<1>3. w \in Seq(Nat) /\ Len(w) = 2 /\ w[1] = s[k + 1] /\ w[2] = s[k + 2]
  BY <1>1
<1>4. ASSUME NEW i \in 1 .. 2 PROVE u[i] = w[i]
  <2>1. i = 1 \/ i = 2
    OBVIOUS
  <2>2. k + 1 + 1 - 1 = k + 1 /\ k + 1 + 2 - 1 = k + 2
    OBVIOUS
  <2> HIDE DEF u, w
  <2> QED
    BY <1>2, <1>3, <2>1, <2>2
<1> HIDE DEF u, w
<1>5. u = w
  BY <1>2, <1>3, <1>4, SeqEqual
<1> QED
  BY <1>5 DEF u, w

\* The same of four.
LEMMA FourOf ==
    ASSUME NEW s \in Seq(Nat), NEW k \in Nat, k + 4 <= Len(s)
    PROVE  SubSeq(s, k + 1, k + 4) = <<s[k + 1], s[k + 2], s[k + 3], s[k + 4]>>
<1> DEFINE u == SubSeq(s, k + 1, k + 4)
           w == <<s[k + 1], s[k + 2], s[k + 3], s[k + 4]>>
<1>1. /\ k + 1 \in 1 .. Len(s) /\ k + 2 \in 1 .. Len(s) /\ k + 3 \in 1 .. Len(s)
      /\ k + 4 \in 1 .. Len(s)
  OBVIOUS
<1>2. u \in Seq(Nat) /\ Len(u) = 4 /\ \A i \in 1 .. 4 : u[i] = s[k + 1 + i - 1]
  BY <1>1, SubSeqProperties
<1>3. w \in Seq(Nat) /\ Len(w) = 4 /\ w[1] = s[k + 1] /\ w[2] = s[k + 2] /\ w[3] = s[k + 3]
      /\ w[4] = s[k + 4]
  BY <1>1
<1>4. ASSUME NEW i \in 1 .. 4 PROVE u[i] = w[i]
  <2>1. i = 1 \/ i = 2 \/ i = 3 \/ i = 4
    OBVIOUS
  <2>2. /\ k + 1 + 1 - 1 = k + 1 /\ k + 1 + 2 - 1 = k + 2
        /\ k + 1 + 3 - 1 = k + 3 /\ k + 1 + 4 - 1 = k + 4
    OBVIOUS
  <2> HIDE DEF u, w
  <2> QED
    BY <1>2, <1>3, <2>1, <2>2
<1> HIDE DEF u, w
<1>5. u = w
  BY <1>2, <1>3, <1>4, SeqEqual
<1> QED
  BY <1>5 DEF u, w

\* The bytes of an address of version 4 on the wire, after the first: four of them
\* are complemented.
Turned(a) == <<255 - a[2], 255 - a[3], 255 - a[4], 255 - a[5], a[6], a[7]>>

\* What they are.
LEMMA FourthVersion ==
    ASSUME NEW a, IsAddress(a), Head(a) = 4
    PROVE  /\ a \in Seq(Nat) /\ Len(a) = 7
           /\ a = <<4, a[2], a[3], a[4], a[5], a[6], a[7]>>
           /\ \A i \in 1 .. 7 : a[i] \in 0 .. 255
           /\ Turned(a) \in Seq(Nat) /\ Turned(a) \in Seq(Octets) /\ Len(Turned(a)) = 6
           /\ WriteAddress(a) = << 4 >> \o Turned(a)
<1>1. a \in Seq(0 .. 255) /\ Len(a) = 7 /\ a[1] = 4
  BY DEF IsAddress
<1>2. \A i \in 1 .. 7 : a[i] \in 0 .. 255
  BY <1>1, ElementOfSeq
<1>3. a \in Seq(Nat)
  BY <1>1, BytesAreNumbers DEF Octets
<1>4. /\ a[2] \in 0 .. 255 /\ a[3] \in 0 .. 255 /\ a[4] \in 0 .. 255 /\ a[5] \in 0 .. 255
      /\ a[6] \in 0 .. 255 /\ a[7] \in 0 .. 255
  BY <1>2
<1>5. a = <<4, a[2], a[3], a[4], a[5], a[6], a[7]>>
  BY <1>1
<1>6. Turned(a) \in Seq(Octets) /\ Turned(a) \in Seq(Nat) /\ Len(Turned(a)) = 6
  <2>1. \A x \in 0 .. 255 : x \in Octets /\ 255 - x \in Octets
    BY DEF Octets
  <2>2. /\ 255 - a[2] \in Octets /\ 255 - a[3] \in Octets /\ 255 - a[4] \in Octets
        /\ 255 - a[5] \in Octets /\ a[6] \in Octets /\ a[7] \in Octets
    <3>1. 255 - a[2] \in Octets /\ 255 - a[3] \in Octets
      BY <1>4, <2>1
    <3>2. 255 - a[4] \in Octets /\ 255 - a[5] \in Octets
      BY <1>4, <2>1
    <3>3. a[6] \in Octets /\ a[7] \in Octets
      BY <1>4, <2>1
    <3> QED
      BY <3>1, <3>2, <3>3
  <2>3. Turned(a) \in Seq(Octets) /\ Len(Turned(a)) = 6
    BY <2>2 DEF Turned
  <2> QED
    BY <2>3, BytesAreNumbers
<1>7. WriteAddress(a) = <<4>> \o Turned(a)
  <2>1. SubSeq(a, 2, 5) = <<a[2], a[3], a[4], a[5]>>
    <3>1. PICK k \in Nat : k = 1 /\ k + 1 = 2 /\ k + 2 = 3 /\ k + 3 = 4 /\ k + 4 = 5
      OBVIOUS
    <3>2. k + 4 <= Len(a)
      BY <1>1, <3>1
    <3>3. SubSeq(a, k + 1, k + 4) = <<a[k + 1], a[k + 2], a[k + 3], a[k + 4]>>
      BY <1>3, <3>2, FourOf, Zenon
    <3> QED
      BY <3>1, <3>3, Zenon
  <2>2. SubSeq(a, 6, 7) = <<a[6], a[7]>>
    <3>1. PICK k \in Nat : k = 5 /\ k + 1 = 6 /\ k + 2 = 7
      OBVIOUS
    <3>2. k + 2 <= Len(a)
      BY <1>1, <3>1
    <3>3. SubSeq(a, k + 1, k + 2) = <<a[k + 1], a[k + 2]>>
      BY <1>3, <3>2, TwoOf, Zenon
    <3> QED
      BY <3>1, <3>3, Zenon
  <2>4. Complement(<<a[2], a[3], a[4], a[5]>>) = <<255 - a[2], 255 - a[3], 255 - a[4], 255 - a[5]>>
    BY DEF Complement
  <2>5. (<<4>> \o <<255 - a[2], 255 - a[3], 255 - a[4], 255 - a[5]>>) \o <<a[6], a[7]>> = <<4>> \o Turned(a)
    BY <1>4 DEF Turned
  <2>6. WriteAddress(a) = (<<4>> \o Complement(SubSeq(a, 2, 5))) \o SubSeq(a, 6, 7)
    BY DEF WriteAddress
  <2>7. Complement(SubSeq(a, 2, 5)) = <<255 - a[2], 255 - a[3], 255 - a[4], 255 - a[5]>>
    BY <2>1, <2>4
  <2> QED
    BY <2>2, <2>5, <2>6, <2>7
<1> QED
  BY <1>1, <1>2, <1>3, <1>5, <1>6, <1>7

\* A byte, four bytes and two.
LEMMA FourAndTwo ==
    \A u, v, w, x, y, z \in Nat : (<< 4 >> \o <<u, v, w, x>>) \o <<y, z>> = <<4, u, v, w, x, y, z>>
<1> SUFFICES ASSUME NEW u \in Nat, NEW v \in Nat, NEW w \in Nat, NEW x \in Nat, NEW y \in Nat, NEW z \in Nat
             PROVE  (<<4>> \o <<u, v, w, x>>) \o <<y, z>> = <<4, u, v, w, x, y, z>>
  OBVIOUS
<1> DEFINE a == <<4>>
           b == <<u, v, w, x>>
           c == <<y, z>>
           d == <<4, u, v, w, x, y, z>>
<1>1. a \in Seq(Nat) /\ b \in Seq(Nat) /\ c \in Seq(Nat) /\ d \in Seq(Nat)
  OBVIOUS
<1>2. Len(a) = 1 /\ Len(b) = 4 /\ Len(c) = 2 /\ Len(d) = 7 /\ a[1] = 4
  OBVIOUS
<1>3. b[1] = u /\ b[2] = v /\ b[3] = w /\ b[4] = x /\ c[1] = y /\ c[2] = z
  OBVIOUS
<1>4. d[1] = 4 /\ d[2] = u /\ d[3] = v /\ d[4] = w /\ d[5] = x /\ d[6] = y /\ d[7] = z
  OBVIOUS
<1> HIDE DEF a, b, c, d
<1>5. /\ a \o b \in Seq(Nat) /\ Len(a \o b) = 5 /\ (a \o b)[1] = 4
      /\ (a \o b)[2] = u /\ (a \o b)[3] = v /\ (a \o b)[4] = w /\ (a \o b)[5] = x
  <2>1. /\ a \o b \in Seq(Nat) /\ Len(a \o b) = Len(a) + Len(b)
        /\ \A i \in 1 .. Len(a) : (a \o b)[i] = a[i]
        /\ \A i \in 1 .. Len(b) : (a \o b)[Len(a) + i] = b[i]
    BY <1>1, ConcatProperties
  <2>2. ASSUME NEW j \in 2 .. 5 PROVE (a \o b)[j] = b[j - 1]
    <3>1. j - 1 \in 1 .. Len(b) /\ Len(a) + (j - 1) = j
      BY <1>2
    <3> QED
      BY <2>1, <3>1, Zenon
  <2>3. (a \o b)[2] = b[1] /\ (a \o b)[3] = b[2] /\ (a \o b)[4] = b[3] /\ (a \o b)[5] = b[4]
    <3>1. /\ 2 \in 2 .. 5 /\ 3 \in 2 .. 5 /\ 4 \in 2 .. 5 /\ 5 \in 2 .. 5
          /\ 2 - 1 = 1 /\ 3 - 1 = 2 /\ 4 - 1 = 3 /\ 5 - 1 = 4
      OBVIOUS
    <3> QED
      BY <2>2, <3>1, Zenon
  <2>4. Len(a) + Len(b) = 5 /\ 1 \in 1 .. Len(a)
    BY <1>2
  <2>5. Len(a \o b) = 5 /\ (a \o b)[1] = 4
    BY <1>2, <2>1, <2>4, Zenon
  <2>6. /\ (a \o b)[2] = u /\ (a \o b)[3] = v /\ (a \o b)[4] = w /\ (a \o b)[5] = x
    BY <1>3, <2>3, Zenon
  <2> QED
    BY <2>1, <2>5, <2>6, Zenon
<1>6. PICK e \in Seq(Nat) : e = a \o b
  BY <1>5
<1>7. /\ e \o c \in Seq(Nat) /\ Len(e \o c) = 7 /\ (e \o c)[1] = 4 /\ (e \o c)[2] = u
      /\ (e \o c)[3] = v /\ (e \o c)[4] = w /\ (e \o c)[5] = x /\ (e \o c)[6] = y /\ (e \o c)[7] = z
  <2>1. Len(e) = 5 /\ e[1] = 4 /\ e[2] = u /\ e[3] = v /\ e[4] = w /\ e[5] = x
    BY <1>5, <1>6
  <2>2. /\ e \o c \in Seq(Nat) /\ Len(e \o c) = Len(e) + Len(c)
        /\ \A i \in 1 .. Len(e) : (e \o c)[i] = e[i]
        /\ \A i \in 1 .. Len(c) : (e \o c)[Len(e) + i] = c[i]
    BY <1>1, ConcatProperties
  <2>3. ASSUME NEW j \in 6 .. 7 PROVE (e \o c)[j] = c[j - 5]
    <3>1. j - 5 \in 1 .. Len(c) /\ Len(e) + (j - 5) = j
      BY <1>2, <2>1
    <3> QED
      BY <2>2, <3>1, Zenon
  <2>4. (e \o c)[6] = c[1] /\ (e \o c)[7] = c[2]
    <3>1. 6 \in 6 .. 7 /\ 7 \in 6 .. 7 /\ 6 - 5 = 1 /\ 7 - 5 = 2
      OBVIOUS
    <3> QED
      BY <2>3, <3>1, Zenon
  <2>5. /\ (e \o c)[1] = e[1] /\ (e \o c)[2] = e[2] /\ (e \o c)[3] = e[3]
        /\ (e \o c)[4] = e[4] /\ (e \o c)[5] = e[5]
    BY <2>1, <2>2
  <2> QED
    BY <1>2, <1>3, <2>1, <2>2, <2>4, <2>5
<1>8. ASSUME NEW i \in 1 .. 7 PROVE (e \o c)[i] = d[i]
  <2>1. i = 1 \/ i = 2 \/ i = 3 \/ i = 4 \/ i = 5 \/ i = 6 \/ i = 7
    OBVIOUS
  <2> QED
    BY <1>4, <1>7, <2>1
<1>9. e \o c = d
  BY <1>1, <1>2, <1>7, <1>8, SeqEqual
<1> QED
  BY <1>6, <1>9 DEF a, b, c, d

\* Complementing them again gives the address.
LEMMA TurnedBack ==
    ASSUME NEW a, IsAddress(a), Head(a) = 4
    PROVE  (<< 4 >> \o Complement(SubSeq(Turned(a), 1, 4))) \o SubSeq(Turned(a), 5, 6) = a
<1> DEFINE b == Turned(a)
<1>1. b \in Seq(Nat) /\ Len(b) = 6 /\ a = <<4, a[2], a[3], a[4], a[5], a[6], a[7]>>
  BY FourthVersion
<1>2. /\ a[2] \in 0 .. 255 /\ a[3] \in 0 .. 255 /\ a[4] \in 0 .. 255 /\ a[5] \in 0 .. 255
      /\ a[6] \in 0 .. 255 /\ a[7] \in 0 .. 255
  BY FourthVersion
<1>3. SubSeq(b, 1, 4) = <<b[1], b[2], b[3], b[4]>>
  <2>1. PICK k \in Nat : k = 0 /\ k + 1 = 1 /\ k + 2 = 2 /\ k + 3 = 3 /\ k + 4 = 4
    OBVIOUS
  <2> HIDE DEF b
  <2>2. k + 4 <= Len(b)
    BY <1>1, <2>1
  <2>3. SubSeq(b, k + 1, k + 4) = <<b[k + 1], b[k + 2], b[k + 3], b[k + 4]>>
    BY <1>1, <2>2, FourOf, Zenon
  <2> QED
    BY <2>1, <2>3, Zenon
<1>4. SubSeq(b, 5, 6) = <<b[5], b[6]>>
  <2>1. PICK k \in Nat : k = 4 /\ k + 1 = 5 /\ k + 2 = 6
    OBVIOUS
  <2> HIDE DEF b
  <2>2. k + 2 <= Len(b)
    BY <1>1, <2>1
  <2>3. SubSeq(b, k + 1, k + 2) = <<b[k + 1], b[k + 2]>>
    BY <1>1, <2>2, TwoOf, Zenon
  <2> QED
    BY <2>1, <2>3, Zenon
<1>6. /\ b[1] = 255 - a[2] /\ b[2] = 255 - a[3] /\ b[3] = 255 - a[4] /\ b[4] = 255 - a[5]
      /\ b[5] = a[6] /\ b[6] = a[7]
  BY DEF Turned
<1> HIDE DEF b
<1>7. Complement(<<b[1], b[2], b[3], b[4]>>) = <<255 - b[1], 255 - b[2], 255 - b[3], 255 - b[4]>>
  BY DEF Complement
<1>8. 255 - b[1] = a[2] /\ 255 - b[2] = a[3] /\ 255 - b[3] = a[4] /\ 255 - b[4] = a[5]
  <2>1. \A x \in 0 .. 255 : \A y : y = 255 - x => 255 - y = x
    OBVIOUS
  <2>2. b[1] = 255 - a[2] /\ b[2] = 255 - a[3] /\ b[3] = 255 - a[4] /\ b[4] = 255 - a[5]
    BY <1>6
  <2>3. 255 - b[1] = a[2] /\ 255 - b[2] = a[3]
    <3>1. a[2] \in 0 .. 255 /\ a[3] \in 0 .. 255
      BY <1>2
    <3> QED
      BY <2>1, <2>2, <3>1
  <2>4. 255 - b[3] = a[4] /\ 255 - b[4] = a[5]
    <3>1. a[4] \in 0 .. 255 /\ a[5] \in 0 .. 255
      BY <1>2
    <3> QED
      BY <2>1, <2>2, <3>1
  <2> QED
    BY <2>3, <2>4
<1>9. (<<4>> \o <<a[2], a[3], a[4], a[5]>>) \o <<a[6], a[7]>> = <<4, a[2], a[3], a[4], a[5], a[6], a[7]>>
  <2>1. PICK u, v, w, x, y, z : /\ u = a[2] /\ v = a[3] /\ w = a[4] /\ x = a[5] /\ y = a[6] /\ z = a[7]
    OBVIOUS
  <2>2. u \in Nat /\ v \in Nat /\ w \in Nat /\ x \in Nat /\ y \in Nat /\ z \in Nat
    <3>1. \A p \in 0 .. 255 : p \in Nat
      OBVIOUS
    <3> QED
      BY <1>2, <2>1, <3>1, Zenon
  <2>3. (<<4>> \o <<u, v, w, x>>) \o <<y, z>> = <<4, u, v, w, x, y, z>>
    BY <2>2, FourAndTwo
  <2> QED
    BY <2>1, <2>3, Zenon
<1>10. (<<4>> \o Complement(SubSeq(b, 1, 4))) \o SubSeq(b, 5, 6) = a
  BY <1>1, <1>3, <1>4, <1>6, <1>7, <1>8, <1>9, Zenon
<1> QED
  BY <1>10 DEF b

\* An address of version 4 passes.
LEMMA AddressPasses ==
    ASSUME NEW a, IsAddress(a), Head(a) = 4
    PROVE  Passes("Address", a)
<1>1. PICK b : b = Turned(a)
  OBVIOUS
<1>2. b \in Seq(Nat) /\ b \in Seq(Octets) /\ Len(b) = 6
  BY <1>1, FourthVersion
<1>3. Put("Address", a) = <<4>> \o b
  <2>1. Put("Address", a) = WriteAddress(a)
    BY DEF Put, BigEndian, LittleEndian
  <2> QED
    BY <1>1, <2>1, FourthVersion
<1>4. <<4>> \o b \in Seq(Octets)
  <2>1. <<4>> \in Seq(Octets)
    BY DEF Octets
  <2> QED
    BY <1>2, <2>1, ConcatProperties
<1>5. ASSUME NEW t \in Seq(Nat) PROVE Get("Address", (<<4>> \o b) \o t) = Done(a, t)
  <2>1. (<<4>> \o b) \o t = <<4>> \o (b \o t) /\ b \o t \in Seq(Nat)
    BY <1>2, Prefixed, ConcatProperties
  <2>2. Take(1, <<4>> \o (b \o t)) = Done(<<4>>, b \o t)
    BY <2>1, Prefixed
  <2>3. Take(6, b \o t) = Done(b, t)
    BY <1>2, TakeFirst
  <2>4. Get("Address", <<4>> \o (b \o t)) = ReadAddress(<<4>> \o (b \o t))
    BY DEF Get, BigEndian, LittleEndian
  <2>5. PICK x, y : x = Take(1, <<4>> \o (b \o t)) /\ y = Take(6, b \o t)
    OBVIOUS
  <2>6. Works(x) /\ x.value = <<4>> /\ x.rest = b \o t
    <3>1. x = Done(<<4>>, b \o t)
      BY <2>2, <2>5, Zenon
    <3> QED
      BY <3>1, DoneIs, Zenon
  <2>7. Works(y) /\ y.value = b /\ y.rest = t
    BY <2>3, <2>5, DoneIs
  <2>8. ReadAddress(<<4>> \o (b \o t)) =
          Map(y, LAMBDA c : (<<4>> \o Complement(SubSeq(c, 1, 4))) \o SubSeq(c, 5, 6))
    BY <2>5, <2>6, Zenon DEF ReadAddress, Then, Works
  <2>9. ReadAddress(<<4>> \o (b \o t)) = Done((<<4>> \o Complement(SubSeq(b, 1, 4))) \o SubSeq(b, 5, 6), t)
    BY <2>7, <2>8, Zenon DEF Map, Works
  <2>10. (<<4>> \o Complement(SubSeq(b, 1, 4))) \o SubSeq(b, 5, 6) = a
    BY <1>1, TurnedBack
  <2> QED
    BY <2>1, <2>4, <2>9, <2>10, Zenon
<1> QED
  BY <1>3, <1>4, <1>5, Zenon DEF Passes

\* An element all of whose leaves pass.
LEMMA KindsPass ==
    ASSUME NEW V, NEW K, NEW kinds \in Seq(K), NEW e \in Seq(V), Len(e) = Len(kinds),
           \A j \in 1 .. Len(kinds) : Passes(kinds[j], e[j])
    PROVE  ElementPasses(kinds, e)
<1> DEFINE parts == [j \in DOMAIN kinds |-> Put(kinds[j], e[j])]
<1>0. PICK n \in Nat : n = Len(kinds)
  OBVIOUS
<1>1. DOMAIN kinds = 1 .. n /\ n \in 0 .. n
  BY <1>0
<1>2. /\ parts \in Seq(Seq(Octets)) /\ parts \in Seq(Seq(Nat)) /\ Len(parts) = n
      /\ \A j \in 1 .. n : parts[j] = Put(kinds[j], e[j])
  <2>1. \A j \in 1 .. n : Put(kinds[j], e[j]) \in Seq(Octets) /\ Put(kinds[j], e[j]) \in Seq(Nat)
    BY <1>0, BytesAreNumbers DEF Passes
  <2> QED
    BY <1>0, <1>1, <2>1
<1>3. WriteElement(kinds, e) = FlattenSeq(parts)
  BY DEF WriteElement
<1>4. FlattenSeq(parts) \in Seq(Octets)
  BY <1>2, FlattenType
<1> HIDE DEF parts
<1>5. ASSUME NEW t \in Seq(Nat) PROVE ReadElement(kinds, FlattenSeq(parts) \o t) = Done(e, t)
  <2>1. PICK f : /\ Reads(f, "kinds", kinds, n, FlattenSeq(parts) \o t)
                 /\ ReadElement(kinds, FlattenSeq(parts) \o t) = f[n]
    BY <1>0, ElementReads
  <2>2. \A i \in 1 .. n : \A u \in Seq(Nat) : Item("kinds", kinds, i, parts[i] \o u) = Done(e[i], u)
    <3>1. ASSUME NEW i \in 1 .. n, NEW u \in Seq(Nat)
          PROVE  Item("kinds", kinds, i, parts[i] \o u) = Done(e[i], u)
      <4>1. Item("kinds", kinds, i, parts[i] \o u) = Get(kinds[i], parts[i] \o u)
        BY DEF Item
      <4>2. Get(kinds[i], Put(kinds[i], e[i]) \o u) = Done(e[i], u)
        BY <1>0, <3>1 DEF Passes
      <4> QED
        BY <1>2, <4>1, <4>2
    <3> QED
      BY <3>1
  <2>3. Len(e) = n
    BY <1>0
  <2>4. f[n] = Done(e, t)
    <3>1. AreParts(V, "kinds", kinds, n, parts, e)
      BY <1>2, <2>2, <2>3, Zenon DEF AreParts
    <3> QED
      BY <1>1, <2>1, <3>1, PartsRead
  <2> QED
    BY <2>1, <2>4
<1> QED
  BY <1>3, <1>4, <1>5 DEF ElementPasses

--------------------------------------------------------------------------------
(* Fields and layouts.                                                      *)

\* What is read of a group, is read of its one element.
LEMMA GroupPasses ==
    ASSUME NEW kinds, NEW e, ElementPasses(kinds, e)
    PROVE  FieldPasses(Group(kinds), <<e>>)
<1> DEFINE field == Group(kinds)
           w == WriteElement(kinds, e)
<1>1. field.of = kinds /\ ~IsList(field)
  BY DEF Group, IsList
<1>2. w \in Seq(Octets) /\ w \in Seq(Nat)
  BY BytesAreNumbers DEF ElementPasses
<1>3. WriteField(field, <<e>>) = w
  <2>1. [i \in DOMAIN <<e>> |-> WriteElement(field.of, <<e>>[i])] = <<w>>
    BY <1>1
  <2>2. <<w>> \in Seq(Seq(Octets)) /\ <<w>> # <<>> /\ Head(<<w>>) = w /\ Tail(<<w>>) = <<>>
    BY <1>2
  <2> HIDE DEF w, field
  <2>3. FlattenSeq(<<w>>) = w \o <<>>
    BY <2>2, FlattenHead, FlattenEmpty
  <2>4. w \o <<>> = w /\ <<>> \o w = w
    BY <1>2
  <2>5. WriteField(field, <<e>>)
          = <<>> \o FlattenSeq([i \in DOMAIN <<e>> |-> WriteElement(field.of, <<e>>[i])])
    BY <1>1, Zenon DEF WriteField
  <2> QED
    BY <2>1, <2>3, <2>4, <2>5, Zenon
<1> HIDE DEF w, field
<1>4. ASSUME NEW t \in Seq(Nat) PROVE ReadField(field, w \o t) = Done(<<e>>, t)
  <2>1. ReadField(field, w \o t) = Elements(kinds, 1, w \o t)
    <3>1. ReadField(field, w \o t) = Elements(field.of, 1, w \o t)
      BY <1>1, Zenon DEF ReadField, Elements
    <3> QED
      BY <1>1, <3>1, Zenon
  <2>2. PICK f : Reads(f, "elements", kinds, 1, w \o t) /\ Elements(kinds, 1, w \o t) = f[1]
    BY ElementsRead
  <2>3. f[1] = TurnOf("elements", kinds, 1, Done(<<>>, w \o t))
    <3>1. 1 \in 1 .. 1 /\ 1 - 1 = 0
      OBVIOUS
    <3> QED
      BY <2>2, <3>1, Zenon DEF Reads
  <2>4. Item("elements", kinds, 1, w \o t) = Done(e, t)
    <3>1. Item("elements", kinds, 1, w \o t) = ReadElement(kinds, w \o t)
      BY DEF Item
    <3>2. ReadElement(kinds, w \o t) = Done(e, t)
      BY DEF ElementPasses, w
    <3> QED
      BY <3>1, <3>2
  <2>5. TurnOf("elements", kinds, 1, Done(<<>>, w \o t)) = Done(Append(<<>>, e), t)
    <3>1. PICK level, i, v, r : level = "elements" /\ i = 1 /\ v = <<>> /\ r = w \o t
      OBVIOUS
    <3>2. Item(level, kinds, i, r) = Done(e, t)
      BY <2>4, <3>1, Zenon
    <3>3. TurnOf(level, kinds, i, Done(v, r)) = Done(Append(v, e), t)
      BY <3>2, TurnGood
    <3> QED
      BY <3>1, <3>3, Zenon
  <2>6. Append(<<>>, e) = <<e>>
    OBVIOUS
  <2> QED
    BY <2>1, <2>2, <2>3, <2>5, <2>6, Zenon
<1>5. FieldPasses(field, <<e>>)
  BY <1>2, <1>3, <1>4, Zenon DEF FieldPasses
<1> QED
  BY <1>5 DEF field

\* A field of one kind.
LEMMA OnePasses ==
    ASSUME NEW kind, NEW v, Passes(kind, v)
    PROVE  FieldPasses(One(kind), Just(v))
<1>1. PICK V, K : V = {v} /\ v \in V /\ K = {kind} /\ kind \in K
  OBVIOUS
<1> DEFINE e == <<v>>
           kinds == <<kind>>
<1>2. One(kind) = Group(kinds) /\ Just(v) = <<e>>
  BY DEF One, Group, Just
<1>3. e \in Seq(V) /\ Len(e) = 1 /\ e[1] = v
  BY <1>1
<1>4. kinds \in Seq(K) /\ Len(kinds) = 1 /\ kinds[1] = kind
  BY <1>1
<1> HIDE DEF e, kinds
<1>5. \A j \in 1 .. Len(kinds) : Passes(kinds[j], e[j])
  <2>1. \A j \in 1 .. Len(kinds) : j = 1
    BY <1>4
  <2> QED
    BY <1>3, <1>4, <2>1, Zenon
<1>6. ElementPasses(kinds, e)
  BY <1>3, <1>4, <1>5, KindsPass
<1> QED
  BY <1>2, <1>6, GroupPasses

\* What a part of the fields is written as.
FieldsPass(layout, v, m) == \A i \in 1 .. m : FieldPasses(layout[i], v[i])
FieldsWritten(layout, v, n) ==
    Len(layout) = n /\ DOMAIN layout = 1 .. n
    /\ \A i \in 1 .. n : WriteField(layout[i], v[i]) \in Seq(Octets)
FirstFields(layout, v, m) == FlattenSeq([i \in 1 .. m |-> WriteField(layout[i], v[i])])

\* Fields that pass at the head of a message.
BeginsWell(V, layout, n, m, v, t) ==
    /\ n \in Nat /\ m \in 0 .. n /\ t \in Seq(Nat)
    /\ Len(layout) = n /\ v \in Seq(V) /\ Len(v) = m /\ FieldsPass(layout, v, m)

\* They are read as they were written.
LEMMA LayoutPasses ==
    \A V, layout, n, m, v, t : BeginsWell(V, layout, n, m, v, t) =>
       /\ FirstFields(layout, v, m) \in Seq(Octets)
       /\ \E f : /\ Reads(f, "fields", layout, n, FirstFields(layout, v, m) \o t)
                 /\ Read(layout, FirstFields(layout, v, m) \o t) = f[n]
                 /\ f[m] = Done(v, t)
<1> SUFFICES ASSUME NEW V, NEW layout, NEW v, NEW n \in Nat, NEW m \in 0 .. n, NEW t \in Seq(Nat),
                    Len(layout) = n, v \in Seq(V), Len(v) = m, FieldsPass(layout, v, m)
             PROVE  /\ FirstFields(layout, v, m) \in Seq(Octets)
                    /\ \E f : /\ Reads(f, "fields", layout, n, FirstFields(layout, v, m) \o t)
                              /\ Read(layout, FirstFields(layout, v, m) \o t) = f[n]
                              /\ f[m] = Done(v, t)
  BY DEF BeginsWell
<1>0. \A i \in 1 .. m : FieldPasses(layout[i], v[i])
  BY DEF FieldsPass
<1> DEFINE parts == [i \in 1 .. m |-> WriteField(layout[i], v[i])]
           s == FlattenSeq(parts) \o t
<1>1. /\ parts \in Seq(Seq(Octets)) /\ parts \in Seq(Seq(Nat)) /\ Len(parts) = m
      /\ \A i \in 1 .. m : parts[i] = WriteField(layout[i], v[i])
  <2>1. \A i \in 1 .. m : /\ WriteField(layout[i], v[i]) \in Seq(Octets)
                          /\ WriteField(layout[i], v[i]) \in Seq(Nat)
    BY <1>0, BytesAreNumbers DEF FieldPasses
  <2> QED
    BY <2>1
<1>2. FirstFields(layout, v, m) = FlattenSeq(parts)
  BY DEF FirstFields
<1> HIDE DEF parts
<1>3. FlattenSeq(parts) \in Seq(Octets)
  BY <1>1, FlattenType
<1>4. PICK f : Reads(f, "fields", layout, n, s) /\ Read(layout, s) = f[n]
  BY LayoutReads
<1>5. \A i \in 1 .. m : \A u \in Seq(Nat) : Item("fields", layout, i, parts[i] \o u) = Done(v[i], u)
  <2>1. ASSUME NEW i \in 1 .. m, NEW u \in Seq(Nat)
        PROVE  Item("fields", layout, i, parts[i] \o u) = Done(v[i], u)
    <3>1. Item("fields", layout, i, parts[i] \o u) = ReadField(layout[i], parts[i] \o u)
      BY DEF Item
    <3>2. ReadField(layout[i], WriteField(layout[i], v[i]) \o u) = Done(v[i], u)
      BY <1>0, <2>1 DEF FieldPasses
    <3> QED
      BY <1>1, <3>1, <3>2
  <2> QED
    BY <2>1
<1>6. AreParts(V, "fields", layout, m, parts, v)
  BY <1>1, <1>5, Zenon DEF AreParts
<1>7. f[m] = Done(v, t)
  BY <1>4, <1>6, PartsRead
<1> QED
  BY <1>2, <1>3, <1>4, <1>7

\* A message is the first of its fields and the others.
LEMMA WriteSplits ==
    \A layout, v : \A n \in Nat : \A m \in 0 .. n : FieldsWritten(layout, v, n) =>
       /\ Write(layout, v) \in Seq(Octets)
       /\ \E t \in Seq(Octets) : /\ Write(layout, v) = FirstFields(layout, v, m) \o t
                                 /\ m = n => t = <<>>
                                 /\ m < n => Len(t) >= Len(WriteField(layout[m + 1], v[m + 1]))
<1> SUFFICES ASSUME NEW layout, NEW v, NEW n \in Nat, NEW m \in 0 .. n, FieldsWritten(layout, v, n)
    PROVE  /\ Write(layout, v) \in Seq(Octets)
           /\ \E t \in Seq(Octets) : /\ Write(layout, v) = FirstFields(layout, v, m) \o t
                                     /\ m = n => t = <<>>
                                     /\ m < n => Len(t) >= Len(WriteField(layout[m + 1], v[m + 1]))
  OBVIOUS
<1>0. Len(layout) = n /\ DOMAIN layout = 1 .. n
      /\ \A i \in 1 .. n : WriteField(layout[i], v[i]) \in Seq(Octets)
  BY DEF FieldsWritten
<1> DEFINE all == [i \in 1 .. n |-> WriteField(layout[i], v[i])]
           a == [i \in 1 .. m |-> WriteField(layout[i], v[i])]
           b == [i \in 1 .. n - m |-> WriteField(layout[m + i], v[m + i])]
           t == FlattenSeq(b)
<1>1. all \in Seq(Seq(Octets)) /\ Len(all) = n
  BY <1>0
<1>2. a \in Seq(Seq(Octets)) /\ Len(a) = m
  BY <1>0
<1>3. b \in Seq(Seq(Octets)) /\ Len(b) = n - m /\ n - m \in Nat
  <2>1. \A i \in 1 .. n - m : m + i \in 1 .. n
    OBVIOUS
  <2>2. n - m \in Nat
    OBVIOUS
  <2> QED
    BY <1>0, <2>1, <2>2
<1>4. all = a \o b
  <2>1. /\ a \o b \in Seq(Seq(Octets)) /\ Len(a \o b) = n
        /\ \A i \in 1 .. Len(a) + Len(b) : (a \o b)[i] = IF i <= Len(a) THEN a[i] ELSE b[i - Len(a)]
    BY <1>2, <1>3, ConcatProperties
  <2>2. ASSUME NEW i \in 1 .. n PROVE (a \o b)[i] = all[i]
    <3>1. (a \o b)[i] = IF i <= m THEN a[i] ELSE b[i - m]
      BY <1>2, <1>3, <2>1
    <3>2. CASE i <= m
      <4>1. i \in 1 .. m
        BY <3>2
      <4>2. a[i] = all[i]
        BY <4>1
      <4> QED
        BY <3>1, <3>2, <4>2, Zenon
    <3>3. CASE ~(i <= m)
      <4>1. i - m \in 1 .. n - m /\ m + (i - m) = i
        BY <3>3
      <4>2. b[i - m] = all[i]
        BY <4>1
      <4> QED
        BY <3>1, <3>3, <4>2, Zenon
    <3> QED
      BY <3>2, <3>3
  <2> HIDE DEF all, a, b
  <2> QED
    BY <1>1, <2>1, <2>2, SeqEqual
<1>5. Write(layout, v) = FlattenSeq(all) /\ FirstFields(layout, v, m) = FlattenSeq(a)
  BY <1>0 DEF Write, FirstFields
<1>6. m < n => b # <<>> /\ Head(b) = WriteField(layout[m + 1], v[m + 1])
  <2>1. m < n => b[1] = WriteField(layout[m + 1], v[m + 1])
    OBVIOUS
  <2> HIDE DEF b
  <2>2. m < n => b # <<>> /\ Head(b) = b[1]
    BY <1>3
  <2> QED
    BY <2>1, <2>2
<1>7. m = n => b = <<>>
  BY <1>3
<1> HIDE DEF all, a, b, t
<1>8. FlattenSeq(all) = FlattenSeq(a) \o FlattenSeq(b)
  BY <1>2, <1>3, <1>4, FlattenConcat
<1>9. t \in Seq(Octets) /\ FlattenSeq(all) \in Seq(Octets)
  BY <1>1, <1>3, FlattenType DEF t
<1>10. ASSUME m < n PROVE Len(t) >= Len(WriteField(layout[m + 1], v[m + 1]))
  <2>1. t = Head(b) \o FlattenSeq(Tail(b))
    BY <1>3, <1>6, <1>10, FlattenHead DEF t
  <2>2. Tail(b) \in Seq(Seq(Octets))
    BY <1>3, <1>6, <1>10
  <2>3. FlattenSeq(Tail(b)) \in Seq(Octets)
    BY <2>2, FlattenType
  <2>4. Head(b) \in Seq(Octets)
    <3>1. m + 1 \in 1 .. n
      BY <1>10
    <3> QED
      BY <1>0, <1>6, <1>10, <3>1
  <2>5. Len(Head(b) \o FlattenSeq(Tail(b))) = Len(Head(b)) + Len(FlattenSeq(Tail(b)))
        /\ Len(Head(b)) \in Nat /\ Len(FlattenSeq(Tail(b))) \in Nat
    BY <2>3, <2>4, ConcatProperties
  <2> QED
    BY <1>6, <1>10, <2>1, <2>5
<1>11. m = n => t = <<>>
  BY <1>7, FlattenEmpty DEF t
<1>12. Write(layout, v) = FirstFields(layout, v, m) \o t
  BY <1>5, <1>8 DEF t
<1>13. Write(layout, v) \in Seq(Octets)
  BY <1>5, <1>9
<1> QED
  BY <1>9, <1>10, <1>11, <1>12, <1>13

--------------------------------------------------------------------------------
(* What is written, whether or not it is read back.                           *)

\* A group is written as its element.
LEMMA GroupWritten ==
    ASSUME NEW kinds, NEW e, WriteElement(kinds, e) \in Seq(Octets)
    PROVE  WriteField(Group(kinds), <<e>>) = WriteElement(kinds, e)
<1> DEFINE field == Group(kinds)
           w == WriteElement(kinds, e)
<1>1. field.of = kinds /\ ~IsList(field)
  BY DEF Group, IsList
<1>2. [i \in DOMAIN <<e>> |-> WriteElement(field.of, <<e>>[i])] = <<w>>
  BY <1>1
<1>3. <<w>> \in Seq(Seq(Octets)) /\ <<w>> # <<>> /\ Head(<<w>>) = w /\ Tail(<<w>>) = <<>>
  OBVIOUS
<1> HIDE DEF w, field
<1>4. FlattenSeq(<<w>>) = w \o <<>>
  BY <1>3, FlattenHead, FlattenEmpty
<1>5. w \o <<>> = w /\ <<>> \o w = w
  BY DEF w
<1>6. WriteField(field, <<e>>) = <<>> \o FlattenSeq([i \in DOMAIN <<e>> |-> WriteElement(field.of, <<e>>[i])])
  BY <1>1, Zenon DEF WriteField
<1>7. WriteField(field, <<e>>) = w
  BY <1>2, <1>4, <1>5, <1>6, Zenon
<1> QED
  BY <1>7 DEF field, w

\* An element is written as its leaves.
LEMMA ElementWritten ==
    ASSUME NEW kinds, NEW n \in Nat, DOMAIN kinds = 1 .. n, NEW e,
           \A j \in 1 .. n : Put(kinds[j], e[j]) \in Seq(Octets)
    PROVE  WriteElement(kinds, e) \in Seq(Octets)
<1> DEFINE parts == [j \in DOMAIN kinds |-> Put(kinds[j], e[j])]
<1>1. parts \in Seq(Seq(Octets))
  OBVIOUS
<1>2. WriteElement(kinds, e) = FlattenSeq(parts)
  BY DEF WriteElement
<1> HIDE DEF parts
<1> QED
  BY <1>1, <1>2, FlattenType

\* One sequence of bytes, flattened.
LEMMA FlattenOnly == \A w \in Seq(Octets) : FlattenSeq(<<w>>) = w
<1> SUFFICES ASSUME NEW w \in Seq(Octets) PROVE FlattenSeq(<<w>>) = w
  OBVIOUS
<1>1. <<w>> \in Seq(Seq(Octets)) /\ <<w>> # <<>> /\ Head(<<w>>) = w /\ Tail(<<w>>) = <<>>
  OBVIOUS
<1>2. FlattenSeq(<<w>>) = w \o <<>>
  BY <1>1, FlattenHead, FlattenEmpty
<1>3. w \o <<>> = w
  OBVIOUS
<1> QED
  BY <1>2, <1>3

\* A field of one kind is written as its leaf.
LEMMA OneWritten ==
    ASSUME NEW kind, NEW v, Put(kind, v) \in Seq(Octets)
    PROVE  WriteField(One(kind), Just(v)) = Put(kind, v)
<1> DEFINE e == <<v>>
           kinds == <<kind>>
           w == Put(kind, v)
<1>1. One(kind) = Group(kinds) /\ Just(v) = <<e>>
  BY DEF One, Group, Just
<1>2. [j \in DOMAIN kinds |-> Put(kinds[j], e[j])] = <<w>>
  OBVIOUS
<1>3. w \in Seq(Octets)
  OBVIOUS
<1> HIDE DEF w, e, kinds
<1>4. FlattenSeq(<<w>>) = w
  BY <1>3, FlattenOnly
<1>5. WriteElement(kinds, e) = w
  BY <1>2, <1>4 DEF WriteElement
<1>6. WriteField(Group(kinds), <<e>>) = w
  BY <1>3, <1>5, GroupWritten
<1> QED
  BY <1>1, <1>6 DEF w

\* An address of either version is written as bytes.
LEMMA AddressWritten ==
    ASSUME NEW a, IsAddress(a)
    PROVE  Put("Address", a) \in Seq(Octets)
<1>1. Put("Address", a) = WriteAddress(a)
  BY DEF Put, BigEndian, LittleEndian
<1>2. CASE Head(a) = 4
  BY <1>2, AddressPasses DEF Passes
<1>3. CASE Head(a) # 4
  <2>1. a \in Seq(Octets) /\ Len(a) = 19
    BY <1>3 DEF IsAddress, Octets
  <2> DEFINE host == SubSeq(a, 2, 17)
             port == IF host = Zeros(16) THEN Zeros(2) ELSE SubSeq(a, 18, 19)
  <2>2. host \in Seq(Octets) /\ SubSeq(a, 18, 19) \in Seq(Octets)
    <3>1. /\ \A i \in 2 .. 17 : i \in 1 .. Len(a)
          /\ \A i \in 18 .. 19 : i \in 1 .. Len(a)
      BY <2>1
    <3>2. \A i \in 1 .. Len(a) : a[i] \in Octets
      BY <2>1, ElementOfSeq
    <3> QED
      BY <2>1, <3>1, <3>2
  <2>3. Zeros(2) \in Seq(Octets) /\ Zeros(4) \in Seq(Octets)
    <3>1. 0 \in Octets
      BY DEF Octets
    <3> QED
      BY <3>1 DEF Zeros
  <2>4. <<6, 23, 0>> \in Seq(Octets)
    <3>1. 6 \in Octets /\ 23 \in Octets /\ 0 \in Octets
      BY DEF Octets
    <3> QED
      BY <3>1
  <2>5. WriteAddress(a) = (((<<6, 23, 0>> \o port) \o Zeros(4)) \o host) \o Zeros(4)
    BY <1>3 DEF WriteAddress
  <2>6. port \in Seq(Octets)
    BY <2>2, <2>3
  <2> HIDE DEF port, host
  <2>7. <<6, 23, 0>> \o port \in Seq(Octets)
    BY <2>4, <2>6, ConcatProperties
  <2>8. (<<6, 23, 0>> \o port) \o Zeros(4) \in Seq(Octets)
    BY <2>3, <2>7, ConcatProperties
  <2>9. ((<<6, 23, 0>> \o port) \o Zeros(4)) \o host \in Seq(Octets)
    BY <2>2, <2>8, ConcatProperties
  <2>10. WriteAddress(a) \in Seq(Octets)
    BY <2>3, <2>5, <2>9, ConcatProperties
  <2> QED
    BY <1>1, <2>10
<1> QED
  BY <1>2, <1>3

--------------------------------------------------------------------------------
(* Times, of which two host are read.                                       *)

Time == "I64BE"

\* Enough bytes.
LEMMA TakeWorks ==
    ASSUME NEW k \in Nat, NEW s \in Seq(Nat), k <= Len(s)
    PROVE  /\ Take(k, s) = Done(SubSeq(s, 1, k), SubSeq(s, k + 1, Len(s)))
           /\ SubSeq(s, k + 1, Len(s)) \in Seq(Nat) /\ Len(SubSeq(s, k + 1, Len(s))) = Len(s) - k
           /\ \E v, r : Take(k, s) = Done(v, r) /\ r \in Seq(Nat) /\ Len(r) = Len(s) - k
<1>1. Len(s) \in Nat /\ ~(k > Len(s))
  OBVIOUS
<1>2. SubSeq(s, k + 1, Len(s)) \in Seq(Nat) /\ Len(SubSeq(s, k + 1, Len(s))) = Len(s) - k
  OBVIOUS
<1>3. Take(k, s) = Done(SubSeq(s, 1, k), SubSeq(s, k + 1, Len(s)))
  BY <1>1, Zenon DEF Take
<1>4. \E v, r : Take(k, s) = Done(v, r) /\ r \in Seq(Nat) /\ Len(r) = Len(s) - k
  BY <1>2, <1>3, Zenon
<1> QED
  BY <1>2, <1>3, <1>4

\* A time or a flag is read of two bytes, and takes no more than that.
LEMMA TimeRead ==
    ASSUME NEW kind \in {Time, "IsOne"}, NEW s \in Seq(Nat), Len(s) >= 2
    PROVE  \E v, r : /\ ReadField(One(kind), s) = Done(v, r)
                     /\ r \in Seq(Nat) /\ Len(r) >= Len(s) - 2
<1>1. \E v, r : Get(kind, s) = Done(v, r) /\ r \in Seq(Nat) /\ Len(r) >= Len(s) - 2
  <2>1. CASE kind = Time
    <3>1. Get(kind, s) = Map(Take(2, s), LAMBDA b : Zeros(6) \o b)
      BY <2>1 DEF Get, ReadFixed, BigEndian, LittleEndian, Time
    <3>2. PICK y, v, r : y = Take(2, s) /\ y = Done(v, r) /\ r \in Seq(Nat) /\ Len(r) = Len(s) - 2
      <4>1. PICK k \in Nat : k = 2
        OBVIOUS
      <4>2. k <= Len(s)
        BY <4>1
      <4>3. PICK v, r : Take(k, s) = Done(v, r) /\ r \in Seq(Nat) /\ Len(r) = Len(s) - k
        BY <4>2, TakeWorks
      <4> QED
        BY <4>1, <4>3
    <3>3. Works(y) /\ y.value = v /\ y.rest = r
      BY <3>2, DoneIs
    <3>4. Get(kind, s) = Done(Zeros(6) \o v, r)
      BY <3>1, <3>2, <3>3, Zenon DEF Map, Works
    <3> QED
      BY <3>2, <3>4
  <2>2. CASE kind = "IsOne"
    <3>1. Get(kind, s) = Map(Take(1, s), LAMBDA b : IF b = <<1>> THEN b ELSE <<0>>)
      BY <2>2 DEF Get, BigEndian, LittleEndian
    <3>2. PICK y, v, r : y = Take(1, s) /\ y = Done(v, r) /\ r \in Seq(Nat) /\ Len(r) = Len(s) - 1
      <4>1. PICK k \in Nat : k = 1
        OBVIOUS
      <4>2. k <= Len(s)
        BY <4>1
      <4>3. PICK v, r : Take(k, s) = Done(v, r) /\ r \in Seq(Nat) /\ Len(r) = Len(s) - k
        BY <4>2, TakeWorks
      <4> QED
        BY <4>1, <4>3
    <3>3. Works(y) /\ y.value = v /\ y.rest = r
      BY <3>2, DoneIs
    <3>4. Get(kind, s) = Done(IF v = <<1>> THEN v ELSE <<0>>, r)
      BY <3>1, <3>2, <3>3, Zenon DEF Map, Works
    <3> QED
      BY <3>2, <3>4
  <2> QED
    BY <2>1, <2>2
<1>2. PICK v, r : Get(kind, s) = Done(v, r) /\ r \in Seq(Nat) /\ Len(r) >= Len(s) - 2
  BY <1>1
<1> DEFINE kinds == <<kind>>
           field == One(kind)
<1>3. field.of = kinds /\ ~IsList(field) /\ Len(kinds) = 1 /\ kinds[1] = kind
  BY DEF One, IsList
<1> HIDE DEF kinds, field
<1>4. ReadElement(kinds, s) = Done(Append(<<>>, v), r)
  <2>1. PICK f : Reads(f, "kinds", kinds, 1, s) /\ ReadElement(kinds, s) = f[1]
    <3>1. \E f : Reads(f, "kinds", kinds, Len(kinds), s) /\ ReadElement(kinds, s) = f[Len(kinds)]
      <4>1. Len(kinds) \in Nat
        BY <1>3
      <4> QED
        BY <4>1, ElementReads
    <3> QED
      BY <1>3, <3>1, Zenon
  <2>2. f[1] = TurnOf("kinds", kinds, 1, Done(<<>>, s))
    <3>1. 1 \in 1 .. 1 /\ 1 - 1 = 0
      OBVIOUS
    <3> QED
      BY <2>1, <3>1, Zenon DEF Reads
  <2>3. Item("kinds", kinds, 1, s) = Get(kinds[1], s)
    BY DEF Item
  <2>4. PICK level, i, u : level = "kinds" /\ i = 1 /\ u = <<>>
    OBVIOUS
  <2>5. Item(level, kinds, i, s) = Done(v, r)
    BY <1>2, <1>3, <2>3, <2>4, Zenon
  <2>6. TurnOf(level, kinds, i, Done(u, s)) = Done(Append(u, v), r)
    BY <2>5, TurnGood
  <2> QED
    BY <2>1, <2>2, <2>4, <2>6, Zenon
<1>5. ReadField(field, s) = Done(Append(<<>>, Append(<<>>, v)), r)
  <2>1. ReadField(field, s) = Elements(kinds, 1, s)
    <3>1. ReadField(field, s) = Elements(field.of, 1, s)
      BY <1>3, Zenon DEF ReadField, Elements
    <3> QED
      BY <1>3, <3>1, Zenon
  <2>2. PICK f : Reads(f, "elements", kinds, 1, s) /\ Elements(kinds, 1, s) = f[1]
    BY ElementsRead
  <2>3. f[1] = TurnOf("elements", kinds, 1, Done(<<>>, s))
    <3>1. 1 \in 1 .. 1 /\ 1 - 1 = 0
      OBVIOUS
    <3> QED
      BY <2>2, <3>1, Zenon DEF Reads
  <2>4. Item("elements", kinds, 1, s) = ReadElement(kinds, s)
    BY DEF Item
  <2>5. PICK level, i, u, e : level = "elements" /\ i = 1 /\ u = <<>> /\ e = Append(<<>>, v)
    OBVIOUS
  <2>6. Item(level, kinds, i, s) = Done(e, r)
    BY <1>4, <2>4, <2>5, Zenon
  <2>7. TurnOf(level, kinds, i, Done(u, s)) = Done(Append(u, e), r)
    BY <2>6, TurnGood
  <2> QED
    BY <2>1, <2>2, <2>3, <2>5, <2>7, Zenon
<1> QED
  BY <1>2, <1>5 DEF field

\* What is left after the fields that pass is enough for the times behind them.
LEMMA TimesWork ==
    ASSUME NEW c, NEW n \in Nat, NEW m \in 0 .. n, NEW s, NEW f, Reads(f, "fields", c, n, s),
           \A i \in m + 1 .. n : \E kind \in {Time, "IsOne"} : c[i] = One(kind),
           NEW v, NEW t \in Seq(Nat), f[m] = Done(v, t), Len(t) >= 2 * (n - m)
    PROVE  Works(f[n])
<1> DEFINE Good(i) == \E w, r : f[i] = Done(w, r) /\ r \in Seq(Nat) /\ Len(r) >= 2 * (n - i)
           S == {k \in Nat : m + k <= n => Good(m + k)}
<1>1. 0 \in S
  BY DEF S
<1>2. ASSUME NEW k \in S PROVE k + 1 \in S
  <2>1. k \in Nat /\ (m + k <= n => Good(m + k))
    OBVIOUS
  <2>2. ASSUME m + (k + 1) <= n PROVE Good(m + (k + 1))
    <3>1. PICK i \in 1 .. n : i = m + (k + 1) /\ i - 1 = m + k /\ i \in m + 1 .. n
      BY <2>1, <2>2
    <3>2. PICK w, r : f[i - 1] = Done(w, r) /\ r \in Seq(Nat) /\ Len(r) >= 2 * (n - (i - 1))
      BY <2>1, <2>2, <3>1
    <3>3. Len(r) >= 2 /\ Len(r) \in Nat
      BY <3>1, <3>2
    <3>4. PICK kind \in {Time, "IsOne"} : c[i] = One(kind)
      BY <3>1
    <3>5. PICK w2, r2 : ReadField(c[i], r) = Done(w2, r2) /\ r2 \in Seq(Nat) /\ Len(r2) >= Len(r) - 2
      BY <3>2, <3>3, <3>4, TimeRead
    <3>6. f[i] = TurnOf("fields", c, i, Done(w, r))
      BY <3>1, <3>2, Zenon DEF Reads
    <3>7. Item("fields", c, i, r) = ReadField(c[i], r)
      BY DEF Item
    <3>8. PICK level : level = "fields"
      OBVIOUS
    <3>9. Item(level, c, i, r) = Done(w2, r2)
      BY <3>5, <3>7, <3>8, Zenon
    <3>10. TurnOf(level, c, i, Done(w, r)) = Done(Append(w, w2), r2)
      BY <3>9, TurnGood
    <3>11. f[i] = Done(Append(w, w2), r2)
      BY <3>6, <3>8, <3>10, Zenon
    <3>12. Len(r2) >= 2 * (n - i)
      BY <3>1, <3>2, <3>5
    <3>13. Good(i)
      BY <3>5, <3>11, <3>12
    <3> QED
      BY <3>1, <3>13
  <2> QED
    BY <2>1, <2>2
<1> HIDE DEF S
<1>3. S = Nat
  <2>1. S \subseteq Nat
    BY DEF S
  <2> QED
    BY <1>1, <1>2, <2>1, Induction
<1>4. PICK k \in Nat : m + k = n
  <2>1. n - m \in Nat /\ m + (n - m) = n
    OBVIOUS
  <2> QED
    BY <2>1
<1>5. Good(n)
  <2>1. k \in S /\ m + k <= n
    BY <1>3, <1>4
  <2> HIDE DEF Good
  <2>2. Good(m + k)
    BY <2>1 DEF S
  <2> QED
    BY <1>4, <2>2
<1> QED
  BY <1>5, DoneIs

--------------------------------------------------------------------------------
(* The fields of the messages.                                              *)

\* The numbers of two bytes.
Words == {n \in Nat : n < 65536}

\* A field of two bytes passes.
LEMMA WordPasses ==
    ASSUME NEW kind, kind \in {"U16BE", "I16BE"}, NEW n \in Words
    PROVE  FieldPasses(One(kind), Word(n))
<1>1. PICK v : v = <<n \div 256, n % 256>>
  BY Zenon
<1>2. n \div 256 \in Octets /\ n % 256 \in Octets
  <2>1. n \in Nat /\ n < 65536
    BY DEF Words
  <2>2. n \div 256 \in 0 .. 255 /\ n % 256 \in 0 .. 255
    BY <2>1
  <2> QED
    BY <2>2, Zenon DEF Octets
<1>3. v \in Seq(Octets) /\ Len(v) = 2
  BY <1>1, <1>2
<1>4. Width(kind) = 2 /\ kind \in Fixed
  BY DEF Width, Fixed
<1>5. Word(n) = Just(v)
  BY <1>1 DEF Word
<1>6. Len(v) = Width(kind)
  BY <1>3, <1>4, Zenon
<1>7. Passes(kind, v)
  BY <1>3, <1>4, <1>6, FixedPasses, Zenon
<1> QED
  BY <1>5, <1>7, OnePasses

\* The values of eight bytes: a time and an identifier.
Eight == {Now, Guid}

\* Eight bytes each.
LEMMA EightBytes ==
    \A v \in Eight : v \in Seq(Octets) /\ Len(v) = 8
<1>1. \A n \in 0 .. 255 : n \in Octets
  BY DEF Octets
<1>2. Now \in Seq(Octets) /\ Len(Now) = 8
  BY DEF Now, Octets
<1>3. Guid \in Seq(Octets) /\ Len(Guid) = 8
  BY DEF Guid, Octets
<1> QED
  BY <1>2, <1>3 DEF Eight

\* They pass as an unsigned number.
LEMMA EightPass ==
    ASSUME NEW v \in Eight
    PROVE  FieldPasses(One("U64BE"), Just(v))
<1>1. v \in Seq(Octets) /\ Len(v) = 8
  BY EightBytes
<1>2. Width("U64BE") = 8 /\ "U64BE" \in Fixed
  BY DEF Width, Fixed
<1>3. Passes("U64BE", v)
  BY <1>1, <1>2, FixedPasses
<1> QED
  BY <1>3, OnePasses

\* So does the version of the protocol,
LEMMA ProtocolPasses == FieldPasses(One("U8"), Protocol)
<1>1. Byte(10) \in Seq(Octets) /\ Len(Byte(10)) = 1 /\ Protocol = Just(Byte(10))
  BY DEF Byte, Protocol, Octets
<1>2. Width("U8") = 1 /\ "U8" \in Fixed
  BY DEF Width, Fixed
<1>3. Passes("U8", Byte(10))
  BY <1>1, <1>2, FixedPasses
<1> QED
  BY <1>1, <1>3, OnePasses

\* a flag,
LEMMA FlagFieldPasses == \A f \in Flags : FieldPasses(One("IsOne"), f)
<1> SUFFICES ASSUME NEW f \in Flags PROVE FieldPasses(One("IsOne"), f)
  OBVIOUS
<1>1. PICK v \in {Byte(0), Byte(1)} : f = Just(v)
  BY DEF Flags, Byte
<1>2. Passes("IsOne", v)
  BY FlagPasses
<1> QED
  BY <1>1, <1>2, OnePasses

\* and the magic.
LEMMA MagicPasses == FieldPasses(Magic, MagicValue)
<1>1. PICK a, b : /\ a = <<0, 255, 255, 0, 254, 254, 254, 254>>
                  /\ b = <<253, 253, 253, 253, 18, 52, 86, 120>>
  OBVIOUS
<1>2. a \in Seq(Octets) /\ Len(a) = 8
  BY <1>1 DEF Octets
<1>3. b \in Seq(Octets) /\ Len(b) = 8
  BY <1>1 DEF Octets
<1> DEFINE e == <<a, b>>
<1>4. PICK kinds : kinds = <<"U64BE", "U64BE">>
  OBVIOUS
<1>5. MagicValue = <<e>> /\ Magic = Group(kinds)
  <2>1. MagicValue = <<e>>
    BY <1>1, <1>4, SMTT(30) DEF MagicValue
  <2>2. Magic = Group(kinds)
    BY <1>4, Zenon DEF Magic
  <2> QED
    BY <2>1, <2>2, Zenon
<1>6. Width("U64BE") = 8 /\ "U64BE" \in Fixed
  BY DEF Width, Fixed
<1>7. Passes("U64BE", a) /\ Passes("U64BE", b)
  BY <1>2, <1>3, <1>6, FixedPasses
<1>8. PICK V, K : V = Seq(Octets) /\ K = {"U64BE"} /\ "U64BE" \in K
  OBVIOUS
<1>9. e \in Seq(V) /\ Len(e) = 2 /\ e[1] = a /\ e[2] = b
  BY <1>2, <1>3, <1>8
<1>10. kinds \in Seq(K) /\ Len(kinds) = 2 /\ kinds[1] = "U64BE" /\ kinds[2] = "U64BE"
  BY <1>4, <1>8
<1> HIDE DEF e
<1>11. \A j \in 1 .. Len(kinds) : Passes(kinds[j], e[j])
  <2>1. \A j \in 1 .. Len(kinds) : j = 1 \/ j = 2
    BY <1>10
  <2> QED
    BY <1>7, <1>9, <1>10, <2>1, Zenon
<1>12. ElementPasses(kinds, e)
  BY <1>9, <1>10, <1>11, KindsPass
<1> QED
  BY <1>5, <1>12, GroupPasses

\* An address, by itself and among twenty.
LEMMA AddressField ==
    ASSUME NEW a, IsAddress(a)
    PROVE  /\ WriteField(One("Address"), Just(a)) \in Seq(Octets)
           /\ Head(a) = 4 => FieldPasses(One("Address"), Just(a))
<1>1. Put("Address", a) \in Seq(Octets)
  BY AddressWritten
<1>2. PICK kind : kind = "Address"
  OBVIOUS
<1>3. WriteField(One(kind), Just(a)) = Put(kind, a)
  BY <1>1, <1>2, OneWritten
<1>4. Head(a) = 4 => FieldPasses(One(kind), Just(a))
  BY <1>2, AddressPasses, OnePasses
<1> QED
  BY <1>1, <1>2, <1>3, <1>4, Zenon

\* Twenty addresses.
IsTwenty(e) == e = [i \in 1 .. 20 |-> e[i]] /\ \A i \in 1 .. 20 : IsAddress(e[i])

\* Their field.
LEMMA AddressesField ==
    ASSUME NEW e, IsTwenty(e)
    PROVE  /\ WriteField(Addresses, <<e>>) \in Seq(Octets)
           /\ (\A i \in 1 .. 20 : Head(e[i]) = 4) => FieldPasses(Addresses, <<e>>)
<1>1. PICK kind : kind = "Address"
  OBVIOUS
<1> DEFINE kinds == [i \in 1 .. 20 |-> kind]
<1>2. Addresses = Group(kinds)
  BY <1>1, Zenon DEF Addresses
<1>3. DOMAIN kinds = 1 .. 20 /\ Len(kinds) = 20 /\ kinds \in Seq({kind}) /\ \A i \in 1 .. 20 : kinds[i] = kind
  OBVIOUS
<1> HIDE DEF kinds
<1>4. \A i \in 1 .. 20 : Put(kinds[i], e[i]) \in Seq(Octets)
  BY <1>1, <1>3, AddressWritten DEF IsTwenty
<1>5. WriteElement(kinds, e) \in Seq(Octets)
  <2>1. PICK n \in Nat : n = 20
    OBVIOUS
  <2> QED
    BY <1>3, <1>4, <2>1, ElementWritten
<1>6. WriteField(Addresses, <<e>>) \in Seq(Octets)
  BY <1>2, <1>5, GroupWritten
<1>7. ASSUME \A i \in 1 .. 20 : Head(e[i]) = 4 PROVE FieldPasses(Addresses, <<e>>)
  <2>1. \A i \in 1 .. 20 : Passes(kinds[i], e[i])
    BY <1>1, <1>3, <1>7, AddressPasses DEF IsTwenty
  <2>2. PICK V : V = {e[i] : i \in 1 .. 20}
    OBVIOUS
  <2>3. e \in Seq(V) /\ Len(e) = 20
    <3>1. e = [i \in 1 .. 20 |-> e[i]] /\ \A i \in 1 .. 20 : e[i] \in V
      BY <2>2 DEF IsTwenty
    <3> QED
      BY <3>1
  <2>4. ElementPasses(kinds, e)
    BY <1>3, <2>1, <2>3, KindsPass
  <2> QED
    BY <1>2, <2>4, GroupPasses
<1> QED
  BY <1>6, <1>7

--------------------------------------------------------------------------------
(* Messages.                                                                *)

\* MessageUnderstood of the fields v and what was read.
UnderstoodAs(layout, v, x) ==
    /\ ~Works(x) => \E i \in DOMAIN layout :
          "Address" \in ToSet(layout[i].of) /\ ~SurvivesField(layout[i], v[i])
    /\ Works(x) => \A i \in DOMAIN layout :
          (\A k \in 1 .. i : SurvivesField(layout[k], v[k])) => x.value[i] = v[i]

\* A message all of whose fields pass.
LEMMA AllPass ==
    ASSUME NEW V, NEW layout, NEW n \in Nat, Len(layout) = n, DOMAIN layout = 1 .. n,
           NEW v \in Seq(V), Len(v) = n, FieldsPass(layout, v, n)
    PROVE  /\ Write(layout, v) \in Seq(Octets)
           /\ \A t \in Seq(Nat) : /\ Read(layout, Write(layout, v) \o t) = Done(v, t)
                                  /\ UnderstoodAs(layout, v, Read(layout, Write(layout, v) \o t))
<1>1. n \in 0 .. n
  OBVIOUS
<1>2. FieldsWritten(layout, v, n)
  BY DEF FieldsPass, FieldPasses, FieldsWritten
<1>3. PICK t \in Seq(Octets) : Write(layout, v) = FirstFields(layout, v, n) \o t /\ t = <<>>
  BY <1>1, <1>2, WriteSplits
<1>4. FirstFields(layout, v, n) \in Seq(Octets)
  <2>1. BeginsWell(V, layout, n, n, v, <<>>)
    BY <1>1 DEF BeginsWell
  <2> QED
    BY <2>1, LayoutPasses
<1>5. Write(layout, v) = FirstFields(layout, v, n)
  BY <1>3, <1>4
<1>6. ASSUME NEW u \in Seq(Nat)
      PROVE  /\ Read(layout, Write(layout, v) \o u) = Done(v, u)
             /\ UnderstoodAs(layout, v, Read(layout, Write(layout, v) \o u))
  <2>1. PICK f : /\ Read(layout, FirstFields(layout, v, n) \o u) = f[n]
                 /\ f[n] = Done(v, u)
    <3>1. PICK m : m = n
      OBVIOUS
    <3>2. BeginsWell(V, layout, n, m, v, u)
      BY <1>1, <3>1 DEF BeginsWell
    <3>3. \E f : /\ Reads(f, "fields", layout, n, FirstFields(layout, v, m) \o u)
                 /\ Read(layout, FirstFields(layout, v, m) \o u) = f[n] /\ f[m] = Done(v, u)
      BY <3>2, LayoutPasses
    <3> QED
      BY <3>1, <3>3
  <2>2. PICK x : x = Read(layout, Write(layout, v) \o u) /\ x = Done(v, u)
    BY <1>5, <2>1
  <2>3. Works(x) /\ x.value = v
    BY <2>2, DoneIs, Zenon
  <2>4. UnderstoodAs(layout, v, x)
    BY <2>3, Zenon DEF UnderstoodAs
  <2> QED
    BY <2>2, <2>4, Zenon
<1> QED
  BY <1>4, <1>5, <1>6

\* A message whose fields pass as far as one that does not survive: an address, or times
\* that are followed by nothing else.
LEMMA SomePass ==
    ASSUME NEW V, NEW layout, NEW n \in Nat, Len(layout) = n, DOMAIN layout = 1 .. n,
           NEW v \in Seq(V), Len(v) = n, NEW m \in Nat, m < n,
           FieldsPass(layout, v, m),
           ~SurvivesField(layout[m + 1], v[m + 1]), NEW t \in Seq(Nat),
           \/ "Address" \in ToSet(layout[m + 1].of)
           \/ /\ \A i \in m + 1 .. n : \E kind \in {Time, "IsOne"} : layout[i] = One(kind)
              /\ Len(t) >= 2 * (n - m)
    PROVE  UnderstoodAs(layout, v, Read(layout, FirstFields(layout, v, m) \o t))
<1> DEFINE u == SubSeq(v, 1, m)
           s == FirstFields(layout, v, m) \o t
<1>1. m \in 0 .. n /\ m + 1 \in 1 .. n /\ \A i \in 1 .. m : i \in 1 .. n
  OBVIOUS
<1>2. u \in Seq(V) /\ Len(u) = m /\ \A i \in 1 .. m : u[i] = v[i]
  OBVIOUS
<1> HIDE DEF u
<1>3. FirstFields(layout, u, m) = FirstFields(layout, v, m)
  BY <1>2 DEF FirstFields
<1>4. PICK f : /\ Reads(f, "fields", layout, n, s) /\ Read(layout, s) = f[n]
               /\ f[m] = Done(u, t)
  <2>1. FieldsPass(layout, u, m)
    BY <1>2 DEF FieldsPass
  <2>2. \E f : /\ Reads(f, "fields", layout, n, FirstFields(layout, u, m) \o t)
               /\ Read(layout, FirstFields(layout, u, m) \o t) = f[n] /\ f[m] = Done(u, t)
    <3>1. BeginsWell(V, layout, n, m, u, t)
      BY <1>1, <1>2, <2>1 DEF BeginsWell
    <3> QED
      BY <3>1, LayoutPasses
  <2> QED
    BY <1>3, <2>2
<1> HIDE DEF s
<1>5. ASSUME Works(f[n]) PROVE \A i \in 1 .. m : f[n].value[i] = v[i]
  <2>1. \A i \in 1 .. Len(u) : f[n].value[i] = u[i]
    <3>1. PICK level : level = "fields" /\ Reads(f, level, layout, n, s)
      BY <1>4, Zenon
    <3>2. GoesOn(V, level, layout, s, f, n, m, u, t)
      BY <1>1, <1>2, <1>4, <1>5, <3>1 DEF GoesOn
    <3> QED
      BY <3>2, ReadOn
  <2> QED
    BY <1>2, <2>1
<1>6. ASSUME NEW i \in DOMAIN layout, \A k \in 1 .. i : SurvivesField(layout[k], v[k]) PROVE i \in 1 .. m
  <2>1. m + 1 \notin 1 .. i
    BY <1>6
  <2> QED
    BY <2>1
<1>7. ~Works(f[n]) => "Address" \in ToSet(layout[m + 1].of)
  <2>1. ASSUME \A i \in m + 1 .. n : \E kind \in {Time, "IsOne"} : layout[i] = One(kind),
               Len(t) >= 2 * (n - m)
        PROVE  Works(f[n])
    BY <1>1, <1>4, <2>1, TimesWork
  <2> QED
    BY <2>1
<1>8. UnderstoodAs(layout, v, f[n])
  <2>1. ~Works(f[n]) => \E i \in DOMAIN layout :
           "Address" \in ToSet(layout[i].of) /\ ~SurvivesField(layout[i], v[i])
    <3>1. m + 1 \in DOMAIN layout
      BY <1>1
    <3> QED
      BY <1>7, <3>1, Zenon
  <2>2. Works(f[n]) => \A i \in DOMAIN layout :
           (\A k \in 1 .. i : SurvivesField(layout[k], v[k])) => f[n].value[i] = v[i]
    BY <1>5, <1>6, Zenon
  <2> QED
    BY <2>1, <2>2, Zenon DEF UnderstoodAs
<1> QED
  BY <1>4, <1>8 DEF s

\* A message with its id before it.
LEMMA IdRead ==
    ASSUME NEW id \in Nat, id # NewIncomingConnection, NEW s \in Seq(Nat)
    PROVE  ReadMessage(Byte(id) \o s) = Read(Layout(id), s)
<1>1. PICK b : b = Byte(id) /\ b = <<id>> /\ b[1] = id /\ b # <<NewIncomingConnection>>
  <2>1. <<id>>[1] = id /\ <<NewIncomingConnection>>[1] = NewIncomingConnection
    OBVIOUS
  <2> QED
    BY <2>1, Zenon DEF Byte
<1>2. PICK y : y = Take(1, Byte(id) \o s) /\ y = Done(b, s)
  BY <1>1, Prefixed DEF Byte
<1>3. Works(y) /\ y.value = b /\ y.rest = s
  BY <1>2, DoneIs, Zenon
<1>4. ReadMessage(Byte(id) \o s) = Read(Layout(b[1]), s)
  BY <1>1, <1>2, <1>3, Zenon DEF ReadMessage, Then, Works
<1> QED
  BY <1>1, <1>4

\* What it fills up with.
LEMMA FillIs ==
    ASSUME NEW p \in Seq(Nat), NEW u \in Seq(Nat), NEW mtu \in Nat, Len(p) <= mtu
    PROVE  \E t \in Seq(Nat) : Fill(p \o u, mtu) = p \o t
<1> DEFINE s == p \o u
           t == [i \in 1 .. mtu - Len(p) |-> IF Len(p) + i <= Len(s) THEN s[Len(p) + i] ELSE 0]
           g == Fill(s, mtu)
<1>1. /\ s \in Seq(Nat) /\ Len(s) = Len(p) + Len(u) /\ Len(p) \in Nat /\ Len(u) \in Nat
      /\ \A i \in 1 .. Len(p) : s[i] = p[i]
  BY ConcatProperties
<1> HIDE DEF s
<1>2. \A i \in 1 .. Len(s) : s[i] \in Nat
  BY <1>1
<1>3. g \in Seq(Nat) /\ Len(g) = mtu /\ \A i \in 1 .. mtu : g[i] = IF i <= Len(s) THEN s[i] ELSE 0
  <2>1. \A i \in 1 .. mtu : (IF i <= Len(s) THEN s[i] ELSE 0) \in Nat
    BY <1>1, <1>2
  <2> QED
    BY <2>1 DEF Fill
<1>4. t \in Seq(Nat) /\ Len(t) = mtu - Len(p)
      /\ \A i \in 1 .. mtu - Len(p) : t[i] = IF Len(p) + i <= Len(s) THEN s[Len(p) + i] ELSE 0
  <2>1. ASSUME NEW i \in 1 .. mtu - Len(p) PROVE (IF Len(p) + i <= Len(s) THEN s[Len(p) + i] ELSE 0) \in Nat
    <3>1. Len(p) \in Nat /\ Len(s) \in Nat /\ i \in Nat /\ i >= 1
      BY <1>1
    <3>2. Len(p) + i <= Len(s) => Len(p) + i \in 1 .. Len(s)
      BY <3>1
    <3> QED
      BY <1>2, <3>2
  <2>2. mtu - Len(p) \in Nat
    BY <1>1
  <2> QED
    BY <2>1, <2>2
<1> HIDE DEF t, g
<1>5. /\ p \o t \in Seq(Nat) /\ Len(p \o t) = mtu
      /\ \A i \in 1 .. Len(p) + Len(t) : (p \o t)[i] = IF i <= Len(p) THEN p[i] ELSE t[i - Len(p)]
  BY <1>1, <1>4, ConcatProperties
<1>6. ASSUME NEW i \in 1 .. mtu PROVE g[i] = (p \o t)[i]
  <2>1. (p \o t)[i] = IF i <= Len(p) THEN p[i] ELSE t[i - Len(p)]
    BY <1>1, <1>4, <1>5
  <2>2. CASE i <= Len(p)
    <3>1. i \in 1 .. Len(p) /\ i <= Len(s)
      BY <1>1, <2>2
    <3> QED
      BY <1>1, <1>3, <2>1, <2>2, <3>1
  <2>3. CASE ~(i <= Len(p))
    <3>1. i - Len(p) \in 1 .. mtu - Len(p) /\ Len(p) + (i - Len(p)) = i
      BY <1>1, <2>3
    <3>2. t[i - Len(p)] = IF i <= Len(s) THEN s[i] ELSE 0
      BY <1>4, <3>1
    <3> QED
      BY <1>3, <2>1, <2>3, <3>2
  <2> QED
    BY <2>2, <2>3
<1>7. g = p \o t
  BY <1>3, <1>5, <1>6, SeqEqual
<1> QED
  BY <1>4, <1>7 DEF g, s

\* A message that is heard as it was meant.
Heard(id, v, b) ==
    /\ b \in Seq(Nat) /\ b # <<>> /\ Head(b) = id
    /\ UnderstoodAs(Layout(id), v, ReadMessage(b))

\* The id comes first.
LEMMA IdFirst ==
    \A id \in Nat : \A s \in Seq(Nat) :
        /\ Byte(id) \o s \in Seq(Nat) /\ Byte(id) \o s # <<>> /\ Head(Byte(id) \o s) = id
        /\ Len(Byte(id) \o s) = Len(s) + 1
        /\ id # NewIncomingConnection => ReadMessage(Byte(id) \o s) = Read(Layout(id), s)
<1> SUFFICES ASSUME NEW id \in Nat, NEW s \in Seq(Nat)
             PROVE  /\ Byte(id) \o s \in Seq(Nat) /\ Byte(id) \o s # <<>> /\ Head(Byte(id) \o s) = id
                    /\ Len(Byte(id) \o s) = Len(s) + 1
                    /\ id # NewIncomingConnection => ReadMessage(Byte(id) \o s) = Read(Layout(id), s)
  OBVIOUS
<1>1. Byte(id) \in Seq(Nat) /\ Len(Byte(id)) = 1 /\ Byte(id)[1] = id
  BY DEF Byte
<1>2. /\ Byte(id) \o s \in Seq(Nat) /\ Len(Byte(id) \o s) = 1 + Len(s) /\ Len(s) \in Nat
      /\ (Byte(id) \o s)[1] = id
  <2>1. Byte(id) \in Seq(Nat)
    BY <1>1
  <2>2. /\ Byte(id) \o s \in Seq(Nat) /\ Len(Byte(id) \o s) = Len(Byte(id)) + Len(s)
        /\ \A i \in 1 .. Len(Byte(id)) : (Byte(id) \o s)[i] = Byte(id)[i]
    BY <2>1, ConcatProperties
  <2>3. 1 \in 1 .. Len(Byte(id))
    BY <1>1
  <2>4. (Byte(id) \o s)[1] = id
    BY <1>1, <2>2, <2>3, Zenon
  <2>5. Len(Byte(id) \o s) = 1 + Len(s) /\ Byte(id) \o s \in Seq(Nat)
    BY <1>1, <2>2, Zenon
  <2> QED
    BY <2>4, <2>5
<1>3. Byte(id) \o s # <<>> /\ Head(Byte(id) \o s) = id
  BY <1>2
<1> QED
  BY <1>2, <1>3, IdRead

\* Messages that are another's neither way.
Plain == Nat \ {NewIncomingConnection, IncompatibleProtocolVersion}

\* A message all of whose fields pass.
GoodMessage(V, id, n, v) ==
    /\ id \in Plain /\ id \in Octets
    /\ n \in Nat /\ Len(Layout(id)) = n /\ DOMAIN Layout(id) = 1 .. n
    /\ v \in Seq(V) /\ Len(v) = n /\ FieldsPass(Layout(id), v, n)

\* It is heard as it was meant, whatever follows it.
LEMMA GoodHeard ==
    \A V, id, n, v : GoodMessage(V, id, n, v) =>
        /\ WriteMessage(id, v) \in Seq(Octets) /\ Heard(id, v, WriteMessage(id, v))
        /\ \A t \in Seq(Nat) : Heard(id, v, WriteMessage(id, v) \o t)
<1> SUFFICES ASSUME NEW V, NEW id, NEW n, NEW v, GoodMessage(V, id, n, v)
             PROVE  /\ WriteMessage(id, v) \in Seq(Octets) /\ Heard(id, v, WriteMessage(id, v))
                    /\ \A t \in Seq(Nat) : Heard(id, v, WriteMessage(id, v) \o t)
  OBVIOUS
<1>1. /\ id \in Nat /\ id # NewIncomingConnection /\ id # IncompatibleProtocolVersion /\ id \in Octets
      /\ n \in Nat /\ Len(Layout(id)) = n /\ DOMAIN Layout(id) = 1 .. n
      /\ v \in Seq(V) /\ Len(v) = n /\ FieldsPass(Layout(id), v, n)
  BY DEF GoodMessage, Plain
<1>2. PICK w : w = Write(Layout(id), v)
  OBVIOUS
<1>3. w \in Seq(Octets) /\ \A t \in Seq(Nat) : UnderstoodAs(Layout(id), v, Read(Layout(id), w \o t))
  BY <1>1, <1>2, AllPass
<1>4. WriteMessage(id, v) = Byte(id) \o w
  BY <1>1, <1>2, Zenon DEF WriteMessage, WrittenId, Byte
<1>5. Byte(id) \o w \in Seq(Octets)
  <2>1. Byte(id) \in Seq(Octets)
    BY <1>1 DEF Byte
  <2> QED
    BY <1>3, <2>1, ConcatProperties
<1>6. ASSUME NEW t \in Seq(Nat) PROVE Heard(id, v, (Byte(id) \o w) \o t)
  <2>1. w \in Seq(Nat)
    BY <1>3, BytesAreNumbers
  <2>2. (Byte(id) \o w) \o t = Byte(id) \o (w \o t) /\ w \o t \in Seq(Nat)
    BY <1>1, <2>1, Prefixed, ConcatProperties DEF Byte
  <2>3. PICK s \in Seq(Nat) : s = w \o t
    BY <2>2
  <2>4. Heard(id, v, Byte(id) \o s)
    <3>1. UnderstoodAs(Layout(id), v, Read(Layout(id), s))
      BY <1>3, <2>3
    <3>2. ReadMessage(Byte(id) \o s) = Read(Layout(id), s)
      BY <1>1, IdFirst
    <3>3. Byte(id) \o s \in Seq(Nat) /\ Byte(id) \o s # <<>> /\ Head(Byte(id) \o s) = id
      BY <1>1, IdFirst
    <3> QED
      BY <3>1, <3>2, <3>3 DEF Heard
  <2> QED
    BY <2>2, <2>3, <2>4
<1>7. Heard(id, v, Byte(id) \o w)
  <2>1. <<>> \in Seq(Nat) /\ (Byte(id) \o w) \o <<>> = Byte(id) \o w
    BY <1>5
  <2>2. Heard(id, v, (Byte(id) \o w) \o <<>>)
    BY <1>6, <2>1
  <2> QED
    BY <2>1, <2>2
<1> QED
  BY <1>4, <1>5, <1>6, <1>7

\* A message whose fields pass as far as one that does not survive.
HalfMessage(V, id, n, m, v) ==
    /\ id \in Plain /\ id \in Octets
    /\ n \in Nat /\ m \in Nat /\ m < n /\ v \in Seq(V) /\ Len(v) = n
    /\ FieldsWritten(Layout(id), v, n) /\ FieldsPass(Layout(id), v, m)
    /\ ~SurvivesField(Layout(id)[m + 1], v[m + 1])
EndsInAddress(id, m) == "Address" \in ToSet(Layout(id)[m + 1].of)
EndsInTimes(id, n, m, v) ==
    /\ \A i \in m + 1 .. n : \E kind \in {Time, "IsOne"} : Layout(id)[i] = One(kind)
    /\ Len(WriteField(Layout(id)[m + 1], v[m + 1])) >= 2 * (n - m)

\* It is heard as it was meant; whatever follows the fields that pass, when the next is
\* an address.
LEMMA HalfHeard ==
    \A V, id, n, m, v : HalfMessage(V, id, n, m, v) =>
        /\ WriteMessage(id, v) \in Seq(Octets)
        /\ FirstFields(Layout(id), v, m) \in Seq(Octets)
        /\ EndsInAddress(id, m) =>
              /\ Heard(id, v, WriteMessage(id, v))
              /\ \A t \in Seq(Nat) : Heard(id, v, (Byte(id) \o FirstFields(Layout(id), v, m)) \o t)
        /\ EndsInTimes(id, n, m, v) => Heard(id, v, WriteMessage(id, v))
        /\ \E t \in Seq(Nat) :
              WriteMessage(id, v) = (Byte(id) \o FirstFields(Layout(id), v, m)) \o t
<1> SUFFICES ASSUME NEW V, NEW id, NEW n, NEW m, NEW v, HalfMessage(V, id, n, m, v)
    PROVE
        /\ WriteMessage(id, v) \in Seq(Octets)
        /\ FirstFields(Layout(id), v, m) \in Seq(Octets)
        /\ EndsInAddress(id, m) =>
              /\ Heard(id, v, WriteMessage(id, v))
              /\ \A t \in Seq(Nat) : Heard(id, v, (Byte(id) \o FirstFields(Layout(id), v, m)) \o t)
        /\ EndsInTimes(id, n, m, v) => Heard(id, v, WriteMessage(id, v))
        /\ \E t \in Seq(Nat) :
              WriteMessage(id, v) = (Byte(id) \o FirstFields(Layout(id), v, m)) \o t
  OBVIOUS
<1>1. /\ id \in Nat /\ id # NewIncomingConnection /\ id # IncompatibleProtocolVersion /\ id \in Octets
      /\ n \in Nat /\ m \in Nat /\ m < n /\ v \in Seq(V) /\ Len(v) = n /\ m \in 0 .. n
      /\ FieldsWritten(Layout(id), v, n) /\ FieldsPass(Layout(id), v, m)
      /\ ~SurvivesField(Layout(id)[m + 1], v[m + 1])
      /\ Len(Layout(id)) = n /\ DOMAIN Layout(id) = 1 .. n
  BY DEF HalfMessage, Plain, FieldsWritten
<1>2. PICK layout, p, w : layout = Layout(id) /\ p = FirstFields(layout, v, m) /\ w = Write(layout, v)
  OBVIOUS
<1>3. PICK r \in Seq(Octets) : w = p \o r /\ Len(r) >= Len(WriteField(layout[m + 1], v[m + 1]))
  BY <1>1, <1>2, WriteSplits
<1>4. w \in Seq(Octets)
  BY <1>1, <1>2, WriteSplits
<1>5. p \in Seq(Octets)
  <2>1. PICK u : u = SubSeq(v, 1, m) /\ u \in Seq(V) /\ Len(u) = m /\ \A i \in 1 .. m : u[i] = v[i]
    <3>1. /\ SubSeq(v, 1, m) \in Seq(V) /\ Len(SubSeq(v, 1, m)) = m
          /\ \A i \in 1 .. m : SubSeq(v, 1, m)[i] = v[i]
      BY <1>1
    <3> QED
      BY <3>1, Zenon
  <2>2. FirstFields(layout, u, m) = p
    BY <1>2, <2>1 DEF FirstFields
  <2>3. BeginsWell(V, layout, n, m, u, <<>>)
    BY <1>1, <1>2, <2>1 DEF BeginsWell, FieldsPass
  <2>4. FirstFields(layout, u, m) \in Seq(Octets)
    BY <2>3, LayoutPasses
  <2> QED
    BY <2>2, <2>4
<1>6. p \in Seq(Nat) /\ r \in Seq(Nat) /\ Byte(id) \in Seq(Octets) /\ Byte(id) \in Seq(Nat)
  <2>1. Byte(id) \in Seq(Octets)
    BY <1>1 DEF Byte
  <2> QED
    BY <1>3, <1>5, <2>1, BytesAreNumbers
<1>7. WriteMessage(id, v) = Byte(id) \o w
  BY <1>1, <1>2, Zenon DEF WriteMessage, WrittenId, Byte
<1>8. Byte(id) \o w \in Seq(Octets) /\ Byte(id) \o w = (Byte(id) \o p) \o r
  <2>1. Byte(id) \o w \in Seq(Octets)
    BY <1>4, <1>6, ConcatProperties
  <2>2. (Byte(id) \o p) \o r = Byte(id) \o (p \o r)
    BY <1>6, NatsAssociative
  <2> QED
    BY <1>3, <2>1, <2>2
<1>9. ASSUME NEW t \in Seq(Nat), UnderstoodAs(layout, v, Read(layout, p \o t))
      PROVE  Heard(id, v, (Byte(id) \o p) \o t)
  <2>1. PICK s \in Seq(Nat) : s = p \o t /\ (Byte(id) \o p) \o t = Byte(id) \o s
    <3>1. (Byte(id) \o p) \o t = Byte(id) \o (p \o t)
      BY <1>6, NatsAssociative
    <3>2. p \o t \in Seq(Nat)
      BY <1>6, ConcatProperties
    <3> QED
      BY <3>1, <3>2
  <2>2. ReadMessage(Byte(id) \o s) = Read(layout, s)
    BY <1>1, <1>2, IdFirst
  <2>3. Byte(id) \o s \in Seq(Nat) /\ Byte(id) \o s # <<>> /\ Head(Byte(id) \o s) = id
    BY <1>1, IdFirst
  <2>4. Heard(id, v, Byte(id) \o s)
    BY <1>2, <1>9, <2>1, <2>2, <2>3 DEF Heard
  <2> QED
    BY <2>1, <2>4
<1>10. ASSUME EndsInAddress(id, m), NEW t \in Seq(Nat) PROVE Heard(id, v, (Byte(id) \o p) \o t)
  <2>1. "Address" \in ToSet(layout[m + 1].of)
    BY <1>2, <1>10 DEF EndsInAddress
  <2>2. UnderstoodAs(layout, v, Read(layout, p \o t))
    BY <1>1, <1>2, <2>1, SomePass
  <2> QED
    BY <1>9, <2>2
<1>11. ASSUME EndsInTimes(id, n, m, v) PROVE Heard(id, v, (Byte(id) \o p) \o r)
  <2>1. \A i \in m + 1 .. n : \E kind \in {Time, "IsOne"} : layout[i] = One(kind)
    BY <1>2, <1>11 DEF EndsInTimes
  <2>2. Len(r) >= 2 * (n - m)
    <3>1. Len(WriteField(layout[m + 1], v[m + 1])) >= 2 * (n - m)
      BY <1>2, <1>11 DEF EndsInTimes
    <3>2. Len(WriteField(layout[m + 1], v[m + 1])) \in Nat
      <4>1. m + 1 \in 1 .. n
        BY <1>1
      <4>2. WriteField(layout[m + 1], v[m + 1]) \in Seq(Octets)
        BY <1>1, <1>2, <4>1 DEF FieldsWritten
      <4> QED
        BY <4>2
    <3> QED
      BY <1>1, <1>3, <3>1, <3>2
  <2>3. UnderstoodAs(layout, v, Read(layout, p \o r))
    BY <1>1, <1>2, <1>6, <2>1, <2>2, SomePass
  <2> QED
    BY <1>6, <1>9, <2>3
<1> QED
  BY <1>2, <1>5, <1>6, <1>7, <1>8, <1>10, <1>11

--------------------------------------------------------------------------------
(* A list, with its length before it.                                        *)

\* Sequences that are not empty are at least as long together as they are many.
LEMMA LongEnough ==
    ASSUME NEW r \in Seq(Seq(Octets)), \A i \in 1 .. Len(r) : Len(r[i]) >= 1
    PROVE  Len(FlattenSeq(r)) >= Len(r)
<1> DEFINE Full(s) == \A i \in 1 .. Len(s) : Len(s[i]) >= 1
           T == {s \in Seq(Seq(Octets)) : Full(s) => Len(FlattenSeq(s)) >= Len(s)}
<1>1. <<>> \in T
  <2>1. Len(FlattenSeq(<<>>)) = 0 /\ <<>> \in Seq(Seq(Octets)) /\ Len(<<>>) = 0
    BY FlattenEmpty
  <2> QED
    BY <2>1
<1>2. ASSUME NEW s \in T, NEW x \in Seq(Octets) PROVE Append(s, x) \in T
  <2> DEFINE t == Append(s, x)
  <2>1. /\ s \in Seq(Seq(Octets)) /\ t \in Seq(Seq(Octets)) /\ Len(t) = Len(s) + 1
        /\ t[Len(s) + 1] = x /\ (\A i \in 1 .. Len(s) : t[i] = s[i])
    OBVIOUS
  <2>2. Len(s) \in Nat /\ FlattenSeq(s) \in Seq(Octets)
    BY <2>1, FlattenType
  <2>3. FlattenSeq(t) = FlattenSeq(s) \o x
    BY <2>1, FlattenAppend
  <2> HIDE DEF t
  <2>4. ASSUME Full(t) PROVE Len(FlattenSeq(t)) >= Len(t)
    <3>1. Full(s) /\ Len(x) >= 1
      <4>1. \A i \in 1 .. Len(s) : i \in 1 .. Len(t)
        BY <2>1, <2>2
      <4>2. Len(s) + 1 \in 1 .. Len(t)
        BY <2>1, <2>2
      <4> QED
        BY <2>1, <2>4, <4>1, <4>2
    <3>2. Len(FlattenSeq(s)) >= Len(s)
      BY <3>1
    <3>3. /\ Len(FlattenSeq(s) \o x) = Len(FlattenSeq(s)) + Len(x)
          /\ Len(FlattenSeq(s)) \in Nat /\ Len(x) \in Nat
      BY <2>2, ConcatProperties
    <3> QED
      BY <2>1, <2>2, <2>3, <3>1, <3>2, <3>3
  <2> QED
    BY <2>1, <2>4 DEF t
<1> HIDE DEF T
<1>3. T = Seq(Seq(Octets))
  <2>1. T \subseteq Seq(Seq(Octets))
    BY DEF T
  <2> QED
    BY <1>1, <1>2, <2>1, SequenceInduction
<1> QED
  BY <1>3 DEF T

\* The length of a list, as two bytes, and back.
LEMMA LengthBack ==
    ASSUME NEW n \in Words
    PROVE  /\ Length("U16BE", n) = <<n \div 256, n % 256>>
           /\ Length("U16BE", n) \in Seq(Octets) /\ Len(Length("U16BE", n)) = 2
           /\ Count("U16BE", Length("U16BE", n)) = n
<1>1. n \div 256 \in Octets /\ n % 256 \in Octets /\ 256 * (n \div 256) + (n % 256) = n
  <2>1. n \in Nat /\ n < 65536
    BY DEF Words
  <2>2. n \div 256 \in 0 .. 255 /\ n % 256 \in 0 .. 255 /\ 256 * (n \div 256) + (n % 256) = n
    BY <2>1
  <2> QED
    BY <2>2, Zenon DEF Octets
<1>2. PICK b : b = <<n \div 256, n % 256>>
  BY Zenon
<1>3. b \in Seq(Octets) /\ Len(b) = 2 /\ b[1] = n \div 256 /\ b[2] = n % 256
  BY <1>1, <1>2
<1>4. PICK z : z = Zeros(2 - 2) /\ z = <<>>
  BY DEF Zeros
<1>5. Length("U16BE", n) = z \o b
  <2>1. Length("U16BE", n) = Zeros(Width("U16BE") - 2) \o <<n \div 256, n % 256>>
    BY DEF Length, Varints, Unsigned
  <2>2. Width("U16BE") = 2
    BY DEF Width
  <2> QED
    BY <1>2, <1>4, <2>1, <2>2, Zenon
<1>6. z \o b = b
  <2>1. <<>> \o b = b
    BY <1>3
  <2> QED
    BY <1>4, <2>1, Zenon
<1>7. Count("U16BE", b) = n
  <2>1. SubSeq(b, 1, 2 - 2) = <<>>
    BY <1>3
  <2>2. Count("U16BE", b) = IF SubSeq(b, 1, 2 - 2) # Zeros(2 - 2) THEN 2^24 ELSE 256 * b[2 - 1] + b[2]
    BY <1>3 DEF Count, Varints, Unsigned
  <2>3. Count("U16BE", b) = 256 * b[2 - 1] + b[2]
    BY <1>4, <2>1, <2>2, Zenon
  <2>4. 2 - 1 = 1
    OBVIOUS
  <2>5. 256 * b[2 - 1] + b[2] = 256 * (n \div 256) + (n % 256)
    BY <1>3, <2>4, Zenon
  <2> QED
    BY <1>1, <2>3, <2>5, Zenon
<1>8. Length("U16BE", n) = b
  BY <1>5, <1>6, Zenon
<1>9. Length("U16BE", n) \in Seq(Octets) /\ Len(Length("U16BE", n)) = 2
  BY <1>3, <1>8, Zenon
<1>10. Count("U16BE", Length("U16BE", n)) = n
  BY <1>7, <1>8, Zenon
<1>11. Length("U16BE", n) = <<n \div 256, n % 256>>
  BY <1>2, <1>8, Zenon
<1> QED
  BY <1>9, <1>10, <1>11, Zenon

\* Words are numbers.
LEMMA WordsAreNumbers == \A n \in Words : n \in Nat
  BY DEF Words

\* A list of elements that pass.
LEMMA ListPasses ==
    ASSUME NEW V, NEW kinds, NEW n \in Words, NEW v \in Seq(V), Len(v) = n,
           \A i \in 1 .. n : ElementPasses(kinds, v[i]) /\ Len(WriteElement(kinds, v[i])) >= 1
    PROVE  FieldPasses(Many("U16BE", kinds), v)
<1> DEFINE field == Many("U16BE", kinds)
           parts == [i \in DOMAIN v |-> WriteElement(kinds, v[i])]
           w == FlattenSeq(parts)
<1>0. n \in Nat /\ DOMAIN v = 1 .. n
  <2>1. n \in Nat
    BY WordsAreNumbers, Zenon
  <2> QED
    BY <2>1
<1>1. field.of = kinds /\ field.count = "U16BE" /\ IsList(field)
  BY DEF Many, IsList
<1>2. /\ parts \in Seq(Seq(Octets)) /\ parts \in Seq(Seq(Nat)) /\ Len(parts) = n
      /\ \A i \in 1 .. n : parts[i] = WriteElement(kinds, v[i])
  <2>1. \A i \in 1 .. n : WriteElement(kinds, v[i]) \in Seq(Octets) /\ WriteElement(kinds, v[i]) \in Seq(Nat)
    BY BytesAreNumbers DEF ElementPasses
  <2> QED
    BY <1>0, <2>1
<1>3. [i \in DOMAIN v |-> WriteElement(field.of, v[i])] = parts
  BY <1>1, Zenon
<1> HIDE DEF parts, field, w
<1>4. w \in Seq(Octets) /\ w \in Seq(Nat) /\ Len(w) >= n
  <2>1. \A i \in 1 .. Len(parts) : Len(parts[i]) >= 1
    BY <1>2
  <2>2. w \in Seq(Octets) /\ Len(w) >= n
    BY <1>2, <2>1, FlattenType, LongEnough DEF w
  <2> QED
    BY <2>2, BytesAreNumbers
<1>5. PICK l : l = Length("U16BE", n) /\ l \in Seq(Octets) /\ Len(l) = 2 /\ Count("U16BE", l) = n
  BY LengthBack
<1>6. Passes("U16BE", l)
  <2>1. Width("U16BE") = 2 /\ "U16BE" \in Fixed
    BY DEF Width, Fixed
  <2> QED
    BY <1>5, <2>1, FixedPasses
<1>7. PICK q : q = Put("U16BE", l) /\ q \in Seq(Octets) /\ q \in Seq(Nat)
               /\ \A t \in Seq(Nat) : Get("U16BE", q \o t) = Done(l, t)
  BY <1>6, BytesAreNumbers DEF Passes
<1>8. WriteField(field, v) = q \o w
  BY <1>1, <1>3, <1>5, <1>7, Zenon DEF WriteField, w
<1>9. q \o w \in Seq(Octets)
  BY <1>4, <1>7, ConcatProperties
<1>10. ASSUME NEW t \in Seq(Nat) PROVE ReadField(field, (q \o w) \o t) = Done(v, t)
  <2>1. PICK s \in Seq(Nat) : s = w \o t /\ (q \o w) \o t = q \o s
    <3>1. (q \o w) \o t = q \o (w \o t)
      BY <1>4, <1>7, NatsAssociative
    <3>2. w \o t \in Seq(Nat)
      BY <1>4, ConcatProperties
    <3> QED
      BY <3>1, <3>2
  <2>2. n <= Len(s)
    <3>1. Len(s) = Len(w) + Len(t) /\ Len(w) \in Nat /\ Len(t) \in Nat
      BY <1>4, <2>1, ConcatProperties
    <3> QED
      BY <1>0, <1>4, <3>1
  <2>3. PICK y : y = Get(field.count, q \o s) /\ y = Done(l, s)
    BY <1>1, <1>7, Zenon
  <2>4. Works(y) /\ y.value = l /\ y.rest = s
    BY <2>3, DoneIs, Zenon
  <2>5. ReadField(field, q \o s) =
          LET count == Count(field.count, l)
              bound == IF count <= Len(s) THEN count ELSE Len(s) + 1
          IN  InTurn(bound, LAMBDA i, r : ReadElement(field.of, r), s)
    BY <1>1, <2>3, <2>4, Zenon DEF ReadField, Then, Works
  <2>6. ReadField(field, q \o s) = Elements(kinds, n, s)
    <3>1. Count(field.count, l) = n
      BY <1>1, <1>5, Zenon
    <3>2. ReadField(field, q \o s) = Elements(field.of, n, s)
      BY <2>2, <2>5, <3>1, Zenon DEF Elements
    <3> QED
      BY <1>1, <3>2, Zenon
  <2>7. PICK f : Reads(f, "elements", kinds, n, s) /\ Elements(kinds, n, s) = f[n]
    BY <1>0, ElementsRead
  <2>8. \A i \in 1 .. n : \A u \in Seq(Nat) : Item("elements", kinds, i, parts[i] \o u) = Done(v[i], u)
    <3>1. ASSUME NEW i \in 1 .. n, NEW u \in Seq(Nat)
          PROVE  Item("elements", kinds, i, parts[i] \o u) = Done(v[i], u)
      <4>1. Item("elements", kinds, i, parts[i] \o u) = ReadElement(kinds, parts[i] \o u)
        BY DEF Item
      <4>2. ReadElement(kinds, WriteElement(kinds, v[i]) \o u) = Done(v[i], u)
        BY <3>1 DEF ElementPasses
      <4> QED
        BY <1>2, <4>1, <4>2
    <3> QED
      BY <3>1
  <2>9. AreParts(V, "elements", kinds, n, parts, v)
    BY <1>2, <2>8, Zenon DEF AreParts
  <2>10. f[n] = Done(v, t)
    <3>1. n \in 0 .. n
      BY <1>0
    <3> QED
      BY <1>0, <2>1, <2>7, <2>9, <3>1, PartsRead DEF w
  <2> QED
    BY <2>1, <2>6, <2>7, <2>10, Zenon
<1>11. FieldPasses(field, v)
  BY <1>8, <1>9, <1>10, Zenon DEF FieldPasses
<1> QED
  BY <1>11 DEF field

\* What the fields of the messages of the handshake may be.
LEMMA OfflineContents ==
    /\ \A v \in Contents(UnconnectedPing) : v = <<Just(Now), MagicValue, Just(Guid)>>
    /\ \A v \in Contents(UnconnectedPong) : \E data \in {<<>>, <<<<<<77>>>>, <<<<67>>>>>>} :
          v = <<Just(Now), Just(Guid), MagicValue, data>>
    /\ \A v \in Contents(OpenConnectionRequest1) : v = <<MagicValue, Protocol>>
    /\ \A v \in Contents(OpenConnectionReply1) : \E f \in Flags, mtu \in Mtus :
          v = <<MagicValue, Just(Guid), f, Word(mtu)>>
    /\ \A v \in Contents(OpenConnectionRequest2) : \E a \in Endpoints, mtu \in Mtus :
          v = <<MagicValue, Just(a), Word(mtu), Just(Guid)>>
    /\ \A v \in Contents(OpenConnectionReply2) : \E a \in Endpoints, mtu \in Mtus, f \in Flags :
          v = <<MagicValue, Just(Guid), Just(a), Word(mtu), f>>
<1> USE DEF ConnectedPing, UnconnectedPing, UnconnectedPong, OpenConnectionRequest1,
            OpenConnectionRequest2, OpenConnectionReply1, OpenConnectionReply2,
            ConnectedPong, ConnectionRequest, ConnectionRequestAccepted, NewIncomingConnection
<1>1. \A v \in Contents(UnconnectedPing) : v = <<Just(Now), MagicValue, Just(Guid)>>
  BY DEF Contents
<1>2. \A v \in Contents(UnconnectedPong) : \E data \in {<<>>, <<<<<<77>>>>, <<<<67>>>>>>} :
          v = <<Just(Now), Just(Guid), MagicValue, data>>
  BY DEF Contents
<1>3. \A v \in Contents(OpenConnectionRequest1) : v = <<MagicValue, Protocol>>
  BY DEF Contents
<1>4. \A v \in Contents(OpenConnectionReply1) : \E f \in Flags, mtu \in Mtus :
          v = <<MagicValue, Just(Guid), f, Word(mtu)>>
  BY DEF Contents
<1>5. \A v \in Contents(OpenConnectionRequest2) : \E a \in Endpoints, mtu \in Mtus :
          v = <<MagicValue, Just(a), Word(mtu), Just(Guid)>>
  BY DEF Contents
<1>6. \A v \in Contents(OpenConnectionReply2) : \E a \in Endpoints, mtu \in Mtus, f \in Flags :
          v = <<MagicValue, Just(Guid), Just(a), Word(mtu), f>>
  BY DEF Contents
<1> QED
  BY <1>1, <1>2, <1>3, <1>4, <1>5, <1>6, Zenon

\* The system addresses of a server: its own, and another nineteen times.
Known(a, b) == [i \in 1 .. 20 |-> IF i = 1 THEN a ELSE b]

\* What the fields of the messages inside a connection may be.
LEMMA OnlineContents ==
    /\ \A v \in Contents(ConnectionRequest) : v = <<Just(Guid), Just(Now), Just(Byte(0))>>
    /\ \A v \in Contents(ConnectionRequestAccepted) : \E a \in Endpoints, b \in Endpoints :
          v = <<Just(NoEndpoint), Word(0), <<Known(a, b)>>, Just(Now), Just(Now)>>
    /\ \A v \in Contents(NewIncomingConnection) :
          v = <<Just(NoEndpoint), <<told>>, Just(Now), Just(Now)>>
    /\ \A v \in Contents(ConnectedPing) : v = <<Just(Now)>>
    /\ \A v \in Contents(ConnectedPong) : v = <<Just(Now), Just(Now)>>
<1> USE DEF ConnectedPing, UnconnectedPing, UnconnectedPong, OpenConnectionRequest1,
            OpenConnectionRequest2, OpenConnectionReply1, OpenConnectionReply2,
            ConnectedPong, ConnectionRequest, ConnectionRequestAccepted, NewIncomingConnection
<1>1. \A v \in Contents(ConnectionRequest) : v = <<Just(Guid), Just(Now), Just(Byte(0))>>
  BY DEF Contents, Byte
<1>2. \A v \in Contents(ConnectionRequestAccepted) : \E a \in Endpoints, b \in Endpoints :
          v = <<Just(NoEndpoint), Word(0), <<Known(a, b)>>, Just(Now), Just(Now)>>
  BY DEF Contents, Known
<1>3. \A v \in Contents(NewIncomingConnection) :
          v = <<Just(NoEndpoint), <<told>>, Just(Now), Just(Now)>>
  BY DEF Contents
<1>4. \A v \in Contents(ConnectedPing) : v = <<Just(Now)>>
  BY DEF Contents
<1>5. \A v \in Contents(ConnectedPong) : v = <<Just(Now), Just(Now)>>
  BY DEF Contents
<1> QED
  BY <1>1, <1>2, <1>3, <1>4, <1>5, Zenon

\* The bytes of the messages: those that are filled up to the MTU, and the others.
LEMMA EncodingsAre ==
    /\ \A v : \A b \in Encodings(OpenConnectionRequest1, v) :
          \E mtu \in Mtus : b = WriteRequest1(v[2], mtu)
    /\ \A v : \A b \in Encodings(OpenConnectionRequest2, v) :
          b = Fill(WriteMessage(OpenConnectionRequest2, v), v[3][1][1][1] * 256 + v[3][1][1][2])
    /\ \A id, v : id # OpenConnectionRequest1 /\ id # OpenConnectionRequest2
          => \A b \in Encodings(id, v) : b = WriteMessage(id, v)
<1>1. OpenConnectionRequest1 # OpenConnectionRequest2
  BY DEF OpenConnectionRequest1, OpenConnectionRequest2
<1>2. \A v : \A b \in Encodings(OpenConnectionRequest1, v) :
          \E mtu \in Mtus : b = WriteRequest1(v[2], mtu)
  BY <1>1 DEF Encodings
<1>3. \A v : \A b \in Encodings(OpenConnectionRequest2, v) :
          b = Fill(WriteMessage(OpenConnectionRequest2, v), v[3][1][1][1] * 256 + v[3][1][1][2])
  BY <1>1 DEF Encodings
<1>4. \A id, v : id # OpenConnectionRequest1 /\ id # OpenConnectionRequest2
          => \A b \in Encodings(id, v) : b = WriteMessage(id, v)
  BY DEF Encodings
<1> QED
  BY <1>2, <1>3, <1>4, Zenon

--------------------------------------------------------------------------------
(* Each message of the conversation.                                        *)

\* The layouts, message by message.
LEMMA OfflineLayouts ==
    /\ Layout(UnconnectedPing) = <<One("U64BE"), Magic, One("U64BE")>>
    /\ Layout(UnconnectedPong) = <<One("U64BE"), One("U64BE"), Magic, Many("U16BE", <<"U8">>)>>
    /\ Layout(OpenConnectionRequest1) = <<Magic, One("U8")>>
    /\ Layout(OpenConnectionRequest2) = <<Magic, One("Address"), One("U16BE"), One("U64BE")>>
    /\ Layout(OpenConnectionReply1) = <<Magic, One("U64BE"), One("IsOne"), One("U16BE")>>
    /\ Layout(OpenConnectionReply2) =
          <<Magic, One("U64BE"), One("Address"), One("U16BE"), One("IsOne")>>
<1> USE DEF Layout, Online, OfflineLayout, UnconnectedPing, UnconnectedPong, OpenConnectionRequest1,
            OpenConnectionRequest2, OpenConnectionReply1, OpenConnectionReply2, ConnectedPing,
            ConnectedPong, ConnectionRequest, ConnectionRequestAccepted, NewIncomingConnection,
            IncompatibleProtocolVersion
<1>1. Layout(UnconnectedPing) = <<One("U64BE"), Magic, One("U64BE")>>
  OBVIOUS
<1>2. Layout(UnconnectedPong) = <<One("U64BE"), One("U64BE"), Magic, Many("U16BE", <<"U8">>)>>
  OBVIOUS
<1>3. Layout(OpenConnectionRequest1) = <<Magic, One("U8")>>
  OBVIOUS
<1>4. Layout(OpenConnectionRequest2) = <<Magic, One("Address"), One("U16BE"), One("U64BE")>>
  OBVIOUS
<1>5. Layout(OpenConnectionReply1) = <<Magic, One("U64BE"), One("IsOne"), One("U16BE")>>
  OBVIOUS
<1>6. Layout(OpenConnectionReply2) =
          <<Magic, One("U64BE"), One("Address"), One("U16BE"), One("IsOne")>>
  OBVIOUS
<1> QED
  BY <1>1, <1>2, <1>3, <1>4, <1>5, <1>6

\* The layouts of the messages inside a connection.
LEMMA OnlineLayouts ==
    /\ Layout(ConnectedPing) = <<One("I64BE")>>
    /\ Layout(ConnectedPong) = <<One("I64BE"), One("I64BE")>>
    /\ Layout(ConnectionRequest) = <<One("I64BE"), One("I64BE"), One("IsOne")>>
    /\ Layout(ConnectionRequestAccepted) =
          <<One("Address"), One("I16BE"), Addresses, One("I64BE"), One("I64BE")>>
    /\ Layout(NewIncomingConnection) = <<One("Address"), Addresses, One("I64BE"), One("I64BE")>>
<1> USE DEF Layout, Online, OnlineLayout, ConnectedPing, ConnectedPong, ConnectionRequest,
            ConnectionRequestAccepted, NewIncomingConnection
<1>1. Layout(ConnectedPing) = <<One("I64BE")>>
  OBVIOUS
<1>2. Layout(ConnectedPong) = <<One("I64BE"), One("I64BE")>>
  OBVIOUS
<1>3. Layout(ConnectionRequest) = <<One("I64BE"), One("I64BE"), One("IsOne")>>
  OBVIOUS
<1>4. Layout(ConnectionRequestAccepted) =
          <<One("Address"), One("I16BE"), Addresses, One("I64BE"), One("I64BE")>>
  OBVIOUS
<1>5. Layout(NewIncomingConnection) = <<One("Address"), Addresses, One("I64BE"), One("I64BE")>>
  OBVIOUS
<1> QED
  BY <1>1, <1>2, <1>3, <1>4, <1>5

\* The messages of the conversation but the one with a Read of its own.
Spoken == {UnconnectedPing, UnconnectedPong, OpenConnectionRequest1, OpenConnectionReply1,
           OpenConnectionRequest2, OpenConnectionReply2, ConnectionRequest,
           ConnectionRequestAccepted, ConnectedPing, ConnectedPong}

\* Their ids are bytes, each of one message.
LEMMA SpokenPlain == \A id \in Spoken : id \in Plain /\ id \in Octets
  BY DEF Spoken, Plain, Octets, UnconnectedPing, UnconnectedPong, OpenConnectionRequest1,
         OpenConnectionReply1, OpenConnectionRequest2, OpenConnectionReply2, ConnectionRequest,
         ConnectionRequestAccepted, ConnectedPing, ConnectedPong, NewIncomingConnection,
         IncompatibleProtocolVersion

\* A ping outside a connection is heard.
LEMMA UnconnectedPingHeard ==
    ASSUME NEW v \in Contents(UnconnectedPing), NEW b \in Encodings(UnconnectedPing, v)
    PROVE  b \in Seq(Octets) /\ Heard(UnconnectedPing, v, b)
<1>1. PICK id \in Spoken : id = UnconnectedPing
  BY DEF Spoken
<1>2. PICK e1, e2, e3 : e1 = Just(Now) /\ e2 = MagicValue /\ e3 = Just(Guid)
  OBVIOUS
<1>3. PICK f1, f2 : f1 = One("U64BE") /\ f2 = Magic
  OBVIOUS
<1>4. v = <<e1, e2, e3>>
  BY <1>1, <1>2, OfflineContents
<1>5. Layout(id) = <<f1, f2, f1>>
  BY <1>1, <1>3, OfflineLayouts
<1>6. b = WriteMessage(id, v)
  BY <1>1, EncodingsAre DEF UnconnectedPing, OpenConnectionRequest1, OpenConnectionRequest2
<1>7. FieldPasses(f1, e1) /\ FieldPasses(f2, e2) /\ FieldPasses(f1, e3)
  BY <1>2, <1>3, EightPass, MagicPasses DEF Eight
<1>8. PICK V : e1 \in V /\ e2 \in V /\ e3 \in V
  <2>1. e1 \in {e1, e2, e3} /\ e2 \in {e1, e2, e3} /\ e3 \in {e1, e2, e3}
    OBVIOUS
  <2> QED
    BY <2>1, Zenon
<1>9. GoodMessage(V, id, 3, v)
  <2>1. v \in Seq(V) /\ Len(v) = 3 /\ v[1] = e1 /\ v[2] = e2 /\ v[3] = e3
    BY <1>4, <1>8
  <2>2. PICK layout : layout = Layout(id)
    OBVIOUS
  <2>3. /\ Len(layout) = 3 /\ DOMAIN layout = 1 .. 3
        /\ layout[1] = f1 /\ layout[2] = f2 /\ layout[3] = f1
    BY <1>5, <2>2
  <2>4. \A i \in 1 .. 3 : i = 1 \/ i = 2 \/ i = 3
    OBVIOUS
  <2>5. FieldsPass(layout, v, 3)
    BY <1>7, <2>1, <2>3, <2>4, Zenon DEF FieldsPass
  <2> QED
    BY <1>1, <2>1, <2>2, <2>3, <2>5, SpokenPlain DEF GoodMessage
<1> QED
  BY <1>1, <1>6, <1>9, GoodHeard

\* Sizes of datagrams are words.
LEMMA MtusAreWords == \A mtu \in Mtus : mtu \in Words /\ mtu \in Nat /\ mtu >= 46
<1> SUFFICES ASSUME NEW mtu \in Mtus PROVE mtu \in Words /\ mtu \in Nat /\ mtu >= 46
  OBVIOUS
<1>1. mtu \in 46 .. 1500
  BY ExchangeAssumption
<1>2. mtu \in Nat /\ mtu >= 46 /\ mtu < 65536
  BY <1>1
<1>3. mtu \in Words
  BY <1>2 DEF Words
<1> QED
  BY <1>2, <1>3

\* The data of a pong: no byte, or two.
LEMMA DataPasses ==
    \A data \in {<<>>, << << << 77 >> >>, << << 67 >> >> >>} : FieldPasses(Many("U16BE", <<"U8">>), data)
<1> SUFFICES ASSUME NEW data \in {<<>>, << << << 77 >> >>, << << 67 >> >> >>}
             PROVE  FieldPasses(Many("U16BE", <<"U8">>), data)
  OBVIOUS
<1>1. PICK kind : kind = "U8"
  OBVIOUS
<1> DEFINE E == {<<Byte(77)>>, <<Byte(67)>>}
<1>2. data \in Seq(E) /\ Len(data) \in {0, 2}
  <2>1. PICK x, y : x = <<Byte(77)>> /\ y = <<Byte(67)>>
    OBVIOUS
  <2>2. x \in E /\ y \in E
    BY <2>1, Zenon
  <2>3. data = <<>> \/ data = <<x, y>>
    BY <2>1 DEF Byte
  <2> HIDE DEF E
  <2>4. <<x, y>> \in Seq(E) /\ Len(<<x, y>>) = 2
    BY <2>2
  <2>5. <<>> \in Seq(E) /\ Len(<<>>) = 0
    OBVIOUS
  <2>6. 0 \in {0, 2} /\ 2 \in {0, 2}
    OBVIOUS
  <2> QED
    BY <2>3, <2>4, <2>5, <2>6, Zenon
<1>3. ASSUME NEW n \in {77, 67}
      PROVE  ElementPasses(<<kind>>, <<Byte(n)>>) /\ Len(WriteElement(<<kind>>, <<Byte(n)>>)) >= 1
  <2>1. PICK b : b = Byte(n) /\ b \in Seq(Octets) /\ Len(b) = 1
    <3>1. n \in Octets
      BY DEF Octets
    <3>2. Byte(n) \in Seq(Octets) /\ Len(Byte(n)) = 1
      BY <3>1 DEF Byte
    <3> QED
      BY <3>2, Zenon
  <2>2. Width(kind) = 1 /\ kind \in Fixed
    BY <1>1 DEF Width, Fixed
  <2>3. Passes(kind, b)
    <3>1. b \in Seq(Octets) /\ Len(b) = Width(kind) /\ kind \in Fixed
      BY <2>1, <2>2, Zenon
    <3> QED
      BY <3>1, FixedPasses
  <2>4. PICK V, K : V = Seq(Octets) /\ K = {kind}
    OBVIOUS
  <2> DEFINE kinds == <<kind>>
             e == <<b>>
  <2>5. kinds \in Seq(K) /\ Len(kinds) = 1 /\ kinds[1] = kind /\ DOMAIN kinds = 1 .. 1
    BY <2>4
  <2>6. e \in Seq(V) /\ Len(e) = 1 /\ e[1] = b
    BY <2>1, <2>4
  <2> HIDE DEF kinds, e
  <2>7. \A j \in 1 .. 1 : j = 1
    OBVIOUS
  <2>8. ElementPasses(kinds, e)
    <3>1. \A j \in 1 .. Len(kinds) : Passes(kinds[j], e[j])
      BY <2>3, <2>5, <2>6, <2>7, Zenon
    <3> QED
      BY <2>5, <2>6, <3>1, KindsPass
  <2>9. Len(WriteElement(kinds, e)) >= 1
    <3>1. [j \in DOMAIN kinds |-> Put(kinds[j], e[j])] = <<b>>
      <4>1. Put(kind, b) = b
        BY <1>1 DEF Put, BigEndian, LittleEndian
      <4> QED
        BY <2>5, <2>6, <4>1
    <3>2. WriteElement(kinds, e) = b
      BY <2>1, <3>1, FlattenOnly DEF WriteElement
    <3>3. Len(b) >= 1
      BY <2>1
    <3> QED
      BY <3>2, <3>3, Zenon
  <2> QED
    BY <2>1, <2>8, <2>9 DEF kinds, e
<1>4. \A i \in 1 .. Len(data) : data[i] \in E
  BY <1>2
<1> HIDE DEF E
<1>5. \A x \in E : ElementPasses(<<kind>>, x) /\ Len(WriteElement(<<kind>>, x)) >= 1
  BY <1>3 DEF E
<1>6. PICK n \in Words : n = Len(data)
  <2>1. 0 \in Words /\ 2 \in Words
    BY DEF Words
  <2> QED
    BY <1>2, <2>1, Zenon
<1>7. PICK kinds : kinds = <<kind>>
  OBVIOUS
<1>8. \A i \in 1 .. n : ElementPasses(kinds, data[i]) /\ Len(WriteElement(kinds, data[i])) >= 1
  BY <1>4, <1>5, <1>6, <1>7
<1>9. FieldPasses(Many("U16BE", kinds), data)
  BY <1>2, <1>6, <1>8, ListPasses
<1> QED
  BY <1>1, <1>7, <1>9

\* A pong outside a connection is heard.
LEMMA UnconnectedPongHeard ==
    ASSUME NEW v \in Contents(UnconnectedPong), NEW b \in Encodings(UnconnectedPong, v)
    PROVE  b \in Seq(Octets) /\ Heard(UnconnectedPong, v, b)
<1>1. PICK id \in Spoken : id = UnconnectedPong
  BY DEF Spoken
<1>2. PICK data : /\ data \in {<<>>, <<<<<<77>>>>, <<<<67>>>>>>}
                  /\ v = <<Just(Now), Just(Guid), MagicValue, data>>
  BY OfflineContents
<1>3. PICK e1, e2, e3 : e1 = Just(Now) /\ e2 = Just(Guid) /\ e3 = MagicValue
  OBVIOUS
<1>4. PICK f1, f2, f3 : f1 = One("U64BE") /\ f2 = Magic /\ f3 = Many("U16BE", <<"U8">>)
  OBVIOUS
<1>5. Layout(id) = <<f1, f1, f2, f3>>
  BY <1>1, <1>4, OfflineLayouts
<1>6. b = WriteMessage(id, v)
  BY <1>1, EncodingsAre DEF UnconnectedPong, OpenConnectionRequest1, OpenConnectionRequest2
<1>7. FieldPasses(f1, e1) /\ FieldPasses(f1, e2) /\ FieldPasses(f2, e3) /\ FieldPasses(f3, data)
  <2>1. FieldPasses(f3, data)
    BY <1>2, <1>4, DataPasses
  <2> QED
    BY <1>3, <1>4, <2>1, EightPass, MagicPasses DEF Eight
<1>8. PICK V : e1 \in V /\ e2 \in V /\ e3 \in V /\ data \in V
  <2>1. e1 \in {e1, e2, e3, data} /\ e2 \in {e1, e2, e3, data} /\ e3 \in {e1, e2, e3, data}
        /\ data \in {e1, e2, e3, data}
    OBVIOUS
  <2> QED
    BY <2>1, Zenon
<1>9. v = <<e1, e2, e3, data>>
  BY <1>2, <1>3

<1>10. GoodMessage(V, id, 4, v)
  <2>1. v \in Seq(V) /\ Len(v) = 4 /\ v[1] = e1 /\ v[2] = e2 /\ v[3] = e3 /\ v[4] = data
    BY <1>8, <1>9
  <2>2. PICK layout : layout = Layout(id)
    OBVIOUS
  <2>3. /\ Len(layout) = 4 /\ DOMAIN layout = 1 .. 4
        /\ layout[1] = f1 /\ layout[2] = f1 /\ layout[3] = f2 /\ layout[4] = f3
    BY <1>5, <2>2
  <2>4. \A i \in 1 .. 4 : i = 1 \/ i = 2 \/ i = 3 \/ i = 4
    OBVIOUS
  <2>5. FieldsPass(layout, v, 4)
    BY <1>7, <2>1, <2>3, <2>4, Zenon DEF FieldsPass
  <2> QED
    BY <1>1, <2>1, <2>2, <2>3, <2>5, SpokenPlain DEF GoodMessage
<1> QED
  BY <1>1, <1>6, <1>10, GoodHeard

\* The first reply is heard.
LEMMA OpenConnectionReply1Heard ==
    ASSUME NEW v \in Contents(OpenConnectionReply1), NEW b \in Encodings(OpenConnectionReply1, v)
    PROVE  b \in Seq(Octets) /\ Heard(OpenConnectionReply1, v, b)
<1>1. PICK id \in Spoken : id = OpenConnectionReply1
  BY DEF Spoken
<1>2. PICK flag \in Flags, mtu \in Mtus : v = <<MagicValue, Just(Guid), flag, Word(mtu)>>
  BY OfflineContents
<1>3. PICK e1, e2, e4 : e1 = MagicValue /\ e2 = Just(Guid) /\ e4 = Word(mtu)
  OBVIOUS
<1>4. PICK f1, f2, f3, f4 : f1 = Magic /\ f2 = One("U64BE") /\ f3 = One("IsOne") /\ f4 = One("U16BE")
  OBVIOUS
<1>5. Layout(id) = <<f1, f2, f3, f4>>
  BY <1>1, <1>4, OfflineLayouts
<1>6. b = WriteMessage(id, v)
  BY <1>1, EncodingsAre DEF OpenConnectionReply1, OpenConnectionRequest1, OpenConnectionRequest2
<1>7. FieldPasses(f1, e1) /\ FieldPasses(f2, e2) /\ FieldPasses(f3, flag) /\ FieldPasses(f4, e4)
  <2>1. FieldPasses(f3, flag)
    BY <1>4, FlagFieldPasses
  <2>2. FieldPasses(f4, e4)
    BY <1>3, <1>4, MtusAreWords, WordPasses
  <2> QED
    BY <1>3, <1>4, <2>1, <2>2, EightPass, MagicPasses DEF Eight
<1>8. PICK V : e1 \in V /\ e2 \in V /\ flag \in V /\ e4 \in V
  <2>1. e1 \in {e1, e2, flag, e4} /\ e2 \in {e1, e2, flag, e4} /\ flag \in {e1, e2, flag, e4}
        /\ e4 \in {e1, e2, flag, e4}
    OBVIOUS
  <2> QED
    BY <2>1, Zenon
<1>9. v = <<e1, e2, flag, e4>>
  BY <1>2, <1>3
<1>10. GoodMessage(V, id, 4, v)
  <2>1. v \in Seq(V) /\ Len(v) = 4 /\ v[1] = e1 /\ v[2] = e2 /\ v[3] = flag /\ v[4] = e4
    BY <1>8, <1>9
  <2>2. PICK layout : layout = Layout(id)
    OBVIOUS
  <2>3. /\ Len(layout) = 4 /\ DOMAIN layout = 1 .. 4
        /\ layout[1] = f1 /\ layout[2] = f2 /\ layout[3] = f3 /\ layout[4] = f4
    BY <1>5, <2>2
  <2>4. \A i \in 1 .. 4 : i = 1 \/ i = 2 \/ i = 3 \/ i = 4
    OBVIOUS
  <2>5. FieldsPass(layout, v, 4)
    BY <1>7, <2>1, <2>3, <2>4, Zenon DEF FieldsPass
  <2> QED
    BY <1>1, <2>1, <2>2, <2>3, <2>5, SpokenPlain DEF GoodMessage
<1> QED
  BY <1>1, <1>6, <1>10, GoodHeard

\* How long some fields are: a number of fixed width is written as its bytes.
LEMMA JustWritten ==
    ASSUME NEW kind, kind \in {"U8", "U16BE", "U64BE", Time}, NEW v \in Seq(Octets)
    PROVE  WriteField(One(kind), Just(v)) = v
<1>1. Put(kind, v) = v
  BY DEF Put, BigEndian, LittleEndian, Time
<1> QED
  BY <1>1, OneWritten

\* An address of version 4 takes seven bytes.
LEMMA AddressLength ==
    ASSUME NEW a, IsAddress(a), Head(a) = 4
    PROVE  Len(WriteField(One("Address"), Just(a))) = 7
<1>1. PICK b : b = Turned(a) /\ b \in Seq(Nat) /\ Len(b) = 6
  BY FourthVersion
<1>2. Put("Address", a) = <<4>> \o b
  <2>1. Put("Address", a) = WriteAddress(a)
    BY DEF Put, BigEndian, LittleEndian
  <2> QED
    BY <1>1, <2>1, FourthVersion
<1>3. Len(<<4>> \o b) = 7
  <2>1. <<4>> \in Seq(Nat) /\ Len(<<4>>) = 1
    OBVIOUS
  <2>2. Len(<<4>> \o b) = Len(<<4>>) + Len(b)
    BY <1>1, <2>1, ConcatProperties
  <2> QED
    BY <1>1, <2>1, <2>2
<1>4. WriteField(One("Address"), Just(a)) = Put("Address", a)
  <2>1. PICK kind : kind = "Address"
    OBVIOUS
  <2>2. Put(kind, a) \in Seq(Octets)
    BY <2>1, AddressWritten
  <2>3. WriteField(One(kind), Just(a)) = Put(kind, a)
    BY <2>2, OneWritten
  <2> QED
    BY <2>1, <2>3, Zenon
<1> QED
  BY <1>2, <1>3, <1>4, Zenon

\* The first of several fields.
LEMMA FirstLonger ==
    ASSUME NEW s \in Seq(Seq(Octets)), s # <<>>
    PROVE  /\ Tail(s) \in Seq(Seq(Octets))
           /\ FlattenSeq(s) \in Seq(Octets) /\ Len(FlattenSeq(s)) \in Nat
           /\ Len(FlattenSeq(s)) = Len(Head(s)) + Len(FlattenSeq(Tail(s)))
<1>1. Head(s) \in Seq(Octets) /\ Tail(s) \in Seq(Seq(Octets))
  OBVIOUS
<1>2. FlattenSeq(Tail(s)) \in Seq(Octets) /\ FlattenSeq(s) \in Seq(Octets)
  BY <1>1, FlattenType
<1>3. FlattenSeq(s) = Head(s) \o FlattenSeq(Tail(s))
  BY FlattenHead
<1>4. Len(Head(s) \o FlattenSeq(Tail(s))) = Len(Head(s)) + Len(FlattenSeq(Tail(s)))
  BY <1>1, <1>2, ConcatProperties
<1> QED
  BY <1>1, <1>2, <1>3, <1>4

\* Two fields.
LEMMA TwoLong ==
    ASSUME NEW a \in Seq(Octets), NEW b \in Seq(Octets)
    PROVE  Len(FlattenSeq(<<a, b>>)) = Len(a) + Len(b)
<1>1. PICK B, s : B = Seq(Octets) /\ s = <<a, b>>
  OBVIOUS
<1>2. s \in Seq(B) /\ s # <<>> /\ Head(s) = a /\ Tail(s) = <<b>>
  BY <1>1
<1>3. FlattenSeq(<<b>>) = b
  BY FlattenOnly
<1> QED
  BY <1>1, <1>2, <1>3, FirstLonger

\* Four fields.
LEMMA FourLong ==
    ASSUME NEW a \in Seq(Octets), NEW b \in Seq(Octets), NEW c \in Seq(Octets), NEW d \in Seq(Octets)
    PROVE  Len(FlattenSeq(<<a, b, c, d>>)) = Len(a) + Len(b) + Len(c) + Len(d)
<1>1. PICK B, s, t : B = Seq(Octets) /\ s = <<a, b, c, d>> /\ t = <<b, c, d>>
  OBVIOUS
<1>2. s \in Seq(B) /\ s # <<>> /\ Head(s) = a /\ Tail(s) = t
  BY <1>1
<1>3. t \in Seq(B) /\ t # <<>> /\ Head(t) = b /\ Tail(t) = <<c, d>>
  BY <1>1
<1>4. Len(FlattenSeq(<<c, d>>)) = Len(c) + Len(d)
  BY TwoLong
<1>5. Len(FlattenSeq(s)) = Len(a) + Len(FlattenSeq(t))
  BY <1>1, <1>2, FirstLonger
<1>6. Len(FlattenSeq(t)) = Len(b) + Len(FlattenSeq(<<c, d>>))
  BY <1>1, <1>3, FirstLonger
<1>7. Len(a) \in Nat /\ Len(b) \in Nat /\ Len(c) \in Nat /\ Len(d) \in Nat
  OBVIOUS
<1>8. FlattenSeq(s) = FlattenSeq(<<a, b, c, d>>)
  BY <1>1, Zenon
<1>9. Len(a) + (Len(b) + (Len(c) + Len(d))) = Len(a) + Len(b) + Len(c) + Len(d)
  BY <1>7
<1> QED
  BY <1>4, <1>5, <1>6, <1>8, <1>9, Zenon

\* The magic takes sixteen bytes.
LEMMA MagicLength == WriteField(Magic, MagicValue) \in Seq(Octets) /\ Len(WriteField(Magic, MagicValue)) = 16
<1>1. PICK a, b : /\ a = <<0, 255, 255, 0, 254, 254, 254, 254>>
                  /\ b = <<253, 253, 253, 253, 18, 52, 86, 120>>
  OBVIOUS
<1>2. a \in Seq(Octets) /\ Len(a) = 8
  BY <1>1 DEF Octets
<1>3. b \in Seq(Octets) /\ Len(b) = 8
  BY <1>1 DEF Octets
<1>4. PICK kinds, e, kind : kind = "U64BE" /\ kinds = <<kind, kind>> /\ e = <<a, b>>
  OBVIOUS
<1>5. MagicValue = <<e>> /\ Magic = Group(kinds)
  <2>1. MagicValue = <<e>>
    BY <1>1, <1>4, SMTT(30) DEF MagicValue
  <2>2. Magic = Group(kinds)
    BY <1>4, Zenon DEF Magic
  <2> QED
    BY <2>1, <2>2, Zenon
<1>6. [j \in DOMAIN kinds |-> Put(kinds[j], e[j])] = <<a, b>>
  <2>1. Put(kind, a) = a /\ Put(kind, b) = b
    BY <1>4 DEF Put, BigEndian, LittleEndian
  <2>2. DOMAIN kinds = 1 .. 2 /\ kinds[1] = kind /\ kinds[2] = kind /\ e[1] = a /\ e[2] = b
    BY <1>4
  <2> DEFINE f == [j \in 1 .. 2 |-> Put(kinds[j], e[j])]
  <2>3. f[1] = a /\ f[2] = b
    BY <2>1, <2>2
  <2>4. f = <<a, b>>
    BY <2>3
  <2> QED
    BY <2>2, <2>4
<1>7. WriteElement(kinds, e) = FlattenSeq(<<a, b>>)
  BY <1>6 DEF WriteElement
<1>8. Len(WriteElement(kinds, e)) = 16
  <2>1. Len(FlattenSeq(<<a, b>>)) = Len(a) + Len(b)
    BY <1>2, <1>3, TwoLong
  <2>2. Len(a) + Len(b) = 16
    BY <1>2, <1>3
  <2> QED
    BY <1>7, <2>1, <2>2, Zenon
<1>9. WriteField(Magic, MagicValue) \in Seq(Octets)
  BY MagicPasses DEF FieldPasses
<1>10. WriteElement(kinds, e) \in Seq(Octets)
  <2>1. <<a, b>> \in Seq(Seq(Octets))
    BY <1>2, <1>3
  <2> QED
    BY <1>7, <2>1, FlattenType
<1>11. WriteField(Group(kinds), <<e>>) = WriteElement(kinds, e)
  BY <1>10, GroupWritten
<1> QED
  BY <1>5, <1>8, <1>9, <1>11

\* The fields that do not survive: a time, and an address that is not of version 4.
LEMMA TimeLost == \A v : ~SurvivesField(One(Time), Just(v))
<1> SUFFICES ASSUME NEW v PROVE ~SurvivesField(One(Time), Just(v))
  OBVIOUS
<1>1. ~Survives(Time, v)
  BY DEF Survives, Time
<1>2. PICK kind : kind = Time
  OBVIOUS
<1>3. PICK f, w : f = One(kind) /\ w = Just(v)
  OBVIOUS
<1>4. 1 \in DOMAIN w /\ 1 \in DOMAIN f.of /\ f.of[1] = kind /\ w[1][1] = v
  BY <1>3 DEF One, Just
<1> QED
  BY <1>1, <1>2, <1>3, <1>4 DEF SurvivesField

\* Only an address of version 4 survives.
LEMMA AddressLost ==
    \A a : /\ Head(a) # 4 => ~SurvivesField(One("Address"), Just(a))
           /\ "Address" \in ToSet(One("Address").of)
<1> SUFFICES ASSUME NEW a
             PROVE  /\ Head(a) # 4 => ~SurvivesField(One("Address"), Just(a))
                    /\ "Address" \in ToSet(One("Address").of)
  OBVIOUS
<1>1. PICK kind : kind = "Address"
  OBVIOUS
<1>2. Head(a) # 4 => ~Survives(kind, a)
  BY <1>1 DEF Survives
<1>3. PICK f, w : f = One(kind) /\ w = Just(a)
  OBVIOUS
<1>4. 1 \in DOMAIN w /\ 1 \in DOMAIN f.of /\ f.of[1] = kind /\ w[1][1] = a
  BY <1>3 DEF One, Just
<1>5. Head(a) # 4 => ~SurvivesField(f, w)
  BY <1>2, <1>4 DEF SurvivesField
<1>6. kind \in ToSet(f.of)
  BY <1>4 DEF ToSet
<1> QED
  BY <1>1, <1>3, <1>5, <1>6, Zenon

\* So of twenty.
LEMMA AddressesLost ==
    ASSUME NEW e, IsTwenty(e)
    PROVE  /\ (\E i \in 1 .. 20 : Head(e[i]) # 4) => ~SurvivesField(Addresses, <<e>>)
           /\ "Address" \in ToSet(Addresses.of)
<1>1. PICK kind : kind = "Address"
  OBVIOUS
<1>2. PICK f, w : f = Addresses /\ w = <<e>>
  OBVIOUS
<1>3. DOMAIN f.of = 1 .. 20 /\ \A i \in 1 .. 20 : f.of[i] = kind
  BY <1>1, <1>2 DEF Addresses, Group
<1>4. 1 \in DOMAIN w /\ w[1] = e
  BY <1>2
<1>5. \A a : Head(a) # 4 => ~Survives(kind, a)
  BY <1>1 DEF Survives
<1>6. ASSUME NEW i \in 1 .. 20, Head(e[i]) # 4 PROVE ~SurvivesField(f, w)
  BY <1>3, <1>4, <1>5, <1>6 DEF SurvivesField
<1>7. kind \in ToSet(f.of)
  <2>1. 1 \in 1 .. 20
    OBVIOUS
  <2> QED
    BY <1>3, <2>1 DEF ToSet
<1> QED
  BY <1>1, <1>2, <1>6, <1>7, Zenon

\* The first request, in a buffer of the size that is tried, is heard.
LEMMA OpenConnectionRequest1Heard ==
    ASSUME NEW v \in Contents(OpenConnectionRequest1), NEW b \in Encodings(OpenConnectionRequest1, v)
    PROVE  Heard(OpenConnectionRequest1, v, b)
<1>1. PICK id \in Spoken : id = OpenConnectionRequest1
  BY DEF Spoken
<1>2. PICK e1, e2 : e1 = MagicValue /\ e2 = Protocol
  OBVIOUS
<1>3. PICK f1, f2 : f1 = Magic /\ f2 = One("U8")
  OBVIOUS
<1>4. v = <<e1, e2>>
  BY <1>2, OfflineContents
<1>5. Layout(id) = <<f1, f2>>
  BY <1>1, <1>3, OfflineLayouts
<1>6. PICK mtu \in Mtus : b = WriteRequest1(v[2], mtu)
  BY EncodingsAre
<1>7. FieldPasses(f1, e1) /\ FieldPasses(f2, e2)
  BY <1>2, <1>3, ProtocolPasses, MagicPasses
<1>8. PICK V : e1 \in V /\ e2 \in V
  <2>1. e1 \in {e1, e2} /\ e2 \in {e1, e2}
    OBVIOUS
  <2> QED
    BY <2>1, Zenon
<1>9. PICK layout : layout = Layout(id)
  OBVIOUS
<1>10. v \in Seq(V) /\ Len(v) = 2 /\ v[1] = e1 /\ v[2] = e2
  BY <1>4, <1>8
<1>11. Len(layout) = 2 /\ DOMAIN layout = 1 .. 2 /\ layout[1] = f1 /\ layout[2] = f2
  BY <1>5, <1>9
<1>12. \A i \in 1 .. 2 : i = 1 \/ i = 2
  OBVIOUS
<1>13. GoodMessage(V, id, 2, v)
  <2>1. FieldsPass(layout, v, 2)
    BY <1>7, <1>10, <1>11, <1>12, Zenon DEF FieldsPass
  <2> QED
    BY <1>1, <1>9, <1>10, <1>11, <2>1, SpokenPlain DEF GoodMessage
<1>14. PICK p : p = WriteMessage(id, v) /\ p \in Seq(Octets) /\ \A t \in Seq(Nat) : Heard(id, v, p \o t)
  BY <1>13, GoodHeard
<1>15. Len(p) = 18
  <2>1. PICK w : w = Write(layout, v)
    OBVIOUS
  <2>2. PICK x, y : /\ x = WriteField(f1, e1) /\ y = WriteField(f2, e2)
                    /\ x \in Seq(Octets) /\ y \in Seq(Octets)
    BY <1>7 DEF FieldPasses
  <2>3. Len(x) = 16
    BY <1>2, <1>3, <2>2, MagicLength
  <2>4. Len(y) = 1
    <3>1. PICK c : c = Byte(10) /\ c \in Seq(Octets) /\ Len(c) = 1 /\ Protocol = Just(c)
      <4>1. Byte(10) \in Seq(Octets) /\ Len(Byte(10)) = 1 /\ Protocol = Just(Byte(10))
        BY DEF Byte, Protocol, Octets
      <4> QED
        BY <4>1, Zenon
    <3>2. WriteField(One("U8"), Just(c)) = c
      BY <3>1, JustWritten
    <3> QED
      BY <1>2, <1>3, <2>2, <3>1, <3>2
  <2>5. w = FlattenSeq(<<x, y>>)
    <3>1. [i \in DOMAIN layout |-> WriteField(layout[i], v[i])] = <<x, y>>
      BY <1>10, <1>11, <2>2
    <3> QED
      BY <2>1, <3>1, Zenon DEF Write
  <2>6. Len(w) = 17
    <3>1. Len(w) = Len(x) + Len(y)
      BY <2>2, <2>5, TwoLong
    <3> QED
      BY <2>3, <2>4, <3>1
  <2>7. p = Byte(id) \o w
    <3>1. id # IncompatibleProtocolVersion
      BY <1>1, SpokenPlain DEF Plain
    <3> QED
      BY <1>9, <1>14, <2>1, <3>1, Zenon DEF WriteMessage, WrittenId, Byte
  <2>8. w \in Seq(Nat) /\ id \in Nat
    <3>1. <<x, y>> \in Seq(Seq(Octets))
      BY <2>2
    <3>2. w \in Seq(Octets)
      BY <2>5, <3>1, FlattenType
    <3> QED
      BY <1>1, <3>2, BytesAreNumbers, SpokenPlain DEF Plain
  <2>9. Len(Byte(id) \o w) = Len(w) + 1
    BY <2>8, IdFirst
  <2> QED
    BY <2>6, <2>7, <2>9
<1>16. PICK u \in Seq(Nat) : b = Fill(p \o u, mtu)
  <2> DEFINE size == mtu - Len(p) + 28
             u == <<size \div 256, size % 256>>
  <2>1. size \in Nat
    BY <1>15, MtusAreWords
  <2>2. u \in Seq(Nat)
    <3> HIDE DEF size
    <3> QED
      BY <2>1
  <2>3. b = Fill(p \o u, mtu)
    <3>1. WriteMessage(OpenConnectionRequest1, <<MagicValue, v[2]>>) = p
      BY <1>1, <1>2, <1>4, <1>10, <1>14
    <3> QED
      BY <1>6, <3>1, Zenon DEF WriteRequest1
  <2> HIDE DEF u, size
  <2> QED
    BY <2>2, <2>3
<1>17. PICK t \in Seq(Nat) : Fill(p \o u, mtu) = p \o t
  <2>1. p \in Seq(Nat)
    BY <1>14, BytesAreNumbers
  <2>2. mtu \in Nat /\ Len(p) <= mtu
    BY <1>15, MtusAreWords
  <2> QED
    BY <2>1, <2>2, FillIs
<1> QED
  BY <1>1, <1>14, <1>16, <1>17

\* The size that the second request tells, as it is read back from its two bytes.
LEMMA SizeTold == \A n \in Words : Word(n)[1][1][1] * 256 + Word(n)[1][1][2] = n
<1> SUFFICES ASSUME NEW n \in Words PROVE Word(n)[1][1][1] * 256 + Word(n)[1][1][2] = n
  OBVIOUS
<1>1. n \in Nat
  BY WordsAreNumbers
<1>2. PICK x, y : x = n \div 256 /\ y = n % 256
  OBVIOUS
<1>3. 256 * x + y = n /\ x \in Nat /\ y \in Nat
  BY <1>1, <1>2
<1>4. Word(n)[1][1][1] = x /\ Word(n)[1][1][2] = y
  <2>1. PICK leaf : leaf = <<x, y>>
    OBVIOUS
  <2>2. Word(n) = Just(leaf)
    BY <1>2, <2>1, Zenon DEF Word
  <2>3. Word(n)[1][1] = leaf
    BY <2>2 DEF Just
  <2> QED
    BY <2>1, <2>3
<1> QED
  BY <1>3, <1>4

\* The second request, in a buffer of the size that was agreed on, is heard.
LEMMA OpenConnectionRequest2Heard ==
    ASSUME NEW v \in Contents(OpenConnectionRequest2), NEW b \in Encodings(OpenConnectionRequest2, v)
    PROVE  Heard(OpenConnectionRequest2, v, b)
<1>1. PICK id \in Spoken : id = OpenConnectionRequest2
  BY DEF Spoken
<1>2. PICK a \in Endpoints, mtu \in Mtus : v = <<MagicValue, Just(a), Word(mtu), Just(Guid)>>
  BY OfflineContents
<1>3. PICK e1, e2, e3, e4 : e1 = MagicValue /\ e2 = Just(a) /\ e3 = Word(mtu) /\ e4 = Just(Guid)
  OBVIOUS
<1>4. PICK f1, f2, f3, f4 :
         f1 = Magic /\ f2 = One("Address") /\ f3 = One("U16BE") /\ f4 = One("U64BE")
  OBVIOUS
<1>5. v = <<e1, e2, e3, e4>>
  BY <1>2, <1>3
<1>6. PICK layout : layout = Layout(id) /\ layout = <<f1, f2, f3, f4>>
  BY <1>1, <1>4, OfflineLayouts
<1>7. mtu \in Words /\ mtu \in Nat /\ mtu >= 46 /\ IsAddress(a)
  BY MtusAreWords, ExchangeAssumption
<1>8. FieldPasses(f1, e1) /\ FieldPasses(f3, e3) /\ FieldPasses(f4, e4)
  <2>1. FieldPasses(f3, e3)
    BY <1>3, <1>4, <1>7, WordPasses
  <2> QED
    BY <1>3, <1>4, <2>1, EightPass, MagicPasses DEF Eight
<1>9. WriteField(f2, e2) \in Seq(Octets) /\ (Head(a) = 4 => FieldPasses(f2, e2))
  BY <1>3, <1>4, <1>7, AddressField
<1>10. PICK V : e1 \in V /\ e2 \in V /\ e3 \in V /\ e4 \in V
  <2>1. e1 \in {e1, e2, e3, e4} /\ e2 \in {e1, e2, e3, e4} /\ e3 \in {e1, e2, e3, e4}
        /\ e4 \in {e1, e2, e3, e4}
    OBVIOUS
  <2> QED
    BY <2>1, Zenon
<1>11. v \in Seq(V) /\ Len(v) = 4 /\ v[1] = e1 /\ v[2] = e2 /\ v[3] = e3 /\ v[4] = e4
  BY <1>5, <1>10
<1>12. /\ Len(layout) = 4 /\ DOMAIN layout = 1 .. 4
       /\ layout[1] = f1 /\ layout[2] = f2 /\ layout[3] = f3 /\ layout[4] = f4
  BY <1>6
<1>13. \A i \in 1 .. 4 : i = 1 \/ i = 2 \/ i = 3 \/ i = 4
  OBVIOUS
<1>14. b = Fill(WriteMessage(id, v), mtu)
  <2>1. v[3][1][1][1] * 256 + v[3][1][1][2] = mtu
    BY <1>3, <1>7, <1>11, SizeTold
  <2> QED
    BY <1>1, <2>1, EncodingsAre
<1>15. PICK x : x = WriteField(f1, e1) /\ x \in Seq(Octets) /\ Len(x) = 16
  BY <1>3, <1>4, MagicLength
<1>16. id \in Nat /\ id # IncompatibleProtocolVersion /\ id \in Plain /\ id \in Octets
  BY <1>1, SpokenPlain DEF Plain
<1>17. CASE Head(a) = 4
  <2>1. FieldsPass(layout, v, 4)
    BY <1>8, <1>9, <1>11, <1>12, <1>13, <1>17, Zenon DEF FieldsPass
  <2>2. GoodMessage(V, id, 4, v)
    BY <1>6, <1>11, <1>12, <1>16, <2>1 DEF GoodMessage
  <2>3. PICK p : p = WriteMessage(id, v) /\ p \in Seq(Octets) /\ \A t \in Seq(Nat) : Heard(id, v, p \o t)
    BY <2>2, GoodHeard
  <2>4. PICK y, z, w : /\ y = WriteField(f2, e2) /\ z = WriteField(f3, e3) /\ w = WriteField(f4, e4)
                       /\ y \in Seq(Octets) /\ z \in Seq(Octets) /\ w \in Seq(Octets)
    BY <1>8, <1>9 DEF FieldPasses
  <2>5. Len(y) = 7
    BY <1>3, <1>4, <1>7, <1>17, <2>4, AddressLength
  <2>6. Len(z) = 2
    <3>1. PICK leaf : leaf = <<mtu \div 256, mtu % 256>>
      OBVIOUS
    <3>2. leaf \in Seq(Octets) /\ Len(leaf) = 2
      <4>1. leaf = Length("U16BE", mtu)
        BY <1>7, <3>1, LengthBack, Zenon
      <4> QED
        BY <1>7, <4>1, LengthBack, Zenon
    <3>3. Word(mtu) = Just(leaf)
      BY <3>1, Zenon DEF Word
    <3>4. WriteField(One("U16BE"), Just(leaf)) = leaf
      BY <3>2, JustWritten
    <3> QED
      BY <1>3, <1>4, <2>4, <3>2, <3>3, <3>4
  <2>7. Len(w) = 8
    <3>1. Guid \in Seq(Octets) /\ Len(Guid) = 8
      BY EightBytes DEF Eight
    <3>2. WriteField(One("U64BE"), Just(Guid)) = Guid
      BY <3>1, JustWritten
    <3> QED
      BY <1>3, <1>4, <2>4, <3>1, <3>2
  <2>8. PICK s : s = Write(layout, v) /\ s = FlattenSeq(<<x, y, z, w>>)
    <3>1. [i \in DOMAIN layout |-> WriteField(layout[i], v[i])] = <<x, y, z, w>>
      BY <1>11, <1>12, <1>15, <2>4
    <3> QED
      BY <3>1, Zenon DEF Write
  <2>9. Len(s) = 33
    <3>1. Len(FlattenSeq(<<x, y, z, w>>)) = Len(x) + Len(y) + Len(z) + Len(w)
      <4>1. x \in Seq(Octets) /\ y \in Seq(Octets) /\ z \in Seq(Octets) /\ w \in Seq(Octets)
        BY <1>15, <2>4
      <4> QED
        BY <4>1, FourLong
    <3>2. Len(s) = Len(x) + Len(y) + Len(z) + Len(w)
      BY <2>8, <3>1, Zenon
    <3> QED
      BY <1>15, <2>5, <2>6, <2>7, <3>2
  <2>10. p = Byte(id) \o s
    BY <1>6, <1>16, <2>3, <2>8, Zenon DEF WriteMessage, WrittenId, Byte
  <2>11. s \in Seq(Nat)
    <3>1. <<x, y, z, w>> \in Seq(Seq(Octets))
      BY <1>15, <2>4
    <3>2. s \in Seq(Octets)
      BY <2>8, <3>1, FlattenType
    <3> QED
      BY <3>2, BytesAreNumbers
  <2>12. Len(p) = 34
    <3>1. Len(Byte(id) \o s) = Len(s) + 1
      BY <1>16, <2>11, IdFirst
    <3> QED
      BY <2>9, <2>10, <3>1
  <2>13. PICK t \in Seq(Nat) : Fill(p, mtu) = p \o t
    <3>1. p \in Seq(Nat) /\ <<>> \in Seq(Nat) /\ p \o <<>> = p
      BY <2>3, BytesAreNumbers
    <3>2. mtu \in Nat /\ Len(p) <= mtu
      BY <1>7, <2>12
    <3>3. \E t \in Seq(Nat) : Fill(p \o <<>>, mtu) = p \o t
      BY <3>1, <3>2, FillIs
    <3> QED
      BY <3>1, <3>3
  <2> QED
    BY <1>1, <1>14, <2>3, <2>13
<1>18. CASE Head(a) # 4
  <2>1. PICK m : m = 1
    OBVIOUS
  <2>2. FieldsWritten(layout, v, 4)
    <3>1. \A i \in 1 .. 4 : WriteField(layout[i], v[i]) \in Seq(Octets)
      BY <1>8, <1>9, <1>11, <1>12, <1>13, Zenon DEF FieldPasses
    <3> QED
      BY <1>12, <3>1 DEF FieldsWritten
  <2>3. FieldsPass(layout, v, m)
    <3>1. \A i \in 1 .. m : i = 1
      BY <2>1
    <3> QED
      BY <1>8, <1>11, <1>12, <3>1, Zenon DEF FieldsPass
  <2>4. m \in Nat /\ m < 4 /\ m + 1 = 2
    BY <2>1
  <2>5. ~SurvivesField(layout[m + 1], v[m + 1])
    BY <1>3, <1>4, <1>11, <1>12, <1>18, <2>4, AddressLost
  <2>6. HalfMessage(V, id, 4, m, v)
    BY <1>6, <1>11, <1>16, <2>2, <2>3, <2>4, <2>5 DEF HalfMessage
  <2>7. EndsInAddress(id, m)
    BY <1>4, <1>6, <1>12, <2>4, AddressLost DEF EndsInAddress
  <2>8. PICK p : /\ p = Byte(id) \o FirstFields(layout, v, m)
                 /\ \A t \in Seq(Nat) : Heard(id, v, p \o t)
                 /\ \E t \in Seq(Nat) : WriteMessage(id, v) = p \o t
    <3>1. PICK p : p = Byte(id) \o FirstFields(Layout(id), v, m)
      OBVIOUS
    <3>2. \A t \in Seq(Nat) : Heard(id, v, p \o t)
      BY <2>6, <2>7, <3>1, HalfHeard
    <3>3. \E t \in Seq(Nat) : WriteMessage(id, v) = p \o t
      <4>1. \E t \in Seq(Nat) :
               WriteMessage(id, v) = (Byte(id) \o FirstFields(Layout(id), v, m)) \o t
        BY <2>6, HalfHeard
      <4> QED
        BY <3>1, <4>1
    <3> QED
      BY <1>6, <3>1, <3>2, <3>3, Zenon
  <2>9. FirstFields(layout, v, m) = x
    <3>1. [i \in 1 .. m |-> WriteField(layout[i], v[i])] = <<x>>
      BY <1>11, <1>12, <1>15, <2>1
    <3> QED
      BY <1>15, <3>1, FlattenOnly DEF FirstFields
  <2>10. p \in Seq(Nat) /\ Len(p) = 17
    <3>1. x \in Seq(Nat)
      BY <1>15, BytesAreNumbers
    <3>2. Byte(id) \o x \in Seq(Nat) /\ Len(Byte(id) \o x) = Len(x) + 1
      BY <1>16, <3>1, IdFirst
    <3> QED
      BY <1>15, <2>8, <2>9, <3>2
  <2>11. PICK u \in Seq(Nat) : WriteMessage(id, v) = p \o u
    BY <2>8
  <2>12. PICK t \in Seq(Nat) : Fill(p \o u, mtu) = p \o t
    <3>1. mtu \in Nat /\ Len(p) <= mtu
      BY <1>7, <2>10
    <3> QED
      BY <2>10, <3>1, FillIs
  <2> QED
    BY <1>1, <1>14, <2>8, <2>11, <2>12
<1> QED
  BY <1>17, <1>18

\* The second reply is heard.
LEMMA OpenConnectionReply2Heard ==
    ASSUME NEW v \in Contents(OpenConnectionReply2), NEW b \in Encodings(OpenConnectionReply2, v)
    PROVE  Heard(OpenConnectionReply2, v, b)
<1>1. PICK id \in Spoken : id = OpenConnectionReply2
  BY DEF Spoken
<1>2. PICK a \in Endpoints, mtu \in Mtus, flag \in Flags :
         v = <<MagicValue, Just(Guid), Just(a), Word(mtu), flag>>
  BY OfflineContents
<1>3. PICK e1, e2, e3, e4 : e1 = MagicValue /\ e2 = Just(Guid) /\ e3 = Just(a) /\ e4 = Word(mtu)
  OBVIOUS
<1>4. PICK f1, f2, f3, f4, f5 : /\ f1 = Magic /\ f2 = One("U64BE") /\ f3 = One("Address")
                                /\ f4 = One("U16BE") /\ f5 = One("IsOne")
  OBVIOUS
<1>5. v = <<e1, e2, e3, e4, flag>>
  BY <1>2, <1>3
<1>6. PICK layout : layout = Layout(id) /\ layout = <<f1, f2, f3, f4, f5>>
  BY <1>1, <1>4, OfflineLayouts
<1>7. mtu \in Words /\ IsAddress(a)
  BY MtusAreWords, ExchangeAssumption
<1>8. FieldPasses(f1, e1) /\ FieldPasses(f2, e2) /\ FieldPasses(f4, e4) /\ FieldPasses(f5, flag)
  <2>1. FieldPasses(f4, e4)
    BY <1>3, <1>4, <1>7, WordPasses
  <2>2. FieldPasses(f5, flag)
    BY <1>4, FlagFieldPasses
  <2> QED
    BY <1>3, <1>4, <2>1, <2>2, EightPass, MagicPasses DEF Eight
<1>9. WriteField(f3, e3) \in Seq(Octets) /\ (Head(a) = 4 => FieldPasses(f3, e3))
  BY <1>3, <1>4, <1>7, AddressField
<1>10. PICK V : e1 \in V /\ e2 \in V /\ e3 \in V /\ e4 \in V /\ flag \in V
  <2>1. PICK V : V = {e1, e2, e3, e4, flag}
    OBVIOUS
  <2>2. e1 \in V /\ e2 \in V /\ e3 \in V /\ e4 \in V /\ flag \in V
    BY <2>1
  <2> QED
    BY <2>2, Zenon
<1>11. v \in Seq(V) /\ Len(v) = 5 /\ v[1] = e1 /\ v[2] = e2 /\ v[3] = e3 /\ v[4] = e4 /\ v[5] = flag
  BY <1>5, <1>10
<1>12. /\ Len(layout) = 5 /\ DOMAIN layout = 1 .. 5 /\ layout[1] = f1 /\ layout[2] = f2
       /\ layout[3] = f3 /\ layout[4] = f4 /\ layout[5] = f5
  BY <1>6
<1>13. \A i \in 1 .. 5 : i = 1 \/ i = 2 \/ i = 3 \/ i = 4 \/ i = 5
  OBVIOUS
<1>14. b = WriteMessage(id, v)
  BY <1>1, EncodingsAre DEF OpenConnectionReply2, OpenConnectionRequest1, OpenConnectionRequest2
<1>15. id \in Plain /\ id \in Octets
  BY <1>1, SpokenPlain
<1>16. CASE Head(a) = 4
  <2>1. FieldsPass(layout, v, 5)
    BY <1>8, <1>9, <1>11, <1>12, <1>13, <1>16, Zenon DEF FieldsPass
  <2>2. GoodMessage(V, id, 5, v)
    BY <1>6, <1>11, <1>12, <1>15, <2>1 DEF GoodMessage
  <2> QED
    BY <1>1, <1>14, <2>2, GoodHeard
<1>17. CASE Head(a) # 4
  <2>1. PICK m : m = 2
    OBVIOUS
  <2>2. FieldsWritten(layout, v, 5)
    <3>1. \A i \in 1 .. 5 : WriteField(layout[i], v[i]) \in Seq(Octets)
      BY <1>8, <1>9, <1>11, <1>12, <1>13, Zenon DEF FieldPasses
    <3> QED
      BY <1>12, <3>1 DEF FieldsWritten
  <2>3. FieldsPass(layout, v, m)
    <3>1. \A i \in 1 .. m : i = 1 \/ i = 2
      BY <2>1
    <3> QED
      BY <1>8, <1>11, <1>12, <3>1, Zenon DEF FieldsPass
  <2>4. m \in Nat /\ m < 5 /\ m + 1 = 3
    BY <2>1
  <2>5. ~SurvivesField(layout[m + 1], v[m + 1])
    BY <1>3, <1>4, <1>11, <1>12, <1>17, <2>4, AddressLost
  <2>6. HalfMessage(V, id, 5, m, v)
    BY <1>6, <1>11, <1>15, <2>2, <2>3, <2>4, <2>5 DEF HalfMessage
  <2>7. EndsInAddress(id, m)
    BY <1>4, <1>6, <1>12, <2>4, AddressLost DEF EndsInAddress
  <2> QED
    BY <1>1, <1>14, <2>6, <2>7, HalfHeard
<1> QED
  BY <1>16, <1>17

\* A time is written in eight bytes.
LEMMA TimeWritten ==
    \A w \in Eight : /\ WriteField(One(Time), Just(w)) \in Seq(Octets)
                     /\ Len(WriteField(One(Time), Just(w))) = 8
<1> SUFFICES ASSUME NEW w \in Eight
             PROVE  /\ WriteField(One(Time), Just(w)) \in Seq(Octets)
                    /\ Len(WriteField(One(Time), Just(w))) = 8
  OBVIOUS
<1>1. w \in Seq(Octets) /\ Len(w) = 8
  BY EightBytes
<1>2. PICK kind : kind = Time
  OBVIOUS
<1>3. WriteField(One(kind), Just(w)) = w
  BY <1>1, <1>2, JustWritten
<1> QED
  BY <1>1, <1>2, <1>3

\* A message of times and flags, the first of them a time.
LEMMA TimesHeard ==
    ASSUME NEW id \in Spoken, NEW n \in 1 .. 3, NEW v, NEW V, v \in Seq(V), Len(v) = n,
           Len(Layout(id)) = n, DOMAIN Layout(id) = 1 .. n,
           \A i \in 1 .. n : \/ Layout(id)[i] = One(Time) /\ \E w \in Eight : v[i] = Just(w)
                             \/ i # 1 /\ Layout(id)[i] = One("IsOne") /\ v[i] \in Flags
    PROVE  Heard(id, v, WriteMessage(id, v))
<1>1. PICK layout : layout = Layout(id)
  OBVIOUS
<1>2. \A i \in 1 .. n : WriteField(layout[i], v[i]) \in Seq(Octets)
  <2>1. ASSUME NEW i \in 1 .. n PROVE WriteField(layout[i], v[i]) \in Seq(Octets)
    <3>1. CASE layout[i] = One(Time) /\ \E w \in Eight : v[i] = Just(w)
      BY <3>1, TimeWritten
    <3>2. CASE layout[i] = One("IsOne") /\ v[i] \in Flags
      BY <3>2, FlagFieldPasses DEF FieldPasses
    <3> QED
      BY <1>1, <3>1, <3>2
  <2> QED
    BY <2>1
<1>3. PICK m : m = 0
  OBVIOUS
<1>4. m \in Nat /\ m < n /\ m + 1 = 1 /\ n \in Nat /\ 1 \in 1 .. n
  BY <1>3
<1>5. PICK w \in Eight : layout[1] = One(Time) /\ v[1] = Just(w)
  BY <1>1, <1>4
<1>6. FieldsPass(layout, v, m)
  BY <1>3 DEF FieldsPass
<1>7. FieldsWritten(layout, v, n)
  BY <1>1, <1>2 DEF FieldsWritten
<1>8. ~SurvivesField(layout[m + 1], v[m + 1])
  BY <1>4, <1>5, TimeLost
<1>9. HalfMessage(V, id, n, m, v)
  BY <1>1, <1>4, <1>6, <1>7, <1>8, SpokenPlain DEF HalfMessage
<1>10. EndsInTimes(id, n, m, v)
  <2>1. \A i \in m + 1 .. n : \E kind \in {Time, "IsOne"} : layout[i] = One(kind)
    <3>1. Time \in {Time, "IsOne"} /\ "IsOne" \in {Time, "IsOne"}
      OBVIOUS
    <3> QED
      BY <1>1, <1>4, <3>1
  <2>2. Len(WriteField(layout[m + 1], v[m + 1])) = 8
    BY <1>4, <1>5, TimeWritten
  <2>3. 8 >= 2 * (n - m)
    BY <1>3
  <2> QED
    BY <1>1, <2>1, <2>2, <2>3 DEF EndsInTimes
<1> QED
  BY <1>9, <1>10, HalfHeard

\* So the request for a connection, pings and pongs are heard.
LEMMA ConnectionRequestHeard ==
    ASSUME NEW v \in Contents(ConnectionRequest), NEW b \in Encodings(ConnectionRequest, v)
    PROVE  Heard(ConnectionRequest, v, b)
<1>1. PICK id \in Spoken : id = ConnectionRequest
  BY DEF Spoken
<1>2. PICK e1, e2, e3 : e1 = Just(Guid) /\ e2 = Just(Now) /\ e3 = Just(Byte(0))
  OBVIOUS
<1>3. PICK f1, f2 : f1 = One(Time) /\ f2 = One("IsOne")
  OBVIOUS
<1>4. v = <<e1, e2, e3>> /\ Layout(id) = <<f1, f1, f2>>
  BY <1>1, <1>2, <1>3, OnlineContents, OnlineLayouts DEF Time
<1>5. e3 \in Flags /\ Guid \in Eight /\ Now \in Eight
  BY <1>2 DEF Flags, Byte, Eight
<1>6. PICK V : V = {e1, e2, e3}
  OBVIOUS
<1>7. v \in Seq(V) /\ Len(v) = 3 /\ v[1] = e1 /\ v[2] = e2 /\ v[3] = e3
  BY <1>4, <1>6
<1>8. /\ Len(Layout(id)) = 3 /\ DOMAIN Layout(id) = 1 .. 3
      /\ Layout(id)[1] = f1 /\ Layout(id)[2] = f1 /\ Layout(id)[3] = f2
  BY <1>4
<1>9. \A i \in 1 .. 3 : \/ Layout(id)[i] = One(Time) /\ \E w \in Eight : v[i] = Just(w)
                        \/ i # 1 /\ Layout(id)[i] = One("IsOne") /\ v[i] \in Flags
  <2>1. (\A i \in 1 .. 3 : i = 1 \/ i = 2 \/ i = 3) /\ 3 # 1
    OBVIOUS
  <2> QED
    BY <1>2, <1>3, <1>5, <1>7, <1>8, <2>1, Zenon
<1>10. b = WriteMessage(id, v)
  BY <1>1, EncodingsAre DEF ConnectionRequest, OpenConnectionRequest1, OpenConnectionRequest2
<1>11. PICK n \in 1 .. 3 : n = 3
  OBVIOUS
<1>12. Heard(id, v, WriteMessage(id, v))
  BY <1>7, <1>8, <1>9, <1>11, TimesHeard
<1> QED
  BY <1>1, <1>10, <1>12

\* A ping.
LEMMA ConnectedPingHeard ==
    ASSUME NEW v \in Contents(ConnectedPing), NEW b \in Encodings(ConnectedPing, v)
    PROVE  Heard(ConnectedPing, v, b)
<1>1. PICK id \in Spoken : id = ConnectedPing
  BY DEF Spoken
<1>2. PICK e, f, V : e = Just(Now) /\ f = One(Time) /\ V = {e}
  OBVIOUS
<1>3. v = <<e>> /\ Layout(id) = <<f>>
  BY <1>1, <1>2, OnlineContents, OnlineLayouts DEF Time
<1>4. v \in Seq(V) /\ Len(v) = 1 /\ v[1] = e
  BY <1>2, <1>3
<1>5. Len(Layout(id)) = 1 /\ DOMAIN Layout(id) = 1 .. 1 /\ Layout(id)[1] = f
  BY <1>3
<1>6. \A i \in 1 .. 1 : Layout(id)[i] = One(Time) /\ \E w \in Eight : v[i] = Just(w)
  <2>1. (\A i \in 1 .. 1 : i = 1) /\ Now \in Eight
    BY DEF Eight
  <2> QED
    BY <1>2, <1>4, <1>5, <2>1, Zenon
<1>7. b = WriteMessage(id, v)
  BY <1>1, EncodingsAre DEF ConnectedPing, OpenConnectionRequest1, OpenConnectionRequest2
<1>8. PICK n \in 1 .. 3 : n = 1
  OBVIOUS
<1>9. Heard(id, v, WriteMessage(id, v))
  BY <1>4, <1>5, <1>6, <1>8, TimesHeard
<1> QED
  BY <1>1, <1>7, <1>9

\* A pong.
LEMMA ConnectedPongHeard ==
    ASSUME NEW v \in Contents(ConnectedPong), NEW b \in Encodings(ConnectedPong, v)
    PROVE  Heard(ConnectedPong, v, b)
<1>1. PICK id \in Spoken : id = ConnectedPong
  BY DEF Spoken
<1>2. PICK e, f, V : e = Just(Now) /\ f = One(Time) /\ V = {e}
  OBVIOUS
<1>3. v = <<e, e>> /\ Layout(id) = <<f, f>>
  BY <1>1, <1>2, OnlineContents, OnlineLayouts DEF Time
<1>4. v \in Seq(V) /\ Len(v) = 2 /\ v[1] = e /\ v[2] = e
  BY <1>2, <1>3
<1>5. Len(Layout(id)) = 2 /\ DOMAIN Layout(id) = 1 .. 2 /\ Layout(id)[1] = f /\ Layout(id)[2] = f
  BY <1>3
<1>6. \A i \in 1 .. 2 : Layout(id)[i] = One(Time) /\ \E w \in Eight : v[i] = Just(w)
  <2>1. (\A i \in 1 .. 2 : i = 1 \/ i = 2) /\ Now \in Eight
    BY DEF Eight
  <2> QED
    BY <1>2, <1>4, <1>5, <2>1, Zenon
<1>7. b = WriteMessage(id, v)
  BY <1>1, EncodingsAre DEF ConnectedPong, OpenConnectionRequest1, OpenConnectionRequest2
<1>8. PICK n \in 1 .. 3 : n = 2
  OBVIOUS
<1>9. Heard(id, v, WriteMessage(id, v))
  BY <1>4, <1>5, <1>6, <1>8, TimesHeard
<1> QED
  BY <1>1, <1>7, <1>9

\* The address that stands for none is one, of version 4.
LEMMA NoEndpointIs == IsAddress(NoEndpoint) /\ Head(NoEndpoint) = 4
<1>1. PICK z : z = Zeros(6) /\ z \in Seq(0 .. 255) /\ Len(z) = 6
  <2>1. Zeros(6) \in Seq(0 .. 255) /\ Len(Zeros(6)) = 6
    BY DEF Zeros
  <2> QED
    BY <2>1, Zenon
<1>2. PICK d : d = <<4>> /\ d \in Seq(0 .. 255) /\ Len(d) = 1 /\ d[1] = 4
  <2>1. <<4>> \in Seq(0 .. 255) /\ Len(<<4>>) = 1 /\ <<4>>[1] = 4
    OBVIOUS
  <2> QED
    BY <2>1, Zenon
<1>3. d \o z \in Seq(0 .. 255) /\ Len(d \o z) = 7 /\ (d \o z)[1] = 4
  <2>1. 1 \in 1 .. Len(d) /\ 1 + 6 = 7
    BY <1>2
  <2>2. /\ d \o z \in Seq(0 .. 255) /\ Len(d \o z) = Len(d) + Len(z)
        /\ \A i \in 1 .. Len(d) : (d \o z)[i] = d[i]
    BY <1>1, <1>2, ConcatProperties
  <2> QED
    BY <1>1, <1>2, <2>1, <2>2
<1>4. PICK e : e = NoEndpoint /\ e \in Seq(0 .. 255) /\ Len(e) = 7 /\ e[1] = 4
  BY <1>1, <1>2, <1>3 DEF NoEndpoint
<1>5. Head(e) = 4
  BY <1>4
<1>6. IsAddress(e)
  BY <1>4, <1>5 DEF IsAddress
<1> QED
  BY <1>4, <1>5, <1>6

\* What a server knows are twenty addresses.
LEMMA KnownIs == \A a, c \in Endpoints : IsTwenty(Known(a, c))
<1> SUFFICES ASSUME NEW a \in Endpoints, NEW c \in Endpoints PROVE IsTwenty(Known(a, c))
  OBVIOUS
<1>1. IsAddress(a) /\ IsAddress(c)
  BY ExchangeAssumption
<1> QED
  BY <1>1 DEF IsTwenty, Known

\* The answer to a request for a connection is heard, with the system addresses as far as they are
\* of version 4.
LEMMA ConnectionRequestAcceptedHeard ==
    ASSUME NEW v \in Contents(ConnectionRequestAccepted),
           NEW b \in Encodings(ConnectionRequestAccepted, v)
    PROVE  b \in Seq(Octets) /\ Heard(ConnectionRequestAccepted, v, b)
<1>1. PICK id \in Spoken : id = ConnectionRequestAccepted
  BY DEF Spoken
<1>2. PICK a \in Endpoints, c \in Endpoints :
         v = <<Just(NoEndpoint), Word(0), <<Known(a, c)>>, Just(Now), Just(Now)>>
  BY OnlineContents
<1>3. PICK e : e = Known(a, c) /\ IsTwenty(e)
  BY KnownIs
<1>4. PICK e1, e2, e3, e4 : e1 = Just(NoEndpoint) /\ e2 = Word(0) /\ e3 = <<e>> /\ e4 = Just(Now)
  OBVIOUS
<1>5. PICK f1, f2, f3, f4 :
         f1 = One("Address") /\ f2 = One("I16BE") /\ f3 = Addresses /\ f4 = One(Time)
  OBVIOUS
<1>6. v = <<e1, e2, e3, e4, e4>>
  BY <1>2, <1>3, <1>4
<1>7. PICK layout : layout = Layout(id) /\ layout = <<f1, f2, f3, f4, f4>>
  BY <1>1, <1>5, OnlineLayouts DEF Time
<1>8. FieldPasses(f1, e1) /\ FieldPasses(f2, e2)
  <2>1. FieldPasses(f1, e1)
    BY <1>4, <1>5, NoEndpointIs, AddressField
  <2>2. 0 \in Words
    BY DEF Words
  <2> QED
    BY <1>4, <1>5, <2>1, <2>2, WordPasses
<1>9. WriteField(f3, e3) \in Seq(Octets) /\ ((\A i \in 1 .. 20 : Head(e[i]) = 4) => FieldPasses(f3, e3))
  BY <1>3, <1>4, <1>5, AddressesField
<1>10. WriteField(f4, e4) \in Seq(Octets) /\ Len(WriteField(f4, e4)) = 8
  BY <1>4, <1>5, TimeWritten DEF Eight
<1>11. PICK V : e1 \in V /\ e2 \in V /\ e3 \in V /\ e4 \in V
  <2>1. PICK V : V = {e1, e2, e3, e4}
    OBVIOUS
  <2>2. e1 \in V /\ e2 \in V /\ e3 \in V /\ e4 \in V
    BY <2>1
  <2> QED
    BY <2>2, Zenon
<1>12. v \in Seq(V) /\ Len(v) = 5 /\ v[1] = e1 /\ v[2] = e2 /\ v[3] = e3 /\ v[4] = e4 /\ v[5] = e4
  BY <1>6, <1>11
<1>13. /\ Len(layout) = 5 /\ DOMAIN layout = 1 .. 5 /\ layout[1] = f1 /\ layout[2] = f2
       /\ layout[3] = f3 /\ layout[4] = f4 /\ layout[5] = f4
  BY <1>7
<1>14. \A i \in 1 .. 5 : i = 1 \/ i = 2 \/ i = 3 \/ i = 4 \/ i = 5
  OBVIOUS
<1>15. b = WriteMessage(id, v)
  BY <1>1, EncodingsAre DEF ConnectionRequestAccepted, OpenConnectionRequest1, OpenConnectionRequest2
<1>16. id \in Plain /\ id \in Octets
  BY <1>1, SpokenPlain
<1>17. FieldsWritten(layout, v, 5)
  <2>1. \A i \in 1 .. 5 : WriteField(layout[i], v[i]) \in Seq(Octets)
    BY <1>8, <1>9, <1>10, <1>12, <1>13, <1>14, Zenon DEF FieldPasses
  <2> QED
    BY <1>13, <2>1 DEF FieldsWritten
<1>18. CASE \A i \in 1 .. 20 : Head(e[i]) = 4
  <2>1. PICK m : m = 3
    OBVIOUS
  <2>2. FieldsPass(layout, v, m)
    <3>1. \A i \in 1 .. m : i = 1 \/ i = 2 \/ i = 3
      BY <2>1
    <3> QED
      BY <1>8, <1>9, <1>12, <1>13, <1>18, <3>1, Zenon DEF FieldsPass
  <2>3. m \in Nat /\ m < 5 /\ m + 1 = 4 /\ (\A i \in 4 .. 5 : i = 4 \/ i = 5)
    BY <2>1
  <2>4. ~SurvivesField(layout[m + 1], v[m + 1])
    BY <1>4, <1>5, <1>12, <1>13, <2>3, TimeLost
  <2>5. HalfMessage(V, id, 5, m, v)
    BY <1>7, <1>12, <1>16, <1>17, <2>2, <2>3, <2>4 DEF HalfMessage
  <2>6. EndsInTimes(id, 5, m, v)
    <3>1. \A i \in m + 1 .. 5 : layout[i] = f4
      BY <1>13, <2>3, Zenon
    <3>2. \A i \in m + 1 .. 5 : \E kind \in {Time, "IsOne"} : layout[i] = One(kind)
      BY <1>5, <3>1
    <3>3. Len(WriteField(layout[m + 1], v[m + 1])) = 8
      BY <1>10, <1>12, <1>13, <2>3
    <3>4. 8 >= 2 * (5 - m)
      BY <2>1
    <3> QED
      BY <1>7, <3>2, <3>3, <3>4 DEF EndsInTimes
  <2> QED
    BY <1>1, <1>15, <2>5, <2>6, HalfHeard
<1>19. CASE \E i \in 1 .. 20 : Head(e[i]) # 4
  <2>1. PICK m : m = 2
    OBVIOUS
  <2>2. FieldsPass(layout, v, m)
    <3>1. \A i \in 1 .. m : i = 1 \/ i = 2
      BY <2>1
    <3> QED
      BY <1>8, <1>12, <1>13, <3>1, Zenon DEF FieldsPass
  <2>3. m \in Nat /\ m < 5 /\ m + 1 = 3
    BY <2>1
  <2>4. ~SurvivesField(layout[m + 1], v[m + 1])
    BY <1>3, <1>4, <1>5, <1>12, <1>13, <1>19, <2>3, AddressesLost
  <2>5. HalfMessage(V, id, 5, m, v)
    BY <1>7, <1>12, <1>16, <1>17, <2>2, <2>3, <2>4 DEF HalfMessage
  <2>6. EndsInAddress(id, m)
    BY <1>3, <1>5, <1>7, <1>13, <2>3, AddressesLost DEF EndsInAddress
  <2> QED
    BY <1>1, <1>15, <2>5, <2>6, HalfHeard
<1> QED
  BY <1>18, <1>19

--------------------------------------------------------------------------------
(* What is read is of its type: addresses that are read are addresses.      *)

\* A turn that works adds what was read.
LEMMA TurnWorks ==
    \A level, c, i, x : Works(TurnOf(level, c, i, x)) =>
        /\ Works(x) /\ Works(Item(level, c, i, x.rest))
        /\ TurnOf(level, c, i, x).value = Append(x.value, Item(level, c, i, x.rest).value)
        /\ TurnOf(level, c, i, x).rest = Item(level, c, i, x.rest).rest
<1> SUFFICES ASSUME NEW level, NEW c, NEW i, NEW x, Works(TurnOf(level, c, i, x))
             PROVE  /\ Works(x) /\ Works(Item(level, c, i, x.rest))
                    /\ TurnOf(level, c, i, x).value = Append(x.value, Item(level, c, i, x.rest).value)
                    /\ TurnOf(level, c, i, x).rest = Item(level, c, i, x.rest).rest
  OBVIOUS
<1>1. PICK y, z : y = Item(level, c, i, x.rest) /\ z = TurnOf(level, c, i, x)
  OBVIOUS
<1>2. Works(x)
  BY <1>1, TurnBad
<1>3. Works(y)
  BY <1>1, <1>2, TurnBad
<1>4. z = Done(Append(x.value, y.value), y.rest)
  BY <1>1, <1>2, <1>3, TurnBad
<1>5. z.value = Append(x.value, y.value) /\ z.rest = y.rest
  BY <1>4, DoneIs, Zenon
<1> QED
  BY <1>1, <1>2, <1>3, <1>5

\* Readings each of which gives a member of W and leaves bytes.
AreTyped(W, level, c, n, s, f) ==
    /\ n \in Nat /\ s \in Seq(Octets) /\ Reads(f, level, c, n, s)
    /\ \A i \in 1 .. n : \A r \in Seq(Octets) : Works(Item(level, c, i, r)) =>
          Item(level, c, i, r).value \in W /\ Item(level, c, i, r).rest \in Seq(Octets)

\* They give a sequence of them.
LEMMA TypedRead ==
    \A W, level, c, n, s, f : AreTyped(W, level, c, n, s, f) /\ Works(f[n])
        => f[n].value \in Seq(W) /\ Len(f[n].value) = n /\ f[n].rest \in Seq(Octets)
<1> SUFFICES ASSUME NEW W, NEW level, NEW c, NEW n, NEW s, NEW f,
                    AreTyped(W, level, c, n, s, f), Works(f[n])
             PROVE  f[n].value \in Seq(W) /\ Len(f[n].value) = n /\ f[n].rest \in Seq(Octets)
  OBVIOUS
<1> DEFINE Good(i) == f[i].value \in Seq(W) /\ Len(f[i].value) = i /\ f[i].rest \in Seq(Octets)
           S == {k \in Nat : k <= n /\ Works(f[k]) => Good(k)}
<1>1. /\ n \in Nat /\ s \in Seq(Octets) /\ f[0] = Done(<<>>, s)
      /\ \A i \in 1 .. n : f[i] = TurnOf(level, c, i, f[i - 1])
  BY DEF AreTyped, Reads
<1>2. 0 \in S
  <2>1. f[0].value = <<>> /\ f[0].rest = s
    BY <1>1, DoneIs
  <2>2. <<>> \in Seq(W) /\ Len(<<>>) = 0
    OBVIOUS
  <2>3. Good(0)
    BY <1>1, <2>1, <2>2
  <2> QED
    BY <2>3
<1>3. ASSUME NEW k \in S PROVE k + 1 \in S
  <2>1. k \in Nat /\ (k <= n /\ Works(f[k]) => Good(k))
    OBVIOUS
  <2>2. ASSUME k + 1 <= n, Works(f[k + 1]) PROVE Good(k + 1)
    <3>1. PICK i \in 1 .. n : i = k + 1 /\ i - 1 = k
      BY <1>1, <2>1, <2>2
    <3>2. PICK x, y : x = f[k] /\ y = Item(level, c, i, x.rest)
      OBVIOUS
    <3>3. f[i] = TurnOf(level, c, i, x)
      BY <1>1, <3>1, <3>2
    <3>4. Works(x) /\ Works(y) /\ f[i].value = Append(x.value, y.value) /\ f[i].rest = y.rest
      BY <2>2, <3>1, <3>2, <3>3, TurnWorks
    <3>5. x.value \in Seq(W) /\ Len(x.value) = k /\ x.rest \in Seq(Octets)
      BY <2>1, <2>2, <1>1, <3>2, <3>4
    <3>6. y.value \in W /\ y.rest \in Seq(Octets)
      BY <3>2, <3>4, <3>5 DEF AreTyped
    <3>7. Append(x.value, y.value) \in Seq(W) /\ Len(Append(x.value, y.value)) = k + 1
      BY <3>5, <3>6, AppendProperties
    <3>8. Good(i)
      BY <3>1, <3>4, <3>6, <3>7
    <3> QED
      BY <3>1, <3>8
  <2> QED
    BY <2>1, <2>2
<1> HIDE DEF S
<1>4. S = Nat
  <2>1. S \subseteq Nat
    BY DEF S
  <2> QED
    BY <1>2, <1>3, <2>1, Induction
<1> HIDE DEF Good
<1>5. Good(n)
  <2>1. n \in S /\ n <= n
    BY <1>1, <1>4
  <2> QED
    BY <2>1 DEF S
<1> QED
  BY <1>5 DEF Good

\* The addresses there are.
Addressed == {a \in Seq(Octets) : IsAddress(a)}

\* A part of bytes is bytes.
LEMMA PartOfBytes ==
    ASSUME NEW k \in Nat, NEW s \in Seq(Octets), Works(Take(k, s))
    PROVE  /\ Take(k, s).value \in Seq(Octets) /\ Len(Take(k, s).value) = k
           /\ Take(k, s).rest \in Seq(Octets)
<1>1. s \in Seq(Nat) /\ Len(s) \in Nat
  BY BytesAreNumbers
<1>2. k <= Len(s)
  <2>1. ~(k > Len(s))
    <3>1. ASSUME k > Len(s) PROVE FALSE
      <4>1. Take(k, s) = Short
        BY <3>1, Zenon DEF Take
      <4>2. ~Works(Short)
        BY DEF Works, Short
      <4> QED
        BY <4>1, <4>2
    <3> QED
      BY <3>1
  <2> QED
    BY <1>1, <2>1
<1>3. PICK a, t : a = SubSeq(s, 1, k) /\ t = SubSeq(s, k + 1, Len(s))
  OBVIOUS
<1>4. Take(k, s) = Done(a, t)
  BY <1>1, <1>2, <1>3, TakeWorks
<1>5. a \in Seq(Octets) /\ Len(a) = k
  BY <1>1, <1>2, <1>3
<1>6. t \in Seq(Octets)
  BY <1>1, <1>2, <1>3
<1>7. Take(k, s).value = a /\ Take(k, s).rest = t
  BY <1>4, DoneIs, Zenon
<1> QED
  BY <1>5, <1>6, <1>7

\* Addresses put together from the bytes that were read.
FromSix(b) == <<4>> \o Complement(SubSeq(b, 1, 4)) \o SubSeq(b, 5, 6)
FromTwenty(b) == <<6>> \o SubSeq(b, 5, 20) \o SubSeq(b, 3, 4)

\* A byte and two parts.
LEMMA ThreeParts ==
    ASSUME NEW n \in Octets, NEW u \in Seq(Octets), NEW w \in Seq(Octets)
    PROVE  /\ <<n>> \o u \o w \in Seq(Octets) /\ Len(<<n>> \o u \o w) = 1 + Len(u) + Len(w)
           /\ Head(<<n>> \o u \o w) = n
<1>1. PICK d : d = <<n>> /\ d \in Seq(Octets) /\ Len(d) = 1 /\ d[1] = n
  <2>1. <<n>> \in Seq(Octets) /\ Len(<<n>>) = 1 /\ <<n>>[1] = n
    OBVIOUS
  <2> QED
    BY <2>1, Zenon
<1>2. PICK e : e = d \o u
  OBVIOUS
<1>3. e \in Seq(Octets) /\ Len(e) = 1 + Len(u) /\ e[1] = n
  <2>1. 1 \in 1 .. Len(d)
    BY <1>1
  <2> QED
    BY <1>1, <1>2, <2>1, ConcatProperties
<1>4. PICK g : g = e \o w
  OBVIOUS
<1>5. g \in Seq(Octets) /\ Len(g) = 1 + Len(u) + Len(w) /\ g[1] = n
  <2>1. Len(u) \in Nat /\ Len(w) \in Nat
    OBVIOUS
  <2>2. 1 \in 1 .. Len(e)
    BY <1>3, <2>1
  <2>3. g \in Seq(Octets) /\ Len(g) = Len(e) + Len(w) /\ g[1] = e[1]
    <3>1. /\ e \o w \in Seq(Octets) /\ Len(e \o w) = Len(e) + Len(w)
          /\ \A i \in 1 .. Len(e) : (e \o w)[i] = e[i]
      <4>1. e \in Seq(Octets) /\ w \in Seq(Octets)
        BY <1>3
      <4> QED
        BY <4>1, ConcatProperties
    <3> QED
      BY <1>4, <2>2, <3>1, Zenon
  <2> QED
    BY <1>3, <2>1, <2>3
<1>6. Head(g) = n
  <2>1. Len(u) \in Nat /\ Len(w) \in Nat
    OBVIOUS
  <2> QED
    BY <1>5, <2>1
<1> QED
  BY <1>1, <1>2, <1>4, <1>5, <1>6

\* Some of the bytes.
LEMMA SomeBytes ==
    ASSUME NEW b \in Seq(Octets), NEW i \in Nat, NEW j \in Nat, i >= 1, i <= j, j <= Len(b)
    PROVE  SubSeq(b, i, j) \in Seq(Octets) /\ Len(SubSeq(b, i, j)) = j - i + 1
<1>1. \A k \in i .. j : k \in 1 .. Len(b)
  OBVIOUS
<1>2. \A k \in 1 .. Len(b) : b[k] \in Octets
  BY ElementOfSeq
<1> QED
  BY <1>1, <1>2

\* They are addresses.
LEMMA PutTogether ==
    /\ \A b \in Seq(Octets) : Len(b) = 6 => FromSix(b) \in Addressed
    /\ \A b \in Seq(Octets) : Len(b) = 20 => FromTwenty(b) \in Addressed
<1>1. ASSUME NEW b \in Seq(Octets), Len(b) = 6 PROVE FromSix(b) \in Addressed
  <2>1. PICK u : u = Complement(SubSeq(b, 1, 4)) /\ u \in Seq(Octets) /\ Len(u) = 4
    <3>1. PICK w : w = SubSeq(b, 1, 4) /\ w \in Seq(Octets) /\ Len(w) = 4
      <4>1. SubSeq(b, 1, 4) \in Seq(Octets) /\ Len(SubSeq(b, 1, 4)) = 4
        <5>1. 1 <= 4 /\ 4 <= Len(b) /\ 1 >= 1 /\ 4 - 1 + 1 = 4
          BY <1>1
        <5>2. SubSeq(b, 1, 4) \in Seq(Octets) /\ Len(SubSeq(b, 1, 4)) = 4 - 1 + 1
          BY <5>1, SomeBytes
        <5> QED
          BY <5>1, <5>2
      <4> QED
        BY <4>1, Zenon
    <3>2. DOMAIN w = 1 .. 4 /\ \A i \in 1 .. 4 : w[i] \in Octets
      BY <3>1
    <3>3. \A i \in 1 .. 4 : 255 - w[i] \in Octets
      <4>1. \A x \in Octets : 255 - x \in Octets
        BY DEF Octets
      <4> QED
        BY <3>2, <4>1
    <3>4. Complement(w) \in Seq(Octets) /\ Len(Complement(w)) = 4
      BY <3>2, <3>3 DEF Complement
    <3> QED
      BY <3>1, <3>4, Zenon
  <2>2. PICK w : w = SubSeq(b, 5, 6) /\ w \in Seq(Octets) /\ Len(w) = 2
    <3>1. SubSeq(b, 5, 6) \in Seq(Octets) /\ Len(SubSeq(b, 5, 6)) = 2
      <4>1. 5 <= 6 /\ 6 <= Len(b) /\ 5 >= 1 /\ 6 - 5 + 1 = 2
        BY <1>1
      <4>2. SubSeq(b, 5, 6) \in Seq(Octets) /\ Len(SubSeq(b, 5, 6)) = 6 - 5 + 1
        BY <4>1, SomeBytes
      <4> QED
        BY <4>1, <4>2
    <3> QED
      BY <3>1, Zenon
  <2>3. 4 \in Octets
    BY DEF Octets
  <2>4. PICK a : a = <<4>> \o u \o w /\ a \in Seq(Octets) /\ Len(a) = 1 + Len(u) + Len(w) /\ Head(a) = 4
    <3>1. u \in Seq(Octets) /\ w \in Seq(Octets)
      BY <2>1, <2>2
    <3>2. /\ <<4>> \o u \o w \in Seq(Octets) /\ Len(<<4>> \o u \o w) = 1 + Len(u) + Len(w)
          /\ Head(<<4>> \o u \o w) = 4
      BY <2>3, <3>1, ThreeParts
    <3> QED
      BY <3>2, Zenon
  <2>5. Len(a) = 7
    <3>1. 1 + 4 + 2 = 7
      OBVIOUS
    <3> QED
      BY <2>1, <2>2, <2>4, <3>1, Zenon
  <2>6. IsAddress(a)
    BY <2>4, <2>5 DEF IsAddress, Octets
  <2> QED
    BY <2>1, <2>2, <2>4, <2>6 DEF Addressed, FromSix
<1>2. ASSUME NEW b \in Seq(Octets), Len(b) = 20 PROVE FromTwenty(b) \in Addressed
  <2>1. PICK u : u = SubSeq(b, 5, 20) /\ u \in Seq(Octets) /\ Len(u) = 16
    <3>1. SubSeq(b, 5, 20) \in Seq(Octets) /\ Len(SubSeq(b, 5, 20)) = 16
      <4>1. 5 <= 20 /\ 20 <= Len(b) /\ 5 >= 1 /\ 20 - 5 + 1 = 16
        BY <1>2
      <4>2. SubSeq(b, 5, 20) \in Seq(Octets) /\ Len(SubSeq(b, 5, 20)) = 20 - 5 + 1
        BY <4>1, SomeBytes
      <4> QED
        BY <4>1, <4>2
    <3> QED
      BY <3>1, Zenon
  <2>2. PICK w : w = SubSeq(b, 3, 4) /\ w \in Seq(Octets) /\ Len(w) = 2
    <3>1. SubSeq(b, 3, 4) \in Seq(Octets) /\ Len(SubSeq(b, 3, 4)) = 2
      <4>1. 3 <= 4 /\ 4 <= Len(b) /\ 3 >= 1 /\ 4 - 3 + 1 = 2
        BY <1>2
      <4>2. SubSeq(b, 3, 4) \in Seq(Octets) /\ Len(SubSeq(b, 3, 4)) = 4 - 3 + 1
        BY <4>1, SomeBytes
      <4> QED
        BY <4>1, <4>2
    <3> QED
      BY <3>1, Zenon
  <2>3. 6 \in Octets
    BY DEF Octets
  <2>4. PICK a : a = <<6>> \o u \o w /\ a \in Seq(Octets) /\ Len(a) = 1 + Len(u) + Len(w) /\ Head(a) = 6
    <3>1. u \in Seq(Octets) /\ w \in Seq(Octets)
      BY <2>1, <2>2
    <3>2. /\ <<6>> \o u \o w \in Seq(Octets) /\ Len(<<6>> \o u \o w) = 1 + Len(u) + Len(w)
          /\ Head(<<6>> \o u \o w) = 6
      BY <2>3, <3>1, ThreeParts
    <3> QED
      BY <3>2, Zenon
  <2>5. Len(a) = 19
    <3>1. 1 + 16 + 2 = 19
      OBVIOUS
    <3> QED
      BY <2>1, <2>2, <2>4, <3>1, Zenon
  <2>6. IsAddress(a)
    BY <2>4, <2>5 DEF IsAddress, Octets
  <2> QED
    BY <2>1, <2>2, <2>4, <2>6 DEF Addressed, FromTwenty
<1> QED
  BY <1>1, <1>2

\* An address that is read is one.
LEMMA AddressTyped ==
    \A s \in Seq(Octets) : Works(Get("Address", s)) =>
        Get("Address", s).value \in Addressed /\ Get("Address", s).rest \in Seq(Octets)
<1> SUFFICES ASSUME NEW s \in Seq(Octets), Works(Get("Address", s))
             PROVE  Get("Address", s).value \in Addressed /\ Get("Address", s).rest \in Seq(Octets)
  OBVIOUS
<1>1. Get("Address", s) = ReadAddress(s)
  BY DEF Get, BigEndian, LittleEndian
<1>2. PICK x : x = Take(1, s)
  OBVIOUS
<1>3. PICK y : y = ReadAddress(s) /\ Works(y)
  BY <1>1
<1>4. ReadAddress(s) = IF x.error # "" THEN x ELSE
        IF x.value = <<4>> THEN Map(Take(6, x.rest), LAMBDA b : FromSix(b))
        ELSE Map(Take(20, x.rest), LAMBDA b : FromTwenty(b))
  BY <1>2, Zenon DEF ReadAddress, Then, FromSix, FromTwenty
<1>5. Works(x)
  BY <1>3, <1>4, Zenon DEF Works
<1>6. x.rest \in Seq(Octets)
  BY <1>2, <1>5, PartOfBytes
<1>7. CASE x.value = <<4>>
  <2>1. PICK z : z = Take(6, x.rest)
    OBVIOUS
  <2>2. y = IF z.error # "" THEN z ELSE Done(FromSix(z.value), z.rest)
    BY <1>3, <1>4, <1>5, <1>7, <2>1, Zenon DEF Works, Map
  <2>3. Works(z) /\ y = Done(FromSix(z.value), z.rest)
    BY <1>3, <2>2, Zenon DEF Works
  <2>4. y.value = FromSix(z.value) /\ y.rest = z.rest
    BY <2>3, DoneIs, Zenon
  <2>5. z.value \in Seq(Octets) /\ Len(z.value) = 6 /\ z.rest \in Seq(Octets)
    BY <1>6, <2>1, <2>3, PartOfBytes
  <2> QED
    BY <1>1, <1>3, <2>4, <2>5, PutTogether
<1>8. CASE x.value # <<4>>
  <2>1. PICK z : z = Take(20, x.rest)
    OBVIOUS
  <2>2. y = IF z.error # "" THEN z ELSE Done(FromTwenty(z.value), z.rest)
    BY <1>3, <1>4, <1>5, <1>8, <2>1, Zenon DEF Works, Map
  <2>3. Works(z) /\ y = Done(FromTwenty(z.value), z.rest)
    BY <1>3, <2>2, Zenon DEF Works
  <2>4. y.value = FromTwenty(z.value) /\ y.rest = z.rest
    BY <2>3, DoneIs, Zenon
  <2>5. z.value \in Seq(Octets) /\ Len(z.value) = 20 /\ z.rest \in Seq(Octets)
    BY <1>6, <2>1, <2>3, PartOfBytes
  <2> QED
    BY <1>1, <1>3, <2>4, <2>5, PutTogether
<1> QED
  BY <1>7, <1>8

\* Kinds each of which is read of bytes as a member of W, and leaves bytes.
KindsTyped(W, kinds, n) ==
    /\ n \in Nat /\ Len(kinds) = n
    /\ \A i \in 1 .. n : \A r \in Seq(Octets) : Works(Get(kinds[i], r)) =>
          Get(kinds[i], r).value \in W /\ Get(kinds[i], r).rest \in Seq(Octets)

\* So is an element of them.
LEMMA ElementTyped ==
    \A W, kinds, n : KindsTyped(W, kinds, n) =>
        \A s \in Seq(Octets) : Works(ReadElement(kinds, s)) =>
            /\ ReadElement(kinds, s).value \in Seq(W) /\ Len(ReadElement(kinds, s).value) = n
            /\ ReadElement(kinds, s).rest \in Seq(Octets)
<1> SUFFICES ASSUME NEW W, NEW kinds, NEW n, KindsTyped(W, kinds, n), NEW s \in Seq(Octets),
                    Works(ReadElement(kinds, s))
             PROVE  /\ ReadElement(kinds, s).value \in Seq(W) /\ Len(ReadElement(kinds, s).value) = n
                    /\ ReadElement(kinds, s).rest \in Seq(Octets)
  OBVIOUS
<1>1. n \in Nat /\ Len(kinds) = n
  BY DEF KindsTyped
<1>2. PICK level : level = "kinds"
  OBVIOUS
<1>3. PICK f : Reads(f, level, kinds, n, s) /\ ReadElement(kinds, s) = f[n]
  BY <1>1, <1>2, ElementReads
<1>4. \A i, r : Item(level, kinds, i, r) = Get(kinds[i], r)
  BY <1>2 DEF Item
<1>5. AreTyped(W, level, kinds, n, s, f)
  BY <1>1, <1>3, <1>4 DEF AreTyped, KindsTyped
<1> QED
  BY <1>3, <1>5, TypedRead

\* And a field that is one such element.
LEMMA GroupTyped ==
    \A W, kinds, n : KindsTyped(W, kinds, n) =>
        \A s \in Seq(Octets) : Works(ReadField(Group(kinds), s)) =>
            /\ ReadField(Group(kinds), s).value[1] \in Seq(W)
            /\ Len(ReadField(Group(kinds), s).value[1]) = n
            /\ ReadField(Group(kinds), s).rest \in Seq(Octets)
<1> SUFFICES ASSUME NEW W, NEW kinds, NEW n, KindsTyped(W, kinds, n), NEW s \in Seq(Octets),
                    Works(ReadField(Group(kinds), s))
             PROVE  /\ ReadField(Group(kinds), s).value[1] \in Seq(W)
                    /\ Len(ReadField(Group(kinds), s).value[1]) = n
                    /\ ReadField(Group(kinds), s).rest \in Seq(Octets)
  OBVIOUS
<1>1. PICK field : field = Group(kinds) /\ field.of = kinds /\ ~IsList(field)
  BY DEF Group, IsList
<1>2. ReadField(field, s) = Elements(kinds, 1, s)
  <2>1. ReadField(field, s) = Elements(field.of, 1, s)
    BY <1>1, Zenon DEF ReadField, Elements
  <2> QED
    BY <1>1, <2>1, Zenon
<1>3. PICK level, m : level = "elements" /\ m = 1
  OBVIOUS
<1>4. m \in Nat /\ 1 \in 1 .. m
  BY <1>3
<1>5. PICK f : Reads(f, level, kinds, m, s) /\ Elements(kinds, m, s) = f[m]
  BY <1>3, <1>4, ElementsRead
<1>6. \A i, r : Item(level, kinds, i, r) = ReadElement(kinds, r)
  BY <1>3 DEF Item
<1>7. PICK U : U = {e \in Seq(W) : Len(e) = n}
  OBVIOUS
<1>8. \A r \in Seq(Octets) : Works(ReadElement(kinds, r)) =>
          ReadElement(kinds, r).value \in U /\ ReadElement(kinds, r).rest \in Seq(Octets)
  BY <1>7, ElementTyped
<1>9. AreTyped(U, level, kinds, m, s, f)
  BY <1>4, <1>5, <1>6, <1>8 DEF AreTyped
<1>10. Works(f[m]) /\ ReadField(Group(kinds), s) = f[m]
  BY <1>1, <1>2, <1>3, <1>5
<1>11. f[m].value \in Seq(U) /\ Len(f[m].value) = m /\ f[m].rest \in Seq(Octets)
  BY <1>9, <1>10, TypedRead
<1>12. f[m].value[1] \in U
  BY <1>4, <1>11
<1> QED
  BY <1>7, <1>10, <1>11, <1>12

\* Twenty addresses that are read are addresses.
LEMMA AddressesTyped ==
    \A s \in Seq(Octets) : Works(ReadField(Addresses, s)) => IsTwenty(ReadField(Addresses, s).value[1])
<1> SUFFICES ASSUME NEW s \in Seq(Octets), Works(ReadField(Addresses, s))
             PROVE  IsTwenty(ReadField(Addresses, s).value[1])
  OBVIOUS
<1>1. PICK kind, n : kind = "Address" /\ n = 20
  OBVIOUS
<1>2. PICK kinds : kinds = [i \in 1 .. n |-> kind]
  OBVIOUS
<1>3. Addresses = Group(kinds)
  BY <1>1, <1>2, Zenon DEF Addresses
<1>4. n \in Nat /\ Len(kinds) = n /\ \A i \in 1 .. n : kinds[i] = kind
  BY <1>1, <1>2
<1>5. KindsTyped(Addressed, kinds, n)
  <2>1. \A r \in Seq(Octets) : Works(Get(kind, r)) =>
           Get(kind, r).value \in Addressed /\ Get(kind, r).rest \in Seq(Octets)
    BY <1>1, AddressTyped, Zenon
  <2> QED
    BY <1>4, <2>1, Zenon DEF KindsTyped
<1>6. PICK e : e = ReadField(Addresses, s).value[1] /\ e \in Seq(Addressed) /\ Len(e) = n
  BY <1>3, <1>5, GroupTyped
<1>7. e = [i \in 1 .. 20 |-> e[i]] /\ \A i \in 1 .. 20 : e[i] \in Addressed
  <2>1. e \in Seq(Addressed) /\ Len(e) = 20
    BY <1>1, <1>6, Zenon
  <2>2. e \in [1 .. Len(e) -> Addressed]
    BY <2>1, LenProperties
  <2>3. e \in [1 .. 20 -> Addressed]
    BY <2>1, <2>2, Zenon
  <2> QED
    BY <2>3
<1>8. IsTwenty(e)
  BY <1>7 DEF IsTwenty, Addressed
<1> QED
  BY <1>6, <1>8

\* A field of one kind leaves bytes.
LEMMA OneTyped ==
    \A kind \in {"Address", "I16BE"} : \A s \in Seq(Octets) :
        Works(ReadField(One(kind), s)) => ReadField(One(kind), s).rest \in Seq(Octets)
<1> SUFFICES ASSUME NEW kind \in {"Address", "I16BE"}, NEW s \in Seq(Octets),
                    Works(ReadField(One(kind), s))
             PROVE  ReadField(One(kind), s).rest \in Seq(Octets)
  OBVIOUS
<1>1. PICK W : W = Seq(Octets)
  OBVIOUS
<1>2. \A r \in Seq(Octets) : Works(Get(kind, r)) =>
          Get(kind, r).value \in W /\ Get(kind, r).rest \in Seq(Octets)
  <2>1. CASE kind = "Address"
    BY <1>1, <2>1, AddressTyped DEF Addressed
  <2>2. CASE kind = "I16BE"
    <3>1. ASSUME NEW r \in Seq(Octets), Works(Get(kind, r))
          PROVE  Get(kind, r).value \in W /\ Get(kind, r).rest \in Seq(Octets)
      <4>1. Get(kind, r) = Take(2, r)
        BY <2>2 DEF Get, ReadFixed, BigEndian, LittleEndian, Width
      <4> QED
        BY <1>1, <3>1, <4>1, PartOfBytes
    <3> QED
      BY <3>1
  <2> QED
    BY <2>1, <2>2
<1>3. PICK kinds, n : kinds = <<kind>> /\ n = 1
  OBVIOUS
<1>4. One(kind) = Group(kinds)
  BY <1>3 DEF One, Group
<1>5. n \in Nat /\ Len(kinds) = n /\ \A i \in 1 .. n : kinds[i] = kind
  BY <1>3
<1>6. KindsTyped(W, kinds, n)
  BY <1>2, <1>5, Zenon DEF KindsTyped
<1> QED
  BY <1>4, <1>6, GroupTyped

\* A sequence with one element more.
LEMMA Appended ==
    \A V, s, n, x : s \in Seq(V) /\ Len(s) = n /\ x \in V =>
        Append(s, x) \in Seq(V) /\ Len(Append(s, x)) = n + 1 /\ Append(s, x)[n + 1] = x
  BY AppendProperties

\* The system addresses that are read of ConnectionRequestAccepted are addresses.
LEMMA ToldTyped ==
    ASSUME NEW b \in Seq(Octets), b # <<>>, Head(b) = ConnectionRequestAccepted,
           Works(ReadMessage(b))
    PROVE  IsTwenty(ReadMessage(b).value[3][1])
<1>1. PICK id \in Spoken : id = ConnectionRequestAccepted
  BY DEF Spoken
<1>2. id \in Octets /\ id \in Nat /\ id # NewIncomingConnection
  BY <1>1, SpokenPlain DEF Plain
<1>3. PICK s \in Seq(Octets) : b = Byte(id) \o s
  <2>1. Tail(b) \in Seq(Octets) /\ b = <<Head(b)>> \o Tail(b)
    OBVIOUS
  <2> QED
    BY <1>1, <2>1 DEF Byte
<1>4. PICK n, layout : n = 5 /\ layout = Layout(id)
  OBVIOUS
<1>5. n \in Nat /\ 3 \in 0 .. n /\ (\A i \in 1 .. 3 : i \in 1 .. n) /\ Len(layout) = n
      /\ layout[1] = One("Address") /\ layout[2] = One("I16BE") /\ layout[3] = Addresses
  <2>1. layout = <<One("Address"), One("I16BE"), Addresses, One("I64BE"), One("I64BE")>>
    BY <1>1, <1>4, OnlineLayouts
  <2> QED
    BY <1>4, <2>1
<1>6. PICK level : level = "fields"
  OBVIOUS
<1>7. PICK f : Reads(f, level, layout, n, s) /\ Read(layout, s) = f[n]
  BY <1>5, <1>6, LayoutReads
<1>8. ReadMessage(b) = f[n]
  <2>1. s \in Seq(Nat)
    BY BytesAreNumbers
  <2>2. ReadMessage(Byte(id) \o s) = Read(Layout(id), s)
    BY <1>2, <2>1, IdFirst
  <2> QED
    BY <1>3, <1>4, <1>7, <2>2
<1>9. \A i, r : Item(level, layout, i, r) = ReadField(layout[i], r)
  BY <1>6 DEF Item
<1>10. /\ f[0] = Done(<<>>, s) /\ f[1] = TurnOf(level, layout, 1, f[0])
       /\ f[2] = TurnOf(level, layout, 2, f[1]) /\ f[3] = TurnOf(level, layout, 3, f[2])
  <2>1. \A i \in 1 .. n : f[i] = TurnOf(level, layout, i, f[i - 1])
    BY <1>7, Zenon DEF Reads
  <2>2. 1 \in 1 .. n /\ 2 \in 1 .. n /\ 3 \in 1 .. n /\ 1 - 1 = 0 /\ 2 - 1 = 1 /\ 3 - 1 = 2
    BY <1>4
  <2> QED
    BY <1>7, <2>1, <2>2, Zenon DEF Reads
<1>11. Works(f[3])
  <2>1. ASSUME ~Works(f[3]) PROVE f[n] = f[3]
    <3>1. f[4] = TurnOf(level, layout, 4, f[3]) /\ f[5] = TurnOf(level, layout, 5, f[4])
      <4>1. \A i \in 1 .. n : f[i] = TurnOf(level, layout, i, f[i - 1])
        BY <1>7, Zenon DEF Reads
      <4>2. 4 \in 1 .. n /\ 5 \in 1 .. n /\ 4 - 1 = 3 /\ 5 - 1 = 4
        BY <1>4
      <4> QED
        BY <4>1, <4>2, Zenon
    <3>2. f[4] = f[3]
      BY <2>1, <3>1, TurnBad
    <3>3. f[5] = f[4]
      BY <2>1, <3>1, <3>2, TurnBad
    <3> QED
      BY <1>4, <3>2, <3>3
  <2> QED
    BY <1>8, <2>1
<1>12. PICK z : z = ReadField(layout[3], f[2].rest)
  OBVIOUS
<1>13. Works(f[2]) /\ Works(z) /\ f[3].value = Append(f[2].value, z.value)
  BY <1>9, <1>10, <1>11, <1>12, TurnWorks
<1>14. PICK y : y = ReadField(layout[2], f[1].rest)
  OBVIOUS
<1>15. Works(f[1]) /\ Works(y) /\ f[2].value = Append(f[1].value, y.value) /\ f[2].rest = y.rest
  BY <1>9, <1>10, <1>13, <1>14, TurnWorks
<1>16. PICK x : x = ReadField(layout[1], f[0].rest)
  OBVIOUS
<1>17. Works(x) /\ f[1].value = Append(f[0].value, x.value) /\ f[1].rest = x.rest
  BY <1>9, <1>10, <1>15, <1>16, TurnWorks
<1>18. f[0].value = <<>> /\ f[0].rest = s
  BY <1>10, DoneIs
<1>19. f[1].rest \in Seq(Octets)
  BY <1>5, <1>16, <1>17, <1>18, OneTyped
<1>20. f[2].rest \in Seq(Octets)
  BY <1>5, <1>14, <1>15, <1>19, OneTyped
<1>21. IsTwenty(z.value[1])
  BY <1>5, <1>12, <1>13, <1>20, AddressesTyped
<1>22. PICK V, v : v = f[3].value /\ v \in Seq(V) /\ Len(v) = 3 /\ v[3] = z.value
  <2>1. PICK p, q, r, V : p = x.value /\ q = y.value /\ r = z.value /\ V = {p, q, r}
    OBVIOUS
  <2>2. p \in V /\ q \in V /\ r \in V
    BY <2>1
  <2>3. PICK v0, v1, v2, v3 : v0 = f[0].value /\ v1 = f[1].value /\ v2 = f[2].value /\ v3 = f[3].value
    OBVIOUS
  <2>4. v0 \in Seq(V) /\ Len(v0) = 0
    BY <1>18, <2>3
  <2>5. v1 \in Seq(V) /\ Len(v1) = 0 + 1
    <3>1. v1 = Append(v0, p)
      BY <1>17, <2>1, <2>3, Zenon
    <3>2. v0 \in Seq(V) /\ p \in V
      BY <2>2, <2>4
    <3>3. Append(v0, p) \in Seq(V) /\ Len(Append(v0, p)) = Len(v0) + 1
      BY <3>2, AppendProperties
    <3> QED
      BY <2>4, <3>1, <3>3
  <2>6. v1 \in Seq(V) /\ Len(v1) = 1
    BY <2>5
  <2>7. v2 \in Seq(V) /\ Len(v2) = 1 + 1
    <3>1. v2 = Append(v1, q)
      BY <1>15, <2>1, <2>3, Zenon
    <3>2. v1 \in Seq(V) /\ q \in V
      BY <2>2, <2>6
    <3>3. Append(v1, q) \in Seq(V) /\ Len(Append(v1, q)) = Len(v1) + 1
      BY <3>2, AppendProperties
    <3> QED
      BY <2>6, <3>1, <3>3
  <2>8. v2 \in Seq(V) /\ Len(v2) = 2
    BY <2>7
  <2>9. v3 \in Seq(V) /\ Len(v3) = 2 + 1 /\ v3[2 + 1] = r
    <3>1. v3 = Append(v2, r)
      BY <1>13, <2>1, <2>3, Zenon
    <3>2. PICK n2 : n2 = 2
      OBVIOUS
    <3>3. v2 \in Seq(V) /\ Len(v2) = n2 /\ r \in V
      BY <2>2, <2>8, <3>2
    <3>4. Append(v2, r) \in Seq(V) /\ Len(Append(v2, r)) = n2 + 1 /\ Append(v2, r)[n2 + 1] = r
      <4>1. \A w : w \in V => /\ Append(v2, w) \in Seq(V) /\ Len(Append(v2, w)) = n2 + 1
                               /\ Append(v2, w)[n2 + 1] = w
        BY <3>3, Appended
      <4> QED
        BY <3>3, <4>1, Zenon
    <3> QED
      BY <3>1, <3>2, <3>4, Zenon
  <2>10. 2 + 1 = 3
    OBVIOUS
  <2> QED
    BY <2>1, <2>3, <2>9, <2>10, Zenon
<1>23. f[n].value[3] = z.value
  <2>1. PICK t, m : t = f[3].rest /\ m = 3
    OBVIOUS
  <2>2. f[m] = Done(v, t)
    <3>1. Works(f[2]) /\ Works(z) /\ f[3] = Done(Append(f[2].value, z.value), z.rest)
      BY <1>9, <1>10, <1>12, <1>13, TurnBad
    <3>2. f[3].value = Append(f[2].value, z.value) /\ f[3].rest = z.rest
      <4>1. PICK h, k : h = Append(f[2].value, z.value) /\ k = z.rest
        OBVIOUS
      <4>2. Done(h, k).value = h /\ Done(h, k).rest = k
        BY DoneIs, Zenon
      <4>3. f[3] = Done(h, k)
        BY <3>1, <4>1, Zenon
      <4> QED
        BY <4>1, <4>2, <4>3, Zenon
    <3> QED
      BY <1>22, <2>1, <3>1, <3>2
  <2>3. GoesOn(V, level, layout, s, f, n, m, v, t)
    BY <1>5, <1>7, <1>8, <1>22, <2>1, <2>2 DEF GoesOn
  <2>4. \A j \in 1 .. Len(v) : f[n].value[j] = v[j]
    BY <2>3, ReadOn
  <2> QED
    BY <1>22, <2>4
<1> QED
  BY <1>8, <1>21, <1>23

--------------------------------------------------------------------------------
(* NewIncomingConnection, whose addresses are read with a loop of its own.    *)

\* The next of them, and a turn of the loop, which the bytes of two times stop.
NextAddress(x) == Then(x, LAMBDA v, r : Map(Get("Address", r), LAMBDA a : Append(v, a)))
AddressTurn(i, x) == IF i > 1 /\ Len(x.rest) = 16 THEN x ELSE NextAddress(x)
IsTurned(f, s) ==
    f = [i \in 0 .. 20 |-> IF i = 0 THEN Done(<<>>, s) ELSE AddressTurn(i, f[i - 1])]

\* There is only one function like that.
LEMMA TurnedAlike ==
    ASSUME NEW s, NEW f, NEW g, IsTurned(f, s), IsTurned(g, s)
    PROVE  f = g
<1> DEFINE S == {k \in Nat : k <= 20 => f[k] = g[k]}
<1>1. \A h : IsTurned(h, s) => /\ h = [i \in 0 .. 20 |-> h[i]] /\ h[0] = Done(<<>>, s)
                               /\ \A i \in 1 .. 20 : h[i] = AddressTurn(i, h[i - 1])
  <2>1. ASSUME NEW h, IsTurned(h, s)
        PROVE  /\ h = [i \in 0 .. 20 |-> h[i]] /\ h[0] = Done(<<>>, s)
               /\ \A i \in 1 .. 20 : h[i] = AddressTurn(i, h[i - 1])
    <3>1. h = [i \in 0 .. 20 |-> IF i = 0 THEN Done(<<>>, s) ELSE AddressTurn(i, h[i - 1])]
      BY <2>1 DEF IsTurned
    <3>2. 0 \in 0 .. 20 /\ \A i \in 1 .. 20 : i \in 0 .. 20 /\ i # 0
      OBVIOUS
    <3>3. h[0] = Done(<<>>, s) /\ \A i \in 1 .. 20 : h[i] = AddressTurn(i, h[i - 1])
      BY <3>1, <3>2, Zenon
    <3>4. h = [i \in 0 .. 20 |-> h[i]]
      <4> DEFINE z(i) == IF i = 0 THEN Done(<<>>, s) ELSE AddressTurn(i, h[i - 1])
      <4>1. h = [i \in 0 .. 20 |-> z(i)]
        BY <3>1, Zenon
      <4> HIDE DEF z
      <4> QED
        BY <4>1
    <3> QED
      BY <3>3, <3>4
  <2> QED
    BY <2>1
<1>2. 0 \in S
  <2>1. f[0] = g[0]
    BY <1>1
  <2> QED
    BY <2>1
<1>3. ASSUME NEW k \in S PROVE k + 1 \in S
  <2>1. k \in Nat /\ (k <= 20 => f[k] = g[k])
    OBVIOUS
  <2>2. ASSUME k + 1 <= 20 PROVE f[k + 1] = g[k + 1]
    <3>1. PICK i \in 1 .. 20 : i = k + 1 /\ i - 1 = k
      BY <2>1, <2>2
    <3>2. f[i - 1] = g[i - 1]
      BY <2>1, <2>2, <3>1
    <3>3. f[i] = AddressTurn(i, f[i - 1]) /\ g[i] = AddressTurn(i, g[i - 1])
      BY <1>1
    <3> QED
      BY <3>1, <3>2, <3>3, Zenon
  <2> QED
    BY <2>1, <2>2
<1> HIDE DEF S
<1>4. S = Nat
  <2>1. S \subseteq Nat
    BY DEF S
  <2> QED
    BY <1>2, <1>3, <2>1, Induction
<1>5. \A i \in 0 .. 20 : f[i] = g[i]
  BY <1>4 DEF S
<1>6. f = [i \in 0 .. 20 |-> f[i]] /\ g = [i \in 0 .. 20 |-> g[i]]
  BY <1>1
<1> QED
  BY <1>5, <1>6

\* The addresses it did not get to.
Filled(w) == [i \in 1 .. 20 |-> IF i <= Len(w) THEN w[i] ELSE NoEndpoint]

\* What the loop reads.
LEMMA LoopReads ==
    ASSUME NEW s, NEW f, IsTurned(f, s), NEW v, NEW t, f[20] = Done(v, t)
    PROVE  ReadAddresses(s) = Done(Filled(v), t)
<1> DEFINE P(g) == g = [i \in 0 .. 20 |->
                          IF i = 0 THEN Done(<<>>, s)
                          ELSE IF i > 1 /\ Len(g[i - 1].rest) = 16 THEN g[i - 1]
                          ELSE Then(g[i - 1], LAMBDA w, r :
                                   Map(Get("Address", r), LAMBDA a : Append(w, a)))]
           h == CHOOSE g : P(g)
<1>1. ReadAddresses(s) = Map(h[20], LAMBDA w : Filled(w))
  BY DEF ReadAddresses, Filled
<1>2. ASSUME NEW g PROVE P(g) <=> IsTurned(g, s)
  BY Zenon DEF IsTurned, AddressTurn, NextAddress
<1> HIDE DEF P
<1>3. P(h)
  BY <1>2
<1> HIDE DEF h
<1>4. h = f
  <2>1. IsTurned(h, s)
    BY <1>2, <1>3
  <2> QED
    BY <2>1, TurnedAlike
<1>5. PICK y : y = h[20] /\ y = Done(v, t)
  BY <1>4
<1>6. Works(y) /\ y.value = v /\ y.rest = t
  <2>1. Works(Done(v, t)) /\ Done(v, t).value = v /\ Done(v, t).rest = t
    BY DoneIs
  <2>2. y = Done(v, t)
    BY <1>5
  <2> QED
    BY <2>1, <2>2
<1>7. ReadAddresses(s) = IF y.error # "" THEN y ELSE Done(Filled(y.value), y.rest)
  BY <1>1, <1>5, Zenon DEF Map
<1>8. ReadAddresses(s) = Done(Filled(v), t)
  BY <1>6, <1>7, Zenon DEF Works
<1> QED
  BY <1>8

\* A turn of the loop that is not stopped is a turn of reading kinds.
LEMMA AddressTurnIs ==
    ASSUME NEW c, NEW i, NEW x, c[i] = "Address", ~(i > 1 /\ Len(x.rest) = 16)
    PROVE  AddressTurn(i, x) = TurnOf("kinds", c, i, x)
<1>1. PICK y : y = Get("Address", x.rest)
  OBVIOUS
<1> DEFINE z == IF y.error # "" THEN y ELSE Done(Append(x.value, y.value), y.rest)
<1>2. AddressTurn(i, x) = NextAddress(x)
  BY DEF AddressTurn
<1>3. NextAddress(x) = IF x.error # "" THEN x ELSE z
  BY <1>1, Zenon DEF NextAddress, Then, Map
<1>4. NextKind(c, i, x) = IF x.error # "" THEN x ELSE z
  <2>1. NextKind(c, i, x) = IF x.error # "" THEN x ELSE
            Then(Get(c[i], x.rest), LAMBDA w, rest : Done(Append(x.value, w), rest))
    BY Zenon DEF NextKind, Then
  <2>2. Get(c[i], x.rest) = y
    BY <1>1, Zenon
  <2> QED
    BY <2>1, <2>2, Zenon DEF Then
<1> QED
  BY <1>2, <1>3, <1>4, KindTurn, Zenon

\* The first of sequences that are not empty, and at least an element of each other one.
LEMMA FirstAndOthers ==
    ASSUME NEW s \in Seq(Seq(Octets)), \A i \in 1 .. Len(s) : Len(s[i]) >= 1,
           NEW n \in Nat, Len(s) = n, NEW m \in 0 .. n
    PROVE  \E a, b : /\ a \in Seq(Seq(Octets)) /\ Len(a) = m /\ \A i \in 1 .. m : a[i] = s[i]
                     /\ b \in Seq(Octets) /\ Len(b) >= n - m
                     /\ FlattenSeq(s) = FlattenSeq(a) \o b
<1> DEFINE a == [i \in 1 .. m |-> s[i]]
           c == [i \in 1 .. n - m |-> s[m + i]]
<1>0. \A i \in 1 .. n : s[i] \in Seq(Octets)
  BY ElementOfSeq
<1>1. a \in Seq(Seq(Octets)) /\ Len(a) = m /\ \A i \in 1 .. m : a[i] = s[i]
  <2>1. \A i \in 1 .. m : i \in 1 .. n
    OBVIOUS
  <2> QED
    BY <1>0, <2>1
<1>2. /\ c \in Seq(Seq(Octets)) /\ Len(c) = n - m /\ n - m \in Nat
      /\ \A i \in 1 .. n - m : c[i] = s[m + i] /\ m + i \in 1 .. n
  <2>1. (\A i \in 1 .. n - m : m + i \in 1 .. n) /\ n - m \in Nat
    OBVIOUS
  <2> QED
    BY <1>0, <2>1
<1> HIDE DEF a, c
<1>3. s = a \o c
  <2>1. /\ a \o c \in Seq(Seq(Octets)) /\ Len(a \o c) = n
        /\ \A i \in 1 .. Len(a) + Len(c) : (a \o c)[i] = IF i <= Len(a) THEN a[i] ELSE c[i - Len(a)]
    <3>1. PICK X : X = Seq(Octets)
      OBVIOUS
    <3>2. a \in Seq(X) /\ c \in Seq(X)
      BY <1>1, <1>2, <3>1
    <3>3. /\ a \o c \in Seq(X) /\ Len(a \o c) = Len(a) + Len(c)
          /\ \A i \in 1 .. Len(a) + Len(c) : (a \o c)[i] = IF i <= Len(a) THEN a[i] ELSE c[i - Len(a)]
      BY <3>2, ConcatProperties
    <3>4. Len(a) = m /\ Len(c) = n - m
      BY <1>1, <1>2
    <3>5. m + (n - m) = n
      OBVIOUS
    <3> QED
      BY <3>1, <3>3, <3>4, <3>5, Zenon
  <2>2. ASSUME NEW i \in 1 .. n PROVE (a \o c)[i] = s[i]
    <3>1. (a \o c)[i] = IF i <= m THEN a[i] ELSE c[i - m]
      <4>1. Len(a) = m /\ Len(c) = n - m
        BY <1>1, <1>2
      <4>2. i \in 1 .. m + (n - m)
        OBVIOUS
      <4> QED
        BY <2>1, <4>1, <4>2, Zenon
    <3>2. CASE i <= m
      <4>1. i \in 1 .. m
        BY <3>2
      <4> QED
        BY <1>1, <3>1, <3>2, <4>1, Zenon
    <3>3. CASE ~(i <= m)
      <4>1. i - m \in 1 .. n - m /\ m + (i - m) = i
        BY <3>3
      <4>2. c[i - m] = s[i]
        BY <1>2, <4>1
      <4> QED
        BY <3>1, <3>3, <4>2, Zenon
    <3> QED
      BY <3>2, <3>3
  <2> QED
    BY <2>1, <2>2, SeqEqual
<1>4. FlattenSeq(s) = FlattenSeq(a) \o FlattenSeq(c)
  BY <1>1, <1>2, <1>3, FlattenConcat
<1>5. FlattenSeq(c) \in Seq(Octets) /\ Len(FlattenSeq(c)) >= n - m
  <2>1. \A i \in 1 .. Len(c) : Len(c[i]) >= 1
    BY <1>2
  <2>2. Len(FlattenSeq(c)) >= Len(c)
    BY <1>2, <2>1, LongEnough
  <2> QED
    BY <1>2, <2>2, FlattenType
<1> QED
  BY <1>1, <1>4, <1>5

\* Addresses of version 4 that have been written one after the other.
FourParts(e, parts) ==
    /\ IsTwenty(e) /\ parts \in Seq(Seq(Octets)) /\ Len(parts) = 20
    /\ \A i \in 1 .. 20 : /\ Head(e[i]) = 4 /\ Len(parts[i]) >= 1
                          /\ \A u \in Seq(Nat) : Get("Address", parts[i] \o u) = Done(e[i], u)

\* The loop is not stopped before it has read all of them.
LEMMA LoopGoesOn ==
    ASSUME NEW e, NEW parts, FourParts(e, parts), NEW t \in Seq(Nat), Len(t) = 16
    PROVE  ReadAddresses(FlattenSeq(parts) \o t) = Done(e, t)
<1>1. PICK n \in Nat : n = 20
  OBVIOUS
<1>2. PICK kind, level : kind = "Address" /\ level = "kinds"
  OBVIOUS
<1>3. PICK c, s : c = [i \in 1 .. n |-> kind] /\ s = FlattenSeq(parts) \o t
  OBVIOUS
<1>4. /\ parts \in Seq(Seq(Octets)) /\ Len(parts) = n
      /\ e = [i \in 1 .. n |-> e[i]]
      /\ \A i \in 1 .. n : /\ c[i] = kind /\ Len(parts[i]) >= 1
                           /\ \A u \in Seq(Nat) : Get(kind, parts[i] \o u) = Done(e[i], u)
  BY <1>1, <1>2, <1>3 DEF FourParts, IsTwenty
<1>5. PICK f : f = [i \in 0 .. n |-> f[i]] /\ Reads(f, level, c, n, s)
  BY ReadsExist
<1>6. PICK V : e \in Seq(V) /\ Len(e) = n
  <2>1. PICK V : V = {e[i] : i \in 1 .. n}
    OBVIOUS
  <2>2. \A i \in 1 .. n : e[i] \in V
    BY <2>1
  <2>3. [i \in 1 .. n |-> e[i]] \in Seq(V) /\ Len([i \in 1 .. n |-> e[i]]) = n
    BY <2>2
  <2>4. e \in Seq(V) /\ Len(e) = n
    BY <1>4, <2>3, Zenon
  <2> QED
    BY <2>4
<1>7. \A i, r : i \in 1 .. n => Item(level, c, i, r) = Get(kind, r)
  BY <1>2, <1>4 DEF Item
<1>8. ASSUME NEW m \in 0 .. n
      PROVE  \E w, r : /\ f[m] = Done(w, r) /\ r \in Seq(Nat) /\ Len(r) >= 16 + (n - m)
                       /\ m = n => w = e /\ r = t
  <2>1. PICK a, b : /\ a \in Seq(Seq(Octets)) /\ Len(a) = m /\ (\A i \in 1 .. m : a[i] = parts[i])
                    /\ b \in Seq(Octets) /\ Len(b) >= n - m
                    /\ FlattenSeq(parts) = FlattenSeq(a) \o b
    <3>1. \A i \in 1 .. Len(parts) : Len(parts[i]) >= 1
      BY <1>4
    <3> QED
      BY <1>4, <3>1, FirstAndOthers
  <2>2. PICK w : w \in Seq(V) /\ Len(w) = m /\ (\A i \in 1 .. m : w[i] = e[i]) /\ (m = n => w = e)
    <3>1. CASE m = n
      BY <1>6, <3>1
    <3>2. CASE m # n
      <4>1. SubSeq(e, 1, m) \in Seq(V) /\ Len(SubSeq(e, 1, m)) = m
            /\ \A i \in 1 .. m : SubSeq(e, 1, m)[i] = e[i]
        BY <1>6
      <4> QED
        BY <3>2, <4>1
    <3> QED
      BY <3>1, <3>2
  <2>3. FlattenSeq(a) \in Seq(Octets) /\ FlattenSeq(a) \in Seq(Nat) /\ b \in Seq(Nat)
    BY <2>1, FlattenType, BytesAreNumbers
  <2>4. PICK r : r = b \o t
    OBVIOUS
  <2>5. r \in Seq(Nat) /\ Len(r) >= 16 + (n - m)
    <3>1. b \in Seq(Nat) /\ t \in Seq(Nat)
      BY <2>3
    <3>2. b \o t \in Seq(Nat) /\ Len(b \o t) = Len(b) + Len(t)
      BY <3>1, ConcatProperties
    <3>3. Len(b) \in Nat /\ Len(b) >= n - m /\ Len(t) = 16
      BY <2>1, <3>1
    <3> QED
      BY <2>4, <3>2, <3>3
  <2>6. s = FlattenSeq(a) \o r
    <3>1. (FlattenSeq(a) \o b) \o t = FlattenSeq(a) \o (b \o t)
      BY <2>3, NatsAssociative
    <3> QED
      BY <1>3, <2>1, <2>4, <3>1
  <2>7. AreParts(V, level, c, m, a, w)
    <3>1. \A i \in 1 .. m : i \in 1 .. n
      OBVIOUS
    <3>2. a \in Seq(Seq(Nat))
      <4>1. \A i \in 1 .. m : a[i] \in Seq(Nat)
        <5>1. \A i \in 1 .. Len(a) : a[i] \in Seq(Octets)
          BY <2>1, ElementOfSeq
        <5> QED
          BY <2>1, <5>1, BytesAreNumbers
      <4> QED
        BY <2>1, <4>1
    <3>3. \A i \in 1 .. m : \A u \in Seq(Nat) : Item(level, c, i, a[i] \o u) = Done(w[i], u)
      <4>1. ASSUME NEW i \in 1 .. m, NEW u \in Seq(Nat)
            PROVE  Item(level, c, i, a[i] \o u) = Done(w[i], u)
        <5>1. i \in 1 .. n /\ a[i] = parts[i] /\ w[i] = e[i]
          BY <2>1, <2>2, <3>1
        <5>2. Get(kind, parts[i] \o u) = Done(e[i], u)
          BY <1>4, <5>1
        <5>3. Item(level, c, i, a[i] \o u) = Get(kind, a[i] \o u)
          BY <1>7, <5>1
        <5> QED
          BY <5>1, <5>2, <5>3
      <4> QED
        BY <4>1
    <3> QED
      BY <2>1, <2>2, <3>2, <3>3 DEF AreParts
  <2>8. f[m] = Done(w, r)
    BY <1>5, <2>5, <2>6, <2>7, PartsRead
  <2>9. m = n => r = t
    <3>1. ASSUME m = n PROVE r = t
      <4>1. Len(b) = 0
        <5>1. Len(FlattenSeq(a) \o b) = Len(FlattenSeq(a)) + Len(b)
          BY <2>1, <2>3, ConcatProperties
        <5>2. FlattenSeq(a) = FlattenSeq(parts)
          <6>1. Len(a) = Len(parts) /\ \A i \in 1 .. Len(a) : a[i] = parts[i]
            BY <1>4, <2>1, <3>1
          <6>2. PICK X : X = Seq(Octets)
            OBVIOUS
          <6>3. a \in Seq(X) /\ parts \in Seq(X)
            BY <1>4, <2>1, <6>2
          <6>4. a = parts
            BY <6>1, <6>3, SeqEqual
          <6> QED
            BY <6>4
        <5>3. Len(FlattenSeq(a)) \in Nat /\ Len(b) \in Nat
          BY <2>3
        <5>4. Len(FlattenSeq(a)) = Len(FlattenSeq(a)) + Len(b)
          BY <2>1, <5>1, <5>2
        <5> QED
          BY <5>3, <5>4
      <4>2. b = <<>>
        BY <2>3, <4>1
      <4> QED
        BY <2>4, <4>2
    <3> QED
      BY <3>1
  <2> QED
    BY <2>2, <2>5, <2>8, <2>9
<1>9. IsTurned(f, s)
  <2> DEFINE z(i) == IF i = 0 THEN Done(<<>>, s) ELSE AddressTurn(i, f[i - 1])
  <2>1. ASSUME NEW i \in 1 .. n PROVE f[i] = AddressTurn(i, f[i - 1])
    <3>1. i - 1 \in 0 .. n /\ n - (i - 1) >= 1
      OBVIOUS
    <3>2. PICK x : x = f[i - 1]
      OBVIOUS
    <3>3. Len(x.rest) # 16
      <4>1. PICK w, r : x = Done(w, r) /\ r \in Seq(Nat) /\ Len(r) >= 16 + (n - (i - 1))
        BY <1>8, <3>1, <3>2
      <4>2. x.rest = r
        BY <4>1, DoneIs, Zenon
      <4>3. Len(r) \in Nat /\ Len(r) # 16
        <5>1. PICK k, j : k = Len(r) /\ j = n - (i - 1)
          OBVIOUS
        <5>2. k \in Nat /\ k >= 16 + j /\ j >= 1 /\ j \in Int
          <6>1. Len(r) \in Nat /\ Len(r) >= 16 + (n - (i - 1))
            BY <4>1
          <6>2. n - (i - 1) \in Int /\ n - (i - 1) >= 1
            OBVIOUS
          <6> QED
            BY <5>1, <6>1, <6>2
        <5>3. k \in Nat /\ k # 16
          BY <5>2
        <5> QED
          BY <5>1, <5>3, Zenon
      <4> QED
        BY <4>2, <4>3
    <3>4. AddressTurn(i, x) = TurnOf(level, c, i, x)
      <4>1. c[i] = "Address" /\ ~(i > 1 /\ Len(x.rest) = 16)
        BY <1>2, <1>4, <3>3
      <4>2. AddressTurn(i, x) = TurnOf("kinds", c, i, x)
        BY <4>1, AddressTurnIs
      <4> QED
        BY <1>2, <4>2, Zenon
    <3>5. f[i] = TurnOf(level, c, i, x)
      BY <1>5, <3>2, Zenon DEF Reads
    <3> QED
      BY <3>2, <3>4, <3>5
  <2>2. f[0] = Done(<<>>, s)
    BY <1>5 DEF Reads
  <2>3. \A i \in 0 .. n : f[i] = z(i)
    <3>1. ASSUME NEW i \in 0 .. n PROVE f[i] = z(i)
      <4>1. i = 0 \/ (i \in 1 .. n /\ i # 0)
        OBVIOUS
      <4> QED
        BY <2>1, <2>2, <4>1, Zenon
    <3> QED
      BY <3>1
  <2> HIDE DEF z
  <2>4. f = [i \in 0 .. n |-> z(i)]
    BY <1>5, <2>3
  <2>5. f = [i \in 0 .. 20 |-> z(i)]
    BY <1>1, <2>4
  <2> QED
    BY <2>5, Zenon DEF IsTurned, z
<1>10. f[20] = Done(e, t)
  <2>1. n \in 0 .. n
    OBVIOUS
  <2>2. f[n] = Done(e, t)
    BY <1>8, <2>1
  <2> QED
    BY <1>1, <2>2
<1>11. ReadAddresses(s) = Done(Filled(e), t)
  BY <1>9, <1>10, LoopReads
<1>12. Filled(e) = e
  <2>1. Len(e) = 20 /\ \A i \in 1 .. 20 : i <= 20
    BY <1>1, <1>6
  <2>2. e = [i \in 1 .. 20 |-> e[i]]
    BY <1>1, <1>4
  <2> QED
    BY <2>1, <2>2 DEF Filled
<1> QED
  BY <1>3, <1>11, <1>12

\* Addresses of version 4, as they are written.
LEMMA AddressesWritten ==
    ASSUME NEW e, IsTwenty(e), \A i \in 1 .. 20 : Head(e[i]) = 4
    PROVE  \E parts : FourParts(e, parts) /\ WriteField(Addresses, <<e>>) = FlattenSeq(parts)
<1>1. PICK kind, n : kind = "Address" /\ n = 20
  OBVIOUS
<1>2. PICK kinds, parts : kinds = [i \in 1 .. n |-> kind] /\ parts = [i \in 1 .. n |-> Put(kind, e[i])]
  OBVIOUS
<1>3. n \in Nat /\ DOMAIN kinds = 1 .. n /\ \A i \in 1 .. n : kinds[i] = kind
  BY <1>1, <1>2
<1>4. ASSUME NEW i \in 1 .. n
      PROVE  /\ Put(kind, e[i]) \in Seq(Octets) /\ Len(Put(kind, e[i])) >= 1
             /\ \A u \in Seq(Nat) : Get(kind, Put(kind, e[i]) \o u) = Done(e[i], u)
  <2>1. IsAddress(e[i]) /\ Head(e[i]) = 4
    BY <1>1 DEF IsTwenty
  <2>2. PICK a : a = e[i] /\ IsAddress(a) /\ Head(a) = 4
    BY <2>1
  <2>3. Passes(kind, a)
    BY <1>1, <2>2, AddressPasses
  <2>4. WriteField(One(kind), Just(a)) = Put(kind, a)
    <3>1. Put(kind, a) \in Seq(Octets)
      BY <2>3 DEF Passes
    <3> QED
      BY <3>1, OneWritten
  <2>5. Len(Put(kind, a)) >= 1
    <3>1. Len(WriteField(One(kind), Just(a))) = 7
      BY <1>1, <2>2, AddressLength
    <3> QED
      BY <2>4, <3>1
  <2> QED
    BY <2>2, <2>3, <2>5 DEF Passes
<1>5. /\ parts \in Seq(Seq(Octets)) /\ Len(parts) = n
      /\ \A i \in 1 .. n : parts[i] = Put(kind, e[i])
  BY <1>2, <1>3, <1>4
<1>6. FourParts(e, parts)
  <2>1. \A i \in 1 .. n : /\ Head(e[i]) = 4 /\ Len(parts[i]) >= 1
                          /\ \A u \in Seq(Nat) : Get(kind, parts[i] \o u) = Done(e[i], u)
    BY <1>1, <1>4, <1>5
  <2> QED
    BY <1>1, <1>5, <2>1, Zenon DEF FourParts
<1>7. WriteElement(kinds, e) = FlattenSeq(parts)
  <2>1. [j \in DOMAIN kinds |-> Put(kinds[j], e[j])] = parts
    BY <1>2, <1>3
  <2> QED
    BY <2>1, Zenon DEF WriteElement
<1>8. Addresses = Group(kinds)
  BY <1>1, <1>2, Zenon DEF Addresses
<1>9. WriteElement(kinds, e) \in Seq(Octets)
  BY <1>5, <1>7, FlattenType
<1> QED
  BY <1>6, <1>7, <1>8, <1>9, GroupWritten

\* The two times behind the addresses.
Times == <<One(Time), One(Time)>>

\* They are read as a sequence of values, when there are bytes enough.
LEMMA TimesRead ==
    ASSUME NEW s
    PROVE  /\ Works(Read(Times, s)) => \E V : Read(Times, s).value \in Seq(V)
           /\ s \in Seq(Nat) /\ Len(s) = 16 => Works(Read(Times, s))
<1>1. PICK layout, n, level : layout = Times /\ n = 2 /\ level = "fields"
  OBVIOUS
<1>2. n \in Nat /\ Len(layout) = n /\ layout[1] = One(Time) /\ layout[2] = One(Time)
      /\ 1 \in 1 .. n /\ 2 \in 1 .. n /\ 1 - 1 = 0 /\ 2 - 1 = 1
  BY <1>1 DEF Times
<1>3. PICK f : Reads(f, level, layout, n, s) /\ Read(layout, s) = f[n]
  BY <1>1, <1>2, LayoutReads
<1>4. /\ f[0] = Done(<<>>, s) /\ f[1] = TurnOf(level, layout, 1, f[0])
      /\ f[2] = TurnOf(level, layout, 2, f[1])
  BY <1>2, <1>3, Zenon DEF Reads
<1>5. ASSUME Works(f[2]) PROVE \E V : f[2].value \in Seq(V)
  <2>1. PICK q : q = Item(level, layout, 2, f[1].rest).value
    OBVIOUS
  <2>2. Works(f[1]) /\ f[2].value = Append(f[1].value, q)
    BY <1>4, <1>5, <2>1, TurnWorks
  <2>3. PICK p : p = Item(level, layout, 1, f[0].rest).value
    OBVIOUS
  <2>4. f[1].value = Append(f[0].value, p)
    BY <1>4, <2>2, <2>3, TurnWorks
  <2>5. f[0].value = <<>>
    BY <1>4, DoneIs
  <2>6. PICK V, v0, v1 : V = {p, q} /\ v0 = f[0].value /\ v1 = f[1].value
    OBVIOUS
  <2>7. p \in V /\ q \in V /\ v0 \in Seq(V)
    BY <2>5, <2>6
  <2>8. v1 \in Seq(V)
    BY <2>4, <2>6, <2>7, AppendProperties
  <2>9. f[2].value \in Seq(V)
    BY <2>2, <2>6, <2>7, <2>8, AppendProperties
  <2> QED
    BY <2>9
<1>6. ASSUME s \in Seq(Nat), Len(s) = 16 PROVE Works(f[n])
  <2>1. PICK m : m = 0
    OBVIOUS
  <2>2. m \in 0 .. n /\ Len(s) >= 2 * (n - m)
    BY <1>1, <1>6, <2>1
  <2>3. \A i \in m + 1 .. n : \E kind \in {Time, "IsOne"} : layout[i] = One(kind)
    <3>1. \A i \in m + 1 .. n : i = 1 \/ i = 2
      BY <1>1, <2>1
    <3> QED
      BY <1>2, <3>1
  <2>4. Reads(f, "fields", layout, n, s) /\ f[m] = Done(<<>>, s)
    BY <1>1, <1>3, <1>4, <2>1, Zenon
  <2> QED
    BY <1>2, <1>6, <2>2, <2>3, <2>4, TimesWork
<1> QED
  BY <1>1, <1>3, <1>5, <1>6

\* How it goes on when the first address has been read.
LEMMA IncomingIs ==
    ASSUME NEW s, NEW x, NEW y, NEW z, x = Get("Address", s), Works(x),
           y = ReadAddresses(x.rest), z = Read(Times, y.rest)
    PROVE  /\ ~Works(y) => ReadIncoming(s) = y
           /\ Works(y) /\ ~Works(z) => ReadIncoming(s) = z
           /\ Works(y) /\ Works(z) =>
                 ReadIncoming(s) = Done(<<<<<<x.value>>>>, <<y.value>>>> \o z.value, z.rest)
<1>1. z = Read(<<One("I64BE"), One("I64BE")>>, y.rest)
  BY DEF Times, Time
<1>2. ReadIncoming(s) =
        IF x.error # "" THEN x ELSE IF y.error # "" THEN y ELSE IF z.error # "" THEN z
        ELSE Done(<<<<<<x.value>>>>, <<y.value>>>> \o z.value, z.rest)
  BY <1>1, Zenon DEF ReadIncoming, Then, Map
<1> QED
  BY <1>2, Zenon DEF Works

\* A message of it.
LEMMA IncomingRead ==
    ASSUME NEW s \in Seq(Nat)
    PROVE  ReadMessage(Byte(NewIncomingConnection) \o s) = ReadIncoming(s)
<1>1. PICK n \in Nat : n = NewIncomingConnection
  BY DEF NewIncomingConnection
<1>2. PICK b : b = Byte(n) /\ b = <<n>>
  BY Zenon DEF Byte
<1>3. PICK y : y = Take(1, Byte(n) \o s) /\ y = Done(b, s)
  BY <1>2, Prefixed DEF Byte
<1>4. Works(y) /\ y.value = b /\ y.rest = s
  BY <1>3, DoneIs, Zenon
<1> QED
  BY <1>1, <1>2, <1>3, <1>4, Zenon DEF ReadMessage, Then, Works

\* Four fields one after the other, the first two before the others.
LEMMA FourSplit ==
    ASSUME NEW a \in Seq(Octets), NEW b \in Seq(Octets), NEW c \in Seq(Octets), NEW d \in Seq(Octets)
    PROVE  \E t \in Seq(Octets) : /\ FlattenSeq(<<a, b, c, d>>) = a \o (b \o t)
                                  /\ Len(t) = Len(c) + Len(d)
<1>1. PICK B, s, t, u : B = Seq(Octets) /\ s = <<a, b, c, d>> /\ t = <<b, c, d>> /\ u = <<c, d>>
  OBVIOUS
<1>2. s \in Seq(B) /\ s # <<>> /\ Head(s) = a /\ Tail(s) = t
  BY <1>1
<1>3. t \in Seq(B) /\ t # <<>> /\ Head(t) = b /\ Tail(t) = u
  BY <1>1
<1>4. u \in Seq(B)
  BY <1>1
<1>5. Len(FlattenSeq(u)) = Len(c) + Len(d)
  BY <1>1, TwoLong
<1>6. FlattenSeq(u) \in Seq(Octets)
  BY <1>1, <1>4, FlattenType
<1>7. FlattenSeq(s) = a \o FlattenSeq(t)
  BY <1>1, <1>2, FlattenHead
<1>8. FlattenSeq(t) = b \o FlattenSeq(u)
  BY <1>1, <1>3, FlattenHead
<1>9. FlattenSeq(<<a, b, c, d>>) = a \o (b \o FlattenSeq(u))
  BY <1>1, <1>7, <1>8, Zenon
<1> QED
  BY <1>5, <1>6, <1>9

\* Two values before others.
LEMMA TwoBefore ==
    ASSUME NEW a, NEW b, NEW W, NEW w \in Seq(W)
    PROVE  (<<a, b>> \o w)[1] = a /\ (<<a, b>> \o w)[2] = b
<1>1. PICK U : U = W \cup {a, b}
  OBVIOUS
<1>2. PICK d : d = <<a, b>> /\ d \in Seq(U) /\ Len(d) = 2 /\ d[1] = a /\ d[2] = b
  <2>1. a \in U /\ b \in U
    BY <1>1
  <2>2. <<a, b>> \in Seq(U) /\ Len(<<a, b>>) = 2 /\ <<a, b>>[1] = a /\ <<a, b>>[2] = b
    BY <2>1
  <2> QED
    BY <2>2, Zenon
<1>3. w \in Seq(U)
  <2>1. W \subseteq U
    BY <1>1
  <2>2. \A i \in 1 .. Len(w) : w[i] \in W
    BY ElementOfSeq
  <2>3. w \in [1 .. Len(w) -> W] /\ Len(w) \in Nat
    BY LenProperties
  <2>4. w \in [1 .. Len(w) -> U]
    BY <2>1, <2>3
  <2> QED
    BY <2>3, <2>4
<1>4. \A i \in 1 .. Len(d) : (d \o w)[i] = d[i]
  <2>1. d \in Seq(U) /\ w \in Seq(U)
    BY <1>2, <1>3
  <2> QED
    BY <2>1, ConcatProperties
<1>5. 1 \in 1 .. Len(d) /\ 2 \in 1 .. Len(d)
  BY <1>2
<1> QED
  BY <1>2, <1>4, <1>5

\* The message of a client that is connected is heard: the server's address, and the others
\* as far as they are of version 4.
LEMMA NewIncomingConnectionHeard ==
    ASSUME IsTwenty(told), NEW v \in Contents(NewIncomingConnection),
           NEW b \in Encodings(NewIncomingConnection, v)
    PROVE  Heard(NewIncomingConnection, v, b)
<1>1. PICK id \in Nat : id = NewIncomingConnection /\ id \in Octets /\ id # IncompatibleProtocolVersion
  BY DEF NewIncomingConnection, IncompatibleProtocolVersion, Octets
<1>2. PICK e : e = told
  OBVIOUS
<1>3. PICK e1, e2, e3 : e1 = Just(NoEndpoint) /\ e2 = <<e>> /\ e3 = Just(Now)
  OBVIOUS
<1>4. v = <<e1, e2, e3, e3>>
  BY <1>2, <1>3, OnlineContents
<1>5. PICK f1, f2, f3 : f1 = One("Address") /\ f2 = Addresses /\ f3 = One(Time)
  OBVIOUS
<1>6. PICK layout : layout = Layout(id) /\ layout = <<f1, f2, f3, f3>>
  BY <1>1, <1>5, OnlineLayouts DEF Time
<1>7. v[1] = e1 /\ v[2] = e2 /\ v[3] = e3 /\ v[4] = e3
  BY <1>4
<1>8. /\ Len(layout) = 4 /\ DOMAIN layout = 1 .. 4 /\ layout[1] = f1 /\ layout[2] = f2
      /\ layout[3] = f3 /\ layout[4] = f3
  BY <1>6
<1>9. b = WriteMessage(id, v)
  BY <1>1, EncodingsAre DEF NewIncomingConnection, OpenConnectionRequest1, OpenConnectionRequest2
<1>10. PICK p, q, r : p = WriteField(f1, e1) /\ q = WriteField(f2, e2) /\ r = WriteField(f3, e3)
  OBVIOUS
<1>11. PICK kind : kind = "Address"
  OBVIOUS
<1>12. Passes(kind, NoEndpoint) /\ p = Put(kind, NoEndpoint)
  <2>1. Passes(kind, NoEndpoint)
    BY <1>11, NoEndpointIs, AddressPasses
  <2>2. Put(kind, NoEndpoint) \in Seq(Octets)
    BY <2>1 DEF Passes
  <2>3. WriteField(One(kind), Just(NoEndpoint)) = Put(kind, NoEndpoint)
    BY <2>2, OneWritten
  <2> QED
    BY <1>3, <1>5, <1>10, <1>11, <2>1, <2>3, Zenon
<1>13. p \in Seq(Octets) /\ p \in Seq(Nat)
  BY <1>12, BytesAreNumbers DEF Passes
<1>14. q \in Seq(Octets) /\ q \in Seq(Nat)
  BY <1>2, <1>3, <1>5, <1>10, AddressesField, BytesAreNumbers
<1>15. r \in Seq(Octets) /\ Len(r) = 8
  BY <1>3, <1>5, <1>10, TimeWritten DEF Eight
<1>16. PICK t : t \in Seq(Octets) /\ Len(t) = 16 /\ Write(layout, v) = p \o (q \o t)
  <2>1. [i \in DOMAIN layout |-> WriteField(layout[i], v[i])] = <<p, q, r, r>>
    BY <1>7, <1>8, <1>10
  <2>2. Write(layout, v) = FlattenSeq(<<p, q, r, r>>)
    BY <2>1, Zenon DEF Write
  <2>3. PICK t \in Seq(Octets) : /\ FlattenSeq(<<p, q, r, r>>) = p \o (q \o t)
                                 /\ Len(t) = Len(r) + Len(r)
    <3>1. p \in Seq(Octets) /\ q \in Seq(Octets) /\ r \in Seq(Octets)
      BY <1>13, <1>14, <1>15
    <3> QED
      BY <3>1, FourSplit
  <2>4. Len(t) = 16
    BY <1>15, <2>3
  <2> QED
    BY <2>2, <2>3, <2>4
<1>17. t \in Seq(Nat)
  BY <1>16, BytesAreNumbers
<1>18. PICK u \in Seq(Nat) : u = q \o t
  <2>1. q \o t \in Seq(Nat)
    BY <1>14, <1>17, ConcatProperties
  <2> QED
    BY <2>1
<1>19. PICK s \in Seq(Nat) : s = p \o u
  <2>1. p \o u \in Seq(Nat)
    BY <1>13, ConcatProperties
  <2> QED
    BY <2>1
<1>20. b = Byte(id) \o s
  BY <1>1, <1>6, <1>9, <1>16, <1>18, <1>19, Zenon DEF WriteMessage, WrittenId, Byte
<1>21. Byte(id) \o s \in Seq(Nat) /\ Byte(id) \o s # <<>> /\ Head(Byte(id) \o s) = id
  BY IdFirst
<1>22. PICK m : m = ReadIncoming(s) /\ ReadMessage(b) = m
  BY <1>1, <1>20, IncomingRead
<1>23. PICK x : x = Get("Address", s)
  OBVIOUS
<1>24. Works(x) /\ x.value = NoEndpoint /\ x.rest = u
  <2>1. Get(kind, p \o u) = Done(NoEndpoint, u)
    BY <1>12 DEF Passes
  <2>2. x = Done(NoEndpoint, u)
    BY <1>11, <1>19, <1>23, <2>1, Zenon
  <2>3. Works(Done(NoEndpoint, u)) /\ Done(NoEndpoint, u).value = NoEndpoint /\ Done(NoEndpoint, u).rest = u
    BY DoneIs
  <2> QED
    BY <2>2, <2>3
<1>25. PICK y, z : y = ReadAddresses(x.rest) /\ z = Read(Times, y.rest)
  OBVIOUS
<1>26. /\ ~Works(y) => m = y
       /\ Works(y) /\ ~Works(z) => m = z
       /\ Works(y) /\ Works(z) => m = Done(<<<<<<x.value>>>>, <<y.value>>>> \o z.value, z.rest)
  BY <1>22, <1>23, <1>24, <1>25, IncomingIs
<1>27. Works(m) => m.value[1] = e1 /\ m.value[2] = <<y.value>>
  <2>1. ASSUME Works(m) PROVE m.value[1] = e1 /\ m.value[2] = <<y.value>>
    <3>1. Works(y) /\ Works(z)
      BY <1>26, <2>1
    <3>2. PICK W : z.value \in Seq(W)
      BY <1>25, <3>1, TimesRead
    <3>3. PICK h1, h2, h, k : /\ h1 = <<<<x.value>>>> /\ h2 = <<y.value>>
                              /\ h = <<h1, h2>> \o z.value /\ k = z.rest
      OBVIOUS
    <3>4. m = Done(h, k)
      BY <1>26, <3>1, <3>3, Zenon
    <3>5. m.value = h
      BY <3>4, DoneIs, Zenon
    <3>6. h[1] = h1 /\ h[2] = h2
      BY <3>2, <3>3, TwoBefore
    <3>7. h1 = e1
      BY <1>3, <1>24, <3>3, Zenon DEF Just
    <3> QED
      BY <3>3, <3>5, <3>6, <3>7, Zenon
  <2> QED
    BY <2>1
<1>28. CASE \A i \in 1 .. 20 : Head(e[i]) = 4
  <2>1. y = Done(e, t)
    <3>1. PICK parts : FourParts(e, parts) /\ q = FlattenSeq(parts)
      BY <1>2, <1>3, <1>5, <1>10, <1>28, AddressesWritten
    <3> QED
      BY <1>16, <1>17, <1>18, <1>24, <1>25, <3>1, LoopGoesOn
  <2>2. Works(y) /\ y.value = e /\ y.rest = t
    <3>1. Works(Done(e, t)) /\ Done(e, t).value = e /\ Done(e, t).rest = t
      BY DoneIs
    <3> QED
      BY <2>1, <3>1
  <2>3. Works(z)
    BY <1>16, <1>17, <1>25, <2>2, TimesRead
  <2>4. Works(m)
    <3>1. m = Done(<<<<<<x.value>>>>, <<y.value>>>> \o z.value, z.rest)
      BY <1>26, <2>2, <2>3
    <3>2. PICK h, k : h = <<<<<<x.value>>>>, <<y.value>>>> \o z.value /\ k = z.rest
      OBVIOUS
    <3>3. m = Done(h, k)
      BY <3>1, <3>2, Zenon
    <3> QED
      BY <3>3, DoneIs
  <2>5. m.value[2] = e2
    BY <1>3, <1>27, <2>2, <2>4, Zenon
  <2>6. ~SurvivesField(f3, e3)
    BY <1>3, <1>5, TimeLost
  <2>7. UnderstoodAs(layout, v, m)
    <3>1. ASSUME NEW i \in DOMAIN layout, \A k \in 1 .. i : SurvivesField(layout[k], v[k])
          PROVE  m.value[i] = v[i]
      <4>1. i \in 1 .. 4
        BY <1>8, <3>1
      <4>2. 3 \notin 1 .. i
        BY <1>7, <1>8, <2>6, <3>1
      <4>3. i = 1 \/ i = 2
        BY <4>1, <4>2
      <4> QED
        BY <1>7, <1>27, <2>4, <2>5, <4>3, Zenon
    <3> QED
      BY <2>4, <3>1, Zenon DEF UnderstoodAs
  <2> QED
    BY <1>1, <1>6, <1>20, <1>21, <1>22, <2>7 DEF Heard
<1>29. CASE \E i \in 1 .. 20 : Head(e[i]) # 4
  <2>1. ~SurvivesField(f2, e2) /\ "Address" \in ToSet(f2.of)
    BY <1>2, <1>3, <1>5, <1>29, AddressesLost
  <2>2. UnderstoodAs(layout, v, m)
    <3>1. ASSUME Works(m), NEW i \in DOMAIN layout, \A k \in 1 .. i : SurvivesField(layout[k], v[k])
          PROVE  m.value[i] = v[i]
      <4>1. i \in 1 .. 4
        BY <1>8, <3>1
      <4>2. 2 \notin 1 .. i
        BY <1>7, <1>8, <2>1, <3>1
      <4>3. i = 1
        BY <4>1, <4>2
      <4> QED
        BY <1>7, <1>27, <3>1, <4>3, Zenon
    <3>2. \E i \in DOMAIN layout : "Address" \in ToSet(layout[i].of) /\ ~SurvivesField(layout[i], v[i])
      <4>1. 2 \in DOMAIN layout
        BY <1>8
      <4> QED
        BY <1>7, <1>8, <2>1, <4>1, Zenon
    <3> QED
      BY <3>1, <3>2, Zenon DEF UnderstoodAs
  <2> QED
    BY <1>1, <1>6, <1>20, <1>21, <1>22, <2>2 DEF Heard
<1> QED
  BY <1>28, <1>29

--------------------------------------------------------------------------------
(* The conversation.                                                        *)

\* It has eleven messages, of which the eighth tells the system addresses.
LEMMA ConversationIs ==
    /\ Len(Conversation) = 11
    /\ Conversation[8] = ConnectionRequestAccepted
    /\ Conversation[9] = NewIncomingConnection
    /\ \A i \in 1 .. 11 : i # 9 => Conversation[i] \in Spoken
    /\ \A i \in 1 .. 11 : i # 8 => Conversation[i] # ConnectionRequestAccepted
<1>1. PICK c : c = Conversation
  OBVIOUS
<1>2. /\ Len(c) = 11 /\ c[1] = UnconnectedPing /\ c[2] = UnconnectedPong
      /\ c[3] = OpenConnectionRequest1 /\ c[4] = OpenConnectionReply1
      /\ c[5] = OpenConnectionRequest2 /\ c[6] = OpenConnectionReply2
      /\ c[7] = ConnectionRequest /\ c[8] = ConnectionRequestAccepted
      /\ c[9] = NewIncomingConnection /\ c[10] = ConnectedPing /\ c[11] = ConnectedPong
  BY <1>1 DEF Conversation
<1>3. \A i \in 1 .. 11 : \/ i = 1 \/ i = 2 \/ i = 3 \/ i = 4 \/ i = 5 \/ i = 6
                         \/ i = 7 \/ i = 8 \/ i = 9 \/ i = 10 \/ i = 11
  OBVIOUS
<1>4. \A i \in 1 .. 11 : i # 9 => c[i] \in Spoken
  BY <1>2, <1>3, Zenon DEF Spoken
<1>5. \A i \in 1 .. 11 : i # 8 => c[i] # ConnectionRequestAccepted
  <2>1. /\ c[1] # c[8] /\ c[2] # c[8] /\ c[3] # c[8] /\ c[4] # c[8] /\ c[5] # c[8]
        /\ c[6] # c[8] /\ c[7] # c[8] /\ c[9] # c[8] /\ c[10] # c[8] /\ c[11] # c[8]
    BY <1>2 DEF UnconnectedPing, UnconnectedPong, OpenConnectionRequest1, OpenConnectionReply1,
                OpenConnectionRequest2, OpenConnectionReply2, ConnectionRequest,
                ConnectionRequestAccepted, NewIncomingConnection, ConnectedPing, ConnectedPong
  <2> QED
    BY <1>2, <1>3, <2>1, Zenon
<1> QED
  BY <1>1, <1>2, <1>4, <1>5

\* Each message of the conversation is heard as it was meant.
LEMMA AllHeard ==
    ASSUME NEW i \in 1 .. 11, i = 9 => IsTwenty(told),
           NEW v \in Contents(Conversation[i]), NEW b \in Encodings(Conversation[i], v)
    PROVE  Heard(Conversation[i], v, b) /\ (i = 8 => b \in Seq(Octets))
<1>1. PICK id : id = Conversation[i]
  OBVIOUS
<1>2. CASE i = 9
  BY <1>2, ConversationIs, NewIncomingConnectionHeard
<1>3. CASE id \in Spoken
  <2>1. \/ id = UnconnectedPing \/ id = UnconnectedPong \/ id = OpenConnectionRequest1
        \/ id = OpenConnectionReply1 \/ id = OpenConnectionRequest2 \/ id = OpenConnectionReply2
        \/ id = ConnectionRequest \/ id = ConnectionRequestAccepted \/ id = ConnectedPing
        \/ id = ConnectedPong
    BY <1>3 DEF Spoken
  <2>2. Heard(id, v, b)
    BY <1>1, <2>1, UnconnectedPingHeard, UnconnectedPongHeard, OpenConnectionRequest1Heard,
       OpenConnectionReply1Heard, OpenConnectionRequest2Heard, OpenConnectionReply2Heard,
       ConnectionRequestHeard, ConnectionRequestAcceptedHeard, ConnectedPingHeard, ConnectedPongHeard
  <2>3. i = 8 => b \in Seq(Octets)
    BY <1>1, ConversationIs, ConnectionRequestAcceptedHeard
  <2> QED
    BY <1>1, <2>2, <2>3
<1> QED
  BY <1>1, <1>2, <1>3, ConversationIs

\* A message on its way is the next one; once the addresses are told, they are twenty; and what
\* was read last is what was meant.
TalkInv ==
    /\ turn \in 1 .. 12
    /\ bytes # <<>> => /\ turn \in 1 .. 11 /\ Works(understood)
                       /\ meant \in Contents(Conversation[turn])
                       /\ bytes \in Encodings(Conversation[turn], meant)
    /\ turn >= 9 /\ Works(understood) => IsTwenty(told)
    /\ bytes = <<>> /\ turn > 1 => UnderstoodAs(Layout(Conversation[turn - 1]), meant, understood)

\* Nothing has been said.
LEMMA TalkInit == ExchangeInit => TalkInv
  BY DEF ExchangeInit, TalkInv

\* Speaking keeps the invariant.
LEMMA SpeakTalks == TalkInv /\ Speak => TalkInv'
<1> SUFFICES ASSUME TalkInv, Speak PROVE TalkInv'
  OBVIOUS
<1>1. turn \in 1 .. 11 /\ bytes = <<>> /\ Works(understood)
  <2>1. turn \in 1 .. 12
    BY DEF TalkInv
  <2>2. turn <= Len(Conversation) /\ bytes = <<>> /\ understood.error = ""
    BY Zenon DEF Speak
  <2>3. turn \in 1 .. 11
    <3>1. turn <= 11
      BY <2>2, ConversationIs, Zenon
    <3> QED
      BY <2>1, <3>1
  <2> QED
    BY <2>2, <2>3, Zenon DEF Works
<1>2. PICK v \in Contents(Conversation[turn]) : meant' = v /\ bytes' \in Encodings(Conversation[turn], v)
  BY DEF Speak
<1>3. turn' = turn /\ told' = told /\ understood' = Nothing
  BY DEF Speak
<1>4. turn = 9 => IsTwenty(told)
  BY <1>1 DEF TalkInv
<1>5. bytes' # <<>>
  <2>1. Heard(Conversation[turn], v, bytes')
    BY <1>1, <1>2, <1>4, AllHeard
  <2> QED
    BY <2>1 DEF Heard
<1>6. Works(understood')
  BY <1>3, DoneIs DEF Nothing
<1>7. (turn >= 9 /\ Works(understood) => IsTwenty(told))'
  BY <1>1, <1>3 DEF TalkInv, IsTwenty
<1>8. (meant \in Contents(Conversation[turn]) /\ bytes \in Encodings(Conversation[turn], meant))'
  <2>1. Contents(Conversation[turn])' = Contents(Conversation[turn])
    BY <1>3 DEF Contents
  <2> QED
    BY <1>2, <1>3, <2>1
<1> QED
  BY <1>1, <1>3, <1>5, <1>6, <1>7, <1>8 DEF TalkInv

\* Hearing keeps it.
LEMMA HearTalks == TalkInv /\ Hear => TalkInv'
<1> SUFFICES ASSUME TalkInv, Hear PROVE TalkInv'
  OBVIOUS
<1>1. /\ turn \in 1 .. 11 /\ Works(understood) /\ meant \in Contents(Conversation[turn])
      /\ bytes \in Encodings(Conversation[turn], meant)
  BY DEF TalkInv, Hear
<1>2. /\ turn' = turn + 1 /\ turn' - 1 = turn /\ meant' = meant /\ bytes' = <<>>
      /\ understood' = ReadMessage(bytes)
  <2>1. turn' = turn + 1 /\ meant' = meant /\ bytes' = <<>> /\ understood' = ReadMessage(bytes)
    BY Zenon DEF Hear
  <2>2. turn' = turn + 1
    BY <2>1, Zenon
  <2>3. turn' - 1 = turn
    BY <1>1, <2>2
  <2> QED
    BY <2>1, <2>3, Zenon
<1>3. Heard(Conversation[turn], meant, bytes) /\ (turn = 8 => bytes \in Seq(Octets))
  <2>1. turn = 9 => IsTwenty(told)
    BY <1>1 DEF TalkInv
  <2> QED
    BY <1>1, <2>1, AllHeard
<1>4. bytes \in Seq(Nat) /\ bytes # <<>> /\ Head(bytes) = Conversation[turn]
      /\ UnderstoodAs(Layout(Conversation[turn]), meant, ReadMessage(bytes))
  BY <1>3 DEF Heard
<1>5. UnderstoodAs(Layout(Conversation[turn' - 1]), meant', understood')
  BY <1>2, <1>4
<1>6. ASSUME turn' >= 9, Works(understood') PROVE IsTwenty(told')
  <2>1. told' = IF Head(bytes) = ConnectionRequestAccepted /\ Works(understood')
                THEN understood'.value[3][1] ELSE told
    BY DEF Hear, Works
  <2>2. CASE turn = 8
    <3>1. Head(bytes) = ConnectionRequestAccepted
      BY <1>4, <2>2, ConversationIs
    <3>2. IsTwenty(ReadMessage(bytes).value[3][1])
      BY <1>2, <1>3, <1>4, <1>6, <2>2, <3>1, ToldTyped
    <3> QED
      BY <1>2, <1>6, <2>1, <3>1, <3>2
  <2>3. CASE turn # 8
    <3>1. Head(bytes) # ConnectionRequestAccepted
      BY <1>1, <1>4, <2>3, ConversationIs
    <3>2. turn >= 9
      BY <1>1, <1>2, <1>6, <2>3
    <3> QED
      BY <1>1, <2>1, <3>1, <3>2 DEF TalkInv
  <2> QED
    BY <2>2, <2>3
<1> QED
  <2>1. (turn \in 1 .. 12)'
    BY <1>1, <1>2
  <2>2. (turn >= 9 /\ Works(understood) => IsTwenty(told))'
    BY <1>6
  <2>3. UnderstoodAs(Layout(Conversation[turn - 1]), meant, understood)'
    BY <1>5
  <2> QED
    BY <1>2, <2>1, <2>2, <2>3, Zenon DEF TalkInv

\* So do acknowledgements, which are not about it.
LEMMA OthersTalk == TalkInv /\ UNCHANGED talk => TalkInv'
<1> SUFFICES ASSUME TalkInv, UNCHANGED talk PROVE TalkInv'
  OBVIOUS
<1>1. turn' = turn /\ meant' = meant /\ bytes' = bytes /\ understood' = understood /\ told' = told
  BY DEF talk
<1>2. Contents(Conversation[turn])' = Contents(Conversation[turn])
  BY <1>1 DEF Contents
<1> QED
  BY <1>1, <1>2 DEF TalkInv, IsTwenty, Works, UnderstoodAs

\* Whatever is told, a message of the handshake on its way is what write makes of the fields the
\* code gives it, ConnectionRequestAccepted has told twenty addresses, and what read made of the
\* last message is what was meant.
THEOREM TalkInvariant == ExchangeSpec => []TalkInv
<1>1. TalkInv /\ [ExchangeNext]_exchangeVars => TalkInv'
  <2> SUFFICES ASSUME TalkInv, [ExchangeNext]_exchangeVars PROVE TalkInv'
    OBVIOUS
  <2>1. CASE Speak
    BY <2>1, SpeakTalks
  <2>2. CASE Hear
    BY <2>2, HearTalks
  <2>3. CASE FlushACKs
    BY <2>3, OthersTalk DEF FlushACKs
  <2>4. CASE HandleACK
    BY <2>4, OthersTalk DEF HandleACK
  <2>5. ASSUME NEW n \in Numbers, ReceiveDatagram(n) PROVE TalkInv'
    BY <2>5, OthersTalk DEF ReceiveDatagram
  <2>6. CASE UNCHANGED exchangeVars
    BY <2>6, OthersTalk DEF exchangeVars
  <2> QED
    BY <2>1, <2>2, <2>3, <2>4, <2>5, <2>6 DEF ExchangeNext
<1> QED
  BY <1>1, TalkInit, PTL DEF ExchangeSpec

\* Every Read of message.h against its Write: a message of the handshake whose addresses are of
\* version 4 is never refused, and the fields of any are those that were written, up to the first
\* that does not survive the wire.
THEOREM MessagesUnderstood == ExchangeSpec => []MessageUnderstood
<1>1. TalkInv => MessageUnderstood
  BY DEF TalkInv, MessageUnderstood, UnderstoodAs, Works
<1> QED
  BY <1>1, TalkInvariant, PTL
================================================================================
