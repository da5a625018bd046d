------------------------ MODULE ConnectionLocks_proofs ------------------------
(***************************************************************************)
(* Proofs about ConnectionLocks, for any number of errors: no two threads   *)
(* use a field at once, and, until the socket fails, none waits for ever    *)
(* for a mutex, and the chain of receives goes on.                          *)
(*                                                                          *)
(* The argument is about the sequences in todo: each operation keeps to the *)
(* mutexes (Disciplined), an operation in front of another does, and so does *)
(* what is left of one after a step.                                        *)
(***************************************************************************)
EXTENDS ConnectionLocks, SequenceTheorems, TLAPS

LEMMA ConcatElements ==
    ASSUME NEW S, NEW a \in Seq(S), NEW b \in Seq(S)
    PROVE  /\ a \o b \in Seq(S) /\ Len(a \o b) = Len(a) + Len(b)
           /\ Len(a) \in Nat /\ Len(b) \in Nat
           /\ \A i \in 1 .. Len(a) : (a \o b)[i] = a[i]
           /\ \A i \in 1 .. Len(b) : (a \o b)[Len(a) + i] = b[i]
  BY ConcatProperties, LenProperties

\* Holding a mutex in the first of two operations depends on it alone, and in the
\* second on whether it was held when the first ended.
LEMMA HeldConcat ==
    ASSUME NEW S, NEW a \in Seq(S), NEW b \in Seq(S), NEW holds \in BOOLEAN, NEW m
    PROVE  /\ \A i \in 1 .. Len(a) + 1 :
                 HeldAt(a \o b, holds, m, i) <=> HeldAt(a, holds, m, i)
           /\ \A i \in 1 .. Len(b) + 1 :
                 HeldAt(a \o b, holds, m, Len(a) + i)
                    <=> HeldAt(b, HeldAt(a, holds, m, Len(a) + 1), m, i)
<1> DEFINE s == a \o b
           n == Len(a)
<1>0. /\ n \in Nat /\ Len(b) \in Nat
      /\ \A i \in 1 .. n : s[i] = a[i]
      /\ \A i \in 1 .. Len(b) : s[n + i] = b[i]
  BY ConcatElements
<1> HIDE DEF s, n
<1>1. ASSUME NEW i \in 1 .. n + 1
      PROVE  HeldAt(s, holds, m, i) <=> HeldAt(a, holds, m, i)
  <2>1. 1 .. i - 1 \subseteq 1 .. n /\ \A k \in 1 .. i - 1 : k + 1 .. i - 1 \subseteq 1 .. n
    BY <1>0
  <2>2. \A k \in 1 .. i - 1 : s[k] = a[k]
    BY <1>0, <2>1
  <2>3. \A k \in 1 .. i - 1 : \A j \in k + 1 .. i - 1 : s[j] = a[j]
    <3>1. \A k \in 1 .. i - 1 : \A j \in k + 1 .. i - 1 : j \in 1 .. i - 1
      BY <1>0
    <3> QED
      BY <2>2, <3>1, Zenon
  <2> QED
    BY <2>2, <2>3 DEF HeldAt
<1>2. ASSUME NEW i \in 1 .. Len(b) + 1
      PROVE  HeldAt(s, holds, m, n + i) <=> HeldAt(b, HeldAt(a, holds, m, n + 1), m, i)
  <2>1. HeldAt(a, holds, m, n + 1)
           <=> \/ holds /\ \A j \in 1 .. n : s[j] # Unlock(m)
               \/ \E k \in 1 .. n : s[k] = Lock(m) /\ \A j \in k + 1 .. n : s[j] # Unlock(m)
    <3>1. HeldAt(a, holds, m, n + 1) <=> HeldAt(s, holds, m, n + 1)
      BY <1>0, <1>1
    <3>2. (n + 1) - 1 = n
      BY <1>0
    <3> QED
      BY <3>1, <3>2, Zenon DEF HeldAt
  <2>2. HeldAt(s, holds, m, n + i)
           <=> \/ holds /\ \A j \in 1 .. (n + i) - 1 : s[j] # Unlock(m)
               \/ \E k \in 1 .. (n + i) - 1 :
                     s[k] = Lock(m) /\ \A j \in k + 1 .. (n + i) - 1 : s[j] # Unlock(m)
    BY Zenon DEF HeldAt
  <2>3. HeldAt(b, HeldAt(a, holds, m, n + 1), m, i)
           <=> \/ HeldAt(a, holds, m, n + 1) /\ \A j \in 1 .. i - 1 : s[n + j] # Unlock(m)
               \/ \E k \in 1 .. i - 1 :
                     s[n + k] = Lock(m) /\ \A j \in k + 1 .. i - 1 : s[n + j] # Unlock(m)
    <3>1. \A k \in 1 .. i - 1 : b[k] = s[n + k]
      BY <1>0
    <3>2. \A k \in 1 .. i - 1 : \A j \in k + 1 .. i - 1 : b[j] = s[n + j]
      <4>1. \A k \in 1 .. i - 1 : \A j \in k + 1 .. i - 1 : j \in 1 .. i - 1
        OBVIOUS
      <4> QED
        BY <3>1, <4>1, Zenon
    <3> QED
      BY <3>1, <3>2 DEF HeldAt
  <2>4. ASSUME NEW l \in 0 .. n
        PROVE  (\A j \in l + 1 .. (n + i) - 1 : s[j] # Unlock(m))
                  <=> /\ \A j \in l + 1 .. n : s[j] # Unlock(m)
                      /\ \A j \in 1 .. i - 1 : s[n + j] # Unlock(m)
    <3>1. ASSUME \A j \in l + 1 .. (n + i) - 1 : s[j] # Unlock(m)
          PROVE  /\ \A j \in l + 1 .. n : s[j] # Unlock(m)
                 /\ \A j \in 1 .. i - 1 : s[n + j] # Unlock(m)
      BY <1>0, <3>1
    <3>2. ASSUME \A j \in l + 1 .. n : s[j] # Unlock(m),
                 \A j \in 1 .. i - 1 : s[n + j] # Unlock(m),
                 NEW j \in l + 1 .. (n + i) - 1
          PROVE  s[j] # Unlock(m)
      <4>1. CASE j <= n
        BY <1>0, <3>2, <4>1
      <4>2. CASE j > n
        <5>1. j - n \in 1 .. i - 1 /\ n + (j - n) = j
          BY <1>0, <4>2
        <5> QED
          BY <3>2, <5>1
      <4> QED
        BY <1>0, <4>1, <4>2
    <3> QED
      BY <3>1, <3>2
  <2>5. (\A j \in 1 .. (n + i) - 1 : s[j] # Unlock(m))
           <=> /\ \A j \in 1 .. n : s[j] # Unlock(m)
               /\ \A j \in 1 .. i - 1 : s[n + j] # Unlock(m)
    <3>1. 0 \in 0 .. n /\ 0 + 1 = 1
      BY <1>0
    <3> QED
      BY <2>4, <3>1, Zenon
  <2>6. ASSUME NEW k \in 1 .. n
        PROVE  (s[k] = Lock(m) /\ \A j \in k + 1 .. (n + i) - 1 : s[j] # Unlock(m))
                  <=> /\ s[k] = Lock(m) /\ \A j \in k + 1 .. n : s[j] # Unlock(m)
                      /\ \A j \in 1 .. i - 1 : s[n + j] # Unlock(m)
    <3>1. k \in 0 .. n
      BY <1>0
    <3> QED
      BY <2>4, <3>1, Zenon
  <2>7. ASSUME NEW k \in 1 .. i - 1
        PROVE  (\A j \in n + k + 1 .. (n + i) - 1 : s[j] # Unlock(m))
                  <=> \A j \in k + 1 .. i - 1 : s[n + j] # Unlock(m)
    <3>1. ASSUME \A j \in k + 1 .. i - 1 : s[n + j] # Unlock(m),
                 NEW j \in n + k + 1 .. (n + i) - 1
          PROVE  s[j] # Unlock(m)
      <4>1. j - n \in k + 1 .. i - 1 /\ n + (j - n) = j
        BY <1>0
      <4> QED
        BY <3>1, <4>1
    <3>2. ASSUME \A j \in n + k + 1 .. (n + i) - 1 : s[j] # Unlock(m),
                 NEW j \in k + 1 .. i - 1
          PROVE  s[n + j] # Unlock(m)
      BY <1>0, <3>2
    <3> QED
      BY <3>1, <3>2
  <2>8. (\E k \in 1 .. (n + i) - 1 :
            s[k] = Lock(m) /\ \A j \in k + 1 .. (n + i) - 1 : s[j] # Unlock(m))
           <=> \/ \E k \in 1 .. n :
                     s[k] = Lock(m) /\ \A j \in k + 1 .. (n + i) - 1 : s[j] # Unlock(m)
               \/ \E k \in 1 .. i - 1 :
                     s[n + k] = Lock(m) /\ \A j \in n + k + 1 .. (n + i) - 1 : s[j] # Unlock(m)
    <3>1. ASSUME NEW k \in 1 .. (n + i) - 1, k > n
          PROVE  k - n \in 1 .. i - 1 /\ n + (k - n) = k
      BY <1>0, <3>1
    <3>2. \A k \in 1 .. n : k \in 1 .. (n + i) - 1
      BY <1>0
    <3>3. \A k \in 1 .. i - 1 : n + k \in 1 .. (n + i) - 1
      BY <1>0
    <3>4. \A k \in 1 .. (n + i) - 1 : k \in 1 .. n \/ k > n
      BY <1>0
    <3> QED
      BY <3>1, <3>2, <3>3, <3>4
  <2> QED
    BY <2>1, <2>2, <2>3, <2>5, <2>6, <2>7, <2>8
<1> QED
  BY <1>1, <1>2 DEF s, n
--------------------------------------------------------------------------------
(* Disciplined sequences.                                                   *)

\* The part of Disciplined that is about the steps and not about the end.
Begins(s, holds, m, ordered) ==
    /\ \A i \in 1 .. Len(s) : Needs(s[i], m) => HeldAt(s, holds, m, i)
    /\ ordered => \A i \in 1 .. Len(s) :
          s[i].op = "lock" /\ HeldAt(s, holds, m, i) => Rank(m) < Rank(s[i].on)

LEMMA HeldFirst ==
    ASSUME NEW s, NEW holds \in BOOLEAN, NEW m
    PROVE  HeldAt(s, holds, m, 1) <=> holds
<1>1. 1 .. 1 - 1 = {}
  OBVIOUS
<1> QED
  BY <1>1, Zenon DEF HeldAt

LEMMA ConcatDisciplined ==
    ASSUME NEW S, NEW a \in Seq(S), NEW b \in Seq(S), NEW holds \in BOOLEAN, NEW m,
           NEW ordered \in BOOLEAN
    PROVE  Disciplined(a \o b, holds, m, ordered)
             <=> /\ Begins(a, holds, m, ordered)
                 /\ Disciplined(b, HeldAt(a, holds, m, Len(a) + 1), m, ordered)
<1> DEFINE s == a \o b
           n == Len(a)
           h == HeldAt(a, holds, m, n + 1)
<1>0. /\ n \in Nat /\ Len(b) \in Nat /\ Len(s) = n + Len(b)
      /\ \A i \in 1 .. n : s[i] = a[i]
      /\ \A i \in 1 .. Len(b) : s[n + i] = b[i]
  BY ConcatElements
<1>1. \A i \in 1 .. n : HeldAt(s, holds, m, i) <=> HeldAt(a, holds, m, i)
  <2>1. \A i \in 1 .. n + 1 : HeldAt(s, holds, m, i) <=> HeldAt(a, holds, m, i)
    BY HeldConcat, Zenon
  <2>2. 1 .. n \subseteq 1 .. n + 1
    BY <1>0
  <2> QED
    BY <2>1, <2>2, Zenon
<1>2. \A i \in 1 .. Len(b) + 1 : HeldAt(s, holds, m, n + i) <=> HeldAt(b, h, m, i)
  BY HeldConcat
<1> HIDE DEF s, n, h
<1>3. HeldAt(s, holds, m, Len(s) + 1) <=> HeldAt(b, h, m, Len(b) + 1)
  <2>1. Len(b) + 1 \in 1 .. Len(b) + 1 /\ n + (Len(b) + 1) = Len(s) + 1
    BY <1>0
  <2> QED
    BY <1>2, <2>1
<1>4. 1 .. Len(s) = 1 .. n \cup {n + i : i \in 1 .. Len(b)}
  <2>1. ASSUME NEW i \in 1 .. Len(s), i \notin 1 .. n
        PROVE  i - n \in 1 .. Len(b) /\ i = n + (i - n)
    BY <1>0, <2>1
  <2>2. \A i \in 1 .. Len(b) : n + i \in 1 .. Len(s)
    BY <1>0
  <2>3. 1 .. n \subseteq 1 .. Len(s)
    BY <1>0
  <2> QED
    BY <2>1, <2>2, <2>3
<1>5. (\A i \in 1 .. Len(s) : Needs(s[i], m) => HeldAt(s, holds, m, i))
        <=> /\ \A i \in 1 .. n : Needs(a[i], m) => HeldAt(a, holds, m, i)
            /\ \A i \in 1 .. Len(b) : Needs(b[i], m) => HeldAt(b, h, m, i)
  <2>1. \A i \in 1 .. n :
           (Needs(s[i], m) => HeldAt(s, holds, m, i))
             <=> (Needs(a[i], m) => HeldAt(a, holds, m, i))
    BY <1>0, <1>1, Zenon
  <2>2. \A i \in 1 .. Len(b) :
           (Needs(s[n + i], m) => HeldAt(s, holds, m, n + i))
             <=> (Needs(b[i], m) => HeldAt(b, h, m, i))
    <3> TAKE i \in 1 .. Len(b)
    <3>1. s[n + i] = b[i] /\ (HeldAt(s, holds, m, n + i) <=> HeldAt(b, h, m, i))
      BY <1>0, <1>2
    <3> QED
      BY <3>1
  <2> QED
    BY <1>4, <2>1, <2>2, Zenon
<1>6. (\A i \in 1 .. Len(s) :
          s[i].op = "lock" /\ HeldAt(s, holds, m, i) => Rank(m) < Rank(s[i].on))
        <=> /\ \A i \in 1 .. n :
                  a[i].op = "lock" /\ HeldAt(a, holds, m, i) => Rank(m) < Rank(a[i].on)
            /\ \A i \in 1 .. Len(b) :
                  b[i].op = "lock" /\ HeldAt(b, h, m, i) => Rank(m) < Rank(b[i].on)
  <2>1. \A i \in 1 .. n :
           (s[i].op = "lock" /\ HeldAt(s, holds, m, i) => Rank(m) < Rank(s[i].on))
             <=> (a[i].op = "lock" /\ HeldAt(a, holds, m, i) => Rank(m) < Rank(a[i].on))
    BY <1>0, <1>1, Zenon
  <2>2. \A i \in 1 .. Len(b) :
           (s[n + i].op = "lock" /\ HeldAt(s, holds, m, n + i)
              => Rank(m) < Rank(s[n + i].on))
             <=> (b[i].op = "lock" /\ HeldAt(b, h, m, i) => Rank(m) < Rank(b[i].on))
    <3> TAKE i \in 1 .. Len(b)
    <3>1. s[n + i] = b[i] /\ (HeldAt(s, holds, m, n + i) <=> HeldAt(b, h, m, i))
      BY <1>0, <1>2
    <3> QED
      BY <3>1
  <2> QED
    BY <1>4, <2>1, <2>2, Zenon
<1>7. Disciplined(s, holds, m, ordered)
        <=> Begins(a, holds, m, ordered) /\ Disciplined(b, h, m, ordered)
  BY <1>3, <1>5, <1>6 DEF Disciplined, Begins, n
<1> QED
  BY <1>7 DEF s, n, h

\* One operation after another.
LEMMA ThenDisciplined ==
    ASSUME NEW S, NEW a \in Seq(S), NEW b \in Seq(S), NEW m, NEW ordered \in BOOLEAN,
           Disciplined(a, FALSE, m, ordered), Disciplined(b, FALSE, m, ordered)
    PROVE  Disciplined(a \o b, FALSE, m, ordered)
<1>1. Begins(a, FALSE, m, ordered) /\ HeldAt(a, FALSE, m, Len(a) + 1) = FALSE
  BY DEF Disciplined, Begins, HeldAt
<1> QED
  BY <1>1, ConcatDisciplined

\* What is left of an operation after its first step.
Holds(instruction, holds, m) ==
    instruction = Lock(m) \/ (holds /\ instruction # Unlock(m))

LEMMA TailDisciplined ==
    ASSUME NEW S, NEW s \in Seq(S), s # <<>>, NEW holds \in BOOLEAN, NEW m,
           NEW ordered \in BOOLEAN, Disciplined(s, holds, m, ordered)
    PROVE  Disciplined(Tail(s), Holds(Head(s), holds, m), m, ordered)
<1> DEFINE a == <<Head(s)>>
<1>1. s = a \o Tail(s) /\ a \in Seq(S) /\ Tail(s) \in Seq(S)
  BY HeadTailProperties
<1>2. Len(a) = 1 /\ a[1] = Head(s)
  OBVIOUS
<1>3. HeldAt(a, holds, m, 2) = Holds(Head(s), holds, m)
  <2>1. 1 .. 2 - 1 = {1} /\ 1 + 1 .. 2 - 1 = {}
    OBVIOUS
  <2> QED
    BY <1>2, <2>1 DEF HeldAt, Holds
<1>4. Disciplined(Tail(s), HeldAt(a, holds, m, Len(a) + 1), m, ordered)
  BY <1>1, ConcatDisciplined
<1> QED
  BY <1>2, <1>3, <1>4

\* What a thread may do first.
LEMMA HeadDisciplined ==
    ASSUME NEW S, NEW s \in Seq(S), s # <<>>, NEW holds \in BOOLEAN, NEW m,
           NEW ordered \in BOOLEAN, Disciplined(s, holds, m, ordered)
    PROVE  /\ Needs(Head(s), m) => holds
           /\ ordered /\ Head(s).op = "lock" /\ holds => Rank(m) < Rank(Head(s).on)
<1>1. 1 \in 1 .. Len(s) /\ s[1] = Head(s)
  BY HeadTailProperties
<1>2. HeldAt(s, holds, m, 1) <=> holds
  BY HeldFirst
<1> QED
  BY <1>1, <1>2 DEF Disciplined

\* Nothing left to do: nothing is held.
LEMMA EmptyDisciplined ==
    ASSUME NEW holds \in BOOLEAN, NEW m, NEW ordered \in BOOLEAN
    PROVE  Disciplined(<<>>, holds, m, ordered) <=> ~holds
<1>1. HeldAt(<<>>, holds, m, 1) <=> holds
  BY HeldFirst
<1> QED
  BY <1>1 DEF Disciplined

--------------------------------------------------------------------------------
(* Operations.                                                              *)

LEMMA InstructionType ==
    /\ \A m \in Mutexes : Lock(m) \in Instructions /\ Unlock(m) \in Instructions
    /\ \A f \in SUBSET Fields : Use(f) \in Instructions /\ Send(f) \in Instructions
    /\ \A e \in Effects : Do(e) \in Instructions
    /\ Notify \in Instructions
  BY DEF Instructions

LEMMA InstructionShape ==
    /\ \A m : Lock(m).op = "lock" /\ Lock(m).on = m /\ Lock(m).uses = {}
    /\ \A m : Unlock(m).op = "unlock" /\ Unlock(m).on = m /\ Unlock(m).uses = {}
    /\ \A f : Use(f).op = "use" /\ Use(f).uses = f /\ Send(f).op = "send" /\ Send(f).uses = f
    /\ \A e : Do(e).op = "do" /\ Do(e).uses = {} /\ Do(e).on = e
    /\ Notify.op = "do" /\ Notify.uses = {"buf", "recQueue"} /\ Notify.on = "notify"
  BY DEF Lock, Unlock, Use, Send, Do, Notify

\* What may be done with m held: no step about m, and no lock out of order.
Inner(s, m) ==
    \A i \in 1 .. Len(s) :
       /\ s[i] # Lock(m) /\ s[i] # Unlock(m)
       /\ s[i].op = "lock" => Rank(m) < Rank(s[i].on)

LEMMA InnerConcat ==
    ASSUME NEW S, NEW a \in Seq(S), NEW b \in Seq(S), NEW m, Inner(a, m), Inner(b, m)
    PROVE  Inner(a \o b, m)
<1> DEFINE s == a \o b
<1>0. /\ Len(a) \in Nat /\ Len(b) \in Nat /\ Len(s) = Len(a) + Len(b)
      /\ \A i \in 1 .. Len(a) : s[i] = a[i]
      /\ \A i \in 1 .. Len(b) : s[Len(a) + i] = b[i]
  BY ConcatElements
<1> HIDE DEF s
<1>1. ASSUME NEW i \in 1 .. Len(s)
      PROVE  /\ s[i] # Lock(m) /\ s[i] # Unlock(m)
             /\ s[i].op = "lock" => Rank(m) < Rank(s[i].on)
  <2>1. CASE i \in 1 .. Len(a)
    BY <1>0, <2>1 DEF Inner
  <2>2. CASE i \notin 1 .. Len(a)
    <3>1. i - Len(a) \in 1 .. Len(b) /\ Len(a) + (i - Len(a)) = i
      BY <1>0, <2>2
    <3>2. s[i] = b[i - Len(a)]
      BY <1>0, <3>1
    <3> QED
      BY <3>1, <3>2 DEF Inner
  <2> QED
    BY <2>1, <2>2
<1>2. Inner(s, m)
  BY <1>1 DEF Inner
<1> QED
  BY <1>2 DEF s

\* Steps that neither take nor give up m leave it as it was.
LEMMA StaysHeld ==
    ASSUME NEW S, NEW s \in Seq(S), NEW holds \in BOOLEAN, NEW m,
           \A i \in 1 .. Len(s) : s[i] # Lock(m) /\ s[i] # Unlock(m)
    PROVE  \A i \in 1 .. Len(s) + 1 : HeldAt(s, holds, m, i) <=> holds
<1>1. Len(s) \in Nat
  BY LenProperties
<1> TAKE i \in 1 .. Len(s) + 1
<1>2. \A j \in 1 .. i - 1 : j \in 1 .. Len(s)
  BY <1>1
<1> QED
  BY <1>2, Zenon DEF HeldAt

\* A callback that has nothing to do with m may be put in front of an operation.
LEMMA CallbackDisciplined ==
    ASSUME NEW S, NEW a \in Seq(S), NEW b \in Seq(S), NEW holds \in BOOLEAN, NEW m,
           \A i \in 1 .. Len(a) : a[i] # Lock(m) /\ a[i] # Unlock(m) /\ ~Needs(a[i], m),
           Disciplined(b, holds, m, FALSE)
    PROVE  Disciplined(a \o b, holds, m, FALSE)
<1>1. Len(a) + 1 \in 1 .. Len(a) + 1
  BY LenProperties
<1>2. HeldAt(a, holds, m, Len(a) + 1) <=> holds
  BY <1>1, StaysHeld
<1>3. HeldAt(a, holds, m, Len(a) + 1) \in BOOLEAN
  BY DEF HeldAt
<1>4. Disciplined(b, HeldAt(a, holds, m, Len(a) + 1), m, FALSE)
  BY <1>2, <1>3, Zenon
<1>5. Begins(a, holds, m, FALSE)
  BY DEF Begins
<1> QED
  BY <1>4, <1>5, ConcatDisciplined

\* An operation that keeps to every mutex and starts with none held.
Sound(operation) ==
    /\ operation \in Seq(Instructions)
    /\ \A m \in Mutexes : Disciplined(operation, FALSE, m, TRUE)

LEMMA SoundThen ==
    ASSUME NEW a, NEW b, Sound(a), Sound(b)
    PROVE  Sound(a \o b)
  BY ThenDisciplined, ConcatElements DEF Sound

LEMMA SoundEmpty == Sound(<<>>)
  BY EmptyDisciplined, EmptySeq DEF Sound

\* Steps that have nothing to do with m keep to it.
LEMMA IdleDisciplined ==
    ASSUME NEW S, NEW s \in Seq(S), NEW m,
           \A i \in 1 .. Len(s) : s[i] # Lock(m) /\ s[i] # Unlock(m) /\ ~Needs(s[i], m)
    PROVE  Disciplined(s, FALSE, m, TRUE)
<1>1. \A i \in 1 .. Len(s) + 1 : ~HeldAt(s, FALSE, m, i)
  BY StaysHeld
<1>2. /\ Len(s) + 1 \in 1 .. Len(s) + 1
      /\ \A i \in 1 .. Len(s) : i \in 1 .. Len(s) + 1
  BY LenProperties
<1>3. ~HeldAt(s, FALSE, m, Len(s) + 1)
  BY <1>1, <1>2, Zenon
<1>4. \A i \in 1 .. Len(s) : ~HeldAt(s, FALSE, m, i) /\ ~Needs(s[i], m)
  BY <1>1, <1>2, Zenon
<1> QED
  BY <1>3, <1>4, Zenon DEF Disciplined

\* One step.
LEMMA OneStep ==
    ASSUME NEW e
    PROVE  /\ <<e>> \in Seq({e}) /\ Len(<<e>>) = 1 /\ <<e>>[1] = e
           /\ \A i \in 1 .. Len(<<e>>) : <<e>>[i] = e
  OBVIOUS

LEMMA StepDisciplined ==
    ASSUME NEW e, NEW m, e # Lock(m), e # Unlock(m), ~Needs(e, m)
    PROVE  Disciplined(<<e>>, FALSE, m, TRUE)
<1>1. \A i \in 1 .. Len(<<e>>) :
         <<e>>[i] # Lock(m) /\ <<e>>[i] # Unlock(m) /\ ~Needs(<<e>>[i], m)
  BY OneStep, Zenon
<1> QED
  BY <1>1, OneStep, IdleDisciplined

LEMMA SoundStep ==
    ASSUME NEW e \in Instructions, e.op \notin {"lock", "unlock"}, e.uses = {}
    PROVE  Sound(<<e>>)
<1>1. \A m \in Mutexes : e # Lock(m) /\ e # Unlock(m) /\ ~Needs(e, m)
  BY InstructionShape DEF Needs
<1>2. \A m \in Mutexes : Disciplined(<<e>>, FALSE, m, TRUE)
  BY <1>1, StepDisciplined, Zenon
<1>3. <<e>> \in Seq(Instructions)
  OBVIOUS
<1> QED
  BY <1>2, <1>3 DEF Sound

\* A body under a mutex m: the body does not take m, and keeps to the others.
LEMMA SoundAround ==
    ASSUME NEW m \in Mutexes, NEW body \in Seq(Instructions), Inner(body, m),
           \A l \in Mutexes \ {m} : Disciplined(body, FALSE, l, TRUE)
    PROVE  Sound(Under(m, body))
<1> DEFINE a == <<Lock(m)>> \o body
           s == a \o <<Unlock(m)>>
           n == Len(body)
<1>1. <<Lock(m)>> \in Seq(Instructions) /\ <<Unlock(m)>> \in Seq(Instructions)
  BY InstructionType
<1>2. /\ a \in Seq(Instructions) /\ s \in Seq(Instructions) /\ n \in Nat
      /\ Len(a) = n + 1 /\ Len(s) = n + 2
      /\ a[1] = Lock(m) /\ \A i \in 1 .. n : a[i + 1] = body[i]
      /\ \A i \in 1 .. n + 1 : s[i] = a[i]
      /\ s[n + 2] = Unlock(m)
  <2>1. /\ a \in Seq(Instructions) /\ n \in Nat /\ Len(a) = n + 1
        /\ a[1] = Lock(m) /\ \A i \in 1 .. n : a[i + 1] = body[i]
    BY <1>1
  <2> HIDE DEF a
  <2> QED
    BY <1>1, <2>1
<1>3. Under(m, body) = s
  BY DEF Under
<1>4. ASSUME NEW l \in Mutexes \ {m} PROVE Disciplined(s, FALSE, l, TRUE)
  <2>1. /\ Lock(m) # Lock(l) /\ Lock(m) # Unlock(l) /\ ~Needs(Lock(m), l)
        /\ Unlock(m) # Lock(l) /\ Unlock(m) # Unlock(l) /\ ~Needs(Unlock(m), l)
    BY InstructionShape DEF Needs
  <2>2. Disciplined(<<Lock(m)>>, FALSE, l, TRUE) /\ Disciplined(<<Unlock(m)>>, FALSE, l, TRUE)
    BY <2>1, StepDisciplined
  <2>3. Disciplined(a, FALSE, l, TRUE)
    BY <1>1, <2>2, ThenDisciplined
  <2> QED
    BY <1>1, <1>2, <2>2, <2>3, ThenDisciplined
<1>5. Disciplined(s, FALSE, m, TRUE)
  <2> HIDE DEF a, s, n
  <2>1. s[1] = Lock(m) /\ \A i \in 1 .. n : s[i + 1] = body[i]
    BY <1>2
  <2>2. \A i \in 2 .. n + 1 : s[i] = body[i - 1] /\ i - 1 \in 1 .. n
    <3> TAKE i \in 2 .. n + 1
    <3>1. i - 1 \in 1 .. n /\ (i - 1) + 1 = i
      BY <1>2
    <3> QED
      BY <2>1, <3>1
  <2>3. \A i \in 2 .. n + 1 : /\ s[i] # Lock(m) /\ s[i] # Unlock(m)
                              /\ s[i].op = "lock" => Rank(m) < Rank(s[i].on)
    BY <2>2 DEF Inner, n
  <2>4. Lock(m) # Unlock(m) /\ ~Needs(Lock(m), m)
    BY InstructionShape DEF Needs
  <2>5. ~HeldAt(s, FALSE, m, 1)
    BY HeldFirst
  <2>6. ASSUME NEW i \in 2 .. n + 2 PROVE HeldAt(s, FALSE, m, i)
    <3>1. 1 \in 1 .. i - 1 /\ \A j \in 1 + 1 .. i - 1 : j \in 2 .. n + 1
      BY <1>2
    <3> QED
      BY <2>1, <2>3, <3>1, Zenon DEF HeldAt
  <2>7. ~HeldAt(s, FALSE, m, n + 3)
    <3>1. ASSUME NEW k \in 1 .. (n + 3) - 1, s[k] = Lock(m)
          PROVE  \E j \in k + 1 .. (n + 3) - 1 : s[j] = Unlock(m)
      <4>1. k # n + 2
        BY <1>2, <2>4, <3>1
      <4>2. n + 2 \in k + 1 .. (n + 3) - 1
        BY <1>2, <4>1
      <4> QED
        BY <1>2, <4>2
    <3> QED
      BY <3>1, Zenon DEF HeldAt
  <2>8. 1 .. Len(s) = {1} \cup 2 .. n + 2 /\ Len(s) + 1 = n + 3
    BY <1>2
  <2>9. \A i \in 1 .. Len(s) : Needs(s[i], m) => HeldAt(s, FALSE, m, i)
    BY <2>1, <2>4, <2>6, <2>8
  <2>10. \A i \in 1 .. Len(s) :
            s[i].op = "lock" /\ HeldAt(s, FALSE, m, i) => Rank(m) < Rank(s[i].on)
    <3>1. 2 .. n + 2 = 2 .. n + 1 \cup {n + 2}
      BY <1>2
    <3>2. s[n + 2].op # "lock"
      BY <1>2, InstructionShape
    <3> QED
      BY <2>3, <2>5, <2>8, <3>1, <3>2
  <2> QED
    BY <2>7, <2>8, <2>9, <2>10 DEF Disciplined
<1> QED
  BY <1>2, <1>3, <1>4, <1>5 DEF Sound

\* A body that takes no mutex and uses fields of m only.
LEMMA SoundUnder ==
    ASSUME NEW m \in Mutexes, NEW body \in Seq(Instructions),
           \A i \in 1 .. Len(body) : /\ body[i].op \notin {"lock", "unlock"}
                                     /\ \A f \in body[i].uses : Guard(f) = m
    PROVE  Sound(Under(m, body))
<1>1. Inner(body, m)
  BY InstructionShape DEF Inner
<1>2. ASSUME NEW l \in Mutexes \ {m} PROVE Disciplined(body, FALSE, l, TRUE)
  <2>1. \A i \in 1 .. Len(body) :
           body[i] # Lock(l) /\ body[i] # Unlock(l) /\ ~Needs(body[i], l)
    BY InstructionShape DEF Needs
  <2> QED
    BY <2>1, IdleDisciplined
<1> QED
  BY <1>1, <1>2, SoundAround

LEMMA GuardIs ==
    /\ Guard("buf") = "connectionMtx" /\ Guard("recQueue") = "connectionMtx"
    /\ Guard("ackBuf") = "datagramsRecvMtx" /\ Guard("datagramsReceived") = "datagramsRecvMtx"
    /\ Guard("bufferedSend") = "sendMtx"
  BY DEF Guard

\* One use or send of fields of m, with m held.
LEMMA SoundUse ==
    ASSUME NEW m \in Mutexes, NEW F \in SUBSET Fields, \A f \in F : Guard(f) = m,
           NEW e \in {Use(F), Send(F)}
    PROVE  Sound(Under(m, <<e>>))
<1>1. e \in Instructions /\ e.op \notin {"lock", "unlock"} /\ e.uses = F
  BY InstructionType, InstructionShape
<1>2. <<e>> \in Seq(Instructions)
  BY <1>1
<1>3. \A i \in 1 .. Len(<<e>>) : <<e>>[i] = e
  BY OneStep
<1>4. \A i \in 1 .. Len(<<e>>) : /\ <<e>>[i].op \notin {"lock", "unlock"}
                                 /\ \A f \in <<e>>[i].uses : Guard(f) = m
  BY <1>1, <1>3
<1> QED
  BY <1>2, <1>4, SoundUnder

LEMMA OperationsSound ==
    /\ Sound(Connect) /\ Sound(DisconnectAndStop) /\ Sound(Flush) /\ Sound(WritePacket)
    /\ Sound(OnDisconnected)
    /\ \A operation \in OnTick : Sound(operation \o <<Do("rearm")>>)
    /\ \A operation \in Process : Sound(OnReceived(operation))
<1>m. Mutexes = {"connMtx", "connectionMtx", "datagramsRecvMtx", "sendMtx"}
  BY DEF Mutexes
<1>e. \A e \in Effects : Sound(<<Do(e)>>)
  BY SoundStep, InstructionType, InstructionShape
<1>1. /\ Sound(Write) /\ Sound(Resend) /\ Sound(HandleACK) /\ Sound(FlushACKs)
      /\ Sound(ReceiveDatagram) /\ Sound(WritePacket)
  <2>1. {"buf", "recQueue"} \in SUBSET Fields /\ {"recQueue"} \in SUBSET Fields
        /\ {"ackBuf", "datagramsReceived"} \in SUBSET Fields
        /\ {"datagramsReceived"} \in SUBSET Fields /\ {"bufferedSend"} \in SUBSET Fields
    BY DEF Fields
  <2> QED
    BY <1>m, <2>1, GuardIs, SoundUse
       DEF Write, Resend, HandleACK, FlushACKs, ReceiveDatagram, WritePacket
<1>2. Sound(<<Send({})>>)
  BY SoundStep, InstructionType, InstructionShape
<1>3. Sound(Disconnect)
  <2> DEFINE body == <<Do("stop"), Notify, Do("disconnected"), Do("close"), Do("invalid")>>
  <2>1. body \in Seq(Instructions)
    BY InstructionType DEF Effects
  <2>2. \A i \in 1 .. Len(body) : /\ body[i].op = "do"
                                  /\ \A f \in body[i].uses : f \in {"buf", "recQueue"}
    <3>1. \A i \in 1 .. Len(body) :
             body[i] \in {Do(e) : e \in Effects} \cup {Notify}
      BY DEF Effects
    <3> QED
      BY <3>1, InstructionShape
  <2> HIDE DEF body
  <2>3. Sound(Under("connectionMtx", body))
    BY <1>m, <2>1, <2>2, GuardIs, SoundUnder
  <2> QED
    BY <2>3 DEF Disconnect, body
<1>4. Sound(GiveUp)
  BY <1>1, <1>3, SoundThen DEF GiveUp
<1>5. Sound(OnDisconnected) /\ Sound(Connect)
  <2> DEFINE body == <<Do("makeState")>>
  <2>1. body \in Seq(Instructions)
    BY InstructionType DEF Effects
  <2>2. \A i \in 1 .. Len(body) : body[i].op = "do" /\ body[i].uses = {}
    BY OneStep, InstructionShape
  <2> HIDE DEF body
  <2>3. Sound(Under("connMtx", body))
    BY <1>m, <2>1, <2>2, SoundUnder
  <2> QED
    BY <1>e, <2>3, SoundThen DEF OnDisconnected, Connect, body, Effects
<1>6. Sound(Under("connMtx", Disconnect))
  <2>1. Inner(Disconnect, "connMtx")
    <3> DEFINE body == <<Do("stop"), Notify, Do("disconnected"), Do("close"), Do("invalid")>>
    <3>1. /\ <<Lock("connectionMtx")>> \in Seq(Instructions)
          /\ <<Unlock("connectionMtx")>> \in Seq(Instructions)
          /\ body \in Seq(Instructions)
      BY <1>m, InstructionType DEF Effects
    <3>2. /\ Inner(<<Lock("connectionMtx")>>, "connMtx")
          /\ Inner(<<Unlock("connectionMtx")>>, "connMtx")
      BY OneStep, InstructionShape DEF Inner, Rank
    <3>3. Inner(body, "connMtx")
      <4>1. \A i \in 1 .. Len(body) : body[i] \in {Do(e) : e \in Effects} \cup {Notify}
        BY DEF Effects
      <4> QED
        BY <4>1, InstructionShape DEF Inner
    <3> HIDE DEF body
    <3>4. <<Lock("connectionMtx")>> \o body \in Seq(Instructions)
      BY <3>1, ConcatProperties
    <3>5. Inner(<<Lock("connectionMtx")>> \o body, "connMtx")
      BY <3>1, <3>2, <3>3, InnerConcat
    <3>6. Inner((<<Lock("connectionMtx")>> \o body) \o <<Unlock("connectionMtx")>>, "connMtx")
      BY <3>1, <3>2, <3>4, <3>5, InnerConcat
    <3> QED
      BY <3>6 DEF Disconnect, Under, body
  <2> QED
    BY <1>m, <1>3, <2>1, SoundAround DEF Sound
<1>7. Sound(DisconnectAndStop)
  <2>1. Sound(<<Do("close")>> \o <<Do("stopService")>>)
    BY <1>e, SoundThen DEF Effects
  <2>2. <<Do("close"), Do("stopService")>> = <<Do("close")>> \o <<Do("stopService")>>
    OBVIOUS
  <2> QED
    BY <1>6, <2>1, <2>2, SoundThen DEF DisconnectAndStop
<1>8. Sound(Flush)
  <2> DEFINE first == <<Use({"bufferedSend"})>>
             body  == first \o Write
  <2>1. first \in Seq(Instructions) /\ Write \in Seq(Instructions) /\ body \in Seq(Instructions)
    <3>1. Use({"bufferedSend"}) \in Instructions
      BY InstructionType DEF Fields
    <3> QED
      BY <1>1, <3>1, ConcatProperties DEF Sound
  <2>2. Inner(first, "sendMtx")
    BY OneStep, InstructionShape DEF Inner
  <2>3. Inner(Write, "sendMtx")
    <3> DEFINE l == <<Lock("connectionMtx")>>
               u == <<Unlock("connectionMtx")>>
               b == <<Send({"buf", "recQueue"})>>
    <3>1. l \in Seq(Instructions) /\ u \in Seq(Instructions) /\ b \in Seq(Instructions)
      <4>1. Send({"buf", "recQueue"}) \in Instructions
        BY InstructionType DEF Fields
      <4> QED
        BY <1>m, <4>1, InstructionType
    <3>2. Inner(l, "sendMtx") /\ Inner(u, "sendMtx") /\ Inner(b, "sendMtx")
      BY OneStep, InstructionShape DEF Inner, Rank
    <3> HIDE DEF l, u, b
    <3>3. l \o b \in Seq(Instructions) /\ Inner(l \o b, "sendMtx")
      BY <3>1, <3>2, InnerConcat, ConcatProperties
    <3>4. Inner((l \o b) \o u, "sendMtx")
      BY <3>1, <3>2, <3>3, InnerConcat
    <3> QED
      BY <3>4 DEF Write, Under, l, u, b
  <2>4. ASSUME NEW m \in Mutexes \ {"sendMtx"} PROVE Disciplined(body, FALSE, m, TRUE)
    <3>1. \A f \in {"bufferedSend"} : Guard(f) # m
      BY GuardIs
    <3>2. /\ Use({"bufferedSend"}) # Lock(m) /\ Use({"bufferedSend"}) # Unlock(m)
          /\ ~Needs(Use({"bufferedSend"}), m)
      BY <3>1, InstructionShape DEF Needs
    <3>3. Disciplined(first, FALSE, m, TRUE)
      BY <3>2, StepDisciplined
    <3>4. Disciplined(Write, FALSE, m, TRUE)
      BY <1>1 DEF Sound
    <3> QED
      BY <2>1, <3>3, <3>4, ThenDisciplined
  <2>5. Inner(body, "sendMtx")
    BY <2>1, <2>2, <2>3, InnerConcat
  <2> HIDE DEF body
  <2>6. Sound(Under("sendMtx", body))
    BY <1>m, <2>1, <2>4, <2>5, SoundAround
  <2> QED
    BY <2>6 DEF Flush, body
<1>9. ASSUME NEW operation \in OnTick PROVE Sound(operation \o <<Do("rearm")>>)
  <2>1. Sound(FlushACKs \o Write \o Resend) /\ Sound(FlushACKs \o GiveUp)
    BY <1>1, <1>4, SoundThen
  <2>2. Sound(operation)
    BY <1>1, <1>2, <2>1 DEF OnTick
  <2> QED
    BY <1>e, <2>2, SoundThen DEF Effects
<1>10. ASSUME NEW operation \in Process PROVE Sound(OnReceived(operation))
  <2>1. /\ Sound(ReceiveDatagram \o <<Send({})>>) /\ Sound(ReceiveDatagram \o Write)
        /\ Sound(ReceiveDatagram \o Disconnect)
    BY <1>1, <1>2, <1>3, SoundThen
  <2>2. Sound(operation)
    BY <1>1, <1>2, <1>3, <2>1, SoundEmpty DEF Process
  <2> QED
    BY <1>e, <2>2, SoundThen DEF OnReceived, Effects
<1> QED
  BY <1>1, <1>5, <1>7, <1>8, <1>9, <1>10

--------------------------------------------------------------------------------
(* The invariant.                                                           *)

\* The part of TypeOK that the discipline needs.
TodoOK ==
    /\ todo \in [Threads -> Seq(Instructions)]
    /\ owner \in [Mutexes -> Threads \cup {"none"}]
    /\ errors \in Nat

LEMMA DisciplinedLoosens ==
    ASSUME NEW s, NEW holds, NEW m, NEW ordered, NEW looser, looser => ordered,
           Disciplined(s, holds, m, ordered)
    PROVE  Disciplined(s, holds, m, looser)
  BY DEF Disciplined

\* What LockInv says of the mutexes with something to say.
Claimed(m) == m # "connMtx" \/ errors = 0

\* A step of one thread keeps the discipline of the others.
LEMMA ThreadKeeps ==
    ASSUME TodoOK, LockInv, NEW t \in Threads, errors' = 0 => errors = 0,
           \A u \in Threads \ {t} : todo'[u] = todo[u],
           \A u \in Threads \ {t}, m \in Mutexes :
              Claimed(m) => ((owner'[m] = u) <=> (owner[m] = u)),
           \A m \in Mutexes :
              Claimed(m)' => Disciplined(todo'[t], owner'[m] = t, m, errors' = 0)
    PROVE  LockInv'
<1> SUFFICES ASSUME NEW u \in Threads, NEW m \in Mutexes, Claimed(m)'
             PROVE  Disciplined(todo'[u], owner'[m] = u, m, errors' = 0)
  BY DEF LockInv, Claimed
<1>1. CASE u = t
  BY <1>1
<1>2. CASE u # t
  <2>1. Claimed(m)
    BY DEF Claimed
  <2>2. Disciplined(todo[u], owner[m] = u, m, errors = 0)
    BY <2>1 DEF LockInv, Claimed
  <2>3. Disciplined(todo[u], owner[m] = u, m, errors' = 0)
    BY <2>2, DisciplinedLoosens
  <2>4. todo'[u] = todo[u] /\ ((owner'[m] = u) <=> (owner[m] = u))
    BY <1>2, <2>1
  <2>5. (owner'[m] = u) = (owner[m] = u)
    BY <2>4
  <2> QED
    BY <2>3, <2>4, <2>5
<1> QED
  BY <1>1, <1>2

\* A thread with nothing to do starts an operation.
LEMMA StartKeeps ==
    ASSUME TodoOK, LockInv, NEW t \in Threads, NEW operation, Sound(operation),
           Start(t, operation), UNCHANGED owner, errors' \in Nat, errors' = 0 => errors = 0
    PROVE  TodoOK' /\ LockInv'
<1>1. todo[t] = <<>> /\ todo'[t] = operation /\ \A u \in Threads \ {t} : todo'[u] = todo[u]
  BY DEF Start, TodoOK
<1>2. TodoOK'
  BY DEF TodoOK, Start, Sound
<1>3. ASSUME NEW m \in Mutexes, Claimed(m)'
      PROVE  Disciplined(todo'[t], owner'[m] = t, m, errors' = 0)
  <2>1. Disciplined(<<>>, owner[m] = t, m, errors = 0)
    BY <1>1, <1>3 DEF LockInv, Claimed
  <2>2. (owner[m] = t) = FALSE
    BY <2>1, EmptyDisciplined
  <2>3. Disciplined(operation, FALSE, m, TRUE)
    BY DEF Sound
  <2>4. Disciplined(operation, FALSE, m, errors' = 0)
    BY <2>3, DisciplinedLoosens
  <2>5. (owner'[m] = t) = FALSE
    BY <2>2
  <2> QED
    BY <1>1, <2>4, <2>5
<1> QED
  BY <1>1, <1>2, <1>3, ThreadKeeps

\* A thread leaves its first instruction behind.
LEMMA GoesKeeps ==
    ASSUME TodoOK, LockInv, NEW t \in Threads, todo[t] # <<>>, Goes(t), UNCHANGED errors,
           owner' \in [Mutexes -> Threads \cup {"none"}],
           \A u \in Threads \ {t}, m \in Mutexes :
              Claimed(m) => ((owner'[m] = u) <=> (owner[m] = u)),
           \A m \in Mutexes :
              Claimed(m) => ((owner'[m] = t) <=> Holds(First(t), owner[m] = t, m))
    PROVE  TodoOK' /\ LockInv'
<1>1. todo'[t] = Tail(todo[t]) /\ \A u \in Threads \ {t} : todo'[u] = todo[u]
  BY DEF Goes, TodoOK
<1>2. todo[t] \in Seq(Instructions) /\ Tail(todo[t]) \in Seq(Instructions)
  BY HeadTailProperties DEF TodoOK
<1>3. TodoOK'
  BY <1>2 DEF TodoOK, Goes
<1>4. ASSUME NEW m \in Mutexes, Claimed(m)'
      PROVE  Disciplined(todo'[t], owner'[m] = t, m, errors' = 0)
  <2>1. Claimed(m)
    BY <1>4 DEF Claimed
  <2>2. Disciplined(todo[t], owner[m] = t, m, errors = 0)
    BY <2>1 DEF LockInv, Claimed
  <2>3. Disciplined(Tail(todo[t]), Holds(Head(todo[t]), owner[m] = t, m), m, errors = 0)
    BY <1>2, <2>2, TailDisciplined
  <2>4. (owner'[m] = t) = Holds(Head(todo[t]), owner[m] = t, m)
    BY <2>1 DEF First, Holds
  <2> QED
    BY <1>1, <2>3, <2>4
<1> QED
  BY <1>1, <1>3, <1>4, ThreadKeeps

LEMMA InstructionKinds ==
    ASSUME NEW e \in Instructions
    PROVE  /\ e.op = "lock" => e.on \in Mutexes /\ e = Lock(e.on)
           /\ e.op = "unlock" => e.on \in Mutexes /\ e = Unlock(e.on)
           /\ e.uses \subseteq Fields
<1>1. \/ \E m \in Mutexes : e = Lock(m) \/ e = Unlock(m)
      \/ \E f \in SUBSET Fields : e = Use(f) \/ e = Send(f)
      \/ \E d \in Effects : e = Do(d)
      \/ e = Notify
  BY DEF Instructions
<1>2. \A m \in Mutexes : (e = Lock(m) \/ e = Unlock(m)) => e.on = m /\ e.uses = {}
  BY InstructionShape
<1>3. {"buf", "recQueue"} \subseteq Fields
  BY DEF Fields
<1> QED
  BY <1>1, <1>2, <1>3, InstructionShape

\* The first instruction is about m only if it locks or unlocks m.
LEMMA HoldsOther ==
    ASSUME NEW e \in Instructions, NEW holds \in BOOLEAN, NEW m,
           e.op \notin {"lock", "unlock"} \/ e.on # m
    PROVE  Holds(e, holds, m) <=> holds
  BY InstructionShape DEF Holds

LEMMA LockInit == Init => TodoOK /\ LockInv
<1> SUFFICES ASSUME Init PROVE TodoOK /\ LockInv
  OBVIOUS
<1>1. Sound(Connect) /\ Sound(<<>>)
  BY OperationsSound, SoundEmpty
<1>2. \A t \in Threads : todo[t] \in {Connect, <<>>}
  BY DEF Init
<1>3. \A t \in Threads : Sound(todo[t])
  BY <1>1, <1>2
<1>4. TodoOK
  BY <1>3, ErrorAssumption DEF Init, TodoOK, Sound
<1>5. ASSUME NEW t \in Threads, NEW m \in Mutexes
      PROVE  Disciplined(todo[t], owner[m] = t, m, errors = 0)
  <2>1. (owner[m] = t) = FALSE
    BY DEF Init, Threads
  <2>2. Disciplined(todo[t], FALSE, m, TRUE)
    BY <1>3 DEF Sound
  <2>3. Disciplined(todo[t], FALSE, m, errors = 0)
    BY <2>2, DisciplinedLoosens
  <2> QED
    BY <2>1, <2>3
<1> QED
  BY <1>4, <1>5 DEF LockInv

LEMMA ThreadStep ==
    ASSUME TodoOK, LockInv, NEW t \in Threads, Step(t)
    PROVE  TodoOK' /\ LockInv'
<1> DEFINE e == First(t)
<1>0. /\ owner \in [Mutexes -> Threads \cup {"none"}] /\ errors \in Nat
      /\ todo \in [Threads -> Seq(Instructions)] /\ t # "none"
  BY DEF TodoOK, Threads
<1>1. todo[t] # <<>> => e \in Instructions
  BY HeadTailProperties DEF TodoOK, First
<1>2. ASSUME todo[t] # <<>>, NEW m \in Mutexes, Claimed(m), e = Unlock(m)
      PROVE  owner[m] = t
  <2>1. Disciplined(todo[t], owner[m] = t, m, errors = 0)
    BY <1>2 DEF LockInv, Claimed
  <2>2. Needs(Head(todo[t]), m)
    BY <1>2 DEF Needs, First
  <2> QED
    BY <1>0, <1>2, <2>1, <2>2, HeadDisciplined
<1>3. CASE Acquire(t)
  <2>1. /\ todo[t] # <<>> /\ e.op = "lock" /\ owner[e.on] = "none" /\ Goes(t)
        /\ owner' = [owner EXCEPT ![e.on] = t] /\ UNCHANGED errors
    BY <1>3 DEF Acquire, At, First
  <2>2. e.on \in Mutexes /\ e = Lock(e.on)
    BY <1>1, <2>1, InstructionKinds
  <2>3. \A u \in Threads \ {t}, m \in Mutexes : (owner'[m] = u) <=> (owner[m] = u)
    BY <1>0, <2>1, <2>2 DEF Threads
  <2>4. ASSUME NEW m \in Mutexes PROVE (owner'[m] = t) <=> Holds(e, owner[m] = t, m)
    <3>1. CASE m = e.on
      BY <1>0, <2>1, <2>2, <3>1 DEF Holds
    <3>2. CASE m # e.on
      <4>1. owner'[m] = owner[m]
        BY <1>0, <2>1, <3>2
      <4> QED
        BY <1>1, <2>1, <3>2, <4>1, HoldsOther
    <3> QED
      BY <3>1, <3>2
  <2>5. owner' \in [Mutexes -> Threads \cup {"none"}]
    BY <1>0, <2>1
  <2> QED
    BY <2>1, <2>3, <2>4, <2>5, GoesKeeps
<1>4. CASE Release(t)
  <2>1. /\ todo[t] # <<>> /\ e.op = "unlock" /\ Goes(t)
        /\ owner' = [owner EXCEPT ![e.on] = "none"] /\ UNCHANGED errors
    BY <1>4 DEF Release, At, First
  <2>2. e.on \in Mutexes /\ e = Unlock(e.on)
    BY <1>1, <2>1, InstructionKinds
  <2>3. ASSUME NEW u \in Threads \ {t}, NEW m \in Mutexes, Claimed(m)
        PROVE  (owner'[m] = u) <=> (owner[m] = u)
    <3>1. CASE m = e.on
      BY <1>0, <1>2, <2>1, <2>2, <2>3, <3>1 DEF Threads
    <3>2. CASE m # e.on
      BY <1>0, <2>1, <3>2
    <3> QED
      BY <3>1, <3>2
  <2>4. ASSUME NEW m \in Mutexes PROVE (owner'[m] = t) <=> Holds(e, owner[m] = t, m)
    <3>1. CASE m = e.on
      <4>1. ~Holds(e, owner[m] = t, m)
        BY <2>2, <3>1, InstructionShape DEF Holds
      <4> QED
        BY <1>0, <2>1, <2>2, <3>1, <4>1
    <3>2. CASE m # e.on
      <4>1. owner'[m] = owner[m]
        BY <1>0, <2>1, <3>2
      <4> QED
        BY <1>1, <2>1, <3>2, <4>1, HoldsOther
    <3> QED
      BY <3>1, <3>2
  <2>5. owner' \in [Mutexes -> Threads \cup {"none"}]
    BY <1>0, <2>1
  <2> QED
    BY <2>1, <2>3, <2>4, <2>5, GoesKeeps
<1>5. CASE Access(t) \/ SendTo(t) \/ Effect(t)
  <2>1. /\ todo[t] # <<>> /\ e.op \in {"use", "send", "do"} /\ Goes(t)
        /\ UNCHANGED <<owner, errors>>
    BY <1>5 DEF Access, SendTo, Effect, Sends, At, First
  <2>2. ASSUME NEW m \in Mutexes PROVE (owner'[m] = t) <=> Holds(e, owner[m] = t, m)
    BY <1>1, <2>1, HoldsOther
  <2> QED
    BY <1>0, <2>1, <2>2, GoesKeeps
<1>6. CASE SendFails(t)
  <2>1. /\ todo[t] # <<>> /\ e.op \in {"send", "do"} /\ UNCHANGED owner
        /\ todo' = [todo EXCEPT ![t] = OnDisconnected \o Tail(@)]
        /\ errors' = errors + 1
    BY <1>6 DEF SendFails, Sends, At, First
  <2>2. /\ todo[t] \in Seq(Instructions) /\ Tail(todo[t]) \in Seq(Instructions)
        /\ OnDisconnected \in Seq(Instructions)
    BY <1>0, <2>1, HeadTailProperties, OperationsSound DEF Sound
  <2>3. /\ todo'[t] = OnDisconnected \o Tail(todo[t])
        /\ \A u \in Threads \ {t} : todo'[u] = todo[u]
    BY <1>0, <2>1
  <2>4. OnDisconnected \o Tail(todo[t]) \in Seq(Instructions)
    BY <2>2, ConcatProperties
  <2>5. errors' \in Nat /\ errors' # 0
    BY <1>0, <2>1
  <2>6. TodoOK'
    BY <1>0, <2>1, <2>4, <2>5 DEF TodoOK
  <2>7. ASSUME NEW m \in Mutexes, Claimed(m)'
        PROVE  Disciplined(todo'[t], owner'[m] = t, m, errors' = 0)
    <3>1. m # "connMtx"
      BY <2>5, <2>7 DEF Claimed
    <3>2. Disciplined(todo[t], owner[m] = t, m, errors = 0)
      BY <3>1 DEF LockInv
    <3>3. Disciplined(Tail(todo[t]), Holds(Head(todo[t]), owner[m] = t, m), m, errors = 0)
      BY <2>1, <2>2, <3>2, TailDisciplined
    <3>4. Holds(Head(todo[t]), owner[m] = t, m) = (owner[m] = t)
      <4>1. Holds(e, owner[m] = t, m) <=> (owner[m] = t)
        BY <1>1, <2>1, HoldsOther
      <4> QED
        BY <4>1 DEF First, Holds
    <3>5. Disciplined(Tail(todo[t]), owner[m] = t, m, FALSE)
      BY <3>3, <3>4, DisciplinedLoosens
    <3>6. \A i \in 1 .. Len(OnDisconnected) :
             /\ OnDisconnected[i] # Lock(m) /\ OnDisconnected[i] # Unlock(m)
             /\ ~Needs(OnDisconnected[i], m)
      <4> DEFINE kinds == {Do("close"), Lock("connMtx"), Do("makeState"), Unlock("connMtx")}
      <4>1. OnDisconnected \in Seq(kinds)
        BY ConcatProperties DEF OnDisconnected, Under
      <4>2. \A e1 \in kinds : e1 # Lock(m) /\ e1 # Unlock(m) /\ ~Needs(e1, m)
        BY <3>1, InstructionShape DEF Needs
      <4> HIDE DEF kinds
      <4> QED
        BY <4>1, <4>2, ElementOfSeq
    <3>7. Disciplined(OnDisconnected \o Tail(todo[t]), owner[m] = t, m, FALSE)
      BY <2>2, <3>5, <3>6, CallbackDisciplined
    <3>8. (errors' = 0) = FALSE /\ (owner'[m] = t) = (owner[m] = t)
      BY <2>1, <2>5
    <3> QED
      BY <2>3, <3>7, <3>8
  <2>8. LockInv'
    BY <2>1, <2>3, <2>5, <2>7, ThreadKeeps
  <2> QED
    BY <2>6, <2>8
<1> QED
  BY <1>3, <1>4, <1>5, <1>6 DEF Step

LEMMA LockStep == TodoOK /\ LockInv /\ [Next]_vars => TodoOK' /\ LockInv'
<1> SUFFICES ASSUME TodoOK, LockInv, [Next]_vars PROVE TodoOK' /\ LockInv'
  OBVIOUS
<1>0. errors \in Nat /\ "io" \in Threads
  BY DEF TodoOK, Threads
<1>1. CASE TimerExpires
  <2>1. PICK operation \in OnTick : Start("io", operation \o <<Do("rearm")>>)
    BY <1>1 DEF TimerExpires
  <2>2. Sound(operation \o <<Do("rearm")>>)
    BY OperationsSound
  <2> QED
    BY <1>0, <1>1, <2>1, <2>2, StartKeeps DEF TimerExpires
<1>2. CASE DatagramArrives
  <2>1. PICK operation \in Process : Start("io", OnReceived(operation))
    BY <1>2 DEF DatagramArrives
  <2>2. Sound(OnReceived(operation))
    BY OperationsSound
  <2> QED
    BY <1>0, <1>2, <2>1, <2>2, StartKeeps DEF DatagramArrives
<1>3. CASE ReceiveError
  <2>1. Sound(<<>>) /\ Sound(OnDisconnected)
    BY SoundEmpty, OperationsSound
  <2>2. UNCHANGED owner /\ errors' \in Nat /\ errors' # 0
    BY <1>0, <1>3 DEF ReceiveError
  <2>3. Start("io", <<>>) \/ Start("io", OnDisconnected)
    BY <1>3 DEF ReceiveError
  <2> QED
    BY <1>0, <2>1, <2>2, <2>3, StartKeeps
<1>4. CASE ClientRuns
  <2>1. PICK t \in Threads : Start(t, Flush) \/ Start(t, WritePacket)
    BY <1>4 DEF ClientRuns, Threads
  <2>2. UNCHANGED <<owner, errors>>
    BY <1>4 DEF ClientRuns
  <2> QED
    BY <1>0, <2>1, <2>2, OperationsSound, StartKeeps
<1>5. CASE ClientDisconnects
  <2>1. PICK t \in Threads : Start(t, DisconnectAndStop) /\ UNCHANGED <<owner, errors>>
    BY <1>5 DEF ClientDisconnects, Threads
  <2> QED
    BY <1>0, <2>1, OperationsSound, StartKeeps
<1>6. ASSUME NEW t \in Threads, Step(t) PROVE TodoOK' /\ LockInv'
  BY <1>6, ThreadStep
<1>7. CASE ProcessThrows
  <2>1. /\ \A t \in Threads : todo'[t] = <<>>
        /\ \A m \in Mutexes : owner'[m] = "none"
        /\ errors' = errors
    BY <1>7 DEF ProcessThrows
  <2>2. TodoOK'
    <3>1. <<>> \in Seq(Instructions)
      OBVIOUS
    <3> QED
      BY <1>0, <1>7, <3>1 DEF ProcessThrows, TodoOK
  <2>3. ASSUME NEW t \in Threads, NEW m \in Mutexes
        PROVE  Disciplined(todo'[t], owner'[m] = t, m, errors' = 0)
    <3>1. (owner'[m] = t) = FALSE
      BY <2>1 DEF Threads
    <3>2. Disciplined(<<>>, FALSE, m, errors' = 0)
      BY SoundEmpty, DisciplinedLoosens DEF Sound
    <3> QED
      BY <2>1, <3>1, <3>2
  <2> QED
    BY <2>2, <2>3 DEF LockInv
<1>8. CASE UNCHANGED vars
  BY <1>8 DEF vars, TodoOK, LockInv
<1> QED
  BY <1>1, <1>2, <1>3, <1>4, <1>5, <1>6, <1>7, <1>8 DEF Next

\* Each thread keeps to the mutexes in what it still has to do, however many errors
\* the socket reports and in whatever operation.
THEOREM LockInvariant == Spec => [](TodoOK /\ LockInv)
<1> QED
  BY LockInit, LockStep, PTL DEF Spec

\* write, resend, sendACKs, flush: two threads never use at once one of the five fields
\* that a mutex is there for (buf, recQueue, ackBuf, datagramsReceived, bufferedSend),
\* however many errors the socket reports.
THEOREM NoRaces == Spec => []NoRace
<1>1. TodoOK /\ LockInv => NoRace
  <2> SUFFICES ASSUME TodoOK, LockInv, NEW t \in Threads, NEW u \in Threads, t # u,
                      todo[t] # <<>>, todo[u] # <<>>,
                      NEW f \in First(t).uses \cap First(u).uses
               PROVE  FALSE
    BY DEF NoRace
  <2>1. /\ todo[t] \in Seq(Instructions) /\ todo[u] \in Seq(Instructions)
        /\ First(t) \in Instructions
    BY HeadTailProperties DEF TodoOK, First
  <2>2. f \in Fields
    BY <2>1, InstructionKinds
  <2>3. Guard(f) \in Mutexes /\ Guard(f) # "connMtx"
    BY <2>2, GuardIs DEF Fields, Mutexes
  <2>4. /\ Disciplined(todo[t], owner[Guard(f)] = t, Guard(f), errors = 0)
        /\ Disciplined(todo[u], owner[Guard(f)] = u, Guard(f), errors = 0)
    BY <2>3 DEF LockInv
  <2>5. Needs(Head(todo[t]), Guard(f)) /\ Needs(Head(todo[u]), Guard(f))
    BY DEF Needs, First
  <2>6. owner[Guard(f)] = t /\ owner[Guard(f)] = u
    BY <2>1, <2>4, <2>5, HeadDisciplined
  <2> QED
    BY <2>6
<1> QED
  BY <1>1, LockInvariant, PTL

\* Until the socket reports an error, no threads wait for each other, nor one for itself.
THEOREM NoDeadlocks == Spec => []NoDeadlock
<1>1. TodoOK /\ LockInv => NoDeadlock
  <2> SUFFICES ASSUME TodoOK, LockInv, errors = 0, NEW S \in SUBSET Threads, S # {},
                      \A t \in S : Waiting(t) /\ owner[First(t).on] \in S
               PROVE  FALSE
    BY DEF NoDeadlock
  <2>1. ASSUME NEW t \in S, NEW m \in Mutexes, owner[m] = t
        PROVE  Rank(m) < Rank(First(t).on)
    <3>1. todo[t] # <<>> /\ Head(todo[t]).op = "lock" /\ todo[t] \in Seq(Instructions)
      BY DEF Waiting, At, First, TodoOK
    <3>2. Disciplined(todo[t], owner[m] = t, m, errors = 0)
      BY DEF LockInv
    <3> QED
      BY <2>1, <3>1, <3>2, HeadDisciplined DEF First
  <2>2. \A t \in S : First(t).on \in Mutexes
    <3> TAKE t \in S
    <3>1. todo[t] # <<>> /\ First(t).op = "lock" /\ todo[t] \in Seq(Instructions)
      BY DEF Waiting, At, First, TodoOK
    <3>2. First(t) \in Instructions
      BY <3>1, HeadTailProperties DEF First
    <3> QED
      BY <3>1, <3>2, InstructionKinds
  <2>3. PICK t \in S : TRUE
    OBVIOUS
  <2> DEFINE u == owner[First(t).on]
             v == owner[First(u).on]
  <2>4. u \in S /\ v \in S
    BY <2>3
  <2>5. Rank(First(t).on) < Rank(First(u).on) /\ Rank(First(u).on) < Rank(First(v).on)
    BY <2>1, <2>2, <2>4
  <2> QED
    BY <2>5 DEF Rank
<1> QED
  BY <1>1, LockInvariant, PTL

--------------------------------------------------------------------------------
(* The chain of receives.                                                   *)

\* A receive is pending or to come, and only Connect opens the socket, first of all.
ListenInv ==
    /\ \A t \in Threads : Contains(todo[t], Do("open")) => t = "user" /\ todo[t] = Connect
    /\ errors = 0 => Listening

Calm == Instructions \ {Do("open")}

LEMMA ContainsEmpty == ASSUME NEW e PROVE ~Contains(<<>>, e)
  BY DEF Contains

LEMMA ContainsTail ==
    ASSUME NEW s \in Seq(Instructions), s # <<>>, NEW e
    PROVE  /\ Contains(Tail(s), e) => Contains(s, e)
           /\ Contains(s, e) => Head(s) = e \/ Contains(Tail(s), e)
<1>1. /\ Tail(s) \in Seq(Instructions) /\ Len(Tail(s)) = Len(s) - 1 /\ Len(s) \in Nat \ {0}
      /\ Head(s) = s[1]
      /\ \A i \in 1 .. Len(Tail(s)) : Tail(s)[i] = s[i + 1] /\ i + 1 \in 1 .. Len(s)
  OBVIOUS
<1>2. ASSUME Contains(Tail(s), e) PROVE Contains(s, e)
  BY <1>1, <1>2 DEF Contains
<1>3. ASSUME Contains(s, e), s[1] # e PROVE Contains(Tail(s), e)
  <2>1. PICK i \in 1 .. Len(s) : s[i] = e
    BY <1>3 DEF Contains
  <2>2. i - 1 \in 1 .. Len(Tail(s)) /\ (i - 1) + 1 = i
    BY <1>1, <1>3, <2>1
  <2>3. Tail(s)[i - 1] = e
    BY <1>1, <2>1, <2>2
  <2> QED
    BY <2>2, <2>3 DEF Contains
<1> QED
  BY <1>1, <1>2, <1>3

LEMMA ContainsConcat ==
    ASSUME NEW a \in Seq(Instructions), NEW b \in Seq(Instructions), NEW e,
           Contains(a \o b, e)
    PROVE  Contains(a, e) \/ Contains(b, e)
<1>1. PICK i \in 1 .. Len(a \o b) : (a \o b)[i] = e
  BY DEF Contains
<1>2. CASE i \in 1 .. Len(a)
  BY <1>1, <1>2 DEF Contains
<1>3. CASE i \notin 1 .. Len(a)
  <2>1. i - Len(a) \in 1 .. Len(b) /\ (a \o b)[i] = b[i - Len(a)]
    BY <1>3
  <2> QED
    BY <1>1, <2>1 DEF Contains
<1> QED
  BY <1>2, <1>3

LEMMA CalmOpensNothing == ASSUME NEW s \in Seq(Calm) PROVE ~Contains(s, Do("open"))
  BY ElementOfSeq DEF Contains, Calm

\* The operations that a thread starts or a callback runs.
LEMMA OperationsCalm ==
    /\ DisconnectAndStop \in Seq(Calm) /\ Flush \in Seq(Calm) /\ WritePacket \in Seq(Calm)
    /\ OnDisconnected \in Seq(Calm)
    /\ \A operation \in OnTick : operation \o <<Do("rearm")>> \in Seq(Calm)
    /\ \A operation \in Process :
          OnReceived(operation) \in Seq(Calm) /\ Contains(OnReceived(operation), Do("receive"))
<1>1. /\ \A m \in Mutexes : Lock(m) \in Calm /\ Unlock(m) \in Calm
      /\ \A f \in SUBSET Fields : Send(f) \in Calm /\ Use(f) \in Calm
      /\ Notify \in Calm
      /\ \A e \in Effects \ {"open"} : Do(e) \in Calm
  BY InstructionType, InstructionShape DEF Calm
<1>2. ASSUME NEW m \in Mutexes, NEW body \in Seq(Calm) PROVE Under(m, body) \in Seq(Calm)
  BY <1>1, ConcatProperties DEF Under
<1>3. Mutexes = {"connMtx", "connectionMtx", "datagramsRecvMtx", "sendMtx"}
  BY DEF Mutexes
<1>4. /\ \A e \in {"stop", "disconnected", "close", "invalid", "makeState", "receive",
                   "rearm", "stopService"} : Do(e) \in Calm /\ <<Do(e)>> \in Seq(Calm)
  BY <1>1 DEF Effects
<1>5. /\ <<Send({"buf", "recQueue"})>> \in Seq(Calm) /\ <<Use({"recQueue"})>> \in Seq(Calm)
      /\ <<Send({"ackBuf", "datagramsReceived"})>> \in Seq(Calm) /\ <<Send({})>> \in Seq(Calm)
      /\ <<Use({"datagramsReceived"})>> \in Seq(Calm)
      /\ <<Use({"bufferedSend"})>> \in Seq(Calm)
  BY <1>1 DEF Fields
<1>6. /\ Write \in Seq(Calm) /\ Resend \in Seq(Calm) /\ HandleACK \in Seq(Calm)
      /\ FlushACKs \in Seq(Calm) /\ ReceiveDatagram \in Seq(Calm) /\ WritePacket \in Seq(Calm)
  BY <1>2, <1>3, <1>5
     DEF Write, Resend, HandleACK, FlushACKs, ReceiveDatagram, WritePacket
<1>7. Disconnect \in Seq(Calm)
  <2>1. <<Do("stop"), Notify, Do("disconnected"), Do("close"), Do("invalid")>> \in Seq(Calm)
    BY <1>1, <1>4
  <2> QED
    BY <1>2, <1>3, <2>1 DEF Disconnect
<1>8. OnDisconnected \in Seq(Calm)
  BY <1>2, <1>3, <1>4, ConcatProperties DEF OnDisconnected
<1>9. DisconnectAndStop \in Seq(Calm)
  <2>1. Under("connMtx", Disconnect) \in Seq(Calm)
    BY <1>2, <1>3, <1>7
  <2>2. <<Do("close"), Do("stopService")>> \in Seq(Calm)
    BY <1>4
  <2> QED
    BY <2>1, <2>2, ConcatProperties DEF DisconnectAndStop
<1>10. Flush \in Seq(Calm)
  BY <1>2, <1>3, <1>5, <1>6, ConcatProperties DEF Flush
<1>11. \A operation \in OnTick : operation \o <<Do("rearm")>> \in Seq(Calm)
  <2>1. GiveUp \in Seq(Calm)
    BY <1>6, <1>7, ConcatProperties DEF GiveUp
  <2>2. FlushACKs \o Write \in Seq(Calm) /\ FlushACKs \o GiveUp \in Seq(Calm)
    BY <1>6, <2>1, ConcatProperties
  <2>3. FlushACKs \o Write \o Resend \in Seq(Calm)
    BY <1>6, <2>2, ConcatProperties
  <2>4. \A operation \in OnTick : operation \in Seq(Calm)
    BY <1>5, <1>6, <2>2, <2>3 DEF OnTick
  <2> QED
    BY <1>4, <2>4, ConcatProperties
<1>12. ASSUME NEW operation \in Process
       PROVE  OnReceived(operation) \in Seq(Calm)
              /\ Contains(OnReceived(operation), Do("receive"))
  <2>1. operation \in Seq(Calm)
    <3>1. <<>> \in Seq(Calm)
      OBVIOUS
    <3>2. /\ ReceiveDatagram \o <<Send({})>> \in Seq(Calm)
          /\ ReceiveDatagram \o Write \in Seq(Calm)
          /\ ReceiveDatagram \o Disconnect \in Seq(Calm)
      BY <1>5, <1>6, <1>7, ConcatProperties
    <3> QED
      BY <1>5, <1>6, <1>7, <3>1, <3>2 DEF Process
  <2>2. <<Do("receive")>> \in Seq(Calm)
    BY <1>4
  <2> DEFINE s == operation \o <<Do("receive")>>
  <2>3. s \in Seq(Calm)
    BY <2>1, <2>2, ConcatProperties
  <2>4. Len(s) = Len(operation) + 1 /\ s[Len(operation) + 1] = Do("receive")
        /\ Len(operation) \in Nat
    BY <2>1, <2>2
  <2>5. Len(operation) + 1 \in 1 .. Len(s)
    BY <2>4
  <2> QED
    BY <2>3, <2>4, <2>5 DEF OnReceived, Contains
<1> QED
  BY <1>6, <1>8, <1>9, <1>10, <1>11, <1>12

LEMMA SeqNarrows ==
    ASSUME NEW S, NEW T, NEW s \in Seq(S), \A i \in 1 .. Len(s) : s[i] \in T
    PROVE  s \in Seq(T)
  OBVIOUS

LEMMA ConnectIs ==
    /\ Connect # <<>> /\ Head(Connect) = Do("open") /\ Tail(Connect) \in Seq(Calm)
    /\ Contains(Tail(Connect), Do("receive"))
<1> DEFINE open == <<Do("open")>>
           body == Under("connMtx", <<Do("makeState")>>)
           last == <<Do("receive")>>
<1>1. /\ Do("makeState") \in Calm /\ Do("receive") \in Calm /\ Do("open") \in Instructions
      /\ Lock("connMtx") \in Calm /\ Unlock("connMtx") \in Calm
  BY InstructionType, InstructionShape DEF Calm, Mutexes, Effects
<1>2. body \in Seq(Calm) /\ Len(body) \in Nat
  <2>1. /\ <<Lock("connMtx")>> \in Seq(Calm) /\ <<Do("makeState")>> \in Seq(Calm)
        /\ <<Unlock("connMtx")>> \in Seq(Calm)
    BY <1>1
  <2>2. body \in Seq(Calm)
    BY <2>1, ConcatProperties DEF Under
  <2> QED
    BY <2>2, LenProperties
<1>3. /\ open \in Seq(Instructions) /\ Len(open) = 1 /\ open[1] = Do("open")
      /\ last \in Seq(Calm) /\ last \in Seq(Instructions) /\ Len(last) = 1
      /\ last[1] = Do("receive")
  BY <1>1 DEF Calm
<1>4. body \in Seq(Instructions)
  BY <1>2 DEF Calm
<1>5. Connect = (open \o body) \o last
  BY DEF Connect
<1> HIDE DEF open, body, last
<1>6. /\ open \o body \in Seq(Instructions) /\ Len(open \o body) = 1 + Len(body)
      /\ (open \o body)[1] = Do("open")
      /\ \A i \in 1 .. Len(body) : (open \o body)[1 + i] = body[i]
  <2>1. /\ open \o body \in Seq(Instructions)
        /\ Len(open \o body) = Len(open) + Len(body)
        /\ \A i \in 1 .. Len(open) : (open \o body)[i] = open[i]
        /\ \A i \in 1 .. Len(body) : (open \o body)[Len(open) + i] = body[i]
    BY <1>3, <1>4, ConcatElements
  <2>2. Len(open) = 1 /\ open[1] = Do("open") /\ 1 \in 1 .. 1
    BY <1>3
  <2> QED
    BY <2>1, <2>2, Zenon
<1>7. /\ Connect \in Seq(Instructions) /\ Len(Connect) = Len(body) + 2
      /\ \A i \in 1 .. 1 + Len(body) : Connect[i] = (open \o body)[i]
      /\ Connect[2 + Len(body)] = Do("receive")
  <2>1. /\ (open \o body) \o last \in Seq(Instructions)
        /\ Len((open \o body) \o last) = Len(open \o body) + Len(last)
        /\ \A i \in 1 .. Len(open \o body) :
              ((open \o body) \o last)[i] = (open \o body)[i]
        /\ \A i \in 1 .. Len(last) :
              ((open \o body) \o last)[Len(open \o body) + i] = last[i]
    BY <1>3, <1>6, ConcatElements
  <2>2. Connect[Len(open \o body) + 1] = last[1]
    BY <1>3, <1>5, <2>1
  <2>3. Len(open \o body) + 1 = 2 + Len(body)
    BY <1>2, <1>6
  <2> QED
    BY <1>2, <1>3, <1>5, <1>6, <2>1, <2>2, <2>3
<1>8. /\ Connect # <<>> /\ Head(Connect) = Connect[1]
      /\ Tail(Connect) \in Seq(Instructions) /\ Len(Tail(Connect)) = Len(body) + 1
      /\ \A i \in 1 .. Len(body) + 1 : Tail(Connect)[i] = Connect[i + 1]
  BY <1>2, <1>7
<1>9. Head(Connect) = Do("open")
  BY <1>2, <1>6, <1>7, <1>8
<1>10. Tail(Connect)[Len(body) + 1] = Do("receive")
  <2>1. (Len(body) + 1) + 1 = 2 + Len(body) /\ Len(body) + 1 \in 1 .. Len(body) + 1
    BY <1>2
  <2> QED
    BY <1>7, <1>8, <2>1
<1>11. ASSUME NEW i \in 1 .. Len(body) + 1 PROVE Tail(Connect)[i] \in Calm
  <2>1. CASE i \in 1 .. Len(body)
    <3>1. i + 1 = 1 + i /\ i + 1 \in 1 .. 1 + Len(body)
      BY <1>2, <2>1
    <3>2. Tail(Connect)[i] = body[i]
      BY <1>6, <1>7, <1>8, <2>1, <3>1
    <3>3. body[i] \in Calm
      BY <1>2, <2>1, ElementOfSeq
    <3> QED
      BY <3>2, <3>3
  <2>2. CASE i = Len(body) + 1
    BY <1>1, <1>10, <2>2
  <2>3. i \in 1 .. Len(body) \/ i = Len(body) + 1
    <3>1. Len(body) \in Nat
      BY <1>2
    <3> QED
      BY <3>1
  <2> QED
    BY <2>1, <2>2, <2>3
<1>12. Tail(Connect) \in Seq(Calm)
  <2>1. \A i \in 1 .. Len(body) + 1 : Tail(Connect)[i] \in Calm
    BY <1>11
  <2>2. \A i \in 1 .. Len(Tail(Connect)) : Tail(Connect)[i] \in Calm
    BY <1>8, <2>1, Zenon
  <2>3. Tail(Connect) \in Seq(Instructions)
    BY <1>8
  <2> QED
    BY <2>2, <2>3, SeqNarrows, Zenon
<1>13. Contains(Tail(Connect), Do("receive"))
  BY <1>2, <1>8, <1>10 DEF Contains
<1> QED
  BY <1>8, <1>9, <1>12, <1>13

\* A thread starts an operation that opens nothing.
LEMMA StartListens ==
    ASSUME TodoOK, ListenInv, NEW t \in Threads, NEW operation \in Seq(Calm),
           Start(t, operation), UNCHANGED <<socketOpen, errors>>,
           receiving => receiving' \/ (t = "io" /\ Contains(operation, Do("receive")))
    PROVE  ListenInv'
<1>1. /\ todo[t] = <<>> /\ todo'[t] = operation
      /\ \A u \in Threads \ {t} : todo'[u] = todo[u]
  BY DEF Start, TodoOK
<1>2. ~Contains(operation, Do("open"))
  BY CalmOpensNothing
<1>3. \A u \in Threads : Contains(todo'[u], Do("open")) => u = "user" /\ todo'[u] = Connect
  BY <1>1, <1>2 DEF ListenInv
<1>4. ASSUME errors' = 0, socketOpen'
      PROVE  \/ receiving'
             \/ \E u \in {"io", "user"} : Contains(todo'[u], Do("receive"))
  <2>1. receiving \/ \E u \in {"io", "user"} : Contains(todo[u], Do("receive"))
    BY <1>4 DEF ListenInv, Listening
  <2>2. CASE receiving
    <3>1. receiving' \/ (Contains(operation, Do("receive")) /\ t = "io")
      BY <2>2
    <3> QED
      BY <1>1, <3>1
  <2>3. ASSUME NEW u \in {"io", "user"}, Contains(todo[u], Do("receive"))
        PROVE  Contains(todo'[u], Do("receive"))
    <3>1. u # t
      BY <1>1, <2>3, ContainsEmpty
    <3> QED
      BY <1>1, <2>3, <3>1 DEF Threads
  <2> QED
    BY <2>1, <2>2, <2>3
<1> QED
  BY <1>3, <1>4 DEF ListenInv, Listening

\* A thread leaves behind an instruction that is no receive, or starts one.
LEMMA GoesListens ==
    ASSUME TodoOK, ListenInv, NEW t \in Threads, todo[t] # <<>>, Goes(t), UNCHANGED errors,
           receiving => receiving',
           First(t) = Do("receive") /\ socketOpen => receiving',
           socketOpen' => socketOpen \/ First(t) = Do("open")
    PROVE  ListenInv'
<1>1. /\ todo'[t] = Tail(todo[t]) /\ \A u \in Threads \ {t} : todo'[u] = todo[u]
      /\ todo[t] \in Seq(Instructions)
  BY DEF Goes, TodoOK
<1>2. /\ \A e : Contains(Tail(todo[t]), e) => Contains(todo[t], e)
      /\ \A e : Contains(todo[t], e) => First(t) = e \/ Contains(Tail(todo[t]), e)
  BY <1>1, ContainsTail DEF First
<1>3. ~Contains(Tail(todo[t]), Do("open"))
  <2>1. ASSUME Contains(Tail(todo[t]), Do("open")) PROVE FALSE
    <3>1. todo[t] = Connect
      BY <1>2, <2>1 DEF ListenInv
    <3> QED
      BY <2>1, <3>1, ConnectIs, CalmOpensNothing
  <2> QED
    BY <2>1
<1>4. \A u \in Threads : Contains(todo'[u], Do("open")) => u = "user" /\ todo'[u] = Connect
  BY <1>1, <1>3 DEF ListenInv
<1>5. ASSUME errors' = 0, socketOpen'
      PROVE  \/ receiving'
             \/ \E u \in {"io", "user"} : Contains(todo'[u], Do("receive"))
  <2>1. CASE First(t) = Do("open")
    <3>1. Contains(todo[t], Do("open"))
      <4>1. Len(todo[t]) \in Nat \ {0} /\ todo[t][1] = Do("open")
        BY <1>1, <2>1 DEF First
      <4> QED
        BY <4>1 DEF Contains
    <3>2. t = "user" /\ todo[t] = Connect
      BY <3>1 DEF ListenInv
    <3> QED
      BY <1>1, <3>2, ConnectIs
  <2>2. CASE First(t) # Do("open")
    <3>1. receiving \/ \E u \in {"io", "user"} : Contains(todo[u], Do("receive"))
      BY <1>5, <2>2 DEF ListenInv, Listening
    <3>2. ASSUME NEW u \in {"io", "user"}, Contains(todo[u], Do("receive"))
          PROVE  receiving' \/ Contains(todo'[u], Do("receive"))
      <4>1. CASE u = t
        BY <1>1, <1>2, <1>5, <2>2, <3>2, <4>1
      <4>2. CASE u # t
        BY <1>1, <3>2, <4>2 DEF Threads
      <4> QED
        BY <4>1, <4>2
    <3> QED
      BY <3>1, <3>2
  <2> QED
    BY <2>1, <2>2
<1> QED
  BY <1>4, <1>5 DEF ListenInv, Listening

LEMMA ListenInit == Init => ListenInv
<1> SUFFICES ASSUME Init PROVE ListenInv
  OBVIOUS
<1>1. \A t \in Threads : todo[t] = IF t = "user" THEN Connect ELSE <<>>
  BY DEF Init
<1>2. ~socketOpen
  BY DEF Init
<1> QED
  BY <1>1, <1>2, ContainsEmpty DEF ListenInv, Listening

LEMMA ListenStep == TodoOK /\ ListenInv /\ [Next]_vars => ListenInv'
<1> SUFFICES ASSUME TodoOK, ListenInv, [Next]_vars PROVE ListenInv'
  OBVIOUS
<1>0. "io" \in Threads /\ errors \in Nat
  BY DEF Threads, TodoOK
<1>1. CASE TimerExpires
  <2>1. PICK operation \in OnTick : Start("io", operation \o <<Do("rearm")>>)
    BY <1>1 DEF TimerExpires
  <2>2. operation \o <<Do("rearm")>> \in Seq(Calm)
    BY OperationsCalm
  <2>3. UNCHANGED <<socketOpen, errors, receiving>>
    BY <1>1 DEF TimerExpires
  <2> QED
    BY <1>0, <2>1, <2>2, <2>3, StartListens
<1>2. CASE DatagramArrives
  <2>1. PICK operation \in Process : Start("io", OnReceived(operation))
    BY <1>2 DEF DatagramArrives
  <2>2. /\ OnReceived(operation) \in Seq(Calm)
        /\ Contains(OnReceived(operation), Do("receive"))
    BY OperationsCalm
  <2>3. UNCHANGED <<socketOpen, errors>>
    BY <1>2 DEF DatagramArrives
  <2> QED
    BY <1>0, <2>1, <2>2, <2>3, StartListens
<1>3. CASE ReceiveError
  <2>1. errors' # 0
    BY <1>0, <1>3 DEF ReceiveError
  <2>2. PICK operation \in {<<>>, OnDisconnected} : Start("io", operation)
    BY <1>3 DEF ReceiveError
  <2>3. ~Contains(operation, Do("open"))
    BY OperationsCalm, CalmOpensNothing, ContainsEmpty
  <2>4. todo'["io"] = operation /\ \A u \in Threads \ {"io"} : todo'[u] = todo[u]
    BY <1>0, <2>2 DEF Start, TodoOK
  <2> QED
    BY <2>1, <2>3, <2>4 DEF ListenInv
<1>4. CASE ClientRuns
  <2>1. PICK t \in Threads : Start(t, Flush) \/ Start(t, WritePacket)
    BY <1>4 DEF ClientRuns, Threads
  <2>2. UNCHANGED <<socketOpen, errors, receiving>>
    BY <1>4 DEF ClientRuns, flags
  <2> QED
    BY <2>1, <2>2, OperationsCalm, StartListens
<1>5. CASE ClientDisconnects
  <2>1. PICK t \in Threads : Start(t, DisconnectAndStop)
    BY <1>5 DEF ClientDisconnects, Threads
  <2>2. UNCHANGED <<socketOpen, errors, receiving>>
    BY <1>5 DEF ClientDisconnects, flags
  <2> QED
    BY <2>1, <2>2, OperationsCalm, StartListens
<1>6. ASSUME NEW t \in Threads, Step(t) PROVE ListenInv'
  <2>1. todo[t] # <<>> => First(t) \in Instructions
    BY HeadTailProperties DEF TodoOK, First
  <2>2. CASE Acquire(t) \/ Release(t) \/ Access(t) \/ SendTo(t)
    <3>1. /\ todo[t] # <<>> /\ Goes(t) /\ UNCHANGED <<socketOpen, receiving, errors>>
          /\ First(t).op # "do" \/ First(t).on = "notify"
      BY <2>2 DEF Acquire, Release, Access, SendTo, Sends, At, flags
    <3>2. First(t) # Do("receive")
      BY <3>1, InstructionShape
    <3> QED
      BY <3>1, <3>2, GoesListens
  <2>3. CASE Effect(t)
    <3>1. /\ todo[t] # <<>> /\ First(t).op = "do" /\ Goes(t) /\ UNCHANGED errors
          /\ socketOpen' = (First(t).on = "open" \/ (socketOpen /\ First(t).on # "close"))
          /\ receiving' = (receiving \/ (First(t).on = "receive" /\ socketOpen))
      BY <2>3 DEF Effect, At
    <3>2. First(t).on = "open" => First(t) = Do("open")
      <4>1. \/ \E m \in Mutexes : First(t) = Lock(m) \/ First(t) = Unlock(m)
            \/ \E f \in SUBSET Fields : First(t) = Use(f) \/ First(t) = Send(f)
            \/ \E d \in Effects : First(t) = Do(d)
            \/ First(t) = Notify
        BY <2>1, <3>1 DEF Instructions
      <4> QED
        BY <3>1, <4>1, InstructionShape
    <3>3. First(t) = Do("receive") => First(t).on = "receive"
      BY InstructionShape
    <3> QED
      BY <3>1, <3>2, <3>3, GoesListens
  <2>4. CASE SendFails(t)
    <3>1. /\ todo[t] # <<>> /\ todo' = [todo EXCEPT ![t] = OnDisconnected \o Tail(@)]
          /\ errors' # 0
      BY <1>0, <2>4 DEF SendFails, Sends, At
    <3>2. /\ todo'[t] = OnDisconnected \o Tail(todo[t])
          /\ \A u \in Threads \ {t} : todo'[u] = todo[u]
          /\ todo[t] \in Seq(Instructions)
      BY <3>1 DEF TodoOK
    <3>3. ~Contains(Tail(todo[t]), Do("open"))
      BY <3>1, <3>2, ContainsTail, ConnectIs, CalmOpensNothing DEF ListenInv
    <3>4. ~Contains(todo'[t], Do("open"))
      <4>1. Tail(todo[t]) \in Seq(Instructions)
        BY <3>1, <3>2, HeadTailProperties
      <4>2. OnDisconnected \in Seq(Instructions) /\ ~Contains(OnDisconnected, Do("open"))
        BY OperationsSound, OperationsCalm, CalmOpensNothing DEF Sound
      <4> QED
        BY <3>2, <3>3, <4>1, <4>2, ContainsConcat
    <3> QED
      BY <3>1, <3>2, <3>4 DEF ListenInv
  <2> QED
    BY <1>6, <2>2, <2>3, <2>4 DEF Step
<1>7. CASE ProcessThrows
  <2>1. (\A t \in Threads : todo'[t] = <<>>) /\ ~socketOpen'
    BY <1>7 DEF ProcessThrows
  <2> QED
    BY <2>1, ContainsEmpty DEF ListenInv, Listening
<1>8. CASE UNCHANGED vars
  BY <1>8 DEF vars, ListenInv, Listening
<1> QED
  BY <1>1, <1>2, <1>3, <1>4, <1>5, <1>6, <1>7, <1>8 DEF Next

\* UDPClient: until an error, an open socket has a receive pending, or a thread that
\* will start one, whoever closes the socket meanwhile.
THEOREM ReceivesGoOn == Spec => []KeepsListening
<1>1. ListenInv => KeepsListening
  BY DEF ListenInv, KeepsListening
<1>2. TodoOK /\ LockInv /\ ListenInv /\ [Next]_vars => ListenInv'
  BY ListenStep
<1> QED
  BY <1>1, <1>2, ListenInit, LockInvariant, PTL DEF Spec
================================================================================
