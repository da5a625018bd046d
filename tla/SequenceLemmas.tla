---------------------------- MODULE SequenceLemmas ----------------------------
(***************************************************************************)
(* Facts about the operators of the community modules that the models are   *)
(* built from: FlattenSeq, and how often a value occurs in a                *)
(* sequence.  FlattenSeq is a recursive function; what is said about it     *)
(* rests on the first two lemmas, an induction over the naturals that       *)
(* speaks of sets of numbers, where the theorems of the library have an     *)
(* operator for a parameter.                                                *)
(***************************************************************************)
EXTENDS Integers, SequencesExt, FiniteSetTheorems, SequenceTheorems, WellFoundedInduction,
        TLAPS

\* A set of naturals that is not empty has a least element.
LEMMA LeastElement ==
    ASSUME NEW T \in SUBSET Nat, T # {}
    PROVE  \E m \in T : \A k \in T : m <= k
<1> DEFINE R == OpToRel(<, Nat)
<1>1. IsWellFoundedOn(R, Nat)
  BY NatLessThanWellFounded
<1>2. \A x, y \in Nat : x < y => <<x, y>> \in R
  BY DEF OpToRel
<1> HIDE DEF R
<1>3. PICK m \in T : \A k \in T : ~(<<k, m>> \in R)
  BY <1>1, WFMin
<1>4. ASSUME NEW k \in T PROVE m <= k
  <2>1. m \in Nat /\ k \in Nat /\ ~(<<k, m>> \in R)
    BY <1>3, <1>4
  <2>2. ~(k < m)
    BY <1>2, <2>1
  <2> QED
    BY <2>1, <2>2
<1> QED
  BY <1>4

\* A set of naturals with 0, and with each number the next one, has them all.
LEMMA Induction ==
    ASSUME NEW S \in SUBSET Nat, 0 \in S, \A m \in S : m + 1 \in S
    PROVE  S = Nat
<1> SUFFICES ASSUME S # Nat PROVE FALSE
  OBVIOUS
<1>1. PICK m \in Nat \ S : \A k \in Nat \ S : m <= k
  BY LeastElement
<1>2. m # 0 /\ m - 1 \in Nat /\ m - 1 \in S
  BY <1>1
<1> QED
  BY <1>1, <1>2

\* A function defined from the one before: it exists, and its values are in the set that
\* the step stays in.
Recurs(f, n, b, step) == \A i \in 0 .. n : f[i] = IF i = 0 THEN b ELSE step[<<i, f[i - 1]>>]

\* Such a function exists for every first value and every step.
LEMMA Recursion ==
    ASSUME NEW X, NEW b \in X, NEW step \in [Nat \X X -> X], NEW n \in Nat
    PROVE  \E f \in [0 .. n -> X] : Recurs(f, n, b, step)
<1> DEFINE Is(f, k) == \A i \in 0 .. k : f[i] = IF i = 0 THEN b ELSE step[<<i, f[i - 1]>>]
           S == {k \in Nat : \E f \in [0 .. k -> X] : Is(f, k)}
<1>1. 0 \in S
  <2> DEFINE f == [i \in 0 .. 0 |-> b]
  <2>1. f \in [0 .. 0 -> X] /\ Is(f, 0)
    OBVIOUS
  <2> QED
    BY <2>1
<1>2. ASSUME NEW k \in S PROVE k + 1 \in S
  <2>1. PICK f \in [0 .. k -> X] : Is(f, k)
    OBVIOUS
  <2> DEFINE x == step[<<k + 1, f[k]>>]
             g == [i \in 0 .. k + 1 |-> IF i <= k THEN f[i] ELSE x]
  <2>2. k \in Nat /\ f[k] \in X /\ x \in X
    BY <2>1
  <2> HIDE DEF x
  <2>3. g \in [0 .. k + 1 -> X]
    BY <2>1, <2>2
  <2>4. ASSUME NEW i \in 0 .. k + 1 PROVE g[i] = IF i = 0 THEN b ELSE step[<<i, g[i - 1]>>]
    <3>1. CASE i <= k
      <4>1. i \in 0 .. k /\ g[i] = f[i] /\ (i # 0 => g[i - 1] = f[i - 1])
        BY <2>2, <3>1
      <4> HIDE DEF g
      <4> QED
        BY <2>1, <4>1
    <3>2. CASE i = k + 1
      <4>1. i # 0 /\ g[i] = x /\ g[i - 1] = f[k]
        BY <2>2, <3>2
      <4> HIDE DEF g
      <4> QED
        BY <3>2, <4>1 DEF x
    <3> QED
      BY <2>2, <3>1, <3>2
  <2> HIDE DEF g
  <2>5. Is(g, k + 1)
    BY <2>4
  <2> QED
    BY <2>2, <2>3, <2>5
<1> HIDE DEF S
<1>3. S = Nat
  <2>1. S \subseteq Nat
    BY DEF S
  <2> QED
    BY <1>1, <1>2, <2>1, Induction
<1>4. PICK f \in [0 .. n -> X] : Is(f, n)
  BY <1>3 DEF S
<1> QED
  BY <1>4 DEF Recurs

\* A sequence is its last element after the others.
LEMMA AllButLast ==
    ASSUME NEW X, NEW s \in Seq(X), NEW m \in Nat, Len(s) = m + 1
    PROVE  /\ SubSeq(s, 1, m) \in Seq(X) /\ Len(SubSeq(s, 1, m)) = m
           /\ s[m + 1] \in X /\ s = Append(SubSeq(s, 1, m), s[m + 1])
  OBVIOUS

\* A set of sequences with the empty one, and with each sequence the longer ones, has
\* them all.
LEMMA SequenceInduction ==
    ASSUME NEW X, NEW T \in SUBSET Seq(X), <<>> \in T,
           \A s \in T, x \in X : Append(s, x) \in T
    PROVE  T = Seq(X)
<1> DEFINE S == {m \in Nat : \A s \in Seq(X) : Len(s) = m => s \in T}
<1>1. 0 \in S
  BY EmptySeq
<1>2. ASSUME NEW m \in S PROVE m + 1 \in S
  <2>1. m \in Nat /\ \A s \in Seq(X) : Len(s) = m => s \in T
    OBVIOUS
  <2>2. ASSUME NEW s \in Seq(X), Len(s) = m + 1 PROVE s \in T
    <3> DEFINE a == SubSeq(s, 1, m)
    <3>1. a \in Seq(X) /\ Len(a) = m /\ s[m + 1] \in X /\ s = Append(a, s[m + 1])
      BY <2>1, <2>2, AllButLast
    <3> HIDE DEF a
    <3>2. a \in T
      BY <2>1, <3>1
    <3> QED
      BY <3>1, <3>2
  <2> QED
    BY <2>1, <2>2
<1> HIDE DEF S
<1>3. S = Nat
  BY <1>1, <1>2, Induction DEF S
<1>4. ASSUME NEW s \in Seq(X) PROVE s \in T
  <2>1. Len(s) \in S
    BY <1>3
  <2> QED
    BY <2>1 DEF S
<1> QED
  BY <1>4

--------------------------------------------------------------------------------
(* FlattenSeq.                                                              *)

\* The function that FlattenSeq chooses: the first i sequences, one after the other.
Flattens(f, s, m) == f = [i \in 1 .. m |-> IF i = 1 THEN s[i] ELSE f[i - 1] \o s[i]]

\* Its values.
LEMMA FlattensIs ==
    ASSUME NEW f, NEW s, NEW m \in Nat, Flattens(f, s, m)
    PROVE  \A i \in 1 .. m : f[i] = IF i = 1 THEN s[i] ELSE f[i - 1] \o s[i]
<1> DEFINE body(i) == IF i = 1 THEN s[i] ELSE f[i - 1] \o s[i]
<1>1. f = [i \in 1 .. m |-> body(i)]
  BY DEF Flattens
<1> HIDE DEF body
<1>2. \A i \in 1 .. m : f[i] = body(i)
  BY <1>1
<1> QED
  BY <1>2 DEF body

\* One more sequence.
LEMMA FlattensNext ==
    ASSUME NEW s, NEW m \in Nat, NEW f, Flattens(f, s, m)
    PROVE  \E g : Flattens(g, s, m + 1)
<1> DEFINE g == [i \in 1 .. m + 1 |->
                    IF i <= m THEN f[i] ELSE IF i = 1 THEN s[1] ELSE f[m] \o s[i]]
<1>1. ASSUME NEW i \in 1 .. m + 1
      PROVE  g[i] = IF i = 1 THEN s[i] ELSE g[i - 1] \o s[i]
  <2>1. CASE i <= m
    <3>1. i \in 1 .. m /\ g[i] = f[i]
      BY <2>1
    <3>2. f[i] = IF i = 1 THEN s[i] ELSE f[i - 1] \o s[i]
      BY <3>1, FlattensIs
    <3>3. i # 1 => g[i - 1] = f[i - 1]
      BY <3>1
    <3> QED
      BY <3>1, <3>2, <3>3
  <2>2. CASE i = m + 1
    <3>1. i # 1 => g[i - 1] = f[m]
      BY <2>2
    <3>2. g[i] = IF i = 1 THEN s[1] ELSE f[m] \o s[i]
      BY <2>2
    <3> QED
      BY <3>1, <3>2
  <2> QED
    BY <2>1, <2>2
<1>2. g = [i \in 1 .. m + 1 |-> g[i]]
  OBVIOUS
<1> HIDE DEF g
<1>3. g = [i \in 1 .. m + 1 |-> IF i = 1 THEN s[i] ELSE g[i - 1] \o s[i]]
  BY <1>1, <1>2
<1> QED
  BY <1>3 DEF Flattens

\* There is such a function for any number of sequences.
LEMMA FlattensExists ==
    ASSUME NEW s, NEW m \in Nat
    PROVE  \E f : Flattens(f, s, m)
<1> DEFINE S == {k \in Nat : \E f : Flattens(f, s, k)}
<1>1. 0 \in S
  <2>1. Flattens([i \in 1 .. 0 |-> 0], s, 0)
    BY DEF Flattens
  <2> QED
    BY <2>1
<1>2. ASSUME NEW k \in S PROVE k + 1 \in S
  <2>1. k \in Nat /\ \E f : Flattens(f, s, k)
    OBVIOUS
  <2>2. \E g : Flattens(g, s, k + 1)
    BY <2>1, FlattensNext
  <2> QED
    BY <2>1, <2>2
<1> HIDE DEF S
<1>3. S = Nat
  BY <1>1, <1>2, Induction DEF S
<1> QED
  BY <1>3 DEF S

\* FlattenSeq is its last value.
LEMMA FlattenIs ==
    ASSUME NEW s, Len(s) \in Nat, Len(s) # 0
    PROVE  \E f : Flattens(f, s, Len(s)) /\ FlattenSeq(s) = f[Len(s)]
<1> DEFINE f == CHOOSE g : Flattens(g, s, Len(s))
<1>1. Flattens(f, s, Len(s))
  BY FlattensExists
<1>2. FlattenSeq(s) = f[Len(s)]
  BY DEF FlattenSeq, Flattens
<1> QED
  BY <1>1, <1>2

\* Two sequences that begin alike flatten alike as far as that.
LEMMA FlattensAlike ==
    ASSUME NEW s, NEW t, NEW j \in Nat, NEW k \in Nat, NEW f, NEW g, j <= k,
           Flattens(f, s, j), Flattens(g, t, k), \A i \in 1 .. j : s[i] = t[i]
    PROVE  \A i \in 1 .. j : f[i] = g[i]
<1> DEFINE S == {m \in Nat : m \in 1 .. j => f[m] = g[m]}
<1>1. 0 \in S
  OBVIOUS
<1>2. ASSUME NEW m \in S PROVE m + 1 \in S
  <2>1. m \in Nat /\ (m \in 1 .. j => f[m] = g[m])
    OBVIOUS
  <2>2. ASSUME m + 1 \in 1 .. j PROVE f[m + 1] = g[m + 1]
    <3>1. m + 1 \in 1 .. k /\ (m + 1) - 1 = m
      BY <2>1, <2>2
    <3>2. f[m + 1] = IF m + 1 = 1 THEN s[m + 1] ELSE f[(m + 1) - 1] \o s[m + 1]
      BY <2>2, FlattensIs
    <3>3. g[m + 1] = IF m + 1 = 1 THEN t[m + 1] ELSE g[(m + 1) - 1] \o t[m + 1]
      BY <3>1, FlattensIs
    <3>4. s[m + 1] = t[m + 1]
      BY <2>2
    <3>5. m + 1 # 1 => m \in 1 .. j
      BY <2>1, <2>2
    <3> QED
      BY <2>1, <3>1, <3>2, <3>3, <3>4, <3>5
  <2> QED
    BY <2>1, <2>2
<1> HIDE DEF S
<1>3. S = Nat
  BY <1>1, <1>2, Induction DEF S
<1> QED
  BY <1>3 DEF S

\* Joining three sequences.
LEMMA Associative == \A X : \A u, v, w \in Seq(X) : (u \o v) \o w = u \o (v \o w)
  BY ConcatAssociative

\* A sequence of one element at the end of another.
LEMMA OneMore ==
    ASSUME NEW X, NEW u \in Seq(X), NEW x \in Seq(X), Len(x) = 1
    PROVE  /\ Len(u \o x) = Len(u) + 1 /\ (u \o x)[Len(u) + 1] = x[1]
           /\ \A i \in 1 .. Len(u) : (u \o x)[i] = u[i]
<1>1. Len(u) \in Nat /\ 1 \in 1 .. Len(x)
  OBVIOUS
<1>2. /\ Len(u \o x) = Len(u) + Len(x)
      /\ \A i \in 1 .. Len(u) + Len(x) :
             (u \o x)[i] = IF i <= Len(u) THEN u[i] ELSE x[i - Len(u)]
  BY ConcatProperties
<1>3. /\ \A i \in 1 .. Len(u) : (u \o x)[i] = u[i]
      /\ (u \o x)[Len(u) + 1] = x[1]
  BY <1>1, <1>2
<1> QED
  BY <1>2, <1>3

\* Of no sequences it makes the empty one.
LEMMA FlattenEmpty == FlattenSeq(<<>>) = <<>>
  BY DEF FlattenSeq

\* What FlattenSeq makes of sequences is a sequence of their elements.
LEMMA FlattenType ==
    ASSUME NEW X, NEW s \in Seq(Seq(X))
    PROVE  FlattenSeq(s) \in Seq(X)
<1>1. CASE s = <<>>
  BY <1>1, FlattenEmpty, EmptySeq
<1>2. CASE s # <<>>
  <2>1. Len(s) \in Nat /\ Len(s) # 0 /\ \A i \in 1 .. Len(s) : s[i] \in Seq(X)
    BY <1>2
  <2>2. PICK f : Flattens(f, s, Len(s)) /\ FlattenSeq(s) = f[Len(s)]
    BY <2>1, FlattenIs
  <2> DEFINE S == {m \in Nat : m \in 1 .. Len(s) => f[m] \in Seq(X)}
  <2>3. 0 \in S
    OBVIOUS
  <2>4. ASSUME NEW m \in S PROVE m + 1 \in S
    <3>1. m \in Nat /\ (m \in 1 .. Len(s) => f[m] \in Seq(X))
      OBVIOUS
    <3>2. ASSUME m + 1 \in 1 .. Len(s) PROVE f[m + 1] \in Seq(X)
      <4>1. f[m + 1] = IF m + 1 = 1 THEN s[m + 1] ELSE f[(m + 1) - 1] \o s[m + 1]
        BY <2>1, <2>2, <3>2, FlattensIs
      <4>2. (m + 1) - 1 = m /\ s[m + 1] \in Seq(X) /\ (m + 1 # 1 => m \in 1 .. Len(s))
        BY <2>1, <3>1, <3>2
      <4>3. CASE m + 1 = 1
        BY <4>1, <4>2, <4>3
      <4>4. CASE m + 1 # 1
        BY <3>1, <4>1, <4>2, <4>4, ConcatProperties
      <4> QED
        BY <4>3, <4>4
    <3> QED
      BY <3>1, <3>2
  <2> HIDE DEF S
  <2>5. S = Nat
    BY <2>3, <2>4, Induction DEF S
  <2>6. Len(s) \in S /\ Len(s) \in 1 .. Len(s)
    BY <2>1, <2>5
  <2> QED
    BY <2>2, <2>6 DEF S
<1> QED
  BY <1>1, <1>2

\* One more sequence at the end.
LEMMA FlattenAppend ==
    ASSUME NEW X, NEW s \in Seq(Seq(X)), NEW x \in Seq(X)
    PROVE  FlattenSeq(Append(s, x)) = FlattenSeq(s) \o x
<1> DEFINE t == Append(s, x)
<1>1. /\ Len(s) \in Nat /\ Len(t) = Len(s) + 1 /\ t[Len(s) + 1] = x
      /\ \A i \in 1 .. Len(s) : t[i] = s[i]
  BY AppendProperties
<1> HIDE DEF t
<1>2. PICK g : Flattens(g, t, Len(t)) /\ FlattenSeq(t) = g[Len(t)]
  BY <1>1, FlattenIs
<1>3. g[Len(t)] = IF Len(t) = 1 THEN x ELSE g[Len(s)] \o x
  <2>1. Len(t) \in 1 .. Len(t) /\ Len(t) \in Nat
    BY <1>1
  <2>2. g[Len(t)] = IF Len(t) = 1 THEN t[Len(t)] ELSE g[Len(t) - 1] \o t[Len(t)]
    BY <1>2, <2>1, FlattensIs
  <2> QED
    BY <1>1, <2>2
<1>4. CASE s = <<>>
  <2>1. FlattenSeq(t) = x
    BY <1>1, <1>2, <1>3, <1>4
  <2>2. FlattenSeq(s) \o x = x
    BY <1>4, FlattenEmpty, ConcatEmptySeq
  <2> QED
    BY <2>1, <2>2 DEF t
<1>5. CASE s # <<>>
  <2>1. Len(s) # 0 /\ Len(t) # 1
    BY <1>1, <1>5
  <2>2. PICK f : Flattens(f, s, Len(s)) /\ FlattenSeq(s) = f[Len(s)]
    BY <1>1, <2>1, FlattenIs
  <2>3. f[Len(s)] = g[Len(s)]
    <3>1. PICK j \in Nat : j = Len(s)
      BY <1>1
    <3>2. PICK k \in Nat : k = Len(t)
      BY <1>1
    <3>3. \A i \in 1 .. j : f[i] = g[i]
      <4>1. j <= k /\ \A i \in 1 .. j : s[i] = t[i]
        BY <1>1, <3>1, <3>2
      <4>2. Flattens(f, s, j)
        BY <2>2, <3>1
      <4>3. Flattens(g, t, k)
        BY <1>2, <3>2
      <4> QED
        BY <4>1, <4>2, <4>3, FlattensAlike, SMT
    <3> QED
      BY <1>1, <2>1, <3>1, <3>3
  <2> QED
    BY <1>2, <1>3, <2>1, <2>2, <2>3 DEF t
<1> QED
  BY <1>4, <1>5

\* FlattenSeq of two sequences one after the other.
LEMMA FlattenConcat ==
    ASSUME NEW X, NEW s \in Seq(Seq(X)), NEW r \in Seq(Seq(X))
    PROVE  FlattenSeq(s \o r) = FlattenSeq(s) \o FlattenSeq(r)
<1> DEFINE T == {b \in Seq(Seq(X)) : FlattenSeq(s \o b) = FlattenSeq(s) \o FlattenSeq(b)}
<1>1. FlattenSeq(s) \in Seq(X)
  BY FlattenType
<1>2. <<>> \in T
  BY <1>1, FlattenEmpty, ConcatEmptySeq
<1> HIDE DEF T
<1>3. ASSUME NEW a \in T, NEW x \in Seq(X) PROVE Append(a, x) \in T
  <2>1. a \in Seq(Seq(X)) /\ FlattenSeq(s \o a) = FlattenSeq(s) \o FlattenSeq(a)
    BY DEF T
  <2>2. /\ s \o Append(a, x) = Append(s \o a, x) /\ s \o a \in Seq(Seq(X))
        /\ Append(a, x) \in Seq(Seq(X)) /\ FlattenSeq(a) \in Seq(X)
    <3>1. FlattenSeq(a) \in Seq(X)
      BY <2>1, FlattenType
    <3>2. s \o Append(a, x) = Append(s \o a, x)
      BY <2>1
    <3>3. s \o a \in Seq(Seq(X)) /\ Append(a, x) \in Seq(Seq(X))
      BY <2>1
    <3> QED
      BY <3>1, <3>2, <3>3
  <2>3. FlattenSeq(Append(s \o a, x)) = FlattenSeq(s \o a) \o x
    BY <2>2, FlattenAppend
  <2>4. FlattenSeq(Append(a, x)) = FlattenSeq(a) \o x
    BY <2>1, FlattenAppend
  <2>5. (FlattenSeq(s) \o FlattenSeq(a)) \o x = FlattenSeq(s) \o (FlattenSeq(a) \o x)
    <3>1. PICK u \in Seq(X), v \in Seq(X) : u = FlattenSeq(s) /\ v = FlattenSeq(a)
      BY <1>1, <2>2
    <3>2. (u \o v) \o x = u \o (v \o x)
      BY ConcatAssociative
    <3> QED
      BY <3>1, <3>2
  <2> QED
    BY <2>1, <2>2, <2>3, <2>4, <2>5 DEF T
<1>4. T = Seq(Seq(X))
  BY <1>2, <1>3, SequenceInduction DEF T
<1> QED
  BY <1>4 DEF T

\* The first sequence, and the others.
LEMMA FlattenHead ==
    ASSUME NEW X, NEW s \in Seq(Seq(X)), s # <<>>
    PROVE  FlattenSeq(s) = Head(s) \o FlattenSeq(Tail(s))
<1>1. /\ Head(s) \in Seq(X) /\ Tail(s) \in Seq(Seq(X)) /\ <<Head(s)>> \in Seq(Seq(X))
      /\ s = <<Head(s)>> \o Tail(s)
  OBVIOUS
<1>2. FlattenSeq(<<Head(s)>>) = Head(s)
  <2>1. <<Head(s)>> = Append(<<>>, Head(s)) /\ <<>> \in Seq(Seq(X))
    BY <1>1
  <2>2. FlattenSeq(<<Head(s)>>) = <<>> \o Head(s)
    BY <1>1, <2>1, FlattenAppend, FlattenEmpty
  <2> QED
    BY <1>1, <2>2, ConcatEmptySeq
<1>3. FlattenSeq(<<Head(s)>> \o Tail(s)) = FlattenSeq(<<Head(s)>>) \o FlattenSeq(Tail(s))
  BY <1>1, FlattenConcat
<1> QED
  BY <1>1, <1>2, <1>3

\* Of sequences with one element each, FlattenSeq is the sequence of these elements.
LEMMA FlattenSingles ==
    ASSUME NEW X, NEW r \in Seq(Seq(X)), \A i \in 1 .. Len(r) : Len(r[i]) = 1
    PROVE  /\ Len(FlattenSeq(r)) = Len(r)
           /\ \A i \in 1 .. Len(r) : FlattenSeq(r)[i] = r[i][1]
<1> DEFINE Single(s) == \A i \in 1 .. Len(s) : Len(s[i]) = 1
           Flat(s)   == /\ Len(FlattenSeq(s)) = Len(s)
                        /\ \A i \in 1 .. Len(s) : FlattenSeq(s)[i] = s[i][1]
           T == {s \in Seq(Seq(X)) : Single(s) => Flat(s)}
<1>1. <<>> \in T
  BY FlattenEmpty
<1>2. ASSUME NEW s \in T, NEW x \in Seq(X) PROVE Append(s, x) \in T
  <2> DEFINE t == Append(s, x)
  <2>1. /\ s \in Seq(Seq(X)) /\ t \in Seq(Seq(X)) /\ Len(t) = Len(s) + 1
        /\ t[Len(s) + 1] = x /\ \A i \in 1 .. Len(s) : t[i] = s[i]
    BY AppendProperties
  <2>2. Len(s) \in Nat /\ FlattenSeq(s) \in Seq(X)
    BY <2>1, FlattenType
  <2>3. FlattenSeq(t) = FlattenSeq(s) \o x
    BY <2>1, FlattenAppend
  <2> HIDE DEF t
  <2>4. ASSUME Single(t) PROVE Flat(t)
    <3>1. Single(s) /\ Len(x) = 1
      <4>1. Len(s) + 1 \in 1 .. Len(t) /\ \A i \in 1 .. Len(s) : i \in 1 .. Len(t)
        BY <2>1, <2>2
      <4> QED
        BY <2>1, <2>4, <4>1
    <3>2. /\ Len(FlattenSeq(s)) = Len(s)
          /\ \A i \in 1 .. Len(s) : FlattenSeq(s)[i] = s[i][1]
      BY <3>1
    <3>3. /\ Len(FlattenSeq(t)) = Len(t) /\ FlattenSeq(t)[Len(t)] = x[1]
          /\ \A i \in 1 .. Len(s) : FlattenSeq(t)[i] = FlattenSeq(s)[i]
      <4>1. PICK u \in Seq(X) : u = FlattenSeq(s)
        BY <2>2
      <4>2. /\ Len(u \o x) = Len(u) + 1 /\ (u \o x)[Len(u) + 1] = x[1]
            /\ \A i \in 1 .. Len(u) : (u \o x)[i] = u[i]
        BY <3>1, OneMore
      <4> QED
        BY <2>1, <2>3, <3>2, <4>1, <4>2
    <3>4. ASSUME NEW i \in 1 .. Len(t) PROVE FlattenSeq(t)[i] = t[i][1]
      <4>1. CASE i \in 1 .. Len(s)
        BY <2>1, <3>2, <3>3, <4>1
      <4>2. CASE i = Len(s) + 1
        BY <2>1, <3>3, <4>2
      <4> QED
        BY <2>1, <2>2, <4>1, <4>2
    <3> QED
      BY <3>3, <3>4
  <2> QED
    BY <2>1, <2>4 DEF t
<1>3. T = Seq(Seq(X))
  <2> HIDE DEF T
  <2> QED
    BY <1>1, <1>2, SequenceInduction DEF T
<1> QED
  BY <1>3

--------------------------------------------------------------------------------
(* Equal sequences, and how often a value occurs.                           *)

LEMMA SameSequence ==
    ASSUME NEW X, NEW s \in Seq(X), NEW t \in Seq(X), Len(s) = Len(t),
           \A i \in 1 .. Len(s) : s[i] = t[i]
    PROVE  s = t
  OBVIOUS

\* The places of a value in a sequence.
PlacesOf(p, s) == {i \in DOMAIN s : s[i] = p}

\* They are finitely many.
LEMMA PlacesFinite ==
    ASSUME NEW X, NEW s \in Seq(X), NEW p
    PROVE  IsFiniteSet(PlacesOf(p, s)) /\ Cardinality(PlacesOf(p, s)) \in Nat
<1>1. PlacesOf(p, s) \subseteq 1 .. Len(s)
  BY DEF PlacesOf
<1>2. IsFiniteSet(1 .. Len(s))
  BY FS_Interval
<1> QED
  BY <1>1, <1>2, FS_Subset, FS_CardinalityType

\* A value occurs in two sequences one after the other as often as in either.
LEMMA PlacesConcat ==
    ASSUME NEW X, NEW s \in Seq(X), NEW t \in Seq(X), NEW p
    PROVE  Cardinality(PlacesOf(p, s \o t)) = Cardinality(PlacesOf(p, s)) + Cardinality(PlacesOf(p, t))
<1> DEFINE A == PlacesOf(p, s)
           C == PlacesOf(p, t)
           f == [i \in C |-> Len(s) + i]
           B == {f[i] : i \in C}
<1>1. /\ Len(s) \in Nat /\ Len(t) \in Nat /\ DOMAIN s = 1 .. Len(s) /\ DOMAIN t = 1 .. Len(t)
      /\ DOMAIN (s \o t) = 1 .. Len(s) + Len(t)
      /\ \A i \in 1 .. Len(s) : (s \o t)[i] = s[i]
      /\ \A i \in 1 .. Len(t) : (s \o t)[Len(s) + i] = t[i]
  BY ConcatProperties
<1>2. PlacesOf(p, s \o t) = A \cup B
  <2>1. ASSUME NEW j \in PlacesOf(p, s \o t) PROVE j \in A \cup B
    <3>1. j \in 1 .. Len(s) + Len(t) /\ (s \o t)[j] = p
      BY <1>1 DEF PlacesOf
    <3>2. CASE j <= Len(s)
      <4>1. j \in 1 .. Len(s) /\ s[j] = p
        BY <1>1, <3>1, <3>2
      <4> QED
        BY <1>1, <4>1 DEF PlacesOf
    <3>3. CASE j > Len(s)
      <4>1. PICK i \in 1 .. Len(t) : j = Len(s) + i
        <5>1. j - Len(s) \in 1 .. Len(t) /\ j = Len(s) + (j - Len(s))
          BY <1>1, <3>1, <3>3
        <5> QED
          BY <5>1
      <4>2. i \in C
        BY <1>1, <3>1, <4>1 DEF PlacesOf
      <4> QED
        BY <4>1, <4>2
    <3> QED
      BY <1>1, <3>1, <3>2, <3>3
  <2>2. ASSUME NEW j \in A PROVE j \in PlacesOf(p, s \o t)
    BY <1>1 DEF PlacesOf
  <2>3. ASSUME NEW i \in C PROVE f[i] \in PlacesOf(p, s \o t)
    BY <1>1 DEF PlacesOf
  <2> QED
    BY <2>1, <2>2, <2>3
<1>3. /\ IsFiniteSet(A) /\ IsFiniteSet(C) /\ Cardinality(A) \in Nat /\ Cardinality(C) \in Nat
  BY PlacesFinite
<1>4. IsFiniteSet(B) /\ Cardinality(B) = Cardinality(C)
  <2>1. C \subseteq Nat
    BY <1>1 DEF PlacesOf
  <2>2. f \in [C -> B] /\ \A i, j \in C : f[i] = f[j] => i = j
    BY <1>1, <2>1
  <2>3. \A k \in B : \E i \in C : f[i] = k
    OBVIOUS
  <2> HIDE DEF f, B, C
  <2>4. f \in Bijection(C, B)
    BY <2>2, <2>3 DEF Bijection, Injection, Surjection, IsInjective
  <2>5. ExistsBijection(C, B)
    BY <2>4 DEF ExistsBijection
  <2> QED
    BY <1>3, <2>5, FS_Bijection
<1>5. A \cap B = {}
  <2>1. \A i \in C : f[i] > Len(s)
    BY <1>1 DEF PlacesOf
  <2>2. \A i \in A : i <= Len(s)
    BY <1>1 DEF PlacesOf
  <2>3. A \subseteq Nat
    BY <1>1 DEF PlacesOf
  <2> QED
    BY <1>1, <2>1, <2>2, <2>3
<1> HIDE DEF A, B, C, f
<1>6. Cardinality(A \cup B) = Cardinality(A) + Cardinality(B) - Cardinality(A \cap B)
  BY <1>3, <1>4, FS_Union
<1>7. Cardinality(A \cap B) = 0
  BY <1>5, FS_EmptySet
<1> QED
  BY <1>2, <1>3, <1>4, <1>6, <1>7 DEF A, C
===============================================================================
