----------------------------- MODULE EchoProofs -----------------------------
(***************************************************************************)
(* TLAPS proofs about Echo, Splitting and CQCode, for every text, message, *)
(* configuration and limit.                                                *)
(*                                                                         *)
(* A loop of the code is a recursive function of the rounds.  That it      *)
(* exists, and what holds after each round, is shown by induction (lemma   *)
(* Induction): the lemmas named ...Is turn a loop into its equations, and  *)
(* those named ...Keeps, ...Says and ...Reads do a round of it.            *)
(*                                                                         *)
(* First the sequences, then the bot's splitter, the robot's splitter,     *)
(* what is read, what is written, the steps of Echo, and what escaping     *)
(* does to a text.                                                         *)
(***************************************************************************)
EXTENDS Echo, FiniteSetTheorems, SequenceTheorems, TLAPS

(* Induction over the naturals, from the pigeonhole: were n the first to be  *)
(* left out, m |-> m + 1 would map what is below it into itself without 0.   *)
LEMMA Induction ==
    ASSUME NEW S, 0 \in S, \A n \in Nat : n \in S => n + 1 \in S
    PROVE  Nat \subseteq S
<1>1. SUFFICES ASSUME NEW n \in Nat, n \notin S PROVE FALSE
  OBVIOUS
<1> DEFINE A == {m \in 0..n : m \in S}
           B == A \ {0}
           next == [m \in A |-> m + 1]
<1>2. IsFiniteSet(A) /\ IsFiniteSet(B) /\ Cardinality(B) = Cardinality(A) - 1 /\ Cardinality(A) \in Nat
  <2>1. IsFiniteSet(A)
    <3>1. A \in SUBSET Nat /\ \A m \in A : m <= n
      OBVIOUS
    <3>2. QED
      BY <3>1, FS_BoundedSetOfNaturals
  <2>2. 0 \in A
    OBVIOUS
  <2> HIDE DEF A
  <2>3. QED
    BY <2>1, <2>2, FS_RemoveElement, FS_CardinalityType
<1>3. next \in [A -> B]
  <2>1. ASSUME NEW m \in A PROVE m + 1 \in B
    BY <1>1
  <2>2. QED
    BY <2>1
<1>4. \A x, y \in A : next[x] = next[y] => x = y
  OBVIOUS
<1> HIDE DEF A, B, next
<1>5. Cardinality(B) < Cardinality(A)
  BY <1>2
<1>6. QED
  BY <1>2, <1>3, <1>4, <1>5, FS_PigeonHole

----------------------------------------------------------------------------
(* Sequences. *)

\* An element of some Seq(S) is a sequence: its domain is 1..Len(s).
LEMMA SeqIsSeq ==
    ASSUME NEW S, NEW s \in Seq(S)
    PROVE  IsSeq(s) /\ Len(s) \in Nat /\ DOMAIN s = 1..Len(s)
<1>1. Len(s) \in Nat /\ DOMAIN s = 1..Len(s) /\ s \in [1..Len(s) -> S]
  OBVIOUS
<1>2. s \in [1..Len(s) -> {s[i] : i \in DOMAIN s}]
  BY <1>1
<1>3. QED
  BY <1>1, <1>2 DEF IsSeq

\* What is known of a sequence whose elements have no type.
LEMMA IsSeqLen ==
    ASSUME NEW s, IsSeq(s)
    PROVE  Len(s) \in Nat /\ DOMAIN s = 1..Len(s) /\ s = [i \in 1..Len(s) |-> s[i]]
BY DEF IsSeq

\* A function on 1..n is a sequence of length n.
LEMMA FunIsSeq ==
    ASSUME NEW n \in Nat, NEW s, s = [i \in 1..n |-> s[i]]
    PROVE  IsSeq(s) /\ Len(s) = n /\ DOMAIN s = 1..n
<1>1. DOMAIN s = 1..n
  OBVIOUS
<1>2. s \in [1..n -> {s[i] : i \in DOMAIN s}]
  BY <1>1
<1>3. s \in Seq({s[i] : i \in DOMAIN s})
  BY <1>2
<1>4. Len(s) = n
  BY <1>1, <1>3
<1>5. QED
  BY <1>1, <1>3, <1>4 DEF IsSeq

\* A sequence is in Seq(S) when its elements are in S.
LEMMA IsSeqIn ==
    ASSUME NEW s, IsSeq(s), NEW S, \A i \in 1..Len(s) : s[i] \in S
    PROVE  s \in Seq(S)
BY DEF IsSeq

\* The empty sequence.
LEMMA EmptyIsSeq == IsSeq(<<>>) /\ Len(<<>>) = 0 /\ DOMAIN <<>> = 1..0
<1>1. <<>> \in Seq({})
  OBVIOUS
<1>2. QED
  BY <1>1, SeqIsSeq

\* A sequence of one element.
LEMMA OneIsSeq ==
    ASSUME NEW a
    PROVE  IsSeq(<<a>>) /\ Len(<<a>>) = 1 /\ <<a>>[1] = a /\ DOMAIN <<a>> = 1..1
<1>1. <<a>> \in Seq({a}) /\ Len(<<a>>) = 1 /\ <<a>>[1] = a
  OBVIOUS
<1>2. QED
  BY <1>1, SeqIsSeq

\* A sequence of two.
LEMMA TwoIsSeq ==
    ASSUME NEW a, NEW b
    PROVE  IsSeq(<<a, b>>) /\ Len(<<a, b>>) = 2 /\ <<a, b>>[1] = a /\ <<a, b>>[2] = b
<1>1. <<a, b>> \in Seq({a, b}) /\ Len(<<a, b>>) = 2 /\ <<a, b>>[1] = a /\ <<a, b>>[2] = b
  OBVIOUS
<1>2. QED
  BY <1>1, SeqIsSeq

\* A sequence of three.
LEMMA ThreeIsSeq ==
    ASSUME NEW a, NEW b, NEW c
    PROVE  IsSeq(<<a, b, c>>)
<1>1. <<a, b, c>> \in Seq({a, b, c})
  OBVIOUS
<1>2. QED
  BY <1>1, SeqIsSeq

\* Length and elements of a concatenation.
LEMMA ConcatIsSeq ==
    ASSUME NEW s, NEW t, IsSeq(s), IsSeq(t)
    PROVE  /\ IsSeq(s \o t) /\ Len(s \o t) = Len(s) + Len(t)
           /\ \A i \in 1..Len(s) : (s \o t)[i] = s[i]
           /\ \A i \in 1..Len(t) : (s \o t)[Len(s) + i] = t[i]
<1> DEFINE S == {s[i] : i \in DOMAIN s} \cup {t[i] : i \in DOMAIN t}
<1>1. s \in Seq(S) /\ t \in Seq(S)
  BY IsSeqLen, IsSeqIn
<1> HIDE DEF S
<1>2. s \o t \in Seq(S) /\ Len(s \o t) = Len(s) + Len(t)
      /\ \A i \in 1..Len(s) + Len(t) : (s \o t)[i] = IF i <= Len(s) THEN s[i] ELSE t[i - Len(s)]
  BY <1>1
<1>3. Len(s) \in Nat /\ Len(t) \in Nat
  BY <1>1
<1>4. \A i \in 1..Len(t) : Len(s) + i \in 1..Len(s) + Len(t) /\ ~(Len(s) + i <= Len(s)) /\ Len(s) + i - Len(s) = i
  BY <1>3
<1>5. \A i \in 1..Len(t) : (s \o t)[Len(s) + i] = t[i]
  BY <1>2, <1>4
<1>6. \A i \in 1..Len(s) : (s \o t)[i] = s[i]
  BY <1>2, <1>3
<1>7. IsSeq(s \o t)
  BY <1>2, SeqIsSeq
<1>8. QED
  BY <1>2, <1>5, <1>6, <1>7

\* To append an element is to concatenate a sequence of one.
LEMMA AppendIsSeq ==
    ASSUME NEW s, IsSeq(s), NEW a
    PROVE  /\ IsSeq(Append(s, a)) /\ Len(Append(s, a)) = Len(s) + 1
           /\ \A i \in 1..Len(s) : Append(s, a)[i] = s[i]
           /\ Append(s, a)[Len(s) + 1] = a
           /\ Append(s, a) = s \o <<a>>
<1> DEFINE S == {s[i] : i \in DOMAIN s} \cup {a}
<1>1. s \in Seq(S) /\ a \in S
  BY IsSeqLen, IsSeqIn
<1> HIDE DEF S
<1>2. Append(s, a) \in Seq(S) /\ Len(Append(s, a)) = Len(s) + 1
      /\ Append(s, a)[Len(s) + 1] = a /\ (\A i \in 1..Len(s) : Append(s, a)[i] = s[i])
      /\ Append(s, a) = s \o <<a>>
  BY <1>1
<1>3. QED
  BY <1>2, SeqIsSeq

\* Sequences of one length with the same elements are equal.
LEMMA SeqEq ==
    ASSUME NEW s, NEW t, IsSeq(s), IsSeq(t), Len(s) = Len(t), \A i \in 1..Len(s) : s[i] = t[i]
    PROVE  s = t
BY IsSeqLen

\* A sequence of length one is written <<a>>.
LEMMA IsOne ==
    ASSUME NEW s, IsSeq(s), Len(s) = 1, NEW a, s[1] = a
    PROVE  s = <<a>>
<1> DEFINE u == <<a>>
<1>1. IsSeq(u) /\ Len(u) = 1 /\ u[1] = a
  BY OneIsSeq
<1> HIDE DEF u
<1>2. \A i \in 1..1 : s[i] = u[i]
  BY <1>1
<1>3. s = u
  BY <1>1, <1>2, SeqEq
<1>4. QED
  BY <1>3 DEF u

\* A sequence of length two is written <<a, b>>.
LEMMA IsTwo ==
    ASSUME NEW s, IsSeq(s), Len(s) = 2, NEW a, NEW b, s[1] = a, s[2] = b
    PROVE  s = <<a, b>>
<1> DEFINE u == <<a, b>>
<1>1. IsSeq(u) /\ Len(u) = 2 /\ u[1] = a /\ u[2] = b
  BY TwoIsSeq
<1> HIDE DEF u
<1>2. \A i \in 1..2 : s[i] = u[i]
  BY <1>1
<1>3. s = u
  BY <1>1, <1>2, SeqEq
<1>4. QED
  BY <1>3 DEF u

\* The empty sequence is neutral.
LEMMA ConcatEmpty ==
    ASSUME NEW s, IsSeq(s)
    PROVE  s \o <<>> = s /\ <<>> \o s = s
<1>1. s \in Seq({s[i] : i \in DOMAIN s})
  BY DEF IsSeq
<1>2. QED
  BY <1>1

\* Concatenation is associative.
LEMMA ConcatAssoc ==
    ASSUME NEW s, NEW t, NEW u, IsSeq(s), IsSeq(t), IsSeq(u)
    PROVE  (s \o t) \o u = s \o (t \o u)
<1> DEFINE S == {s[i] : i \in DOMAIN s} \cup {t[i] : i \in DOMAIN t} \cup {u[i] : i \in DOMAIN u}
<1>1. s \in Seq(S) /\ t \in Seq(S) /\ u \in Seq(S)
  BY IsSeqLen, IsSeqIn
<1> HIDE DEF S
<1>2. QED
  BY <1>1, ConcatAssociative

\* The beginnings of a sequence grow by one.
LEMMA Beginning ==
    ASSUME NEW s, IsSeq(s), NEW i \in 0..Len(s)
    PROVE  /\ IsSeq(SubSeq(s, 1, i)) /\ Len(SubSeq(s, 1, i)) = i
           /\ \A k \in 1..i : SubSeq(s, 1, i)[k] = s[k]
<1> DEFINE S == {s[k] : k \in DOMAIN s}
<1>1. s \in Seq(S)
  BY DEF IsSeq
<1> HIDE DEF S
<1>2. SubSeq(s, 1, i) \in Seq(S) /\ Len(SubSeq(s, 1, i)) = i /\ \A k \in 1..i : SubSeq(s, 1, i)[k] = s[k]
  BY <1>1
<1>3. QED
  BY <1>2, SeqIsSeq

\* The first i elements are the first i - 1 and one more.
LEMMA BeginningGrows ==
    ASSUME NEW s, IsSeq(s), NEW i \in 1..Len(s)
    PROVE  SubSeq(s, 1, i) = Append(SubSeq(s, 1, i - 1), s[i])
<1>0. Len(s) \in Nat /\ i \in 0..Len(s) /\ i - 1 \in 0..Len(s) /\ i - 1 + 1 = i
  BY IsSeqLen
<1> DEFINE t == SubSeq(s, 1, i)
           u == SubSeq(s, 1, i - 1)
           v == Append(u, s[i])
<1>1. IsSeq(t) /\ Len(t) = i /\ \A k \in 1..i : t[k] = s[k]
  BY <1>0, Beginning
<1>2. IsSeq(u) /\ Len(u) = i - 1 /\ \A k \in 1..(i - 1) : u[k] = s[k]
  BY <1>0, Beginning
<1>3. IsSeq(v) /\ Len(v) = Len(u) + 1 /\ (\A k \in 1..Len(u) : v[k] = u[k]) /\ v[Len(u) + 1] = s[i]
  BY <1>2, AppendIsSeq
<1> HIDE DEF t, u, v
<1>4. \A k \in 1..i : t[k] = v[k]
  BY <1>0, <1>1, <1>2, <1>3
<1>5. t = v
  BY <1>0, <1>1, <1>2, <1>3, <1>4, SeqEq
<1>6. QED
  BY <1>5 DEF t, v, u

\* The longest beginning is the sequence, the shortest is empty.
LEMMA WholeBeginning ==
    ASSUME NEW s, IsSeq(s)
    PROVE  SubSeq(s, 1, Len(s)) = s /\ SubSeq(s, 1, 0) = <<>>
<1>1. s \in Seq({s[k] : k \in DOMAIN s})
  BY DEF IsSeq
<1>2. QED
  BY <1>1

----------------------------------------------------------------------------
(* FlattenSeq, a function that is defined by recursion.  That there is one   *)
(* is shown by induction, as for every such function below.                  *)

Flattens(ss, f) == f = [i \in 1..Len(ss) |-> IF i = 1 THEN ss[i] ELSE f[i - 1] \o ss[i]]
Flattening(ss) == CHOOSE f : Flattens(ss, f)

\* The recursive function inside FlattenSeq exists, by induction.
LEMMA FlattensExists ==
    ASSUME NEW ss, Len(ss) \in Nat
    PROVE  \E f : Flattens(ss, f)
<1> DEFINE G(n, f) == f = [i \in 1..n |-> IF i = 1 THEN ss[i] ELSE f[i - 1] \o ss[i]]
           S == {n \in Nat : \E f : G(n, f)}
<1>1. 0 \in S
  <2>1. G(0, [i \in 1..0 |-> 0])
    OBVIOUS
  <2>2. QED
    BY <2>1
<1>2. ASSUME NEW n \in Nat, n \in S PROVE n + 1 \in S
  <2>1. PICK f : G(n, f)
    BY <1>2
  <2> DEFINE g == [i \in 1..(n + 1) |->
                     IF i <= n THEN f[i] ELSE IF i = 1 THEN ss[i] ELSE f[i - 1] \o ss[i]]
  <2>2. \A i \in 1..n : f[i] = IF i = 1 THEN ss[i] ELSE f[i - 1] \o ss[i]
    BY <2>1
  <2>3. \A i \in 1..n : g[i] = f[i]
    OBVIOUS
  <2>4. ASSUME NEW i \in 1..(n + 1) PROVE g[i] = IF i = 1 THEN ss[i] ELSE g[i - 1] \o ss[i]
    <3>1. i # 1 => i - 1 \in 1..n /\ g[i - 1] = f[i - 1]
      BY <2>3
    <3>2. g[i] = IF i = 1 THEN ss[i] ELSE f[i - 1] \o ss[i]
      BY <2>2
    <3> HIDE DEF g
    <3>3. QED
      BY <3>1, <3>2
  <2>5. G(n + 1, g)
    BY <2>4
  <2> HIDE DEF G
  <2>6. QED
    BY <2>5
<1>3. Len(ss) \in S
  <2> HIDE DEF S
  <2>1. QED
    BY <1>1, <1>2, Induction
<1>4. QED
  BY <1>3 DEF Flattens

\* FlattenSeq is the last value of that function.
LEMMA FlattenIs ==
    ASSUME NEW ss, IsSeq(ss)
    PROVE  /\ Flattens(ss, Flattening(ss))
           /\ FlattenSeq(ss) = IF Len(ss) = 0 THEN <<>> ELSE Flattening(ss)[Len(ss)]
<1>1. Len(ss) \in Nat
  BY IsSeqLen
<1>2. Flattens(ss, Flattening(ss))
  BY <1>1, FlattensExists DEF Flattening
<1>3. CASE Len(ss) = 0
  <2>1. ss = <<>>
    BY <1>3, SeqEq, EmptyIsSeq
  <2>2. QED
    BY <1>2, <1>3, <2>1 DEF FlattenSeq
<1>4. CASE Len(ss) # 0
  <2>1. FlattenSeq(ss) = Flattening(ss)[Len(ss)]
    BY <1>4 DEF FlattenSeq, Flattening, Flattens
  <2>2. QED
    BY <1>2, <1>4, <2>1
<1>5. QED
  BY <1>3, <1>4

AreSeqs(ss) == IsSeq(ss) /\ \A i \in 1..Len(ss) : IsSeq(ss[i])

\* Flattening sequences gives a sequence.
LEMMA FlattenIsSeq ==
    ASSUME NEW ss, AreSeqs(ss)
    PROVE  IsSeq(FlattenSeq(ss))
<1> DEFINE F == Flattening(ss)
           S == {i \in Nat : i \in 1..Len(ss) => IsSeq(F[i])}
<1>1. Len(ss) \in Nat /\ \A i \in 1..Len(ss) : F[i] = IF i = 1 THEN ss[i] ELSE F[i - 1] \o ss[i]
  BY FlattenIs, IsSeqLen DEF Flattens, AreSeqs
<1> HIDE DEF F
<1>2. 0 \in S
  OBVIOUS
<1>3. ASSUME NEW i \in Nat, i \in S PROVE i + 1 \in S
  <2>1. SUFFICES ASSUME i + 1 \in 1..Len(ss) PROVE IsSeq(F[i + 1])
    OBVIOUS
  <2>2. IsSeq(ss[i + 1])
    BY <2>1 DEF AreSeqs
  <2>3. CASE i = 0
    BY <1>1, <2>1, <2>2, <2>3
  <2>4. CASE i # 0
    <3>1. i \in 1..Len(ss) /\ i + 1 # 1 /\ i + 1 - 1 = i
      BY <1>1, <2>1, <2>4
    <3>2. F[i + 1] = IF i + 1 = 1 THEN ss[i + 1] ELSE F[i + 1 - 1] \o ss[i + 1]
      BY <1>1, <2>1
    <3>3. F[i + 1] = F[i] \o ss[i + 1]
      BY <3>1, <3>2
    <3>4. IsSeq(F[i])
      BY <1>3, <3>1
    <3>5. QED
      BY <2>2, <3>3, <3>4, ConcatIsSeq
  <2>5. QED
    BY <2>3, <2>4
<1>4. Nat \subseteq S
  <2> HIDE DEF S
  <2>1. QED
    BY <1>2, <1>3, Induction
<1>5. CASE Len(ss) = 0
  BY <1>5, FlattenIs, EmptyIsSeq DEF AreSeqs
<1>6. CASE Len(ss) # 0
  <2>1. IsSeq(F[Len(ss)])
    BY <1>1, <1>4, <1>6
  <2>2. QED
    BY <1>6, <2>1, FlattenIs DEF AreSeqs, F
<1>7. QED
  BY <1>5, <1>6

\* A sequence that is appended comes last in the flattening.
LEMMA FlattenAppend ==
    ASSUME NEW ss, AreSeqs(ss), NEW t, IsSeq(t)
    PROVE  AreSeqs(Append(ss, t)) /\ FlattenSeq(Append(ss, t)) = FlattenSeq(ss) \o t
<1> DEFINE tt == Append(ss, t)
           F == Flattening(ss)
           G == Flattening(tt)
           n == Len(ss)
<1>1. /\ IsSeq(ss) /\ n \in Nat /\ IsSeq(tt) /\ Len(tt) = n + 1
      /\ tt[n + 1] = t /\ \A i \in 1..n : tt[i] = ss[i]
  BY AppendIsSeq, IsSeqLen DEF AreSeqs
<1>2. AreSeqs(tt)
  BY <1>1 DEF AreSeqs
<1> HIDE DEF tt
<1>3. /\ \A i \in 1..n : F[i] = IF i = 1 THEN ss[i] ELSE F[i - 1] \o ss[i]
      /\ \A i \in 1..(n + 1) : G[i] = IF i = 1 THEN tt[i] ELSE G[i - 1] \o tt[i]
      /\ FlattenSeq(tt) = G[n + 1]
      /\ FlattenSeq(ss) = IF n = 0 THEN <<>> ELSE F[n]
  <2>0. Flattens(ss, F) /\ Flattens(tt, G)
    BY <1>1, FlattenIs
  <2>1. \A i \in 1..n : F[i] = IF i = 1 THEN ss[i] ELSE F[i - 1] \o ss[i]
    <3> HIDE DEF F
    <3>1. QED
      BY <2>0 DEF Flattens
  <2>2. \A i \in 1..(n + 1) : G[i] = IF i = 1 THEN tt[i] ELSE G[i - 1] \o tt[i]
    <3> HIDE DEF G
    <3>1. QED
      BY <1>1, <2>0 DEF Flattens
  <2>3. FlattenSeq(tt) = IF Len(tt) = 0 THEN <<>> ELSE G[Len(tt)]
    BY <1>1, FlattenIs
  <2>4. FlattenSeq(ss) = IF n = 0 THEN <<>> ELSE F[n]
    BY <1>1, FlattenIs
  <2> HIDE DEF F, G, n
  <2>5. FlattenSeq(tt) = G[n + 1]
    BY <1>1, <2>3
  <2>6. QED
    BY <2>1, <2>2, <2>4, <2>5
<1> HIDE DEF F, G, n
<1> DEFINE S == {i \in Nat : i \in 1..n => G[i] = F[i]}
<1>4. 0 \in S
  OBVIOUS
<1>5. ASSUME NEW i \in Nat, i \in S PROVE i + 1 \in S
  <2>1. SUFFICES ASSUME i + 1 \in 1..n PROVE G[i + 1] = F[i + 1]
    OBVIOUS
  <2>2. tt[i + 1] = ss[i + 1] /\ i + 1 \in 1..(n + 1) /\ i + 1 - 1 = i /\ (i # 0 => i \in 1..n /\ i + 1 # 1)
    BY <1>1, <2>1
  <2>3. F[i + 1] = IF i + 1 = 1 THEN ss[i + 1] ELSE F[i] \o ss[i + 1]
    BY <1>3, <2>1, <2>2
  <2>4. G[i + 1] = IF i + 1 = 1 THEN ss[i + 1] ELSE G[i] \o ss[i + 1]
    BY <1>3, <2>2
  <2>5. QED
    BY <1>5, <2>2, <2>3, <2>4
<1>6. Nat \subseteq S
  <2> HIDE DEF S
  <2>1. QED
    BY <1>4, <1>5, Induction
<1>7. CASE n = 0
  <2>1. FlattenSeq(tt) = t /\ FlattenSeq(ss) = <<>>
    BY <1>1, <1>3, <1>7
  <2>2. QED
    BY <1>2, <2>1, ConcatEmpty DEF tt
<1>8. CASE n # 0
  <2>1. n \in 1..n /\ n + 1 \in 1..(n + 1) /\ n + 1 # 1 /\ n + 1 - 1 = n
    BY <1>1, <1>8
  <2>2. G[n] = F[n]
    BY <1>6, <2>1
  <2>3. ASSUME NEW m, m = n + 1 PROVE G[m] = F[n] \o t
    <3>1. m \in 1..(n + 1) /\ m # 1 /\ m - 1 = n /\ tt[m] = t
      BY <1>1, <1>8, <2>3
    <3>2. G[m] = IF m = 1 THEN tt[m] ELSE G[m - 1] \o tt[m]
      BY <1>3, <3>1
    <3>3. QED
      BY <2>2, <3>1, <3>2
  <2>4. G[n + 1] = F[n] \o t
    BY <2>3
  <2>5. FlattenSeq(tt) = FlattenSeq(ss) \o t
    BY <1>3, <1>8, <2>4
  <2>6. QED
    BY <1>2, <2>5 DEF tt
<1>9. QED
  BY <1>7, <1>8

\* There is nothing in the flattening of none.
LEMMA FlattenEmpty == AreSeqs(<<>>) /\ FlattenSeq(<<>>) = <<>>
<1>1. IsSeq(<<>>) /\ Len(<<>>) = 0
  BY EmptyIsSeq
<1>2. QED
  BY <1>1, FlattenIs DEF AreSeqs

\* The flattening of one sequence is that sequence.
LEMMA FlattenOne ==
    ASSUME NEW t, IsSeq(t)
    PROVE  FlattenSeq(<<t>>) = t
<1>1. <<t>> = Append(<<>>, t)
  OBVIOUS
<1>2. FlattenSeq(Append(<<>>, t)) = FlattenSeq(<<>>) \o t
  BY FlattenEmpty, FlattenAppend
<1>3. QED
  BY <1>1, <1>2, FlattenEmpty, ConcatEmpty

\* Flattening distributes over concatenation.
LEMMA FlattenConcat ==
    ASSUME NEW ss, NEW tt, AreSeqs(ss), AreSeqs(tt)
    PROVE  AreSeqs(ss \o tt) /\ FlattenSeq(ss \o tt) = FlattenSeq(ss) \o FlattenSeq(tt)
<1> DEFINE u(i) == SubSeq(tt, 1, i)
           P(i) == AreSeqs(ss \o u(i)) /\ FlattenSeq(ss \o u(i)) = FlattenSeq(ss) \o FlattenSeq(u(i))
           S == {i \in Nat : i <= Len(tt) => P(i)}
<1>1. IsSeq(ss) /\ IsSeq(tt) /\ Len(tt) \in Nat /\ IsSeq(FlattenSeq(ss))
  BY IsSeqLen, FlattenIsSeq DEF AreSeqs
<1>2. 0 \in S
  <2>1. u(0) = <<>>
    BY <1>1, WholeBeginning
  <2>2. P(0)
    BY <1>1, <2>1, FlattenEmpty, ConcatEmpty
  <2>3. QED
    BY <2>2
<1>3. ASSUME NEW i \in Nat, i \in S PROVE i + 1 \in S
  <2>1. SUFFICES ASSUME i + 1 <= Len(tt) PROVE P(i + 1)
    OBVIOUS
  <2>2. i \in 0..Len(tt) /\ i + 1 \in 1..Len(tt) /\ i + 1 - 1 = i /\ IsSeq(tt[i + 1])
    BY <1>1, <2>1 DEF AreSeqs
  <2>3. u(i + 1) = Append(u(i), tt[i + 1])
    BY <1>1, <2>2, BeginningGrows
  <2>4. IsSeq(u(i)) /\ Len(u(i)) = i /\ \A k \in 1..i : u(i)[k] = tt[k]
    BY <1>1, <2>2, Beginning
  <2>5. AreSeqs(u(i))
    BY <2>1, <2>2, <2>4 DEF AreSeqs
  <2>6. P(i)
    BY <1>3, <2>2
  <2> DEFINE v == u(i)
             w == ss \o v
             x == tt[i + 1]
  <2> HIDE DEF v, x
  <2>7. ss \o Append(v, x) = Append(w, x) /\ IsSeq(w)
    <3>1. IsSeq(v) /\ IsSeq(w) /\ IsSeq(<<x>>)
      BY <1>1, <2>4, ConcatIsSeq, OneIsSeq DEF v
    <3>2. Append(v, x) = v \o <<x>> /\ Append(w, x) = w \o <<x>>
      BY <3>1, AppendIsSeq
    <3>3. QED
      BY <1>1, <3>1, <3>2, ConcatAssoc
  <2>8. AreSeqs(Append(w, x)) /\ FlattenSeq(Append(w, x)) = FlattenSeq(w) \o x
    BY <2>2, <2>6, FlattenAppend DEF v, x
  <2>9. FlattenSeq(Append(v, x)) = FlattenSeq(v) \o x /\ IsSeq(FlattenSeq(v)) /\ IsSeq(x)
    BY <2>2, <2>5, FlattenAppend, FlattenIsSeq DEF v, x
  <2>10. FlattenSeq(w) = FlattenSeq(ss) \o FlattenSeq(v)
    BY <2>6 DEF v
  <2>11. FlattenSeq(Append(w, x)) = FlattenSeq(ss) \o FlattenSeq(Append(v, x))
    BY <1>1, <2>8, <2>9, <2>10, ConcatAssoc
  <2>12. QED
    BY <2>3, <2>7, <2>8, <2>11 DEF v, x
<1>4. Nat \subseteq S
  <2> HIDE DEF S
  <2>1. QED
    BY <1>2, <1>3, Induction
<1>5. P(Len(tt))
  BY <1>1, <1>4
<1>6. QED
  BY <1>1, <1>5, WholeBeginning


\* The last of a sequence replaced.
LEMMA LastOf ==
    ASSUME NEW r, IsSeq(r), Len(r) # 0, NEW x
    PROVE  /\ IsSeq(SubSeq(r, 1, Len(r) - 1)) /\ Len(SubSeq(r, 1, Len(r) - 1)) = Len(r) - 1
           /\ \A k \in 1..(Len(r) - 1) : SubSeq(r, 1, Len(r) - 1)[k] = r[k]
           /\ r = Append(SubSeq(r, 1, Len(r) - 1), r[Len(r)])
           /\ [r EXCEPT ![Len(r)] = x] = Append(SubSeq(r, 1, Len(r) - 1), x)
<1> DEFINE n == Len(r)
           f == SubSeq(r, 1, n - 1)
           u == Append(f, x)
           v == [r EXCEPT ![n] = x]
<1>1. n \in Nat /\ n \in 1..n /\ n - 1 \in 0..n /\ DOMAIN r = 1..n /\ r = [i \in 1..n |-> r[i]]
  BY IsSeqLen
<1>2. IsSeq(f) /\ Len(f) = n - 1 /\ \A k \in 1..(n - 1) : f[k] = r[k]
  BY <1>1, Beginning
<1>3. r = Append(f, r[n])
  BY <1>1, BeginningGrows, WholeBeginning
<1>4. IsSeq(u) /\ Len(u) = Len(f) + 1 /\ (\A k \in 1..Len(f) : u[k] = f[k]) /\ u[Len(f) + 1] = x
  BY <1>2, AppendIsSeq
<1>5. v = [i \in 1..n |-> IF i = n THEN x ELSE r[i]]
  BY <1>1
<1>6. IsSeq(v) /\ Len(v) = n /\ \A i \in 1..n : v[i] = IF i = n THEN x ELSE r[i]
  <2>1. \A i \in 1..n : v[i] = IF i = n THEN x ELSE r[i]
    BY <1>5
  <2>2. v = [i \in 1..n |-> v[i]]
    BY <1>5
  <2> HIDE DEF v
  <2>3. IsSeq(v) /\ Len(v) = n
    BY <1>1, <2>2, FunIsSeq
  <2>4. QED
    BY <2>1, <2>3
<1> HIDE DEF u, v, f
<1>7. \A i \in 1..n : u[i] = v[i]
  BY <1>1, <1>2, <1>4, <1>6
<1>8. u = v
  BY <1>1, <1>2, <1>4, <1>6, <1>7, SeqEq
<1>9. QED
  BY <1>2, <1>3, <1>8 DEF u, v, f

----------------------------------------------------------------------------
(* What messages say. *)

Said(e) == IF IsText(e) THEN Tokens(e.s) ELSE <<e>>
Saids(es) == [i \in DOMAIN es |-> Said(es[i])]
IsElement(e) == IsText(e) => IsSeq(e.s)
Elements(es) == IsSeq(es) /\ \A i \in 1..Len(es) : IsElement(es[i])

\* A text says one text for each token.
LEMMA TokensIsSeq ==
    ASSUME NEW s, IsSeq(s)
    PROVE  IsSeq(Tokens(s)) /\ Len(Tokens(s)) = Len(s) /\ \A i \in 1..Len(s) : Tokens(s)[i] = Text(<<s[i]>>)
<1> DEFINE t == Tokens(s)
<1>1. Len(s) \in Nat /\ t = [i \in 1..Len(s) |-> Text(<<s[i]>>)]
  BY IsSeqLen DEF Tokens
<1>2. \A i \in 1..Len(s) : t[i] = Text(<<s[i]>>)
  BY <1>1
<1>3. t = [i \in 1..Len(s) |-> t[i]]
  BY <1>1
<1> HIDE DEF t
<1>4. IsSeq(t) /\ Len(t) = Len(s)
  BY <1>1, <1>3, FunIsSeq
<1>5. QED
  BY <1>2, <1>4 DEF t

\* Two texts say what the first says, then what the second says.
LEMMA TokensConcat ==
    ASSUME NEW s, NEW t, IsSeq(s), IsSeq(t)
    PROVE  Tokens(s \o t) = Tokens(s) \o Tokens(t)
<1> DEFINE u == s \o t
           a == Tokens(u)
           x == Tokens(s)
           y == Tokens(t)
           b == x \o y
<1>0. Len(s) \in Nat /\ Len(t) \in Nat
  BY IsSeqLen
<1>1. /\ IsSeq(u) /\ Len(u) = Len(s) + Len(t) /\ Len(s) \in Nat /\ Len(t) \in Nat
      /\ \A i \in 1..Len(s) : u[i] = s[i]
      /\ \A i \in 1..Len(t) : u[Len(s) + i] = t[i]
  BY <1>0, ConcatIsSeq
<1> HIDE DEF u
<1>2. IsSeq(a) /\ Len(a) = Len(u) /\ \A i \in 1..Len(u) : a[i] = Text(<<u[i]>>)
  BY <1>1, TokensIsSeq
<1>3. /\ IsSeq(x) /\ Len(x) = Len(s) /\ \A i \in 1..Len(s) : x[i] = Text(<<s[i]>>)
      /\ IsSeq(y) /\ Len(y) = Len(t) /\ \A i \in 1..Len(t) : y[i] = Text(<<t[i]>>)
  BY TokensIsSeq
<1> HIDE DEF a, x, y
<1>4. /\ IsSeq(b) /\ Len(b) = Len(x) + Len(y)
      /\ \A i \in 1..Len(x) : b[i] = x[i]
      /\ \A i \in 1..Len(y) : b[Len(x) + i] = y[i]
  BY <1>3, ConcatIsSeq
<1> HIDE DEF b
<1>5. ASSUME NEW i \in 1..Len(a) PROVE a[i] = b[i]
  <2>1. CASE i <= Len(s)
    <3>1. i \in 1..Len(s) /\ i \in 1..Len(u)
      BY <1>1, <1>2, <2>1
    <3>2. QED
      BY <1>1, <1>2, <1>3, <1>4, <3>1
  <2>2. CASE ~(i <= Len(s))
    <3>1. i - Len(s) \in 1..Len(t) /\ Len(s) + (i - Len(s)) = i /\ i \in 1..Len(u)
      BY <1>1, <1>2, <2>2
    <3>2. PICK j \in 1..Len(t) : Len(s) + j = i
      BY <3>1
    <3>3. u[i] = t[j] /\ b[i] = y[j] /\ y[j] = Text(<<t[j]>>) /\ a[i] = Text(<<u[i]>>)
      BY <1>1, <1>2, <1>3, <1>4, <3>1, <3>2
    <3>4. QED
      BY <3>3
  <2>3. QED
    BY <2>1, <2>2
<1>6. a = b
  BY <1>1, <1>2, <1>3, <1>4, <1>5, SeqEq
<1>7. QED
  BY <1>6 DEF a, b, x, y, u

\* What a message says is what its elements say, flattened.
LEMMA SayIs ==
    ASSUME NEW es, Elements(es)
    PROVE  /\ Say(es) = FlattenSeq(Saids(es)) /\ AreSeqs(Saids(es)) /\ IsSeq(Say(es))
           /\ Len(Saids(es)) = Len(es) /\ \A i \in 1..Len(es) : Saids(es)[i] = Said(es[i])
<1>1. Say(es) = FlattenSeq(Saids(es))
  BY DEF Say, Each, Saids, Said
<1> DEFINE t == Saids(es)
<1>2. Len(es) \in Nat /\ t = [i \in 1..Len(es) |-> Said(es[i])]
  BY IsSeqLen DEF Saids, Elements
<1>3. \A i \in 1..Len(es) : t[i] = Said(es[i])
  BY <1>2
<1>4. t = [i \in 1..Len(es) |-> t[i]]
  BY <1>2
<1> HIDE DEF t
<1>5. IsSeq(t) /\ Len(t) = Len(es)
  BY <1>2, <1>4, FunIsSeq
<1>6. ASSUME NEW i \in 1..Len(es) PROVE IsSeq(Said(es[i]))
  BY TokensIsSeq, OneIsSeq DEF Elements, IsElement, Said
<1>7. AreSeqs(t)
  BY <1>3, <1>5, <1>6 DEF AreSeqs
<1>8. IsSeq(FlattenSeq(t))
  BY <1>7, FlattenIsSeq
<1>9. QED
  BY <1>1, <1>3, <1>5, <1>7, <1>8 DEF t

\* ... and element by element for two messages, one after the other.
LEMMA SaidsConcat ==
    ASSUME NEW a, NEW b, Elements(a), Elements(b)
    PROVE  Elements(a \o b) /\ Saids(a \o b) = Saids(a) \o Saids(b)
<1> DEFINE u == a \o b
           w == Saids(u)
           x == Saids(a)
           y == Saids(b)
           v == x \o y
<1>1. /\ IsSeq(u) /\ Len(u) = Len(a) + Len(b) /\ Len(a) \in Nat /\ Len(b) \in Nat
      /\ \A i \in 1..Len(a) : u[i] = a[i]
      /\ \A i \in 1..Len(b) : u[Len(a) + i] = b[i]
  BY ConcatIsSeq, IsSeqLen DEF Elements
<1> HIDE DEF u
<1>2. \A i \in 1..Len(u) : i \in 1..Len(a) \/ \E j \in 1..Len(b) : i = Len(a) + j
  <2>1. SUFFICES ASSUME NEW i \in 1..Len(u), i \notin 1..Len(a) PROVE \E j \in 1..Len(b) : i = Len(a) + j
    OBVIOUS
  <2>2. i - Len(a) \in 1..Len(b) /\ i = Len(a) + (i - Len(a))
    BY <1>1, <2>1
  <2>3. QED
    BY <2>2
<1>3. Elements(u)
  BY <1>1, <1>2 DEF Elements
<1>4. IsSeq(w) /\ Len(w) = Len(u) /\ \A i \in 1..Len(u) : w[i] = Said(u[i])
  BY <1>3, SayIs DEF AreSeqs
<1>5. /\ IsSeq(x) /\ Len(x) = Len(a) /\ \A i \in 1..Len(a) : x[i] = Said(a[i])
      /\ IsSeq(y) /\ Len(y) = Len(b) /\ \A i \in 1..Len(b) : y[i] = Said(b[i])
  BY SayIs DEF AreSeqs
<1> HIDE DEF w, x, y
<1>6. /\ IsSeq(v) /\ Len(v) = Len(x) + Len(y)
      /\ \A i \in 1..Len(x) : v[i] = x[i]
      /\ \A i \in 1..Len(y) : v[Len(x) + i] = y[i]
  BY <1>5, ConcatIsSeq
<1> HIDE DEF v
<1>7. ASSUME NEW i \in 1..Len(w) PROVE w[i] = v[i]
  <2>0. i \in 1..Len(u)
    BY <1>4
  <2>1. CASE i \in 1..Len(a)
    <3>1. w[i] = Said(u[i]) /\ u[i] = a[i] /\ v[i] = x[i] /\ x[i] = Said(a[i])
      BY <1>1, <1>4, <1>5, <1>6, <2>0, <2>1
    <3>2. QED
      BY <3>1
  <2>2. CASE i \notin 1..Len(a)
    <3>1. PICK j \in 1..Len(b) : i = Len(a) + j
      BY <1>2, <2>0, <2>2
    <3>2. w[i] = Said(u[i]) /\ u[i] = b[j] /\ v[i] = y[j] /\ y[j] = Said(b[j])
      BY <1>1, <1>4, <1>5, <1>6, <2>0, <3>1
    <3>3. QED
      BY <3>2
  <2>3. QED
    BY <2>1, <2>2
<1>8. w = v
  BY <1>1, <1>4, <1>5, <1>6, <1>7, SeqEq
<1>9. QED
  BY <1>3, <1>8 DEF w, v, x, y, u

(* What two messages say one after the other is what they say together. *)
LEMMA SayConcat ==
    ASSUME NEW a, NEW b, Elements(a), Elements(b)
    PROVE  Elements(a \o b) /\ Say(a \o b) = Say(a) \o Say(b)
<1>1. Elements(a \o b) /\ Saids(a \o b) = Saids(a) \o Saids(b)
  BY SaidsConcat
<1>2. Say(a \o b) = FlattenSeq(Saids(a) \o Saids(b))
  BY <1>1, SayIs
<1>3. Say(a) = FlattenSeq(Saids(a)) /\ Say(b) = FlattenSeq(Saids(b)) /\ AreSeqs(Saids(a)) /\ AreSeqs(Saids(b))
  BY SayIs
<1>4. FlattenSeq(Saids(a) \o Saids(b)) = FlattenSeq(Saids(a)) \o FlattenSeq(Saids(b))
  BY <1>3, FlattenConcat
<1>5. QED
  BY <1>1, <1>2, <1>3, <1>4

\* What a message of one element says.
LEMMA SayOne ==
    ASSUME NEW e, IsElement(e)
    PROVE  Elements(<<e>>) /\ Say(<<e>>) = Said(e) /\ IsSeq(Said(e))
<1>1. Elements(<<e>>)
  BY OneIsSeq DEF Elements
<1>2. IsSeq(Said(e))
  BY TokensIsSeq, OneIsSeq DEF IsElement, Said
<1>3. Saids(<<e>>) = <<Said(e)>>
  BY DEF Saids
<1>4. QED
  BY <1>1, <1>2, <1>3, SayIs, FlattenOne

\* An empty message says nothing.
LEMMA SayEmpty == Elements(<<>>) /\ Say(<<>>) = <<>>
<1>1. Elements(<<>>)
  BY EmptyIsSeq DEF Elements
<1>2. Saids(<<>>) = <<>>
  BY DEF Saids
<1>3. QED
  BY <1>1, <1>2, SayIs, FlattenEmpty

\* An element that is appended is said last.
LEMMA SayAppend ==
    ASSUME NEW a, NEW e, Elements(a), IsElement(e)
    PROVE  Elements(Append(a, e)) /\ Say(Append(a, e)) = Say(a) \o Said(e)
<1>1. Append(a, e) = a \o <<e>>
  BY AppendIsSeq DEF Elements
<1>2. QED
  BY <1>1, SayOne, SayConcat


\* What some messages say, one after the other.
Sayings(ss) == [i \in DOMAIN ss |-> Say(ss[i])]

\* What several messages say in turn is what they say together.
LEMMA SayFlattened ==
    ASSUME NEW ss, AreSeqs(ss), \A i \in 1..Len(ss) : Elements(ss[i])
    PROVE  Elements(FlattenSeq(ss)) /\ AreSeqs(Sayings(ss)) /\ Say(FlattenSeq(ss)) = FlattenSeq(Sayings(ss))
<1> DEFINE n == Len(ss)
           t == Sayings(ss)
           u(i) == SubSeq(ss, 1, i)
           v(i) == SubSeq(t, 1, i)
           P(i) == /\ AreSeqs(u(i)) /\ AreSeqs(v(i)) /\ Elements(FlattenSeq(u(i)))
                   /\ Say(FlattenSeq(u(i))) = FlattenSeq(v(i))
           S == {i \in Nat : i <= n => P(i)}
<1>1. IsSeq(ss) /\ n \in Nat
  BY IsSeqLen DEF AreSeqs
<1>2. t = [i \in 1..n |-> Say(ss[i])]
  BY IsSeqLen DEF Sayings, AreSeqs
<1>3. \A i \in 1..n : t[i] = Say(ss[i]) /\ IsSeq(t[i])
  BY <1>2, SayIs
<1>4. IsSeq(t) /\ Len(t) = n
  <2>1. t = [i \in 1..n |-> t[i]]
    BY <1>2
  <2> HIDE DEF t
  <2>2. QED
    BY <1>1, <2>1, FunIsSeq
<1> HIDE DEF t, n
<1>5. 0 \in S
  <2>1. u(0) = <<>> /\ v(0) = <<>>
    BY <1>1, <1>4, WholeBeginning
  <2>2. P(0)
    BY <2>1, FlattenEmpty, SayEmpty
  <2>3. QED
    BY <2>2
<1>6. ASSUME NEW i \in Nat, i \in S PROVE i + 1 \in S
  <2>1. ASSUME NEW m, m = i + 1, m <= n PROVE P(m)
    <3> DEFINE a == u(i)
               b == v(i)
               x == ss[m]
    <3>1. m \in 1..n /\ m - 1 = i /\ i <= n
      BY <1>1, <2>1
    <3>2. u(m) = Append(a, x) /\ v(m) = Append(b, t[m]) /\ IsSeq(x) /\ Elements(x) /\ t[m] = Say(x) /\ IsSeq(t[m])
      BY <1>1, <1>3, <1>4, <3>1, BeginningGrows DEF AreSeqs, n
    <3>3. AreSeqs(a) /\ AreSeqs(b) /\ Elements(FlattenSeq(a)) /\ Say(FlattenSeq(a)) = FlattenSeq(b)
      BY <1>6, <3>1
    <3> HIDE DEF a, b, x, u, v
    <3>4. AreSeqs(Append(a, x)) /\ FlattenSeq(Append(a, x)) = FlattenSeq(a) \o x
      BY <3>2, <3>3, FlattenAppend
    <3>5. AreSeqs(Append(b, t[m])) /\ FlattenSeq(Append(b, t[m])) = FlattenSeq(b) \o t[m]
      BY <3>2, <3>3, FlattenAppend
    <3>6. Elements(FlattenSeq(a) \o x) /\ Say(FlattenSeq(a) \o x) = Say(FlattenSeq(a)) \o Say(x)
      BY <3>2, <3>3, SayConcat
    <3>7. QED
      BY <3>2, <3>3, <3>4, <3>5, <3>6
  <2>2. QED
    BY <2>1
<1>7. Nat \subseteq S
  <2> HIDE DEF S
  <2>1. QED
    BY <1>5, <1>6, Induction
<1>8. P(n)
  BY <1>1, <1>7
<1>9. QED
  BY <1>1, <1>4, <1>8, WholeBeginning DEF t, n

\* If each element is replaced by what says the same, so is the message.
LEMMA SayFlatten ==
    ASSUME NEW es, Elements(es), NEW ss, AreSeqs(ss), Len(ss) = Len(es),
           \A i \in 1..Len(es) : Elements(ss[i]) /\ Say(ss[i]) = Said(es[i])
    PROVE  Elements(FlattenSeq(ss)) /\ Say(FlattenSeq(ss)) = Say(es)
<1>1. DOMAIN ss = 1..Len(es) /\ DOMAIN es = 1..Len(es)
  BY IsSeqLen DEF AreSeqs, Elements
<1>2. Sayings(ss) = Saids(es)
  BY <1>1 DEF Sayings, Saids
<1>3. QED
  BY <1>2, SayFlattened, SayIs

----------------------------------------------------------------------------
(* Lengths.  Of each function below the first lemma says that it exists and  *)
(* what it is.                                                               *)

\* The sum inside Bytes exists, by induction.
LEMMA BytesIs ==
    ASSUME NEW s, IsSeq(s)
    PROVE  \E f : /\ f[0] = 0
                  /\ \A i \in 1..Len(s) : f[i] = f[i - 1] + Width(s[i])
                  /\ Bytes(s) = f[Len(s)]
<1> DEFINE G(n, f) == f = [i \in 0..n |-> IF i = 0 THEN 0 ELSE f[i - 1] + Width(s[i])]
           S == {n \in Nat : \E f : G(n, f)}
           h == CHOOSE f : G(Len(s), f)
<1>1. 0 \in S
  <2>1. G(0, [i \in 0..0 |-> 0])
    OBVIOUS
  <2>2. QED
    BY <2>1
<1>2. ASSUME NEW n \in Nat, n \in S PROVE n + 1 \in S
  <2>1. PICK f : G(n, f)
    BY <1>2
  <2> DEFINE g == [i \in 0..(n + 1) |-> IF i <= n THEN f[i] ELSE f[i - 1] + Width(s[i])]
  <2>2. \A i \in 0..n : f[i] = IF i = 0 THEN 0 ELSE f[i - 1] + Width(s[i])
    BY <2>1
  <2>3. \A i \in 0..n : g[i] = f[i]
    OBVIOUS
  <2>4. ASSUME NEW i \in 0..(n + 1) PROVE g[i] = IF i = 0 THEN 0 ELSE g[i - 1] + Width(s[i])
    <3>1. i # 0 => i - 1 \in 0..n /\ g[i - 1] = f[i - 1]
      BY <2>3
    <3>2. g[i] = IF i = 0 THEN 0 ELSE f[i - 1] + Width(s[i])
      BY <2>2
    <3> HIDE DEF g
    <3>3. QED
      BY <3>1, <3>2
  <2>5. G(n + 1, g)
    BY <2>4
  <2> HIDE DEF G
  <2>6. QED
    BY <2>5
<1>3. Len(s) \in Nat
  BY IsSeqLen
<1>4. Len(s) \in S
  <2> HIDE DEF S
  <2>1. QED
    BY <1>1, <1>2, <1>3, Induction
<1>5. G(Len(s), h)
  BY <1>4
<1>6. Bytes(s) = h[Len(s)]
  BY DEF Bytes
<1> HIDE DEF h
<1>7. h[0] = 0 /\ \A i \in 1..Len(s) : h[i] = h[i - 1] + Width(s[i])
  BY <1>3, <1>5
<1>8. QED
  BY <1>6, <1>7


\* The sum inside Estimate exists, by induction.
LEMMA EstimateIs ==
    ASSUME NEW es, IsSeq(es)
    PROVE  \E f : /\ f[0] = 0
                  /\ \A i \in 1..Len(es) : f[i] = f[i - 1] + Size(es[i])
                  /\ Estimate(es) = f[Len(es)]
<1> DEFINE G(n, f) == f = [i \in 0..n |-> IF i = 0 THEN 0 ELSE f[i - 1] + Size(es[i])]
           S == {n \in Nat : \E f : G(n, f)}
           h == CHOOSE f : G(Len(es), f)
<1>1. 0 \in S
  <2>1. G(0, [i \in 0..0 |-> 0])
    OBVIOUS
  <2>2. QED
    BY <2>1
<1>2. ASSUME NEW n \in Nat, n \in S PROVE n + 1 \in S
  <2>1. PICK f : G(n, f)
    BY <1>2
  <2> DEFINE g == [i \in 0..(n + 1) |-> IF i <= n THEN f[i] ELSE f[i - 1] + Size(es[i])]
  <2>2. \A i \in 0..n : f[i] = IF i = 0 THEN 0 ELSE f[i - 1] + Size(es[i])
    BY <2>1
  <2>3. \A i \in 0..n : g[i] = f[i]
    OBVIOUS
  <2>4. ASSUME NEW i \in 0..(n + 1) PROVE g[i] = IF i = 0 THEN 0 ELSE g[i - 1] + Size(es[i])
    <3>1. i # 0 => i - 1 \in 0..n /\ g[i - 1] = f[i - 1]
      BY <2>3
    <3>2. g[i] = IF i = 0 THEN 0 ELSE f[i - 1] + Size(es[i])
      BY <2>2
    <3> HIDE DEF g
    <3>3. QED
      BY <3>1, <3>2
  <2>5. G(n + 1, g)
    BY <2>4
  <2> HIDE DEF G
  <2>6. QED
    BY <2>5
<1>3. Len(es) \in Nat
  BY IsSeqLen
<1>4. Len(es) \in S
  <2> HIDE DEF S
  <2>1. QED
    BY <1>1, <1>2, <1>3, Induction
<1>5. G(Len(es), h)
  BY <1>4
<1>6. Estimate(es) = h[Len(es)]
  BY DEF Estimate
<1> HIDE DEF h
<1>7. h[0] = 0 /\ \A i \in 1..Len(es) : h[i] = h[i - 1] + Size(es[i])
  BY <1>3, <1>5
<1>8. QED
  BY <1>6, <1>7



\* A character has one to four bytes.
LEMMA WidthIs ==
    ASSUME NEW c
    PROVE  Width(c) \in 1..4 /\ Width(c) \in Nat
BY WideAssumption DEF Width

\* A character makes a text longer by its width.
LEMMA BytesAppend ==
    ASSUME NEW s, IsSeq(s), NEW c
    PROVE  /\ Bytes(s) \in Nat /\ Bytes(Append(s, c)) = Bytes(s) + Width(c)
           /\ Bytes(<<>>) = 0 /\ Width(c) \in Nat
<1> DEFINE t == Append(s, c)
<1>1. IsSeq(s) /\ Len(s) \in Nat /\ IsSeq(<<>>) /\ Len(<<>>) = 0
  BY IsSeqLen, EmptyIsSeq
<1>2. IsSeq(t) /\ Len(t) = Len(s) + 1 /\ t[Len(s) + 1] = c /\ \A i \in 1..Len(s) : t[i] = s[i]
  BY <1>1, AppendIsSeq
<1>3. PICK f : f[0] = 0 /\ (\A i \in 1..Len(s) : f[i] = f[i - 1] + Width(s[i])) /\ Bytes(s) = f[Len(s)]
  BY <1>1, BytesIs
<1>4. PICK g : g[0] = 0 /\ (\A i \in 1..Len(t) : g[i] = g[i - 1] + Width(t[i])) /\ Bytes(t) = g[Len(t)]
  BY <1>2, BytesIs
<1>5. Bytes(<<>>) = 0
  BY <1>1, BytesIs
<1>6. Width(c) \in Nat /\ \A i \in 1..Len(s) : Width(s[i]) \in Nat
  BY WidthIs
<1> HIDE DEF t
<1> DEFINE S == {i \in Nat : i <= Len(s) => f[i] \in Nat /\ g[i] = f[i]}
<1>7. 0 \in S
  BY <1>3, <1>4
<1>8. ASSUME NEW i \in Nat, i \in S PROVE i + 1 \in S
  <2>1. ASSUME NEW m, m = i + 1, m <= Len(s) PROVE f[m] \in Nat /\ g[m] = f[m]
    <3>1. m \in 1..Len(s) /\ m \in 1..Len(t) /\ m - 1 = i /\ i <= Len(s)
      BY <1>1, <1>2, <2>1
    <3>2. f[i] \in Nat /\ g[i] = f[i]
      BY <1>8, <3>1
    <3>3. f[m] = f[m - 1] + Width(s[m]) /\ g[m] = g[m - 1] + Width(t[m]) /\ t[m] = s[m]
      BY <1>2, <1>3, <1>4, <3>1
    <3>4. Width(s[m]) \in Nat
      BY <1>6, <3>1
    <3>5. QED
      BY <3>1, <3>2, <3>3, <3>4
  <2>2. QED
    BY <2>1
<1>9. Nat \subseteq S
  <2> HIDE DEF S
  <2>1. QED
    BY <1>7, <1>8, Induction
<1>10. f[Len(s)] \in Nat /\ g[Len(s)] = f[Len(s)]
  BY <1>1, <1>9
<1>11. ASSUME NEW m, m = Len(s) + 1 PROVE g[m] = g[Len(s)] + Width(c)
  <2>1. m \in 1..Len(t) /\ m - 1 = Len(s) /\ t[m] = c
    BY <1>1, <1>2, <1>11
  <2>2. g[m] = g[m - 1] + Width(t[m])
    BY <1>4, <2>1
  <2>3. QED
    BY <2>1, <2>2
<1>12. Bytes(t) = Bytes(s) + Width(c)
  BY <1>2, <1>3, <1>4, <1>10, <1>11
<1>13. QED
  BY <1>3, <1>5, <1>6, <1>10, <1>12 DEF t


\* One character fits in a message.
LEMMA BytesOne ==
    ASSUME NEW c
    PROVE  Bytes(<<c>>) <= MaxMessageSize /\ Bytes(<<c>>) \in Nat
<1>1. Bytes(Append(<<>>, c)) = Bytes(<<>>) + Width(c) /\ Bytes(<<>>) = 0
  BY BytesAppend, EmptyIsSeq
<1>2. Width(c) \in Nat /\ Width(c) <= MaxMessageSize
  BY WidthIs, MaxAssumption
<1>3. Append(<<>>, c) = <<c>>
  OBVIOUS
<1>4. QED
  BY <1>1, <1>2, <1>3

\* The size of an element is a number.
LEMMA SizeIs ==
    ASSUME NEW e, IsElement(e)
    PROVE  Size(e) \in Nat
BY BytesAppend, ElementAssumption DEF Size, IsElement

\* An element makes a message larger by its size.
LEMMA EstimateAppend ==
    ASSUME NEW es, Elements(es), NEW e, IsElement(e)
    PROVE  /\ Estimate(es) \in Nat /\ Estimate(Append(es, e)) = Estimate(es) + Size(e)
           /\ Estimate(<<>>) = 0 /\ Size(e) \in Nat
<1> DEFINE t == Append(es, e)
<1>1. IsSeq(es) /\ Len(es) \in Nat /\ IsSeq(<<>>) /\ Len(<<>>) = 0
  BY IsSeqLen, EmptyIsSeq DEF Elements
<1>2. IsSeq(t) /\ Len(t) = Len(es) + 1 /\ t[Len(es) + 1] = e /\ \A i \in 1..Len(es) : t[i] = es[i]
  BY <1>1, AppendIsSeq
<1>3. PICK f : f[0] = 0 /\ (\A i \in 1..Len(es) : f[i] = f[i - 1] + Size(es[i])) /\ Estimate(es) = f[Len(es)]
  BY <1>1, EstimateIs
<1>4. PICK g : g[0] = 0 /\ (\A i \in 1..Len(t) : g[i] = g[i - 1] + Size(t[i])) /\ Estimate(t) = g[Len(t)]
  BY <1>2, EstimateIs
<1>5. Estimate(<<>>) = 0
  BY <1>1, EstimateIs
<1>6. Size(e) \in Nat /\ \A i \in 1..Len(es) : Size(es[i]) \in Nat
  BY SizeIs DEF Elements
<1> HIDE DEF t
<1> DEFINE S == {i \in Nat : i <= Len(es) => f[i] \in Nat /\ g[i] = f[i]}
<1>7. 0 \in S
  BY <1>3, <1>4
<1>8. ASSUME NEW i \in Nat, i \in S PROVE i + 1 \in S
  <2>1. ASSUME NEW m, m = i + 1, m <= Len(es) PROVE f[m] \in Nat /\ g[m] = f[m]
    <3>1. m \in 1..Len(es) /\ m \in 1..Len(t) /\ m - 1 = i /\ i <= Len(es)
      BY <1>1, <1>2, <2>1
    <3>2. f[i] \in Nat /\ g[i] = f[i]
      BY <1>8, <3>1
    <3>3. f[m] = f[m - 1] + Size(es[m]) /\ g[m] = g[m - 1] + Size(t[m]) /\ t[m] = es[m]
      BY <1>2, <1>3, <1>4, <3>1
    <3>4. Size(es[m]) \in Nat
      BY <1>6, <3>1
    <3>5. QED
      BY <3>1, <3>2, <3>3, <3>4
  <2>2. QED
    BY <2>1
<1>9. Nat \subseteq S
  <2> HIDE DEF S
  <2>1. QED
    BY <1>7, <1>8, Induction
<1>10. f[Len(es)] \in Nat /\ g[Len(es)] = f[Len(es)]
  BY <1>1, <1>9
<1>11. ASSUME NEW m, m = Len(es) + 1 PROVE g[m] = g[Len(es)] + Size(e)
  <2>1. m \in 1..Len(t) /\ m - 1 = Len(es) /\ t[m] = e
    BY <1>1, <1>2, <1>11
  <2>2. g[m] = g[m - 1] + Size(t[m])
    BY <1>4, <2>1
  <2>3. QED
    BY <2>1, <2>2
<1>12. Estimate(t) = Estimate(es) + Size(e)
  BY <1>2, <1>3, <1>4, <1>10, <1>11
<1>13. QED
  BY <1>3, <1>5, <1>6, <1>10, <1>12 DEF t


\* The largest of some numbers up to n is one of them and not exceeded.
LEMMA MaxIs ==
    ASSUME NEW n \in Nat, NEW A, A \subseteq 0..n, A # {}
    PROVE  Max(A) \in A /\ \A y \in A : Max(A) >= y
<1> DEFINE S == {m \in Nat : \A B \in SUBSET (0..m) : B # {} => \E x \in B : \A y \in B : x >= y}
<1>1. 0 \in S
  <2>1. ASSUME NEW B \in SUBSET (0..0), B # {} PROVE \E x \in B : \A y \in B : x >= y
    <3>1. PICK x \in B : TRUE
      BY <2>1
    <3>2. \A y \in B : y = 0 /\ x = 0
      OBVIOUS
    <3>3. QED
      BY <3>1, <3>2
  <2>2. QED
    BY <2>1
<1>2. ASSUME NEW m \in Nat, m \in S PROVE m + 1 \in S
  <2>1. SUFFICES ASSUME NEW B \in SUBSET (0..(m + 1)), B # {} PROVE \E x \in B : \A y \in B : x >= y
    OBVIOUS
  <2>2. CASE m + 1 \in B
    <3>1. \A y \in B : m + 1 >= y
      OBVIOUS
    <3>2. QED
      BY <2>2, <3>1
  <2>3. CASE m + 1 \notin B
    <3>1. B \in SUBSET (0..m)
      BY <2>3
    <3>2. QED
      BY <1>2, <2>1, <3>1
  <2>4. QED
    BY <2>2, <2>3
<1>3. n \in S
  <2> HIDE DEF S
  <2>1. QED
    BY <1>1, <1>2, Induction
<1>4. \E x \in A : \A y \in A : x >= y
  BY <1>3
<1>5. QED
  BY <1>4 DEF Max


----------------------------------------------------------------------------
(* Texts that are cut. *)

\* Only the empty sequence has length 0.
LEMMA EmptyIff ==
    ASSUME NEW r, IsSeq(r)
    PROVE  (r = Nothing) <=> (Len(r) = 0)
BY EmptyIsSeq, SeqEq DEF Nothing

\* A text, and what it says.
LEMMA TextIs ==
    ASSUME NEW s
    PROVE  IsText(Text(s)) /\ Text(s).s = s /\ Said(Text(s)) = Tokens(s) /\ (IsSeq(s) => IsElement(Text(s)))
<1>1. IsText(Text(s)) /\ Text(s).s = s
  BY DEF Text, IsText
<1>2. QED
  BY <1>1 DEF Said, IsElement

\* A token that is appended is said last.
LEMMA TokensAppend ==
    ASSUME NEW s, IsSeq(s), NEW c
    PROVE  Tokens(Append(s, c)) = Tokens(s) \o <<Text(<<c>>)>>
<1>1. Append(s, c) = s \o <<c>> /\ IsSeq(<<c>>)
  BY AppendIsSeq, OneIsSeq
<1>2. Tokens(<<c>>) = <<Text(<<c>>)>>
  BY DEF Tokens
<1>3. QED
  BY <1>1, <1>2, TokensConcat

\* A token more for the last text is a token more for all.
LEMMA LongerSays ==
    ASSUME NEW r, Elements(r), Len(r) # 0, IsText(r[Len(r)]), NEW c
    PROVE  /\ Elements(Longer(r, c)) /\ Len(Longer(r, c)) = Len(r)
           /\ \A k \in 1..(Len(r) - 1) : Longer(r, c)[k] = r[k]
           /\ Longer(r, c)[Len(r)] = Text(Append(r[Len(r)].s, c))
           /\ Say(Longer(r, c)) = Say(r) \o <<Text(<<c>>)>>
<1> DEFINE n == Len(r)
           f == SubSeq(r, 1, n - 1)
           e == r[n]
           x == Text(Append(e.s, c))
<1>1. /\ IsSeq(f) /\ Len(f) = n - 1 /\ \A k \in 1..(n - 1) : f[k] = r[k]
      /\ r = Append(f, e)
      /\ [r EXCEPT ![n] = x] = Append(f, x)
  BY LastOf DEF Elements
<1>2. Longer(r, c) = Append(f, x)
  BY <1>1 DEF Longer
<1>3. n \in Nat /\ n \in 1..n /\ IsSeq(r)
  BY IsSeqLen DEF Elements
<1>4. IsElement(e) /\ IsSeq(e.s)
  BY <1>3 DEF Elements, IsElement
<1> HIDE DEF f
<1>5. Elements(f)
  BY <1>1, <1>3 DEF Elements
<1>6. IsSeq(Append(e.s, c))
  BY <1>4, AppendIsSeq
<1>7. IsElement(x) /\ Said(x) = Tokens(Append(e.s, c)) /\ Said(e) = Tokens(e.s)
  BY <1>6, TextIs DEF Said
<1> HIDE DEF x, e
<1>8. Elements(Append(f, x)) /\ Say(Append(f, x)) = Say(f) \o Said(x)
  BY <1>5, <1>7, SayAppend
<1>9. Say(r) = Say(f) \o Said(e)
  BY <1>1, <1>4, <1>5, SayAppend
<1>10. Said(x) = Said(e) \o <<Text(<<c>>)>>
  BY <1>4, <1>7, TokensAppend
<1>11. IsSeq(Say(f)) /\ IsSeq(Said(e)) /\ IsSeq(<<Text(<<c>>)>>)
  BY <1>4, <1>5, <1>7, SayIs, TokensIsSeq, OneIsSeq
<1>12. Say(Append(f, x)) = Say(r) \o <<Text(<<c>>)>>
  BY <1>8, <1>9, <1>10, <1>11, ConcatAssoc
<1>13. Len(Append(f, x)) = n /\ (\A k \in 1..(n - 1) : Append(f, x)[k] = r[k]) /\ Append(f, x)[n] = x
  BY <1>1, <1>3, AppendIsSeq
<1>14. QED
  BY <1>2, <1>8, <1>12, <1>13 DEF x, e

\* Texts that can be sent.
Pieces(r) == Elements(r) /\ \A k \in 1..Len(r) : IsText(r[k]) /\ Bytes(r[k].s) <= MaxMessageSize

\* A step of splitPlainMessage keeps the pieces short and says its token.
LEMMA CutPlainKeeps ==
    ASSUME NEW r, Pieces(r), NEW c
    PROVE  Pieces(CutPlain(r, c)) /\ Say(CutPlain(r, c)) = Say(r) \o <<Text(<<c>>)>>
<1> DEFINE n == Len(r)
<1>1. Elements(r) /\ IsSeq(r) /\ n \in Nat
  BY IsSeqLen DEF Pieces, Elements
<1>2. CASE r # Nothing /\ Bytes(r[n].s) + Width(c) <= MaxMessageSize
  <2>1. CutPlain(r, c) = Longer(r, c)
    BY <1>2 DEF CutPlain
  <2>2. n # 0 /\ n \in 1..n
    BY <1>1, <1>2, EmptyIff
  <2>3. IsText(r[n]) /\ IsSeq(r[n].s)
    BY <1>1, <2>2 DEF Pieces, Elements, IsElement
  <2> DEFINE l == Longer(r, c)
  <2>4. /\ Elements(l) /\ Len(l) = n /\ Say(l) = Say(r) \o <<Text(<<c>>)>>
        /\ \A k \in 1..(n - 1) : l[k] = r[k]
        /\ l[n] = Text(Append(r[n].s, c))
    BY <1>1, <2>2, <2>3, LongerSays
  <2>5. Bytes(Append(r[n].s, c)) = Bytes(r[n].s) + Width(c)
    BY <2>3, BytesAppend
  <2>6. IsText(l[n]) /\ Bytes(l[n].s) <= MaxMessageSize
    BY <1>2, <2>4, <2>5, TextIs
  <2> HIDE DEF l
  <2>7. ASSUME NEW k \in 1..Len(l) PROVE IsText(l[k]) /\ Bytes(l[k].s) <= MaxMessageSize
    <3>1. CASE k = n
      BY <2>6, <3>1
    <3>2. CASE k # n
      <4>1. k \in 1..(n - 1) /\ k \in 1..n
        BY <1>1, <2>4, <3>2
      <4>2. QED
        BY <2>4, <4>1 DEF Pieces
    <3>3. QED
      BY <3>1, <3>2
  <2>8. QED
    BY <2>1, <2>4, <2>7 DEF Pieces, l
<1>3. CASE ~(r # Nothing /\ Bytes(r[n].s) + Width(c) <= MaxMessageSize)
  <2> DEFINE x == Text(<<c>>)
             l == Append(r, x)
  <2>1. CutPlain(r, c) = l
    BY <1>3 DEF CutPlain
  <2>2. IsText(x) /\ x.s = <<c>> /\ IsElement(x) /\ Said(x) = Tokens(<<c>>)
    BY TextIs, OneIsSeq
  <2>3. Tokens(<<c>>) = <<x>>
    BY DEF Tokens
  <2>5. Bytes(<<c>>) <= MaxMessageSize
    BY BytesOne
  <2> HIDE DEF x
  <2>6. Elements(l) /\ Say(l) = Say(r) \o Said(x)
    BY <1>1, <2>2, SayAppend
  <2>7. Len(l) = n + 1 /\ l[n + 1] = x /\ \A k \in 1..n : l[k] = r[k]
    BY <1>1, AppendIsSeq
  <2> HIDE DEF l
  <2>8. ASSUME NEW k \in 1..Len(l) PROVE IsText(l[k]) /\ Bytes(l[k].s) <= MaxMessageSize
    <3>1. CASE k = n + 1
      BY <2>2, <2>5, <2>7, <3>1
    <3>2. CASE k # n + 1
      <4>1. k \in 1..n
        BY <1>1, <2>7, <3>2
      <4>2. QED
        BY <2>7, <4>1 DEF Pieces
    <3>3. QED
      BY <3>1, <3>2
  <2>9. QED
    BY <2>1, <2>2, <2>3, <2>6, <2>8 DEF Pieces, x
<1>4. QED
  BY <1>2, <1>3


\* The loop of splitPlainMessage, a character at a time.
LEMMA CutIs ==
    ASSUME NEW s, IsSeq(s), textNeedSplit(s)
    PROVE  \E f : /\ f[0] = Nothing
                  /\ \A i \in 1..Len(s) : f[i] = CutPlain(f[i - 1], s[i])
                  /\ splitPlainMessage(s) = f[Len(s)]
<1> DEFINE G(n, f) == f = [i \in 0..n |-> IF i = 0 THEN Nothing ELSE CutPlain(f[i - 1], s[i])]
           S == {n \in Nat : \E f : G(n, f)}
           h == CHOOSE f : G(Len(s), f)
<1>1. 0 \in S
  <2>1. G(0, [i \in 0..0 |-> Nothing])
    OBVIOUS
  <2>2. QED
    BY <2>1
<1>2. ASSUME NEW n \in Nat, n \in S PROVE n + 1 \in S
  <2>1. PICK f : G(n, f)
    BY <1>2
  <2> DEFINE g == [i \in 0..(n + 1) |-> IF i <= n THEN f[i] ELSE CutPlain(f[i - 1], s[i])]
  <2>2. \A i \in 0..n : f[i] = IF i = 0 THEN Nothing ELSE CutPlain(f[i - 1], s[i])
    BY <2>1
  <2>3. \A i \in 0..n : g[i] = f[i]
    OBVIOUS
  <2>4. ASSUME NEW i \in 0..(n + 1) PROVE g[i] = IF i = 0 THEN Nothing ELSE CutPlain(g[i - 1], s[i])
    <3>1. i # 0 => i - 1 \in 0..n /\ g[i - 1] = f[i - 1]
      BY <2>3
    <3>2. g[i] = IF i = 0 THEN Nothing ELSE CutPlain(f[i - 1], s[i])
      BY <2>2
    <3> HIDE DEF g
    <3>3. QED
      BY <3>1, <3>2
  <2>5. G(n + 1, g)
    BY <2>4
  <2> HIDE DEF G
  <2>6. QED
    BY <2>5
<1>3. Len(s) \in Nat
  BY IsSeqLen
<1>4. Len(s) \in S
  <2> HIDE DEF S
  <2>1. QED
    BY <1>1, <1>2, <1>3, Induction
<1>5. G(Len(s), h)
  BY <1>4
<1>6. splitPlainMessage(s) = h[Len(s)]
  BY DEF splitPlainMessage
<1> HIDE DEF h
<1>7. h[0] = Nothing /\ \A i \in 1..Len(s) : h[i] = CutPlain(h[i - 1], s[i])
  BY <1>3, <1>5
<1>8. QED
  BY <1>6, <1>7


\* What a text is split into says what it says, in pieces that can be sent.
LEMMA SplitPlainSays ==
    ASSUME NEW s, IsSeq(s)
    PROVE  Pieces(splitPlainMessage(s)) /\ Say(splitPlainMessage(s)) = Tokens(s)
<1>1. CASE ~textNeedSplit(s)
  <2>1. splitPlainMessage(s) = <<Text(s)>>
    BY <1>1 DEF splitPlainMessage
  <2> DEFINE x == Text(s)
  <2>2. IsText(x) /\ x.s = s /\ IsElement(x) /\ Said(x) = Tokens(s)
    BY TextIs
  <2>3. Bytes(s) <= MaxMessageSize
    BY <1>1, BytesAppend, MaxAssumption DEF textNeedSplit
  <2> HIDE DEF x
  <2>4. Elements(<<x>>) /\ Say(<<x>>) = Tokens(s)
    BY <2>2, SayOne
  <2>5. Pieces(<<x>>)
    BY <2>2, <2>3, <2>4, OneIsSeq DEF Pieces
  <2>6. QED
    BY <2>1, <2>4, <2>5 DEF x
<1>2. CASE textNeedSplit(s)
  <2> DEFINE u(i) == SubSeq(s, 1, i)
  <2>1. PICK f : /\ f[0] = Nothing
                 /\ \A i \in 1..Len(s) : f[i] = CutPlain(f[i - 1], s[i])
                 /\ splitPlainMessage(s) = f[Len(s)]
    BY <1>2, CutIs
  <2>2. Len(s) \in Nat
    BY IsSeqLen
  <2> DEFINE S == {i \in Nat : i <= Len(s) => Pieces(f[i]) /\ Say(f[i]) = Tokens(u(i))}
  <2>3. 0 \in S
    <3>1. Pieces(<<>>) /\ Say(<<>>) = <<>>
      BY SayEmpty, EmptyIsSeq DEF Pieces
    <3>2. u(0) = <<>> /\ Tokens(<<>>) = <<>>
      BY WholeBeginning DEF Tokens
    <3>3. QED
      BY <2>1, <3>1, <3>2 DEF Nothing
  <2>4. ASSUME NEW i \in Nat, i \in S PROVE i + 1 \in S
    <3>1. ASSUME NEW m, m = i + 1, m <= Len(s) PROVE Pieces(f[m]) /\ Say(f[m]) = Tokens(u(m))
      <4>1. m \in 1..Len(s) /\ m - 1 = i /\ i \in 0..Len(s)
        BY <2>2, <3>1
      <4>2. f[m] = CutPlain(f[i], s[m])
        BY <2>1, <4>1
      <4>3. Pieces(f[i]) /\ Say(f[i]) = Tokens(u(i))
        BY <2>4, <4>1
      <4>4. Pieces(f[m]) /\ Say(f[m]) = Tokens(u(i)) \o <<Text(<<s[m]>>)>>
        BY <4>2, <4>3, CutPlainKeeps
      <4>5. u(m) = Append(u(i), s[m]) /\ IsSeq(u(i))
        BY <4>1, BeginningGrows, Beginning
      <4> HIDE DEF u
      <4>6. QED
        BY <4>4, <4>5, TokensAppend
    <3>2. QED
      BY <3>1
  <2>5. Nat \subseteq S
    <3> HIDE DEF S
    <3>1. QED
      BY <2>3, <2>4, Induction
  <2>6. Pieces(f[Len(s)]) /\ Say(f[Len(s)]) = Tokens(u(Len(s)))
    BY <2>2, <2>5
  <2>7. QED
    BY <2>1, <2>6, WholeBeginning
<1>3. QED
  BY <1>1, <1>2


\* What is in a flattened sequence is in one of its parts.
LEMMA FlattenFrom ==
    ASSUME NEW ss, AreSeqs(ss)
    PROVE  \A j \in 1..Len(FlattenSeq(ss)) : \E k \in 1..Len(ss) : \E l \in 1..Len(ss[k]) : FlattenSeq(ss)[j] = ss[k][l]
<1> DEFINE u(i) == SubSeq(ss, 1, i)
           P(i) == /\ AreSeqs(u(i))
                   /\ \A j \in 1..Len(FlattenSeq(u(i))) :
                         \E k \in 1..i : \E l \in 1..Len(ss[k]) : FlattenSeq(u(i))[j] = ss[k][l]
           S == {i \in Nat : i <= Len(ss) => P(i)}
<1>1. IsSeq(ss) /\ Len(ss) \in Nat
  BY IsSeqLen DEF AreSeqs
<1>2. 0 \in S
  <2>1. u(0) = <<>>
    BY <1>1, WholeBeginning
  <2>2. Len(FlattenSeq(<<>>)) = 0 /\ AreSeqs(<<>>)
    BY FlattenEmpty, EmptyIsSeq
  <2>3. ASSUME NEW v, v = <<>> PROVE AreSeqs(v) /\ Len(FlattenSeq(v)) = 0
    BY <2>2, <2>3
  <2>4. P(0)
    <3>1. AreSeqs(u(0)) /\ Len(FlattenSeq(u(0))) = 0
      BY <2>1, <2>3
    <3> HIDE DEF u
    <3>2. QED
      BY <3>1
  <2>5. QED
    BY <2>4
<1>3. ASSUME NEW i \in Nat, i \in S PROVE i + 1 \in S
  <2>1. ASSUME NEW m, m = i + 1, m <= Len(ss) PROVE P(m)
    <3> DEFINE a == u(i)
               x == ss[m]
               fa == FlattenSeq(a)
    <3>1. m \in 1..Len(ss) /\ m - 1 = i /\ i <= Len(ss) /\ m \in 1..m /\ 1..i \subseteq 1..m
      BY <1>1, <2>1
    <3>2. u(m) = Append(a, x) /\ IsSeq(x)
      BY <1>1, <3>1, BeginningGrows DEF AreSeqs
    <3>3. /\ AreSeqs(a)
          /\ \A j \in 1..Len(fa) : \E k \in 1..i : \E l \in 1..Len(ss[k]) : fa[j] = ss[k][l]
      BY <1>3, <3>1
    <3>4. AreSeqs(Append(a, x)) /\ FlattenSeq(Append(a, x)) = fa \o x /\ IsSeq(fa)
      BY <3>2, <3>3, FlattenAppend, FlattenIsSeq
    <3> HIDE DEF fa
    <3>5. /\ Len(fa \o x) = Len(fa) + Len(x) /\ Len(fa) \in Nat /\ Len(x) \in Nat
          /\ \A j \in 1..Len(fa) : (fa \o x)[j] = fa[j]
          /\ \A j \in 1..Len(x) : (fa \o x)[Len(fa) + j] = x[j]
      BY <3>2, <3>4, ConcatIsSeq, IsSeqLen
    <3>6. ASSUME NEW j \in 1..Len(fa \o x)
          PROVE  \E k \in 1..m : \E l \in 1..Len(ss[k]) : (fa \o x)[j] = ss[k][l]
      <4>1. CASE j \in 1..Len(fa)
        BY <3>1, <3>3, <3>5, <4>1
      <4>2. CASE j \notin 1..Len(fa)
        <5>1. j - Len(fa) \in 1..Len(x) /\ Len(fa) + (j - Len(fa)) = j
          BY <3>5, <4>2
        <5>2. PICK l \in 1..Len(x) : Len(fa) + l = j
          BY <5>1
        <5>3. (fa \o x)[j] = ss[m][l]
          BY <3>5, <5>2
        <5>4. QED
          BY <3>1, <5>3
      <4>3. QED
        BY <4>1, <4>2
    <3> HIDE DEF a, x, u
    <3>7. QED
      BY <3>2, <3>4, <3>6
  <2>2. QED
    BY <2>1
<1>4. Nat \subseteq S
  <2> HIDE DEF S
  <2>1. QED
    BY <1>2, <1>3, Induction
<1>5. P(Len(ss))
  BY <1>1, <1>4
<1>6. QED
  BY <1>1, <1>5, WholeBeginning

\* Texts none of which is too long.
Short(es) == Elements(es) /\ \A i \in 1..Len(es) : IsText(es[i]) => Bytes(es[i].s) <= MaxMessageSize

\* splitElements leaves short elements that say what the message says.
LEMMA SplitElementsSays ==
    ASSUME NEW es, Elements(es)
    PROVE  Short(splitElements(es)) /\ Say(splitElements(es)) = Say(es)
<1> DEFINE split(e) == IF IsText(e) THEN splitPlainMessage(e.s) ELSE <<e>>
           ss == [i \in DOMAIN es |-> split(es[i])]
<1>1. splitElements(es) = FlattenSeq(ss)
  BY DEF splitElements, Each
<1>2. IsSeq(es) /\ Len(es) \in Nat /\ ss = [i \in 1..Len(es) |-> split(es[i])]
  BY IsSeqLen DEF Elements
<1>3. \A i \in 1..Len(es) : ss[i] = split(es[i])
  BY <1>2
<1>4. IsSeq(ss) /\ Len(ss) = Len(es)
  <2>1. ss = [i \in 1..Len(es) |-> ss[i]]
    BY <1>2
  <2> HIDE DEF ss
  <2>2. QED
    BY <1>2, <2>1, FunIsSeq
<1>5. ASSUME NEW i \in 1..Len(es)
      PROVE  /\ Elements(ss[i]) /\ Say(ss[i]) = Said(es[i])
             /\ \A l \in 1..Len(ss[i]) : IsText(ss[i][l]) => Bytes(ss[i][l].s) <= MaxMessageSize
  <2>1. IsElement(es[i])
    BY DEF Elements
  <2>2. CASE IsText(es[i])
    <3>1. ss[i] = splitPlainMessage(es[i].s) /\ IsSeq(es[i].s) /\ Said(es[i]) = Tokens(es[i].s)
      BY <1>3, <2>1, <2>2 DEF IsElement, Said
    <3> HIDE DEF ss
    <3>2. QED
      BY <3>1, SplitPlainSays DEF Pieces
  <2>3. CASE ~IsText(es[i])
    <3>1. ss[i] = <<es[i]>>
      BY <1>3, <2>3
    <3> HIDE DEF ss
    <3>2. Elements(<<es[i]>>) /\ Say(<<es[i]>>) = Said(es[i])
      BY <2>1, SayOne
    <3>3. \A l \in 1..Len(<<es[i]>>) : <<es[i]>>[l] = es[i]
      BY OneIsSeq
    <3>4. QED
      BY <2>3, <3>1, <3>2, <3>3
  <2>4. QED
    BY <2>2, <2>3
<1> HIDE DEF ss
<1>6. AreSeqs(ss)
  BY <1>4, <1>5 DEF AreSeqs, Elements
<1>7. Elements(FlattenSeq(ss)) /\ Say(FlattenSeq(ss)) = Say(es)
  BY <1>4, <1>5, <1>6, SayFlatten
<1>8. ASSUME NEW j \in 1..Len(FlattenSeq(ss)), IsText(FlattenSeq(ss)[j])
      PROVE  Bytes(FlattenSeq(ss)[j].s) <= MaxMessageSize
  BY <1>4, <1>5, <1>6, <1>8, FlattenFrom
<1>9. QED
  BY <1>1, <1>7, <1>8 DEF Short



\* The recursion in mergeContinuousTextMessages, before its last step.
MergedAll(es) ==
    LET merge[i \in 0..Len(es)] == IF i = 0 THEN Nothing ELSE Merged(merge[i - 1], es[i])
    IN merge[Len(es)]

\* The loop of mergeContinuousTextMessages, an element at a time.
LEMMA MergeIs ==
    ASSUME NEW es, IsSeq(es)
    PROVE  \E f : /\ f[0] = Nothing
                  /\ \A i \in 1..Len(es) : f[i] = Merged(f[i - 1], es[i])
                  /\ MergedAll(es) = f[Len(es)]
<1> DEFINE G(n, f) == f = [i \in 0..n |-> IF i = 0 THEN Nothing ELSE Merged(f[i - 1], es[i])]
           S == {n \in Nat : \E f : G(n, f)}
           h == CHOOSE f : G(Len(es), f)
<1>1. 0 \in S
  <2>1. G(0, [i \in 0..0 |-> Nothing])
    OBVIOUS
  <2>2. QED
    BY <2>1
<1>2. ASSUME NEW n \in Nat, n \in S PROVE n + 1 \in S
  <2>1. PICK f : G(n, f)
    BY <1>2
  <2> DEFINE g == [i \in 0..(n + 1) |-> IF i <= n THEN f[i] ELSE Merged(f[i - 1], es[i])]
  <2>2. \A i \in 0..n : f[i] = IF i = 0 THEN Nothing ELSE Merged(f[i - 1], es[i])
    BY <2>1
  <2>3. \A i \in 0..n : g[i] = f[i]
    OBVIOUS
  <2>4. ASSUME NEW i \in 0..(n + 1) PROVE g[i] = IF i = 0 THEN Nothing ELSE Merged(g[i - 1], es[i])
    <3>1. i # 0 => i - 1 \in 0..n /\ g[i - 1] = f[i - 1]
      BY <2>3
    <3>2. g[i] = IF i = 0 THEN Nothing ELSE Merged(f[i - 1], es[i])
      BY <2>2
    <3> HIDE DEF g
    <3>3. QED
      BY <3>1, <3>2
  <2>5. G(n + 1, g)
    BY <2>4
  <2> HIDE DEF G
  <2>6. QED
    BY <2>5
<1>3. Len(es) \in Nat
  BY IsSeqLen
<1>4. Len(es) \in S
  <2> HIDE DEF S
  <2>1. QED
    BY <1>1, <1>2, <1>3, Induction
<1>5. G(Len(es), h)
  BY <1>4
<1>6. MergedAll(es) = h[Len(es)]
  BY DEF MergedAll
<1> HIDE DEF h
<1>7. h[0] = Nothing /\ \A i \in 1..Len(es) : h[i] = Merged(h[i - 1], es[i])
  BY <1>3, <1>5
<1>8. QED
  BY <1>6, <1>7


\* What is no text is one of these.
Within(r, A) == \A k \in 1..Len(r) : IsText(r[k]) \/ r[k] \in A

\* A step of it says its element, and is of elements of the message or texts.
LEMMA MergedSays ==
    ASSUME NEW r, Elements(r), NEW e, IsElement(e), NEW A, Within(r, A), e \in A
    PROVE  /\ Elements(Merged(r, e)) /\ Say(Merged(r, e)) = Say(r) \o Said(e)
           /\ Len(Merged(r, e)) > 0 /\ Within(Merged(r, e), A)
<1> DEFINE n == Len(r)
<1>1. IsSeq(r) /\ n \in Nat
  BY IsSeqLen DEF Elements
<1>2. CASE IsText(e) /\ r # Nothing /\ IsText(r[n])
  <2> DEFINE f == SubSeq(r, 1, n - 1)
             o == r[n]
             x == Text(o.s \o e.s)
  <2>1. n # 0 /\ n \in 1..n /\ n - 1 + 1 = n
    BY <1>1, <1>2, EmptyIff
  <2>2. /\ IsSeq(f) /\ Len(f) = n - 1 /\ \A k \in 1..(n - 1) : f[k] = r[k]
        /\ r = Append(f, o) /\ [r EXCEPT ![n] = x] = Append(f, x)
    BY <1>1, <2>1, LastOf
  <2>3. Merged(r, e) = Append(f, x)
    BY <1>2, <2>2 DEF Merged
  <2>4. IsElement(o) /\ IsSeq(o.s) /\ IsSeq(e.s) /\ Said(o) = Tokens(o.s) /\ Said(e) = Tokens(e.s)
    BY <1>2, <2>1 DEF Elements, IsElement, Said
  <2>5. IsSeq(o.s \o e.s) /\ Tokens(o.s \o e.s) = Tokens(o.s) \o Tokens(e.s)
    BY <2>4, ConcatIsSeq, TokensConcat
  <2>6. IsElement(x) /\ Said(x) = Said(o) \o Said(e) /\ IsText(x)
    BY <2>4, <2>5, TextIs
  <2>7. Elements(f)
    BY <1>1, <2>2 DEF Elements
  <2> HIDE DEF f, o, x
  <2>8. /\ Elements(Append(f, x)) /\ Say(Append(f, x)) = Say(f) \o Said(x)
        /\ Say(r) = Say(f) \o Said(o)
    BY <2>2, <2>4, <2>6, <2>7, SayAppend
  <2>9. IsSeq(Say(f)) /\ IsSeq(Said(o)) /\ IsSeq(Said(e))
    BY <2>4, <2>7, SayIs, TokensIsSeq
  <2>10. Say(Append(f, x)) = Say(r) \o Said(e)
    BY <2>6, <2>8, <2>9, ConcatAssoc
  <2>11. /\ Len(Append(f, x)) = n /\ Append(f, x)[n] = x
         /\ \A k \in 1..(n - 1) : Append(f, x)[k] = r[k]
    BY <2>1, <2>2, AppendIsSeq
  <2>12. \A k \in 1..n : k = n \/ k \in 1..(n - 1)
    BY <1>1
  <2>13. Within(Append(f, x), A)
    BY <2>6, <2>11, <2>12 DEF Within
  <2>14. QED
    BY <1>1, <2>1, <2>3, <2>8, <2>10, <2>11, <2>13
<1>3. CASE ~(IsText(e) /\ r # Nothing /\ IsText(r[n]))
  <2>1. Merged(r, e) = Append(r, e)
    BY <1>3 DEF Merged
  <2>2. /\ Len(Append(r, e)) = n + 1 /\ Append(r, e)[n + 1] = e
        /\ \A k \in 1..n : Append(r, e)[k] = r[k]
    BY <1>1, AppendIsSeq
  <2>3. Within(Append(r, e), A)
    <3>1. \A k \in 1..(n + 1) : k = n + 1 \/ k \in 1..n
      BY <1>1
    <3>2. QED
      BY <2>2, <3>1 DEF Within
  <2>4. QED
    BY <1>1, <2>1, <2>2, <2>3, SayAppend
<1>4. QED
  BY <1>2, <1>3

\* Merging texts changes nothing that is said.
LEMMA MergeSays ==
    ASSUME NEW es, Elements(es)
    PROVE  /\ Elements(mergeContinuousTextMessages(es)) /\ Say(mergeContinuousTextMessages(es)) = Say(es)
           /\ Within(mergeContinuousTextMessages(es), {es[i] : i \in 1..Len(es)})
<1> DEFINE u(i) == SubSeq(es, 1, i)
           r == MergedAll(es)
           A == {es[i] : i \in 1..Len(es)}
<1>1. IsSeq(es) /\ Len(es) \in Nat
  BY IsSeqLen DEF Elements
<1>2. PICK f : /\ f[0] = Nothing
               /\ \A i \in 1..Len(es) : f[i] = Merged(f[i - 1], es[i])
               /\ r = f[Len(es)]
  BY <1>1, MergeIs
<1> HIDE DEF r
<1> DEFINE P(i) == /\ Elements(u(i)) /\ Elements(f[i]) /\ Say(f[i]) = Say(u(i)) /\ Within(f[i], A)
                   /\ i > 0 => Len(f[i]) > 0
           S == {i \in Nat : i <= Len(es) => P(i)}
<1>3. 0 \in S
  <2>1. u(0) = <<>> /\ f[0] = <<>>
    BY <1>1, <1>2, WholeBeginning DEF Nothing
  <2>2. Within(<<>>, A)
    BY EmptyIsSeq DEF Within
  <2>3. P(0)
    <3> HIDE DEF A
    <3>1. QED
      BY <2>1, <2>2, SayEmpty
  <2>4. QED
    BY <2>3
<1>4. ASSUME NEW i \in Nat, i \in S PROVE i + 1 \in S
  <2>1. ASSUME NEW m, m = i + 1, m <= Len(es) PROVE P(m)
    <3>1. m \in 1..Len(es) /\ m - 1 = i /\ i <= Len(es)
      BY <1>1, <2>1
    <3>2. u(m) = Append(u(i), es[m]) /\ f[m] = Merged(f[i], es[m]) /\ IsElement(es[m]) /\ es[m] \in A
      BY <1>1, <1>2, <3>1, BeginningGrows DEF Elements
    <3>3. Elements(u(i)) /\ Elements(f[i]) /\ Say(f[i]) = Say(u(i)) /\ Within(f[i], A)
      BY <1>4, <3>1
    <3> HIDE DEF u, A
    <3>4. Elements(u(m)) /\ Say(u(m)) = Say(u(i)) \o Said(es[m])
      BY <3>2, <3>3, SayAppend
    <3>5. Elements(f[m]) /\ Say(f[m]) = Say(f[i]) \o Said(es[m]) /\ Len(f[m]) > 0 /\ Within(f[m], A)
      BY <3>2, <3>3, MergedSays
    <3>6. QED
      BY <3>3, <3>4, <3>5
  <2>2. QED
    BY <2>1
<1>5. Nat \subseteq S
  <2> HIDE DEF S
  <2>1. QED
    BY <1>3, <1>4, Induction
<1>6. P(Len(es))
  <2>1. \A i \in Nat : i <= Len(es) => P(i)
    BY <1>5
  <2> HIDE DEF P
  <2>2. QED
    BY <1>1, <2>1
<1> HIDE DEF A
<1>7. Elements(r) /\ Say(r) = Say(es) /\ (Len(es) > 0 => Len(r) > 0) /\ Len(r) \in Nat /\ Within(r, A)
  BY <1>1, <1>2, <1>6, WholeBeginning, IsSeqLen DEF Elements
<1>8. mergeContinuousTextMessages(es) = IF Len(r) < Len(es) /\ Last(r) = Text(Nothing) THEN Front(r) ELSE r
  BY DEF mergeContinuousTextMessages, MergedAll, r
<1>9. CASE Len(r) < Len(es) /\ Last(r) = Text(Nothing)
  <2> DEFINE g == SubSeq(r, 1, Len(r) - 1)
             x == r[Len(r)]
  <2>1. Len(r) # 0 /\ IsSeq(r)
    BY <1>1, <1>7, <1>9 DEF Elements
  <2>2. IsSeq(g) /\ Len(g) = Len(r) - 1 /\ (\A k \in 1..(Len(r) - 1) : g[k] = r[k]) /\ r = Append(g, x)
    BY <2>1, LastOf
  <2>3. x = Text(<<>>) /\ Front(r) = g
    BY <1>9 DEF Last, Front, Nothing
  <2>4. IsElement(x) /\ Said(x) = <<>>
    <3>1. Tokens(<<>>) = <<>>
      BY DEF Tokens
    <3>2. QED
      BY <2>3, <3>1, TextIs, EmptyIsSeq
  <2>5. Elements(g) /\ Within(g, A)
    <3>1. \A k \in 1..Len(g) : k \in 1..Len(r) /\ g[k] = r[k]
      BY <1>7, <2>2
    <3>2. QED
      BY <1>7, <2>2, <3>1 DEF Elements, Within
  <2> HIDE DEF g, x
  <2>6. Say(r) = Say(g) \o <<>> /\ IsSeq(Say(g))
    BY <2>2, <2>4, <2>5, SayAppend, SayIs
  <2>7. Say(g) = Say(r)
    BY <2>6, ConcatEmpty
  <2>8. QED
    BY <1>7, <1>8, <1>9, <2>3, <2>5, <2>7 DEF A
<1>10. CASE ~(Len(r) < Len(es) /\ Last(r) = Text(Nothing))
  BY <1>7, <1>8, <1>10 DEF A
<1>11. QED
  BY <1>9, <1>10


\* A part that can be sent, or that is one element that cannot be cut.
Sendable(p) == Estimate(p) <= MaxMessageSize \/ (Len(p) = 1 /\ ~IsText(p[1]))
Parts(r) == AreSeqs(r) /\ \A k \in 1..Len(r) : Elements(r[k]) /\ Sendable(r[k])

\* The size of a message of one element.
LEMMA EstimateOne ==
    ASSUME NEW e, IsElement(e)
    PROVE  Estimate(<<e>>) = Size(e)
<1>1. Estimate(Append(<<>>, e)) = Estimate(<<>>) + Size(e) /\ Estimate(<<>>) = 0 /\ Size(e) \in Nat
  BY EstimateAppend, SayEmpty
<1>2. Append(<<>>, e) = <<e>>
  OBVIOUS
<1>3. QED
  BY <1>1, <1>2

\* A step of splitMessages keeps the parts short and appends its element.
LEMMA AddToPartKeeps ==
    ASSUME NEW r, Parts(r), NEW e, IsElement(e), IsText(e) => Bytes(e.s) <= MaxMessageSize
    PROVE  Parts(AddToPart(r, e)) /\ FlattenSeq(AddToPart(r, e)) = Append(FlattenSeq(r), e)
<1> DEFINE n == Len(r)
<1>1. AreSeqs(r) /\ IsSeq(r) /\ n \in Nat /\ IsSeq(FlattenSeq(r))
  BY IsSeqLen, FlattenIsSeq DEF Parts, AreSeqs
<1>2. Append(FlattenSeq(r), e) = FlattenSeq(r) \o <<e>>
  BY <1>1, AppendIsSeq
<1>3. CASE r # Nothing /\ Estimate(r[n]) + Estimate(<<e>>) <= MaxMessageSize
  <2> DEFINE f == SubSeq(r, 1, n - 1)
             o == r[n]
             x == Append(o, e)
  <2>1. n # 0 /\ n \in 1..n
    BY <1>1, <1>3, EmptyIff
  <2>2. /\ IsSeq(f) /\ Len(f) = n - 1 /\ \A k \in 1..(n - 1) : f[k] = r[k]
        /\ r = Append(f, o) /\ [r EXCEPT ![n] = x] = Append(f, x)
    BY <1>1, <2>1, LastOf
  <2>3. AddToPart(r, e) = Append(f, x)
    BY <1>3, <2>2 DEF AddToPart
  <2>4. IsSeq(o) /\ Elements(o)
    BY <2>1 DEF Parts, AreSeqs
  <2>5. Elements(x) /\ Estimate(x) = Estimate(o) + Size(e) /\ x = o \o <<e>>
    BY <2>4, SayAppend, EstimateAppend, AppendIsSeq
  <2>6. Sendable(x)
    BY <1>3, <2>5, EstimateOne DEF Sendable
  <2>7. AreSeqs(f) /\ \A k \in 1..Len(f) : Elements(f[k]) /\ Sendable(f[k])
    <3>1. \A k \in 1..Len(f) : k \in 1..n /\ f[k] = r[k]
      BY <1>1, <2>2
    <3>2. QED
      BY <2>2, <3>1 DEF Parts, AreSeqs
  <2> HIDE DEF f, o, x
  <2>8. IsSeq(x)
    BY <2>5 DEF Elements
  <2>9. /\ AreSeqs(Append(f, x)) /\ FlattenSeq(Append(f, x)) = FlattenSeq(f) \o x
        /\ FlattenSeq(r) = FlattenSeq(f) \o o /\ IsSeq(FlattenSeq(f))
    BY <2>2, <2>4, <2>7, <2>8, FlattenAppend, FlattenIsSeq
  <2>10. FlattenSeq(Append(f, x)) = FlattenSeq(r) \o <<e>>
    <3>1. IsSeq(<<e>>)
      BY OneIsSeq
    <3>2. (FlattenSeq(f) \o o) \o <<e>> = FlattenSeq(f) \o (o \o <<e>>)
      BY <2>4, <2>9, <3>1, ConcatAssoc
    <3>3. QED
      BY <2>5, <2>9, <3>2
  <2>11. \A k \in 1..Len(Append(f, x)) : Elements(Append(f, x)[k]) /\ Sendable(Append(f, x)[k])
    <3>1. /\ Len(Append(f, x)) = n /\ Append(f, x)[n] = x
          /\ \A k \in 1..(n - 1) : Append(f, x)[k] = f[k]
      BY <1>1, <2>2, AppendIsSeq
    <3>2. \A k \in 1..n : k = n \/ k \in 1..(n - 1)
      BY <1>1
    <3>3. QED
      BY <2>2, <2>5, <2>6, <2>7, <3>1, <3>2
  <2>12. QED
    BY <1>2, <2>3, <2>9, <2>10, <2>11 DEF Parts
<1>4. CASE ~(r # Nothing /\ Estimate(r[n]) + Estimate(<<e>>) <= MaxMessageSize)
  <2> DEFINE x == <<e>>
  <2>1. AddToPart(r, e) = Append(r, x)
    BY <1>4 DEF AddToPart
  <2>2. IsSeq(x) /\ Elements(x) /\ Len(x) = 1 /\ x[1] = e
    BY OneIsSeq, SayOne
  <2>3. Estimate(x) = Size(e)
    BY EstimateOne
  <2> HIDE DEF x
  <2>4. Sendable(x)
    BY <2>2, <2>3 DEF Sendable, Size
  <2>5. AreSeqs(Append(r, x)) /\ FlattenSeq(Append(r, x)) = FlattenSeq(r) \o x
    BY <1>1, <2>2, FlattenAppend
  <2>6. \A k \in 1..Len(Append(r, x)) : Elements(Append(r, x)[k]) /\ Sendable(Append(r, x)[k])
    <3>1. /\ Len(Append(r, x)) = n + 1 /\ Append(r, x)[n + 1] = x
          /\ \A k \in 1..n : Append(r, x)[k] = r[k]
      BY <1>1, AppendIsSeq
    <3>2. \A k \in 1..(n + 1) : k = n + 1 \/ k \in 1..n
      BY <1>1
    <3>3. QED
      BY <2>2, <2>4, <3>1, <3>2 DEF Parts
  <2>7. QED
    BY <1>2, <2>1, <2>5, <2>6 DEF Parts, x
<1>5. QED
  BY <1>3, <1>4

\* The loop of splitMessages, an element at a time.
LEMMA PartIs ==
    ASSUME NEW es, IsSeq(es)
    PROVE  \E f : /\ f[0] = Nothing
                  /\ \A i \in 1..Len(es) : f[i] = AddToPart(f[i - 1], es[i])
                  /\ splitMessages(es) = f[Len(es)]
<1> DEFINE G(n, f) == f = [i \in 0..n |-> IF i = 0 THEN Nothing ELSE AddToPart(f[i - 1], es[i])]
           S == {n \in Nat : \E f : G(n, f)}
           h == CHOOSE f : G(Len(es), f)
<1>1. 0 \in S
  <2>1. G(0, [i \in 0..0 |-> Nothing])
    OBVIOUS
  <2>2. QED
    BY <2>1
<1>2. ASSUME NEW n \in Nat, n \in S PROVE n + 1 \in S
  <2>1. PICK f : G(n, f)
    BY <1>2
  <2> DEFINE g == [i \in 0..(n + 1) |-> IF i <= n THEN f[i] ELSE AddToPart(f[i - 1], es[i])]
  <2>2. \A i \in 0..n : f[i] = IF i = 0 THEN Nothing ELSE AddToPart(f[i - 1], es[i])
    BY <2>1
  <2>3. \A i \in 0..n : g[i] = f[i]
    OBVIOUS
  <2>4. ASSUME NEW i \in 0..(n + 1) PROVE g[i] = IF i = 0 THEN Nothing ELSE AddToPart(g[i - 1], es[i])
    <3>1. i # 0 => i - 1 \in 0..n /\ g[i - 1] = f[i - 1]
      BY <2>3
    <3>2. g[i] = IF i = 0 THEN Nothing ELSE AddToPart(f[i - 1], es[i])
      BY <2>2
    <3> HIDE DEF g
    <3>3. QED
      BY <3>1, <3>2
  <2>5. G(n + 1, g)
    BY <2>4
  <2> HIDE DEF G
  <2>6. QED
    BY <2>5
<1>3. Len(es) \in Nat
  BY IsSeqLen
<1>4. Len(es) \in S
  <2> HIDE DEF S
  <2>1. QED
    BY <1>1, <1>2, <1>3, Induction
<1>5. G(Len(es), h)
  BY <1>4
<1>6. splitMessages(es) = h[Len(es)]
  BY DEF splitMessages
<1> HIDE DEF h
<1>7. h[0] = Nothing /\ \A i \in 1..Len(es) : h[i] = AddToPart(h[i - 1], es[i])
  BY <1>3, <1>5
<1>8. QED
  BY <1>6, <1>7


\* The parts of a message none of whose texts is too long.
LEMMA SplitMessagesKeeps ==
    ASSUME NEW es, Short(es)
    PROVE  Parts(splitMessages(es)) /\ FlattenSeq(splitMessages(es)) = es
<1> DEFINE u(i) == SubSeq(es, 1, i)
<1>1. IsSeq(es) /\ Len(es) \in Nat
  BY IsSeqLen DEF Elements, Short
<1>2. PICK f : /\ f[0] = Nothing
               /\ \A i \in 1..Len(es) : f[i] = AddToPart(f[i - 1], es[i])
               /\ splitMessages(es) = f[Len(es)]
  BY <1>1, PartIs
<1> DEFINE P(i) == Parts(f[i]) /\ FlattenSeq(f[i]) = u(i)
           S == {i \in Nat : i <= Len(es) => P(i)}
<1>3. 0 \in S
  <2>1. u(0) = <<>> /\ f[0] = <<>>
    BY <1>1, <1>2, WholeBeginning DEF Nothing
  <2>2. AreSeqs(<<>>) /\ FlattenSeq(<<>>) = <<>> /\ Parts(<<>>)
    BY FlattenEmpty, EmptyIsSeq DEF Parts
  <2>3. P(0)
    BY <2>1, <2>2
  <2>4. QED
    BY <2>3
<1>4. ASSUME NEW i \in Nat, i \in S PROVE i + 1 \in S
  <2>1. ASSUME NEW m, m = i + 1, m <= Len(es) PROVE P(m)
    <3>1. m \in 1..Len(es) /\ m - 1 = i /\ i <= Len(es)
      BY <1>1, <2>1
    <3>2. /\ u(m) = Append(u(i), es[m]) /\ f[m] = AddToPart(f[i], es[m])
          /\ IsElement(es[m]) /\ (IsText(es[m]) => Bytes(es[m].s) <= MaxMessageSize)
      BY <1>1, <1>2, <3>1, BeginningGrows DEF Short, Elements
    <3>3. Parts(f[i]) /\ FlattenSeq(f[i]) = u(i)
      BY <1>4, <3>1
    <3> HIDE DEF u
    <3>4. QED
      BY <3>2, <3>3, AddToPartKeeps
  <2>2. QED
    BY <2>1
<1>5. Nat \subseteq S
  <2> HIDE DEF S
  <2>1. QED
    BY <1>3, <1>4, Induction
<1>6. P(Len(es))
  BY <1>1, <1>5
<1>7. QED
  BY <1>1, <1>2, <1>6, WholeBeginning

(* However long a message is and wherever its texts are cut, the parts that  *)
(* SplitLongMessage makes of it say together what the message says, and none *)
(* is longer than the server takes, but for one element that is no text and  *)
(* stands alone: for every message, not for those some run has.              *)
THEOREM SplitLongMessageIsExact ==
    ASSUME NEW es, Elements(es)
    PROVE  /\ Say(FlattenSeq(SplitLongMessage(es))) = Say(es)
           /\ Parts(SplitLongMessage(es))
<1> DEFINE m == mergeContinuousTextMessages(es)
           p == splitElements(m)
<1>1. Elements(m) /\ Say(m) = Say(es)
  BY MergeSays
<1> HIDE DEF m
<1>2. Short(p) /\ Say(p) = Say(m)
  BY <1>1, SplitElementsSays
<1> HIDE DEF p
<1>3. Parts(splitMessages(p)) /\ FlattenSeq(splitMessages(p)) = p
  BY <1>2, SplitMessagesKeeps
<1>4. QED
  BY <1>1, <1>2, <1>3 DEF SplitLongMessage, p, m


----------------------------------------------------------------------------
(* The robot's own way of cutting a text. *)

\* Length and elements of what is between two places of a text.
LEMMA PartOf ==
    ASSUME NEW s, IsSeq(s), NEW i \in 0..Len(s), NEW j \in i..Len(s)
    PROVE  /\ IsSeq(SubSeq(s, i + 1, j)) /\ Len(SubSeq(s, i + 1, j)) = j - i
           /\ \A k \in 1..(j - i) : SubSeq(s, i + 1, j)[k] = s[i + k]
<1> DEFINE S == {s[k] : k \in DOMAIN s}
<1>1. s \in Seq(S) /\ Len(s) \in Nat
  BY IsSeqLen DEF IsSeq
<1> HIDE DEF S
<1>2. /\ SubSeq(s, i + 1, j) \in Seq(S) /\ Len(SubSeq(s, i + 1, j)) = j - i
      /\ \A k \in 1..(j - i) : SubSeq(s, i + 1, j)[k] = s[i + k]
  BY <1>1
<1>3. QED
  BY <1>2, SeqIsSeq

\* A text from i on is its part up to j and its part from j on.
LEMMA PartsJoin ==
    ASSUME NEW s, IsSeq(s), NEW i \in 0..Len(s), NEW j \in i..Len(s)
    PROVE  SubSeq(s, i + 1, Len(s)) = SubSeq(s, i + 1, j) \o SubSeq(s, j + 1, Len(s))
<1> DEFINE n == Len(s)
           a == SubSeq(s, i + 1, n)
           b == SubSeq(s, i + 1, j)
           c == SubSeq(s, j + 1, n)
           d == b \o c
<1>0. n \in Nat /\ i \in Nat /\ j \in Nat /\ i <= j /\ j <= n
  BY IsSeqLen
<1>1. IsSeq(a) /\ Len(a) = n - i /\ \A k \in 1..(n - i) : a[k] = s[i + k]
  BY <1>0, PartOf
<1>2. IsSeq(b) /\ Len(b) = j - i /\ \A k \in 1..(j - i) : b[k] = s[i + k]
  BY <1>0, PartOf
<1>3. IsSeq(c) /\ Len(c) = n - j /\ \A k \in 1..(n - j) : c[k] = s[j + k]
  BY <1>0, PartOf
<1> HIDE DEF a, b, c
<1>4. /\ IsSeq(d) /\ Len(d) = Len(b) + Len(c)
      /\ \A k \in 1..Len(b) : d[k] = b[k]
      /\ \A k \in 1..Len(c) : d[Len(b) + k] = c[k]
  <2>1. IsSeq(b) /\ IsSeq(c)
    BY <1>2, <1>3
  <2>2. QED
    BY <2>1, ConcatIsSeq
<1> HIDE DEF d, n
<1>5. ASSUME NEW k \in 1..Len(a) PROVE a[k] = d[k]
  <2>1. CASE k <= j - i
    <3>1. k \in 1..(j - i) /\ k \in 1..(n - i)
      BY <1>0, <1>1, <2>1
    <3>2. QED
      BY <1>1, <1>2, <1>4, <3>1
  <2>2. CASE ~(k <= j - i)
    <3>1. k - (j - i) \in 1..(n - j) /\ k \in 1..(n - i)
      BY <1>0, <1>1, <2>2
    <3>2. PICK l \in 1..(n - j) : l = k - (j - i)
      BY <3>1
    <3>3. Len(b) + l = k /\ j + l = i + k
      BY <1>0, <1>1, <1>2, <3>2
    <3>4. d[k] = c[l] /\ c[l] = s[j + l]
      BY <1>3, <1>4, <3>2, <3>3
    <3>5. QED
      BY <1>1, <3>1, <3>3, <3>4
  <2>3. QED
    BY <1>0, <1>1, <2>1, <2>2
<1>6. Len(a) = Len(d)
  BY <1>0, <1>1, <1>2, <1>3, <1>4
<1>7. a = d
  BY <1>1, <1>4, <1>5, <1>6, SeqEq
<1>8. QED
  BY <1>7 DEF a, b, c, d, n

\* A part has a character at least, and fits.
LEMMA FittingIs ==
    ASSUME NEW s, IsSeq(s), NEW i \in 0..Len(s), i # Len(s)
    PROVE  /\ Max(Fitting(s, i)) \in (i + 1)..Len(s)
           /\ Bytes(SubSeq(s, i + 1, Max(Fitting(s, i)))) <= MaxMessageSize
<1> DEFINE A == Fitting(s, i)
           t == SubSeq(s, i + 1, i + 1)
<1>1. Len(s) \in Nat /\ i \in Nat /\ i + 1 \in i..Len(s) /\ i + 1 - i = 1
  BY IsSeqLen
<1>2. IsSeq(t) /\ Len(t) = 1 /\ t[1] = s[i + 1]
  BY <1>1, PartOf
<1>3. t = <<s[i + 1]>>
  <2> DEFINE o == <<s[i + 1]>>
  <2>1. IsSeq(o) /\ Len(o) = 1 /\ o[1] = s[i + 1]
    BY OneIsSeq
  <2> HIDE DEF t, o
  <2>2. \A k \in 1..1 : t[k] = o[k]
    BY <1>2, <2>1
  <2>3. t = o
    BY <1>2, <2>1, <2>2, SeqEq
  <2>4. QED
    BY <2>3 DEF o
<1>4. i + 1 \in A
  <2>1. Bytes(t) <= MaxMessageSize
    <3> HIDE DEF t
    <3>1. QED
      BY <1>3, BytesOne
  <2>2. QED
    BY <1>1, <2>1 DEF Fitting
<1>5. A \subseteq i..Len(s) /\ A \subseteq 0..Len(s)
  BY <1>1 DEF Fitting
<1> HIDE DEF t
<1>6. Max(A) \in A /\ \A y \in A : Max(A) >= y
  <2> HIDE DEF A
  <2>1. QED
    BY <1>1, <1>4, <1>5, MaxIs
<1>7. Max(A) \in (i + 1)..Len(s)
  <2> HIDE DEF A
  <2>1. Max(A) >= i + 1 /\ Max(A) \in i..Len(s)
    BY <1>4, <1>5, <1>6
  <2>2. QED
    BY <1>1, <2>1
<1>8. QED
  BY <1>6, <1>7 DEF Fitting

\* The beginning that a part is made of, at i.
Piece(s, i) == SubSeq(s, i + 1, Max(Fitting(s, i)))

\* The recursion of robotParts from the end of the text, by induction.
LEMMA RobotPartsIs ==
    ASSUME NEW s, IsSeq(s)
    PROVE  \E f : /\ f[Len(s)] = Nothing
                  /\ \A i \in 0..Len(s) : i # Len(s) => f[i] = <<Text(Piece(s, i))>> \o f[Max(Fitting(s, i))]
                  /\ robotParts(s) = f[0]
<1> DEFINE n == Len(s)
           J(i) == Max(Fitting(s, i))
           X(i) == <<Text(Piece(s, i))>>
           G(d, f) == f = [i \in (n - d)..n |-> IF i = n THEN Nothing ELSE X(i) \o f[J(i)]]
           S == {d \in Nat : d <= n => \E f : G(d, f)}
           h == CHOOSE f : G(n, f)
<1>1. n \in Nat
  BY IsSeqLen
<1>2. \A i \in 0..n : i # n => J(i) \in (i + 1)..n
  BY FittingIs
<1> HIDE DEF J, X, n
<1>3. 0 \in S
  <2>1. G(0, [i \in (n - 0)..n |-> Nothing])
    BY <1>1
  <2>2. QED
    BY <2>1
<1>4. ASSUME NEW d \in Nat, d \in S PROVE d + 1 \in S
  <2>1. SUFFICES ASSUME d + 1 <= n PROVE \E g : G(d + 1, g)
    OBVIOUS
  <2>2. PICK f : G(d, f)
    BY <1>1, <1>4, <2>1
  <2> DEFINE g == [i \in (n - (d + 1))..n |->
                     IF i \in (n - d)..n THEN f[i] ELSE X(i) \o f[J(i)]]
  <2>3. \A i \in (n - d)..n : f[i] = IF i = n THEN Nothing ELSE X(i) \o f[J(i)]
    BY <2>2
  <2>4. \A i \in (n - d)..n : g[i] = f[i]
    BY <1>1
  <2>5. ASSUME NEW i \in (n - (d + 1))..n PROVE g[i] = IF i = n THEN Nothing ELSE X(i) \o g[J(i)]
    <3>1. i \in 0..n /\ n - d \in 0..n /\ (i \notin (n - d)..n => i # n)
      BY <1>1, <2>1
    <3>2. i # n => J(i) \in (n - d)..n
      <4>1. i # n => J(i) \in (i + 1)..n
        BY <1>2, <3>1
      <4>2. QED
        BY <1>1, <3>1, <4>1
    <3>3. i # n => g[J(i)] = f[J(i)]
      BY <2>4, <3>2
    <3>4. g[i] = IF i \in (n - d)..n THEN f[i] ELSE X(i) \o f[J(i)]
      OBVIOUS
    <3> HIDE DEF g
    <3>5. QED
      BY <2>3, <3>1, <3>3, <3>4
  <2>6. G(d + 1, g)
    BY <2>5
  <2> HIDE DEF G
  <2>7. QED
    BY <2>6
<1>5. n \in S
  <2> HIDE DEF S
  <2>1. QED
    BY <1>1, <1>3, <1>4, Induction
<1>6. G(n, h)
  <2>1. \E f : G(n, f)
    BY <1>1, <1>5
  <2> HIDE DEF G
  <2>2. QED
    BY <2>1
<1>7. h = [i \in 0..n |-> IF i = n THEN Nothing ELSE X(i) \o h[J(i)]]
  <2>1. n - n = 0
    BY <1>1
  <2> HIDE DEF h
  <2>2. QED
    BY <1>6, <2>1
<1>8. robotParts(s) = (CHOOSE f : f = [i \in 0..n |-> IF i = n THEN Nothing ELSE X(i) \o f[J(i)]])[0]
  BY DEF robotParts, Piece, n, X, J
<1>9. h = CHOOSE f : f = [i \in 0..n |-> IF i = n THEN Nothing ELSE X(i) \o f[J(i)]]
  <2>1. n - n = 0
    BY <1>1
  <2>2. QED
    BY <2>1
<1> HIDE DEF h
<1>10. h[n] = Nothing /\ \A i \in 0..n : i # n => h[i] = X(i) \o h[J(i)]
  <2>1. \A i \in 0..n : h[i] = IF i = n THEN Nothing ELSE X(i) \o h[J(i)]
    BY <1>7
  <2>2. n \in 0..n
    BY <1>1
  <2>3. QED
    BY <2>1, <2>2
<1>11. robotParts(s) = h[0]
  BY <1>8, <1>9
<1>12. QED
  BY <1>10, <1>11 DEF n, X, J



\* A piece that fits may be put before pieces that fit.
LEMMA PieceBefore ==
    ASSUME NEW r, Pieces(r), NEW s, IsSeq(s), Bytes(s) <= MaxMessageSize
    PROVE  Pieces(<<Text(s)>> \o r) /\ Say(<<Text(s)>> \o r) = Tokens(s) \o Say(r)
<1> DEFINE x == Text(s)
           o == <<x>>
           t == o \o r
<1>1. IsText(x) /\ x.s = s /\ IsElement(x) /\ Said(x) = Tokens(s)
  BY TextIs
<1> HIDE DEF x
<1>2. IsSeq(o) /\ Len(o) = 1 /\ o[1] = x /\ Elements(o) /\ Say(o) = Tokens(s)
  BY <1>1, OneIsSeq, SayOne
<1>3. Elements(r) /\ IsSeq(r) /\ Len(r) \in Nat
  BY IsSeqLen DEF Pieces, Elements
<1> HIDE DEF o
<1>4. Elements(t) /\ Say(t) = Tokens(s) \o Say(r)
  BY <1>2, <1>3, SayConcat
<1>5. Len(t) = 1 + Len(r) /\ t[1] = x /\ \A k \in 1..Len(r) : t[1 + k] = r[k]
  <2>1. IsSeq(o) /\ IsSeq(r)
    BY <1>2, <1>3
  <2>2. /\ Len(t) = Len(o) + Len(r)
        /\ \A k \in 1..Len(o) : t[k] = o[k]
        /\ \A k \in 1..Len(r) : t[Len(o) + k] = r[k]
    BY <2>1, ConcatIsSeq
  <2> HIDE DEF t
  <2>3. QED
    BY <1>2, <2>2
<1> HIDE DEF t
<1>6. ASSUME NEW k \in 1..Len(t) PROVE IsText(t[k]) /\ Bytes(t[k].s) <= MaxMessageSize
  <2>1. CASE k = 1
    BY <1>1, <1>5, <2>1
  <2>2. CASE k # 1
    <3>1. k - 1 \in 1..Len(r) /\ 1 + (k - 1) = k
      BY <1>3, <1>5, <2>2
    <3>2. PICK l \in 1..Len(r) : 1 + l = k
      BY <3>1
    <3>3. t[k] = r[l]
      BY <1>5, <3>2
    <3>4. QED
      BY <3>3 DEF Pieces
  <2>3. QED
    BY <2>1, <2>2
<1>7. QED
  BY <1>4, <1>6 DEF Pieces, t, o, x

\* The robot cuts as well as the bot does.
LEMMA RobotPlainSays ==
    ASSUME NEW s, IsSeq(s)
    PROVE  Pieces(robotPlain(s)) /\ Say(robotPlain(s)) = Tokens(s)
<1> DEFINE n == Len(s)
           u(i) == SubSeq(s, i + 1, n)
           J(i) == Max(Fitting(s, i))
<1>1. n \in Nat
  BY IsSeqLen
<1>2. CASE ~textNeedSplit(s)
  <2>1. robotPlain(s) = splitPlainMessage(s)
    BY <1>2 DEF robotPlain, splitPlainMessage
  <2>2. QED
    BY <2>1, SplitPlainSays
<1>3. CASE textNeedSplit(s)
  <2>1. PICK f : /\ f[n] = Nothing
                 /\ \A i \in 0..n : i # n => f[i] = <<Text(Piece(s, i))>> \o f[J(i)]
                 /\ robotParts(s) = f[0]
    BY RobotPartsIs
  <2> DEFINE P(i) == Pieces(f[i]) /\ Say(f[i]) = Tokens(u(i))
             S == {d \in Nat : d <= n => \A i \in (n - d)..n : P(i)}
  <2>2. P(n)
    <3>1. IsSeq(u(n)) /\ Len(u(n)) = 0
      BY <1>1, PartOf
    <3>2. u(n) = <<>>
      BY <3>1, EmptyIff DEF Nothing
    <3>3. Tokens(<<>>) = <<>> /\ Pieces(<<>>) /\ Say(<<>>) = <<>>
      BY SayEmpty, EmptyIsSeq DEF Pieces, Tokens
    <3> HIDE DEF u
    <3>4. QED
      BY <2>1, <3>2, <3>3 DEF Nothing
  <2>3. 0 \in S
    <3>1. \A i \in (n - 0)..n : i = n
      BY <1>1
    <3> HIDE DEF P, n
    <3>2. QED
      BY <2>2, <3>1
  <2>4. ASSUME NEW d \in Nat, d \in S PROVE d + 1 \in S
    <3>1. SUFFICES ASSUME d + 1 <= n, NEW i \in (n - (d + 1))..n PROVE P(i)
      OBVIOUS
    <3>2. \A j \in (n - d)..n : P(j)
      BY <1>1, <2>4, <3>1
    <3>3. CASE i \in (n - d)..n
      BY <3>2, <3>3
    <3>4. CASE i \notin (n - d)..n
      <4>1. i \in 0..n /\ i # n /\ i + 1 >= n - d
        BY <1>1, <3>1, <3>4
      <4>2. J(i) \in (i + 1)..n /\ Bytes(Piece(s, i)) <= MaxMessageSize
        BY <4>1, FittingIs DEF Piece
      <4> DEFINE j == J(i)
                 t == Piece(s, i)
      <4>3. j \in i..n /\ j \in (n - d)..n /\ j \in 0..n
        BY <1>1, <4>1, <4>2
      <4>4. f[i] = <<Text(t)>> \o f[j]
        BY <2>1, <4>1
      <4>5. Pieces(f[j]) /\ Say(f[j]) = Tokens(u(j))
        BY <3>2, <4>3
      <4>6. IsSeq(t) /\ IsSeq(u(j)) /\ u(i) = t \o u(j)
        <5> HIDE DEF J
        <5>1. IsSeq(SubSeq(s, i + 1, j)) /\ SubSeq(s, i + 1, n) = SubSeq(s, i + 1, j) \o SubSeq(s, j + 1, n)
          BY <4>1, <4>3, PartOf, PartsJoin
        <5>2. IsSeq(SubSeq(s, j + 1, n))
          BY <1>1, <4>3, PartOf
        <5>3. QED
          BY <5>1, <5>2 DEF Piece, J
      <4>7. Bytes(t) <= MaxMessageSize
        BY <4>2
      <4> HIDE DEF t, j, u
      <4>8. Pieces(f[i]) /\ Say(f[i]) = Tokens(t) \o Say(f[j])
        BY <4>4, <4>5, <4>6, <4>7, PieceBefore
      <4>9. Tokens(u(i)) = Tokens(t) \o Tokens(u(j))
        BY <4>6, TokensConcat
      <4>10. QED
        BY <4>5, <4>8, <4>9
    <3>5. QED
      BY <3>3, <3>4
  <2>5. n \in S
    <3> HIDE DEF S
    <3>1. QED
      BY <1>1, <2>3, <2>4, Induction
  <2>6. P(0)
    <3>1. 0 \in (n - n)..n
      BY <1>1
    <3> HIDE DEF P
    <3>2. QED
      BY <1>1, <2>5, <3>1
  <2>7. SubSeq(s, 0 + 1, n) = s
    BY WholeBeginning
  <2>8. QED
    BY <1>3, <2>1, <2>6, <2>7 DEF robotPlain
<1>4. QED
  BY <1>2, <1>3


\* A sequence is what its elements make one by one.
LEMMA FlattenSingles ==
    ASSUME NEW t, IsSeq(t)
    PROVE  FlattenSeq([i \in DOMAIN t |-> <<t[i]>>]) = t
<1> DEFINE n == Len(t)
           ss == [i \in DOMAIN t |-> <<t[i]>>]
           u(i) == SubSeq(ss, 1, i)
           v(i) == SubSeq(t, 1, i)
           P(i) == AreSeqs(u(i)) /\ FlattenSeq(u(i)) = v(i)
           S == {i \in Nat : i <= n => P(i)}
<1>1. n \in Nat /\ ss = [i \in 1..n |-> <<t[i]>>]
  BY IsSeqLen
<1>2. \A i \in 1..n : ss[i] = <<t[i]>>
  BY <1>1
<1>3. IsSeq(ss) /\ Len(ss) = n
  <2>1. ss = [i \in 1..n |-> ss[i]]
    BY <1>1
  <2> HIDE DEF ss
  <2>2. QED
    BY <1>1, <2>1, FunIsSeq
<1> HIDE DEF ss
<1>4. 0 \in S
  <2>1. u(0) = <<>> /\ v(0) = <<>>
    BY <1>3, WholeBeginning
  <2>2. P(0)
    BY <2>1, FlattenEmpty
  <2>3. QED
    BY <2>2
<1>5. ASSUME NEW i \in Nat, i \in S PROVE i + 1 \in S
  <2>1. ASSUME NEW m, m = i + 1, m <= n PROVE P(m)
    <3>1. m \in 1..n /\ m - 1 = i /\ i <= n /\ i \in 0..n
      BY <1>1, <2>1
    <3>2. u(m) = Append(u(i), <<t[m]>>) /\ v(m) = Append(v(i), t[m]) /\ IsSeq(v(i)) /\ IsSeq(<<t[m]>>)
      <4>1. ss[m] = <<t[m]>> /\ IsSeq(<<t[m]>>) /\ m \in 1..Len(ss)
        BY <1>2, <1>3, <3>1, OneIsSeq
      <4>2. u(m) = Append(u(i), ss[m])
        BY <1>3, <3>1, <4>1, BeginningGrows
      <4>3. v(m) = Append(v(i), t[m]) /\ IsSeq(v(i))
        BY <3>1, BeginningGrows, Beginning
      <4>4. QED
        BY <4>1, <4>2, <4>3
    <3>3. AreSeqs(u(i)) /\ FlattenSeq(u(i)) = v(i)
      BY <1>5, <3>1
    <3> HIDE DEF u, v
    <3>4. AreSeqs(u(m)) /\ FlattenSeq(u(m)) = v(i) \o <<t[m]>>
      BY <3>2, <3>3, FlattenAppend
    <3>5. QED
      BY <3>2, <3>4, AppendIsSeq
  <2>2. QED
    BY <2>1
<1>6. Nat \subseteq S
  <2> HIDE DEF S
  <2>1. QED
    BY <1>4, <1>5, Induction
<1>7. P(n)
  <2>1. \A i \in Nat : i <= n => P(i)
    BY <1>6
  <2> HIDE DEF P
  <2>2. QED
    BY <1>1, <2>1
<1>8. QED
  BY <1>1, <1>3, <1>7, WholeBeginning DEF ss

\* What the robot makes of an element, and of some.
robotOf(e, up) ==
    CASE e.k = "text" -> robotPlain(e.s)
      [] e.k = "image" /\ e.of = "group" -> IF up THEN <<LocalImage>> ELSE Nothing
      [] e.k = "at" -> <<Text(<<"@", e.to>>)>>
      [] e.k = "face" \/ LightApp(e) -> <<e>>
      [] OTHER -> robotPlain(<<"{}">>)
Robots(es, up) == [i \in DOMAIN es |-> robotOf(es[i], up)]
Robotable(e) == IsElement(e) /\ (e.k = "at" => Bytes(<<"@", e.to>>) <= MaxMessageSize)
AreRobotable(es) == IsSeq(es) /\ \A i \in 1..Len(es) : Robotable(es[i])

\* Pieces of text are short elements.
LEMMA PiecesShort ==
    ASSUME NEW r, Pieces(r)
    PROVE  Short(r)
BY DEF Pieces, Short

\* What the robot makes of an element is short; of a text, it says the same.
LEMMA RobotOfIs ==
    ASSUME NEW e, Robotable(e), NEW up
    PROVE  Short(robotOf(e, up)) /\ (IsText(e) => Say(robotOf(e, up)) = Tokens(e.s))
<1>1. CASE e.k = "text"
  <2>1. robotOf(e, up) = robotPlain(e.s) /\ IsSeq(e.s)
    BY <1>1 DEF robotOf, Robotable, IsElement, IsText, LightApp
  <2>2. QED
    BY <2>1, RobotPlainSays, PiecesShort
<1>2. CASE e.k = "image" /\ e.of = "group"
  <2>1. robotOf(e, up) = IF up THEN <<LocalImage>> ELSE Nothing
    BY <1>2 DEF robotOf, LightApp
  <2>2. ~IsText(LocalImage) /\ IsElement(LocalImage) /\ ~IsText(e)
    BY <1>2 DEF LocalImage, IsText, IsElement
  <2>3. Elements(<<LocalImage>>) /\ Len(<<LocalImage>>) = 1 /\ <<LocalImage>>[1] = LocalImage
    BY <2>2, SayOne, OneIsSeq
  <2>4. Short(<<LocalImage>>)
    BY <2>2, <2>3 DEF Short
  <2>5. Short(<<>>)
    BY SayEmpty, EmptyIsSeq DEF Short
  <2>6. QED
    BY <2>1, <2>2, <2>4, <2>5 DEF Nothing
<1>3. CASE e.k = "at"
  <2> DEFINE x == Text(<<"@", e.to>>)
  <2>1. robotOf(e, up) = <<x>>
    BY <1>3 DEF robotOf, LightApp
  <2>2. IsElement(x) /\ x.s = <<"@", e.to>> /\ ~IsText(e) /\ Bytes(<<"@", e.to>>) <= MaxMessageSize
    BY <1>3, TextIs, TwoIsSeq DEF Robotable, IsText
  <2> HIDE DEF x
  <2>3. Elements(<<x>>) /\ Len(<<x>>) = 1 /\ <<x>>[1] = x
    BY <2>2, SayOne, OneIsSeq
  <2>4. QED
    BY <2>1, <2>2, <2>3 DEF Short
<1>4. CASE e.k = "face" \/ LightApp(e)
  <2>1. robotOf(e, up) = <<e>> /\ ~IsText(e)
    BY <1>4 DEF robotOf, IsText, LightApp
  <2>2. Elements(<<e>>) /\ Len(<<e>>) = 1 /\ <<e>>[1] = e
    BY SayOne, OneIsSeq DEF Robotable
  <2>3. QED
    BY <2>1, <2>2 DEF Short
<1>5. CASE ~(e.k = "text") /\ ~(e.k = "image" /\ e.of = "group") /\ ~(e.k = "at") /\ ~(e.k = "face" \/ LightApp(e))
  <2>1. robotOf(e, up) = robotPlain(<<"{}">>) /\ ~IsText(e)
    BY <1>5 DEF robotOf, IsText, LightApp
  <2>2. IsSeq(<<"{}">>)
    BY OneIsSeq
  <2>3. QED
    BY <2>1, <2>2, RobotPlainSays, PiecesShort
<1>6. QED
  BY <1>1, <1>2, <1>3, <1>4, <1>5


\* robotElements is robotOf of each element, flattened.
LEMMA RobotsIs ==
    ASSUME NEW es, AreRobotable(es), NEW up
    PROVE  /\ robotElements(es, up) = FlattenSeq(Robots(es, up)) /\ Elements(es)
           /\ AreSeqs(Robots(es, up)) /\ Len(Robots(es, up)) = Len(es)
           /\ \A i \in 1..Len(es) : Robots(es, up)[i] = robotOf(es[i], up) /\ Short(Robots(es, up)[i])
<1> DEFINE ss == Robots(es, up)
<1>1. robotElements(es, up) = FlattenSeq(ss)
  BY DEF robotElements, Each, Robots, robotOf
<1>2. Len(es) \in Nat /\ ss = [i \in 1..Len(es) |-> robotOf(es[i], up)]
  BY IsSeqLen DEF Robots, AreRobotable
<1>3. \A i \in 1..Len(es) : ss[i] = robotOf(es[i], up)
  BY <1>2
<1>4. IsSeq(ss) /\ Len(ss) = Len(es)
  <2>1. ss = [i \in 1..Len(es) |-> ss[i]]
    BY <1>2
  <2> HIDE DEF ss
  <2>2. QED
    BY <1>2, <2>1, FunIsSeq
<1> HIDE DEF ss
<1>5. \A i \in 1..Len(es) : Short(ss[i]) /\ IsSeq(ss[i])
  BY <1>3, RobotOfIs DEF AreRobotable, Short, Elements
<1>6. AreSeqs(ss)
  BY <1>4, <1>5 DEF AreSeqs
<1>7. Elements(es)
  BY DEF AreRobotable, Robotable, Elements
<1>8. QED
  BY <1>1, <1>3, <1>4, <1>5, <1>6, <1>7 DEF ss

\* All elements the robot makes are short.
LEMMA RobotShort ==
    ASSUME NEW es, AreRobotable(es), NEW up
    PROVE  Short(robotElements(es, up)) /\ IsSeq(Say(robotElements(es, up)))
<1> DEFINE ss == Robots(es, up)
<1>1. AreSeqs(ss) /\ Len(ss) = Len(es) /\ robotElements(es, up) = FlattenSeq(ss)
  BY RobotsIs
<1>2. \A i \in 1..Len(ss) : Short(ss[i])
  BY <1>1, RobotsIs
<1> HIDE DEF ss
<1>3. Elements(FlattenSeq(ss))
  BY <1>1, <1>2, SayFlattened DEF Short
<1>4. ASSUME NEW j \in 1..Len(FlattenSeq(ss)), IsText(FlattenSeq(ss)[j])
      PROVE  Bytes(FlattenSeq(ss)[j].s) <= MaxMessageSize
  <2>1. PICK k \in 1..Len(ss) : \E l \in 1..Len(ss[k]) : FlattenSeq(ss)[j] = ss[k][l]
    BY <1>1, FlattenFrom
  <2>2. QED
    BY <1>2, <1>4, <2>1 DEF Short
<1>5. QED
  BY <1>1, <1>3, <1>4, SayIs DEF Short

\* The robot translates two messages one after the other.
LEMMA RobotConcat ==
    ASSUME NEW a, AreRobotable(a), NEW b, AreRobotable(b), NEW up
    PROVE  /\ AreRobotable(a \o b)
           /\ Say(robotElements(a \o b, up)) = Say(robotElements(a, up)) \o Say(robotElements(b, up))
<1> DEFINE u == a \o b
           w == Robots(u, up)
           x == Robots(a, up)
           y == Robots(b, up)
           v == x \o y
<1>0. IsSeq(a) /\ IsSeq(b) /\ Len(a) \in Nat /\ Len(b) \in Nat
  BY IsSeqLen DEF AreRobotable
<1>1. /\ IsSeq(u) /\ Len(u) = Len(a) + Len(b)
      /\ \A i \in 1..Len(a) : u[i] = a[i]
      /\ \A i \in 1..Len(b) : u[Len(a) + i] = b[i]
  BY <1>0, ConcatIsSeq
<1> HIDE DEF u
<1>2. \A i \in 1..Len(u) : i \in 1..Len(a) \/ \E j \in 1..Len(b) : i = Len(a) + j
  <2>1. SUFFICES ASSUME NEW i \in 1..Len(u), i \notin 1..Len(a) PROVE \E j \in 1..Len(b) : i = Len(a) + j
    OBVIOUS
  <2>2. i - Len(a) \in 1..Len(b) /\ i = Len(a) + (i - Len(a))
    BY <1>0, <1>1, <2>1
  <2>3. QED
    BY <2>2
<1>3. AreRobotable(u)
  BY <1>1, <1>2 DEF AreRobotable
<1>4. IsSeq(w) /\ Len(w) = Len(u) /\ \A i \in 1..Len(u) : w[i] = robotOf(u[i], up)
  BY <1>3, RobotsIs DEF AreSeqs
<1>5. /\ IsSeq(x) /\ Len(x) = Len(a) /\ \A i \in 1..Len(a) : x[i] = robotOf(a[i], up)
      /\ IsSeq(y) /\ Len(y) = Len(b) /\ \A i \in 1..Len(b) : y[i] = robotOf(b[i], up)
  BY RobotsIs DEF AreSeqs
<1>6. AreSeqs(x) /\ AreSeqs(y)
  BY RobotsIs
<1> HIDE DEF w, x, y
<1>7. /\ IsSeq(v) /\ Len(v) = Len(x) + Len(y)
      /\ \A i \in 1..Len(x) : v[i] = x[i]
      /\ \A i \in 1..Len(y) : v[Len(x) + i] = y[i]
  BY <1>5, ConcatIsSeq
<1> HIDE DEF v
<1>8. ASSUME NEW i \in 1..Len(w) PROVE w[i] = v[i]
  <2>0. i \in 1..Len(u)
    BY <1>4
  <2>1. CASE i \in 1..Len(a)
    <3>1. w[i] = robotOf(u[i], up) /\ u[i] = a[i] /\ v[i] = x[i] /\ x[i] = robotOf(a[i], up)
      BY <1>1, <1>4, <1>5, <1>7, <2>0, <2>1
    <3>2. QED
      BY <3>1
  <2>2. CASE i \notin 1..Len(a)
    <3>1. PICK j \in 1..Len(b) : i = Len(a) + j
      BY <1>2, <2>0, <2>2
    <3>2. w[i] = robotOf(u[i], up) /\ u[i] = b[j] /\ v[i] = y[j] /\ y[j] = robotOf(b[j], up)
      BY <1>1, <1>4, <1>5, <1>7, <2>0, <3>1
    <3>3. QED
      BY <3>2
  <2>3. QED
    BY <2>1, <2>2
<1>9. w = v
  BY <1>1, <1>4, <1>5, <1>7, <1>8, SeqEq
<1>10. robotElements(u, up) = FlattenSeq(x) \o FlattenSeq(y)
  <2>1. robotElements(u, up) = FlattenSeq(w)
    BY <1>3, RobotsIs DEF w
  <2>2. FlattenSeq(x \o y) = FlattenSeq(x) \o FlattenSeq(y)
    BY <1>6, FlattenConcat
  <2>3. QED
    BY <1>9, <2>1, <2>2 DEF v
<1>11. robotElements(a, up) = FlattenSeq(x) /\ robotElements(b, up) = FlattenSeq(y)
  BY RobotsIs DEF x, y
<1>12. Elements(robotElements(a, up)) /\ Elements(robotElements(b, up))
  BY RobotShort DEF Short
<1>13. QED
  BY <1>3, <1>10, <1>11, <1>12, SayConcat DEF u

\* ... and a message of one element as that element.
LEMMA RobotOne ==
    ASSUME NEW e, Robotable(e), NEW up
    PROVE  AreRobotable(<<e>>) /\ robotElements(<<e>>, up) = robotOf(e, up)
<1>1. AreRobotable(<<e>>)
  BY OneIsSeq DEF AreRobotable
<1>2. Robots(<<e>>, up) = <<robotOf(e, up)>>
  BY DEF Robots
<1>3. IsSeq(robotOf(e, up))
  BY RobotOfIs DEF Short, Elements
<1>4. QED
  BY <1>1, <1>2, <1>3, RobotsIs, FlattenOne

\* A text for each token is forwarded as the text is.
LEMMA RobotSaid ==
    ASSUME NEW e, Robotable(e), NEW up
    PROVE  AreRobotable(Said(e)) /\ Say(robotElements(Said(e), up)) = Say(robotElements(<<e>>, up))
<1>1. CASE ~IsText(e)
  BY <1>1, RobotOne DEF Said
<1>2. CASE IsText(e)
  <2> DEFINE s == e.s
             t == Tokens(s)
             ss == Robots(t, up)
  <2>1. IsSeq(s) /\ Said(e) = t
    BY <1>2 DEF Robotable, IsElement, Said
  <2>2. Say(robotElements(<<e>>, up)) = t
    BY <1>2, RobotOne, RobotOfIs
  <2> HIDE DEF s
  <2>3. IsSeq(t) /\ Len(t) = Len(s) /\ \A i \in 1..Len(s) : t[i] = Text(<<s[i]>>)
    BY <2>1, TokensIsSeq
  <2> HIDE DEF t
  <2>4. ASSUME NEW i \in 1..Len(t)
        PROVE  Robotable(t[i]) /\ robotOf(t[i], up) = <<t[i]>> /\ Elements(<<t[i]>>) /\ Say(<<t[i]>>) = Said(t[i])
    <3> DEFINE c == <<s[i]>>
               x == t[i]
    <3>1. x = Text(c) /\ IsSeq(c) /\ Bytes(c) <= MaxMessageSize /\ Bytes(c) \in Nat
      BY <2>3, BytesOne, OneIsSeq
    <3> HIDE DEF c, x
    <3>2. IsElement(x) /\ x.k = "text" /\ x.s = c
      BY <3>1, TextIs DEF Text
    <3>3. robotOf(x, up) = robotPlain(c)
      BY <3>2 DEF robotOf, LightApp
    <3>4. ~textNeedSplit(c)
      BY <3>1, MaxAssumption DEF textNeedSplit
    <3>5. robotOf(x, up) = <<x>>
      BY <3>1, <3>3, <3>4 DEF robotPlain
    <3>6. Robotable(x)
      BY <3>2 DEF Robotable
    <3>7. QED
      BY <3>2, <3>5, <3>6, SayOne DEF x
  <2>5. AreRobotable(t)
    BY <2>3, <2>4 DEF AreRobotable
  <2>6. robotElements(t, up) = FlattenSeq(ss) /\ DOMAIN t = 1..Len(t)
    BY <2>5, RobotsIs, IsSeqLen DEF AreRobotable
  <2>7. ss = [i \in DOMAIN t |-> <<t[i]>>]
    BY <2>4, <2>6 DEF Robots
  <2>8. robotElements(t, up) = t
    BY <2>3, <2>6, <2>7, FlattenSingles
  <2>9. Say(t) = t
    <3>1. Elements(t)
      BY <2>5, RobotsIs
    <3>2. Saids(t) = [i \in DOMAIN t |-> <<t[i]>>]
      <4>1. ASSUME NEW i \in 1..Len(t) PROVE Said(t[i]) = <<t[i]>>
        <5>1. t[i] = Text(<<s[i]>>)
          BY <2>3
        <5>2. Tokens(<<s[i]>>) = <<Text(<<s[i]>>)>>
          BY DEF Tokens
        <5>3. QED
          BY <5>1, <5>2, TextIs
      <4>2. QED
        BY <2>6, <4>1 DEF Saids
    <3>3. QED
      BY <2>3, <3>1, <3>2, SayIs, FlattenSingles
  <2>10. QED
    BY <2>1, <2>2, <2>5, <2>8, <2>9
<1>3. QED
  BY <1>1, <1>2


\* How texts are cut before they are translated changes nothing.
LEMMA RobotThroughSay ==
    ASSUME NEW es, AreRobotable(es), NEW up
    PROVE  AreRobotable(Say(es)) /\ Say(robotElements(es, up)) = Say(robotElements(Say(es), up))
<1> DEFINE R(a) == Say(robotElements(a, up))
           u(i) == SubSeq(es, 1, i)
           P(i) == /\ AreRobotable(u(i)) /\ Elements(u(i)) /\ AreRobotable(Say(u(i)))
                   /\ R(u(i)) = R(Say(u(i)))
           S == {i \in Nat : i <= Len(es) => P(i)}
<1>1. IsSeq(es) /\ Len(es) \in Nat
  BY IsSeqLen DEF AreRobotable
<1> HIDE DEF R
<1>2. 0 \in S
  <2>1. u(0) = <<>>
    BY <1>1, WholeBeginning
  <2>2. AreRobotable(<<>>)
    BY EmptyIsSeq DEF AreRobotable
  <2>3. P(0)
    BY <2>1, <2>2, SayEmpty
  <2>4. QED
    BY <2>3
<1>3. ASSUME NEW i \in Nat, i \in S PROVE i + 1 \in S
  <2>1. ASSUME NEW m, m = i + 1, m <= Len(es) PROVE P(m)
    <3> DEFINE a == u(i)
               e == es[m]
    <3>1. m \in 1..Len(es) /\ m - 1 = i /\ i <= Len(es)
      BY <1>1, <2>1
    <3>2. u(m) = Append(a, e) /\ Robotable(e)
      BY <1>1, <3>1, BeginningGrows DEF AreRobotable
    <3>3. AreRobotable(a) /\ Elements(a) /\ AreRobotable(Say(a)) /\ R(a) = R(Say(a))
      BY <1>3, <3>1
    <3> HIDE DEF a, e, u
    <3>4. u(m) = a \o <<e>>
      BY <3>2, <3>3, AppendIsSeq DEF Elements
    <3>5. AreRobotable(<<e>>) /\ AreRobotable(Said(e)) /\ R(Said(e)) = R(<<e>>) /\ IsElement(e)
      BY <3>2, RobotOne, RobotSaid DEF R, Robotable
    <3>6. AreRobotable(a \o <<e>>) /\ R(a \o <<e>>) = R(a) \o R(<<e>>)
      BY <3>3, <3>5, RobotConcat DEF R
    <3>7. Elements(a \o <<e>>) /\ Say(a \o <<e>>) = Say(a) \o Said(e)
      BY <3>3, <3>5, SayOne, SayConcat
    <3>8. AreRobotable(Say(a) \o Said(e)) /\ R(Say(a) \o Said(e)) = R(Say(a)) \o R(Said(e))
      BY <3>3, <3>5, RobotConcat DEF R
    <3>9. QED
      BY <3>3, <3>4, <3>5, <3>6, <3>7, <3>8
  <2>2. QED
    BY <2>1
<1>4. Nat \subseteq S
  <2> HIDE DEF S
  <2>1. QED
    BY <1>2, <1>3, Induction
<1>5. P(Len(es))
  <2>1. \A i \in Nat : i <= Len(es) => P(i)
    BY <1>4
  <2> HIDE DEF P
  <2>2. QED
    BY <1>1, <2>1
<1>6. QED
  BY <1>1, <1>5, WholeBeginning DEF R

(* What the robot forwards of a message says, in parts that are not too      *)
(* long, what its elements say one by one: merging the texts before they are *)
(* cut changes nothing, although a text may then be cut elsewhere.  For      *)
(* every message whose mentions are not too long for a message.              *)
THEOREM RobotLongMessageIsExact ==
    ASSUME NEW es, AreRobotable(es), NEW up
    PROVE  /\ Say(FlattenSeq(robotLongMessage(es, up))) = Say(robotElements(es, up))
           /\ Parts(robotLongMessage(es, up))
<1> DEFINE m == mergeContinuousTextMessages(es)
           p == robotElements(m, up)
<1>1. Elements(es)
  BY RobotsIs
<1>2. Elements(m) /\ Say(m) = Say(es) /\ Within(m, {es[i] : i \in 1..Len(es)})
  BY <1>1, MergeSays
<1> HIDE DEF m
<1>3. AreRobotable(m)
  <2>1. ASSUME NEW k \in 1..Len(m) PROVE Robotable(m[k])
    <3>1. IsElement(m[k])
      BY <1>2 DEF Elements
    <3>2. CASE IsText(m[k])
      BY <3>1, <3>2 DEF Robotable, IsText
    <3>3. CASE m[k] \in {es[i] : i \in 1..Len(es)}
      BY <3>3 DEF AreRobotable
    <3>4. QED
      BY <1>2, <3>2, <3>3 DEF Within
  <2>2. QED
    BY <1>2, <2>1 DEF AreRobotable, Elements
<1>4. Say(p) = Say(robotElements(es, up))
  BY <1>2, <1>3, RobotThroughSay
<1>5. Short(p)
  BY <1>3, RobotShort
<1> HIDE DEF p
<1>6. Parts(splitMessages(p)) /\ FlattenSeq(splitMessages(p)) = p
  BY <1>5, SplitMessagesKeeps
<1>7. QED
  BY <1>4, <1>6 DEF robotLongMessage, p, m


----------------------------------------------------------------------------
(* Texts that fix-url cuts. *)

OnlyTexts(r) == Elements(r) /\ \A k \in 1..Len(r) : r[k] = Text(r[k].s)

\* A text is a message of texts.
LEMMA OneText ==
    ASSUME NEW s, IsSeq(s)
    PROVE  OnlyTexts(<<Text(s)>>) /\ Say(<<Text(s)>>) = Tokens(s) /\ Len(<<Text(s)>>) = 1
<1> DEFINE x == Text(s)
<1>1. IsText(x) /\ x.s = s /\ IsElement(x) /\ Said(x) = Tokens(s) /\ x = Text(x.s)
  BY TextIs
<1> HIDE DEF x
<1>2. Elements(<<x>>) /\ Say(<<x>>) = Tokens(s) /\ Len(<<x>>) = 1 /\ <<x>>[1] = x
  BY <1>1, SayOne, OneIsSeq
<1>3. QED
  BY <1>1, <1>2 DEF OnlyTexts, x

\* A step of SplitURL says its token, in texts only.
LEMMA CutURLKeeps ==
    ASSUME NEW s, NEW i, NEW r, OnlyTexts(r), (i = 1) \/ Len(r) > 0
    PROVE  OnlyTexts(CutURL(r, s, i)) /\ Len(CutURL(r, s, i)) > 0 /\ Say(CutURL(r, s, i)) = Say(r) \o <<Text(<<s[i]>>)>>
<1> DEFINE n == Len(r)
           c == s[i]
           cut == i = 1 \/ (s[i - 1] = "ho" /\ s[i] = "st")
<1>0. Elements(r) /\ IsSeq(r) /\ n \in Nat
  BY IsSeqLen DEF OnlyTexts, Elements
<1>1. CASE cut
  <2> DEFINE x == Text(<<c>>)
             l == Append(r, x)
  <2>1. CutURL(r, s, i) = l
    BY <1>1 DEF CutURL
  <2>2. IsElement(x) /\ Said(x) = <<x>> /\ x = Text(x.s)
    <3>1. Tokens(<<c>>) = <<x>>
      BY DEF Tokens
    <3>2. QED
      BY <3>1, TextIs, OneIsSeq
  <2> HIDE DEF x
  <2>3. Elements(l) /\ Say(l) = Say(r) \o <<x>>
    BY <1>0, <2>2, SayAppend
  <2>4. Len(l) = n + 1 /\ l[n + 1] = x /\ \A k \in 1..n : l[k] = r[k]
    BY <1>0, AppendIsSeq
  <2> HIDE DEF l
  <2>5. \A k \in 1..Len(l) : k = n + 1 \/ k \in 1..n
    BY <1>0, <2>4
  <2>6. OnlyTexts(l)
    BY <2>2, <2>3, <2>4, <2>5 DEF OnlyTexts
  <2>7. QED
    BY <1>0, <2>1, <2>3, <2>4, <2>6 DEF x
<1>2. CASE ~cut
  <2> DEFINE l == Longer(r, c)
  <2>1. CutURL(r, s, i) = l /\ n > 0
    BY <1>2 DEF CutURL
  <2>2. n # 0 /\ n \in 1..n
    BY <1>0, <2>1
  <2>3. IsText(r[n])
    <3>1. r[n] = Text(r[n].s)
      BY <2>2 DEF OnlyTexts
    <3>2. QED
      BY <3>1, TextIs
  <2>4. /\ Elements(l) /\ Len(l) = n
        /\ \A k \in 1..(n - 1) : l[k] = r[k]
        /\ l[n] = Text(Append(r[n].s, c))
        /\ Say(l) = Say(r) \o <<Text(<<c>>)>>
    BY <1>0, <2>2, <2>3, LongerSays
  <2>5. l[n] = Text(l[n].s)
    <3> HIDE DEF l
    <3>1. QED
      BY <2>4, TextIs
  <2>6. \A k \in 1..n : k = n \/ k \in 1..(n - 1)
    BY <1>0
  <2> HIDE DEF l
  <2>7. OnlyTexts(l)
    BY <2>4, <2>5, <2>6 DEF OnlyTexts
  <2>8. QED
    BY <2>1, <2>4, <2>7
<1>3. QED
  BY <1>1, <1>2

\* The loop of SplitURL, a token at a time.
LEMMA CutURLIs ==
    ASSUME NEW s, IsSeq(s), s # Nothing
    PROVE  \E f : /\ f[0] = Nothing
                  /\ \A i \in 1..Len(s) : f[i] = CutURL(f[i - 1], s, i)
                  /\ SplitURL(s) = f[Len(s)]
<1> DEFINE G(n, f) == f = [i \in 0..n |-> IF i = 0 THEN Nothing ELSE CutURL(f[i - 1], s, i)]
           S == {n \in Nat : \E f : G(n, f)}
           h == CHOOSE f : G(Len(s), f)
<1>1. 0 \in S
  <2>1. G(0, [i \in 0..0 |-> Nothing])
    OBVIOUS
  <2>2. QED
    BY <2>1
<1>2. ASSUME NEW n \in Nat, n \in S PROVE n + 1 \in S
  <2>1. PICK f : G(n, f)
    BY <1>2
  <2> DEFINE g == [i \in 0..(n + 1) |-> IF i <= n THEN f[i] ELSE CutURL(f[i - 1], s, i)]
  <2>2. \A i \in 0..n : f[i] = IF i = 0 THEN Nothing ELSE CutURL(f[i - 1], s, i)
    BY <2>1
  <2>3. \A i \in 0..n : g[i] = f[i]
    OBVIOUS
  <2>4. ASSUME NEW i \in 0..(n + 1) PROVE g[i] = IF i = 0 THEN Nothing ELSE CutURL(g[i - 1], s, i)
    <3>1. i # 0 => i - 1 \in 0..n /\ g[i - 1] = f[i - 1]
      BY <2>3
    <3>2. g[i] = IF i = 0 THEN Nothing ELSE CutURL(f[i - 1], s, i)
      BY <2>2
    <3> HIDE DEF g
    <3>3. QED
      BY <3>1, <3>2
  <2>5. G(n + 1, g)
    BY <2>4
  <2> HIDE DEF G
  <2>6. QED
    BY <2>5
<1>3. Len(s) \in Nat
  BY IsSeqLen
<1>4. Len(s) \in S
  <2> HIDE DEF S
  <2>1. QED
    BY <1>1, <1>2, <1>3, Induction
<1>5. G(Len(s), h)
  BY <1>4
<1>6. SplitURL(s) = h[Len(s)]
  BY DEF SplitURL
<1> HIDE DEF h
<1>7. h[0] = Nothing /\ \A i \in 1..Len(s) : h[i] = CutURL(h[i - 1], s, i)
  BY <1>3, <1>5
<1>8. QED
  BY <1>6, <1>7


\* fix-url changes nothing that is said.
LEMMA TextsSay ==
    ASSUME NEW s, IsSeq(s), NEW c
    PROVE  OnlyTexts(Texts(s, c)) /\ Say(Texts(s, c)) = Tokens(s)
<1>1. CASE s = Nothing \/ ~c.fixURL
  <2>1. Texts(s, c) = <<Text(s)>>
    BY <1>1 DEF Texts, SplitURL
  <2>2. QED
    BY <2>1, OneText
<1>2. CASE s # Nothing /\ c.fixURL
  <2> DEFINE u(i) == SubSeq(s, 1, i)
  <2>1. PICK f : /\ f[0] = Nothing
                 /\ \A i \in 1..Len(s) : f[i] = CutURL(f[i - 1], s, i)
                 /\ SplitURL(s) = f[Len(s)]
    BY <1>2, CutURLIs
  <2>2. Len(s) \in Nat
    BY IsSeqLen
  <2> DEFINE P(i) == OnlyTexts(f[i]) /\ Say(f[i]) = Tokens(u(i)) /\ (i # 0 => Len(f[i]) > 0)
             S == {i \in Nat : i <= Len(s) => P(i)}
  <2>3. 0 \in S
    <3>1. OnlyTexts(<<>>) /\ Say(<<>>) = <<>>
      BY SayEmpty, EmptyIsSeq DEF OnlyTexts
    <3>2. u(0) = <<>> /\ Tokens(<<>>) = <<>>
      BY WholeBeginning DEF Tokens
    <3>3. QED
      BY <2>1, <3>1, <3>2 DEF Nothing
  <2>4. ASSUME NEW i \in Nat, i \in S PROVE i + 1 \in S
    <3>1. ASSUME NEW m, m = i + 1, m <= Len(s) PROVE P(m)
      <4>1. m \in 1..Len(s) /\ m - 1 = i /\ i \in 0..Len(s) /\ (m = 1 \/ i # 0)
        BY <2>2, <3>1
      <4>2. f[m] = CutURL(f[i], s, m)
        BY <2>1, <4>1
      <4>3. OnlyTexts(f[i]) /\ Say(f[i]) = Tokens(u(i)) /\ (i # 0 => Len(f[i]) > 0)
        BY <2>4, <4>1
      <4>4. OnlyTexts(f[m]) /\ Len(f[m]) > 0 /\ Say(f[m]) = Tokens(u(i)) \o <<Text(<<s[m]>>)>>
        BY <4>1, <4>2, <4>3, CutURLKeeps
      <4>5. u(m) = Append(u(i), s[m]) /\ IsSeq(u(i))
        BY <4>1, BeginningGrows, Beginning
      <4> HIDE DEF u
      <4>6. QED
        BY <4>4, <4>5, TokensAppend
    <3>2. QED
      BY <3>1
  <2>5. Nat \subseteq S
    <3> HIDE DEF S
    <3>1. QED
      BY <2>3, <2>4, Induction
  <2>6. P(Len(s))
    <3>1. \A i \in Nat : i <= Len(s) => P(i)
      BY <2>5
    <3> HIDE DEF P
    <3>2. QED
      BY <2>2, <3>1
  <2>7. QED
    BY <1>2, <2>1, <2>6, WholeBeginning DEF Texts
<1>3. QED
  BY <1>1, <1>2


----------------------------------------------------------------------------
(* What is read. *)

\* An element that says something, and no reply.
Speaks(e) == IsElement(e) /\ "k" \in DOMAIN e /\ e.k # "reply"
Speech(r) == IsSeq(r) /\ \A i \in 1..Len(r) : Speaks(r[i])
\* What a code or a segment says.
IsData(d) == IsFiniteSet(DOMAIN d) /\ \A key \in DOMAIN d : IsSeq(key) /\ IsSeq(d[key])

\* A value of a code is a sequence, or there is none.
LEMMA GetIsSeq ==
    ASSUME NEW d, IsData(d), NEW key
    PROVE  IsSeq(Get(d, key))
BY EmptyIsSeq DEF IsData, Get, Has, Nothing

\* Nothing is speech: elements that can be read, and no reply.
LEMMA SpeechEmpty == Speech(Nothing)
BY EmptyIsSeq DEF Speech, Nothing

\* An element that speaks is speech.
LEMMA SpeechOne ==
    ASSUME NEW e, Speaks(e)
    PROVE  Speech(<<e>>)
BY OneIsSeq DEF Speech

\* Speech after speech is speech.
LEMMA SpeechConcat ==
    ASSUME NEW a, NEW b, Speech(a), Speech(b)
    PROVE  Speech(a \o b)
<1> DEFINE u == a \o b
<1>0. IsSeq(a) /\ IsSeq(b) /\ Len(a) \in Nat /\ Len(b) \in Nat
  BY IsSeqLen DEF Speech
<1>1. /\ IsSeq(u) /\ Len(u) = Len(a) + Len(b)
      /\ \A i \in 1..Len(a) : u[i] = a[i]
      /\ \A i \in 1..Len(b) : u[Len(a) + i] = b[i]
  BY <1>0, ConcatIsSeq
<1> HIDE DEF u
<1>2. ASSUME NEW i \in 1..Len(u) PROVE Speaks(u[i])
  <2>1. CASE i \in 1..Len(a)
    BY <1>1, <2>1 DEF Speech
  <2>2. CASE i \notin 1..Len(a)
    <3>1. i - Len(a) \in 1..Len(b) /\ i = Len(a) + (i - Len(a))
      BY <1>0, <1>1, <2>2
    <3>2. PICK j \in 1..Len(b) : i = Len(a) + j
      BY <3>1
    <3>3. u[i] = b[j]
      BY <1>1, <3>2
    <3>4. QED
      BY <3>3 DEF Speech
  <2>3. QED
    BY <2>1, <2>2
<1>3. QED
  BY <1>1, <1>2 DEF Speech, u

\* Texts are speech, with their links cut or not.
LEMMA TextsSpeak ==
    ASSUME NEW s, IsSeq(s), NEW c
    PROVE  Speech(Texts(s, c))
<1>1. OnlyTexts(Texts(s, c))
  BY TextsSay
<1>2. ASSUME NEW i \in 1..Len(Texts(s, c)) PROVE Speaks(Texts(s, c)[i])
  <2> DEFINE e == Texts(s, c)[i]
  <2>1. e = Text(e.s) /\ IsElement(e)
    BY <1>1 DEF OnlyTexts, Elements
  <2> HIDE DEF e
  <2>2. "k" \in DOMAIN e /\ e.k = "text"
    BY <2>1 DEF Text
  <2>3. QED
    BY <2>1, <2>2 DEF Speaks, e
<1>3. QED
  BY <1>1, <1>2 DEF OnlyTexts, Elements, Speech

\* An element that was made is speech.
LEMMA MadeSpeaks ==
    ASSUME NEW e, Speaks(e)
    PROVE  Speech(Made(e).es) /\ Made(e).es = <<e>> /\ Made(e).es[1] = e
BY SpeechOne, OneIsSeq DEF Made

\* An error is no element at all.
LEMMA ErrSpeaks == Speech(Err.es) /\ ~Err.ok
BY SpeechEmpty DEF Err

\* What the server is asked for is speech, whether it answers or not.
LEMMA AskedSpeaks ==
    ASSUME NEW e, Speaks(e), NEW w
    PROVE  Speech(Asked(e, w).es)
BY MadeSpeaks, ErrSpeaks DEF Asked

\* A picture as it is made: of some origin, neither flashing nor shown.
AnImage(e) == e = [k |-> "image", of |-> e.of, flash |-> FALSE, effect |-> "0"]

\* A local image has what an image has.
LEMMA LocalImageIs == AnImage(LocalImage)
BY DEF AnImage, LocalImage

\* An image speaks.
LEMMA ImageSpeaks ==
    ASSUME NEW e, AnImage(e)
    PROVE  Speaks(e)
BY DEF AnImage, Speaks, IsElement, IsText

\* What makeImageOrVideoElem makes is speech, and an image where asked for.
LEMMA ImageOrVideo ==
    ASSUME NEW d, NEW video \in BOOLEAN, NEW w
    PROVE  LET m == makeImageOrVideoElem(d, video, w)
           IN  Speech(m.es) /\ (m.ok /\ ~video => AnImage(m.es[1]))
<1> DEFINE f == Get(d, "file")
           local == IF video THEN [k |-> "video", of |-> "local"] ELSE LocalImage
           fetched == IF w.up THEN Made(local) ELSE Err
           known == f # Nothing /\ f[1] \in w.cached
           Good(m) == Speech(m.es) /\ (m.ok /\ ~video => AnImage(m.es[1]))
<1>1. Good(Err)
  BY ErrSpeaks
<1>2. Good(Made(local))
  <2>1. Speaks(local) /\ (~video => AnImage(local))
    <3>1. CASE video
      BY <3>1 DEF Speaks, IsElement, IsText
    <3>2. CASE ~video
      BY <3>2, LocalImageIs, ImageSpeaks
    <3>3. QED
      BY <3>1, <3>2
  <2> HIDE DEF local
  <2>2. QED
    BY <2>1, MadeSpeaks
<1>3. Good(fetched)
  BY <1>1, <1>2
<1>4. Good(IF known THEN Made(readVideoCache(f[1])) ELSE Err) \/ ~video
  <2> DEFINE e == readVideoCache(f[1])
  <2>1. Speaks(e)
    BY DEF readVideoCache, Speaks, IsElement, IsText
  <2> HIDE DEF e
  <2>2. video => Good(Made(e))
    BY <2>1, MadeSpeaks
  <2>3. QED
    BY <1>1, <2>2 DEF e
<1>5. Good(readImageCache(f[1], w))
  <2> DEFINE e == [k |-> "image", of |-> f[1], flash |-> FALSE, effect |-> "0"]
  <2>1. AnImage(e)
    BY DEF AnImage
  <2> HIDE DEF e
  <2>2. Good(Made(e))
    BY <2>1, ImageSpeaks, MadeSpeaks
  <2>3. QED
    BY <1>1, <2>2 DEF readImageCache, e
<1>6. makeImageOrVideoElem(d, video, w) =
        IF IsURL(f) THEN fetched
        ELSE IF f = <<"file">> \/ (f = <<"base64">> /\ ~video) THEN Made(local)
        ELSE IF video THEN IF known THEN Made(readVideoCache(f[1])) ELSE Err
        ELSE IF known THEN readImageCache(f[1], w)
        ELSE IF IsURL(Get(d, "url")) THEN fetched
        ELSE Err
  BY DEF makeImageOrVideoElem
<1> HIDE DEF Good, fetched, local, known, f
<1>7. Good(makeImageOrVideoElem(d, video, w))
  BY <1>1, <1>2, <1>3, <1>4, <1>5, <1>6
<1>8. QED
  BY <1>7 DEF Good


\* An image that is made flash or show is an element.
LEMMA WithKindSpeaks ==
    ASSUME NEW e, AnImage(e), NEW d
    PROVE  Speaks(WithKind(e, d))
<1> DEFINE shown == Effect(IF Get(d, "id") = Nothing THEN "0" ELSE Get(d, "id")[1])
<1>1. DOMAIN e = {"k", "of", "flash", "effect"} /\ e.k = "image"
  BY DEF AnImage
<1>2. ASSUME NEW x PROVE Speaks([e EXCEPT !.effect = x])
  <2>1. "k" \in DOMAIN [e EXCEPT !.effect = x] /\ [e EXCEPT !.effect = x].k = "image"
    BY <1>1
  <2>2. QED
    BY <2>1 DEF Speaks, IsElement, IsText
<1>3. Speaks([e EXCEPT !.flash = TRUE])
  <2>1. "k" \in DOMAIN [e EXCEPT !.flash = TRUE] /\ [e EXCEPT !.flash = TRUE].k = "image"
    BY <1>1
  <2>2. QED
    BY <2>1 DEF Speaks, IsElement, IsText
<1>4. Speaks(e)
  BY ImageSpeaks
<1> HIDE DEF shown
<1>5. WithKind(e, d) \in {e, [e EXCEPT !.flash = TRUE], [e EXCEPT !.effect = shown]}
  BY DEF WithKind, shown
<1>6. Speaks([e EXCEPT !.effect = shown])
  BY <1>2
<1>7. QED
  BY <1>3, <1>4, <1>5, <1>6

\* A picture with its card is speech.
LEMMA ShowPicSpeaks ==
    ASSUME NEW d, NEW w
    PROVE  Speech(makeShowPic(makeImageOrVideoElem(d, FALSE, w), w).es)
<1> DEFINE image == makeImageOrVideoElem(d, FALSE, w)
           e == [k |-> "xml", s |-> <<"card">>, id |-> "5"]
<1>1. Speech(image.es)
  BY ImageOrVideo
<1>2. Speaks(e)
  BY DEF Speaks, IsElement, IsText
<1> HIDE DEF image, e
<1>3. Speech(image.es \o <<e>>)
  BY <1>1, <1>2, SpeechOne, SpeechConcat
<1>4. makeShowPic(image, w) = IF image.ok /\ w.up THEN [ok |-> TRUE, es |-> image.es \o <<e>>] ELSE Err
  BY DEF makeShowPic, e
<1>5. Speech(makeShowPic(image, w).es)
  BY <1>3, <1>4, ErrSpeaks
<1>6. QED
  BY <1>5 DEF image

\* What an element is read as is no reply.
LEMMA ToElementSpeaks ==
    ASSUME NEW t, NEW d, IsData(d), NEW c, NEW w
    PROVE  Speech(ToElement(t, d, c, w).es)
<1> DEFINE one(key) == IF Get(d, key) = Nothing THEN "none" ELSE Get(d, key)[1]
           qq == IF c.oneBot12 /\ ~Has(d, "qq") THEN one("user_id") ELSE one("qq")
           image == makeImageOrVideoElem(d, FALSE, w)
           custom == IF Has(d, "subtype") THEN [k |-> "music"] ELSE [k |-> "xml", s |-> <<"music">>, id |-> "60"]
           record == IF one("file") \in w.cached THEN Made([k |-> "record", of |-> one("file")])
                     ELSE IF IsURL(Get(d, "file")) THEN Asked([k |-> "record", of |-> "web"], w)
                     ELSE Err
           music == CASE one("type") \in {"qq", "163"} -> Asked([k |-> "music"], w)
                      [] one("type") = "custom" -> Made(custom)
                      [] OTHER -> Err
           text == [ok |-> TRUE, es |-> Texts(Get(d, "text"), c)]
           kind == WithKind(image.es[1], d)
           Good(m) == Speech(m.es)
<1>1. /\ Speaks([k |-> "poke", to |-> one("qq")])
      /\ Speaks([k |-> "record", of |-> "tts"])
      /\ Speaks([k |-> "record", of |-> one("file")])
      /\ Speaks([k |-> "record", of |-> "web"])
      /\ Speaks([k |-> "face", id |-> one("id")])
      /\ Speaks([k |-> "at", to |-> qq])
      /\ Speaks([k |-> "share"])
      /\ Speaks([k |-> "music"])
      /\ Speaks([k |-> "dice", value |-> one("value")])
      /\ Speaks([k |-> "xml", s |-> CQCodeEscapeValue(Get(d, "data")), id |-> one("resid")])
      /\ Speaks([k |-> "json", s |-> Get(d, "data"), id |-> one("resid")])
      /\ Speaks([k |-> "xml", s |-> <<"music">>, id |-> "60"])
  BY DEF Speaks, IsElement, IsText
<1>2. \A e : Speaks(e) => Good(Made(e)) /\ Good(Asked(e, w))
  BY MadeSpeaks, AskedSpeaks
<1>3. Good(Err)
  BY ErrSpeaks
<1>4. Good(text)
  BY GetIsSeq, TextsSpeak
<1>5. image.ok => Good(Made(kind))
  <2>1. image.ok => AnImage(image.es[1])
    BY ImageOrVideo
  <2> HIDE DEF image
  <2>2. QED
    BY <2>1, <1>2, WithKindSpeaks
<1>6. Good(makeImageOrVideoElem(d, TRUE, w))
  BY ImageOrVideo
<1>7. Good(makeShowPic(image, w))
  BY ShowPicSpeaks
<1> HIDE DEF Good, one, image, qq, kind, text
<1>8. Good(record)
  BY <1>1, <1>2, <1>3
<1>9. Good(music)
  BY <1>1, <1>2, <1>3
<1>10. ToElement(t, d, c, w) \in
         {text, IF image.ok THEN Made(kind) ELSE Err, makeImageOrVideoElem(d, TRUE, w),
          Made([k |-> "poke", to |-> one("qq")]), Asked([k |-> "record", of |-> "tts"], w), record,
          Made([k |-> "face", id |-> one("id")]), Err, Made([k |-> "at", to |-> qq]), Made([k |-> "share"]), music,
          Made([k |-> "dice", value |-> one("value")]),
          Made([k |-> "xml", s |-> CQCodeEscapeValue(Get(d, "data")), id |-> one("resid")]),
          Made([k |-> "json", s |-> Get(d, "data"), id |-> one("resid")]), makeShowPic(image, w)}
  BY DEF ToElement, text, image, kind, one, qq
<1> HIDE DEF record, music
<1>11. Good(ToElement(t, d, c, w))
  BY <1>1, <1>2, <1>3, <1>4, <1>5, <1>6, <1>7, <1>8, <1>9, <1>10
<1>12. QED
  BY <1>11 DEF Good


\* What has been read: a reply is first.
Readable(r) ==
    /\ IsSeq(r)
    /\ \A i \in 1..Len(r) : IsElement(r[i]) /\ "k" \in DOMAIN r[i] /\ (r[i].k = "reply" => i = 1)

\* A message without a reply has the reply first, having none.
LEMMA SpeechReadable ==
    ASSUME NEW r, Speech(r)
    PROVE  Readable(r)
BY DEF Speech, Speaks, Readable

\* Speech may follow whatever has its reply first.
LEMMA ReadableSpeech ==
    ASSUME NEW a, Readable(a), NEW b, Speech(b)
    PROVE  Readable(a \o b)
<1> DEFINE u == a \o b
<1>0. IsSeq(a) /\ IsSeq(b) /\ Len(a) \in Nat /\ Len(b) \in Nat
  BY IsSeqLen DEF Readable, Speech
<1>1. /\ IsSeq(u) /\ Len(u) = Len(a) + Len(b)
      /\ \A i \in 1..Len(a) : u[i] = a[i]
      /\ \A i \in 1..Len(b) : u[Len(a) + i] = b[i]
  BY <1>0, ConcatIsSeq
<1> HIDE DEF u
<1>2. ASSUME NEW i \in 1..Len(u) PROVE IsElement(u[i]) /\ "k" \in DOMAIN u[i] /\ (u[i].k = "reply" => i = 1)
  <2>1. CASE i \in 1..Len(a)
    BY <1>1, <2>1 DEF Readable
  <2>2. CASE i \notin 1..Len(a)
    <3>1. i - Len(a) \in 1..Len(b) /\ i = Len(a) + (i - Len(a))
      BY <1>0, <1>1, <2>2
    <3>2. PICK j \in 1..Len(b) : i = Len(a) + j
      BY <3>1
    <3>3. u[i] = b[j]
      BY <1>1, <3>2
    <3>4. QED
      BY <3>3 DEF Speech, Speaks
  <2>3. QED
    BY <2>1, <2>2
<1>3. QED
  BY <1>1, <1>2 DEF Readable, u

\* A reply may come before speech.
LEMMA ReplyThenSpeech ==
    ASSUME NEW e, IsElement(e), "k" \in DOMAIN e, NEW b, Speech(b)
    PROVE  Readable(<<e>> \o b)
<1>1. Readable(<<e>>)
  BY OneIsSeq DEF Readable
<1>2. QED
  BY <1>1, ReadableSpeech

\* WithReply keeps the reply first, and the only one.
LEMMA WithReplyReads ==
    ASSUME NEW r, Readable(r), NEW d, NEW w, NEW inner
    PROVE  Readable(WithReply(r, d, w, inner))
<1>1. CASE r # Nothing /\ r[1].k = "reply"
  BY <1>1 DEF WithReply
<1>2. CASE ~(r # Nothing /\ r[1].k = "reply")
  <2> DEFINE q == Reply(d, w, inner)
             id == Get(d, "id")
             org == IF id # Nothing /\ id[1] \in DOMAIN w.records THEN w.records[id[1]] ELSE Nothing
             own(key, none) == IF Has(d, key) THEN Get(d, key)[1] ELSE none
             kept(key, val, none) == IF Has(d, key) THEN val ELSE none
             e(a, b, c, i) == [k |-> "reply", seq |-> a, qq |-> b, time |-> c, inner |-> i]
             e1 == e(own("seq", "0"), own("qq", "0"), own("time", "now"), inner)
             e2 == e(kept("seq", org.seq, "0"), kept("qq", org.qq, "0"), kept("time", org.time, "now"), inner)
             e3 == e(org.seq, org.qq, org.time, ConvertContentMessage(org.content, w))
  <2>1. WithReply(r, d, w, inner) = q \o r
    BY <1>2 DEF WithReply
  <2>2. q \in {Nothing, <<e1>>, <<e2>>, <<e3>>}
    BY DEF Reply
  <2>3. Speech(r)
    <3>1. IsSeq(r) /\ Len(r) \in Nat
      BY IsSeqLen DEF Readable
    <3>2. ASSUME NEW i \in 1..Len(r), r[i].k = "reply" PROVE FALSE
      <4>1. i = 1 /\ Len(r) # 0
        BY <3>1, <3>2 DEF Readable
      <4>2. QED
        BY <1>2, <3>1, <3>2, <4>1, EmptyIff
    <3>3. QED
      BY <3>1, <3>2 DEF Speech, Speaks, Readable
  <2>4. \A a, b, c, i : IsElement(e(a, b, c, i)) /\ "k" \in DOMAIN e(a, b, c, i)
    BY DEF IsElement, IsText
  <2> HIDE DEF q, e, org, own, kept
  <2>5. Readable(<<e1>> \o r) /\ Readable(<<e2>> \o r) /\ Readable(<<e3>> \o r)
    BY <2>3, <2>4, ReplyThenSpeech
  <2>6. Readable(Nothing \o r)
    BY <2>3, SpeechReadable, ConcatEmpty DEF Speech, Nothing
  <2>7. QED
    BY <2>1, <2>2, <2>5, <2>6
<1>3. QED
  BY <1>1, <1>2

\* WithForward leaves a message without a reply, or what there was.
LEMMA WithForwardReads ==
    ASSUME NEW r, Readable(r), NEW d, NEW w
    PROVE  Readable(WithForward(r, d, w))
<1> DEFINE e == [k |-> "forward", id |-> Get(d, "id")[1]]
<1>1. Speaks(e)
  BY DEF Speaks, IsElement, IsText
<1> HIDE DEF e
<1>2. Readable(<<e>>)
  BY <1>1, SpeechOne, SpeechReadable
<1>3. WithForward(r, d, w) = r \/ WithForward(r, d, w) = <<e>>
  BY DEF WithForward, e
<1>4. QED
  BY <1>2, <1>3

\* A sequence for each element makes a sequence.
LEMMA MapIsSeq ==
    ASSUME NEW s, IsSeq(s), NEW ss, ss = [i \in DOMAIN s |-> ss[i]], \A i \in 1..Len(s) : IsSeq(ss[i])
    PROVE  AreSeqs(ss) /\ Len(ss) = Len(s) /\ IsSeq(FlattenSeq(ss))
<1>1. Len(s) \in Nat /\ ss = [i \in 1..Len(s) |-> ss[i]]
  BY IsSeqLen
<1>2. IsSeq(ss) /\ Len(ss) = Len(s)
  BY <1>1, FunIsSeq
<1>3. AreSeqs(ss)
  BY <1>2 DEF AreSeqs
<1>4. QED
  BY <1>2, <1>3, FlattenIsSeq

\* The keys of a code, in whatever order Go's map has them.
LEMMA SetToSeqIs ==
    ASSUME NEW A, IsFiniteSet(A)
    PROVE  /\ IsSeq(SetToSeq(A)) /\ Len(SetToSeq(A)) = Cardinality(A)
           /\ \A i \in 1..Len(SetToSeq(A)) : SetToSeq(A)[i] \in A
<1> DEFINE n == Cardinality(A)
           s == SetToSeq(A)
<1>1. n \in Nat /\ ExistsBijection(1..n, A)
  BY FS_CardinalityType
<1>2. \E f \in [1..n -> A] : IsInjective(f)
  BY <1>1 DEF ExistsBijection, Bijection, Injection
<1>3. s \in [1..n -> A]
  BY <1>2 DEF SetToSeq
<1> HIDE DEF s, n
<1>4. s = [i \in 1..n |-> s[i]]
  BY <1>3
<1>5. IsSeq(s) /\ Len(s) = n
  BY <1>1, <1>4, FunIsSeq
<1>6. QED
  BY <1>3, <1>5 DEF s, n

\* A code that cannot be read is a text.
LEMMA LiteralSpeaks ==
    ASSUME NEW t, IsSeq(t), NEW d, IsData(d)
    PROVE  Speaks(Literal(t, d)) /\ Literal(t, d) = Text(Literal(t, d).s) /\ IsSeq(Literal(t, d).s)
<1> DEFINE s == SetToSeq(DOMAIN d)
           ss == [i \in DOMAIN s |-> <<",">> \o s[i] \o <<"=">> \o d[s[i]]]
           x == <<"[", "CQ:">> \o t \o FlattenSeq(ss) \o <<"]">>
<1>1. IsSeq(s) /\ \A i \in 1..Len(s) : s[i] \in DOMAIN d
  BY SetToSeqIs DEF IsData
<1> HIDE DEF s
<1>2. Len(s) \in Nat /\ DOMAIN s = 1..Len(s)
  BY <1>1, IsSeqLen
<1>3. ASSUME NEW i \in 1..Len(s) PROVE IsSeq(ss[i])
  <2>1. IsSeq(s[i]) /\ IsSeq(d[s[i]]) /\ IsSeq(<<",">>) /\ IsSeq(<<"=">>)
    BY <1>1, OneIsSeq DEF IsData
  <2>2. IsSeq(<<",">> \o s[i])
    BY <2>1, ConcatIsSeq
  <2>3. IsSeq(<<",">> \o s[i] \o <<"=">>)
    BY <2>1, <2>2, ConcatIsSeq
  <2>4. IsSeq(<<",">> \o s[i] \o <<"=">> \o d[s[i]])
    BY <2>1, <2>3, ConcatIsSeq
  <2>5. QED
    BY <1>2, <2>4
<1>4. ss = [i \in DOMAIN s |-> ss[i]]
  OBVIOUS
<1>5. Literal(t, d) = Text(x)
  BY DEF Literal, Each, s
<1> HIDE DEF ss
<1>6. IsSeq(FlattenSeq(ss))
  BY <1>1, <1>3, <1>4, MapIsSeq
<1>7. IsSeq(<<"[", "CQ:">>) /\ IsSeq(<<"]">>)
  BY OneIsSeq, TwoIsSeq
<1>8. IsSeq(<<"[", "CQ:">> \o t)
  BY <1>7, ConcatIsSeq
<1>9. IsSeq(<<"[", "CQ:">> \o t \o FlattenSeq(ss))
  BY <1>6, <1>8, ConcatIsSeq
<1>10. IsSeq(x)
  BY <1>7, <1>9, ConcatIsSeq
<1> HIDE DEF x
<1>11. Speaks(Text(x))
  BY <1>10 DEF Speaks, Text, IsElement
<1>12. QED
  BY <1>5, <1>10, <1>11, TextIs


\* Replacing an entity in a text gives a text.
LEMMA ReplacedIsSeq ==
    ASSUME NEW s, IsSeq(s), NEW tail, NEW char
    PROVE  IsSeq(Replaced(s, tail, char))
<1> DEFINE entity(i) == i \in 1..Len(s) - 1 /\ s[i] = "&" /\ s[i + 1] = tail
           ss == [i \in DOMAIN s |-> CASE entity(i) -> <<char>>
                                       [] entity(i - 1) -> Nothing
                                       [] OTHER -> <<s[i]>>]
<1>1. Replaced(s, tail, char) = FlattenSeq(ss)
  BY DEF Replaced
<1> HIDE DEF entity
<1>2. DOMAIN s = 1..Len(s)
  BY IsSeqLen
<1>3. ASSUME NEW i \in 1..Len(s) PROVE IsSeq(ss[i])
  <2>1. IsSeq(<<char>>) /\ IsSeq(Nothing) /\ IsSeq(<<s[i]>>)
    BY OneIsSeq, EmptyIsSeq DEF Nothing
  <2>2. ss[i] \in {<<char>>, Nothing, <<s[i]>>}
    BY <1>2
  <2>3. QED
    BY <2>1, <2>2
<1>4. ss = [i \in DOMAIN s |-> ss[i]]
  OBVIOUS
<1> HIDE DEF ss
<1>5. QED
  BY <1>1, <1>3, <1>4, MapIsSeq

\* Taking back escapes gives a text.
LEMMA UnescapedIsSeq ==
    ASSUME NEW s, IsSeq(s)
    PROVE  IsSeq(CQCodeUnescapeText(s)) /\ IsSeq(CQCodeUnescapeValue(s))
<1>1. \A t : IsSeq(t) => IsSeq(CQCodeUnescapeText(t))
  BY ReplacedIsSeq DEF CQCodeUnescapeText
<1>2. QED
  BY <1>1, ReplacedIsSeq DEF CQCodeUnescapeValue

\* saveCQCode keeps a readable message readable.
LEMMA SaveReads ==
    ASSUME NEW r, Readable(r), NEW t, IsSeq(t), NEW d, IsData(d), NEW c, NEW w, NEW inner
    PROVE  Readable(saveCQCode(r, t, d, c, w, inner))
<1> DEFINE made == ToElement(t, d, c, w)
           x == Literal(t, d)
<1>1. Readable(WithReply(r, d, w, inner[Get(d, "text")])) /\ Readable(WithForward(r, d, w))
  BY WithReplyReads, WithForwardReads
<1>2. Readable(r \o made.es)
  BY ToElementSpeaks, ReadableSpeech
<1>3. Readable(Append(r, x))
  <2>1. Append(r, x) = r \o <<x>>
    BY AppendIsSeq DEF Readable
  <2>2. Speech(<<x>>)
    BY LiteralSpeaks, SpeechOne
  <2>3. QED
    BY <2>1, <2>2, ReadableSpeech
<1> HIDE DEF x, made
<1>4. saveCQCode(r, t, d, c, w, inner) \in
        {WithReply(r, d, w, inner[Get(d, "text")]), WithForward(r, d, w), r \o made.es, r, Append(r, x)}
  BY DEF saveCQCode, made, x
<1>5. QED
  BY <1>1, <1>2, <1>3, <1>4

\* The state of the scanner.
Scanning(x) ==
    /\ DOMAIN x = {"in", "buf", "t", "key", "d", "r"}
    /\ IsSeq(x.buf) /\ IsSeq(x.t) /\ IsSeq(x.key)
    /\ IsData(x.d) /\ Readable(x.r)

\* A code without values has values that are texts.
LEMMA EmptyIsData == IsData(Nothing)
<1>1. DOMAIN Nothing = {}
  BY DEF Nothing
<1>2. QED
  BY <1>1, FS_EmptySet DEF IsData

\* ... and so it has with one value more.
LEMMA MoreData ==
    ASSUME NEW d, IsData(d), NEW key, IsSeq(key), NEW val, IsSeq(val)
    PROVE  IsData(With(d, key, val))
<1> DEFINE e == With(d, key, val)
<1>1. DOMAIN e = DOMAIN d \cup {key} /\ \A k \in DOMAIN e : e[k] = IF k = key THEN val ELSE d[k]
  BY DEF With
<1>2. \A k \in DOMAIN e : (e[k] = val /\ k = key) \/ (k \in DOMAIN d /\ e[k] = d[k])
  BY <1>1
<1> HIDE DEF e
<1>3. IsFiniteSet(DOMAIN e)
  BY <1>1, FS_AddElement DEF IsData
<1>4. QED
  BY <1>2, <1>3 DEF IsData, e

\* The text before a code is speech, and may follow what was read.
LEMMA FlushedReads ==
    ASSUME NEW x, Scanning(x), NEW c
    PROVE  Readable(Flushed(x, c))
<1>1. IsSeq(CQCodeUnescapeText(x.buf))
  BY UnescapedIsSeq DEF Scanning
<1>2. Speech(Texts(CQCodeUnescapeText(x.buf), c))
  BY <1>1, TextsSpeak
<1>3. QED
  BY <1>2, ReadableSpeech DEF Flushed, Scanning

\* A step of the scanner keeps what was read readable.
LEMMA ScanReads ==
    ASSUME NEW x, Scanning(x), NEW s, NEW i, NEW c, NEW w, NEW inner
    PROVE  Scanning(Scan(x, s, i, c, w, inner))
<1> DEFINE b == Append(x.buf, s[i])
           value == With(x.d, x.key, CQCodeUnescapeValue(x.buf))
           flushed == Flushed(x, c)
           saved(t, d) == saveCQCode(x.r, t, d, c, w, inner)
           e1 == [x EXCEPT !.in = "open", !.buf = Nothing, !.r = flushed]
           e2 == [x EXCEPT !.in = "type", !.d = Nothing]
           e3 == [x EXCEPT !.in = "key", !.buf = Nothing, !.t = x.buf]
           e4 == [x EXCEPT !.in = "text", !.buf = Nothing, !.r = saved(x.buf, Nothing)]
           e5 == [x EXCEPT !.in = "value", !.buf = Nothing, !.key = x.buf]
           e6 == [x EXCEPT !.in = "key", !.buf = Nothing, !.d = value]
           e7 == [x EXCEPT !.in = "text", !.buf = Nothing, !.r = saved(x.t, value)]
           e8 == [x EXCEPT !.buf = b]
<1>1. /\ DOMAIN x = {"in", "buf", "t", "key", "d", "r"}
      /\ IsSeq(x.buf) /\ IsSeq(x.t) /\ IsSeq(x.key) /\ IsData(x.d) /\ Readable(x.r) /\ IsSeq(Nothing) /\ IsData(Nothing)
  BY EmptyIsSeq, EmptyIsData DEF Scanning, Nothing
<1>2. IsSeq(b) /\ IsData(value) /\ Readable(flushed)
  BY <1>1, AppendIsSeq, UnescapedIsSeq, MoreData, FlushedReads
<1>3. Readable(saved(x.buf, Nothing)) /\ Readable(saved(x.t, value))
  <2> HIDE DEF value
  <2>1. QED
    BY <1>1, <1>2, SaveReads
<1>4. Scan(x, s, i, c, w, inner) =
          CASE x.in = "text" /\ s[i] = "[" /\ i + 2 <= Len(s) /\ s[i + 1] = "CQ:" -> e1
            [] x.in = "open" -> e2
            [] x.in = "type" /\ s[i] = "," -> e3
            [] x.in = "type" /\ s[i] = "]" -> e4
            [] x.in = "key" /\ s[i] = "=" -> e5
            [] x.in = "value" /\ s[i] = "," -> e6
            [] x.in = "value" /\ s[i] = "]" -> e7
            [] OTHER -> e8
  BY DEF Scan
<1> HIDE DEF flushed, saved, value, b
<1>5. Scanning(e1)
  BY <1>1, <1>2, <1>3 DEF Scanning
<1>6. Scanning(e2)
  BY <1>1, <1>2, <1>3 DEF Scanning
<1>7. Scanning(e3)
  BY <1>1, <1>2, <1>3 DEF Scanning
<1>8. Scanning(e4)
  BY <1>1, <1>2, <1>3 DEF Scanning
<1>9. Scanning(e5)
  BY <1>1, <1>2, <1>3 DEF Scanning
<1>10. Scanning(e6)
  BY <1>1, <1>2, <1>3 DEF Scanning
<1>11. Scanning(e7)
  BY <1>1, <1>2, <1>3 DEF Scanning
<1>12. Scanning(e8)
  BY <1>1, <1>2, <1>3 DEF Scanning
<1> HIDE DEF e1, e2, e3, e4, e5, e6, e7, e8
<1>13. QED
  BY <1>4, <1>5, <1>6, <1>7, <1>8, <1>9, <1>10, <1>11, <1>12


\* What is read when the scanner stops.
Ended(x, c) == IF x.in = "text" THEN Flushed(x, c) ELSE x.r

\* The scanner, a token at a time, by induction.
LEMMA ScanIs ==
    ASSUME NEW s, IsSeq(s), NEW c, NEW w, NEW inner
    PROVE  \E f : /\ f[0] = Start
                  /\ \A i \in 1..Len(s) : f[i] = Scan(f[i - 1], s, i, c, w, inner)
                  /\ Scanned(s, c, w, inner) = Ended(f[Len(s)], c)
<1> DEFINE G(n, f) == f = [i \in 0..n |-> IF i = 0 THEN Start ELSE Scan(f[i - 1], s, i, c, w, inner)]
           S == {n \in Nat : \E f : G(n, f)}
           h == CHOOSE f : G(Len(s), f)
<1>1. 0 \in S
  <2>1. G(0, [i \in 0..0 |-> Start])
    OBVIOUS
  <2>2. QED
    BY <2>1
<1>2. ASSUME NEW n \in Nat, n \in S PROVE n + 1 \in S
  <2>1. PICK f : G(n, f)
    BY <1>2
  <2> DEFINE g == [i \in 0..(n + 1) |-> IF i <= n THEN f[i] ELSE Scan(f[i - 1], s, i, c, w, inner)]
  <2>2. \A i \in 0..n : f[i] = IF i = 0 THEN Start ELSE Scan(f[i - 1], s, i, c, w, inner)
    BY <2>1
  <2>3. \A i \in 0..n : g[i] = f[i]
    OBVIOUS
  <2>4. ASSUME NEW i \in 0..(n + 1) PROVE g[i] = IF i = 0 THEN Start ELSE Scan(g[i - 1], s, i, c, w, inner)
    <3>1. i # 0 => i - 1 \in 0..n /\ g[i - 1] = f[i - 1]
      BY <2>3
    <3>2. g[i] = IF i = 0 THEN Start ELSE Scan(f[i - 1], s, i, c, w, inner)
      BY <2>2
    <3> HIDE DEF g
    <3>3. QED
      BY <3>1, <3>2
  <2>5. G(n + 1, g)
    BY <2>4
  <2> HIDE DEF G
  <2>6. QED
    BY <2>5
<1>3. Len(s) \in Nat
  BY IsSeqLen
<1>4. Len(s) \in S
  <2> HIDE DEF S
  <2>1. QED
    BY <1>1, <1>2, <1>3, Induction
<1>5. G(Len(s), h)
  BY <1>4
<1>6. Scanned(s, c, w, inner) = Ended(h[Len(s)], c)
  BY DEF Scanned, Ended
<1> HIDE DEF h
<1>7. h[0] = Start /\ \A i \in 1..Len(s) : h[i] = Scan(h[i - 1], s, i, c, w, inner)
  BY <1>3, <1>5
<1>8. QED
  BY <1>6, <1>7


\* What a string is read as, whatever the string.
LEMMA ScannedReads ==
    ASSUME NEW s, IsSeq(s), NEW c, NEW w, NEW inner
    PROVE  Readable(Scanned(s, c, w, inner))
<1>1. PICK f : /\ f[0] = Start
               /\ \A i \in 1..Len(s) : f[i] = Scan(f[i - 1], s, i, c, w, inner)
               /\ Scanned(s, c, w, inner) = Ended(f[Len(s)], c)
  BY ScanIs
<1>2. Len(s) \in Nat
  BY IsSeqLen
<1> DEFINE S == {i \in Nat : i <= Len(s) => Scanning(f[i])}
<1>3. 0 \in S
  <2>1. Readable(Nothing) /\ IsSeq(Nothing) /\ IsData(Nothing)
    BY SpeechEmpty, SpeechReadable, EmptyIsSeq, EmptyIsData DEF Nothing
  <2>2. Scanning(Start)
    BY <2>1 DEF Start, Scanning
  <2>3. QED
    BY <1>1, <2>2
<1>4. ASSUME NEW i \in Nat, i \in S PROVE i + 1 \in S
  <2>1. ASSUME NEW m, m = i + 1, m <= Len(s) PROVE Scanning(f[m])
    <3>1. m \in 1..Len(s) /\ m - 1 = i /\ i <= Len(s)
      BY <1>2, <2>1
    <3>2. f[m] = Scan(f[i], s, m, c, w, inner) /\ Scanning(f[i])
      BY <1>1, <1>4, <3>1
    <3>3. QED
      BY <3>2, ScanReads
  <2>2. QED
    BY <2>1
<1>5. Nat \subseteq S
  <2> HIDE DEF S
  <2>1. QED
    BY <1>3, <1>4, Induction
<1>6. Scanning(f[Len(s)])
  BY <1>2, <1>5
<1>7. QED
  BY <1>1, <1>6, FlushedReads DEF Scanning, Ended

(* Whatever string an application sends, one reply is read at most, and      *)
(* nothing is before it.                                                     *)
LEMMA StringReads ==
    ASSUME NEW s, IsSeq(s), NEW c, NEW w
    PROVE  Readable(ConvertStringMessage(s, c, w))
<1>1. \A inner : Readable(Scanned(s, c, w, inner))
  BY ScannedReads
<1>2. QED
  BY <1>1 DEF ConvertStringMessage

AreSegments(g) == IsSeq(g) /\ \A i \in 1..Len(g) : IsData(g[i].data)


\* The loop of ConvertObjectMessage, a segment at a time.
LEMMA ObjectIs ==
    ASSUME NEW q, IsSeq(q), NEW c, NEW w
    PROVE  \E f : /\ f[0] = Nothing
                  /\ \A i \in 1..Len(q) : f[i] = AddSegment(f[i - 1], q[i], c, w)
                  /\ ConvertObjectMessage(q, c, w) = f[Len(q)]
<1> DEFINE G(n, f) == f = [i \in 0..n |-> IF i = 0 THEN Nothing ELSE AddSegment(f[i - 1], q[i], c, w)]
           S == {n \in Nat : \E f : G(n, f)}
           h == CHOOSE f : G(Len(q), f)
<1>1. 0 \in S
  <2>1. G(0, [i \in 0..0 |-> Nothing])
    OBVIOUS
  <2>2. QED
    BY <2>1
<1>2. ASSUME NEW n \in Nat, n \in S PROVE n + 1 \in S
  <2>1. PICK f : G(n, f)
    BY <1>2
  <2> DEFINE g == [i \in 0..(n + 1) |-> IF i <= n THEN f[i] ELSE AddSegment(f[i - 1], q[i], c, w)]
  <2>2. \A i \in 0..n : f[i] = IF i = 0 THEN Nothing ELSE AddSegment(f[i - 1], q[i], c, w)
    BY <2>1
  <2>3. \A i \in 0..n : g[i] = f[i]
    OBVIOUS
  <2>4. ASSUME NEW i \in 0..(n + 1) PROVE g[i] = IF i = 0 THEN Nothing ELSE AddSegment(g[i - 1], q[i], c, w)
    <3>1. i # 0 => i - 1 \in 0..n /\ g[i - 1] = f[i - 1]
      BY <2>3
    <3>2. g[i] = IF i = 0 THEN Nothing ELSE AddSegment(f[i - 1], q[i], c, w)
      BY <2>2
    <3> HIDE DEF g
    <3>3. QED
      BY <3>1, <3>2
  <2>5. G(n + 1, g)
    BY <2>4
  <2> HIDE DEF G
  <2>6. QED
    BY <2>5
<1>3. Len(q) \in Nat
  BY IsSeqLen
<1>4. Len(q) \in S
  <2> HIDE DEF S
  <2>1. QED
    BY <1>1, <1>2, <1>3, Induction
<1>5. G(Len(q), h)
  BY <1>4
<1>6. ConvertObjectMessage(q, c, w) = h[Len(q)]
  BY DEF ConvertObjectMessage
<1> HIDE DEF h
<1>7. h[0] = Nothing /\ \A i \in 1..Len(q) : h[i] = AddSegment(h[i - 1], q[i], c, w)
  BY <1>3, <1>5
<1>8. QED
  BY <1>6, <1>7


\* A segment keeps a readable message readable.
LEMMA SegmentReads ==
    ASSUME NEW r, Readable(r), NEW g, IsData(g.data), NEW c, NEW w
    PROVE  Readable(AddSegment(r, g, c, w))
<1> DEFINE x == ToElement(g.type, g.data, c, w).es
           inner == ConvertStringMessage(Get(g.data, "text"), c, w)
<1>1. AddSegment(r, g, c, w) \in {WithReply(r, WithoutSender(g.data), w, inner), WithForward(r, g.data, w), r \o x}
  BY DEF AddSegment
<1>2. Speech(x)
  BY ToElementSpeaks
<1> HIDE DEF x, inner
<1>3. Readable(WithReply(r, WithoutSender(g.data), w, inner)) /\ Readable(WithForward(r, g.data, w)) /\ Readable(r \o x)
  BY <1>2, WithReplyReads, WithForwardReads, ReadableSpeech
<1>4. QED
  BY <1>1, <1>3

\* What ConvertObjectMessage reads is readable.
LEMMA ObjectReads ==
    ASSUME NEW g, AreSegments(g), NEW c, NEW w
    PROVE  Readable(ConvertObjectMessage(g, c, w))
<1>1. IsSeq(g) /\ Len(g) \in Nat
  BY IsSeqLen DEF AreSegments
<1>2. PICK f : /\ f[0] = Nothing
               /\ \A i \in 1..Len(g) : f[i] = AddSegment(f[i - 1], g[i], c, w)
               /\ ConvertObjectMessage(g, c, w) = f[Len(g)]
  BY <1>1, ObjectIs
<1> DEFINE S == {i \in Nat : i <= Len(g) => Readable(f[i])}
<1>3. 0 \in S
  BY <1>2, SpeechEmpty, SpeechReadable
<1>4. ASSUME NEW i \in Nat, i \in S PROVE i + 1 \in S
  <2>1. ASSUME NEW m, m = i + 1, m <= Len(g) PROVE Readable(f[m])
    <3>1. m \in 1..Len(g) /\ m - 1 = i /\ i <= Len(g)
      BY <1>1, <2>1
    <3>2. f[m] = AddSegment(f[i], g[m], c, w) /\ Readable(f[i]) /\ IsData(g[m].data)
      BY <1>2, <1>4, <3>1 DEF AreSegments
    <3>3. QED
      BY <3>2, SegmentReads
  <2>2. QED
    BY <2>1
<1>5. Nat \subseteq S
  <2> HIDE DEF S
  <2>1. QED
    BY <1>3, <1>4, Induction
<1>6. QED
  BY <1>1, <1>2, <1>5


----------------------------------------------------------------------------
(* What is written. *)

\* The smallest of some numbers up to n is one of them and not undercut.
LEMMA MinIs ==
    ASSUME NEW n \in Nat, NEW A, A \subseteq 0..n, A # {}
    PROVE  Min(A) \in A /\ \A y \in A : Min(A) <= y
<1> DEFINE B == {n - x : x \in A}
<1>1. B \subseteq 0..n /\ B # {}
  <2>1. \A x \in A : x \in 0..n /\ n - x \in 0..n
    OBVIOUS
  <2>2. QED
    BY <2>1
<1>2. Max(B) \in B /\ \A y \in B : Max(B) >= y
  BY <1>1, MaxIs
<1>3. PICK x \in A : Max(B) = n - x
  BY <1>2
<1>4. ASSUME NEW y \in A PROVE x <= y
  <2>1. n - y \in B
    OBVIOUS
  <2>2. n - x >= n - y
    BY <1>2, <1>3, <2>1
  <2>3. x \in 0..n /\ y \in 0..n
    OBVIOUS
  <2>4. QED
    BY <2>2, <2>3
<1>5. QED
  BY <1>4 DEF Min

\* Escaping gives a text.
LEMMA EscapedIsSeq ==
    ASSUME NEW s, IsSeq(s)
    PROVE  IsSeq(CQCodeEscapeText(s)) /\ IsSeq(CQCodeEscapeValue(s))
<1>1. ASSUME NEW t, IsSeq(t) PROVE IsSeq(CQCodeEscapeText(t))
  <2> DEFINE ss == [i \in DOMAIN t |-> CASE t[i] = "&" -> <<"&", "amp;">>
                                         [] t[i] = "[" -> <<"&", "#91;">>
                                         [] t[i] = "]" -> <<"&", "#93;">>
                                         [] OTHER -> <<t[i]>>]
  <2>1. CQCodeEscapeText(t) = FlattenSeq(ss) /\ ss = [i \in DOMAIN t |-> ss[i]]
    BY DEF CQCodeEscapeText, Each
  <2>2. ASSUME NEW i \in 1..Len(t) PROVE IsSeq(ss[i])
    <3>1. ss[i] \in {<<"&", "amp;">>, <<"&", "#91;">>, <<"&", "#93;">>, <<t[i]>>}
      BY <1>1, IsSeqLen
    <3>2. IsSeq(<<"&", "amp;">>) /\ IsSeq(<<"&", "#91;">>) /\ IsSeq(<<"&", "#93;">>) /\ IsSeq(<<t[i]>>)
      BY OneIsSeq, TwoIsSeq
    <3>3. QED
      BY <3>1, <3>2
  <2> HIDE DEF ss
  <2>3. QED
    BY <1>1, <2>1, <2>2, MapIsSeq
<1>2. ASSUME NEW t, IsSeq(t) PROVE IsSeq(Each(t, LAMBDA c : IF c = "," THEN <<"&", "#44;">> ELSE <<c>>))
  <2> DEFINE ss == [i \in DOMAIN t |-> IF t[i] = "," THEN <<"&", "#44;">> ELSE <<t[i]>>]
  <2>1. Each(t, LAMBDA c : IF c = "," THEN <<"&", "#44;">> ELSE <<c>>) = FlattenSeq(ss) /\ ss = [i \in DOMAIN t |-> ss[i]]
    BY DEF Each
  <2>2. ASSUME NEW i \in 1..Len(t) PROVE IsSeq(ss[i])
    <3>1. ss[i] \in {<<"&", "#44;">>, <<t[i]>>}
      BY <1>2, IsSeqLen
    <3>2. IsSeq(<<"&", "#44;">>) /\ IsSeq(<<t[i]>>)
      BY OneIsSeq, TwoIsSeq
    <3>3. QED
      BY <3>1, <3>2
  <2> HIDE DEF ss
  <2>3. QED
    BY <1>2, <2>1, <2>2, MapIsSeq
<1>3. QED
  BY <1>1, <1>2 DEF CQCodeEscapeValue

AreFields(fs) == IsSeq(fs) /\ \A i \in 1..Len(fs) : IsSeq(fs[i][2])

\* A code may have no fields.
LEMMA NoFields == AreFields(Nothing)
BY EmptyIsSeq DEF AreFields, Nothing

\* A field whose value is a text.
LEMMA OneField ==
    ASSUME NEW key, NEW val, IsSeq(val)
    PROVE  AreFields(<<Field(key, val)>>)
BY OneIsSeq DEF AreFields, Field

\* Fields after fields are fields.
LEMMA FieldsConcat ==
    ASSUME NEW a, NEW b, AreFields(a), AreFields(b)
    PROVE  AreFields(a \o b)
<1> DEFINE u == a \o b
<1>0. IsSeq(a) /\ IsSeq(b) /\ Len(a) \in Nat /\ Len(b) \in Nat
  BY IsSeqLen DEF AreFields
<1>1. /\ IsSeq(u) /\ Len(u) = Len(a) + Len(b)
      /\ \A i \in 1..Len(a) : u[i] = a[i]
      /\ \A i \in 1..Len(b) : u[Len(a) + i] = b[i]
  BY <1>0, ConcatIsSeq
<1> HIDE DEF u
<1>2. ASSUME NEW i \in 1..Len(u) PROVE IsSeq(u[i][2])
  <2>1. CASE i \in 1..Len(a)
    BY <1>1, <2>1 DEF AreFields
  <2>2. CASE i \notin 1..Len(a)
    <3>1. i - Len(a) \in 1..Len(b) /\ i = Len(a) + (i - Len(a))
      BY <1>0, <1>1, <2>2
    <3>2. PICK j \in 1..Len(b) : i = Len(a) + j
      BY <3>1
    <3>3. u[i] = b[j]
      BY <1>1, <3>2
    <3>4. QED
      BY <3>3 DEF AreFields
  <2>3. QED
    BY <2>1, <2>2
<1>3. QED
  BY <1>1, <1>2 DEF AreFields, u

\* Fields of a received element have texts as values.
LEMMA FieldsAre ==
    ASSUME NEW e, WellFormed(e), e.k \notin Silent \cup {"text", "market"}, NEW raw
    PROVE  AreFields(Fields(e, raw))
<1> DEFINE url == IF raw /\ ~OfGuild(e) THEN Nothing ELSE <<Field("url", e.url)>>
           kind == CASE e.flash /\ ~OfGuild(e) -> <<Field("type", <<"flash">>)>>
                     [] ~e.flash /\ e.effect # "0" /\ e.of = "group" -> <<Field("type", <<"show">>), Field("id", <<e.effect>>)>>
                     [] OTHER -> Nothing
           sub == IF e.of = "group" THEN <<Field("subType", <<e.sub>>)>> ELSE Nothing
           resid == IF e.id = "0" THEN Nothing ELSE <<Field("resid", <<e.id>>)>>
<1>1. \A key, val : AreFields(<<Field(key, <<val>>)>>)
  BY OneIsSeq, OneField
<1>2. e.k \in {"image", "video", "record"} => AreFields(url)
  BY NoFields, OneField DEF WellFormed
<1>3. AreFields(kind) /\ AreFields(sub) /\ AreFields(resid)
  <2>1. AreFields(<<Field("type", <<"show">>), Field("id", <<e.effect>>)>>)
    BY OneIsSeq, TwoIsSeq DEF AreFields, Field
  <2>2. QED
    BY <1>1, <2>1, NoFields
<1>4. e.k \in {"redbag", "json", "xml"} => IsSeq(e.s)
  BY DEF WellFormed
<1>5. e.k \in {"redbag", "json", "xml", "image", "video", "record", "at", "face", "dice", "forward"}
  BY DEF WellFormed
<1>6. Fields(e, raw) =
        CASE e.k = "at" -> <<Field("qq", <<e.to>>)>>
          [] e.k \in {"face", "forward"} -> <<Field("id", <<e.id>>)>>
          [] e.k = "dice" -> <<Field("value", <<e.value>>)>>
          [] e.k = "redbag" -> <<Field("title", e.s)>>
          [] e.k = "record" -> <<Field("file", <<e.file>>)>> \o url
          [] e.k = "video" -> <<Field("file", <<e.file>>)>> \o url
          [] e.k = "image" -> <<Field("file", <<e.file>>)>> \o url \o kind \o sub
          [] e.k = "json" -> <<Field("data", e.s)>> \o resid
          [] e.k = "xml" -> <<Field("data", e.s), Field("resid", <<e.id>>)>>
  BY DEF Fields
<1> HIDE DEF url, kind, sub, resid
<1>7. e.k \in {"image", "video", "record"} =>
        AreFields(<<Field("file", <<e.file>>)>> \o url) /\ AreFields(<<Field("file", <<e.file>>)>> \o url \o kind \o sub)
  BY <1>1, <1>2, <1>3, FieldsConcat
<1>8. e.k \in {"redbag", "json", "xml"} =>
        /\ AreFields(<<Field("title", e.s)>>)
        /\ AreFields(<<Field("data", e.s)>> \o resid)
        /\ AreFields(<<Field("data", e.s), Field("resid", <<e.id>>)>>)
  <2>1. IsSeq(e.s) => AreFields(<<Field("data", e.s), Field("resid", <<e.id>>)>>)
    BY OneIsSeq, TwoIsSeq DEF AreFields, Field
  <2>2. QED
    BY <1>3, <1>4, <2>1, OneField, FieldsConcat
<1>9. QED
  BY <1>1, <1>5, <1>6, <1>7, <1>8



\* A code is a text.
LEMMA CodeIsSeq ==
    ASSUME NEW t, NEW fs, AreFields(fs)
    PROVE  IsSeq(Code(t, fs))
<1> DEFINE val(i) == IF fs[i][1] \in {"url", "data", "text"} THEN CQCodeEscapeValue(fs[i][2]) ELSE fs[i][2]
           ss == [i \in DOMAIN fs |-> <<",", fs[i][1], "=">> \o val(i)]
<1>1. Code(t, fs) = <<"[", "CQ:", t>> \o FlattenSeq(ss) \o <<"]">>
  BY DEF Code, Each
<1>2. ss = [i \in DOMAIN fs |-> ss[i]] /\ IsSeq(fs) /\ DOMAIN fs = 1..Len(fs)
  BY IsSeqLen DEF AreFields
<1>3. ASSUME NEW i \in 1..Len(fs) PROVE IsSeq(ss[i])
  <2>1. IsSeq(val(i))
    BY EscapedIsSeq DEF AreFields
  <2>2. IsSeq(<<",", fs[i][1], "=">>)
    BY ThreeIsSeq
  <2> HIDE DEF val
  <2>3. IsSeq(<<",", fs[i][1], "=">> \o val(i))
    BY <2>1, <2>2, ConcatIsSeq
  <2>4. QED
    BY <1>2, <2>3
<1> HIDE DEF ss, val
<1>4. IsSeq(FlattenSeq(ss))
  BY <1>2, <1>3, MapIsSeq
<1>5. IsSeq(<<"[", "CQ:", t>>) /\ IsSeq(<<"]">>)
  BY ThreeIsSeq, OneIsSeq
<1>6. IsSeq(<<"[", "CQ:", t>> \o FlattenSeq(ss))
  BY <1>4, <1>5, ConcatIsSeq
<1>7. QED
  BY <1>1, <1>5, <1>6, ConcatIsSeq

\* A segment's values are texts.
LEMMA SegmentIsData ==
    ASSUME NEW t, NEW fs, AreFields(fs)
    PROVE  IsData(Segment(t, fs).data)
<1> DEFINE place(key) == CHOOSE i \in DOMAIN fs : <<fs[i][1]>> = key
           keys == {<<fs[i][1]>> : i \in DOMAIN fs}
           d == [key \in keys |-> fs[place(key)][2]]
<1>1. Segment(t, fs).data = d
  BY DEF Segment
<1>2. DOMAIN fs = 1..Len(fs) /\ Len(fs) \in Nat
  BY IsSeqLen DEF AreFields
<1>3. ExistsSurjection(1..Len(fs), keys)
  <2> DEFINE f == [i \in 1..Len(fs) |-> <<fs[i][1]>>]
  <2>1. f \in [1..Len(fs) -> keys] /\ \A key \in keys : \E i \in 1..Len(fs) : f[i] = key
    BY <1>2
  <2>2. f \in Surjection(1..Len(fs), keys)
    BY <2>1 DEF Surjection
  <2>3. QED
    BY <2>2 DEF ExistsSurjection
<1>4. IsFiniteSet(keys)
  BY <1>2, <1>3, FS_NatSurjection
<1>5. ASSUME NEW key \in keys PROVE IsSeq(key) /\ IsSeq(d[key])
  <2>1. PICK i \in DOMAIN fs : key = <<fs[i][1]>>
    OBVIOUS
  <2>2. place(key) \in DOMAIN fs
    BY <2>1
  <2> HIDE DEF place
  <2>3. IsSeq(fs[place(key)][2])
    BY <1>2, <2>2 DEF AreFields
  <2>4. QED
    BY <2>1, <2>3, OneIsSeq
<1>6. DOMAIN d = keys
  OBVIOUS
<1> HIDE DEF d, keys
<1>7. QED
  BY <1>1, <1>4, <1>5, <1>6 DEF IsData

\* An element is written as a text.
LEMMA PlainIsSeq ==
    ASSUME NEW e, WellFormed(e), NEW raw
    PROVE  IsSeq(Plain(e, raw))
<1>1. IsSeq(Nothing)
  BY EmptyIsSeq DEF Nothing
<1>2. e.k \in {"text", "market"} => IsSeq(e.s) /\ IsSeq(CQCodeEscapeText(e.s))
  BY EscapedIsSeq DEF WellFormed
<1>3. e.k \notin Silent \cup {"text", "market"} => IsSeq(Code(e.k, Fields(e, raw)))
  BY FieldsAre, CodeIsSeq
<1>4. QED
  BY <1>1, <1>2, <1>3 DEF Plain

AreWellFormed(es) == IsSeq(es) /\ \A i \in 1..Len(es) : WellFormed(es[i])

\* A message is written as a text.
LEMMA BodyIsSeq ==
    ASSUME NEW es, AreWellFormed(es), NEW raw
    PROVE  IsSeq(Body(es, raw))
<1> DEFINE ss == [i \in DOMAIN es |-> Plain(es[i], raw)]
<1>1. Body(es, raw) = FlattenSeq(ss) /\ ss = [i \in DOMAIN es |-> ss[i]]
  BY DEF Body, Each
<1>2. IsSeq(es) /\ DOMAIN es = 1..Len(es)
  BY IsSeqLen DEF AreWellFormed
<1>3. \A i \in 1..Len(es) : IsSeq(ss[i])
  BY <1>2, PlainIsSeq DEF AreWellFormed
<1> HIDE DEF ss
<1>4. QED
  BY <1>1, <1>2, <1>3, MapIsSeq

\* Messages as the server sends them, and what the handlers make of them.
Message(es) ==
    /\ AreWellFormed(es)
    /\ \A i \in 1..Len(es) : es[i].k = "reply" => AreWellFormed(es[i].inner)

\* The fields of the first reply, which quotes a message, are texts.
LEMMA QuoteIs ==
    ASSUME NEW es, Message(es), NEW c, Quotes(es, c) # {}
    PROVE  LET q == es[Min(Quotes(es, c))]
           IN AreFields(ReplyFields(q, c, Body(q.inner, FALSE)))
<1> DEFINE i == Min(Quotes(es, c))
           q == es[i]
           inner == Body(q.inner, FALSE)
<1>1. DOMAIN es = 1..Len(es) /\ Len(es) \in Nat
  BY IsSeqLen DEF Message, AreWellFormed
<1>2. Quotes(es, c) \subseteq 0..Len(es)
  BY <1>1 DEF Quotes
<1>3. i \in Quotes(es, c)
  BY <1>1, <1>2, MinIs
<1>4. i \in 1..Len(es) /\ q.k = "reply"
  BY <1>1, <1>3 DEF Quotes
<1>5. IsSeq(inner)
  BY <1>4, BodyIsSeq DEF Message
<1> HIDE DEF i, inner
<1> DEFINE more == <<Field("seq", <<q.seq>>), Field("qq", <<q.qq>>), Field("time", <<q.time>>), Field("text", inner)>>
<1>6. AreFields(more)
  <2>1. \A key, val : AreFields(<<Field(key, <<val>>)>>)
    BY OneIsSeq, OneField
  <2>2. AreFields(<<Field("text", inner)>>)
    BY <1>5, OneField
  <2> HIDE DEF q
  <2>3. AreFields(<<Field("seq", <<q.seq>>)>> \o <<Field("qq", <<q.qq>>)>> \o <<Field("time", <<q.time>>)>> \o <<Field("text", inner)>>)
    BY <2>1, <2>2, FieldsConcat
  <2>4. more = <<Field("seq", <<q.seq>>)>> \o <<Field("qq", <<q.qq>>)>> \o <<Field("time", <<q.time>>)>> \o <<Field("text", inner)>>
    OBVIOUS
  <2>5. QED
    BY <2>3, <2>4
<1>7. AreFields(<<Field("id", <<q.gid>>)>>)
  BY OneIsSeq, OneField
<1> HIDE DEF more
<1>8. AreFields(<<Field("id", <<q.gid>>)>> \o (IF c.extra THEN more ELSE Nothing))
  BY <1>6, <1>7, NoFields, FieldsConcat
<1>9. ReplyFields(q, c, inner) = <<Field("id", <<q.gid>>)>> \o (IF c.extra THEN more ELSE Nothing)
  BY DEF ReplyFields, more
<1>10. QED
  BY <1>8, <1>9 DEF q, i, inner

\* ToStringMessage writes a text.
LEMMA StringIsSeq ==
    ASSUME NEW es, Message(es), NEW c, NEW raw
    PROVE  IsSeq(ToStringMessage(es, c, raw))
<1> DEFINE q == es[Min(Quotes(es, c))]
           head == IF Quotes(es, c) = {} THEN Nothing ELSE Code("reply", ReplyFields(q, c, Body(q.inner, FALSE)))
<1>1. IsSeq(head)
  BY QuoteIs, CodeIsSeq, EmptyIsSeq DEF Nothing
<1>2. ToStringMessage(es, c, raw) = head \o Body(es, raw)
  BY DEF ToStringMessage
<1> HIDE DEF head
<1>3. QED
  BY <1>1, <1>2, BodyIsSeq, ConcatIsSeq DEF Message


\* Segments after segments are segments.
LEMMA SegmentsConcat ==
    ASSUME NEW a, NEW b, AreSegments(a), AreSegments(b)
    PROVE  AreSegments(a \o b)
<1> DEFINE u == a \o b
<1>0. IsSeq(a) /\ IsSeq(b) /\ Len(a) \in Nat /\ Len(b) \in Nat
  BY IsSeqLen DEF AreSegments
<1>1. /\ IsSeq(u) /\ Len(u) = Len(a) + Len(b)
      /\ \A i \in 1..Len(a) : u[i] = a[i]
      /\ \A i \in 1..Len(b) : u[Len(a) + i] = b[i]
  BY <1>0, ConcatIsSeq
<1> HIDE DEF u
<1>2. ASSUME NEW i \in 1..Len(u) PROVE IsData(u[i].data)
  <2>1. CASE i \in 1..Len(a)
    BY <1>1, <2>1 DEF AreSegments
  <2>2. CASE i \notin 1..Len(a)
    <3>1. i - Len(a) \in 1..Len(b) /\ i = Len(a) + (i - Len(a))
      BY <1>0, <1>1, <2>2
    <3>2. PICK j \in 1..Len(b) : i = Len(a) + j
      BY <3>1
    <3>3. u[i] = b[j]
      BY <1>1, <3>2
    <3>4. QED
      BY <3>3 DEF AreSegments
  <2>3. QED
    BY <2>1, <2>2
<1>3. QED
  BY <1>1, <1>2 DEF AreSegments, u

\* A segment made of fields.
LEMMA OneSegment ==
    ASSUME NEW t, NEW fs, AreFields(fs)
    PROVE  AreSegments(<<Segment(t, fs)>>)
BY SegmentIsData, OneIsSeq DEF AreSegments

\* A message may have no segments.
LEMMA NoSegments == AreSegments(Nothing)
BY EmptyIsSeq DEF AreSegments, Nothing

\* ToArrayMessage writes segments.
LEMMA ArrayAreSegments ==
    ASSUME NEW es, Message(es), NEW c
    PROVE  AreSegments(ToArrayMessage(es, c))
<1> DEFINE q == es[Min(Quotes(es, c))]
           head == IF Quotes(es, c) = {} THEN Nothing
                   ELSE <<Segment("reply", ReplyFields(q, c, Body(q.inner, FALSE)))>>
           one(e) == CASE e.k \in Silent -> Nothing
                       [] e.k \in {"text", "market"} -> <<Segment("text", <<Field("text", e.s)>>)>>
                       [] OTHER -> <<Segment(e.k, Fields(e, FALSE))>>
           ss == [i \in DOMAIN es |-> one(es[i])]
<1>1. AreSegments(head)
  BY QuoteIs, OneSegment, NoSegments
<1>2. ToArrayMessage(es, c) = head \o FlattenSeq(ss) /\ ss = [i \in DOMAIN es |-> ss[i]]
  BY DEF ToArrayMessage, Each
<1>3. IsSeq(es) /\ DOMAIN es = 1..Len(es)
  BY IsSeqLen DEF Message, AreWellFormed
<1>4. ASSUME NEW e, WellFormed(e) PROVE AreSegments(one(e))
  <2>1. e.k \in {"text", "market"} => AreSegments(<<Segment("text", <<Field("text", e.s)>>)>>)
    BY <1>4, OneField, OneSegment DEF WellFormed
  <2>2. e.k \notin Silent \cup {"text", "market"} => AreSegments(<<Segment(e.k, Fields(e, FALSE))>>)
    BY <1>4, FieldsAre, OneSegment
  <2>3. QED
    BY <2>1, <2>2, NoSegments
<1>5. \A i \in 1..Len(es) : AreSegments(ss[i])
  BY <1>3, <1>4 DEF Message, AreWellFormed
<1> HIDE DEF ss, head
<1>6. AreSeqs(ss)
  BY <1>2, <1>3, <1>5, MapIsSeq DEF AreSegments
<1>7. AreSegments(FlattenSeq(ss))
  <2>1. IsSeq(FlattenSeq(ss))
    BY <1>6, FlattenIsSeq
  <2>2. ASSUME NEW j \in 1..Len(FlattenSeq(ss)) PROVE IsData(FlattenSeq(ss)[j].data)
    <3>1. PICK k \in 1..Len(ss) : \E l \in 1..Len(ss[k]) : FlattenSeq(ss)[j] = ss[k][l]
      BY <1>6, FlattenFrom
    <3>2. Len(ss) = Len(es)
      BY <1>2, <1>3, <1>5, MapIsSeq DEF AreSegments
    <3>3. QED
      BY <1>5, <3>1, <3>2 DEF AreSegments
  <2>3. QED
    BY <2>1, <2>2 DEF AreSegments
<1>8. QED
  BY <1>1, <1>2, <1>7, SegmentsConcat

\* What is reported, as a string or as an array, can be read.
LEMMA FormattedIs ==
    ASSUME NEW es, Message(es), NEW c
    PROVE  IF c.array THEN AreSegments(ToFormattedMessage(es, c)) ELSE IsSeq(ToFormattedMessage(es, c))
BY ArrayAreSegments, StringIsSeq DEF ToFormattedMessage

\* A received message without a mention is as one that was received.
LEMMA WithoutReplyAtIs ==
    ASSUME NEW es, Message(es)
    PROVE  Message(WithoutReplyAt(es))
<1> DEFINE u == WithoutReplyAt(es)
           nil == [k |-> "nil"]
<1>1. IsSeq(es) /\ DOMAIN es = 1..Len(es) /\ Len(es) \in Nat
  BY IsSeqLen DEF Message, AreWellFormed
<1>2. u = [i \in 1..Len(es) |-> IF RepliesSender(es, i) THEN nil ELSE es[i]]
  BY <1>1 DEF WithoutReplyAt
<1>3. WellFormed(nil) /\ nil.k # "reply"
  BY DEF WellFormed, Silent
<1> HIDE DEF u, nil
<1>4. IsSeq(u) /\ Len(u) = Len(es)
  BY <1>1, <1>2, FunIsSeq
<1>5. \A i \in 1..Len(es) : u[i] = nil \/ u[i] = es[i]
  BY <1>2
<1>6. QED
  BY <1>3, <1>4, <1>5 DEF Message, AreWellFormed, u

----------------------------------------------------------------------------
(* What goes to the server. *)

\* What is left after the uploads are elements.
LEMMA UploadedIs ==
    ASSUME NEW r, Readable(r), NEW all, NEW up
    PROVE  Elements(Uploaded(r, all, up))
<1> DEFINE one(e) == IF e.k = "at" /\ e.to = "all" /\ ~all THEN <<Text(<<"@", "all">>)>> ELSE uploadMedia(e, up)
           ss == [i \in DOMAIN r |-> one(r[i])]
<1>1. Uploaded(r, all, up) = FlattenSeq(ss) /\ ss = [i \in DOMAIN r |-> ss[i]]
  BY DEF Uploaded, Each
<1>2. IsSeq(r) /\ DOMAIN r = 1..Len(r)
  BY IsSeqLen DEF Readable
<1>3. ASSUME NEW e, IsElement(e), "k" \in DOMAIN e PROVE Elements(one(e))
  <2>1. Elements(<<Text(<<"@", "all">>)>>)
    BY TwoIsSeq, TextIs, SayOne
  <2>2. Elements(<<e>>) /\ Elements(Nothing)
    BY <1>3, SayOne, SayEmpty DEF Nothing
  <2> DEFINE x == [e EXCEPT !.of = "uploaded"]
  <2>3. x.k = e.k
    BY <1>3
  <2>4. e.k \in {"record", "image", "video"} => Elements(<<x>>)
    <3> HIDE DEF x
    <3>1. QED
      BY <2>3, SayOne DEF IsElement, IsText
  <2>5. Elements(uploadMedia(e, up))
    BY <2>2, <2>4 DEF uploadMedia, uploadLocal
  <2>6. QED
    BY <2>1, <2>5
<1>4. \A i \in 1..Len(r) : Elements(ss[i])
  BY <1>2, <1>3 DEF Readable
<1> HIDE DEF ss
<1>5. AreSeqs(ss) /\ Len(ss) = Len(r)
  BY <1>1, <1>2, <1>4, MapIsSeq DEF Elements
<1>6. QED
  BY <1>1, <1>4, <1>5, SayFlattened


\* What SplitIsExact asks for of parts that are short and say the whole.
LEMMA Exact ==
    ASSUME NEW w, NEW p, Say(FlattenSeq(p)) = Say(w), Parts(p)
    PROVE  /\ Say(FlattenSeq(p)) = Say(w)
           /\ \A i \in DOMAIN p : Estimate(p[i]) <= MaxMessageSize \/ (Len(p[i]) = 1 /\ ~IsText(p[i][1]))
<1>1. DOMAIN p = 1..Len(p)
  BY IsSeqLen DEF Parts, AreSeqs
<1>2. QED
  BY <1>1 DEF Parts, Sendable

\* Nothing goes in no parts.
LEMMA NoParts == Parts(Nothing) /\ FlattenSeq(Nothing) = Nothing
BY FlattenEmpty, EmptyIsSeq DEF Parts, Nothing

\* What can be sent at once goes in one part.
LEMMA OnePart ==
    ASSUME NEW es, Elements(es), Sendable(es)
    PROVE  Parts(<<es>>) /\ FlattenSeq(<<es>>) = es
<1>1. IsSeq(es)
  BY DEF Elements
<1>2. IsSeq(<<es>>) /\ Len(<<es>>) = 1 /\ <<es>>[1] = es
  BY OneIsSeq
<1>3. QED
  BY <1>1, <1>2, FlattenOne DEF Parts, AreSeqs

\* How far a message has come, and what has become of it.
Going ==
    /\ Message(elems)
    /\ at = "reported" =>
         /\ IF conf.array THEN AreSegments(report.message) ELSE IsSeq(report.message)
         /\ IsSeq(report.raw)
    /\ at = "asked" => IF ask.array THEN AreSegments(ask.body) ELSE IsSeq(ask.body)
    /\ Readable(read)
    /\ at \in {"sent", "forwarded"} => Say(FlattenSeq(parts)) = Say(whole) /\ Parts(parts)

\* The invariant holds at the start.
LEMMA InitGoing == Init => Going
<1> SUFFICES ASSUME Init PROVE Going
  OBVIOUS
<1>1. Message(Nothing)
  BY EmptyIsSeq DEF Message, AreWellFormed, Nothing
<1>2. ASSUME NEW es \in Received PROVE Message(es)
  <2>1. IsSeq(es) /\ DOMAIN es = 1..Len(es)
    BY ReceivedAssumption, IsSeqLen
  <2>2. ASSUME NEW i \in 1..Len(es), es[i].k = "reply" PROVE AreWellFormed(es[i].inner)
    <3>1. IsSeq(es[i].inner) /\ \A j \in DOMAIN es[i].inner : WellFormed(es[i].inner[j])
      BY <2>1, <2>2, ReceivedAssumption
    <3>2. QED
      BY <3>1, IsSeqLen DEF AreWellFormed
  <2>3. \A i \in 1..Len(es) : WellFormed(es[i])
    BY <2>1, ReceivedAssumption
  <2>4. QED
    BY <2>1, <2>2, <2>3 DEF Message, AreWellFormed
<1>3. Message(elems)
  BY <1>1, <1>2 DEF Init
<1>4. Readable(read)
  BY SpeechEmpty, SpeechReadable DEF Init
<1>5. at \in {"new", "none"}
  BY DEF Init
<1>6. QED
  BY <1>3, <1>4, <1>5 DEF Going

\* Receive writes a report that can be read back.
LEMMA ReceiveGoing ==
    ASSUME Going, Receive
    PROVE  Going'
<1> DEFINE seen == IF conf.removeAt THEN WithoutReplyAt(elems) ELSE elems
<1>1. /\ elems' = seen /\ at' = "reported" /\ conf' = conf /\ read' = read
      /\ report' = [message |-> ToFormattedMessage(seen, conf), raw |-> ToStringMessage(seen, conf, TRUE)]
  BY DEF Receive
<1>2. Message(seen)
  BY WithoutReplyAtIs DEF Going
<1> HIDE DEF seen
<1>3. report'.message = ToFormattedMessage(seen, conf) /\ report'.raw = ToStringMessage(seen, conf, TRUE)
  BY <1>1
<1>4. /\ IF conf.array THEN AreSegments(report'.message) ELSE IsSeq(report'.message)
      /\ IsSeq(report'.raw)
  BY <1>2, <1>3, FormattedIs, StringIsSeq
<1>5. Readable(read')
  BY <1>1 DEF Going
<1>6. QED
  BY <1>1, <1>2, <1>4, <1>5 DEF Going

\* An application asks for what it was given, or for a quotation.
LEMMA ApplicationGoing ==
    ASSUME Going, Application
    PROVE  Going'
<1> DEFINE quote == Code("reply", <<Field("id", <<"own">>)>>) \o <<"a">>
<1>1. /\ at = "reported" /\ at' = "asked" /\ elems' = elems /\ read' = read
      /\ \/ ask' = [of |-> "message", array |-> conf.array, body |-> report.message]
         \/ ask' = [of |-> "raw", array |-> FALSE, body |-> report.raw]
         \/ ask' = [of |-> "quote", array |-> FALSE, body |-> quote]
  BY DEF Application
<1>2. IsSeq(quote)
  BY OneIsSeq, OneField, CodeIsSeq, ConcatIsSeq
<1> HIDE DEF quote
<1>3. \/ ask'.array = conf.array /\ ask'.body = report.message
      \/ ask'.array = FALSE /\ ask'.body = report.raw
      \/ ask'.array = FALSE /\ ask'.body = quote
  BY <1>1
<1>4. IF ask'.array THEN AreSegments(ask'.body) ELSE IsSeq(ask'.body)
  BY <1>1, <1>2, <1>3 DEF Going
<1>5. Message(elems') /\ Readable(read')
  BY <1>1 DEF Going
<1>6. QED
  BY <1>1, <1>4, <1>5 DEF Going

\* An application writes a text of its own.
LEMMA ComposeGoing ==
    ASSUME Going, Compose
    PROVE  Going'
<1>1. PICK s \in Composed : ask' = [of |-> "composed", array |-> FALSE, body |-> s]
  BY DEF Compose
<1>2. IsSeq(ask'.body) /\ ask'.array = FALSE
  BY <1>1, ComposedAssumption
<1>3. at' = "asked" /\ elems' = elems /\ read' = read
  BY DEF Compose
<1>4. Message(elems') /\ Readable(read')
  BY <1>3 DEF Going
<1>5. QED
  BY <1>2, <1>3, <1>4 DEF Going

\* What is asked for is read with its reply first.
LEMMA ReadGoing ==
    ASSUME Going, Read
    PROVE  Going'
<1>1. at = "asked" /\ at' = "read" /\ elems' = elems
  BY DEF Read
<1>2. PICK now : read' = IF ask.array THEN ConvertObjectMessage(ask.body, conf, now)
                         ELSE ConvertStringMessage(ask.body, conf, now)
  BY DEF Read
<1>3. Readable(read')
  BY <1>1, <1>2, ObjectReads, StringReads DEF Going
<1>4. Message(elems')
  BY <1>1 DEF Going
<1>5. QED
  BY <1>1, <1>3, <1>4 DEF Going

\* What is sent goes in parts that say it.
LEMMA SendGoing ==
    ASSUME Going, Send
    PROVE  Going'
<1> DEFINE alone == {i \in DOMAIN read : read[i].k \in {"poke", "music"}}
           first == IF alone = {} THEN 0 ELSE Min(alone)
<1>1. PICK mayAtAll \in BOOLEAN :
        LET es == Uploaded(read, mayAtAll, world.up)
        IN /\ whole' = IF first = 0 THEN es ELSE IF read[first].k = "poke" THEN Nothing ELSE <<read[first]>>
           /\ parts' = IF whole' = Nothing THEN Nothing
                       ELSE IF first # 0 \/ Estimate(es) <= MaxMessageSize THEN <<whole'>>
                       ELSE SplitLongMessage(es)
  BY DEF Send
<1>2. at' = "sent" /\ elems' = elems /\ read' = read
  BY DEF Send
<1> DEFINE es == Uploaded(read, mayAtAll, world.up)
<1>3. Readable(read) /\ Message(elems)
  BY DEF Going
<1>4. Elements(es)
  BY <1>3, UploadedIs
<1>5. first # 0 => first \in 1..Len(read) /\ read[first].k \in {"poke", "music"}
  <2>1. DOMAIN read = 1..Len(read) /\ Len(read) \in Nat
    BY <1>3, IsSeqLen DEF Readable
  <2>2. alone \subseteq 0..Len(read)
    BY <2>1
  <2>3. alone # {} => Min(alone) \in alone
    BY <2>1, <2>2, MinIs
  <2>4. QED
    BY <2>1, <2>3
<1> HIDE DEF alone, first, es
<1>6. /\ whole' = IF first = 0 THEN es ELSE IF read[first].k = "poke" THEN Nothing ELSE <<read[first]>>
      /\ parts' = IF whole' = Nothing THEN Nothing
                  ELSE IF first # 0 \/ Estimate(es) <= MaxMessageSize THEN <<whole'>>
                  ELSE SplitLongMessage(es)
  BY <1>1 DEF es
<1>7. Say(FlattenSeq(parts')) = Say(whole') /\ Parts(parts')
  <2>1. CASE whole' = Nothing
    <3>1. parts' = Nothing
      BY <1>6, <2>1
    <3>2. QED
      BY <2>1, <3>1, NoParts
  <2>2. CASE whole' # Nothing /\ first = 0 /\ Estimate(es) <= MaxMessageSize
    <3>1. whole' = es /\ parts' = <<es>> /\ Sendable(es)
      BY <1>6, <2>2 DEF Sendable
    <3>2. QED
      BY <1>4, <3>1, OnePart
  <2>3. CASE whole' # Nothing /\ first = 0 /\ ~(Estimate(es) <= MaxMessageSize)
    <3>1. whole' = es /\ parts' = SplitLongMessage(es)
      BY <1>6, <2>3
    <3>2. QED
      BY <1>4, <3>1, SplitLongMessageIsExact
  <2>4. CASE whole' # Nothing /\ first # 0
    <3> DEFINE e == read[first]
    <3>1. whole' = <<e>> /\ parts' = <<<<e>>>>
      BY <1>6, <2>4
    <3>2. IsElement(e) /\ ~IsText(e)
      BY <1>3, <1>5, <2>4 DEF Readable, IsText
    <3> HIDE DEF e
    <3>3. Elements(<<e>>) /\ Sendable(<<e>>)
      BY <3>2, SayOne, OneIsSeq DEF Sendable
    <3>4. QED
      BY <3>1, <3>3, OnePart
  <2>5. QED
    BY <2>1, <2>2, <2>3, <2>4
<1>8. QED
  BY <1>2, <1>3, <1>7 DEF Going

\* The robot can forward what was received, with its own line too.
LEMMA MessageIsRobotable ==
    ASSUME NEW es, Message(es)
    PROVE  AreRobotable(es) /\ AreRobotable(Append(es, Text(<<"-">>)))
<1>1. AreRobotable(es)
  BY DEF Message, AreWellFormed, WellFormed, AreRobotable, Robotable, IsElement, IsText
<1> DEFINE e == Text(<<"-">>)
<1>2. Robotable(e)
  BY OneIsSeq DEF Robotable, IsElement, Text
<1> HIDE DEF e
<1>3. AreRobotable(<<e>>)
  BY <1>2, OneIsSeq DEF AreRobotable
<1>4. Append(es, e) = es \o <<e>>
  BY <1>1, AppendIsSeq DEF AreRobotable
<1>5. AreRobotable(es \o <<e>>)
  BY <1>1, <1>3, RobotConcat
<1>6. QED
  BY <1>1, <1>4, <1>5 DEF e

\* The robot forwards in parts that say what it makes of a message.
LEMMA ForwardGoing ==
    ASSUME Going, NEW forRepeat \in BOOLEAN, Forward(forRepeat)
    PROVE  Going'
<1> DEFINE m == IF forRepeat THEN elems ELSE Append(elems, Text(<<"-">>))
<1>1. /\ at' = "forwarded" /\ elems' = elems /\ read' = read
      /\ parts' = getForwardMessagesList(elems, forRepeat, world.up)
      /\ whole' = robotElements(IF forRepeat \/ elems = Nothing THEN elems ELSE Append(elems, Text(<<"-">>)), world.up)
  BY DEF Forward
<1>2. Message(elems) /\ Readable(read)
  BY DEF Going
<1>3. Say(FlattenSeq(parts')) = Say(whole') /\ Parts(parts')
  <2>1. CASE elems = Nothing
    <3>1. parts' = Nothing /\ whole' = robotElements(Nothing, world.up)
      BY <1>1, <2>1 DEF getForwardMessagesList
    <3>2. robotElements(Nothing, world.up) = Nothing
      <4>1. AreRobotable(Nothing) /\ Len(Nothing) = 0
        BY EmptyIsSeq DEF AreRobotable, Nothing
      <4>2. /\ robotElements(Nothing, world.up) = FlattenSeq(Robots(Nothing, world.up))
            /\ IsSeq(Robots(Nothing, world.up)) /\ Len(Robots(Nothing, world.up)) = 0
        BY <4>1, RobotsIs DEF AreSeqs
      <4>3. QED
        BY <4>2, EmptyIff, NoParts
    <3>3. QED
      BY <3>1, <3>2, NoParts
  <2>2. CASE elems # Nothing
    <3>1. parts' = robotLongMessage(m, world.up) /\ whole' = robotElements(m, world.up)
      BY <1>1, <2>2 DEF getForwardMessagesList
    <3>2. AreRobotable(m)
      BY <1>2, MessageIsRobotable
    <3> HIDE DEF m
    <3>3. QED
      BY <3>1, <3>2, RobotLongMessageIsExact
  <2>3. QED
    BY <2>1, <2>2
<1>4. QED
  BY <1>1, <1>2, <1>3 DEF Going

\* A step that changes nothing keeps the invariant.
LEMMA StillGoing ==
    ASSUME Going, UNCHANGED vars
    PROVE  Going'
BY DEF Going, vars

\* Every message, at whatever stage, is as Going says: the inductive invariant.
THEOREM GoesOn == Spec => []Going
<1>1. Going /\ [Next]_vars => Going'
  <2> SUFFICES ASSUME Going, [Next]_vars PROVE Going'
    OBVIOUS
  <2>1. CASE Receive
    BY <2>1, ReceiveGoing
  <2>2. CASE Application
    BY <2>2, ApplicationGoing
  <2>3. CASE Compose
    BY <2>3, ComposeGoing
  <2>4. CASE Read
    BY <2>4, ReadGoing
  <2>5. CASE Send
    BY <2>5, SendGoing
  <2>6. CASE \E r \in BOOLEAN : Forward(r)
    BY <2>6, ForwardGoing
  <2>7. CASE Again \/ UNCHANGED vars
    BY <2>7, StillGoing DEF Again
  <2>8. QED
    BY <2>1, <2>2, <2>3, <2>4, <2>5, <2>6, <2>7 DEF Next
<1>2. QED
  BY <1>1, InitGoing, PTL DEF Spec

(* Whatever is written, received and split, a message has one reply at most, *)
(* and nothing is before it.                                                 *)
THEOREM RepliesLead == Spec => []ReplyLeads
<1>1. Going => ReplyLeads
  BY IsSeqLen DEF Going, Readable, ReplyLeads
<1>2. QED
  BY <1>1, GoesOn, PTL

(* Whatever is sent, and whatever the robot forwards, what goes to the       *)
(* server is the whole message in parts that are not too long.               *)
THEOREM SplitsAreExact == Spec => []SplitIsExact
<1>1. Going => SplitIsExact
  BY Exact DEF Going, SplitIsExact
<1>2. QED
  BY <1>1, GoesOn, PTL


----------------------------------------------------------------------------
(* Escaping. *)

\* Two sequences of one.
LEMMA ConcatOnes ==
    ASSUME NEW a, NEW b
    PROVE  Append(<<a>>, b) = <<a, b>> /\ <<a>> \o <<b>> = <<a, b>>
<1> DEFINE u == <<a>>
           x == Append(u, b)
<1>1. IsSeq(u) /\ Len(u) = 1 /\ u[1] = a
  BY OneIsSeq
<1> HIDE DEF u
<1>2. IsSeq(x) /\ Len(x) = 2 /\ (\A i \in 1..1 : x[i] = u[i]) /\ x[2] = b /\ x = u \o <<b>>
  <2>1. /\ IsSeq(x) /\ Len(x) = Len(u) + 1 /\ (\A i \in 1..Len(u) : x[i] = u[i])
        /\ x[Len(u) + 1] = b /\ x = u \o <<b>>
    BY <1>1, AppendIsSeq
  <2> HIDE DEF x
  <2>2. QED
    BY <1>1, <2>1
<1> HIDE DEF x
<1>3. x[1] = a
  BY <1>1, <1>2
<1>5. x = <<a, b>>
  BY <1>2, <1>3, IsTwo
<1>4. QED
  BY <1>2, <1>5 DEF x, u

\* The flattening of two sequences.
LEMMA FlattenTwo ==
    ASSUME NEW a, NEW b, IsSeq(a), IsSeq(b)
    PROVE  FlattenSeq(<<a, b>>) = a \o b
<1>1. AreSeqs(<<a>>) /\ FlattenSeq(<<a>>) = a
  BY OneIsSeq, FlattenOne DEF AreSeqs
<1>2. Append(<<a>>, b) = <<a, b>>
  BY ConcatOnes
<1>3. QED
  BY <1>1, <1>2, FlattenAppend

Entity(s, tail, i) == i \in 1..Len(s) - 1 /\ s[i] = "&" /\ s[i + 1] = tail
Bits(s, tail, char) ==
    [i \in DOMAIN s |-> CASE Entity(s, tail, i) -> <<char>>
                          [] Entity(s, tail, i - 1) -> Nothing
                          [] OTHER -> <<s[i]>>]

AreBits(ss, s, tail, char) ==
    /\ Replaced(s, tail, char) = FlattenSeq(ss)
    /\ AreSeqs(ss) /\ Len(ss) = Len(s)
    /\ \A i \in 1..Len(s) :
          /\ Entity(s, tail, i) => ss[i] = <<char>>
          /\ Entity(s, tail, i - 1) => ss[i] = Nothing
          /\ ~Entity(s, tail, i) /\ ~Entity(s, tail, i - 1) => ss[i] = <<s[i]>>

\* Replaced, token by token.
LEMMA BitsIs ==
    ASSUME NEW s, IsSeq(s), NEW tail, tail # "&", NEW char
    PROVE  AreBits(Bits(s, tail, char), s, tail, char)
<1> DEFINE ss == Bits(s, tail, char)
<1>1. Replaced(s, tail, char) = FlattenSeq(ss)
  BY DEF Replaced, Bits, Entity
<1>2. DOMAIN s = 1..Len(s) /\ Len(s) \in Nat
  BY IsSeqLen
<1>3. ASSUME NEW i \in 1..Len(s)
      PROVE  /\ Entity(s, tail, i) => ss[i] = <<char>>
             /\ Entity(s, tail, i - 1) => ss[i] = Nothing
             /\ ~Entity(s, tail, i) /\ ~Entity(s, tail, i - 1) => ss[i] = <<s[i]>>
  <2>1. ~(Entity(s, tail, i) /\ Entity(s, tail, i - 1))
    <3>1. (i - 1) + 1 = i
      BY <1>2
    <3>2. QED
      BY <3>1 DEF Entity
  <2>2. ss[i] = CASE Entity(s, tail, i) -> <<char>>
                  [] Entity(s, tail, i - 1) -> Nothing
                  [] OTHER -> <<s[i]>>
    BY <1>2 DEF Bits
  <2> HIDE DEF ss
  <2>3. QED
    BY <2>1, <2>2
<1>4. ss = [i \in DOMAIN s |-> ss[i]]
  BY DEF Bits
<1> HIDE DEF ss
<1>5. ASSUME NEW i \in 1..Len(s) PROVE IsSeq(ss[i])
  <2>1. IsSeq(<<char>>) /\ IsSeq(Nothing) /\ IsSeq(<<s[i]>>)
    BY OneIsSeq, EmptyIsSeq DEF Nothing
  <2>2. QED
    BY <1>3, <2>1
<1>6. AreSeqs(ss) /\ Len(ss) = Len(s)
  BY <1>4, <1>5, MapIsSeq
<1>7. QED
  BY <1>1, <1>3, <1>6 DEF ss, AreBits

\* An entity is not across the border of two sequences, unless the first ends
\* in its "&" and the second begins with the rest.
Apart(a, b, tail) == Len(b) # 0 /\ (Len(a) = 0 \/ a[Len(a)] # "&" \/ b[1] # tail)

\* An entity is replaced in each of two texts, if none lies across them.
LEMMA ReplacedConcat ==
    ASSUME NEW a, IsSeq(a), NEW b, IsSeq(b), NEW tail, tail # "&", NEW char, Apart(a, b, tail)
    PROVE  Replaced(a \o b, tail, char) = Replaced(a, tail, char) \o Replaced(b, tail, char)
<1> DEFINE u == a \o b
           n == Len(a)
           ab == Bits(a, tail, char)
           bb == Bits(b, tail, char)
           ub == Bits(u, tail, char)
<1>0. n \in Nat /\ Len(b) \in Nat
  BY IsSeqLen
<1>1. /\ IsSeq(u) /\ Len(u) = n + Len(b)
      /\ \A i \in 1..n : u[i] = a[i]
      /\ \A i \in 1..Len(b) : u[n + i] = b[i]
  BY ConcatIsSeq
<1> HIDE DEF u
<1>10. AreBits(ab, a, tail, char) /\ AreBits(bb, b, tail, char) /\ AreBits(ub, u, tail, char)
  BY <1>1, BitsIs
<1> HIDE DEF ab, bb, ub
<1>2. /\ Replaced(a, tail, char) = FlattenSeq(ab) /\ AreSeqs(ab) /\ Len(ab) = n
      /\ Replaced(b, tail, char) = FlattenSeq(bb) /\ AreSeqs(bb) /\ Len(bb) = Len(b)
      /\ Replaced(u, tail, char) = FlattenSeq(ub) /\ AreSeqs(ub) /\ Len(ub) = Len(u)
  BY <1>10 DEF AreBits
<1>3. ~Entity(u, tail, n) /\ ~Entity(a, tail, n) /\ ~Entity(b, tail, 0) /\ ~Entity(u, tail, 0) /\ ~Entity(a, tail, 0)
  <2>1. ~Entity(b, tail, 0) /\ ~Entity(u, tail, 0) /\ ~Entity(a, tail, 0) /\ ~Entity(a, tail, n)
    BY <1>0, <1>1 DEF Entity
  <2>2. ASSUME Entity(u, tail, n) PROVE FALSE
    <3>1. n \in 1..n /\ u[n] = "&" /\ u[n + 1] = tail
      BY <1>0, <1>1, <2>2 DEF Entity
    <3>2. 1 \in 1..Len(b)
      BY <1>0 DEF Apart
    <3>3. QED
      BY <1>1, <3>1, <3>2 DEF Apart
  <2>3. QED
    BY <2>1, <2>2
<1>4. ASSUME NEW i \in 1..n, i < n PROVE Entity(u, tail, i) <=> Entity(a, tail, i)
  <2>1. i \in 1..n - 1 /\ i \in 1..Len(u) - 1 /\ i + 1 \in 1..n
    BY <1>0, <1>1, <1>4
  <2>2. u[i] = a[i] /\ u[i + 1] = a[i + 1]
    BY <1>1, <2>1
  <2>3. QED
    BY <2>1, <2>2 DEF Entity
<1>5. ASSUME NEW j \in 1..Len(b) PROVE Entity(u, tail, n + j) <=> Entity(b, tail, j)
  <2>1. n + j \in 1..Len(u) - 1 <=> j \in 1..Len(b) - 1
    BY <1>0, <1>1
  <2>2. u[n + j] = b[j]
    BY <1>1
  <2>3. j \in 1..Len(b) - 1 => u[n + j + 1] = b[j + 1]
    <3>1. j \in 1..Len(b) - 1 => j + 1 \in 1..Len(b) /\ n + (j + 1) = n + j + 1
      BY <1>0
    <3>2. QED
      BY <1>1, <3>1
  <2>4. QED
    BY <2>1, <2>2, <2>3 DEF Entity
<1>6. ASSUME NEW i \in 1..n PROVE ub[i] = ab[i]
  <2>1. i \in 1..Len(u) /\ (i < n \/ i = n) /\ (i = 1 \/ (i - 1 \in 1..n /\ i - 1 < n)) /\ (i = 1 => i - 1 = 0)
    BY <1>0, <1>1
  <2>2. Entity(u, tail, i) <=> Entity(a, tail, i)
    BY <1>3, <1>4, <2>1
  <2>3. Entity(u, tail, i - 1) <=> Entity(a, tail, i - 1)
    BY <1>3, <1>4, <2>1
  <2>4. u[i] = a[i]
    BY <1>1
  <2>5. QED
    BY <1>10, <2>1, <2>2, <2>3, <2>4 DEF AreBits
<1>7. ASSUME NEW j \in 1..Len(b) PROVE ub[n + j] = bb[j]
  <2>1. n + j \in 1..Len(u) /\ (j = 1 \/ j - 1 \in 1..Len(b)) /\ (n + j) - 1 = n + (j - 1)
    BY <1>0, <1>1
  <2>2. Entity(u, tail, n + j) <=> Entity(b, tail, j)
    BY <1>5
  <2>3. Entity(u, tail, (n + j) - 1) <=> Entity(b, tail, j - 1)
    <3>1. CASE j = 1
      BY <1>0, <1>3, <2>1, <3>1
    <3>2. CASE j - 1 \in 1..Len(b)
      BY <1>5, <2>1, <3>2
    <3>3. QED
      BY <2>1, <3>1, <3>2
  <2>4. u[n + j] = b[j]
    BY <1>1
  <2>5. QED
    BY <1>10, <2>1, <2>2, <2>3, <2>4 DEF AreBits
<1>8. ub = ab \o bb
  <2>1. IsSeq(ab) /\ IsSeq(bb) /\ IsSeq(ub)
    BY <1>2 DEF AreSeqs
  <2>2. /\ IsSeq(ab \o bb) /\ Len(ab \o bb) = n + Len(b)
        /\ \A i \in 1..n : (ab \o bb)[i] = ab[i]
        /\ \A j \in 1..Len(b) : (ab \o bb)[n + j] = bb[j]
    BY <1>2, <2>1, ConcatIsSeq
  <2>3. ASSUME NEW i \in 1..Len(ub) PROVE ub[i] = (ab \o bb)[i]
    <3>1. CASE i \in 1..n
      BY <1>6, <2>2, <3>1
    <3>2. CASE i \notin 1..n
      <4>1. i - n \in 1..Len(b) /\ i = n + (i - n)
        BY <1>0, <1>1, <1>2, <3>2
      <4>2. PICK j \in 1..Len(b) : i = n + j
        BY <4>1
      <4>3. QED
        BY <1>7, <2>2, <4>2
    <3>3. QED
      BY <3>1, <3>2
  <2>4. QED
    BY <1>1, <1>2, <2>1, <2>2, <2>3, SeqEq
<1>9. QED
  BY <1>2, <1>8, FlattenConcat DEF u


\* Of texts in a row none of which ends in an open "&", each is replaced for
\* itself.
AllApart(ss, tail) ==
    /\ \A i \in 1..Len(ss) : Len(ss[i]) # 0
    /\ \A i \in 1..Len(ss) : i < Len(ss) => ss[i][Len(ss[i])] # "&" \/ ss[i + 1][1] # tail
AllReplaced(rs, ss, tail, char) ==
    Len(rs) = Len(ss) /\ \A i \in 1..Len(ss) : rs[i] = Replaced(ss[i], tail, char)

\* ... and in each of many.
LEMMA ReplacedBlocks ==
    ASSUME NEW tail, tail # "&", NEW char, NEW ss, AreSeqs(ss),
           AllApart(ss, tail), NEW rs, AreSeqs(rs), AllReplaced(rs, ss, tail, char)
    PROVE  Replaced(FlattenSeq(ss), tail, char) = FlattenSeq(rs)
<1> DEFINE a(i) == FlattenSeq(SubSeq(ss, 1, i))
           b(i) == FlattenSeq(SubSeq(rs, 1, i))
           P(i) == /\ AreSeqs(SubSeq(ss, 1, i)) /\ AreSeqs(SubSeq(rs, 1, i)) /\ IsSeq(a(i))
                   /\ Replaced(a(i), tail, char) = b(i)
                   /\ Len(a(i)) # 0 => i \in 1..Len(ss) /\ a(i)[Len(a(i))] = ss[i][Len(ss[i])]
           S == {i \in Nat : i <= Len(ss) => P(i)}
<1>0. IsSeq(ss) /\ IsSeq(rs) /\ Len(ss) \in Nat /\ Len(rs) = Len(ss)
  BY IsSeqLen DEF AreSeqs, AllReplaced
<1>1. 0 \in S
  <2>1. SubSeq(ss, 1, 0) = <<>> /\ SubSeq(rs, 1, 0) = <<>>
    BY <1>0, WholeBeginning
  <2>2. a(0) = <<>> /\ b(0) = <<>>
    BY <2>1, FlattenEmpty
  <2>3. Replaced(<<>>, tail, char) = <<>>
    <3>1. AreBits(Bits(<<>>, tail, char), <<>>, tail, char)
      BY EmptyIsSeq, BitsIs
    <3>2. /\ Replaced(<<>>, tail, char) = FlattenSeq(Bits(<<>>, tail, char))
          /\ IsSeq(Bits(<<>>, tail, char)) /\ Len(Bits(<<>>, tail, char)) = 0
      BY <3>1, EmptyIsSeq DEF AreBits, AreSeqs
    <3>3. QED
      BY <3>2, EmptyIff, FlattenEmpty DEF Nothing
  <2>4. AreSeqs(<<>>) /\ IsSeq(<<>>) /\ Len(<<>>) = 0
    BY FlattenEmpty, EmptyIsSeq
  <2>5. P(0)
    BY <2>1, <2>2, <2>3, <2>4
  <2>6. QED
    BY <2>5
<1>2. ASSUME NEW i \in Nat, i \in S PROVE i + 1 \in S
  <2>1. ASSUME NEW m, m = i + 1, m <= Len(ss) PROVE P(m)
    <3>1. m \in 1..Len(ss) /\ m - 1 = i /\ i \in 0..Len(ss) /\ (i \in 1..Len(ss) => i < Len(ss))
      BY <1>0, <2>1
    <3>2. P(i)
      BY <1>2, <3>1
    <3>3. SubSeq(ss, 1, m) = Append(SubSeq(ss, 1, i), ss[m]) /\ SubSeq(rs, 1, m) = Append(SubSeq(rs, 1, i), rs[m])
      BY <1>0, <3>1, BeginningGrows
    <3>4. IsSeq(ss[m]) /\ IsSeq(rs[m]) /\ rs[m] = Replaced(ss[m], tail, char) /\ Len(ss[m]) # 0
      BY <1>0, <3>1 DEF AreSeqs, AllApart, AllReplaced
    <3>5. AreSeqs(SubSeq(ss, 1, m)) /\ a(m) = a(i) \o ss[m]
      BY <3>2, <3>3, <3>4, FlattenAppend
    <3>6. AreSeqs(SubSeq(rs, 1, m)) /\ b(m) = b(i) \o rs[m]
      BY <3>2, <3>3, <3>4, FlattenAppend
    <3>7. (Len(a(i)) = 0) \/ a(i)[Len(a(i))] # "&" \/ ss[m][1] # tail
      <4>1. ASSUME Len(a(i)) # 0 PROVE a(i)[Len(a(i))] # "&" \/ ss[m][1] # tail
        <5>1. i \in 1..Len(ss) /\ i < Len(ss) /\ a(i)[Len(a(i))] = ss[i][Len(ss[i])]
          BY <3>1, <3>2, <4>1
        <5>2. ss[i][Len(ss[i])] # "&" \/ ss[i + 1][1] # tail
          BY <5>1 DEF AllApart
        <5>3. QED
          BY <2>1, <5>1, <5>2
      <4>2. QED
        BY <4>1
    <3>8. IsSeq(a(i)) /\ Replaced(a(i), tail, char) = b(i)
      BY <3>2
    <3> HIDE DEF a, b
    <3>9. Replaced(a(m), tail, char) = b(m)
      <4>1. ASSUME NEW u, NEW v, u = a(i), v = ss[m]
            PROVE  Replaced(u \o v, tail, char) = Replaced(u, tail, char) \o Replaced(v, tail, char)
        <5>1. IsSeq(u) /\ IsSeq(v) /\ Apart(u, v, tail)
          BY <3>4, <3>7, <3>8, <4>1 DEF Apart
        <5>2. QED
          BY <5>1, ReplacedConcat
      <4>2. QED
        BY <3>4, <3>5, <3>6, <3>8, <4>1
    <3>10. IsSeq(a(m)) /\ a(m)[Len(a(m))] = ss[m][Len(ss[m])]
      <4>1. /\ IsSeq(a(m)) /\ Len(a(m)) = Len(a(i)) + Len(ss[m])
            /\ \A k \in 1..Len(ss[m]) : a(m)[Len(a(i)) + k] = ss[m][k]
        BY <3>4, <3>5, <3>8, ConcatIsSeq
      <4>2. Len(ss[m]) \in 1..Len(ss[m])
        BY <3>4, IsSeqLen
      <4>3. QED
        BY <4>1, <4>2
    <3>11. QED
      BY <3>1, <3>5, <3>6, <3>9, <3>10
  <2>2. QED
    BY <2>1
<1>3. Nat \subseteq S
  <2> HIDE DEF S
  <2>1. QED
    BY <1>1, <1>2, Induction
<1>4. P(Len(ss))
  <2>1. \A i \in Nat : i <= Len(ss) => P(i)
    BY <1>3
  <2> HIDE DEF P
  <2>2. QED
    BY <1>0, <2>1
<1>5. a(Len(ss)) = FlattenSeq(ss) /\ b(Len(ss)) = FlattenSeq(rs)
  BY <1>0, WholeBeginning
<1>6. QED
  BY <1>4, <1>5

\* One token is no entity.
LEMMA ReplacedOne ==
    ASSUME NEW c, NEW tail, tail # "&", NEW char
    PROVE  Replaced(<<c>>, tail, char) = <<c>>
<1> DEFINE s == <<c>>
           ss == Bits(s, tail, char)
<1>1. IsSeq(s) /\ Len(s) = 1 /\ s[1] = c
  BY OneIsSeq
<1> HIDE DEF s
<1>2. AreBits(ss, s, tail, char)
  BY <1>1, BitsIs
<1> HIDE DEF ss
<1>3. ~Entity(s, tail, 1) /\ ~Entity(s, tail, 0) /\ 1 - 1 = 0
  BY <1>1 DEF Entity
<1>4. Replaced(s, tail, char) = FlattenSeq(ss) /\ IsSeq(ss) /\ Len(ss) = 1 /\ ss[1] = <<c>>
  BY <1>1, <1>2, <1>3 DEF AreBits, AreSeqs
<1>5. ss = <<<<c>>>>
  BY <1>4, IsOne
<1>6. QED
  BY <1>4, <1>5, OneIsSeq, FlattenOne DEF s

\* "&" and a tail are the entity of that tail and of no other.
LEMMA ReplacedTwo ==
    ASSUME NEW t, t # "&", NEW tail, tail # "&", NEW char
    PROVE  Replaced(<<"&", t>>, tail, char) = IF t = tail THEN <<char>> ELSE <<"&", t>>
<1> DEFINE s == <<"&", t>>
           ss == Bits(s, tail, char)
<1>1. IsSeq(s) /\ Len(s) = 2 /\ s[1] = "&" /\ s[2] = t
  BY TwoIsSeq
<1> HIDE DEF s
<1>2. AreBits(ss, s, tail, char)
  BY <1>1, BitsIs
<1> HIDE DEF ss
<1>3. (Entity(s, tail, 1) <=> t = tail) /\ ~Entity(s, tail, 0) /\ ~Entity(s, tail, 2) /\ 1 - 1 = 0 /\ 2 - 1 = 1
  BY <1>1 DEF Entity
<1>4. Replaced(s, tail, char) = FlattenSeq(ss) /\ IsSeq(ss) /\ Len(ss) = 2
  BY <1>1, <1>2 DEF AreBits, AreSeqs
<1>5. CASE t = tail
  <2>1. ss[1] = <<char>> /\ ss[2] = <<>>
    BY <1>1, <1>2, <1>3, <1>5 DEF AreBits, Nothing
  <2>2. ss = <<<<char>>, <<>>>>
    BY <1>4, <2>1, IsTwo
  <2>3. FlattenSeq(ss) = <<char>> \o <<>>
    BY <2>2, OneIsSeq, EmptyIsSeq, FlattenTwo
  <2>4. <<char>> \o <<>> = <<char>>
    BY OneIsSeq, ConcatEmpty
  <2>5. QED
    BY <1>4, <1>5, <2>3, <2>4 DEF s
<1>6. CASE t # tail
  <2>1. ss[1] = <<"&">> /\ ss[2] = <<t>>
    BY <1>1, <1>2, <1>3, <1>6 DEF AreBits
  <2>2. ss = <<<<"&">>, <<t>>>>
    BY <1>4, <2>1, IsTwo
  <2>3. FlattenSeq(ss) = <<"&">> \o <<t>>
    BY <2>2, OneIsSeq, FlattenTwo
  <2>4. <<"&">> \o <<t>> = <<"&", t>>
    BY ConcatOnes
  <2>5. QED
    BY <1>4, <1>6, <2>3, <2>4 DEF s
<1>7. QED
  BY <1>5, <1>6


\* Texts a character each, in which "&" is escaped and so are some others.
Blocks(ss, s) ==
    /\ ss = [i \in 1..Len(s) |-> ss[i]]
    /\ \A i \in 1..Len(s) :
          \/ ss[i] = <<s[i]>> /\ s[i] # "&"
          \/ \E t \in {"amp;", "#91;", "#93;", "#44;"} : ss[i] = <<"&", t>>

\* A block is not empty and does not end in "&".
LEMMA BlocksAre ==
    ASSUME NEW s, IsSeq(s), NEW ss, Blocks(ss, s)
    PROVE  /\ AreSeqs(ss) /\ Len(ss) = Len(s)
           /\ \A i \in 1..Len(ss) : Len(ss[i]) # 0 /\ ss[i][Len(ss[i])] # "&"
<1>1. Len(s) \in Nat /\ DOMAIN s = 1..Len(s)
  BY IsSeqLen
<1>2. IsSeq(ss) /\ Len(ss) = Len(s)
  BY <1>1, FunIsSeq DEF Blocks
<1>3. ASSUME NEW i \in 1..Len(s) PROVE IsSeq(ss[i]) /\ Len(ss[i]) # 0 /\ ss[i][Len(ss[i])] # "&"
  <2>1. CASE ss[i] = <<s[i]>> /\ s[i] # "&"
    <3>1. IsSeq(<<s[i]>>) /\ Len(<<s[i]>>) = 1 /\ <<s[i]>>[1] = s[i]
      BY OneIsSeq
    <3>2. QED
      BY <2>1, <3>1
  <2>2. ASSUME NEW t, t \in {"amp;", "#91;", "#93;", "#44;"}, ss[i] = <<"&", t>>
        PROVE  IsSeq(ss[i]) /\ Len(ss[i]) # 0 /\ ss[i][Len(ss[i])] # "&"
    <3> DEFINE u == <<"&", t>>
    <3>1. IsSeq(u) /\ Len(u) = 2 /\ u[2] = t
      BY TwoIsSeq
    <3>2. ss[i] = u /\ t # "&"
      BY <2>2
    <3> HIDE DEF u
    <3>3. Len(u) # 0 /\ u[Len(u)] # "&"
      BY <3>1, <3>2
    <3>4. QED
      BY <3>1, <3>2, <3>3
  <2>3. QED
    BY <2>1, <2>2 DEF Blocks
<1>4. QED
  BY <1>2, <1>3 DEF AreSeqs

\* One replacement: the escapes of one character are taken back.
TakenBack(rs, ss, s, tail, char) ==
    /\ rs = [i \in 1..Len(s) |-> rs[i]]
    /\ \A i \in 1..Len(s) : rs[i] = IF ss[i] = <<"&", tail>> THEN <<char>> ELSE ss[i]

\* An entity is taken back block by block, where no block runs into the next.
LEMMA Unescapes ==
    ASSUME NEW s, IsSeq(s), NEW ss, Blocks(ss, s), NEW tail, tail # "&", NEW char,
           NEW rs, TakenBack(rs, ss, s, tail, char)
    PROVE  Replaced(FlattenSeq(ss), tail, char) = FlattenSeq(rs)
<1>1. /\ AreSeqs(ss) /\ Len(ss) = Len(s)
      /\ \A i \in 1..Len(ss) : Len(ss[i]) # 0 /\ ss[i][Len(ss[i])] # "&"
  BY BlocksAre
<1>2. Len(s) \in Nat
  BY IsSeqLen
<1>3. IsSeq(rs) /\ Len(rs) = Len(s)
  BY <1>2, FunIsSeq DEF TakenBack
<1>4. ASSUME NEW i \in 1..Len(s) PROVE rs[i] = Replaced(ss[i], tail, char)
  <2>1. CASE ss[i] = <<s[i]>> /\ s[i] # "&"
    <3>1. ss[i] # <<"&", tail>>
      <4>1. Len(<<s[i]>>) = 1 /\ Len(<<"&", tail>>) = 2
        BY OneIsSeq, TwoIsSeq
      <4>2. QED
        BY <2>1, <4>1
    <3>2. QED
      BY <2>1, <3>1, ReplacedOne DEF TakenBack
  <2>2. ASSUME NEW t, t \in {"amp;", "#91;", "#93;", "#44;"}, ss[i] = <<"&", t>>
        PROVE  rs[i] = Replaced(ss[i], tail, char)
    <3>1. ss[i] = <<"&", tail>> <=> t = tail
      <4>1. <<"&", t>>[2] = t /\ <<"&", tail>>[2] = tail
        BY TwoIsSeq
      <4>2. QED
        BY <2>2, <4>1
    <3>2. Replaced(<<"&", t>>, tail, char) = IF t = tail THEN <<char>> ELSE <<"&", t>>
      <4>1. t # "&"
        BY <2>2
      <4>2. QED
        BY <4>1, ReplacedTwo
    <3>3. rs[i] = IF ss[i] = <<"&", tail>> THEN <<char>> ELSE ss[i]
      BY DEF TakenBack
    <3>4. QED
      BY <2>2, <3>1, <3>2, <3>3
  <2>3. QED
    BY <2>1, <2>2 DEF Blocks
<1>5. ASSUME NEW i \in 1..Len(rs) PROVE IsSeq(rs[i])
  BY <1>1, <1>3, <1>4, ReplacedIsSeq DEF AreSeqs
<1>6. AreSeqs(rs) /\ Len(rs) = Len(ss)
  BY <1>1, <1>3, <1>5 DEF AreSeqs
<1>7. AllApart(ss, tail) /\ AllReplaced(rs, ss, tail, char)
  BY <1>1, <1>4, <1>6 DEF AllApart, AllReplaced
<1>8. QED
  BY <1>1, <1>6, <1>7, ReplacedBlocks

\* A text, escaped.
Escaped(s) == [i \in 1..Len(s) |-> CASE s[i] = "&" -> <<"&", "amp;">>
                                     [] s[i] = "[" -> <<"&", "#91;">>
                                     [] s[i] = "]" -> <<"&", "#93;">>
                                     [] OTHER -> <<s[i]>>]

\* An escaped text is the blocks of its tokens.
LEMMA EscapedIs ==
    ASSUME NEW s, IsSeq(s)
    PROVE  CQCodeEscapeText(s) = FlattenSeq(Escaped(s)) /\ Blocks(Escaped(s), s)
<1>1. DOMAIN s = 1..Len(s)
  BY IsSeqLen
<1>2. QED
  BY <1>1 DEF CQCodeEscapeText, Each, Escaped, Blocks

(* Whatever a user has written, taking the escapes of it back gives what was *)
(* written.                                                                  *)
THEOREM TextComesBack ==
    ASSUME NEW s, IsSeq(s)
    PROVE  CQCodeUnescapeText(CQCodeEscapeText(s)) = s
<1> DEFINE n == Len(s)
           amp == <<"&", "amp;">>
           e0 == Escaped(s)
           e1 == [i \in 1..n |-> CASE s[i] = "&" -> amp
                                   [] s[i] = "]" -> <<"&", "#93;">>
                                   [] OTHER -> <<s[i]>>]
           e2 == [i \in 1..n |-> IF s[i] = "&" THEN amp ELSE <<s[i]>>]
           e3 == [i \in 1..n |-> <<s[i]>>]
<1>1. DOMAIN s = 1..n /\ n \in Nat
  BY IsSeqLen
<1>2. CQCodeEscapeText(s) = FlattenSeq(e0) /\ Blocks(e0, s)
  BY EscapedIs
<1>3. Blocks(e0, s) /\ Blocks(e1, s) /\ Blocks(e2, s)
  BY <1>2 DEF Blocks
<1>4. \A i, t : <<s[i]>> # <<"&", t>>
  BY OneIsSeq, TwoIsSeq
<1>5. <<"&", "amp;">> # <<"&", "#91;">> /\ <<"&", "amp;">> # <<"&", "#93;">> /\ <<"&", "#91;">> # <<"&", "#93;">>
  BY TwoIsSeq
<1>6. TakenBack(e1, e0, s, "#91;", "[")
  BY <1>4, <1>5 DEF TakenBack, Escaped
<1>7. TakenBack(e2, e1, s, "#93;", "]")
  BY <1>4, <1>5 DEF TakenBack
<1>8. TakenBack(e3, e2, s, "amp;", "&")
  BY <1>4 DEF TakenBack
<1>9. "#91;" # "&" /\ "#93;" # "&" /\ "amp;" # "&"
  OBVIOUS
<1>10. FlattenSeq(e3) = s
  BY <1>1, FlattenSingles
<1> HIDE DEF e0, e1, e2, e3
<1>20. ASSUME NEW a, Blocks(a, s), NEW tail, tail # "&", NEW char, NEW b, TakenBack(b, a, s, tail, char)
       PROVE  Replaced(FlattenSeq(a), tail, char) = FlattenSeq(b)
  BY <1>20, Unescapes
<1>11. Replaced(FlattenSeq(e0), "#91;", "[") = FlattenSeq(e1)
  BY <1>3, <1>6, <1>9, <1>20
<1>12. Replaced(FlattenSeq(e1), "#93;", "]") = FlattenSeq(e2)
  BY <1>3, <1>7, <1>9, <1>20
<1>13. Replaced(FlattenSeq(e2), "amp;", "&") = FlattenSeq(e3)
  BY <1>3, <1>8, <1>9, <1>20
<1>14. QED
  BY <1>2, <1>10, <1>11, <1>12, <1>13 DEF CQCodeUnescapeText


\* Where an entity may come from when two sequences are joined.
LEMMA EntityConcat ==
    ASSUME NEW a, IsSeq(a), NEW b, IsSeq(b), NEW tail, Apart(a, b, tail), NEW i, Entity(a \o b, tail, i)
    PROVE  Entity(a, tail, i) \/ (\E j \in 1..Len(b) : Entity(b, tail, j))
<1> DEFINE u == a \o b
           n == Len(a)
<1>0. n \in Nat /\ Len(b) \in Nat
  BY IsSeqLen
<1>1. /\ Len(u) = n + Len(b)
      /\ \A k \in 1..n : u[k] = a[k]
      /\ \A k \in 1..Len(b) : u[n + k] = b[k]
  BY ConcatIsSeq
<1>2. Entity(u, tail, i)
  OBVIOUS
<1> HIDE DEF u
<1>3. i \in 1..Len(u) - 1 /\ u[i] = "&" /\ u[i + 1] = tail
  BY <1>2 DEF Entity
<1>4. CASE i < n
  <2>1. i \in 1..n - 1 /\ i \in 1..n /\ i + 1 \in 1..n
    BY <1>0, <1>1, <1>3, <1>4
  <2>2. a[i] = "&" /\ a[i + 1] = tail
    BY <1>1, <1>3, <2>1
  <2>3. QED
    BY <2>1, <2>2 DEF Entity
<1>5. CASE i = n
  <2>1. n \in 1..n /\ 1 \in 1..Len(b)
    BY <1>0, <1>1, <1>3, <1>5
  <2>2. a[n] = "&" /\ b[1] = tail /\ n # 0
    BY <1>1, <1>3, <1>5, <2>1
  <2>3. QED
    BY <2>2 DEF Apart
<1>6. CASE i > n
  <2>1. i - n \in 1..Len(b) - 1 /\ i = n + (i - n)
    BY <1>0, <1>1, <1>3, <1>6
  <2>2. PICK j \in 1..Len(b) - 1 : i = n + j
    BY <2>1
  <2>3. j \in 1..Len(b) /\ j + 1 \in 1..Len(b) /\ i + 1 = n + (j + 1)
    BY <1>0, <2>2
  <2>4. b[j] = "&" /\ b[j + 1] = tail
    BY <1>1, <1>3, <2>2, <2>3
  <2>5. QED
    BY <2>2, <2>3, <2>4 DEF Entity
<1>7. i \in Int
  BY <1>0, <1>1, <1>3
<1>8. QED
  BY <1>0, <1>4, <1>5, <1>6, <1>7

\* There is no entity but those that are put there.
LEMMA NoEntity ==
    ASSUME NEW s, IsSeq(s), NEW ss, Blocks(ss, s), NEW tail, tail # "&",
           \A i \in 1..Len(s) : ss[i] # <<"&", tail>>, NEW j
    PROVE  ~Entity(FlattenSeq(ss), tail, j)
<1> DEFINE a(i) == FlattenSeq(SubSeq(ss, 1, i))
           P(i) == /\ AreSeqs(SubSeq(ss, 1, i)) /\ IsSeq(a(i))
                   /\ Len(a(i)) # 0 => a(i)[Len(a(i))] # "&"
                   /\ \A k : ~Entity(a(i), tail, k)
           S == {i \in Nat : i <= Len(ss) => P(i)}
<1>0. /\ AreSeqs(ss) /\ IsSeq(ss) /\ Len(ss) \in Nat /\ Len(ss) = Len(s)
      /\ \A i \in 1..Len(ss) : Len(ss[i]) # 0 /\ ss[i][Len(ss[i])] # "&"
  BY BlocksAre, IsSeqLen DEF AreSeqs
<1>1. 0 \in S
  <2>1. SubSeq(ss, 1, 0) = <<>> /\ a(0) = <<>>
    BY <1>0, WholeBeginning, FlattenEmpty
  <2>2. AreSeqs(<<>>) /\ IsSeq(<<>>) /\ Len(<<>>) = 0
    BY FlattenEmpty, EmptyIsSeq
  <2>3. \A k : ~Entity(<<>>, tail, k)
    BY <2>2 DEF Entity
  <2>4. P(0)
    BY <2>1, <2>2, <2>3
  <2>5. QED
    BY <2>4
<1>2. ASSUME NEW i \in Nat, i \in S PROVE i + 1 \in S
  <2>1. ASSUME NEW m, m = i + 1, m <= Len(ss) PROVE P(m)
    <3>1. m \in 1..Len(ss) /\ m - 1 = i /\ i \in 0..Len(ss)
      BY <1>0, <2>1
    <3>2. P(i)
      BY <1>2, <3>1
    <3>3. SubSeq(ss, 1, m) = Append(SubSeq(ss, 1, i), ss[m])
      BY <1>0, <3>1, BeginningGrows
    <3>4. IsSeq(ss[m]) /\ Len(ss[m]) # 0 /\ ss[m][Len(ss[m])] # "&"
      BY <1>0, <3>1 DEF AreSeqs
    <3>5. AreSeqs(SubSeq(ss, 1, m)) /\ a(m) = a(i) \o ss[m]
      BY <3>2, <3>3, <3>4, FlattenAppend
    <3>6. IsSeq(a(i)) /\ (Len(a(i)) # 0 => a(i)[Len(a(i))] # "&") /\ \A k : ~Entity(a(i), tail, k)
      BY <3>2
    <3> HIDE DEF a
    <3>7. IsSeq(a(m)) /\ a(m)[Len(a(m))] # "&"
      <4>1. /\ IsSeq(a(m)) /\ Len(a(m)) = Len(a(i)) + Len(ss[m])
            /\ \A k \in 1..Len(ss[m]) : a(m)[Len(a(i)) + k] = ss[m][k]
        BY <3>4, <3>5, <3>6, ConcatIsSeq
      <4>2. Len(ss[m]) \in 1..Len(ss[m])
        BY <3>4, IsSeqLen
      <4>3. QED
        BY <3>4, <4>1, <4>2
    <3>8. Apart(a(i), ss[m], tail)
      BY <3>4, <3>6 DEF Apart
    <3>9. ASSUME NEW k \in 1..Len(ss[m]), Entity(ss[m], tail, k) PROVE FALSE
      <4>1. k \in 1..Len(ss[m]) - 1 /\ ss[m][k + 1] = tail
        BY <3>9 DEF Entity
      <4>2. CASE ss[m] = <<s[m]>>
        <5>1. Len(ss[m]) = 1
          BY <4>2, OneIsSeq
        <5>2. QED
          BY <4>1, <5>1
      <4>3. ASSUME NEW t, ss[m] = <<"&", t>> PROVE FALSE
        <5>1. Len(ss[m]) = 2 /\ ss[m][2] = t
          BY <4>3, TwoIsSeq
        <5>2. k = 1
          BY <4>1, <5>1
        <5>3. t = tail
          BY <4>1, <5>1, <5>2
        <5>4. QED
          BY <1>0, <3>1, <4>3, <5>3
      <4>4. QED
        BY <1>0, <3>1, <4>2, <4>3 DEF Blocks
    <3>10. \A k : ~Entity(a(m), tail, k)
      BY <3>4, <3>5, <3>6, <3>8, <3>9, EntityConcat
    <3>11. QED
      BY <3>5, <3>7, <3>10
  <2>2. QED
    BY <2>1
<1>3. Nat \subseteq S
  <2> HIDE DEF S
  <2>1. QED
    BY <1>1, <1>2, Induction
<1>4. P(Len(ss))
  <2>1. \A i \in Nat : i <= Len(ss) => P(i)
    BY <1>3
  <2> HIDE DEF P
  <2>2. QED
    BY <1>0, <2>1
<1>5. a(Len(ss)) = FlattenSeq(ss)
  BY <1>0, WholeBeginning
<1>6. QED
  BY <1>4, <1>5


(* The same of a value in a code, whose commas are escaped too.              *)
THEOREM ValueComesBack ==
    ASSUME NEW s, IsSeq(s)
    PROVE  CQCodeUnescapeValue(CQCodeEscapeValue(s)) = s
<1> DEFINE t == CQCodeEscapeText(s)
           ss == [i \in 1..Len(t) |-> IF t[i] = "," THEN <<"&", "#44;">> ELSE <<t[i]>>]
           rs == [i \in 1..Len(t) |-> <<t[i]>>]
<1>1. IsSeq(t)
  BY EscapedIsSeq
<1>2. DOMAIN t = 1..Len(t) /\ Len(t) \in Nat
  BY <1>1, IsSeqLen
<1>3. \A j : ~Entity(t, "#44;", j)
  <2>1. t = FlattenSeq(Escaped(s)) /\ Blocks(Escaped(s), s)
    BY EscapedIs
  <2>2. \A i \in 1..Len(s) : Escaped(s)[i] # <<"&", "#44;">>
    <3>1. \A c, d : <<c>> # <<"&", d>>
      BY OneIsSeq, TwoIsSeq
    <3>2. <<"&", "amp;">> # <<"&", "#44;">> /\ <<"&", "#91;">> # <<"&", "#44;">> /\ <<"&", "#93;">> # <<"&", "#44;">>
      BY TwoIsSeq
    <3>3. QED
      BY <3>1, <3>2 DEF Escaped
  <2>3. "#44;" # "&"
    OBVIOUS
  <2>4. ASSUME NEW tail, tail # "&", \A i \in 1..Len(s) : Escaped(s)[i] # <<"&", tail>>
        PROVE  \A j : ~Entity(t, tail, j)
    BY <2>1, <2>4, NoEntity
  <2>5. QED
    BY <2>2, <2>3, <2>4
<1>4. CQCodeEscapeValue(s) = FlattenSeq(ss)
  BY <1>2 DEF CQCodeEscapeValue, Each
<1>5. FlattenSeq(rs) = t
  BY <1>1, <1>2, FlattenSingles
<1> HIDE DEF t
<1>6. ASSUME NEW tail, tail # "&", NEW comma, comma # "&", NEW xs,
             xs = [i \in 1..Len(t) |-> IF t[i] = comma THEN <<"&", tail>> ELSE <<t[i]>>],
             \A j : ~Entity(t, tail, j)
      PROVE  Replaced(FlattenSeq(xs), tail, comma) = t
  <2>1. ASSUME NEW i \in 1..Len(t)
        PROVE  /\ IsSeq(xs[i]) /\ Len(xs[i]) # 0
               /\ rs[i] = Replaced(xs[i], tail, comma)
               /\ xs[i][1] = tail => t[i] = tail
               /\ xs[i][Len(xs[i])] = "&" => t[i] = "&"
    <3>1. CASE t[i] = comma
      <4> DEFINE u == <<"&", tail>>
      <4>1. IsSeq(u) /\ Len(u) = 2 /\ u[1] = "&" /\ u[2] = tail
        BY TwoIsSeq
      <4>2. Replaced(u, tail, comma) = <<comma>>
        BY <1>6, ReplacedTwo
      <4>3. xs[i] = u /\ rs[i] = <<comma>>
        BY <1>6, <3>1
      <4> HIDE DEF u, rs
      <4>4. Len(u) # 0 /\ u[1] # tail /\ u[Len(u)] # "&"
        BY <1>6, <4>1
      <4>5. QED
        BY <4>1, <4>2, <4>3, <4>4
    <3>2. CASE t[i] # comma
      <4> DEFINE u == <<t[i]>>
      <4>1. IsSeq(u) /\ Len(u) = 1 /\ u[1] = t[i]
        BY OneIsSeq
      <4>2. Replaced(u, tail, comma) = u
        BY <1>6, ReplacedOne
      <4>3. xs[i] = u /\ rs[i] = u
        BY <1>6, <3>2
      <4> HIDE DEF u, rs
      <4>4. Len(u) # 0 /\ u[1] = t[i] /\ u[Len(u)] = t[i]
        BY <4>1
      <4>5. QED
        BY <4>1, <4>2, <4>3, <4>4
    <3>3. QED
      BY <3>1, <3>2
  <2>2. xs = [i \in DOMAIN t |-> xs[i]] /\ rs = [i \in DOMAIN t |-> rs[i]]
    BY <1>2, <1>6
  <2>3. AreSeqs(xs) /\ Len(xs) = Len(t)
    BY <1>1, <2>1, <2>2, MapIsSeq
  <2>4. AreSeqs(rs) /\ Len(rs) = Len(t)
    <3>1. \A i \in 1..Len(t) : IsSeq(rs[i])
      BY OneIsSeq
    <3> HIDE DEF rs
    <3>2. QED
      BY <1>1, <2>2, <3>1, MapIsSeq
  <2> HIDE DEF rs
  <2>5. ASSUME NEW i \in 1..Len(xs), i < Len(xs) PROVE xs[i][Len(xs[i])] # "&" \/ xs[i + 1][1] # tail
    <3>1. i \in 1..Len(t) /\ i + 1 \in 1..Len(t) /\ i \in 1..Len(t) - 1
      BY <1>2, <2>3, <2>5
    <3>2. ~(t[i] = "&" /\ t[i + 1] = tail)
      BY <1>6, <3>1 DEF Entity
    <3>3. QED
      BY <2>1, <3>1, <3>2
  <2>6. AllApart(xs, tail) /\ AllReplaced(rs, xs, tail, comma)
    BY <2>1, <2>3, <2>4, <2>5 DEF AllApart, AllReplaced
  <2>7. Replaced(FlattenSeq(xs), tail, comma) = FlattenSeq(rs)
    BY <1>6, <2>3, <2>4, <2>6, ReplacedBlocks
  <2>8. QED
    BY <1>5, <2>7
<1>7. "#44;" # "&" /\ "," # "&"
  OBVIOUS
<1>8. ss = [i \in 1..Len(t) |-> IF t[i] = "," THEN <<"&", "#44;">> ELSE <<t[i]>>]
  OBVIOUS
<1> HIDE DEF ss, rs
<1>9. Replaced(FlattenSeq(ss), "#44;", ",") = t
  BY <1>3, <1>6, <1>7, <1>8
<1>10. QED
  BY <1>4, <1>9, TextComesBack DEF CQCodeUnescapeValue, t

(* Whatever a user has written, there is no code in it once it is escaped:   *)
(* an application that sends it back says what was written, whatever the     *)
(* settings and whatever the server and the caches say.                      *)
THEOREM TextIsNoCode ==
    ASSUME NEW s, IsSeq(s), NEW c, NEW w
    PROVE  Say(ConvertStringMessage(CQCodeEscapeText(s), c, w)) = Tokens(s)
<1> DEFINE t == CQCodeEscapeText(s)
           u(i) == SubSeq(t, 1, i)
<1>1. IsSeq(t) /\ Len(t) \in Nat
  BY EscapedIsSeq, IsSeqLen
<1>2. \A j \in 1..Len(t) : t[j] # "["
  <2>1. t = FlattenSeq(Escaped(s)) /\ Blocks(Escaped(s), s)
    BY EscapedIs
  <2>2. AreSeqs(Escaped(s)) /\ Len(Escaped(s)) = Len(s)
    BY <2>1, BlocksAre
  <2>3. ASSUME NEW k \in 1..Len(s), NEW l \in 1..Len(Escaped(s)[k]) PROVE Escaped(s)[k][l] # "["
    <3>1. Escaped(s)[k] \in {<<"&", "amp;">>, <<"&", "#91;">>, <<"&", "#93;">>} \/ (s[k] # "[" /\ Escaped(s)[k] = <<s[k]>>)
      BY DEF Escaped
    <3>2. ASSUME NEW x, x # "[", Escaped(s)[k] = <<"&", x>> PROVE Escaped(s)[k][l] # "["
      <4>1. Len(<<"&", x>>) = 2 /\ <<"&", x>>[1] = "&" /\ <<"&", x>>[2] = x
        BY TwoIsSeq
      <4>2. l = 1 \/ l = 2
        BY <3>2, <4>1
      <4>3. QED
        BY <3>2, <4>1, <4>2
    <3>3. ASSUME s[k] # "[", Escaped(s)[k] = <<s[k]>> PROVE Escaped(s)[k][l] # "["
      <4>1. Len(<<s[k]>>) = 1 /\ <<s[k]>>[1] = s[k]
        BY OneIsSeq
      <4>2. l = 1
        BY <3>3, <4>1
      <4>3. QED
        BY <3>3, <4>1, <4>2
    <3>4. "amp;" # "[" /\ "#91;" # "[" /\ "#93;" # "["
      OBVIOUS
    <3>5. QED
      BY <3>1, <3>2, <3>3, <3>4
  <2>4. ASSUME NEW j \in 1..Len(t) PROVE t[j] # "["
    <3>1. \E k \in 1..Len(Escaped(s)) : \E l \in 1..Len(Escaped(s)[k]) : t[j] = Escaped(s)[k][l]
      BY <2>1, <2>2, FlattenFrom
    <3>2. QED
      BY <2>2, <2>3, <3>1
  <2>5. QED
    BY <2>4
<1>3. PICK inner : ConvertStringMessage(t, c, w) = Scanned(t, c, w, inner)
  BY DEF ConvertStringMessage
<1> HIDE DEF t
<1>4. PICK f : /\ f[0] = Start
               /\ \A i \in 1..Len(t) : f[i] = Scan(f[i - 1], t, i, c, w, inner)
               /\ Scanned(t, c, w, inner) = Ended(f[Len(t)], c)
  BY <1>1, ScanIs
<1> DEFINE P(i) == f[i] = [Start EXCEPT !.buf = u(i)]
           S == {i \in Nat : i <= Len(t) => P(i)}
<1>5. 0 \in S
  <2>1. u(0) = <<>>
    BY <1>1, WholeBeginning
  <2>2. QED
    BY <1>4, <2>1 DEF Start, Nothing
<1>6. ASSUME NEW i \in Nat, i \in S PROVE i + 1 \in S
  <2>1. ASSUME NEW m, m = i + 1, m <= Len(t) PROVE P(m)
    <3>1. m \in 1..Len(t) /\ m - 1 = i /\ i <= Len(t)
      BY <1>1, <2>1
    <3>2. f[m] = Scan(f[i], t, m, c, w, inner) /\ P(i)
      BY <1>4, <1>6, <3>1
    <3>3. t[m] # "["
      BY <1>2, <3>1
    <3>4. f[i].in = "text" /\ f[i].buf = u(i)
      BY <3>2 DEF Start
    <3>5. f[m] = [f[i] EXCEPT !.buf = Append(@, t[m])]
      BY <3>2, <3>3, <3>4 DEF Scan
    <3>6. u(m) = Append(u(i), t[m])
      BY <1>1, <3>1, BeginningGrows
    <3>7. QED
      BY <3>2, <3>4, <3>5, <3>6 DEF Start
  <2> HIDE DEF P
  <2>2. QED
    BY <2>1
<1>7. Nat \subseteq S
  <2> HIDE DEF S
  <2>1. QED
    BY <1>5, <1>6, Induction
<1>8. f[Len(t)] = [Start EXCEPT !.buf = t]
  <2>1. \A i \in Nat : i <= Len(t) => P(i)
    BY <1>7
  <2>2. P(Len(t))
    <3> HIDE DEF P
    <3>1. QED
      BY <1>1, <2>1
  <2>3. QED
    BY <1>1, <2>2, WholeBeginning
<1>9. Scanned(t, c, w, inner) = IF t = Nothing THEN Nothing ELSE Nothing \o Texts(CQCodeUnescapeText(t), c)
  BY <1>4, <1>8 DEF Ended, Flushed, Start
<1>10. CQCodeUnescapeText(t) = s
  BY TextComesBack DEF t
<1>11. OnlyTexts(Texts(s, c)) /\ Say(Texts(s, c)) = Tokens(s)
  BY TextsSay
<1>12. CASE t = Nothing
  <2>1. CQCodeUnescapeText(Nothing) = Nothing
    <3>1. \A tail, char : tail # "&" => Replaced(Nothing, tail, char) = Nothing
      BY FlattenEmpty DEF Replaced, Nothing
    <3>2. "#91;" # "&" /\ "#93;" # "&" /\ "amp;" # "&"
      OBVIOUS
    <3>3. QED
      BY <3>1, <3>2 DEF CQCodeUnescapeText
  <2>2. s = Nothing
    BY <1>10, <1>12, <2>1
  <2>3. Tokens(Nothing) = Nothing
    BY TokensIsSeq, EmptyIff, EmptyIsSeq DEF Nothing
  <2>4. Say(Nothing) = Nothing
    BY SayEmpty DEF Nothing
  <2>5. QED
    BY <1>3, <1>9, <1>12, <2>2, <2>3, <2>4 DEF t
<1>13. CASE t # Nothing
  <2>1. Scanned(t, c, w, inner) = Texts(s, c)
    BY <1>9, <1>10, <1>11, <1>13, ConcatEmpty DEF OnlyTexts, Elements, Nothing
  <2>2. QED
    BY <1>3, <1>11, <2>1 DEF t
<1>14. QED
  BY <1>12, <1>13

=============================================================================
