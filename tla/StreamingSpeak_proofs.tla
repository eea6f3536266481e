----------------------- MODULE StreamingSpeak_proofs -----------------------
(***************************************************************************)
(* Proofs about a streamed speech: what was admitted is what is heard,     *)
(* within the limits of the queue; the control has one owner, whoever of   *)
(* the reasoner, the action and the convergence lets it go; and a control  *)
(* that was closed is silent.                                              *)
(*                                                                         *)
(* The inductive invariant IInv is a conjunction of named parts.  Those    *)
(* about the control, its task and the TTS child alone are kept by every   *)
(* call on them (Moves), whoever calls; the others relate the clients.     *)
(***************************************************************************)
EXTENDS StreamingSpeak, SequenceTheorems, FiniteSetTheorems, WellFoundedInduction, TLAPS

-----------------------------------------------------------------------------
(***************************************************************************)
(* The weight of a text.                                                   *)
(***************************************************************************)
\* Induction over the natural numbers, for a set of them: the finite subsets of a set
\* are well-founded under strict inclusion.
LEMMA SetInduction ==
    ASSUME NEW S \in SUBSET Nat, 0 \in S, \A n \in S : n + 1 \in S
    PROVE  S = Nat
<1> DEFINE Below(n) == {m \in Nat : m < n}
           Bad == {Below(n) : n \in Nat \ S}
<1>1. SUFFICES ASSUME S # Nat PROVE FALSE
  OBVIOUS
<1>2. \A n \in Nat : Below(n) \in FiniteSubsetsOf(Nat)
  <2>1. TAKE n \in Nat
  <2>2. Below(n) \in SUBSET Nat /\ \A m \in Below(n) : m <= n
    OBVIOUS
  <2> HIDE DEF Below
  <2>3. IsFiniteSet(Below(n))
    BY <2>2, FS_BoundedSetOfNaturals
  <2>4. QED
    BY <2>2, <2>3 DEF FiniteSubsetsOf
<1>3. Bad \subseteq FiniteSubsetsOf(Nat) /\ Bad # {}
  BY <1>1, <1>2
<1>4. PICK X \in Bad : \A Y \in Bad : ~(<<Y, X>> \in StrictSubsetOrdering(Nat))
  <2> HIDE DEF Bad
  <2>1. QED
    BY <1>3, FS_StrictSubsetOrderingWellFounded, WFMin
<1>5. PICK n \in Nat \ S : X = Below(n)
  OBVIOUS
<1>6. n # 0 /\ n - 1 \in Nat \ S
  OBVIOUS
<1>7. <<Below(n - 1), Below(n)>> \in StrictSubsetOrdering(Nat)
  <2>1. Below(n - 1) \subseteq Below(n) /\ n - 1 \in Below(n) /\ n - 1 \notin Below(n - 1)
    BY <1>6
  <2>2. QED
    BY <2>1 DEF StrictSubsetOrdering
<1>8. QED
  BY <1>4, <1>5, <1>6, <1>7

\* The largest of some positions.
LEMMA MaxIs ==
    ASSUME NEW n \in Nat, NEW X \in SUBSET Nat, X # {}, \A x \in X : x <= n
    PROVE  Max(X) \in X /\ \A y \in X : Max(X) >= y
<1> DEFINE K == {m \in Nat : \E x \in X : x >= m}
<1>1. 0 \in K /\ n + 1 \notin K
  <2>1. PICK x \in X : TRUE
    OBVIOUS
  <2>2. x >= 0
    OBVIOUS
  <2>3. QED
    BY <2>2
<1>2. PICK m \in K : m + 1 \notin K
  <2>1. K \in SUBSET Nat
    OBVIOUS
  <2> HIDE DEF K
  <2>3. n + 1 \in Nat
    OBVIOUS
  <2>4. K # Nat
    BY <1>1, <2>3
  <2>2. QED
    BY <1>1, <2>1, <2>4, SetInduction
<1>3. PICK x \in X : x >= m
  OBVIOUS
<1>4. \A y \in X : ~(y >= m + 1)
  BY <1>2
<1>5. \A y \in X : x >= y
  BY <1>3, <1>4
<1>6. QED
  BY <1>5 DEF Max

\* Whoever has the last position has it as its largest.
LEMMA LastIs ==
    ASSUME NEW n \in Nat, NEW X \in SUBSET (1..(n + 1)), n + 1 \in X
    PROVE  Max(X) = n + 1
<1>1. X \in SUBSET Nat /\ X # {} /\ n + 1 \in Nat /\ \A x \in X : x <= n + 1
  OBVIOUS
<1>2. Max(X) \in X /\ \A y \in X : Max(X) >= y
  BY <1>1, MaxIs
<1>3. Max(X) >= n + 1 /\ Max(X) <= n + 1 /\ Max(X) \in Nat
  BY <1>1, <1>2
<1>4. QED
  BY <1>3

\* The fold over a text is a function that takes its steps.
IsFold(g, s, n) ==
    g = [X \in SUBSET (1..n) |->
            IF X = {} THEN 0 ELSE Weighs(g[X \ {Max(X)}], s[Max(X)])]

\* There is one for every sequence.
LEMMA FoldExists ==
    ASSUME NEW s, NEW N \in Nat
    PROVE  \E g : IsFold(g, s, N)
<1> DEFINE K == {n \in Nat : \E g : IsFold(g, s, n)}
<1>1. 0 \in K
  <2>1. IsFold([X \in SUBSET (1..0) |-> 0], s, 0)
    BY DEF IsFold
  <2>2. QED
    BY <2>1
<1>2. ASSUME NEW n \in Nat, NEW g, IsFold(g, s, n)
      PROVE  \E h : IsFold(h, s, n + 1)
  <2> DEFINE h == [X \in SUBSET (1..(n + 1)) |->
                      IF n + 1 \in X THEN Weighs(g[X \ {n + 1}], s[n + 1]) ELSE g[X]]
  <2>1. ASSUME NEW X \in SUBSET (1..(n + 1)), n + 1 \in X
        PROVE  h[X] = Weighs(h[X \ {Max(X)}], s[Max(X)])
    <3>1. Max(X) = n + 1
      BY <2>1, LastIs
    <3>2. X \ {n + 1} \in SUBSET (1..n) /\ X \ {n + 1} \in SUBSET (1..(n + 1))
      <4> HIDE DEF h
      <4>1. QED
        OBVIOUS
    <3>3. h[X] = Weighs(g[X \ {n + 1}], s[n + 1]) /\ h[X \ {n + 1}] = g[X \ {n + 1}]
      BY <2>1, <3>2
    <3>4. QED
      BY <3>1, <3>3
  <2>2. ASSUME NEW X \in SUBSET (1..(n + 1)), n + 1 \notin X
        PROVE  h[X] = IF X = {} THEN 0 ELSE Weighs(h[X \ {Max(X)}], s[Max(X)])
    <3>1. PICK Y : Y = X \ {Max(X)}
      OBVIOUS
    <3>2. X \in SUBSET (1..n) /\ Y \in SUBSET (1..n)
      <4> HIDE DEF h
      <4>1. X \in SUBSET (1..n)
        BY <2>2
      <4>2. QED
        BY <3>1, <4>1
    <3>3. n + 1 \notin Y /\ Y \in SUBSET (1..(n + 1))
      <4> HIDE DEF h
      <4>1. QED
        BY <3>2
    <3>4. h[X] = g[X] /\ h[Y] = g[Y]
      BY <2>2, <3>3
    <3>5. g[X] = IF X = {} THEN 0 ELSE Weighs(g[Y], s[Max(X)])
      BY <1>2, <3>1, <3>2 DEF IsFold
    <3> HIDE DEF h
    <3>6. QED
      BY <3>1, <3>4, <3>5
  <2>3. \A X \in SUBSET (1..(n + 1)) :
            h[X] = IF X = {} THEN 0 ELSE Weighs(h[X \ {Max(X)}], s[Max(X)])
    <3>1. TAKE X \in SUBSET (1..(n + 1))
    <3>2. CASE n + 1 \in X
      BY <2>1, <3>2
    <3>3. CASE n + 1 \notin X
      BY <2>2, <3>3
    <3>4. QED
      BY <3>2, <3>3
  <2>4. h = [X \in SUBSET (1..(n + 1)) |-> h[X]]
    OBVIOUS
  <2> HIDE DEF h
  <2>5. IsFold(h, s, n + 1)
    BY <2>3, <2>4 DEF IsFold
  <2>6. QED
    BY <2>5
<1>3. \A n \in K : n + 1 \in K
  <2>1. TAKE n \in K
  <2>2. PICK g : IsFold(g, s, n)
    OBVIOUS
  <2>3. PICK h : IsFold(h, s, n + 1)
    BY <1>2, <2>2
  <2>4. QED
    BY <2>3
<1>4. K \in SUBSET Nat
  OBVIOUS
<1>5. K = Nat
  <2> HIDE DEF K
  <2>1. QED
    BY <1>1, <1>3, <1>4, SetInduction
<1>6. N \in K
  BY <1>5
<1>7. QED
  BY <1>6

\* The sums of a text: w[i] is the weight of its first i fragments.
Sums(w, s) ==
    /\ w[0] = 0
    /\ \A i \in Nat : i < Len(s) => w[i + 1] = w[i] + Size[s[i + 1]]

\* The weight of a text is the last of its sums.
LEMMA WeightSums ==
    ASSUME NEW s \in Seq(Fragments)
    PROVE  \E w : Sums(w, s) /\ Weight(s) = w[Len(s)]
<1>1. DOMAIN s = 1..Len(s) /\ Len(s) \in Nat
  OBVIOUS
<1> DEFINE iter == CHOOSE g : IsFold(g, s, Len(s))
<1>2. IsFold(iter, s, Len(s))
  BY <1>1, FoldExists
<1>3. Weight(s) = iter[1..Len(s)]
  BY <1>1 DEF Weight, FoldLeft, MapThenFoldSet, IsFold
<1> HIDE DEF iter
<1>4. iter[1..0] = 0
  <2>1. 1..0 = {} /\ {} \in SUBSET (1..Len(s))
    OBVIOUS
  <2>2. QED
    BY <1>2, <2>1 DEF IsFold
<1>5. ASSUME NEW n \in Nat, n < Len(s)
      PROVE  iter[1..(n + 1)] = iter[1..n] + Size[s[n + 1]]
  <2>1. PICK X : X = 1..(n + 1)
    OBVIOUS
  <2>2. X \in SUBSET (1..Len(s)) /\ n + 1 \in X /\ X # {} /\ X \in SUBSET (1..(n + 1))
        /\ X \ {n + 1} = 1..n
    <3>1. n + 1 \in Nat /\ n + 1 <= Len(s) /\ Len(s) \in Nat
      BY <1>1, <1>5
    <3>2. \A m \in Int : m \in X <=> 1 <= m /\ m <= n + 1
      BY <2>1
    <3>3. QED
      BY <2>1, <3>1, <3>2
  <2>3. Max(X) = n + 1
    BY <2>2, LastIs
  <2>4. iter[X] = Weighs(iter[X \ {Max(X)}], s[Max(X)])
    BY <1>2, <2>2 DEF IsFold
  <2>5. QED
    BY <2>1, <2>2, <2>3, <2>4 DEF Weighs
<1> DEFINE w == [i \in Nat |-> iter[1..i]]
<1>6. w[0] = 0 /\ w[Len(s)] = Weight(s)
  BY <1>1, <1>3, <1>4
<1>7. \A i \in Nat : i < Len(s) => w[i + 1] = w[i] + Size[s[i + 1]]
  <2>1. TAKE i \in Nat
  <2>2. HAVE i < Len(s)
  <2>3. w[i + 1] = iter[1..(i + 1)] /\ w[i] = iter[1..i]
    OBVIOUS
  <2>4. QED
    BY <1>5, <2>2, <2>3
<1> HIDE DEF w
<1>8. QED
  BY <1>6, <1>7 DEF Sums

\* Whatever has the sums of a text ends with its weight.
LEMMA SumsAreWeight ==
    ASSUME NEW s \in Seq(Fragments), NEW w, Sums(w, s)
    PROVE  Weight(s) = w[Len(s)] /\ \A i \in 0 .. Len(s) : w[i] \in Nat
<1>1. PICK v : Sums(v, s) /\ Weight(s) = v[Len(s)]
  BY WeightSums
<1>2. Len(s) \in Nat /\ \A i \in 1 .. Len(s) : s[i] \in Fragments
  OBVIOUS
<1>3. \A f \in Fragments : Size[f] \in Nat
  BY ControlAssumption
<1> DEFINE K == {n \in Nat : n <= Len(s) => v[n] = w[n] /\ w[n] \in Nat}
<1>4. 0 \in K
  BY <1>1 DEF Sums
<1>5. \A n \in K : n + 1 \in K
  <2>1. TAKE n \in K
  <2>2. CASE n + 1 <= Len(s)
    <3>1. n \in Nat /\ n < Len(s) /\ n + 1 \in 1 .. Len(s) /\ v[n] = w[n] /\ w[n] \in Nat
      BY <1>2, <2>2
    <3>2. /\ v[n + 1] = v[n] + Size[s[n + 1]]
          /\ w[n + 1] = w[n] + Size[s[n + 1]]
      BY <1>1, <3>1 DEF Sums
    <3>3. Size[s[n + 1]] \in Nat
      BY <1>2, <1>3, <3>1
    <3>4. QED
      BY <3>1, <3>2, <3>3
  <2>3. CASE ~(n + 1 <= Len(s))
    BY <2>3
  <2>4. QED
    BY <2>2, <2>3
<1>6. K \in SUBSET Nat
  OBVIOUS
<1>7. K = Nat
  <2> HIDE DEF K
  <2>1. QED
    BY <1>4, <1>5, <1>6, SetInduction
<1>8. QED
  BY <1>1, <1>2, <1>7

\* A weight is a number, and nothing weighs nothing.
LEMMA WeightType ==
    /\ Weight(<<>>) = 0
    /\ \A s \in Seq(Fragments) : Weight(s) \in Nat
<1>1. ASSUME NEW s \in Seq(Fragments)
      PROVE  Weight(s) \in Nat /\ (s = <<>> => Weight(s) = 0)
  <2>1. PICK w : Sums(w, s) /\ Weight(s) = w[Len(s)]
    BY WeightSums
  <2>2. Len(s) \in 0 .. Len(s) /\ (s = <<>> => Len(s) = 0)
    OBVIOUS
  <2>3. Weight(s) \in Nat
    BY <2>1, <2>2, SumsAreWeight
  <2>4. QED
    BY <2>1, <2>2, <2>3 DEF Sums
<1>2. <<>> \in Seq(Fragments)
  OBVIOUS
<1>3. QED
  BY <1>1, <1>2

\* One more fragment adds what it weighs.
LEMMA WeightAppend ==
    ASSUME NEW s \in Seq(Fragments), NEW f \in Fragments
    PROVE  Weight(Append(s, f)) = Weight(s) + Size[f]
<1>1. PICK t \in Seq(Fragments) : t = Append(s, f)
  BY AppendProperties
<1>2. /\ Len(t) = Len(s) + 1 /\ t[Len(s) + 1] = f /\ Len(s) \in Nat
      /\ \A i \in 1 .. Len(s) : t[i] = s[i]
  BY <1>1
<1>3. PICK w : Sums(w, t) /\ Weight(t) = w[Len(t)]
  BY WeightSums
<1>4. Sums(w, s)
  <2>1. ASSUME NEW i \in Nat, i < Len(s)
        PROVE  w[i + 1] = w[i] + Size[s[i + 1]]
    <3>1. i < Len(t) /\ i + 1 \in 1 .. Len(s)
      BY <1>2, <2>1
    <3>2. QED
      BY <1>2, <1>3, <3>1 DEF Sums
  <2>2. QED
    BY <1>3, <2>1 DEF Sums
<1>5. Weight(s) = w[Len(s)]
  BY <1>4, SumsAreWeight
<1>6. w[Len(s) + 1] = w[Len(s)] + Size[t[Len(s) + 1]]
  <2>1. Len(s) < Len(t)
    BY <1>2
  <2>2. QED
    BY <1>2, <1>3, <2>1 DEF Sums
<1>7. QED
  BY <1>1, <1>2, <1>3, <1>5, <1>6

\* The two parts of a text.
LEMMA SplitIs ==
    ASSUME NEW s \in Seq(Fragments), NEW n \in 0 .. Len(s)
    PROVE  /\ SubSeq(s, 1, n) \in Seq(Fragments) /\ SubSeq(s, n + 1, Len(s)) \in Seq(Fragments)
           /\ Len(SubSeq(s, 1, n)) = n /\ Len(SubSeq(s, n + 1, Len(s))) = Len(s) - n
           /\ \A i \in 1 .. n : SubSeq(s, 1, n)[i] = s[i]
           /\ \A i \in 1 .. Len(s) - n : SubSeq(s, n + 1, Len(s))[i] = s[n + i]
           /\ SubSeq(s, 1, n) \o SubSeq(s, n + 1, Len(s)) = s
<1>0. Len(s) \in Nat /\ n \in Nat /\ n <= Len(s)
  OBVIOUS
<1>1. /\ SubSeq(s, 1, n) \in Seq(Fragments)
      /\ Len(SubSeq(s, 1, n)) = n
      /\ \A i \in 1 .. n : SubSeq(s, 1, n)[i] = s[i]
  <2>1. 1 \in Int /\ n \in Int /\ \A i \in 1 .. n : s[i] \in Fragments
    BY <1>0
  <2>2. QED
    BY <1>0, <2>1, SubSeqProperties
<1>2. /\ SubSeq(s, n + 1, Len(s)) \in Seq(Fragments)
      /\ Len(SubSeq(s, n + 1, Len(s))) = Len(s) - n
      /\ \A i \in 1 .. Len(s) - n : SubSeq(s, n + 1, Len(s))[i] = s[n + i]
  <2>1. n + 1 \in Int /\ Len(s) \in Int /\ \A i \in (n + 1) .. Len(s) : s[i] \in Fragments
    BY <1>0
  <2>2. QED
    BY <1>0, <2>1, SubSeqProperties
<1>3. PICK k \in Nat : k = Len(s) /\ n <= k
  BY <1>0
<1>4. PICK a \in Seq(Fragments) : a = SubSeq(s, 1, n) /\ Len(a) = n /\ \A i \in 1 .. n : a[i] = s[i]
  BY <1>1
<1>5. PICK b \in Seq(Fragments) :
         b = SubSeq(s, n + 1, Len(s)) /\ Len(b) = k - n /\ \A i \in 1 .. k - n : b[i] = s[n + i]
  BY <1>2, <1>3
<1>6. PICK c \in Seq(Fragments) : c = a \o b
  BY ConcatProperties
<1>7. Len(c) = k /\ \A i \in 1 .. k : c[i] = IF i <= n THEN a[i] ELSE b[i - n]
  <2>1. /\ Len(c) = Len(a) + Len(b)
        /\ \A i \in 1 .. Len(a) + Len(b) : c[i] = IF i <= Len(a) THEN a[i] ELSE b[i - Len(a)]
    BY <1>6, ConcatProperties
  <2>2. Len(a) = n /\ Len(b) = k - n
    BY <1>4, <1>5
  <2>3. n + (k - n) = k
    BY <1>0
  <2>4. QED
    BY <2>1, <2>2, <2>3
<1>8. ASSUME NEW i \in 1 .. k PROVE c[i] = s[i]
  <2>1. c[i] = IF i <= n THEN a[i] ELSE b[i - n]
    BY <1>7
  <2>2. CASE i <= n
    BY <1>4, <2>1, <2>2
  <2>3. CASE ~(i <= n)
    <3>1. PICK j \in 1 .. k - n : j = i - n
      BY <1>0, <1>3, <2>3
    <3>2. b[j] = s[n + j] /\ n + j = i
      BY <1>0, <1>5, <3>1
    <3>3. QED
      BY <2>1, <2>3, <3>1, <3>2
  <2>4. QED
    BY <2>2, <2>3
<1>9. c = s
  <2>1. Len(c) = Len(s) /\ \A i \in 1 .. Len(c) : c[i] = s[i]
    BY <1>3, <1>7, <1>8
  <2>2. QED
    BY <2>1, SeqEqual
<1>10. QED
  BY <1>1, <1>2, <1>4, <1>5, <1>6, <1>9

\* A text weighs what its two parts weigh.
LEMMA WeightSplit ==
    ASSUME NEW s \in Seq(Fragments), NEW n \in 0 .. Len(s)
    PROVE  Weight(s) = Weight(SubSeq(s, 1, n)) + Weight(SubSeq(s, n + 1, Len(s)))
<1>0. Len(s) \in Nat /\ n \in Nat /\ n <= Len(s)
  OBVIOUS
<1>1. PICK a \in Seq(Fragments) :
         a = SubSeq(s, 1, n) /\ Len(a) = n /\ \A i \in 1 .. n : a[i] = s[i]
  BY SplitIs
<1>2. PICK b \in Seq(Fragments) :
         /\ b = SubSeq(s, n + 1, Len(s)) /\ Len(b) = Len(s) - n
         /\ \A i \in 1 .. Len(s) - n : b[i] = s[n + i]
  BY SplitIs
<1>3. Len(a) = n /\ \A i \in 1 .. n : a[i] = s[i]
  BY <1>1
<1>4. Len(b) = Len(s) - n /\ \A i \in 1 .. Len(s) - n : b[i] = s[n + i]
  BY <1>2
<1>5. PICK w : Sums(w, s) /\ Weight(s) = w[Len(s)]
  BY WeightSums
<1>6. \A i \in 0 .. Len(s) : w[i] \in Nat
  BY <1>5, SumsAreWeight
<1>7. Sums(w, a)
  <2>1. ASSUME NEW i \in Nat, i < Len(a)
        PROVE  w[i + 1] = w[i] + Size[a[i + 1]]
    <3>1. i < Len(s) /\ i + 1 \in 1 .. n
      BY <1>0, <1>3, <2>1
    <3>2. QED
      BY <1>3, <1>5, <3>1 DEF Sums
  <2>2. QED
    BY <1>5, <2>1 DEF Sums
<1>8. Weight(a) = w[n]
  BY <1>3, <1>7, SumsAreWeight
<1> DEFINE v == [i \in Nat |-> w[n + i] - w[n]]
<1>9. Sums(v, b)
  <2>1. ASSUME NEW i \in Nat, i < Len(b)
        PROVE  v[i + 1] = v[i] + Size[b[i + 1]]
    <3>1. n + i \in Nat /\ n + i < Len(s) /\ i + 1 \in 1 .. Len(s) - n /\ i + 1 \in Nat
      BY <1>0, <1>4, <2>1
    <3>2. w[(n + i) + 1] = w[n + i] + Size[s[(n + i) + 1]]
      BY <1>5, <3>1 DEF Sums
    <3>3. b[i + 1] = s[(n + i) + 1] /\ n + (i + 1) = (n + i) + 1
      <4>1. n + (i + 1) = (n + i) + 1
        BY <1>0
      <4>2. b[i + 1] = s[n + (i + 1)]
        BY <1>4, <3>1
      <4>3. QED
        BY <4>1, <4>2
    <3>4. w[n + i] \in Nat /\ w[n] \in Nat /\ Size[s[(n + i) + 1]] \in Nat
      <4>1. n + i \in 0 .. Len(s) /\ n \in 0 .. Len(s) /\ (n + i) + 1 \in 1 .. Len(s)
        BY <1>0, <3>1
      <4>2. s[(n + i) + 1] \in Fragments
        BY <4>1
      <4>3. QED
        BY <1>6, <4>1, <4>2, ControlAssumption
    <3>5. v[i + 1] = w[(n + i) + 1] - w[n] /\ v[i] = w[n + i] - w[n]
      BY <3>1, <3>3
    <3> HIDE DEF v
    <3>6. QED
      BY SMTT(60), <3>2, <3>3, <3>4, <3>5
  <2>2. v[0] = 0
    BY <1>0, <1>6
  <2> HIDE DEF v
  <2>3. QED
    BY <2>1, <2>2 DEF Sums
<1>10. Weight(b) = v[Len(b)]
  <2> HIDE DEF v
  <2>1. QED
    BY <1>9, SumsAreWeight
<1>11. Weight(b) = w[Len(s)] - w[n]
  BY <1>0, <1>4, <1>10
<1>12. w[Len(s)] \in Nat /\ w[n] \in Nat
  BY <1>0, <1>6
<1>13. QED
  BY <1>1, <1>2, <1>5, <1>8, <1>11, <1>12

-----------------------------------------------------------------------------
(***************************************************************************)
(* Texts and frames.                                                       *)
(***************************************************************************)
LEMMA TextIs ==
    ASSUME NEW n \in Nat
    PROVE  /\ Text(n) \in Seq(Nat) /\ Len(Text(n)) = n /\ \A i \in 1 .. n : Text(n)[i] = i - 1
           /\ n <= MaxFragments => Text(n) \in Seq(Fragments)
<1>1. Text(n) \in [1 .. n -> Nat]
  BY DEF Text
<1>2. \A i \in 1 .. n : Text(n)[i] = i - 1
  BY DEF Text
<1>3. ASSUME n <= MaxFragments PROVE Text(n) \in [1 .. n -> Fragments]
  BY <1>3, ControlAssumption DEF Text, Fragments
<1>4. Text(n) \in Seq(Nat) /\ Len(Text(n)) = n
  BY <1>1
<1>5. QED
  BY <1>2, <1>3, <1>4

\* What is left of a text after one that it continues.
LEMMA RemainderIs ==
    ASSUME NEW m \in Nat, NEW n \in Nat, m <= n, n <= MaxFragments
    PROVE  /\ SubSeq(Text(n), m + 1, n) \in Seq(Fragments)
           /\ Len(SubSeq(Text(n), m + 1, n)) = n - m
           /\ Text(m) \o SubSeq(Text(n), m + 1, n) = Text(n)
           /\ n - m = 1 => SubSeq(Text(n), m + 1, n) = <<m>>
<1>1. PICK a \in Seq(Fragments) : a = Text(m) /\ Len(a) = m /\ \A i \in 1 .. m : a[i] = i - 1
  BY TextIs, ControlAssumption
<1>2. PICK t \in Seq(Fragments) : t = Text(n) /\ Len(t) = n /\ \A i \in 1 .. n : t[i] = i - 1
  BY TextIs, ControlAssumption
<1>3. PICK b : b = SubSeq(t, m + 1, n)
  OBVIOUS
<1>4. /\ b \in Seq(Fragments) /\ Len(b) = n - m
      /\ \A i \in 1 .. n - m : b[i] = m + i - 1
  <2>1. m + 1 \in Int /\ n \in Int /\ \A i \in (m + 1) .. n : t[i] \in Fragments
    BY <1>2
  <2>2. /\ b \in Seq(Fragments)
        /\ Len(b) = IF m + 1 <= n THEN n - (m + 1) + 1 ELSE 0
        /\ \A i \in 1 .. n - (m + 1) + 1 : b[i] = t[m + 1 + i - 1]
    BY ONLY <1>3, <2>1, SubSeqProperties
  <2>3. QED
    BY <1>2, <2>2
<1>5. PICK c \in Seq(Fragments) : c = a \o b
  BY <1>4, ConcatProperties
<1>6. Len(c) = n /\ \A i \in 1 .. n : c[i] = i - 1
  <2>1. /\ Len(c) = Len(a) + Len(b)
        /\ \A i \in 1 .. Len(a) + Len(b) : c[i] = IF i <= Len(a) THEN a[i] ELSE b[i - Len(a)]
    BY ONLY <1>4, <1>5, ConcatProperties
  <2>2. ASSUME NEW i \in 1 .. n PROVE c[i] = i - 1
    <3>1. CASE i <= m
      BY <1>1, <1>4, <2>1, <3>1
    <3>2. CASE ~(i <= m)
      <4>1. PICK j \in 1 .. n - m : j = i - m
        BY <3>2
      <4>2. c[i] = b[j]
        BY <1>1, <1>4, <2>1, <3>2, <4>1
      <4>3. b[j] = m + j - 1
        BY <1>4
      <4>4. QED
        BY <4>1, <4>2, <4>3
    <3>3. QED
      BY <3>1, <3>2
  <2>3. QED
    BY <1>1, <1>4, <2>1, <2>2
<1>7. c = t
  BY <1>2, <1>6, SeqEqual
<1>8. ASSUME n - m = 1 PROVE b = <<m>>
  <2>1. m \in Fragments
    BY <1>8, ControlAssumption DEF Fragments
  <2>2. <<m>> \in Seq(Fragments) /\ Len(<<m>>) = 1 /\ <<m>>[1] = m
    BY <2>1
  <2>3. Len(b) = 1 /\ b[1] = m
    BY <1>4, <1>8
  <2>4. QED
    BY <1>4, <2>2, <2>3, SeqEqual
<1>9. b = SubSeq(Text(n), m + 1, n) /\ Text(m) \o b = Text(n)
  BY <1>1, <1>2, <1>3, <1>5, <1>7
<1>10. PICK r : r = SubSeq(Text(n), m + 1, n)
  OBVIOUS
<1>11. r \in Seq(Fragments) /\ Len(r) = n - m /\ Text(m) \o r = Text(n) /\ (n - m = 1 => r = <<m>>)
  BY <1>4, <1>8, <1>9, <1>10
<1>12. QED
  BY ONLY <1>10, <1>11, Zenon

\* An interval from one has as many members as its end.
LEMMA CountIs == ASSUME NEW k \in Nat PROVE Cardinality(1 .. k) = k
<1>1. 1 \in Int /\ k \in Int
  OBVIOUS
<1>2. QED
  BY <1>1, FS_Interval

\* Frames of which all but the last are fragments.
Orderly(frames) == \A i \in 1 .. Len(frames) - 1 : frames[i] = "safe"
Safe(frames) == Cardinality(SafeIn(frames))

\* How many of such frames are fragments.
LEMMA SafeIs ==
    ASSUME NEW s \in Seq({"safe"} \cup Terminals), Orderly(s)
    PROVE  Safe(s) = IF s = <<>> THEN 0
                     ELSE IF s[Len(s)] = "safe" THEN Len(s) ELSE Len(s) - 1
<1>1. PICK n \in Nat : n = Len(s) /\ DOMAIN s = 1 .. n /\ (s = <<>> <=> n = 0)
  OBVIOUS
<1> DEFINE k == IF s = <<>> THEN 0 ELSE IF s[Len(s)] = "safe" THEN Len(s) ELSE Len(s) - 1
<1>2. k \in Nat /\ k <= n /\ n - 1 <= k
  BY <1>1
<1>3. n > 0 => (s[n] = "safe" <=> k = n)
  BY <1>1
<1> HIDE DEF k
<1>4. \A i \in 1 .. n : s[i] = "safe" <=> i <= k
  <2>1. TAKE i \in 1 .. n
  <2>2. CASE i = n
    BY <1>2, <1>3, <2>2
  <2>3. CASE i # n
    <3>1. i \in 1 .. n - 1 /\ \A j \in 1 .. n - 1 : s[j] = "safe"
      BY <1>1, <2>3 DEF Orderly
    <3>2. QED
      BY <1>2, <3>1
  <2>4. QED
    BY <2>2, <2>3
<1>5. SafeIn(s) = 1 .. k /\ Cardinality(1 .. k) = k
  BY <1>1, <1>2, <1>4, CountIs DEF SafeIn
<1>6. QED
  BY <1>5 DEF Safe, k

-----------------------------------------------------------------------------
(***************************************************************************)
(* The inductive invariant.                                                *)
(***************************************************************************)
Over  == {"none", "over"}
Going == {"OPEN", "TERMINAL_VALID"}

\* The queue: what was admitted is a prefix of the fragments, and while the text can be
\* completed it is what was spoken, what is in flight and what is pending.
Flow ==
    /\ admitted = Text(Len(admitted))
    /\ state \in Going => acknowledged \o inflight \o pending = admitted
    /\ state \in Going /\ runner \in {"dequeue", "adopt"} => inflight = <<>>
    /\ runner \in {"batch", "synthesize", "play"} => inflight # <<>>

\* Back-pressure.
Limits ==
    /\ Len(pending) <= MaxPending
    /\ bytes = Weight(pending)

\* The task's end: it compares what was spoken before it waits to be adopted.
Endgame ==
    /\ runner = "adopt" => acknowledged = terminal /\ state # "OPEN"
    /\ state = "COMPLETED" => runner = "over"
    /\ state = "FAILED" => runner \in Over
    /\ completions > 0 => /\ runner = "over" /\ completions = 1 /\ adopted
                          /\ acknowledged = terminal /\ state # "OPEN"

\* A closed control is not about to speak or to complete, unless level 2 has just closed it.
Quiet == state \in Closed /\ conv \notin {"force_tts", "force_kill"} => runner \notin {"batch", "adopt"}

\* The frames of the LLM child, of which only the last ends the request, and where the operation
\* stands while that child generates.
Frames ==
    /\ Orderly(responses)
    /\ \A i \in DOMAIN responses : /\ responses[i] = "more" => emitted < MaxFragments
                                   /\ responses[i] = "text" => emitted > 0
    /\ op \in {"generate", "feed"} => llm = "generating" \/ responses = <<"eof">>
    /\ llm = "generating" => op \in {"generate", "feed"} /\ state # "CANCELLED"

\* The fragments that the operation still has to feed have not been fed.
Texts ==
    /\ op = "generate" => Len(admitted) + Safe(responses) <= emitted
    /\ op = "feed" => /\ Len(held) = 1 /\ Len(admitted) <= held[1]
                      /\ held[1] + 1 + Safe(responses) <= emitted
    /\ op = "finish" => held = Text(Len(held)) /\ Len(admitted) <= Len(held) /\ Len(held) > 0

\* The owner, the task and the TTS child: only a task that fail() has killed leaves the child
\* with a request that nobody reads.
Voice ==
    /\ owner = 0 => runner \in Over /\ tts # "busy"
    /\ tts = "busy" => runner \in {"synthesize", "over"}
    /\ tts = "busy" /\ runner = "over" =>
         /\ state \in Closed
         /\ op \in {"fail_tts", "begin", "over"} /\ ~(op = "over" /\ after = "response")

\* Whoever waits for the task has closed the control, stopped the task or the child before.
Cleanup ==
    /\ op \in {"cancel_tts", "cancel_join", "fail_tts", "fail_join", "unused_join"} => state \notin Going
    /\ op = "fail_tts" => runner \in Over
    /\ op \in {"cancel_join", "fail_join"} => tts # "busy" /\ runner \in Over
    /\ op = "unused_join" => tts # "busy" /\ runner \in Over \cup {"dequeue"}
    /\ conv \in {"tts_abort", "join", "force_tts", "force_kill", "force_join"} => state \notin Going
    /\ conv = "join" => tts # "busy" /\ runner \in Over
    /\ conv \in {"force_kill", "force_join"} => tts \notin {"ready", "busy"}

\* The worker in _in_flight, its task and its notice: one of them at a time.
Record ==
    /\ op \notin {"off", "over"} => body # "off"
    /\ body # "off" => record = "reasoner" /\ \A i \in DOMAIN inbox : inbox[i] # "reasoned"
    /\ speak # "off" => record = "speak" /\ \A i \in DOMAIN inbox : inbox[i] # "spoken"
    /\ \A i \in DOMAIN inbox : /\ inbox[i] = "reasoned" => record = "reasoner"
                               /\ inbox[i] = "spoken" => record = "speak"
    /\ \A i, j \in DOMAIN inbox : i # j /\ inbox[i] = inbox[j] => inbox[i] \notin {"reasoned", "spoken"}
    /\ phase = "rest" => record = "none"
    /\ phase = "think" => record = "reasoner"
    /\ speak # "off" \/ thought = "response" => op = "over" /\ after = "response"
    /\ after = "response" => op = "over"
    /\ op # "off" => turn > 0

\* converge() has a target that is in _in_flight, and does not meet a speech being begun.
Converging ==
    /\ phase \notin {"converge", "dead"} => conv = "off"
    /\ conv = "off" => target = "none"
    /\ target # "none" => record = target
    /\ conv \in {"cancel", "speak_join", "force_speak", "force_alone", "force_done"} => target = "speak"
    /\ conv \in {"llm_abort", "body_join", "force_llm", "force_body"} => target = "reasoner"
    /\ conv \in {"tts_abort", "join", "force_close", "force_tts", "force_kill", "force_join"} => target # "none"
    /\ conv = "end" => body = "off"
    /\ target = "reasoner" /\ conv \notin {"llm_abort", "force_llm", "end"} => llm # "generating"
    /\ conv \notin {"off", "llm_abort"} => ~(op = "begin" /\ owner = 0)
    /\ conv \notin {"off", "end", "speak_join"} => speak # "created"

\* The control that execute() looks for.
Answer == owner = turn /\ ~adopted /\ terminal # <<>> /\ state # "OPEN"
Answers ==
    /\ op \in {"generate", "feed", "finish"} => owner = turn /\ ~adopted
    /\ phase = "think" /\ (thought = "response" \/ (op = "over" /\ after = "response" /\ body = "await")) => Answer
    /\ speak = "created" => Answer
IInv ==
    /\ TypeOK /\ Flow /\ Limits /\ Endgame /\ Quiet
    /\ Frames /\ Texts
    /\ Voice /\ Cleanup
    /\ Record /\ Converging /\ Answers

USE DEF vars, streamVars, controlVars, taskVars, ttsVars, llmVars, opVars, bodyVars,
        speakVars, managerVars, convVars

\* Init establishes it.
LEMMA InitIInv == Init => IInv
<1> SUFFICES ASSUME Init PROVE IInv
  OBVIOUS
<1>1. Weight(<<>>) = 0
  BY WeightType
<1>2. admitted = Text(Len(admitted))
  BY DEF Init, StreamInit, Text
<1>3. TypeOK
  <2>1. \A S : <<>> \in Seq(S)
    OBVIOUS
  <2>2. /\ adopted \in BOOLEAN /\ cancelling \in BOOLEAN /\ asked \in BOOLEAN /\ expired \in BOOLEAN
        /\ cancelled \in BOOLEAN /\ error \in BOOLEAN
    BY DEF Init, StreamInit
  <2>3. StreamTypeOK
    BY <2>1, <2>2, ControlAssumption DEF Init, StreamInit, StreamTypeOK, ControlStates, RunnerSteps,
       Endings, TTSStates
  <2>4. /\ responses \in Seq({"safe"} \cup Terminals) /\ held \in Seq(Fragments) /\ inbox \in Seq(Items)
    BY <2>1 DEF Init
  <2>5. QED
    BY <2>2, <2>3, <2>4, ControlAssumption, TurnsAssumption DEF Init, TypeOK, Outcomes, OpSteps
<1>4. Flow /\ Limits /\ Endgame /\ Quiet
  BY <1>1, <1>2, ControlAssumption DEF Init, StreamInit, Flow, Limits, Endgame, Quiet, Going, Over, Closed
<1>5. Frames /\ Texts
  BY DEF Init, StreamInit, Frames, Texts, Orderly
<1>6. Voice /\ Cleanup /\ Record /\ Converging /\ Answers
  BY DEF Init, StreamInit, Voice, Cleanup, Record, Converging, Answers, Over, Going
<1>7. QED
  BY <1>3, <1>4, <1>5, <1>6 DEF IInv

-----------------------------------------------------------------------------
(***************************************************************************)
(* The control, its task and the TTS child keep their part, whoever calls. *)
(***************************************************************************)
Stream == StreamTypeOK /\ Flow /\ Limits /\ Endgame

\* A new control.
LEMMA OpenKeeps ==
    ASSUME Stream, NEW first \in {"OPEN", "CANCELLED"}, Open(first)
    PROVE  Stream'
<1>1. Weight(<<>>) = 0 /\ <<>> \in Seq(Fragments) /\ Len(<<>>) = 0 /\ <<>> = Text(0)
  BY WeightType DEF Text
<1>0. adopted' \in BOOLEAN /\ cancelling' \in BOOLEAN /\ tts' \in TTSStates
  BY DEF Stream, StreamTypeOK, Open
<1>2. StreamTypeOK'
  BY <1>0, <1>1, ControlAssumption DEF StreamTypeOK, Open, ControlStates, RunnerSteps, Endings
<1>3. Flow' /\ Limits' /\ Endgame'
  BY <1>1, ControlAssumption DEF Flow, Limits, Endgame, Open, Going
<1>4. QED
  BY <1>2, <1>3 DEF Stream

\* A queue that takes one more fragment.
LEMMA FeedKeeps ==
    ASSUME Stream, NEW f \in Fragments, Feed(f)
    PROVE  Stream'
<1>1. /\ pending \in Seq(Fragments) /\ admitted \in Seq(Fragments) /\ inflight \in Seq(Fragments)
      /\ acknowledged \in Seq(Fragments) /\ bytes \in Nat
      /\ MaxPending \in Nat /\ MaxBytes \in Nat /\ Size[f] \in Nat
  BY ControlAssumption DEF Stream, StreamTypeOK
<1>2. /\ pending' = Append(pending, f) /\ pending' \in Seq(Fragments) /\ Len(pending') = Len(pending) + 1
      /\ admitted' = Append(admitted, f) /\ admitted' \in Seq(Fragments) /\ Len(admitted') = Len(admitted) + 1
  BY <1>1, AppendProperties DEF Feed
<1>3. bytes' = Weight(pending') /\ bytes' \in 0 .. MaxBytes /\ Len(pending') <= MaxPending
  <2>1. bytes = Weight(pending)
    BY DEF Stream, Limits
  <2>2. Weight(Append(pending, f)) = Weight(pending) + Size[f]
    BY <1>1, WeightAppend
  <2>3. bytes' = bytes + Size[f] /\ ~(Len(pending) >= MaxPending) /\ ~(bytes + Size[f] > MaxBytes)
    BY DEF Feed, Full
  <2>4. Len(pending) \in Nat
    BY <1>1
  <2>5. bytes' = Weight(pending')
    BY <1>2, <2>1, <2>2, <2>3
  <2>6. QED
    BY SMTT(60), <1>1, <1>2, <2>3, <2>4, <2>5
<1>4. admitted' = Text(Len(admitted'))
  <2>1. PICK a \in Seq(Fragments) : a = admitted /\ a = Text(Len(a)) /\ f = Len(a)
    BY <1>1 DEF Stream, Flow, Feed
  <2>2. PICK b \in Seq(Fragments) : b = Append(a, f)
    BY AppendProperties
  <2>3. /\ Len(b) = Len(a) + 1 /\ \A i \in 1 .. Len(a) : b[i] = a[i]
        /\ b[Len(a) + 1] = f
    BY <2>2, AppendProperties
  <2>4. PICK n \in Nat : n = Len(a)
    OBVIOUS
  <2>5. \A i \in 1 .. n + 1 : b[i] = i - 1
    <3>1. \A i \in 1 .. n : a[i] = i - 1
      BY <2>1, <2>4, TextIs
    <3>2. QED
      BY <2>1, <2>3, <2>4, <3>1
  <2>6. PICK c \in Seq(Nat) : c = Text(n + 1) /\ Len(c) = n + 1 /\ \A i \in 1 .. n + 1 : c[i] = i - 1
    BY TextIs
  <2>7. b \in Seq(Nat)
    <3>1. Fragments \subseteq Nat
      BY ControlAssumption DEF Fragments
    <3>2. QED
      BY <3>1, SeqMonotonic
  <2>8. b = c
    <3>1. Len(b) = Len(c) /\ \A i \in 1 .. Len(b) : b[i] = c[i]
      BY <2>3, <2>4, <2>5, <2>6
    <3>2. QED
      BY <2>7, <3>1, SeqEqual
  <2>9. QED
    BY <1>2, <2>1, <2>2, <2>3, <2>4, <2>6, <2>8
<1>5. acknowledged' \o inflight' \o pending' = admitted'
  <2>1. acknowledged \o inflight \o pending = admitted
    BY DEF Stream, Flow, Feed, Going
  <2>2. UNCHANGED <<acknowledged, inflight>>
    BY DEF Feed
  <2>3. acknowledged \o inflight \in Seq(Fragments)
    BY <1>1, ConcatProperties
  <2>4. (acknowledged \o inflight) \o Append(pending, f) = Append((acknowledged \o inflight) \o pending, f)
    BY SMTT(60), <1>1, <2>3
  <2>5. QED
    BY <1>2, <2>1, <2>2, <2>4
<1>6. StreamTypeOK'
  BY <1>2, <1>3 DEF Stream, StreamTypeOK, Feed
<1>7. Flow' /\ Limits'
  BY <1>3, <1>4, <1>5 DEF Stream, Flow, Limits, Feed
<1>8. Endgame'
  BY DEF Stream, Endgame, Feed
<1>9. QED
  BY <1>6, <1>7, <1>8 DEF Stream

\* finish() appends what the text has beyond what was admitted.
Continues(text) == text = Text(Len(text)) /\ Len(text) \in 1 .. MaxFragments /\ Len(admitted) <= Len(text)

LEMMA FinishKeeps ==
    ASSUME Stream, NEW text \in Seq(Fragments), Continues(text), Finish(text)
    PROVE  Stream'
<1>1. /\ pending \in Seq(Fragments) /\ admitted \in Seq(Fragments) /\ inflight \in Seq(Fragments)
      /\ acknowledged \in Seq(Fragments) /\ bytes \in Nat
      /\ MaxPending \in Nat /\ MaxBytes \in Nat
  BY ControlAssumption DEF Stream, StreamTypeOK
<1>2. PICK m \in Nat, n \in Nat : m = Len(admitted) /\ n = Len(text) /\ m <= n /\ n <= MaxFragments /\ n # 0
  BY <1>1, ControlAssumption DEF Continues
<1>3. PICK r \in Seq(Fragments) :
         /\ r = Remainder(text) /\ Len(r) = n - m /\ admitted \o r = text /\ (n - m = 1 => r = <<m>>)
  <2>1. admitted = Text(m) /\ text = Text(n)
    BY <1>2 DEF Stream, Flow, Continues
  <2>2. Remainder(text) = SubSeq(Text(n), m + 1, n)
    BY <1>2, <2>1 DEF Remainder
  <2>3. /\ SubSeq(Text(n), m + 1, n) \in Seq(Fragments)
        /\ Len(SubSeq(Text(n), m + 1, n)) = n - m
        /\ Text(m) \o SubSeq(Text(n), m + 1, n) = Text(n)
        /\ n - m = 1 => SubSeq(Text(n), m + 1, n) = <<m>>
    BY <1>2, RemainderIs
  <2>4. QED
    BY ONLY <2>1, <2>2, <2>3
<1>4. /\ pending' = pending \o r /\ bytes' = bytes + Weight(r) /\ admitted' = text /\ terminal' = text
      /\ state = "OPEN" /\ state' = "TERMINAL_VALID" /\ Len(r) <= 1
      /\ UNCHANGED <<inflight, acknowledged, adopted, taskVars, ttsVars>>
  BY <1>3 DEF Finish
<1>5. CASE r = <<>>
  <2>1. pending' = pending /\ bytes' = bytes /\ text = admitted
    <3>1. Weight(<<>>) = 0 /\ pending \o <<>> = pending /\ admitted \o <<>> = admitted
      BY <1>1, WeightType, ConcatEmptySeq
    <3>2. QED
      BY <1>1, <1>3, <1>4, <1>5, <3>1
  <2>2. StreamTypeOK'
    BY <1>4, <2>1 DEF Stream, StreamTypeOK, ControlStates
  <2>3. Flow' /\ Limits' /\ Endgame'
    BY <1>4, <2>1 DEF Stream, Flow, Limits, Endgame, Going
  <2>4. QED
    BY <2>2, <2>3 DEF Stream
<1>6. CASE r # <<>>
  <2>1. Len(r) = 1 /\ r = <<m>> /\ m \in Fragments
    <3>1. PICK k \in Nat : k = Len(r) /\ k # 0
      BY <1>6
    <3>2. k <= 1
      BY <1>4, <3>1
    <3>3. k = 1
      BY <3>2, <3>1
    <3>4. n - m = 1 /\ n <= MaxFragments /\ r = <<m>>
      BY <1>2, <1>3, <3>1, <3>3
    <3>5. m \in Fragments
      BY <3>4, ControlAssumption DEF Fragments
    <3>6. QED
      BY <3>1, <3>3, <3>4, <3>5
  <2>2. ~(Len(pending) >= MaxPending) /\ ~(bytes + Size[m] > MaxBytes) /\ Size[m] \in Nat
    <3>1. ~Full(m)
      BY <1>2, <1>3, <1>6 DEF Finish, FinishWaits
    <3>2. QED
      BY <2>1, <3>1, ControlAssumption DEF Full
  <2>3. pending' = Append(pending, m) /\ pending' \in Seq(Fragments) /\ Len(pending') = Len(pending) + 1
    BY <1>1, <1>4, <2>1, AppendProperties, AppendIsConcat
  <2>4. Weight(r) = Size[m] /\ Weight(pending') = Weight(pending) + Size[m]
    <3>1. Append(<<>>, m) = <<m>> /\ <<>> \in Seq(Fragments)
      BY <2>1
    <3>2. Weight(Append(<<>>, m)) = Weight(<<>>) + Size[m]
      BY <2>1, <3>1, WeightAppend
    <3>3. Weight(Append(pending, m)) = Weight(pending) + Size[m]
      BY <1>1, <2>1, WeightAppend
    <3>4. QED
      BY <2>1, <2>2, <2>3, <3>1, <3>2, <3>3, WeightType
  <2>5. bytes' = Weight(pending') /\ bytes' \in 0 .. MaxBytes /\ Len(pending') <= MaxPending
    <3>1. bytes = Weight(pending) /\ Len(pending) \in Nat
      BY <1>1 DEF Stream, Limits
    <3>2. QED
      BY SMTT(60), <1>1, <1>4, <2>2, <2>3, <2>4, <3>1
  <2>6. acknowledged' \o inflight' \o pending' = admitted'
    <3>1. acknowledged \o inflight \o pending = admitted
      BY <1>4 DEF Stream, Flow, Going
    <3>2. PICK x \in Seq(Fragments) : x = acknowledged \o inflight
      BY <1>1, ConcatProperties
    <3>3. PICK y \in Seq(Fragments) : y = pending
      BY <1>1
    <3>4. (x \o y) \o r = x \o (y \o r)
      BY SMTT(60), ConcatAssociative
    <3>5. QED
      BY <1>3, <1>4, <3>1, <3>2, <3>3, <3>4
  <2>7. StreamTypeOK'
    BY <1>4, <2>3, <2>5 DEF Stream, StreamTypeOK, ControlStates
  <2>8. Flow' /\ Limits'
    BY <1>4, <2>5, <2>6 DEF Stream, Flow, Limits, Continues, Going
  <2>9. Endgame'
    BY <1>4 DEF Stream, Endgame
  <2>10. QED
    BY <2>7, <2>8, <2>9 DEF Stream
<1>7. QED
  BY <1>5, <1>6

\* The calls that close the control, and those that only touch its task or the child.
Killed  == Kill /\ UNCHANGED <<controlVars, ttsVars>>
Rebuilt ==
    /\ conv = "end" /\ tts \in {"faulted", "destroyed"}
    /\ tts' = "ready"
    /\ UNCHANGED <<controlVars, taskVars, cancelling>>
Freed   ==
    /\ state \notin Going /\ runner \in Over
    /\ inflight' = <<>>
    /\ UNCHANGED <<state, pending, bytes, admitted, acknowledged, terminal, adopted, taskVars, ttsVars>>

Forced  == conv = "force_close" /\ conv' = "force_tts" /\ ForceClose

Closes == Cancel \/ Fail \/ CloseUnused \/ Forced
Touches == Adopt \/ CancelKill \/ Killed \/ ForceTTS \/ Rebuilt \/ Freed

\* A task that is killed is over; one that is over stays as it is.
LEMMA KillIs ==
    ASSUME StreamTypeOK, Kill
    PROVE  /\ \/ runner' = runner /\ ending' = ending
              \/ runner' = "over" /\ ending' = "cancelled" /\ runner \notin Over
           /\ runner' \in Over /\ completions' = completions
           /\ runner' \in RunnerSteps /\ ending' \in Endings
  BY DEF Kill, Over, StreamTypeOK, RunnerSteps, Endings

\* cancel(), fail(), close_unused() and force_abort().
LEMMA ClosesKeep ==
    ASSUME Stream, Closes
    PROVE  Stream'
<1>1. /\ UNCHANGED <<inflight, admitted, acknowledged, terminal, adopted, completions, tts>>
      /\ (pending' = <<>> /\ bytes' = 0) \/ UNCHANGED <<pending, bytes>>
  BY DEF Closes, Cancel, Fail, CloseUnused, Forced, ForceClose, Drop, Kill, Closed
<1>2. state' \in Closed /\ state' \in ControlStates
  BY DEF Closes, Cancel, Fail, CloseUnused, Forced, ForceClose, Drop, Closed, ControlStates
<1>3. /\ UNCHANGED <<runner, ending>> \/ (runner' = "over" /\ ending' = "cancelled")
      /\ runner' \in RunnerSteps /\ ending' \in Endings
  BY KillIs DEF Closes, Cancel, Fail, CloseUnused, Forced, ForceClose, Drop, Stream, StreamTypeOK
<1>4. cancelling' \in BOOLEAN
  BY DEF Closes, Cancel, Fail, CloseUnused, Forced, ForceClose, Stream, StreamTypeOK
<1>5. state' = "FAILED" => runner' \in Over
  BY KillIs DEF Closes, Cancel, Fail, CloseUnused, Forced, ForceClose, Drop, Stream, Over
<1>6. /\ pending' \in Seq(Fragments) /\ bytes' \in 0 .. MaxBytes
      /\ Len(pending') <= MaxPending /\ bytes' = Weight(pending')
  <2>1. CASE UNCHANGED <<pending, bytes>>
    BY <2>1 DEF Stream, StreamTypeOK, Limits
  <2>2. CASE pending' = <<>> /\ bytes' = 0
    <3>1. <<>> \in Seq(Fragments) /\ Len(<<>>) = 0
      OBVIOUS
    <3>2. QED
      BY <2>2, <3>1, ControlAssumption, WeightType
  <2>3. QED
    BY <1>1, <2>1, <2>2
<1>7. StreamTypeOK'
  BY <1>1, <1>2, <1>3, <1>4, <1>6 DEF Stream, StreamTypeOK
<1>8. Flow'
  BY <1>1, <1>2, <1>3 DEF Stream, Flow, Going, Closed
<1>9. Limits'
  BY <1>6 DEF Limits
<1>10. Endgame'
  BY <1>1, <1>2, <1>3, <1>5 DEF Stream, Endgame, Closed
<1>11. QED
  BY <1>7, <1>8, <1>9, <1>10 DEF Stream

\* What leaves the queue of an open control alone.
LEMMA TouchesKeep ==
    ASSUME Stream, Touches
    PROVE  Stream'
<1>1. /\ UNCHANGED <<state, pending, bytes, admitted, acknowledged, terminal, completions>>
      /\ adopted' \in BOOLEAN /\ (adopted => adopted') /\ cancelling' = cancelling
      /\ tts' \in TTSStates
  BY DEF Touches, Adopt, CancelKill, Killed, Kill, ForceTTS, Rebuilt, Freed, Stream, StreamTypeOK, TTSStates
<1>2. /\ UNCHANGED <<runner, ending>> \/ (runner' = "over" /\ ending' = "cancelled")
      /\ runner' \in RunnerSteps /\ ending' \in Endings
  BY KillIs DEF Touches, Adopt, CancelKill, Killed, ForceTTS, Rebuilt, Freed, Stream, StreamTypeOK
<1>3. inflight' = inflight \/ (inflight' = <<>> /\ state \notin Going /\ runner \in Over /\ runner' = runner)
  BY DEF Touches, Adopt, CancelKill, Killed, ForceTTS, Rebuilt, Freed
<1>4. inflight' \in Seq(Fragments)
  <2>1. <<>> \in Seq(Fragments)
    OBVIOUS
  <2>2. QED
    BY <1>3, <2>1 DEF Stream, StreamTypeOK
<1>5. StreamTypeOK'
  BY <1>1, <1>2, <1>4 DEF Stream, StreamTypeOK
<1>6. Flow'
  BY <1>1, <1>2, <1>3 DEF Stream, Flow, Over
<1>7. Limits' /\ Endgame'
  BY <1>1, <1>2 DEF Stream, Limits, Endgame, Over
<1>8. QED
  BY <1>5, <1>6, <1>7 DEF Stream

\* The task: taking from the queue ...
LEMMA TakesKeep ==
    ASSUME Stream, RunnerTakes
    PROVE  Stream'
<1>1. PICK p \in Seq(Fragments) : p = pending /\ p # <<>>
  BY DEF Stream, StreamTypeOK, RunnerTakes
<1>2. PICK n \in 1 .. 2 : n = IF Len(p) = 1 THEN 1 ELSE 2
  OBVIOUS
<1>3. Len(p) \in Nat /\ Len(p) # 0
  BY <1>1
<1>4. n \in 0 .. Len(p) /\ n \in Nat /\ n # 0
  <2>1. PICK k \in Nat : k = Len(p) /\ k # 0
    BY <1>3
  <2>2. n \in 0 .. k
    BY <1>2, <2>1
  <2>3. QED
    BY <2>1, <2>2
<1>5. PICK a \in Seq(Fragments), b \in Seq(Fragments) :
         /\ a = SubSeq(p, 1, n) /\ b = SubSeq(p, n + 1, Len(p))
         /\ Len(a) = n /\ Len(b) = Len(p) - n /\ a \o b = p
  <2>1. /\ SubSeq(p, 1, n) \in Seq(Fragments) /\ SubSeq(p, n + 1, Len(p)) \in Seq(Fragments)
        /\ Len(SubSeq(p, 1, n)) = n /\ Len(SubSeq(p, n + 1, Len(p))) = Len(p) - n
        /\ SubSeq(p, 1, n) \o SubSeq(p, n + 1, Len(p)) = p
    BY <1>4, SplitIs
  <2>2. QED
    BY ONLY <2>1
<1>6. /\ inflight' = a /\ pending' = b /\ bytes' = bytes - Weight(a)
      /\ state \notin Closed /\ runner = "dequeue" /\ runner' = "batch"
      /\ UNCHANGED <<state, admitted, acknowledged, terminal, adopted, ending, completions, ttsVars>>
  BY <1>1, <1>2, <1>5 DEF RunnerTakes
<1>7. Weight(p) = Weight(a) + Weight(b) /\ Weight(a) \in Nat /\ Weight(b) \in Nat
  BY <1>4, <1>5, WeightSplit, WeightType
<1>8. bytes' = Weight(b) /\ bytes' \in 0 .. MaxBytes /\ Len(b) <= MaxPending
  <2>1. bytes = Weight(p) /\ bytes \in 0 .. MaxBytes /\ Len(p) <= MaxPending
    BY <1>1 DEF Stream, StreamTypeOK, Limits
  <2>2. QED
    BY SMTT(60), <1>3, <1>4, <1>5, <1>6, <1>7, <2>1, ControlAssumption
<1>9. a # <<>>
  BY <1>4, <1>5
<1>10. state \in Going => acknowledged \o a \o b = admitted
  <2>1. HAVE state \in Going
  <2>2. inflight = <<>> /\ acknowledged \o inflight \o pending = admitted
    BY <1>6, <2>1 DEF Stream, Flow
  <2>3. PICK x \in Seq(Fragments) : x = acknowledged
    BY DEF Stream, StreamTypeOK
  <2>4. x \o <<>> = x
    BY ConcatEmptySeq
  <2>5. (x \o a) \o b = x \o (a \o b)
    BY SMTT(60), ConcatAssociative
  <2>6. QED
    BY <1>1, <1>5, <2>2, <2>3, <2>4, <2>5
<1>11. StreamTypeOK'
  BY <1>6, <1>8 DEF Stream, StreamTypeOK, RunnerSteps
<1>12. Flow' /\ Limits'
  BY <1>6, <1>8, <1>9, <1>10 DEF Stream, Flow, Limits
<1>13. Endgame'
  BY <1>6 DEF Stream, Endgame, Over, Closed
<1>14. QED
  BY <1>11, <1>12, <1>13 DEF Stream

\* ... raising ...
LEMMA RaisesKeep ==
    ASSUME Stream, NEW cause \in Endings, Raises(cause), runner \notin Over, completions' = completions,
           tts' \in TTSStates, cancelling' \in BOOLEAN
    PROVE  Stream'
<1>1. <<>> \in Seq(Fragments) /\ Len(<<>>) = 0 /\ Weight(<<>>) = 0
  BY WeightType
<1>2. /\ state' \in Closed /\ state' \in ControlStates /\ runner' = "over" /\ ending' = cause
      /\ pending' = <<>> /\ bytes' = 0 /\ inflight' = <<>>
      /\ UNCHANGED <<admitted, acknowledged, terminal, adopted>>
  BY DEF Raises, Ends, Closed, ControlStates
<1>3. StreamTypeOK'
  BY <1>1, <1>2, ControlAssumption DEF Stream, StreamTypeOK, RunnerSteps
<1>4. Flow' /\ Limits'
  BY <1>1, <1>2, ControlAssumption DEF Stream, Flow, Limits, Going, Closed
<1>5. Endgame'
  BY <1>2 DEF Stream, Endgame, Over, Closed
<1>6. QED
  BY <1>3, <1>4, <1>5 DEF Stream

\* ... playing what it took ...
LEMMA PlaysKeep ==
    ASSUME Stream, runner = "play",
           acknowledged' = acknowledged \o inflight, inflight' = <<>>, runner' = "dequeue",
           UNCHANGED <<state, pending, bytes, admitted, terminal, adopted, ending, completions, ttsVars>>
    PROVE  Stream'
<1>1. <<>> \in Seq(Fragments)
  OBVIOUS
<1>2. acknowledged' \in Seq(Fragments) /\ acknowledged' \o <<>> = acknowledged'
  <2>1. PICK x \in Seq(Fragments) : x = acknowledged \o inflight
    BY ConcatProperties DEF Stream, StreamTypeOK
  <2>2. x \o <<>> = x
    BY ConcatEmptySeq
  <2>3. QED
    BY <2>1, <2>2
<1>3. StreamTypeOK'
  BY <1>1, <1>2 DEF Stream, StreamTypeOK, RunnerSteps
<1>4. Flow' /\ Limits'
  BY <1>2 DEF Stream, Flow, Limits
<1>5. Endgame'
  BY DEF Stream, Endgame, Over
<1>6. QED
  BY <1>3, <1>4, <1>5 DEF Stream

\* ... and the rest of its steps.
LEMMA RunnerKeeps ==
    ASSUME Stream, RunnerStep
    PROVE  Stream'
<1>1. CASE RunnerStops
  <2>1. StreamTypeOK'
    BY <1>1 DEF Stream, StreamTypeOK, RunnerStops, Ends, RunnerSteps, Endings
  <2>2. Flow' /\ Limits' /\ Endgame'
    BY <1>1 DEF Stream, Flow, Limits, Endgame, RunnerStops, Ends, Over, Closed, Going
  <2>3. QED
    BY <2>1, <2>2 DEF Stream
<1>2. CASE RunnerTakes
  BY <1>2, TakesKeep
<1>3. CASE RunnerSynthesizes
  <2>1. CASE tts = "ready"
    <3>1. StreamTypeOK'
      BY <1>3, <2>1 DEF Stream, StreamTypeOK, RunnerSynthesizes, RunnerSteps, TTSStates
    <3>2. Flow' /\ Limits' /\ Endgame'
      BY <1>3, <2>1 DEF Stream, Flow, Limits, Endgame, RunnerSynthesizes, Over
    <3>3. QED
      BY <3>1, <3>2 DEF Stream
  <2>2. CASE tts # "ready"
    BY <1>3, <2>2, RaisesKeep DEF RunnerSynthesizes, Stream, StreamTypeOK, Endings, Over
  <2>3. QED
    BY <2>1, <2>2
<1>4. CASE RunnerHears
  <2>1. StreamTypeOK'
    BY <1>4 DEF Stream, StreamTypeOK, RunnerHears, RunnerSteps, TTSStates
  <2>2. Flow' /\ Limits' /\ Endgame'
    BY <1>4 DEF Stream, Flow, Limits, Endgame, RunnerHears, Over
  <2>3. QED
    BY <2>1, <2>2 DEF Stream
<1>5. CASE RunnerRejected
  BY <1>5, RaisesKeep DEF RunnerRejected, Stream, StreamTypeOK, Endings, Over, TTSStates
<1>6. CASE RunnerLosesTTS
  BY <1>6, RaisesKeep DEF RunnerLosesTTS, Stream, StreamTypeOK, Endings, Over, TTSStates
<1>7. CASE RunnerPlays
  <2>1. CASE Raises("audio")
    BY <1>7, <2>1, RaisesKeep DEF RunnerPlays, Stream, StreamTypeOK, Endings, Over
  <2>2. CASE ~Raises("audio")
    BY <1>7, <2>2, PlaysKeep DEF RunnerPlays
  <2>3. QED
    BY <2>1, <2>2
<1>8. CASE RunnerDrained
  <2>1. CASE acknowledged = terminal
    <3>1. StreamTypeOK'
      BY <1>8, <2>1 DEF Stream, StreamTypeOK, RunnerDrained, RunnerSteps
    <3>2. Flow' /\ Limits' /\ Endgame'
      BY <1>8, <2>1 DEF Stream, Flow, Limits, Endgame, RunnerDrained, Over, Going
    <3>3. QED
      BY <3>1, <3>2 DEF Stream
  <2>2. CASE acknowledged # terminal
    BY <1>8, <2>2, RaisesKeep DEF RunnerDrained, Stream, StreamTypeOK, Endings, Over
  <2>3. QED
    BY <2>1, <2>2
<1>9. CASE RunnerCompletes
  <2>1. completions = 0
    BY <1>9 DEF Stream, StreamTypeOK, Endgame, RunnerCompletes
  <2>2. StreamTypeOK'
    BY <1>9, <2>1 DEF Stream, StreamTypeOK, RunnerCompletes, Ends, RunnerSteps, Endings, ControlStates
  <2>3. Flow' /\ Limits' /\ Endgame'
    BY <1>9, <2>1 DEF Stream, Flow, Limits, Endgame, RunnerCompletes, Ends, Over, Going
  <2>4. QED
    BY <2>2, <2>3 DEF Stream
<1>10. QED
  BY <1>1, <1>2, <1>3, <1>4, <1>5, <1>6, <1>7, <1>8, <1>9 DEF RunnerStep

-----------------------------------------------------------------------------
(***************************************************************************)
(* What every step of the system does to the control.                      *)
(***************************************************************************)
\* A text being finished.
LEMMA FinishedTextContinues ==
    ASSUME StreamTypeOK, Flow, NEW n \in 1 .. MaxFragments, Len(admitted) <= n
    PROVE  Text(n) \in Seq(Fragments) /\ Continues(Text(n))
<1>1. Text(n) \in Seq(Fragments) /\ Len(Text(n)) = n
  BY TextIs, ControlAssumption
<1>2. QED
  BY <1>1 DEF Continues

\* The terminal frame: a text that continues what was admitted, or the end of the speech.
Ending(head) ==
    \/ ClosesSpeech("notice") /\ head # "eof"
    \/ FailsSpeech("reusable") /\ head # "eof"
    \/ CancelsSpeech("silent") /\ head # "eof"
    \/ CancelsSpeech("llm") /\ head = "eof"

\* The frame that ends the request: the whole text to finish, or a way to end the speech.
LEMMA TerminalIs ==
    ASSUME TypeOK, Flow, Frames, Texts, OpTakesTerminal
    PROVE  /\ op = "generate" /\ (Head(responses) = "eof" \/ llm = "generating")
           /\ \/ \E text \in Seq(Fragments) :
                    held' = text /\ Continues(text) /\ FinishesSpeech(text) /\ llm = "generating"
              \/ held' = held /\ Ending(Head(responses))
<1>1. /\ op = "generate" /\ responses # <<>> /\ Head(responses) \in Terminals
      /\ responses \in Seq({"safe"} \cup Terminals)
      /\ responses[1] = Head(responses) /\ 1 \in DOMAIN responses
  BY DEF OpTakesTerminal, TypeOK
<1>2. Head(responses) = "eof" \/ llm = "generating"
  BY <1>1 DEF Frames
<1>3. CASE Head(responses) \in {"text", "more"}
  <2>1. PICK n \in Int : n = IF Head(responses) = "text" THEN emitted ELSE emitted + 1
    BY DEF TypeOK
  <2>2. /\ responses[1] = "more" => emitted < MaxFragments
        /\ responses[1] = "text" => emitted > 0
    BY <1>1 DEF Frames
  <2>3. Len(admitted) <= emitted
    <3>1. Safe(responses) \in Nat
      <4>1. responses[Len(responses)] = "safe" \/ responses[Len(responses)] # "safe"
        OBVIOUS
      <4>2. QED
        BY <1>1, SafeIs DEF Frames
    <3>2. Len(admitted) + Safe(responses) <= emitted /\ Len(admitted) \in Nat /\ emitted \in Nat
      BY <1>1 DEF Texts, TypeOK, StreamTypeOK
    <3>3. QED
      BY <3>1, <3>2
  <2>4. n \in 1 .. MaxFragments /\ Len(admitted) <= n
    BY <1>1, <1>3, <2>1, <2>2, <2>3, ControlAssumption DEF TypeOK, StreamTypeOK
  <2>5. held' = Text(n) /\ FinishesSpeech(held')
    BY <1>1, <1>3, <2>1 DEF OpTakesTerminal
  <2>6. PICK text \in Seq(Fragments) : text = held' /\ Continues(text)
    BY <2>4, <2>5, FinishedTextContinues DEF TypeOK
  <2>7. FinishesSpeech(text)
    BY <2>5, <2>6 DEF FinishesSpeech, Finish, FinishWaits, Remainder, Full, Feed
  <2>8. llm = "generating"
    BY <1>2, <1>3
  <2>9. QED
    BY <1>1, <1>2, <2>6, <2>7, <2>8
<1>4. CASE Head(responses) \notin {"text", "more"}
  <2>1. held' = held
    BY <1>4 DEF OpTakesTerminal
  <2>2. Head(responses) \in {"empty", "failed", "cancelled", "eof"}
    BY <1>1, <1>4 DEF Terminals
  <2>3. Ending(Head(responses))
    BY <2>2 DEF OpTakesTerminal, Ending, Replaceable
  <2>4. QED
    BY <1>1, <1>2, <2>1, <2>3
<1>5. QED
  BY <1>3, <1>4

\* What finish() is given when it waits.
LEMMA HeldContinues ==
    ASSUME TypeOK, Flow, Texts, op = "finish"
    PROVE  Continues(held)
<1>1. PICK h \in Seq(Fragments), n \in Nat : h = held /\ n = Len(h) /\ n > 0
  BY DEF TypeOK, Texts
<1>2. h = Text(n) /\ Len(admitted) <= n
  BY <1>1 DEF Texts
<1>3. h[n] = n - 1 /\ h[n] \in Fragments
  <2>1. n \in 1 .. n /\ n \in 1 .. Len(h)
    BY <1>1
  <2>2. Text(n)[n] = n - 1
    BY <2>1, TextIs
  <2>3. QED
    BY <1>2, <2>1, <2>2
<1>4. n \in 1 .. MaxFragments
  BY <1>1, <1>3, ControlAssumption DEF Fragments
<1>5. QED
  BY <1>1, <1>2, <1>4 DEF Continues

\* begin_streaming(), and everything that a step of the system may do to the control, its
\* task and the TTS child.
Opens == op = "begin" /\ owner = 0 /\ \E first \in {"OPEN", "CANCELLED"} : Open(first)

Moves ==
    \/ UNCHANGED streamVars
    \/ Opens
    \/ \E f \in Fragments : Feed(f)
    \/ \E text \in Seq(Fragments) : Continues(text) /\ Finish(text)
    \/ Closes
    \/ Touches
    \/ RunnerStep

\* finish() feeds one fragment, or closes the text, or waits.
LEMMA FinishesMoves ==
    ASSUME StreamTypeOK, NEW text \in Seq(Fragments), Continues(text), FinishesSpeech(text)
    PROVE  Moves
<1>1. CASE Finish(text)
  BY <1>1 DEF Moves
<1>2. CASE Len(Remainder(text)) > 1 /\ Feed(Len(admitted))
  <2>1. PICK m \in Nat, n \in Nat : m = Len(admitted) /\ n = Len(text) /\ n <= MaxFragments /\ m <= n
    BY ControlAssumption DEF Continues, StreamTypeOK
  <2>2. m # n
    <3>1. SUFFICES ASSUME m = n PROVE FALSE
      OBVIOUS
    <3>2. SubSeq(text, m + 1, n) = <<>>
      BY <2>1, <3>1, SubSeqEmpty
    <3>3. Remainder(text) = <<>>
      BY <2>1, <3>2 DEF Remainder
    <3>4. QED
      BY <1>2, <3>3
  <2>3. m \in Fragments
    BY <2>1, <2>2, ControlAssumption DEF Fragments
  <2>4. QED
    BY <1>2, <2>1, <2>3 DEF Moves
<1>3. CASE UNCHANGED streamVars
  BY <1>3 DEF Moves
<1>4. QED
  BY <1>1, <1>2, <1>3 DEF FinishesSpeech

\* _cancel_operation() may kill the task.
LEMMA CancelsMoves == ASSUME CancelsOperation PROVE Moves
  BY DEF CancelsOperation, Moves, Touches, Killed

\* The reasoner's operation only calls the control.
LEMMA OperationMoves ==
    ASSUME IInv, Operation
    PROVE  Moves
<1>0. TypeOK /\ StreamTypeOK /\ Flow /\ Frames /\ Texts /\ Cleanup
  BY DEF IInv, TypeOK
<1>1. CASE OpBegins
  BY <1>1 DEF OpBegins, Opens, Moves
<1>2. CASE OpTakesFragment
  BY <1>2 DEF OpTakesFragment, Moves
<1>3. CASE OpFeeds
  <2>1. held[1] \in Fragments
    <3>1. PICK h \in Seq(Fragments) : h = held /\ Len(h) = 1
      BY <1>0, <1>3 DEF OpFeeds, Texts, TypeOK
    <3>2. QED
      BY <3>1
  <2>2. QED
    BY <1>3, <2>1 DEF OpFeeds, Moves
<1>4. CASE OpRefused
  BY <1>4 DEF OpRefused, Moves
<1>5. CASE OpTakesTerminal
  <2>1. CASE Ending(Head(responses))
    BY <2>1 DEF Ending, ClosesSpeech, FailsSpeech, CancelsSpeech, Moves, Closes
  <2>2. CASE \E text \in Seq(Fragments) :
                    held' = text /\ Continues(text) /\ FinishesSpeech(text) /\ llm = "generating"
    BY <1>0, <2>2, FinishesMoves
  <2>3. QED
    BY <1>0, <1>5, <2>1, <2>2, TerminalIs
<1>6. CASE OpExpires
  BY <1>6 DEF OpExpires, Moves
<1>7. CASE OpFinishes
  <2>1. held \in Seq(Fragments) /\ Continues(held) /\ FinishesSpeech(held)
    BY <1>0, <1>7, HeldContinues DEF OpFinishes, TypeOK
  <2>2. PICK text \in Seq(Fragments) : text = held
    BY <2>1
  <2>3. Continues(text) /\ FinishesSpeech(text)
    BY <2>1, <2>2 DEF FinishesSpeech, Finish, FinishWaits, Remainder, Full, Feed
  <2>4. QED
    BY <1>0, <2>3, FinishesMoves
<1>8. CASE OpCancels
  BY <1>8 DEF OpCancels, CancelsSpeech, Moves, Closes
<1>9. CASE OpSilences
  BY <1>9 DEF OpSilences, Moves, Touches
<1>10. CASE OpReleases
  <2>1. CASE op = "unused_join"
    BY <1>10, <2>1 DEF OpReleases, Moves
  <2>2. CASE op # "unused_join"
    <3>1. state \notin Going /\ runner \in Over
      BY <1>0, <1>10, <2>2 DEF OpReleases, Cleanup, Over
    <3>2. QED
      BY <1>10, <2>2, <3>1 DEF OpReleases, Moves, Touches, Freed
  <2>3. QED
    BY <2>1, <2>2
<1>11. QED
  BY <1>1, <1>2, <1>3, <1>4, <1>5, <1>6, <1>7, <1>8, <1>9, <1>10 DEF Operation

\* So does the convergence, which also rebuilds the child.
LEMMA ConvergenceMoves ==
    ASSUME IInv, Convergence
    PROVE  Moves
<1>0. Cleanup
  BY DEF IInv
<1>1. ASSUME NEW a, NEW b, Releases(a, b), conv \in {"join", "force_join"} PROVE Moves
  <2>1. state \notin Going /\ runner \in Over
    BY <1>0, <1>1 DEF Releases, Cleanup, Over
  <2>2. QED
    BY <1>1, <2>1 DEF Releases, Moves, Touches, Freed
<1>2. ASSUME CancelsControl PROVE Moves
  BY <1>2 DEF CancelsControl, Moves, Closes
<1>3. CASE Level1Step
  <2>1. CASE AbortReasoner
    BY <1>2, <2>1, CancelsMoves DEF AbortReasoner
  <2>2. CASE AbortSpeak
    BY <1>2, <2>2 DEF AbortSpeak, Moves
  <2>3. CASE SilenceSpeech
    BY <2>3 DEF SilenceSpeech, Moves, Touches
  <2>4. CASE JoinSpeech
    BY <1>1, <2>4 DEF JoinSpeech
  <2>5. CASE JoinReasoner \/ JoinSpeak
    BY <2>5 DEF JoinReasoner, JoinSpeak, Moves
  <2>6. CASE Timeout
    BY <2>6, CancelsMoves DEF Timeout, Moves
  <2>7. QED
    BY <1>3, <2>1, <2>2, <2>3, <2>4, <2>5, <2>6 DEF Level1Step
<1>4. CASE Level2Step
  <2>1. CASE ForceLLM \/ ForceSpeak
    BY <2>1 DEF ForceLLM, ForceSpeak, Moves
  <2>2. CASE ForceControl
    BY <2>2, CancelsMoves DEF ForceControl, Step, Moves, Closes, Forced
  <2>3. CASE ForceChild
    BY <2>3 DEF ForceChild, Moves, Touches
  <2>4. CASE ForceTask
    BY <2>4 DEF ForceTask, ForceKill, Moves, Touches, Killed
  <2>5. CASE ForceJoin
    BY <1>1, <2>5 DEF ForceJoin
  <2>6. QED
    BY <1>4, <2>1, <2>2, <2>3, <2>4, <2>5 DEF Level2Step
<1>5. CASE ForceEnds
  BY <1>5 DEF ForceEnds, Moves
<1>6. CASE ConvergenceEnds
  <2>1. conv = "end" /\ UNCHANGED <<controlVars, taskVars, cancelling>>
    BY <1>6 DEF ConvergenceEnds
  <2>2. tts' = tts \/ (tts' = "ready" /\ tts \in {"faulted", "destroyed"})
    BY <1>6 DEF ConvergenceEnds, Recovered, Rebuildable
  <2>3. QED
    BY <2>1, <2>2 DEF Moves, Touches, Rebuilt
<1>7. QED
  BY <1>3, <1>4, <1>5, <1>6 DEF Convergence

\* And so does every other step.
LEMMA NextMoves ==
    ASSUME IInv, [Next]_vars
    PROVE  Moves
<1>1. CASE Child
  BY <1>1 DEF Child, Moves
<1>2. CASE Body
  <2>1. CASE BodyEnds \/ BodyExpires \/ BodyReaps
    BY <2>1 DEF BodyEnds, BodyExpires, BodyReaps, Moves
  <2>2. CASE BodyRaises
    BY <2>2, CancelsMoves DEF BodyRaises
  <2>3. QED
    BY <1>2, <2>1, <2>2 DEF Body
<1>3. CASE Runner
  BY <1>3 DEF Runner, Moves
<1>4. CASE Action
  BY <1>4 DEF Action, SpeakStarts, SpeakEnds, Moves, Touches
<1>5. CASE StartTurn \/ Press \/ Handler
  BY <1>5 DEF StartTurn, Press, Handler, Moves
<1>6. CASE UNCHANGED vars
  BY <1>6 DEF Moves
<1>7. QED
  BY <1>1, <1>2, <1>3, <1>4, <1>5, <1>6, OperationMoves, ConvergenceMoves DEF Next

\* The control, its task and the child keep their part of the invariant.
LEMMA StreamKept ==
    ASSUME IInv, [Next]_vars
    PROVE  StreamTypeOK' /\ Flow' /\ Limits' /\ Endgame'
<1>1. Stream /\ Moves
  BY NextMoves DEF IInv, Stream, TypeOK
<1>2. CASE UNCHANGED streamVars
  BY <1>1, <1>2 DEF Stream, StreamTypeOK, Flow, Limits, Endgame
<1>3. CASE ~UNCHANGED streamVars
  <2>1. Stream'
    BY <1>1, <1>3, OpenKeeps, FeedKeeps, FinishKeeps, ClosesKeep, TouchesKeep, RunnerKeeps DEF Moves, Opens
  <2>2. QED
    BY <2>1 DEF Stream
<1>4. QED
  BY <1>2, <1>3

-----------------------------------------------------------------------------
(***************************************************************************)
(* Types.                                                                  *)
(***************************************************************************)
\* What a step does to the frames, the text it holds and the inbox.
LEMMA ResponsesTyped ==
    ASSUME IInv, [Next]_vars
    PROVE  responses' \in Seq({"safe"} \cup Terminals)
<1> DEFINE R == {"safe"} \cup Terminals
<1>1. /\ responses \in Seq(R) /\ <<>> \in Seq(R) /\ <<"eof">> \in Seq(R)
      /\ \A r \in R : Append(responses, r) \in Seq(R)
      /\ responses # <<>> => Tail(responses) \in Seq(R)
  <2>1. responses \in Seq(R) /\ "eof" \in R
    BY DEF IInv, TypeOK, Terminals
  <2> HIDE DEF R
  <2>2. QED
    BY <2>1
<1>2. \/ responses' \in {responses, <<>>, <<"eof">>}
      \/ responses # <<>> /\ responses' = Tail(responses)
      \/ \E r \in R : responses' = Append(responses, r)
  <2>1. CASE Child
    BY <2>1 DEF Child, ChildReleases, ChildEnds, ChildDies, Destroyed
  <2>2. CASE Operation
    BY <2>2 DEF Operation, OpBegins, OpTakesFragment, OpFeeds, OpRefused, OpTakesTerminal, OpExpires,
       OpFinishes, OpCancels, OpSilences, OpReleases, Destroyed
  <2>3. CASE Body \/ Runner \/ Action \/ StartTurn \/ Press \/ Handler
    BY <2>3 DEF Body, BodyEnds, BodyExpires, BodyRaises, BodyReaps, CancelsOperation, Runner, Action,
       StartTurn, Press, Handler
  <2>4. CASE Convergence
    BY <2>4 DEF Convergence, Level1Step, Level2Step, ForceLLM, ForceSpeak, ForceControl, ForceChild,
       ForceTask, ForceJoin, ForceEnds, ConvergenceEnds, Destroyed
  <2>5. QED
    BY <2>1, <2>2, <2>3, <2>4 DEF Next
<1> HIDE DEF R
<1>3. QED
  BY <1>1, <1>2 DEF R

\* The fragment held is one that the child has released.
LEMMA HeldTyped ==
    ASSUME IInv, [Next]_vars
    PROVE  held' \in Seq(Fragments)
<1>1. held \in Seq(Fragments) /\ <<>> \in Seq(Fragments)
  BY DEF IInv, TypeOK
<1>2. CASE OpTakesFragment
  <2>1. responses \in Seq({"safe"} \cup Terminals) /\ responses # <<>> /\ Orderly(responses)
        /\ responses[1] = "safe" /\ op = "generate" /\ "safe" \notin Terminals
    BY <1>2 DEF OpTakesFragment, IInv, TypeOK, Frames, Terminals
  <2>2. PICK k \in Nat : k = Len(responses) /\ k # 0
    BY <2>1
  <2>3. Safe(responses) \in 1 .. k
    BY <2>1, <2>2, SafeIs
  <2>4. Safe(responses) <= emitted /\ emitted \in 0 .. MaxFragments
    <3>1. Len(admitted) + Safe(responses) <= emitted /\ Len(admitted) \in Nat
      BY <2>1 DEF IInv, Texts, TypeOK, StreamTypeOK
    <3>2. QED
      BY <2>3, <3>1 DEF IInv, TypeOK
  <2>5. PICK f \in Int : f = emitted - Safe(responses)
    BY <2>3, <2>4
  <2>6. f \in Fragments
    BY <2>3, <2>4, <2>5, ControlAssumption DEF Fragments
  <2>7. held' = <<f>>
    BY <1>2, <2>5 DEF OpTakesFragment, Safe
  <2>8. QED
    BY <2>6, <2>7
<1>3. CASE OpTakesTerminal
  BY <1>1, <1>3, TerminalIs DEF IInv
<1>4. CASE ~OpTakesFragment /\ ~OpTakesTerminal
  <2>1. held' \in {held, <<>>}
    <3>1. CASE Child \/ Runner \/ Action \/ StartTurn \/ Press \/ Handler
      BY <3>1 DEF Child, Runner, Action, StartTurn, Press, Handler
    <3>2. CASE Operation
      BY <1>4, <3>2 DEF Operation, OpBegins, OpFeeds, OpRefused, OpExpires,
         OpFinishes, OpCancels, OpSilences, OpReleases
    <3>3. CASE Body
      BY <3>3 DEF Body, BodyEnds, BodyExpires, BodyRaises, BodyReaps, CancelsOperation
    <3>4. CASE Convergence
      BY <3>4 DEF Convergence, Level1Step, Level2Step, AbortReasoner, AbortSpeak, SilenceSpeech, JoinSpeech,
         JoinReasoner, JoinSpeak, Timeout, CancelsControl, CancelsOperation, Releases, ForceLLM, ForceSpeak,
         ForceControl, ForceChild, ForceTask, ForceJoin, ForceEnds, ConvergenceEnds
    <3>5. QED
      BY <3>1, <3>2, <3>3, <3>4 DEF Next
  <2>2. QED
    BY <1>1, <2>1
<1>5. QED
  BY <1>2, <1>3, <1>4

\* Notices are appended, and taken from the head.
LEMMA InboxTyped ==
    ASSUME IInv, [Next]_vars
    PROVE  inbox' \in Seq(Items)
<1>1. /\ inbox \in Seq(Items)
      /\ \A i \in Items : Append(inbox, i) \in Seq(Items) /\ inbox \o <<i>> \in Seq(Items)
      /\ \A i, j \in Items : inbox \o <<i>> \o <<j>> \in Seq(Items)
      /\ inbox \o <<>> = inbox
      /\ inbox # <<>> => Tail(inbox) \in Seq(Items)
  <2>1. inbox \in Seq(Items)
    BY DEF IInv, TypeOK
  <2>2. QED
    BY <2>1
<1>2. Faults \subseteq Items /\ {"press", "reasoned", "spoken"} \subseteq Items
  BY DEF Items
<1>3. \/ inbox' = inbox
      \/ \E i \in Items : inbox' = Append(inbox, i) \/ inbox' = inbox \o <<>> \o <<i>>
      \/ \E i, j \in Items : inbox' = inbox \o <<i>> \o <<j>>
      \/ inbox # <<>> /\ inbox' = Tail(inbox)
  <2>1. CASE Child \/ Operation \/ StartTurn
    BY <2>1 DEF Child, Operation, StartTurn
  <2>2. CASE Runner
    BY <1>2, <2>2 DEF Runner, FaultOf, Faults
  <2>3. CASE Body
    BY <1>2, <2>3 DEF Body, BodyEnds, BodyExpires, BodyRaises, BodyReaps, Put, Faults
  <2>4. CASE Action
    BY <1>2, <2>4 DEF Action, SpeakStarts, SpeakEnds, Put
  <2>5. CASE Press
    BY <1>2, <2>5 DEF Press, Put
  <2>6. CASE Handler
    BY <2>6 DEF Handler, HandlePress, HandleError, HandleReasoned, HandleSpoken, Receives
  <2>7. CASE Convergence
    BY <2>7 DEF Convergence, Level1Step, Level2Step, ForceEnds, ConvergenceEnds
  <2>8. QED
    BY <2>1, <2>2, <2>3, <2>4, <2>5, <2>6, <2>7 DEF Next
<1>4. QED
  <2>1. CASE inbox' = inbox \/ \E i \in Items : inbox' = Append(inbox, i)
    BY <1>1, <2>1
  <2>2. CASE \E i \in Items : inbox' = inbox \o <<>> \o <<i>>
    BY <1>1, <2>2
  <2>3. CASE \E i, j \in Items : inbox' = inbox \o <<i>> \o <<j>>
    BY <1>1, <2>3
  <2>4. QED
    BY <1>1, <1>3, <2>1, <2>2, <2>3

\* The rest of the state, without the control, the sequences and the flags.
Rest ==
    /\ turn \in 0 .. Turns /\ owner \in 0 .. Turns
    /\ llm \in {"ready", "generating", "destroyed"}
    /\ emitted \in 0 .. MaxFragments
    /\ op \in OpSteps /\ after \in Outcomes
    /\ body \in {"off", "await", "abort", "reap"} /\ thought \in Outcomes
    /\ speak \in {"off", "created", "waiting"} /\ spoke \in {"none", "ok", "silent", "tts", "raw"}
    /\ phase \in {"rest", "think", "action", "converge", "settle", "dead"}
    /\ record \in {"none", "reasoner", "speak"}
    /\ declared \subseteq Keys
    /\ conv \in {"off", "end"} \cup Level1 \cup Level2
    /\ target \in {"none", "reasoner", "speak"} /\ report \subseteq Keys

Flags ==
    asked \in BOOLEAN /\ expired \in BOOLEAN /\ cancelled \in BOOLEAN /\ error \in BOOLEAN

\* CancelledError leaves an operation somewhere.
LEMMA StopsTyped ==
    ASSUME Rest, StopsOperation
    PROVE  op' \in OpSteps /\ after' \in Outcomes
  BY DEF StopsOperation, Goes, OverAs, Rest, OpSteps, Outcomes

\* The flags are Boolean.
LEMMA FlagsTyped ==
    ASSUME Flags, [Next]_vars
    PROVE  Flags'
<1>1. CASE Child
  BY <1>1 DEF Child, ChildReleases, ChildEnds, ChildDies, Flags
<1>2. CASE Operation
  BY <1>2 DEF Operation, OpBegins, OpTakesFragment, OpFeeds, OpRefused, OpTakesTerminal, OpExpires,
       OpFinishes, OpCancels, OpSilences, OpReleases, Flags
<1>3. CASE Body
  BY <1>3 DEF Body, BodyEnds, BodyExpires, BodyRaises, BodyReaps, CancelsOperation, Flags
<1>4. CASE Runner \/ Action \/ StartTurn \/ Press
  BY <1>4 DEF Runner, Action, SpeakStarts, SpeakEnds, StartTurn, Press, Flags
<1>5. CASE Handler
  BY <1>5 DEF Handler, HandlePress, HandleError, HandleReasoned, HandleSpoken, Converges, Concludes, Flags
<1>6. CASE Convergence
  <2>1. CASE ConvergenceEnds
    BY <2>1 DEF ConvergenceEnds, Recovered, Flags
  <2>2. CASE Level1Step \/ Level2Step \/ ForceEnds
    BY <2>2 DEF Level1Step, Level2Step, ForceLLM, ForceSpeak, ForceControl, ForceChild,
       ForceTask, ForceJoin, ForceEnds, Flags
  <2>3. QED
    BY <1>6, <2>1, <2>2 DEF Convergence
<1>7. CASE UNCHANGED vars
  BY <1>7 DEF Flags
<1>8. QED
  BY <1>1, <1>2, <1>3, <1>4, <1>5, <1>6, <1>7 DEF Next

\* The rest keeps its types, action by action.
LEMMA RestTyped ==
    ASSUME IInv, Rest, [Next]_vars
    PROVE  Rest'
<1>0. turn \in Nat /\ Turns \in Nat /\ MaxFragments \in Nat /\ emitted \in Nat
  BY ControlAssumption, TurnsAssumption DEF Rest
<1>1. CASE Child
  BY <1>0, <1>1 DEF Child, ChildReleases, ChildEnds, ChildDies, Destroyed, Rest
<1>2. CASE Operation
  <2>1. UNCHANGED <<turn, bodyVars, speakVars, managerVars, convVars>>
    BY <1>2 DEF Operation
  <2>2. CASE OpTakesTerminal
    <3>1. llm' \in {"ready", "generating", "destroyed"} /\ emitted' = emitted
      BY <2>2 DEF OpTakesTerminal, Rest
    <3>2. owner' \in {owner, 0} /\ op' \in OpSteps /\ after' \in Outcomes
      BY <2>2, TerminalIs DEF IInv, Ending, FinishesSpeech, ClosesSpeech, FailsSpeech, CancelsSpeech,
         GoesOn, Goes, OverAs, OpSteps, Outcomes, Rest
    <3>3. QED
      BY <1>0, <2>1, <3>1, <3>2 DEF Rest
  <2>3. CASE OpFinishes
    BY <2>1, <2>3 DEF OpFinishes, FinishesSpeech, GoesOn, Goes, OverAs, OpSteps, Outcomes, Rest
  <2>4. CASE OpCancels
    BY <1>0, <2>1, <2>4 DEF OpCancels, CancelsSpeech, Goes, OverAs, OpSteps, Rest
  <2>5. CASE OpBegins \/ OpTakesFragment \/ OpFeeds \/ OpRefused \/ OpExpires \/ OpSilences \/ OpReleases
    <3>1. owner' \in 0 .. Turns /\ llm' \in {"ready", "generating", "destroyed"} /\ emitted' \in 0 .. MaxFragments
      BY <1>0, <2>5 DEF OpBegins, OpTakesFragment, OpFeeds, OpRefused, OpExpires, OpSilences, OpReleases,
         Destroyed, Rest
    <3>2. op' \in OpSteps /\ after' \in Outcomes
      BY <2>5 DEF OpBegins, OpTakesFragment, OpFeeds, OpRefused, OpExpires, OpSilences, OpReleases,
         GoesOn, Goes, OverAs, OpSteps, Outcomes, Rest
    <3>3. QED
      BY <2>1, <3>1, <3>2 DEF Rest
  <2>6. QED
    BY <1>2, <2>2, <2>3, <2>4, <2>5 DEF Operation
<1>3. CASE Body
  BY <1>3, StopsTyped DEF Body, BodyEnds, BodyExpires, BodyRaises, BodyReaps, CancelsOperation, Rest, Outcomes
<1>4. CASE Runner \/ Press
  BY <1>4 DEF Runner, Press, Rest
<1>5. CASE Action
  BY <1>0, <1>5 DEF Action, SpeakStarts, SpeakEnds, Rest
<1>6. CASE StartTurn
  BY <1>0, <1>6 DEF StartTurn, Rest, OpSteps, Outcomes
<1>7. CASE Handler
  BY <1>7 DEF Handler, HandlePress, HandleError, HandleReasoned, HandleSpoken, Converges, Concludes, Dies,
     FirstStep, Target, Faults, Keys, Level1, Level2, Rest
<1>8. CASE Convergence
  <2>1. CASE Level1Step
    BY <2>1, StopsTyped, TurnsAssumption DEF Level1Step, AbortReasoner, AbortSpeak, SilenceSpeech, JoinSpeech,
         JoinReasoner, JoinSpeak, Timeout, CancelsControl, CancelsOperation, Releases, Step, Rest, Level1, Level2
  <2>2. CASE Level2Step
    BY <2>2, StopsTyped, TurnsAssumption DEF Level2Step, ForceLLM, ForceSpeak, Destroyed, CancelsOperation, Releases,
         ForceControl, ForceChild, ForceTask, ForceJoin, Step, Rest, Level1, Level2, Keys
  <2>3. CASE ForceEnds
    BY <2>3 DEF ForceEnds, Checked, Dies, Step, Rest
  <2>4. CASE ConvergenceEnds
    BY <2>4 DEF ConvergenceEnds, Recovered, Dies, Rest
  <2>5. QED
    BY <1>8, <2>1, <2>2, <2>3, <2>4 DEF Convergence
<1>9. CASE UNCHANGED vars
  BY <1>9 DEF Rest
<1>10. QED
  BY <1>1, <1>2, <1>3, <1>4, <1>5, <1>6, <1>7, <1>8, <1>9 DEF Next

\* Together.
LEMMA TypesKept ==
    ASSUME IInv, [Next]_vars
    PROVE  TypeOK'
<1>1. Rest /\ Flags
  BY DEF IInv, TypeOK, Rest, Flags
<1>2. QED
  BY <1>1, RestTyped, FlagsTyped, ResponsesTyped, HeldTyped, InboxTyped, StreamKept DEF TypeOK, Rest, Flags

-----------------------------------------------------------------------------
(***************************************************************************)
(* The frames of the child and the text that the operation makes of them.  *)
(***************************************************************************)
AnyFrame == {"safe"} \cup Terminals

\* One more frame after fragments only.
LEMMA FrameAppend ==
    ASSUME NEW s \in Seq(AnyFrame), \A i \in DOMAIN s : s[i] = "safe", NEW r \in AnyFrame
    PROVE  /\ Append(s, r) \in Seq(AnyFrame) /\ Orderly(Append(s, r))
           /\ \A i \in DOMAIN Append(s, r) : Append(s, r)[i] \in {"safe", r}
           /\ Safe(Append(s, r)) = IF r = "safe" THEN Safe(s) + 1 ELSE Safe(s)
<1>1. PICK n \in Nat : n = Len(s) /\ DOMAIN s = 1 .. n /\ (s = <<>> <=> n = 0)
  OBVIOUS
<1>2. PICK t \in Seq(AnyFrame) : t = Append(s, r)
  BY AppendProperties
<1>3. Len(t) = n + 1 /\ DOMAIN t = 1 .. n + 1 /\ (\A i \in 1 .. n : t[i] = s[i]) /\ t[n + 1] = r /\ t # <<>>
  BY <1>1, <1>2, AppendProperties
<1>4. \A i \in 1 .. n : t[i] = "safe"
  BY <1>1, <1>3
<1>5. Orderly(t) /\ Orderly(s)
  BY <1>1, <1>3, <1>4 DEF Orderly
<1>6. \A i \in DOMAIN t : t[i] \in {"safe", r}
  <2>1. TAKE i \in DOMAIN t
  <2>2. i \in 1 .. n \/ i = n + 1
    BY <1>1, <1>3
  <2>3. QED
    BY <1>3, <1>4, <2>2
<1>7. Safe(s) = n
  BY <1>1, <1>5, SafeIs DEF AnyFrame
<1>8. Safe(t) = IF r = "safe" THEN n + 1 ELSE n
  BY <1>3, <1>5, SafeIs DEF AnyFrame
<1>9. QED
  BY <1>2, <1>5, <1>6, <1>7, <1>8

\* The frames without the first.
LEMMA FrameTail ==
    ASSUME NEW s \in Seq(AnyFrame), s # <<>>, Orderly(s)
    PROVE  /\ Tail(s) \in Seq(AnyFrame) /\ Orderly(Tail(s))
           /\ \A i \in DOMAIN Tail(s) : \E j \in DOMAIN s : Tail(s)[i] = s[j]
           /\ Head(s) = "safe" => Safe(Tail(s)) = Safe(s) - 1
<1>1. PICK n \in Nat : n = Len(s) /\ DOMAIN s = 1 .. n /\ n # 0
  OBVIOUS
<1>2. PICK t \in Seq(AnyFrame) : t = Tail(s)
  BY HeadTailProperties
<1>3. Len(t) = n - 1 /\ DOMAIN t = 1 .. n - 1 /\ \A i \in 1 .. n - 1 : t[i] = s[i + 1]
  <2>1. Len(t) = Len(s) - 1 /\ \A i \in 1 .. Len(t) : t[i] = s[i + 1]
    BY <1>2, HeadTailProperties
  <2>2. DOMAIN t = 1 .. Len(t)
    OBVIOUS
  <2>3. QED
    BY <1>1, <2>1, <2>2
<1>4. \A i \in 1 .. n - 1 : s[i] = "safe"
  BY <1>1 DEF Orderly
<1>5. Orderly(t)
  <2>1. ASSUME NEW i \in 1 .. Len(t) - 1 PROVE t[i] = "safe"
    <3>1. i \in 1 .. n - 1 /\ i + 1 \in 1 .. n - 1
      BY <1>1, <1>3
    <3>2. QED
      BY <1>3, <1>4, <3>1
  <2>2. QED
    BY <2>1 DEF Orderly
<1>6. \A i \in DOMAIN t : \E j \in DOMAIN s : t[i] = s[j]
  <2>1. TAKE i \in DOMAIN t
  <2>2. i \in 1 .. n - 1 /\ i + 1 \in DOMAIN s
    BY <1>1, <1>3
  <2>3. QED
    BY <1>3, <2>2
<1>7. ASSUME Head(s) = "safe" PROVE Safe(t) = Safe(s) - 1
  <2>1. Safe(s) = IF s[n] = "safe" THEN n ELSE n - 1
    BY <1>1, SafeIs DEF AnyFrame
  <2>2. CASE n = 1
    <3>1. s[1] = "safe" /\ t = <<>>
      BY <1>1, <1>3, <1>7, <2>2
    <3>2. Safe(t) = 0
      BY <1>5, <3>1, SafeIs DEF AnyFrame
    <3>3. QED
      BY <2>1, <2>2, <3>1, <3>2
  <2>3. CASE n # 1
    <3>1. n - 1 \in Nat /\ n - 1 # 0 /\ n - 1 \in 1 .. n - 1 /\ t # <<>>
      BY <1>1, <1>3, <2>3
    <3>2. t[Len(t)] = s[n]
      <4>1. t[n - 1] = s[(n - 1) + 1] /\ (n - 1) + 1 = n
        BY <1>3, <3>1
      <4>2. QED
        BY <1>3, <4>1
    <3>3. Safe(t) = IF s[n] = "safe" THEN n - 1 ELSE (n - 1) - 1
      BY <1>3, <1>5, <3>1, <3>2, SafeIs DEF AnyFrame
    <3>4. QED
      BY <2>1, <3>3
  <2>4. QED
    BY <2>2, <2>3
<1>8. QED
  BY <1>2, <1>5, <1>6, <1>7

\* The counts are numbers.
LEMMA SafeTyped ==
    ASSUME NEW s \in Seq(AnyFrame), Orderly(s)
    PROVE  Safe(s) \in Nat
<1>1. PICK n \in Nat : n = Len(s) /\ (s = <<>> <=> n = 0)
  OBVIOUS
<1>2. Safe(s) = IF n = 0 THEN 0 ELSE IF s[n] = "safe" THEN n ELSE n - 1
  BY <1>1, SafeIs DEF AnyFrame
<1>3. QED
  BY <1>2

\* The frames stay in order, and the last one fits what was released.
LEMMA BoundsKept ==
    ASSUME IInv, [Next]_vars
    PROVE  Orderly(responses') /\ (\A i \in DOMAIN responses' : /\ responses'[i] = "more" => emitted' < MaxFragments
                                                                /\ responses'[i] = "text" => emitted' > 0)
<1>1. PICK s \in Seq(AnyFrame) : s = responses /\ Orderly(s)
  BY DEF IInv, TypeOK, Frames, AnyFrame
<1>2. \A i \in DOMAIN s : /\ s[i] = "more" => emitted < MaxFragments
                          /\ s[i] = "text" => emitted > 0
  BY <1>1 DEF IInv, Frames
<1>3. CASE responses' \in {<<>>, <<"eof">>}
  <2>1. Orderly(<<>>) /\ Orderly(<<"eof">>)
    BY DEF Orderly
  <2>2. QED
    BY <1>3, <2>1
<1>4. CASE responses' = responses /\ emitted' = emitted
  BY <1>1, <1>2, <1>4
<1>5. CASE s # <<>> /\ responses' = Tail(s) /\ emitted' = emitted
  <2>1. PICK t \in Seq(AnyFrame) : t = Tail(s) /\ Orderly(t) /\ \A i \in DOMAIN t : \E j \in DOMAIN s : t[i] = s[j]
    BY <1>1, <1>5, FrameTail
  <2>2. QED
    BY <1>2, <1>5, <2>1
<1>6. CASE ChildReleases \/ ChildEnds
  <2>1. \A i \in DOMAIN s : s[i] = "safe"
    BY <1>1, <1>6 DEF ChildReleases, ChildEnds, Released
  <2>2. PICK r \in AnyFrame : /\ responses' = Append(s, r)
                              /\ r # "safe" => emitted' = emitted
                              /\ r = "more" => emitted < MaxFragments
                              /\ r = "text" => emitted > 0
    <3>1. CASE ChildReleases
      <4>1. responses' = Append(s, "safe") /\ "safe" \in AnyFrame
        BY <1>1, <3>1 DEF ChildReleases, AnyFrame
      <4>2. QED
        BY <4>1
    <3>2. CASE ChildEnds
      <4>1. PICK r \in Terminals \ {"eof"} : /\ r = "text" => emitted > 0
                                             /\ r = "more" => emitted < MaxFragments
                                             /\ responses' = Append(s, r)
        BY <1>1, <3>2 DEF ChildEnds
      <4>2. emitted' = emitted
        BY <3>2 DEF ChildEnds
      <4>3. QED
        BY <4>1, <4>2 DEF AnyFrame
    <3>3. QED
      BY <1>6, <3>1, <3>2
  <2>3. PICK t \in Seq(AnyFrame) : t = Append(s, r) /\ Orderly(t) /\ \A i \in DOMAIN t : t[i] \in {"safe", r}
    BY <2>1, FrameAppend
  <2>4. QED
    BY <2>2, <2>3
<1>7. \/ responses' \in {<<>>, <<"eof">>} \/ (responses' = responses /\ emitted' = emitted)
      \/ responses # <<>> /\ responses' = Tail(responses) /\ emitted' = emitted
      \/ ChildReleases \/ ChildEnds
  <2>1. CASE Child
    BY <2>1 DEF Child, ChildDies, Destroyed
  <2>2. CASE Operation
    BY <2>2 DEF Operation, OpBegins, OpTakesFragment, OpFeeds, OpRefused, OpTakesTerminal, OpExpires,
       OpFinishes, OpCancels, OpSilences, OpReleases, Destroyed
  <2>3. CASE Body \/ Runner \/ Action \/ StartTurn \/ Press \/ Handler
    BY <2>3 DEF Body, BodyEnds, BodyExpires, BodyRaises, BodyReaps, CancelsOperation, Runner, Action,
       StartTurn, Press, Handler
  <2>4. CASE Convergence
    BY <2>4 DEF Convergence, Level1Step, Level2Step, ForceLLM, ForceSpeak, ForceControl, ForceChild,
       ForceTask, ForceJoin, ForceEnds, ConvergenceEnds, Destroyed
  <2>5. QED
    BY <2>1, <2>2, <2>3, <2>4 DEF Next
<1>8. QED
  BY <1>1, <1>3, <1>4, <1>5, <1>6, <1>7

-----------------------------------------------------------------------------
(***************************************************************************)
(* Where the reasoner, its child and the convergence stand to each other.  *)
(***************************************************************************)
LEMMA StopsIs ==
    ASSUME StopsOperation
    PROVE  /\ op' \in {"cancel", "off", "over"}
           /\ op' = "cancel" <=> op \in {"generate", "feed", "cancel"}
           /\ op' = "off" <=> op = "off"
           /\ op \in {"off", "over"} => op' = op /\ after' = after
           /\ op \notin {"off", "over"} => after' = "silent"
  BY DEF StopsOperation, Goes, OverAs

\* A convergence that has come to the reasoner's control no longer meets its child.
LEMMA Standing ==
    ASSUME IInv
    PROVE  /\ target = "speak" => body = "off" /\ record = "speak"
           /\ body = "off" => op \in {"off", "over"} /\ llm # "generating"
           /\ conv \notin {"off", "llm_abort", "force_llm"} => llm # "generating"
<1>1. target = "speak" => body = "off" /\ record = "speak"
  BY DEF IInv, Converging, Record
<1>2. body = "off" => op \in {"off", "over"} /\ llm # "generating"
  BY DEF IInv, Record, Frames
<1>3. conv \notin {"off", "llm_abort", "force_llm"} => llm # "generating"
  <2>1. HAVE conv \notin {"off", "llm_abort", "force_llm"}
  <2>2. conv = "end" => body = "off"
    BY DEF IInv, Converging
  <2>3. conv # "end" => target \in {"reasoner", "speak"}
    BY <2>1 DEF IInv, Converging, TypeOK, Level1, Level2
  <2>4. target = "reasoner" /\ conv # "end" => llm # "generating"
    BY <2>1 DEF IInv, Converging
  <2>5. QED
    BY <1>1, <1>2, <2>2, <2>3, <2>4
<1>4. QED
  BY <1>1, <1>2, <1>3

\* The task never cancels the control.
LEMMA RunnerState ==
    ASSUME RunnerStep
    PROVE  /\ state' \in {state, "FAILED", "COMPLETED"}
           /\ state' = "COMPLETED" => state = "COMPLETED" \/ runner = "adopt"
           /\ state \in Closed /\ runner # "adopt" => state' = state
  BY DEF RunnerStep, RunnerStops, RunnerTakes, RunnerSynthesizes, RunnerHears, RunnerRejected,
     RunnerLosesTTS, RunnerPlays, RunnerDrained, RunnerCompletes, Raises, Ends

\* The child generates only for an operation that waits for it or feeds.
LEMMA FramesKept ==
    ASSUME IInv, [Next]_vars
    PROVE  Frames'
<1>0. /\ op \in {"generate", "feed"} => llm = "generating" \/ responses = <<"eof">>
      /\ llm = "generating" => op \in {"generate", "feed"} /\ state # "CANCELLED"
  BY DEF IInv, Frames
<1> DEFINE Generates == /\ op \in {"generate", "feed"} => llm = "generating" \/ responses = <<"eof">>
                        /\ llm = "generating" => op \in {"generate", "feed"} /\ state # "CANCELLED"
<1>1. ASSUME Child PROVE Generates'
  BY <1>0, <1>1 DEF Child, ChildReleases, ChildEnds, ChildDies, Destroyed
<1>2. ASSUME Operation PROVE Generates'
  <2>1. CASE OpBegins
    BY <1>0, <2>1 DEF OpBegins, Open, GoesOn, Goes, OverAs
  <2>2. CASE OpTakesFragment
    <3>1. responses # <<"eof">>
      BY <2>2 DEF OpTakesFragment
    <3>2. QED
      BY <1>0, <2>2, <3>1 DEF OpTakesFragment, GoesOn
  <2>3. CASE OpFeeds
    BY <1>0, <2>3 DEF OpFeeds, Feed, GoesOn
  <2>4. CASE OpRefused
    BY <2>4 DEF OpRefused, Destroyed, Goes
  <2>5. CASE OpTakesTerminal
    <3>1. llm' # "generating"
      BY <2>5 DEF OpTakesTerminal
    <3>2. op' \notin {"generate", "feed"}
      BY <2>5, TerminalIs DEF IInv, Ending, FinishesSpeech, ClosesSpeech, FailsSpeech, CancelsSpeech,
         GoesOn, Goes, OverAs
    <3>3. QED
      BY <3>1, <3>2
  <2>6. CASE OpExpires
    BY <1>0, <2>6 DEF OpExpires, Destroyed, Goes, GoesOn
  <2>7. CASE OpFinishes
    BY <1>0, <2>7 DEF OpFinishes, FinishesSpeech, GoesOn, Goes, OverAs
  <2>8. CASE OpCancels
    BY <1>0, <2>8 DEF OpCancels, CancelsSpeech, Goes, OverAs
  <2>9. CASE OpSilences \/ OpReleases
    BY <1>0, <2>9 DEF OpSilences, OpReleases, GoesOn
  <2>10. QED
    BY <1>2, <2>1, <2>2, <2>3, <2>4, <2>5, <2>6, <2>7, <2>8, <2>9 DEF Operation
<1>3. ASSUME Body PROVE Generates'
  <2>1. CASE BodyEnds \/ BodyExpires \/ BodyReaps
    BY <1>0, <2>1 DEF BodyEnds, BodyExpires, BodyReaps
  <2>2. CASE BodyRaises
    BY <1>0, <2>2, StopsIs DEF BodyRaises, CancelsOperation
  <2>3. QED
    BY <1>3, <2>1, <2>2 DEF Body
<1>4. ASSUME Runner PROVE Generates'
  BY <1>0, <1>4, RunnerState DEF Runner
<1>5. ASSUME Action \/ StartTurn \/ Press \/ Handler PROVE Generates'
  BY <1>0, <1>5 DEF Action, SpeakStarts, SpeakEnds, Adopt, StartTurn, Press, Handler
<1>6. ASSUME Convergence PROVE Generates'
  <2>0. /\ target = "speak" => llm # "generating" /\ op \in {"off", "over"}
        /\ conv \notin {"off", "llm_abort", "force_llm"} => llm # "generating"
    BY Standing
  <2>1. CASE Level1Step
    <3>1. llm # "generating" \/ UNCHANGED <<op, state>>
      BY <2>0, <2>1 DEF Level1Step, AbortReasoner, AbortSpeak, SilenceSpeech, CancelKill, JoinSpeech, JoinReasoner,
         JoinSpeak, Timeout
    <3>2. UNCHANGED <<llm, responses>>
      BY <2>1 DEF Level1Step
    <3>3. op' = op \/ op' \notin {"generate", "feed"}
      BY <2>1, StopsIs DEF Level1Step, AbortReasoner, AbortSpeak, SilenceSpeech, JoinSpeech, JoinReasoner,
         JoinSpeak, Timeout, CancelsControl, CancelsOperation, Releases
    <3>4. QED
      BY <1>0, <3>1, <3>2, <3>3
  <2>2. CASE Level2Step
    <3>1. llm' # "generating" \/ UNCHANGED <<op, state, llm>>
      BY <2>0, <2>2 DEF Level2Step, ForceLLM, ForceSpeak, ForceControl, ForceChild, ForceTTS, ForceTask, ForceKill,
         ForceJoin, Destroyed
    <3>2. responses' = <<"eof">> \/ UNCHANGED <<llm, responses>>
      BY <2>2 DEF Level2Step, ForceLLM, ForceSpeak, ForceControl, ForceChild, ForceTask, ForceJoin, Destroyed
    <3>3. op' = op \/ op' \notin {"generate", "feed"}
      BY <2>2, StopsIs DEF Level2Step, ForceLLM, ForceSpeak, ForceControl, ForceChild, ForceTask, ForceJoin,
         CancelsOperation, Releases
    <3>4. QED
      BY <1>0, <3>1, <3>2, <3>3
  <2>3. CASE ForceEnds
    BY <1>0, <2>3 DEF ForceEnds
  <2>4. CASE ConvergenceEnds
    BY <2>4, Standing DEF ConvergenceEnds, Recovered, IInv, Converging
  <2>5. QED
    BY <1>6, <2>1, <2>2, <2>3, <2>4 DEF Convergence
<1>7. Generates'
  <2>1. ASSUME UNCHANGED vars PROVE Generates'
    BY <1>0, <2>1
  <2>2. QED
    BY <1>1, <1>2, <1>3, <1>4, <1>5, <1>6, <2>1 DEF Next
<1>8. QED
  BY <1>7, BoundsKept DEF Frames

-----------------------------------------------------------------------------
(***************************************************************************)
(* The fragments that were released, those fed, and the whole text.        *)
(***************************************************************************)
\* The numbers that Texts compares.
LEMMA Counts ==
    ASSUME TypeOK, Frames
    PROVE  Safe(responses) \in Nat /\ Len(admitted) \in Nat /\ emitted \in Nat /\ Safe(<<"eof">>) = 0 /\ Safe(<<>>) = 0
<1>1. /\ responses \in Seq(AnyFrame) /\ Orderly(responses)
      /\ <<>> \in Seq(AnyFrame) /\ <<"eof">> \in Seq(AnyFrame)
  BY DEF TypeOK, Frames, AnyFrame, Terminals
<1>2. Orderly(<<>>) /\ Orderly(<<"eof">>)
  BY DEF Orderly
<1>3. Safe(<<"eof">>) = 0 /\ Safe(<<>>) = 0
  <2>1. PICK e \in Seq(AnyFrame) : e = <<"eof">>
    BY <1>1
  <2>2. e # <<>> /\ Len(e) = 1 /\ e[1] # "safe" /\ Orderly(e)
    BY <1>2, <2>1
  <2>3. Safe(e) = Len(e) - 1
    <3>1. e[Len(e)] # "safe"
      BY <2>2
    <3>2. Safe(e) = IF e = <<>> THEN 0 ELSE IF e[Len(e)] = "safe" THEN Len(e) ELSE Len(e) - 1
      BY <2>2, SafeIs DEF AnyFrame
    <3>3. QED
      BY <2>2, <3>1, <3>2
  <2>4. PICK n \in Seq(AnyFrame) : n = <<>>
    BY <1>1
  <2>5. Safe(n) = 0
    <3>1. Safe(n) = IF n = <<>> THEN 0 ELSE IF n[Len(n)] = "safe" THEN Len(n) ELSE Len(n) - 1
      BY <1>2, <2>4, SafeIs DEF AnyFrame
    <3>2. QED
      BY <2>4, <3>1
  <2>6. QED
    BY <2>1, <2>2, <2>3, <2>4, <2>5
<1>4. Len(admitted) \in Nat /\ emitted \in Nat
  BY ControlAssumption DEF TypeOK, StreamTypeOK
<1>5. Safe(responses) \in Nat
  BY <1>1, SafeTyped
<1>6. QED
  BY <1>3, <1>4, <1>5

\* A step that moves no text: it may at most take the operation elsewhere.
LEMMA TextsStay ==
    ASSUME IInv, UNCHANGED <<admitted, emitted, held>>, responses' \in {responses, <<"eof">>},
           op' = op \/ op' \notin {"generate", "feed", "finish"}
    PROVE  Texts'
<1>1. Safe(responses) \in Nat /\ Len(admitted) \in Nat /\ emitted \in Nat /\ Safe(<<"eof">>) = 0
  BY Counts DEF IInv
<1>2. PICK r \in {responses, <<"eof">>} : r = responses'
  OBVIOUS
<1>3. Safe(r) \in Nat /\ Safe(r) <= Safe(responses)
  BY <1>1, <1>2
<1>4. op = "feed" => held[1] \in Nat
  <2>1. HAVE op = "feed"
  <2>2. PICK h \in Seq(Fragments) : h = held /\ Len(h) = 1
    BY <2>1 DEF IInv, Texts, TypeOK
  <2>3. h[1] \in Fragments
    BY <2>2
  <2>4. QED
    BY <2>2, <2>3, ControlAssumption DEF Fragments
<1>5. op' = "generate" => Len(admitted') + Safe(r) <= emitted'
  BY <1>1, <1>3 DEF IInv, Texts
<1>6. op' = "feed" => /\ Len(held') = 1 /\ Len(admitted') <= held'[1]
                      /\ held'[1] + 1 + Safe(r) <= emitted'
  BY <1>1, <1>3, <1>4 DEF IInv, Texts
<1>7. op' = "finish" => held' = Text(Len(held')) /\ Len(admitted') <= Len(held') /\ Len(held') > 0
  BY DEF IInv, Texts
<1>8. QED
  BY <1>2, <1>5, <1>6, <1>7 DEF Texts

\* A text that waits to be finished.
LEMMA FinishesText ==
    ASSUME TypeOK, NEW text \in Seq(Fragments), Continues(text), FinishesSpeech(text), held' = text
    PROVE  Texts'
<1>1. op' \in {"finish", "over"}
  BY DEF FinishesSpeech, OverAs, Goes, GoesOn
<1>2. PICK m \in Nat, n \in Nat : m = Len(admitted) /\ n = Len(text) /\ m <= n /\ n > 0
  BY ControlAssumption DEF Continues, TypeOK, StreamTypeOK
<1>3. CASE UNCHANGED admitted
  BY <1>1, <1>2, <1>3 DEF Texts, Continues
<1>4. CASE Len(Remainder(text)) > 1 /\ Feed(Len(admitted))
  <2>1. m # n
    <3>1. SUFFICES ASSUME m = n PROVE FALSE
      OBVIOUS
    <3>2. SubSeq(text, m + 1, n) = <<>>
      BY <1>2, <3>1, SubSeqEmpty
    <3>3. Remainder(text) = <<>>
      BY <1>2, <3>2 DEF Remainder
    <3>4. QED
      BY <1>4, <3>3
  <2>2. PICK a \in Seq(Fragments) : a = admitted /\ Len(a) = m
    BY <1>2 DEF TypeOK, StreamTypeOK
  <2>3. Len(Append(a, m)) = m + 1 /\ admitted' = Append(a, m)
    BY <1>2, <1>4, <2>2 DEF Feed
  <2>4. PICK k \in Nat : k = Len(admitted') /\ k <= n
    BY <1>2, <2>1, <2>3
  <2>5. QED
    BY <1>1, <1>2, <2>4 DEF Texts, Continues
<1>5. CASE Finish(text)
  BY <1>1, <1>5 DEF Texts, FinishesSpeech, Finish, OverAs, Goes, GoesOn
<1>6. QED
  BY <1>3, <1>4, <1>5 DEF FinishesSpeech

\* Every fragment is fed in its turn.
LEMMA TextsKept ==
    ASSUME IInv, [Next]_vars
    PROVE  Texts'
<1>0. /\ Safe(responses) \in Nat /\ Len(admitted) \in Nat /\ emitted \in Nat
      /\ Safe(<<"eof">>) = 0 /\ Safe(<<>>) = 0
      /\ TypeOK /\ Texts /\ Frames
  BY Counts DEF IInv
<1>1. PICK s \in Seq(AnyFrame) : s = responses /\ Orderly(s)
  BY <1>0 DEF TypeOK, Frames, AnyFrame
<1>2. op = "feed" => /\ held[1] \in Nat /\ Len(held) = 1 /\ Len(admitted) <= held[1]
                     /\ held[1] + 1 + Safe(s) <= emitted
  <2>1. HAVE op = "feed"
  <2>2. PICK h \in Seq(Fragments) : h = held /\ Len(h) = 1
    BY <1>0, <2>1 DEF Texts, TypeOK
  <2>3. h[1] \in Fragments
    BY <2>2
  <2>4. QED
    BY <1>0, <1>1, <2>1, <2>2, <2>3, ControlAssumption DEF Fragments, Texts
<1>3. CASE Child
  <2>1. UNCHANGED <<op, held, admitted>>
    BY <1>3 DEF Child
  <2>2. CASE ChildDies
    BY <2>1, <2>2, TextsStay DEF ChildDies, Destroyed
  <2>3. CASE ChildReleases \/ ChildEnds
    <3>1. \A i \in DOMAIN s : s[i] = "safe"
      BY <1>1, <2>3 DEF ChildReleases, ChildEnds, Released
    <3>2. PICK r \in AnyFrame : /\ responses' = Append(s, r)
                                /\ emitted' = IF r = "safe" THEN emitted + 1 ELSE emitted
      <4>1. CASE ChildReleases
        <5>1. responses' = Append(s, "safe") /\ "safe" \in AnyFrame /\ emitted' = emitted + 1
          BY <1>1, <4>1 DEF ChildReleases, AnyFrame
        <5>2. QED
          BY <5>1
      <4>2. CASE ChildEnds
        <5>1. PICK r \in Terminals \ {"eof"} : responses' = Append(s, r)
          BY <1>1, <4>2 DEF ChildEnds
        <5>2. r # "safe" /\ r \in AnyFrame /\ emitted' = emitted
          BY <4>2, <5>1 DEF ChildEnds, Terminals, AnyFrame
        <5>3. QED
          BY <5>1, <5>2
      <4>3. QED
        BY <2>3, <4>1, <4>2
    <3>3. PICK t \in Seq(AnyFrame) : t = responses' /\ Safe(t) = IF r = "safe" THEN Safe(s) + 1 ELSE Safe(s)
      BY <3>1, <3>2, FrameAppend
    <3>4. op' # "finish"
      BY <1>0, <2>1, <2>3 DEF ChildReleases, ChildEnds, Frames
    <3>5. op' = "generate" => Len(admitted') + Safe(t) <= emitted'
      BY <1>0, <1>1, <2>1, <3>2, <3>3 DEF Texts
    <3>6. op' = "feed" => Len(held') = 1 /\ Len(admitted') <= held'[1] /\ held'[1] + 1 + Safe(t) <= emitted'
      BY <1>0, <1>1, <1>2, <2>1, <3>2, <3>3
    <3>7. QED
      BY <3>3, <3>4, <3>5, <3>6 DEF Texts
  <2>4. QED
    BY <1>3, <2>2, <2>3 DEF Child
<1>4. CASE Operation
  <2>1. CASE OpBegins
    <3>1. CASE op' = "generate"
      <4>1. admitted' = <<>> /\ responses' = <<>> /\ emitted' = 0
        BY <2>1, <3>1 DEF OpBegins, Open, Goes, GoesOn, OverAs
      <4>2. Len(<<>>) = 0
        OBVIOUS
      <4>3. QED
        BY <1>0, <3>1, <4>1, <4>2 DEF Texts
    <3>2. CASE op' # "generate"
      BY <2>1, <3>2 DEF OpBegins, Goes, GoesOn, OverAs, Texts
    <3>3. QED
      BY <3>1, <3>2
  <2>2. CASE OpTakesFragment
    <3>1. PICK t \in Seq(AnyFrame) : t = responses' /\ Safe(t) = Safe(s) - 1
      BY <1>1, <2>2, FrameTail DEF OpTakesFragment
    <3>2. PICK f \in Int : f = emitted - Safe(s)
      BY <1>0, <1>1
    <3>3. held' = <<f>> /\ op' = "feed" /\ UNCHANGED <<admitted, emitted>>
      BY <1>1, <2>2, <3>2 DEF OpTakesFragment, Safe, GoesOn
    <3>4. Len(<<f>>) = 1 /\ <<f>>[1] = f
      OBVIOUS
    <3>5. Len(admitted) <= f /\ f + 1 + Safe(t) <= emitted
      BY <1>0, <1>1, <2>2, <3>1, <3>2 DEF OpTakesFragment, Texts
    <3>6. QED
      BY <3>1, <3>3, <3>4, <3>5 DEF Texts
  <2>3. CASE OpFeeds
    <3>1. PICK a \in Seq(Fragments) : a = admitted
      BY <1>0 DEF TypeOK, StreamTypeOK
    <3>2. held[1] = Len(a) /\ admitted' = Append(a, held[1]) /\ op' = "generate" /\ UNCHANGED <<responses, emitted>>
      BY <2>3, <3>1 DEF OpFeeds, Feed, GoesOn
    <3>3. Len(Append(a, held[1])) = Len(a) + 1
      OBVIOUS
    <3>4. Len(a) + 1 + Safe(s) <= emitted
      BY <1>2, <2>3, <3>1, <3>2 DEF OpFeeds
    <3>5. QED
      BY <1>1, <3>2, <3>3, <3>4 DEF Texts
  <2>4. CASE OpRefused
    BY <2>4 DEF OpRefused, Goes, Texts
  <2>5. CASE OpTakesTerminal
    <3>1. CASE Ending(Head(responses))
      BY <3>1 DEF Ending, ClosesSpeech, FailsSpeech, CancelsSpeech, Goes, OverAs, Texts
    <3>2. CASE ~Ending(Head(responses))
      BY <1>0, <2>5, <3>2, TerminalIs, FinishesText DEF IInv
    <3>3. QED
      BY <3>1, <3>2
  <2>6. CASE OpExpires
    <3>1. CASE op' = "generate"
      <4>1. UNCHANGED <<admitted, emitted, responses>>
        BY <2>6, <3>1 DEF OpExpires, Goes
      <4>2. Len(admitted) + Safe(s) <= emitted
        BY <1>0, <1>1, <1>2, <2>6 DEF OpExpires, Texts
      <4>3. QED
        BY <1>1, <3>1, <4>1, <4>2 DEF Texts
    <3>2. CASE op' # "generate"
      BY <2>6, <3>2 DEF OpExpires, Goes, GoesOn, Texts
    <3>3. QED
      BY <3>1, <3>2
  <2>7. CASE OpFinishes
    <3>1. PICK text \in Seq(Fragments) : text = held /\ held' = text
      BY <1>0, <2>7 DEF OpFinishes, TypeOK
    <3>2. Continues(held) /\ FinishesSpeech(held)
      BY <2>7, HeldContinues DEF IInv, OpFinishes
    <3>3. Continues(text) /\ FinishesSpeech(text)
      BY <3>1, <3>2 DEF FinishesSpeech, Finish, FinishWaits, Remainder, Full, Feed
    <3>4. QED
      BY <1>0, <3>1, <3>3, FinishesText
  <2>8. CASE OpCancels
    BY <2>8 DEF OpCancels, CancelsSpeech, Goes, OverAs, Texts
  <2>9. CASE OpSilences \/ OpReleases
    BY <2>9 DEF OpSilences, OpReleases, GoesOn, Texts
  <2>10. QED
    BY <1>4, <2>1, <2>2, <2>3, <2>4, <2>5, <2>6, <2>7, <2>8, <2>9 DEF Operation
<1>5. CASE StartTurn
  BY <1>5 DEF StartTurn, Texts
<1>6. CASE Body \/ Runner \/ Action \/ Press \/ Handler \/ Convergence \/ UNCHANGED vars
  <2>1. UNCHANGED <<emitted, held>>
    BY <1>6 DEF Body, BodyEnds, BodyExpires, BodyRaises, BodyReaps, CancelsOperation, Runner, Action, Press, Handler,
       Convergence, Level1Step, Level2Step, ForceEnds, ConvergenceEnds, AbortReasoner, AbortSpeak, SilenceSpeech,
       JoinSpeech, JoinReasoner, JoinSpeak, Timeout, CancelsControl, Releases, ForceLLM, ForceSpeak,
       ForceControl, ForceChild, ForceTask, ForceJoin
  <2>2. UNCHANGED admitted
    <3>1. CASE Body \/ Action \/ Press \/ Handler \/ UNCHANGED vars
      BY <3>1 DEF Body, BodyEnds, BodyExpires, BodyRaises, BodyReaps, CancelsOperation, Action, SpeakStarts,
         SpeakEnds, Adopt, Press, Handler
    <3>2. CASE Runner
      BY <3>2 DEF Runner, RunnerStep, RunnerStops, RunnerTakes, RunnerSynthesizes, RunnerHears, RunnerRejected,
         RunnerLosesTTS, RunnerPlays, RunnerDrained, RunnerCompletes, Raises
    <3>3. CASE Convergence
      BY <3>3 DEF Convergence, Level1Step, Level2Step, ForceEnds, ConvergenceEnds, AbortReasoner, AbortSpeak,
         SilenceSpeech, JoinSpeech, JoinReasoner, JoinSpeak, Timeout, CancelsControl, CancelsOperation, Releases,
         ForceLLM, ForceSpeak, ForceControl, ForceChild, ForceTask, ForceJoin, Cancel, CancelKill, ForceClose,
         ForceTTS, ForceKill, Drop
    <3>4. QED
      BY <1>6, <3>1, <3>2, <3>3
  <2>3. responses' \in {responses, <<"eof">>}
    BY <1>6 DEF Body, BodyEnds, BodyExpires, BodyRaises, BodyReaps, CancelsOperation, Runner, Action, Press, Handler,
       Convergence, Level1Step, Level2Step, ForceEnds, ConvergenceEnds, ForceLLM, ForceSpeak,
       ForceControl, ForceChild, ForceTask, ForceJoin, Destroyed
  <2>4. op' = op \/ op' \notin {"generate", "feed", "finish"}
    BY <1>6, StopsIs DEF Body, BodyEnds, BodyExpires, BodyRaises, BodyReaps, CancelsOperation, Runner, Action, Press,
       Handler, Convergence, Level1Step, Level2Step, ForceEnds, ConvergenceEnds, AbortReasoner, AbortSpeak,
       SilenceSpeech, JoinSpeech, JoinReasoner, JoinSpeak, Timeout, CancelsControl, Releases, ForceLLM, ForceSpeak,
       ForceControl, ForceChild, ForceTask, ForceJoin
  <2>5. QED
    BY <2>1, <2>2, <2>3, <2>4, TextsStay
<1>7. QED
  BY <1>3, <1>4, <1>5, <1>6 DEF Next

-----------------------------------------------------------------------------
(***************************************************************************)
(* The task, the TTS child and who stops them.                             *)
(***************************************************************************)
\* What no step but the opening of a control can do to them.
LEMMA MovesIs ==
    ASSUME IInv, Moves, ~Opens
    PROVE  /\ state' \in Going => state \in Going
           /\ runner \in Over => runner' = runner
           /\ runner' \in Over \cup {"dequeue"} \/ runner' = runner \/ RunnerStep
           /\ tts' = "busy" => tts = "busy" \/ (RunnerSynthesizes /\ runner' = "synthesize")
           /\ tts' = tts \/ tts' \notin {"ready", "busy"} \/ RunnerStep \/ Rebuilt
<1>0. /\ state \in ControlStates /\ runner \in RunnerSteps /\ tts \in TTSStates
      /\ state = "COMPLETED" => runner = "over"
      /\ runner = "adopt" => state # "OPEN"
  BY DEF IInv, TypeOK, StreamTypeOK, Endgame
<1>1. CASE UNCHANGED streamVars
  BY <1>1
<1>2. CASE \E f \in Fragments : Feed(f)
  BY <1>2 DEF Feed
<1>3. CASE \E text \in Seq(Fragments) : Continues(text) /\ Finish(text)
  BY <1>3 DEF Finish, Going
<1>4. CASE Closes
  BY <1>0, <1>4 DEF Closes, Cancel, Fail, CloseUnused, Forced, ForceClose, Drop, Kill, Going, Over
<1>5. CASE Touches
  BY <1>0, <1>5 DEF Touches, Adopt, CancelKill, Killed, Kill, ForceTTS, Rebuilt, Freed, Over
<1>6. CASE RunnerStep
  <2>1. runner \notin Over
    BY <1>6 DEF RunnerStep, RunnerStops, RunnerTakes, RunnerSynthesizes, RunnerHears, RunnerRejected,
       RunnerLosesTTS, RunnerPlays, RunnerDrained, RunnerCompletes, Over
  <2>2. tts' = "busy" => tts = "busy" \/ (RunnerSynthesizes /\ runner' = "synthesize")
    BY <1>6 DEF RunnerStep, RunnerStops, RunnerTakes, RunnerSynthesizes, RunnerHears, RunnerRejected,
       RunnerLosesTTS, RunnerPlays, RunnerDrained, RunnerCompletes
  <2>3. state' \in Going => state \in Going
    BY <1>6, RunnerState DEF Going
  <2>4. QED
    BY <1>6, <2>1, <2>2, <2>3
<1>7. QED
  BY <1>1, <1>2, <1>3, <1>4, <1>5, <1>6 DEF Moves

\* A control that a convergence still has to stop is not replaced.
LEMMA NotOpened ==
    ASSUME IInv, conv \notin {"off", "llm_abort"}
    PROVE  ~Opens
  BY DEF IInv, Converging, Opens

\* Where a forced stop goes on.
LEMMA ForceGoesOn ==
    ASSUME IInv, [Next]_vars, conv \in {"force_tts", "force_kill"}, conv' # conv
    PROVE  conv' = "force_kill" \/ runner' \in Over
<1>1. phase \in {"converge", "dead"}
  BY DEF IInv, Converging
<1>2. Convergence
  BY <1>1 DEF Next, Child, Operation, Body, Runner, Action, StartTurn, Press, Handler, HandlePress, HandleError,
     HandleReasoned, HandleSpoken, Receives
<1>3. CASE Level1Step
  BY <1>3 DEF Level1Step, AbortReasoner, AbortSpeak, SilenceSpeech, JoinSpeech, JoinReasoner, JoinSpeak, Timeout, Waits
<1>4. CASE Level2Step
  <2>1. CASE ForceChild
    BY <2>1 DEF ForceChild, Step
  <2>2. CASE ForceTask
    BY <2>2, KillIs DEF ForceTask, ForceKill, IInv, TypeOK
  <2>3. QED
    BY <1>4, <2>1, <2>2 DEF Level2Step, ForceLLM, ForceSpeak, ForceControl, ForceJoin
<1>5. CASE ForceEnds \/ ConvergenceEnds
  BY <1>5 DEF ForceEnds, ConvergenceEnds
<1>6. QED
  BY <1>2, <1>3, <1>4, <1>5 DEF Convergence

\* Nothing was admitted, so nothing is being spoken.
LEMMA NothingInFlight ==
    ASSUME TypeOK, acknowledged \o inflight \o pending = <<>>
    PROVE  inflight = <<>>
<1>1. PICK a \in Seq(Fragments), b \in Seq(Fragments), c \in Seq(Fragments) :
         a = acknowledged /\ b = inflight /\ c = pending
  BY DEF TypeOK, StreamTypeOK
<1>2. Len(a \o b) = Len(a) + Len(b) /\ Len((a \o b) \o c) = Len(a \o b) + Len(c)
  OBVIOUS
<1>3. Len((a \o b) \o c) = 0
  BY <1>1
<1>4. Len(b) = 0
  <2>1. Len(a) \in Nat /\ Len(b) \in Nat /\ Len(c) \in Nat
    OBVIOUS
  <2>2. QED
    BY <1>2, <1>3, <2>1
<1>5. QED
  BY <1>1, <1>4

\* Nothing but a forced stop closes a control whose task is about to speak.
LEMMA QuietKept ==
    ASSUME IInv, [Next]_vars
    PROVE  Quiet'
<1>1. Moves
  BY NextMoves
<1>2. SUFFICES ASSUME state' \in Closed, conv' \notin {"force_tts", "force_kill"}, runner' \in {"batch", "adopt"}
               PROVE  FALSE
  BY DEF Quiet
<1>3. CASE UNCHANGED streamVars \/ Touches
  <2>1. state \in Closed /\ runner \in {"batch", "adopt"}
    BY <1>2, <1>3 DEF Touches, Adopt, CancelKill, Killed, Kill, ForceTTS, Rebuilt, Freed
  <2>2. conv \in {"force_tts", "force_kill"}
    BY <2>1 DEF IInv, Quiet
  <2>3. QED
    BY <1>2, <2>2, ForceGoesOn DEF Over
<1>4. CASE Opens \/ (\E f \in Fragments : Feed(f)) \/ \E text \in Seq(Fragments) : Continues(text) /\ Finish(text)
  BY <1>2, <1>4 DEF Opens, Open, Feed, Finish, Closed
<1>5. CASE Closes
  <2>1. CASE Cancel
    BY <1>2, <2>1 DEF Cancel, Kill, IInv, Voice
  <2>2. CASE Fail
    BY <1>2, <2>2 DEF Fail, Kill
  <2>3. CASE CloseUnused
    <3>1. acknowledged \o inflight \o pending = <<>> /\ runner = runner'
      BY <2>3 DEF CloseUnused, IInv, Flow, Going
    <3>2. inflight = <<>>
      BY <3>1, NothingInFlight DEF IInv
    <3>3. QED
      BY <1>2, <2>3, <3>1, <3>2 DEF CloseUnused, IInv, Flow, Endgame
  <2>4. CASE Forced
    BY <1>2, <2>4 DEF Forced
  <2>5. QED
    BY <1>5, <2>1, <2>2, <2>3, <2>4 DEF Closes
<1>6. CASE RunnerStep
  BY <1>2, <1>6 DEF RunnerStep, RunnerStops, RunnerTakes, RunnerSynthesizes, RunnerHears, RunnerRejected,
     RunnerLosesTTS, RunnerPlays, RunnerDrained, RunnerCompletes, Raises, Ends, Closed
<1>7. QED
  BY <1>1, <1>3, <1>4, <1>5, <1>6 DEF Moves

\* A speech that is told to end while its answer is outstanding goes on until the child answers.
Muted == tts = "busy" /\ runner = "over" =>
            /\ state \in Closed
            /\ op \in {"fail_tts", "begin", "over"} /\ ~(op = "over" /\ after = "response")
Spoken == owner = 0 => runner \in Over /\ tts # "busy"

\* Where the control may be let go.
LEMMA EndedIsMute ==
    ASSUME IInv, state \in {"COMPLETED", "FAILED"}, op \notin {"fail_tts", "begin", "over"} \/ state = "COMPLETED"
    PROVE  runner \in Over /\ tts # "busy"
<1>1. runner \in Over
  BY DEF IInv, Endgame, Over
<1>2. tts = "busy" => runner = "over"
  BY <1>1 DEF IInv, Voice, Over
<1>3. QED
  BY <1>1, <1>2 DEF IInv, Voice, Closed

\* A step that leaves the control owned or not, and the reasoner's operation in place.
LEMMA MutedStays ==
    ASSUME IInv, Moves, ~Opens, owner' = owner \/ owner' # 0,
           runner' = runner \/ tts' # "busy" \/ runner' # "over",
           \/ op' = op /\ after' = after
           \/ op \notin {"fail_tts", "begin", "over"}
           \/ op' \in {"fail_tts", "begin"} \/ (op' = "over" /\ after' # "response")
    PROVE  Muted' /\ Spoken'
<1>0. /\ runner \in Over => runner' = runner
      /\ tts' = "busy" => tts = "busy" \/ (RunnerSynthesizes /\ runner' = "synthesize")
  BY MovesIs
<1>1. state \in Closed /\ runner = "over" => state' \in Closed
  <2>1. HAVE state \in Closed /\ runner = "over"
  <2>2. CASE UNCHANGED streamVars \/ Touches
    BY <2>1, <2>2 DEF Touches, Adopt, CancelKill, Killed, ForceTTS, Rebuilt, Freed
  <2>3. CASE (\E f \in Fragments : Feed(f)) \/ \E text \in Seq(Fragments) : Continues(text) /\ Finish(text)
    BY <2>1, <2>3 DEF Feed, Finish, Closed
  <2>4. CASE Closes
    BY <2>4 DEF Closes, Cancel, Fail, CloseUnused, Forced, ForceClose, Drop, Closed
  <2>5. CASE RunnerStep
    BY <2>1, <2>5, RunnerState
  <2>6. QED
    BY <2>2, <2>3, <2>4, <2>5 DEF Moves
<1>2. Muted'
  <2>1. SUFFICES ASSUME tts' = "busy", runner' = "over"
                 PROVE  /\ state' \in Closed
                        /\ op' \in {"fail_tts", "begin", "over"} /\ ~(op' = "over" /\ after' = "response")
    BY DEF Muted
  <2>2. tts = "busy" /\ runner = "over"
    BY <1>0, <2>1
  <2>3. state \in Closed /\ op \in {"fail_tts", "begin", "over"} /\ ~(op = "over" /\ after = "response")
    BY <2>2 DEF IInv, Voice
  <2>4. QED
    BY <1>1, <2>2, <2>3
<1>3. Spoken'
  <2>1. SUFFICES ASSUME owner' = 0 PROVE runner' \in Over /\ tts' # "busy"
    BY DEF Spoken
  <2>2. runner \in Over /\ tts # "busy"
    BY <2>1 DEF IInv, Voice
  <2>3. QED
    BY <1>0, <2>2 DEF RunnerSynthesizes, Over
<1>4. QED
  BY <1>2, <1>3

\* One that stops or releases while the child is silent.
LEMMA SilentStays ==
    ASSUME IInv, Moves, ~Opens, tts # "busy", owner' = 0 => owner = 0 \/ runner \in Over
    PROVE  Muted' /\ Spoken'
<1>0. /\ runner \in Over => runner' = runner
      /\ tts' = "busy" => RunnerSynthesizes /\ runner' = "synthesize"
  BY MovesIs
<1>1. Muted'
  BY <1>0 DEF Muted
<1>2. Spoken'
  <2>1. SUFFICES ASSUME owner' = 0 PROVE runner' \in Over /\ tts' # "busy"
    BY DEF Spoken
  <2>2. runner \in Over
    BY <2>1 DEF IInv, Voice
  <2>3. QED
    BY <1>0, <2>2 DEF RunnerSynthesizes, Over
<1>3. QED
  BY <1>1, <1>2

\* The operation lets the control go when its task is over and the child silent.
LEMMA OperationVoice ==
    ASSUME IInv, Operation
    PROVE  Muted' /\ Spoken'
<1>0. /\ Moves /\ turn > 0
  <2>1. op # "off" => turn > 0
    BY DEF IInv, Record
  <2>2. op # "off"
    BY DEF Operation, OpBegins, OpTakesFragment, OpFeeds, OpRefused, OpTakesTerminal, OpExpires,
       OpFinishes, OpCancels, OpSilences, OpReleases
  <2>3. QED
    BY <2>1, <2>2, OperationMoves
<1>1. CASE OpBegins
  <2>1. CASE owner = 0
    <3>1. tts # "busy" /\ tts' = tts /\ runner' = "dequeue" /\ owner' = turn
      BY <1>1, <2>1 DEF OpBegins, Open, IInv, Voice
    <3>2. QED
      BY <1>0, <3>1, TurnsAssumption DEF Muted, Spoken, IInv, TypeOK
  <2>2. CASE owner # 0
    BY <1>0, <1>1, <2>2, MutedStays DEF OpBegins, Opens, OverAs, Goes
  <2>3. QED
    BY <2>1, <2>2
<1>2. ASSUME op # "begin" PROVE ~Opens
  BY <1>2 DEF Opens
<1>3. CASE OpTakesFragment \/ OpFeeds \/ OpRefused \/ OpExpires
  BY <1>0, <1>2, <1>3, MutedStays DEF OpTakesFragment, OpFeeds, Feed, OpRefused, OpExpires
<1>4. CASE OpTakesTerminal
  <2>1. op = "generate" /\ ~Opens
    BY <1>2, <1>4 DEF OpTakesTerminal
  <2>2. CASE \E text \in Seq(Fragments) : FinishesSpeech(text)
    BY <1>0, <2>1, <2>2, MutedStays DEF FinishesSpeech, Finish, Feed
  <2>3. CASE ClosesSpeech("notice")
    BY <1>0, <2>1, <2>3, MutedStays DEF ClosesSpeech, CloseUnused
  <2>4. CASE FailsSpeech("reusable") /\ Head(responses) # "eof"
    <3>1. CASE state \in {"COMPLETED", "CANCELLED", "FAILED"}
      <4>1. state # "CANCELLED"
        BY <1>4, <2>4, TerminalIs DEF IInv, Frames
      <4>2. tts # "busy" /\ runner \in Over
        BY <2>1, <3>1, <4>1, EndedIsMute
      <4>3. QED
        BY <1>0, <2>1, <4>2, SilentStays
    <3>2. CASE state \notin {"COMPLETED", "CANCELLED", "FAILED"}
      <4>1. Fail /\ op' = "fail_tts" /\ owner' = owner
        BY <2>4, <3>2 DEF FailsSpeech, Goes
      <4>2. state' \in Closed
        BY <4>1 DEF Fail, Drop, Closed
      <4>3. Spoken'
        BY <4>1, KillIs DEF Spoken, Fail, IInv, TypeOK, Voice
      <4>4. QED
        BY <4>1, <4>2, <4>3 DEF Muted
    <3>3. QED
      BY <3>1, <3>2
  <2>5. CASE CancelsSpeech("silent") \/ CancelsSpeech("llm")
    <3>1. CASE state = "COMPLETED"
      BY <1>0, <2>1, <3>1, SilentStays, EndedIsMute
    <3>2. CASE state # "COMPLETED"
      BY <1>0, <2>1, <2>5, <3>2, MutedStays, SilentStays DEF CancelsSpeech, Cancel
    <3>3. QED
      BY <3>1, <3>2
  <2>6. QED
    BY <1>4, <2>2, <2>3, <2>4, <2>5, TerminalIs DEF IInv, Ending
<1>5. CASE OpFinishes
  BY <1>0, <1>2, <1>5, MutedStays DEF OpFinishes, FinishesSpeech, Finish, Feed
<1>6. CASE OpCancels
  <2>1. op = "cancel" /\ ~Opens
    BY <1>2, <1>6 DEF OpCancels
  <2>2. CASE state = "COMPLETED"
    BY <1>0, <2>1, <2>2, SilentStays, EndedIsMute
  <2>3. CASE state # "COMPLETED"
    BY <1>0, <1>6, <2>1, <2>3, MutedStays, SilentStays DEF OpCancels, CancelsSpeech, Cancel
  <2>4. QED
    BY <2>2, <2>3
<1>7. CASE OpSilences
  BY <1>0, <1>2, <1>7, SilentStays DEF OpSilences
<1>8. CASE OpReleases
  <2>1. tts # "busy" /\ runner \in Over /\ ~Opens
    BY <1>2, <1>8 DEF OpReleases, IInv, Cleanup, Over
  <2>2. QED
    BY <1>0, <2>1, SilentStays
<1>9. QED
  BY <1>1, <1>3, <1>4, <1>5, <1>6, <1>7, <1>8 DEF Operation

\* CancelledError kills a task only while the child is silent.
LEMMA CancelsVoice ==
    ASSUME IInv, CancelsOperation, owner' = owner, ~Opens
    PROVE  Muted' /\ Spoken'
<1>1. Moves
  BY CancelsMoves
<1>2. CASE op \in {"unused_join", "cancel_join", "fail_join"}
  <2>1. tts # "busy"
    BY <1>2 DEF IInv, Cleanup
  <2>2. QED
    BY <1>1, <2>1, SilentStays
<1>3. CASE op \notin {"unused_join", "cancel_join", "fail_join"}
  <2>1. runner' = runner
    BY <1>3 DEF CancelsOperation
  <2>2. \/ op' = op /\ after' = after
        \/ op \notin {"fail_tts", "begin", "over"}
        \/ op' = "over" /\ after' # "response"
    BY StopsIs DEF CancelsOperation
  <2>3. QED
    BY <1>1, <2>1, <2>2, MutedStays
<1>4. QED
  BY <1>2, <1>3

\* The convergence lets the control go when its task is over and the child silent.
LEMMA ConvergenceVoice ==
    ASSUME IInv, Convergence
    PROVE  Muted' /\ Spoken'
<1>0. Moves /\ (conv \notin {"off", "llm_abort"} => ~Opens)
  BY ConvergenceMoves, NotOpened
<1>1. ASSUME CancelsControl, ~Opens PROVE Muted' /\ Spoken'
  <2>1. CASE state = "COMPLETED"
    BY <1>0, <1>1, <2>1, SilentStays, EndedIsMute
  <2>2. CASE state # "COMPLETED"
    BY <1>0, <1>1, <2>2, MutedStays, SilentStays DEF CancelsControl, Cancel
  <2>3. QED
    BY <2>1, <2>2
<1>2. ASSUME NEW a, NEW b, Releases(a, b), conv \in {"join", "force_join"} PROVE Muted' /\ Spoken'
  <2>1. tts # "busy" /\ runner \in Over
    BY <1>2 DEF Releases, IInv, Cleanup, Over
  <2>2. QED
    BY <1>0, <1>2, <2>1, SilentStays
<1>3. CASE Level1Step
  <2>1. CASE AbortReasoner
    <3>1. CASE owner # 0
      BY <1>1, <2>1, <3>1 DEF AbortReasoner, Opens
    <3>2. CASE owner = 0
      <4>1. ~Opens
        BY <2>1, <3>2 DEF AbortReasoner, CancelsOperation, Kill, Opens, Open, IInv, Voice, Over
      <4>2. QED
        BY <2>1, <3>2, <4>1, CancelsVoice DEF AbortReasoner
    <3>3. QED
      BY <3>1, <3>2
  <2>2. CASE AbortSpeak
    BY <1>0, <1>1, <2>2, MutedStays DEF AbortSpeak
  <2>3. CASE SilenceSpeech
    BY <1>0, <2>3, SilentStays DEF SilenceSpeech, CancelKill
  <2>4. CASE JoinSpeech
    BY <1>2, <2>4 DEF JoinSpeech
  <2>5. CASE JoinReasoner \/ JoinSpeak
    BY <1>0, <2>5, MutedStays DEF JoinReasoner, JoinSpeak
  <2>6. CASE Timeout
    <3>1. CASE conv = "body_join"
      BY <1>0, <2>6, <3>1, CancelsVoice DEF Timeout
    <3>2. CASE conv # "body_join"
      <4>1. ~Opens
        BY <2>6, <3>2 DEF Timeout, Opens, Open, IInv, Voice, Over
      <4>2. QED
        BY <1>0, <2>6, <3>2, <4>1, MutedStays DEF Timeout
    <3>3. QED
      BY <3>1, <3>2
  <2>7. QED
    BY <1>3, <2>1, <2>2, <2>3, <2>4, <2>5, <2>6 DEF Level1Step
<1>4. CASE Level2Step
  <2>1. CASE ForceLLM \/ ForceSpeak
    BY <1>0, <2>1, MutedStays DEF ForceLLM, ForceSpeak
  <2>2. CASE ForceControl
    BY <1>0, <2>2, MutedStays, CancelsVoice DEF ForceControl, ForceClose
  <2>3. CASE ForceChild
    BY <1>0, <2>3, MutedStays DEF ForceChild, ForceTTS
  <2>4. CASE ForceTask
    <3>1. tts # "busy" /\ owner' = owner
      BY <2>4 DEF ForceTask, IInv, Cleanup
    <3>2. QED
      BY <1>0, <2>4, <3>1, SilentStays DEF ForceTask
  <2>5. CASE ForceJoin
    BY <1>2, <2>5 DEF ForceJoin
  <2>6. QED
    BY <1>4, <2>1, <2>2, <2>3, <2>4, <2>5 DEF Level2Step
<1>5. CASE ForceEnds \/ ConvergenceEnds
  <2>1. owner' = owner /\ runner' = runner /\ UNCHANGED opVars /\ ~Opens
    BY <1>0, <1>5 DEF ForceEnds, ConvergenceEnds
  <2>2. QED
    BY <1>0, <2>1, MutedStays
<1>6. QED
  BY <1>3, <1>4, <1>5 DEF Convergence

\* Whoever lets the control go, it is over; only a killed task leaves its request behind.
LEMMA VoiceKept ==
    ASSUME IInv, [Next]_vars
    PROVE  Voice'
<1>0. Moves
  BY NextMoves
<1>1. Muted' /\ Spoken'
  <2>1. CASE Child \/ Press \/ Handler \/ UNCHANGED vars
    <3>1. UNCHANGED <<streamVars, owner, opVars>>
      BY <2>1 DEF Child, Press, Handler
    <3>2. QED
      BY <3>1 DEF Muted, Spoken, IInv, Voice
  <2>2. CASE StartTurn
    BY <2>2 DEF StartTurn, Muted, Spoken, IInv, Voice
  <2>3. CASE Body
    <3>1. CASE BodyEnds \/ BodyExpires \/ BodyReaps
      BY <3>1 DEF BodyEnds, BodyExpires, BodyReaps, Muted, Spoken, IInv, Voice
    <3>2. CASE BodyRaises
      <4>1. ~Opens
        BY <3>2 DEF BodyRaises, CancelsOperation, Kill, Opens, Open, IInv, Voice, Over
      <4>2. QED
        BY <3>2, <4>1, CancelsVoice DEF BodyRaises
    <3>3. QED
      BY <2>3, <3>1, <3>2 DEF Body
  <2>4. CASE Runner
    <3>1. /\ RunnerStep /\ owner' = owner /\ UNCHANGED opVars
      BY <2>4 DEF Runner
    <3>2. tts' = "busy" => runner' # "over"
      BY <3>1 DEF RunnerStep, RunnerStops, RunnerTakes, RunnerSynthesizes, RunnerHears, RunnerRejected,
         RunnerLosesTTS, RunnerPlays, RunnerDrained, RunnerCompletes, Raises, Ends, IInv, Voice
    <3>3. ~Opens
      BY <3>1 DEF RunnerStep, RunnerStops, RunnerTakes, RunnerSynthesizes, RunnerHears, RunnerRejected,
         RunnerLosesTTS, RunnerPlays, RunnerDrained, RunnerCompletes, Opens, IInv, Voice, Over
    <3>4. QED
      BY <1>0, <3>1, <3>2, <3>3, MutedStays
  <2>5. CASE Action
    <3>1. CASE SpeakStarts
      BY <2>5, <3>1 DEF SpeakStarts, Adopt, Action, Muted, Spoken, IInv, Voice
    <3>2. CASE SpeakEnds
      <4>1. tts # "busy" /\ runner = "over"
        BY <3>2 DEF SpeakEnds, IInv, Voice, Record
      <4>2. QED
        BY <3>2, <4>1 DEF SpeakEnds, Muted, Spoken, Over
    <3>3. QED
      BY <2>5, <3>1, <3>2 DEF Action
  <2>6. QED
    BY <2>1, <2>2, <2>3, <2>4, <2>5, OperationVoice, ConvergenceVoice DEF Next
<1>2. tts' = "busy" => runner' \in {"synthesize", "over"}
  <2>1. CASE Opens
    BY <2>1 DEF Opens, Open, IInv, Voice
  <2>2. CASE ~Opens
    <3>1. SUFFICES ASSUME tts' = "busy", ~(RunnerSynthesizes /\ runner' = "synthesize")
                   PROVE  runner' \in {"synthesize", "over"}
      OBVIOUS
    <3>2. tts = "busy" /\ runner \in {"synthesize", "over"}
      BY <1>0, <2>2, <3>1, MovesIs DEF IInv, Voice
    <3>3. CASE UNCHANGED streamVars
      BY <3>2, <3>3
    <3>4. CASE (\E f \in Fragments : Feed(f)) \/ \E text \in Seq(Fragments) : Continues(text) /\ Finish(text)
      BY <3>2, <3>4 DEF Feed, Finish
    <3>5. CASE Closes \/ Touches
      BY <3>2, <3>5 DEF Closes, Cancel, Fail, CloseUnused, Forced, ForceClose, Touches, Adopt, CancelKill,
         Killed, Kill, ForceTTS, Rebuilt, Freed
    <3>6. CASE RunnerStep
      BY <3>1, <3>2, <3>6 DEF RunnerStep, RunnerStops, RunnerTakes, RunnerSynthesizes, RunnerHears, RunnerRejected,
         RunnerLosesTTS, RunnerPlays, RunnerDrained, RunnerCompletes
    <3>7. QED
      BY <1>0, <2>2, <3>3, <3>4, <3>5, <3>6 DEF Moves
  <2>3. QED
    BY <2>1, <2>2
<1>3. QED
  BY <1>1, <1>2 DEF Voice, Muted, Spoken

\* The control is closed before its task is waited for.
LEMMA ClosedStays ==
    ASSUME IInv, Moves, ~Opens, state \notin Going
    PROVE  state' \notin Going
  BY MovesIs

\* A task that is over stays so, and its child silent, until the next speech.
LEMMA OverStays ==
    ASSUME IInv, Moves, ~Opens, runner \in Over, tts # "busy"
    PROVE  runner' \in Over /\ tts' # "busy"
  BY MovesIs DEF RunnerSynthesizes, Over

\* cancel() of a control while the child is silent.
LEMMA CancelStops ==
    ASSUME IInv, Cancel
    PROVE  state' \notin Going /\ tts' = tts /\ (tts # "busy" => runner' \in Over)
  BY KillIs DEF Cancel, Drop, Going, IInv, TypeOK

\* What the operation's clean-up knows of the control.
OpCleans ==
    /\ op \in {"cancel_tts", "cancel_join", "fail_tts", "fail_join", "unused_join"} => state \notin Going
    /\ op = "fail_tts" => runner \in Over
    /\ op \in {"cancel_join", "fail_join"} => tts # "busy" /\ runner \in Over
    /\ op = "unused_join" => tts # "busy" /\ runner \in Over \cup {"dequeue"}

\* The operation's clean-up is not undone by anybody else.
LEMMA OpCleansStays ==
    ASSUME IInv, Moves, ~Opens, op' = op \/ op' \in {"off", "begin", "generate", "feed", "finish", "cancel", "over"}
    PROVE  OpCleans'
<1>1. CASE op' # op
  BY <1>1 DEF OpCleans
<1>2. CASE op' = op
  <2>1. op' \in {"cancel_tts", "cancel_join", "fail_tts", "fail_join", "unused_join"} => state' \notin Going
    BY <1>2, ClosedStays DEF IInv, Cleanup
  <2>2. op' = "fail_tts" => runner' \in Over
    BY <1>2, MovesIs DEF IInv, Cleanup
  <2>3. op' \in {"cancel_join", "fail_join"} => tts' # "busy" /\ runner' \in Over
    BY <1>2, OverStays DEF IInv, Cleanup
  <2>4. ASSUME op' = "unused_join" PROVE tts' # "busy" /\ runner' \in Over \cup {"dequeue"}
    <3>1. op = "unused_join" /\ tts # "busy" /\ runner \in Over \cup {"dequeue"} /\ state \notin Going
      BY <1>2, <2>4 DEF IInv, Cleanup
    <3>2. tts' # "busy"
      BY <3>1, MovesIs DEF RunnerSynthesizes, Over
    <3>3. CASE RunnerStep
      BY <3>1, <3>2, <3>3 DEF RunnerStep, RunnerStops, RunnerTakes, RunnerSynthesizes, RunnerHears, RunnerRejected,
         RunnerLosesTTS, RunnerPlays, RunnerDrained, RunnerCompletes, Ends, Over, Going, Closed, IInv, Endgame,
         TypeOK, StreamTypeOK, ControlStates
    <3>4. CASE ~RunnerStep
      BY <3>1, <3>2, <3>4, MovesIs
    <3>5. QED
      BY <3>3, <3>4
  <2>5. QED
    BY <2>1, <2>2, <2>3, <2>4 DEF OpCleans
<1>3. QED
  BY <1>1, <1>2

\* The operation closes and stops before it waits.
LEMMA OperationCleans ==
    ASSUME IInv, Operation
    PROVE  OpCleans'
<1>0. Moves
  BY OperationMoves
<1>1. CASE OpBegins
  BY <1>1 DEF OpBegins, Open, Goes, GoesOn, OverAs, OpCleans, Going, IInv, Voice
<1>2. ASSUME op # "begin" PROVE ~Opens
  BY <1>2 DEF Opens
<1>3. CASE OpTakesFragment \/ OpFeeds \/ OpRefused \/ OpExpires \/ OpFinishes
  <2>1. op # "begin" /\ op' \in {"off", "begin", "generate", "feed", "finish", "cancel", "over"}
    BY <1>3 DEF OpTakesFragment, OpFeeds, OpRefused, OpExpires, OpFinishes, FinishesSpeech, Goes, GoesOn, OverAs
  <2>2. QED
    BY <1>0, <1>2, <2>1, OpCleansStays
<1>4. ASSUME NEW outcome, CancelsSpeech(outcome), op \in {"generate", "cancel"} PROVE OpCleans'
  <2>1. CASE state = "COMPLETED"
    BY <1>4, <2>1 DEF CancelsSpeech, OverAs, Goes, OpCleans
  <2>2. CASE state # "COMPLETED"
    BY <1>4, <2>2, CancelStops DEF CancelsSpeech, Goes, OpCleans
  <2>3. QED
    BY <2>1, <2>2
<1>5. CASE OpTakesTerminal
  <2>1. op = "generate" /\ ~Opens
    BY <1>2, <1>5 DEF OpTakesTerminal
  <2>2. CASE \E text \in Seq(Fragments) : FinishesSpeech(text)
    BY <1>0, <2>1, <2>2, OpCleansStays DEF FinishesSpeech, Goes, GoesOn, OverAs
  <2>3. CASE ClosesSpeech("notice")
    <3>1. CASE state # "OPEN"
      BY <2>3, <3>1 DEF ClosesSpeech, OverAs, Goes, OpCleans
    <3>2. CASE state = "OPEN"
      <4>1. /\ admitted = <<>> /\ acknowledged \o inflight \o pending = admitted /\ state' = "CANCELLED"
            /\ runner' = runner /\ tts' = tts /\ op' = "unused_join"
        BY <2>3, <3>2 DEF ClosesSpeech, CloseUnused, Goes, IInv, Flow, Going
      <4>2. inflight = <<>>
        BY <4>1, NothingInFlight DEF IInv
      <4>3. runner \in Over \cup {"dequeue"}
        BY <3>2, <4>2 DEF IInv, Flow, Endgame, TypeOK, StreamTypeOK, RunnerSteps, Over
      <4>4. tts # "busy"
        BY <2>1, <4>3 DEF IInv, Voice, Over
      <4>5. QED
        BY <4>1, <4>3, <4>4 DEF OpCleans, Going
    <3>3. QED
      BY <3>1, <3>2
  <2>4. CASE FailsSpeech("reusable")
    BY <2>4, KillIs DEF FailsSpeech, Fail, Drop, OverAs, Goes, OpCleans, Going, IInv, TypeOK
  <2>5. QED
    BY <1>4, <1>5, <2>1, <2>2, <2>3, <2>4, TerminalIs DEF IInv, Ending
<1>6. CASE OpCancels
  BY <1>4, <1>6 DEF OpCancels
<1>7. CASE OpSilences
  <2>1. tts # "busy" /\ tts' = tts /\ state' = state /\ state \notin Going
    BY <1>7 DEF OpSilences, CancelKill, IInv, Cleanup
  <2>2. runner' \in Over
    BY <1>7, KillIs DEF OpSilences, CancelKill, IInv, Cleanup, TypeOK
  <2>3. op' \in {"cancel_join", "fail_join"}
    BY <1>7 DEF OpSilences, GoesOn
  <2>4. QED
    BY <2>1, <2>2, <2>3 DEF OpCleans
<1>8. CASE OpReleases
  BY <1>8 DEF OpReleases, GoesOn, OpCleans
<1>9. QED
  BY <1>1, <1>3, <1>5, <1>6, <1>7, <1>8 DEF Operation

\* What the convergence knows of it.
Converged ==
    /\ conv \in {"tts_abort", "join", "force_tts", "force_kill", "force_join"} => state \notin Going
    /\ conv = "join" => tts # "busy" /\ runner \in Over
    /\ conv \in {"force_kill", "force_join"} => tts \notin {"ready", "busy"}

\* Nor is that of the convergence.
LEMMA ConvergedStays ==
    ASSUME IInv, Moves, conv' = conv \/ conv' \notin {"tts_abort", "join", "force_tts", "force_kill", "force_join"}
    PROVE  Converged'
<1>1. CASE conv' \notin {"tts_abort", "join", "force_tts", "force_kill", "force_join"}
  BY <1>1 DEF Converged
<1>2. CASE conv' = conv /\ conv \in {"tts_abort", "join", "force_tts", "force_kill", "force_join"}
  <2>1. ~Opens /\ state \notin Going
    BY <1>2, NotOpened DEF IInv, Cleanup
  <2>2. state' \notin Going
    BY <2>1, ClosedStays
  <2>3. conv' = "join" => tts' # "busy" /\ runner' \in Over
    BY <1>2, <2>1, OverStays DEF IInv, Cleanup
  <2>4. ASSUME conv' \in {"force_kill", "force_join"} PROVE tts' \notin {"ready", "busy"}
    <3>1. tts \notin {"ready", "busy"} /\ conv # "end"
      BY <1>2, <2>4 DEF IInv, Cleanup
    <3>2. CASE RunnerStep
      BY <3>1, <3>2 DEF RunnerStep, RunnerStops, RunnerTakes, RunnerSynthesizes, RunnerHears, RunnerRejected,
         RunnerLosesTTS, RunnerPlays, RunnerDrained, RunnerCompletes
    <3>3. CASE ~RunnerStep
      BY <2>1, <3>1, <3>3, MovesIs DEF Rebuilt
    <3>4. QED
      BY <3>2, <3>3
  <2>5. QED
    BY <2>2, <2>3, <2>4 DEF Converged
<1>3. QED
  BY <1>1, <1>2

\* The convergence closes and stops before it waits.
LEMMA ConvergenceCleans ==
    ASSUME IInv, Convergence
    PROVE  Converged'
<1>0. Moves
  BY ConvergenceMoves
<1>1. ASSUME CancelsControl PROVE Converged'
  BY <1>1, CancelStops DEF CancelsControl, Step, Converged
<1>2. CASE Level1Step
  <2>1. CASE AbortReasoner
    BY <1>0, <1>1, <2>1, ConvergedStays DEF AbortReasoner, Step
  <2>2. CASE AbortSpeak
    BY <1>0, <1>1, <2>2, ConvergedStays DEF AbortSpeak, Step
  <2>3. CASE SilenceSpeech
    BY <2>3, KillIs DEF SilenceSpeech, CancelKill, Step, Converged, IInv, Cleanup, TypeOK
  <2>4. CASE JoinSpeech \/ JoinReasoner \/ JoinSpeak \/ Timeout
    <3>1. conv' \notin {"tts_abort", "join", "force_tts", "force_kill", "force_join"}
      BY <2>4 DEF JoinSpeech, Releases, JoinReasoner, JoinSpeak, Timeout, Step
    <3>2. QED
      BY <1>0, <3>1, ConvergedStays
  <2>5. QED
    BY <1>2, <2>1, <2>2, <2>3, <2>4 DEF Level1Step
<1>3. CASE Level2Step
  <2>1. CASE ForceLLM \/ ForceSpeak \/ ForceJoin
    <3>1. conv' \notin {"tts_abort", "join", "force_tts", "force_kill", "force_join"}
      BY <2>1 DEF ForceLLM, ForceSpeak, ForceJoin, Releases, Step
    <3>2. QED
      BY <1>0, <3>1, ConvergedStays
  <2>2. CASE ForceControl
    BY <2>2 DEF ForceControl, ForceClose, Drop, Step, Converged, Going
  <2>3. CASE ForceChild
    BY <2>3 DEF ForceChild, ForceTTS, Step, Converged, IInv, Cleanup
  <2>4. CASE ForceTask
    BY <2>4 DEF ForceTask, ForceKill, Step, Converged, IInv, Cleanup
  <2>5. QED
    BY <1>3, <2>1, <2>2, <2>3, <2>4 DEF Level2Step
<1>4. CASE ForceEnds \/ ConvergenceEnds
  <2>1. conv' = conv \/ conv' \in {"end", "off"}
    BY <1>4 DEF ForceEnds, Checked, Step, ConvergenceEnds
  <2>2. QED
    BY <1>0, <2>1, ConvergedStays
<1>5. QED
  BY <1>2, <1>3, <1>4 DEF Convergence

\* Together.
LEMMA CleanupKept ==
    ASSUME IInv, [Next]_vars
    PROVE  Cleanup'
<1>0. Moves
  BY NextMoves
<1>1. CASE Operation
  <2>1. conv' = conv
    BY <1>1 DEF Operation
  <2>2. QED
    BY <1>0, <1>1, <2>1, OperationCleans, ConvergedStays DEF OpCleans, Converged, Cleanup
<1>2. CASE ~Operation
  <2>1. OpCleans'
    <3>1. CASE Child \/ Press \/ Handler \/ UNCHANGED vars
      BY <3>1 DEF Child, Press, Handler, OpCleans, IInv, Cleanup
    <3>2. CASE StartTurn
      BY <3>2 DEF StartTurn, OpCleans
    <3>3. CASE Body \/ Runner \/ Action \/ Convergence
      <4>1. op' = op \/ op' \in {"off", "cancel", "over"}
        BY <3>3, StopsIs DEF Body, BodyEnds, BodyExpires, BodyRaises, BodyReaps, CancelsOperation, Runner, Action,
           Convergence, Level1Step, Level2Step, ForceEnds, ConvergenceEnds, AbortReasoner, AbortSpeak,
           SilenceSpeech, JoinSpeech, JoinReasoner, JoinSpeak, Timeout, CancelsControl, Releases, ForceLLM, ForceSpeak,
           ForceControl, ForceChild, ForceTask, ForceJoin
      <4>2. CASE ~Opens
        BY <1>0, <4>1, <4>2, OpCleansStays
      <4>3. CASE Opens
        BY <4>1, <4>3 DEF Opens, OpCleans
      <4>4. QED
        BY <4>2, <4>3
    <3>4. QED
      BY <1>2, <3>1, <3>2, <3>3 DEF Next
  <2>2. Converged'
    <3>1. CASE Convergence
      BY <3>1, ConvergenceCleans
    <3>2. CASE ~Convergence
      <4>1. conv' = conv \/ conv' \notin {"tts_abort", "join", "force_tts", "force_kill", "force_join"}
        BY <1>2, <3>2 DEF Next, Child, Body, Runner, Action, StartTurn, Press, Handler, HandlePress, HandleError,
           HandleReasoned, HandleSpoken, Converges, FirstStep, Target
      <4>2. QED
        BY <1>0, <4>1, ConvergedStays
    <3>3. QED
      BY <3>1, <3>2
  <2>3. QED
    BY <2>1, <2>2 DEF OpCleans, Converged, Cleanup
<1>3. QED
  BY <1>1, <1>2

-----------------------------------------------------------------------------
(***************************************************************************)
(* The tasks of the workers and their notices.                             *)
(***************************************************************************)
Has(s, item) == \E i \in DOMAIN s : s[i] = item
Once(s) == \A i, j \in DOMAIN s : i # j /\ s[i] = s[j] => s[i] \notin {"reasoned", "spoken"}

\* One more item, of which there is none yet if it is a notice.
LEMMA AppendHas ==
    ASSUME NEW s \in Seq(Items), NEW x \in Items, Once(s), x \in {"reasoned", "spoken"} => ~Has(s, x)
    PROVE  /\ Append(s, x) \in Seq(Items) /\ Once(Append(s, x))
           /\ \A y : Has(Append(s, x), y) <=> Has(s, y) \/ x = y
<1>1. PICK n \in Nat : n = Len(s) /\ DOMAIN s = 1 .. n
  OBVIOUS
<1>2. PICK t \in Seq(Items) : t = Append(s, x)
  BY AppendProperties
<1>3. DOMAIN t = 1 .. n + 1 /\ (\A i \in 1 .. n : t[i] = s[i]) /\ t[n + 1] = x
  BY <1>1, <1>2, AppendProperties
<1>4. \A y : Has(t, y) <=> Has(s, y) \/ x = y
  <2>1. TAKE y
  <2>2. ASSUME Has(t, y) PROVE Has(s, y) \/ x = y
    <3>1. PICK i \in 1 .. n + 1 : t[i] = y
      BY <1>3, <2>2 DEF Has
    <3>2. i \in 1 .. n \/ i = n + 1
      BY <1>1
    <3>3. QED
      BY <1>1, <1>3, <3>1, <3>2 DEF Has
  <2>3. ASSUME Has(s, y) PROVE Has(t, y)
    <3>1. PICK i \in 1 .. n : s[i] = y
      BY <1>1, <2>3 DEF Has
    <3>2. i \in 1 .. n + 1 /\ t[i] = y
      BY <1>3, <3>1
    <3>3. QED
      BY <1>3, <3>2 DEF Has
  <2>4. ASSUME x = y PROVE Has(t, y)
    <3>1. n + 1 \in 1 .. n + 1
      OBVIOUS
    <3>2. QED
      BY <1>3, <2>4, <3>1 DEF Has
  <2>5. QED
    BY <2>2, <2>3, <2>4
<1>5. Once(t)
  <2>1. SUFFICES ASSUME NEW i \in 1 .. n + 1, NEW j \in 1 .. n + 1, i # j, t[i] = t[j], t[i] \in {"reasoned", "spoken"}
                 PROVE  FALSE
    BY <1>3 DEF Once
  <2>2. CASE i \in 1 .. n /\ j \in 1 .. n
    BY <1>1, <1>3, <2>1, <2>2 DEF Once
  <2>3. CASE i = n + 1
    <3>1. j \in 1 .. n
      BY <2>1, <2>3
    <3>2. Has(s, x) /\ x \in {"reasoned", "spoken"}
      BY <1>1, <1>3, <2>1, <2>3, <3>1 DEF Has
    <3>3. QED
      BY <3>2
  <2>4. CASE j = n + 1
    <3>1. i \in 1 .. n
      BY <2>1, <2>4
    <3>2. Has(s, x) /\ x \in {"reasoned", "spoken"}
      BY <1>1, <1>3, <2>1, <2>4, <3>1 DEF Has
    <3>3. QED
      BY <3>2
  <2>5. QED
    BY <2>2, <2>3, <2>4
<1>6. QED
  BY <1>2, <1>4, <1>5

\* The inbox without its head.
LEMMA TailHas ==
    ASSUME NEW s \in Seq(Items), s # <<>>, Once(s)
    PROVE  /\ Once(Tail(s)) /\ Has(s, Head(s))
           /\ \A y : Has(Tail(s), y) => Has(s, y)
           /\ Head(s) \in {"reasoned", "spoken"} => ~Has(Tail(s), Head(s))
<1>1. PICK n \in Nat : n = Len(s) /\ DOMAIN s = 1 .. n /\ n # 0
  OBVIOUS
<1>2. PICK t \in Seq(Items) : t = Tail(s)
  BY HeadTailProperties
<1>3. DOMAIN t = 1 .. n - 1 /\ \A i \in 1 .. n - 1 : t[i] = s[i + 1]
  <2>1. Len(t) = Len(s) - 1 /\ \A i \in 1 .. Len(t) : t[i] = s[i + 1]
    BY <1>2, HeadTailProperties
  <2>2. DOMAIN t = 1 .. Len(t)
    OBVIOUS
  <2>3. QED
    BY <1>1, <2>1, <2>2
<1>4. \A i \in 1 .. n - 1 : i + 1 \in 1 .. n
  BY <1>1
<1>5. Has(s, Head(s)) /\ Head(s) = s[1] /\ 1 \in 1 .. n
  BY <1>1 DEF Has
<1>6. \A y : Has(t, y) => Has(s, y)
  BY <1>1, <1>3, <1>4 DEF Has
<1>7. Once(t)
  <2>1. SUFFICES ASSUME NEW i \in 1 .. n - 1, NEW j \in 1 .. n - 1, i # j, t[i] = t[j]
                 PROVE  t[i] \notin {"reasoned", "spoken"}
    BY <1>3 DEF Once
  <2>2. i + 1 # j + 1 /\ i + 1 \in 1 .. n /\ j + 1 \in 1 .. n
    BY <1>4, <2>1
  <2>3. QED
    BY <1>1, <1>3, <2>1, <2>2 DEF Once
<1>8. ASSUME Head(s) \in {"reasoned", "spoken"}, Has(t, Head(s)) PROVE FALSE
  <2>1. PICK i \in 1 .. n - 1 : t[i] = s[1]
    BY <1>3, <1>5, <1>8 DEF Has
  <2>2. i + 1 # 1 /\ i + 1 \in 1 .. n /\ s[i + 1] = s[1]
    BY <1>1, <1>3, <1>4, <2>1
  <2>3. QED
    BY <1>1, <1>5, <1>8, <2>2 DEF Once
<1>9. QED
  BY <1>2, <1>5, <1>6, <1>7, <1>8

\* The notices in an inbox.
Posted(s) ==
    /\ Once(s)
    /\ Has(s, "reasoned") => record = "reasoner" /\ body = "off"
    /\ Has(s, "spoken") => record = "speak" /\ speak = "off"

\* The workers' tasks.
Tasks ==
    /\ op \notin {"off", "over"} => body # "off"
    /\ body # "off" => record = "reasoner"
    /\ speak # "off" => record = "speak"
    /\ phase = "rest" => record = "none"
    /\ phase = "think" => record = "reasoner"
    /\ speak # "off" \/ thought = "response" => op = "over" /\ after = "response"
    /\ after = "response" => op = "over"
    /\ op # "off" => turn > 0

\* The two make up Record.
LEMMA RecordIs == Record <=> Tasks /\ Posted(inbox)
  BY DEF Record, Tasks, Posted, Once, Has

LEMMA RecordIsNext ==
    ASSUME NEW s, s = inbox', Tasks', Posted(s)'
    PROVE  Record'
  BY DEF Record, Tasks, Posted, Once, Has

\* A task runs while its worker is the one in _in_flight.
LEMMA TasksKept ==
    ASSUME IInv, [Next]_vars
    PROVE  Tasks'
<1>0. Tasks /\ Posted(inbox) /\ turn \in Nat /\ inbox \in Seq(Items)
  BY RecordIs, TurnsAssumption DEF IInv, TypeOK
<1>1. CASE Child \/ Runner \/ Press \/ UNCHANGED vars
  BY <1>0, <1>1 DEF Child, Runner, Press, Tasks
<1>2. CASE Operation
  <2>1. op \notin {"off", "over"} /\ UNCHANGED <<turn, bodyVars, speakVars, phase, record>>
    BY <1>2 DEF Operation, OpBegins, OpTakesFragment, OpFeeds, OpRefused, OpTakesTerminal, OpExpires,
       OpFinishes, OpCancels, OpSilences, OpReleases
  <2>2. after' = "response" => op' = "over"
    <3>1. after # "response"
      BY <1>0, <2>1 DEF Tasks
    <3>2. CASE OpTakesTerminal
      BY <3>1, <3>2, TerminalIs DEF IInv, Ending, FinishesSpeech, ClosesSpeech, FailsSpeech, CancelsSpeech,
         GoesOn, Goes, OverAs
    <3>3. CASE ~OpTakesTerminal
      BY <1>2, <3>1, <3>3 DEF Operation, OpBegins, OpTakesFragment, OpFeeds, OpRefused, OpExpires,
         OpFinishes, OpCancels, OpSilences, OpReleases, FinishesSpeech, CancelsSpeech, GoesOn, Goes, OverAs
    <3>4. QED
      BY <3>2, <3>3
  <2>3. QED
    BY <1>0, <2>1, <2>2 DEF Tasks
<1>3. CASE Body
  <2>1. CASE BodyEnds
    BY <1>0, <1>3, <2>1 DEF Body, BodyEnds, Tasks
  <2>2. CASE BodyExpires
    BY <1>0, <1>3, <2>2 DEF Body, BodyExpires, Tasks
  <2>3. CASE BodyRaises
    BY <1>0, <1>3, <2>3, StopsIs DEF Body, BodyRaises, CancelsOperation, Tasks
  <2>4. CASE BodyReaps
    BY <1>0, <1>3, <2>4 DEF Body, BodyReaps, Tasks
  <2>5. QED
    BY <1>3, <2>1, <2>2, <2>3, <2>4 DEF Body
<1>4. CASE Action
  BY <1>0, <1>4 DEF Action, SpeakStarts, SpeakEnds, Tasks
<1>5. CASE StartTurn
  BY <1>0, <1>5 DEF StartTurn, Tasks
<1>6. CASE Handler
  <2>1. CASE HandlePress \/ HandleError
    BY <1>0, <1>6, <2>1 DEF Handler, HandlePress, HandleError, HandleReasoned, HandleSpoken, Receives, Converges, Tasks
  <2>2. CASE HandleReasoned \/ (HandleSpoken /\ UNCHANGED speak)
    <3>1. Has(inbox, Head(inbox)) /\ Head(inbox) = IF HandleReasoned THEN "reasoned" ELSE "spoken"
      BY <1>0, <2>2, TailHas DEF HandleReasoned, HandleSpoken, Receives, Posted
    <3>2. body = "off" /\ speak = "off" /\ record # "none"
      BY <1>0, <3>1 DEF Posted, Tasks
    <3>3. UNCHANGED <<turn, opVars, body, thought>>
      BY <1>6 DEF Handler
    <3>4. speak' = "off" \/ (thought = "response" /\ speak' = "created" /\ record' = "speak" /\ phase' = "action")
      BY <2>2, <3>2 DEF HandleReasoned, HandleSpoken
    <3>5. phase' \in {"dead", "rest", "action"} /\ (phase' = "rest" => record' = "none")
      BY <2>2 DEF HandleReasoned, HandleSpoken, Concludes, Dies
    <3>6. QED
      BY <1>0, <3>2, <3>3, <3>4, <3>5 DEF Tasks
  <2>3. QED
    BY <1>6, <2>1, <2>2 DEF Handler
<1>7. CASE Convergence
  <2>1. UNCHANGED <<turn, bodyVars, speakVars, record>> \/ UNCHANGED <<turn, body, thought, speakVars, record>>
    BY <1>7 DEF Convergence, Level1Step, Level2Step, ForceEnds, ConvergenceEnds
  <2>2. phase' = phase \/ phase' \in {"dead", "settle"} \/ (phase' = "rest" /\ record = "none")
    BY <1>7 DEF Convergence, Level1Step, Level2Step, ForceEnds, Checked, Dies, ConvergenceEnds
  <2>3. (op' = op /\ after' = after) \/ StopsOperation
    BY <1>7 DEF Convergence, Level1Step, Level2Step, ForceEnds, ConvergenceEnds, AbortReasoner, AbortSpeak,
       SilenceSpeech, JoinSpeech, JoinReasoner, JoinSpeak, Timeout, CancelsControl, CancelsOperation, Releases,
       ForceLLM, ForceSpeak, ForceControl, ForceChild, ForceTask, ForceJoin
  <2>4. QED
    BY <1>0, <2>1, <2>2, <2>3, StopsIs DEF Tasks
<1>8. QED
  BY <1>1, <1>2, <1>3, <1>4, <1>5, <1>6, <1>7 DEF Next

\* A notice is posted by the end of its task, once.
LEMMA PostedKept ==
    ASSUME IInv, [Next]_vars, NEW s, s = inbox'
    PROVE  Posted(s)'
<1>0. PICK q \in Seq(Items) : q = inbox /\ Posted(q) /\ Tasks
  BY RecordIs DEF IInv, TypeOK
<1>1. CASE s = q /\ UNCHANGED <<record, body, speak>>
  BY <1>0, <1>1 DEF Posted
<1>2. ASSUME NEW x \in Items, x \notin {"reasoned", "spoken"}, s = Append(q, x), UNCHANGED <<record, body, speak>>
      PROVE  Posted(s)'
  BY <1>0, <1>2, AppendHas DEF Posted
<1>3. CASE Child \/ Operation \/ UNCHANGED vars
  BY <1>0, <1>1, <1>3 DEF Child, Operation
<1>4. CASE Runner
  <2>1. UNCHANGED <<record, body, speak>>
    BY <1>4 DEF Runner
  <2>2. PICK x \in Items : x = FaultOf(ending') /\ x \notin {"reasoned", "spoken"}
    BY DEF FaultOf, Items, Faults
  <2>3. s = q \/ s = Append(q, x)
    BY <1>0, <1>4, <2>2 DEF Runner
  <2>4. QED
    BY <1>1, <1>2, <2>1, <2>2, <2>3
<1>5. CASE Body
  <2>1. UNCHANGED <<record, speak>> /\ body # "off" /\ record = "reasoner" /\ ~Has(q, "reasoned") /\ ~Has(q, "spoken")
    BY <1>0, <1>5 DEF Body, BodyEnds, BodyExpires, BodyRaises, BodyReaps, Posted, Tasks
  <2>2. ASSUME NEW p \in Seq(Items), Once(p), ~Has(p, "reasoned"), ~Has(p, "spoken"),
               s = Append(p, "reasoned"), body' = "off"
        PROVE  Posted(s)'
    BY <2>1, <2>2, AppendHas DEF Posted, Items
  <2>3. ASSUME NEW x \in Faults
        PROVE  /\ Append(q, x) \in Seq(Items) /\ Once(Append(q, x))
               /\ ~Has(Append(q, x), "reasoned") /\ ~Has(Append(q, x), "spoken")
    BY <1>0, <2>1, AppendHas DEF Posted, Items, Faults
  <2>4. CASE BodyEnds
    <3>1. CASE after \in Faults /\ ~cancelled
      <4>1. s = q \o <<after>> \o <<"reasoned">>
        BY <1>0, <2>4, <3>1 DEF BodyEnds
      <4>2. PICK p \in Seq(Items) : p = Append(q, after) /\ Once(p) /\ ~Has(p, "reasoned") /\ ~Has(p, "spoken")
        BY <2>3, <3>1
      <4>3. q \o <<after>> = p /\ p \o <<"reasoned">> = Append(p, "reasoned")
        BY <4>2
      <4>4. QED
        BY <2>2, <2>4, <4>1, <4>2, <4>3 DEF BodyEnds
    <3>2. CASE ~(after \in Faults /\ ~cancelled)
      <4>1. s = q \o <<>> \o <<"reasoned">>
        BY <1>0, <2>4, <3>2 DEF BodyEnds
      <4>2. q \o <<>> = q /\ q \o <<"reasoned">> = Append(q, "reasoned")
        OBVIOUS
      <4>3. QED
        BY <1>0, <2>1, <2>2, <2>4, <4>1, <4>2 DEF BodyEnds, Posted
    <3>3. QED
      BY <3>1, <3>2
  <2>5. CASE BodyExpires
    BY <1>0, <2>1, <2>5 DEF BodyExpires, Posted
  <2>6. CASE BodyRaises
    <3>1. s = q \/ s = Append(q, "llm")
      BY <1>0, <2>6 DEF BodyRaises
    <3>2. QED
      BY <1>0, <2>1, <2>3, <3>1 DEF Posted, Faults
  <2>7. CASE BodyReaps
    BY <1>0, <2>1, <2>2, <2>7 DEF BodyReaps, Put, Posted
  <2>8. QED
    BY <1>5, <2>4, <2>5, <2>6, <2>7 DEF Body
<1>6. CASE Action
  <2>1. UNCHANGED <<record, body>> /\ speak # "off" /\ record = "speak" /\ ~Has(q, "reasoned") /\ ~Has(q, "spoken")
    BY <1>0, <1>6 DEF Action, SpeakStarts, SpeakEnds, Posted, Tasks
  <2>2. CASE SpeakStarts
    BY <1>0, <2>1, <2>2 DEF SpeakStarts, Posted
  <2>3. CASE SpeakEnds
    <3>1. s = Append(q, "spoken") /\ speak' = "off"
      BY <1>0, <2>3 DEF SpeakEnds, Put
    <3>2. QED
      BY <1>0, <2>1, <3>1, AppendHas DEF Posted, Items
  <2>4. QED
    BY <1>6, <2>2, <2>3 DEF Action
<1>7. CASE StartTurn
  BY <1>0, <1>7 DEF StartTurn, Posted, Tasks
<1>8. CASE Press
  <2>1. s = Append(q, "press") /\ "press" \in Items /\ UNCHANGED <<record, body, speak>>
    BY <1>0, <1>8 DEF Press, Put, Items
  <2>2. QED
    BY <1>2, <2>1
<1>9. CASE Handler
  <2>1. q # <<>> /\ s = Tail(q) /\ body' = body
    BY <1>0, <1>9 DEF Handler, HandlePress, HandleError, HandleReasoned, HandleSpoken, Receives
  <2>2. /\ Once(s) /\ Has(q, Head(q)) /\ \A y : Has(s, y) => Has(q, y)
        /\ Head(q) \in {"reasoned", "spoken"} => ~Has(s, Head(q))
    BY <1>0, <2>1, TailHas DEF Posted
  <2>3. UNCHANGED <<record, speak>> \/ Head(q) \in {"reasoned", "spoken"}
    BY <1>0, <1>9 DEF Handler, HandlePress, HandleError, HandleReasoned, HandleSpoken, Receives
  <2>4. CASE UNCHANGED <<record, speak>>
    BY <1>0, <2>1, <2>2, <2>4 DEF Posted
  <2>5. CASE Head(q) \in {"reasoned", "spoken"}
    BY <1>0, <2>2, <2>5 DEF Posted
  <2>6. QED
    BY <2>3, <2>4, <2>5
<1>10. CASE Convergence
  <2>1. UNCHANGED <<record, body, speak, inbox>>
    BY <1>10 DEF Convergence, Level1Step, Level2Step, ForceEnds, ConvergenceEnds
  <2>2. QED
    BY <1>0, <1>1, <2>1
<1>11. QED
  BY <1>3, <1>4, <1>5, <1>6, <1>7, <1>8, <1>9, <1>10 DEF Next

\* Together.
LEMMA RecordKept ==
    ASSUME IInv, [Next]_vars
    PROVE  Record'
<1>1. PICK s : s = inbox'
  OBVIOUS
<1>2. QED
  BY <1>1, TasksKept, PostedKept, RecordIsNext

-----------------------------------------------------------------------------
(***************************************************************************)
(* The convergence and its target.                                         *)
(***************************************************************************)
\* What it has to stop, and how far it is.
Targets ==
    /\ phase \notin {"converge", "dead"} => conv = "off"
    /\ conv = "off" => target = "none"
    /\ target # "none" => record = target
    /\ conv \in {"cancel", "speak_join", "force_speak", "force_alone", "force_done"} => target = "speak"
    /\ conv \in {"llm_abort", "body_join", "force_llm", "force_body"} => target = "reasoner"
    /\ conv \in {"tts_abort", "join", "force_close", "force_tts", "force_kill", "force_join"} => target # "none"
    /\ conv = "end" => body = "off"

Stops ==
    /\ target = "reasoner" /\ conv \notin {"llm_abort", "force_llm", "end"} => llm # "generating"
    /\ conv \notin {"off", "llm_abort"} => ~(op = "begin" /\ owner = 0)
    /\ conv \notin {"off", "end", "speak_join"} => speak # "created"

\* Where the convergence stands, and what it has stopped.
LEMMA ConvergingIs == Converging <=> Targets /\ Stops
  BY DEF Converging, Targets, Stops

\* A convergence starts with the worker that is in _in_flight.
LEMMA ConvergesTargets ==
    ASSUME IInv, Converges, phase \notin {"converge", "dead"},
           UNCHANGED <<llm, body, thought, op, owner, speak, spoke, record>>
    PROVE  Targets' /\ Stops'
<1>1. /\ conv' = FirstStep /\ target' = Target /\ phase' = "converge"
  BY DEF Converges
<1>2. /\ op \notin {"off", "over"} => body # "off"
      /\ body # "off" => record = "reasoner"
      /\ speak # "off" => record = "speak"
      /\ record \in {"none", "reasoner", "speak"} /\ speak \in {"off", "created", "waiting"}
  BY DEF IInv, Record, TypeOK
<1>3. CASE Target = "reasoner"
  <2>1. record = "reasoner" /\ speak = "off"
    BY <1>2, <1>3 DEF Target
  <2>2. FirstStep = IF body # "off" THEN "llm_abort" ELSE "force_llm"
    BY <1>3 DEF FirstStep
  <2>3. QED
    BY <1>1, <1>2, <1>3, <2>1, <2>2 DEF Targets, Stops
<1>4. CASE Target = "speak"
  <2>1. record = "speak" /\ body = "off"
    BY <1>2, <1>4 DEF Target
  <2>2. FirstStep = CASE speak = "waiting" -> "cancel" [] speak = "created" -> "speak_join" [] OTHER -> "force_speak"
    BY <1>4 DEF FirstStep
  <2>3. QED
    BY <1>1, <1>2, <1>4, <2>1, <2>2 DEF Targets, Stops
<1>5. CASE Target = "none"
  <2>1. FirstStep = "end" /\ body = "off"
    BY <1>2, <1>5 DEF FirstStep, Target
  <2>2. QED
    BY <1>1, <1>2, <1>5, <2>1 DEF Targets, Stops
<1>6. QED
  BY <1>3, <1>4, <1>5 DEF Target

\* Where the reasoner's operation stands when it is not at its beginning.
LEMMA NotBeginning ==
    ASSUME IInv, target = "speak" \/ body = "off" \/ llm = "generating"
    PROVE  op # "begin"
  BY Standing DEF IInv, Frames

\* Its steps stay with their target.
LEMMA ConvergenceTargets ==
    ASSUME IInv, Convergence, phase # "dead"
    PROVE  Targets' /\ Stops'
<1>0. /\ Targets /\ Stops
      /\ target \in {"none", "reasoner", "speak"} /\ conv \in {"off", "end"} \cup Level1 \cup Level2
      /\ target = "speak" => op \in {"off", "over"} /\ body = "off" /\ llm # "generating"
      /\ body # "off" => record = "reasoner"
      /\ speak # "off" => record = "speak"
      /\ speak \in {"off", "created", "waiting"}
  BY ConvergingIs, Standing DEF IInv, TypeOK, Record
<1>1. ASSUME CancelsControl, conv \in {"llm_abort", "cancel"}, llm # "generating",
             UNCHANGED <<phase, target, record, body, llm, speak>>, owner # 0
      PROVE  Targets' /\ Stops'
  <2>1. CASE state = "COMPLETED"
    <3>1. conv' = IF target = "speak" THEN "speak_join" ELSE "body_join"
      BY <1>1, <2>1 DEF CancelsControl, Step
    <3>2. op' # "begin"
      BY <1>0, <1>1, <2>1, StopsIs DEF CancelsControl
    <3>3. QED
      BY <1>0, <1>1, <3>1, <3>2 DEF Targets, Stops
  <2>2. CASE state # "COMPLETED"
    <3>1. conv' \in {"tts_abort", "join"} /\ owner' = owner
      BY <1>1, <2>2 DEF CancelsControl, Step
    <3>2. QED
      BY <1>0, <1>1, <3>1 DEF Targets, Stops
  <2>3. QED
    BY <2>1, <2>2
<1>2. CASE Level1Step
  <2>0. UNCHANGED <<phase, target, record, body, llm, thought, speak>>
    BY <1>2 DEF Level1Step
  <2>1. CASE AbortReasoner
    <3>1. CASE owner # 0
      BY <1>1, <2>0, <2>1, <3>1 DEF AbortReasoner
    <3>2. CASE owner = 0
      <4>1. conv' = "body_join" /\ op' # "begin" /\ llm # "generating" /\ conv = "llm_abort"
        BY <2>1, <3>2, StopsIs DEF AbortReasoner, CancelsOperation, Step
      <4>2. QED
        BY <1>0, <2>0, <4>1 DEF Targets, Stops
    <3>3. QED
      BY <3>1, <3>2
  <2>2. CASE AbortSpeak
    <3>1. CASE owner # 0
      BY <1>0, <1>1, <2>0, <2>2, <3>1 DEF AbortSpeak, Targets
    <3>2. CASE owner = 0
      BY <1>0, <2>0, <2>2, <3>2 DEF AbortSpeak, Step, Targets, Stops
    <3>3. QED
      BY <3>1, <3>2
  <2>3. CASE SilenceSpeech
    BY <1>0, <2>0, <2>3 DEF SilenceSpeech, Step, Targets, Stops
  <2>4. CASE JoinSpeech
    <3>1. conv = "join" /\ conv' = (IF target = "speak" THEN "speak_join" ELSE "body_join") /\ op' # "begin"
      BY <1>0, <2>4, StopsIs DEF JoinSpeech, Releases, Step
    <3>2. QED
      BY <1>0, <2>0, <3>1 DEF Targets, Stops
  <2>5. CASE JoinReasoner
    BY <1>0, <2>0, <2>5 DEF JoinReasoner, Step, Targets, Stops
  <2>6. CASE JoinSpeak
    BY <1>0, <2>0, <2>6 DEF JoinSpeak, Step, Targets, Stops
  <2>7. CASE Timeout
    <3>1. /\ conv \in {"llm_abort", "tts_abort", "join", "body_join", "speak_join"}
          /\ conv = "llm_abort" => llm = "generating"
          /\ conv = "speak_join" => speak = "waiting"
      BY <2>7 DEF Timeout, Waits
    <3>2. conv' = (IF target = "speak" THEN "force_speak" ELSE "force_llm") /\ owner' = owner
      BY <2>7 DEF Timeout, Step
    <3>3. op' = op \/ op' # "begin"
      BY <2>7, StopsIs DEF Timeout, CancelsOperation
    <3>4. conv = "llm_abort" => op # "begin"
      BY <3>1, NotBeginning
    <3>5. QED
      BY <1>0, <2>0, <3>1, <3>2, <3>3, <3>4 DEF Targets, Stops
  <2>8. QED
    BY <1>2, <2>1, <2>2, <2>3, <2>4, <2>5, <2>6, <2>7 DEF Level1Step
<1>3. CASE Level2Step
  <2>0. UNCHANGED <<phase, target, record, body, thought, speak>>
    BY <1>3 DEF Level2Step
  <2>1. CASE ForceLLM
    BY <1>0, <2>0, <2>1 DEF ForceLLM, Destroyed, Step, Targets, Stops
  <2>2. CASE ForceSpeak
    BY <1>0, <2>0, <2>2 DEF ForceSpeak, Step, Targets, Stops
  <2>3. CASE ForceControl
    <3>1. /\ conv = "force_close" /\ llm' = llm /\ owner' = owner
          /\ op' = op \/ op' # "begin"
          /\ conv' = IF owner # 0 THEN "force_tts" ELSE IF target = "speak" THEN "force_alone" ELSE "force_body"
      BY <2>3, StopsIs DEF ForceControl, Step, CancelsOperation
    <3>2. QED
      BY <1>0, <2>0, <3>1 DEF Targets, Stops
  <2>4. CASE ForceChild
    BY <1>0, <2>0, <2>4 DEF ForceChild, Step, Targets, Stops
  <2>5. CASE ForceTask
    BY <1>0, <2>0, <2>5 DEF ForceTask, Step, Targets, Stops
  <2>6. CASE ForceJoin
    <3>1. conv = "force_join" /\ llm' = llm /\ op' # "begin"
          /\ conv' = IF target = "speak" THEN "force_done" ELSE "force_body"
      BY <1>0, <2>6, StopsIs DEF ForceJoin, Releases, Step
    <3>2. QED
      BY <1>0, <2>0, <3>1 DEF Targets, Stops
  <2>7. QED
    BY <1>3, <2>1, <2>2, <2>3, <2>4, <2>5, <2>6 DEF Level2Step
<1>4. CASE ForceEnds
  <2>1. /\ UNCHANGED <<target, record, body, llm, op, owner, speak>>
        /\ (conv' = conv /\ phase' = "dead") \/ (conv' = "end" /\ phase' = phase)
        /\ (conv = "force_body" /\ body = "off") \/ conv = "force_done"
    BY <1>4 DEF ForceEnds, Checked, Dies, Step
  <2>2. QED
    BY <1>0, <2>1 DEF Targets, Stops
<1>5. CASE ConvergenceEnds
  <2>1. /\ UNCHANGED <<record, body, op, owner, speak>>
        /\ \/ conv' = "off" /\ target' = "none"
           \/ phase' = "dead" /\ UNCHANGED <<conv, target, llm>> 
        /\ conv = "end"
    BY <1>5 DEF ConvergenceEnds, Dies
  <2>2. QED
    BY <1>0, <2>1 DEF Targets, Stops
<1>6. QED
  BY <1>2, <1>3, <1>4, <1>5 DEF Convergence

\* And nobody else moves it, or begins a speech behind it.
LEMMA ConvergingKept ==
    ASSUME IInv, [Next]_vars
    PROVE  Converging'
<1>0. /\ Targets /\ Stops /\ Tasks /\ Posted(inbox) /\ inbox \in Seq(Items)
  BY ConvergingIs, RecordIs DEF IInv, TypeOK
<1>1. ASSUME Child \/ Runner \/ Press \/ UNCHANGED vars PROVE Targets' /\ Stops'
  BY <1>0, <1>1 DEF Child, ChildReleases, ChildEnds, ChildDies, Destroyed, Runner, Press, Targets, Stops
<1>2. ASSUME Operation PROVE Targets' /\ Stops'
  <2>1. UNCHANGED <<turn, bodyVars, speakVars, managerVars, convVars>>
    BY <1>2 DEF Operation
  <2>2. op' # "begin"
    <3>1. CASE OpTakesTerminal
      BY <3>1, TerminalIs DEF IInv, Ending, FinishesSpeech, ClosesSpeech, FailsSpeech, CancelsSpeech,
         GoesOn, Goes, OverAs
    <3>2. CASE ~OpTakesTerminal
      BY <1>2, <3>2 DEF Operation, OpBegins, OpTakesFragment, OpFeeds, OpRefused, OpExpires,
         OpFinishes, OpCancels, OpSilences, OpReleases, FinishesSpeech, CancelsSpeech, GoesOn, Goes, OverAs
    <3>3. QED
      BY <3>1, <3>2
  <2>3. llm' = "generating" => llm = "generating" \/ (op = "begin" /\ owner = 0)
    BY <1>2 DEF Operation, OpBegins, OpTakesFragment, OpFeeds, OpRefused, OpTakesTerminal, OpExpires,
         OpFinishes, OpCancels, OpSilences, OpReleases, Destroyed
  <2>4. QED
    BY <1>0, <2>1, <2>2, <2>3 DEF Targets, Stops
<1>3. ASSUME Body PROVE Targets' /\ Stops'
  <2>1. UNCHANGED <<phase, record, convVars, llm, speak, owner>> /\ body # "off"
    BY <1>3 DEF Body, BodyEnds, BodyExpires, BodyRaises, BodyReaps, CancelsOperation
  <2>2. op' = op \/ op' # "begin"
    BY <1>3, StopsIs DEF Body, BodyEnds, BodyExpires, BodyRaises, BodyReaps, CancelsOperation
  <2>3. QED
    BY <1>0, <2>1, <2>2 DEF Targets, Stops
<1>4. ASSUME Action PROVE Targets' /\ Stops'
  <2>1. UNCHANGED <<phase, record, convVars, llm, body, op>> /\ speak # "off" /\ speak' # "created"
    BY <1>4 DEF Action, SpeakStarts, SpeakEnds
  <2>2. op = "over"
    BY <1>0, <2>1 DEF Tasks
  <2>3. QED
    BY <1>0, <2>1, <2>2 DEF Targets, Stops
<1>5. ASSUME StartTurn PROVE Targets' /\ Stops'
  BY <1>0, <1>5 DEF StartTurn, Targets, Stops
<1>6. ASSUME Handler PROVE Targets' /\ Stops'
  <2>1. phase \notin {"converge", "dead"} /\ conv = "off" /\ target = "none"
    BY <1>0, <1>6 DEF Handler, HandlePress, HandleError, HandleReasoned, HandleSpoken, Receives, Targets
  <2>2. UNCHANGED <<llm, body, thought, op, owner, spoke>>
    BY <1>6 DEF Handler
  <2>3. CASE (HandlePress \/ HandleError) /\ UNCHANGED <<speak, record>>
    <3>1. CASE Converges
      BY <2>1, <2>2, <2>3, <3>1, ConvergesTargets
    <3>2. CASE UNCHANGED convVars
      BY <2>1, <3>2 DEF Targets, Stops
    <3>3. QED
      BY <2>3, <3>1, <3>2 DEF HandlePress, HandleError
  <2>4. CASE HandleReasoned \/ HandleSpoken
    <3>1. UNCHANGED convVars
      BY <2>4 DEF HandleReasoned, HandleSpoken
    <3>2. QED
      BY <2>1, <3>1 DEF Targets, Stops
  <2>5. QED
    BY <1>6, <2>3, <2>4 DEF Handler, HandlePress, HandleError
<1>7. ASSUME Convergence, Alive PROVE Targets' /\ Stops'
  BY <1>7, ConvergenceTargets DEF Alive
<1>8. Targets' /\ Stops'
  BY <1>1, <1>2, <1>3, <1>4, <1>5, <1>6, <1>7 DEF Next
<1>9. QED
  BY <1>8 DEF Converging, Targets, Stops

-----------------------------------------------------------------------------
(***************************************************************************)
(* The answer finds its control.                                           *)
(***************************************************************************)
Begun == op \in {"generate", "feed", "finish"} => owner = turn /\ ~adopted
Answered == phase = "think" /\ (thought = "response" \/ (op = "over" /\ after = "response" /\ body = "await")) => Answer
Awaited == speak = "created" => Answer

\* A step that leaves the control to its owner.
LEMMA AnswerStays ==
    ASSUME Moves, ~Opens, owner' = owner, turn' = turn, adopted' = adopted, Answer
    PROVE  Answer'
<1>1. CASE UNCHANGED streamVars \/ (\E f \in Fragments : Feed(f)) \/ \E text \in Seq(Fragments) : Continues(text) /\ Finish(text)
  BY <1>1 DEF Feed, Finish, Answer
<1>2. CASE Closes
  BY <1>2 DEF Closes, Cancel, Fail, CloseUnused, Forced, ForceClose, Drop, Answer
<1>3. CASE Touches
  BY <1>3 DEF Touches, Adopt, CancelKill, Killed, ForceTTS, Rebuilt, Freed, Answer
<1>4. CASE RunnerStep
  <2>1. terminal' = terminal
    BY <1>4 DEF RunnerStep, RunnerStops, RunnerTakes, RunnerSynthesizes, RunnerHears, RunnerRejected,
       RunnerLosesTTS, RunnerPlays, RunnerDrained, RunnerCompletes, Raises
  <2>2. QED
    BY <1>4, <2>1, RunnerState DEF Answer
<1>5. QED
  BY <1>1, <1>2, <1>3, <1>4 DEF Moves

\* An answer is reported with its control open to adoption.
LEMMA OperationAnswers ==
    ASSUME IInv, Operation
    PROVE  Begun' /\ Answered' /\ Awaited'
<1>0. /\ UNCHANGED <<turn, phase, thought, body, speak>>
      /\ op \notin {"off", "over"}
      /\ after # "response" /\ thought # "response" /\ speak = "off"
      /\ Begun
  <2>1. op \notin {"off", "over"}
    BY DEF Operation, OpBegins, OpTakesFragment, OpFeeds, OpRefused, OpTakesTerminal, OpExpires,
       OpFinishes, OpCancels, OpSilences, OpReleases
  <2>2. QED
    BY <2>1, RecordIs DEF IInv, Tasks, Answers, Begun, Operation
<1>1. ASSUME op' \notin {"generate", "feed", "finish"}, after' # "response" PROVE Begun' /\ Answered' /\ Awaited'
  BY <1>0, <1>1 DEF Begun, Answered, Awaited
<1>2. ASSUME op \in {"generate", "feed", "finish"}, after' # "response", UNCHANGED <<owner, adopted>>
      PROVE  Begun' /\ Answered' /\ Awaited'
  BY <1>0, <1>2 DEF Begun, Answered, Awaited
<1>3. ASSUME NEW text \in Seq(Fragments), Continues(text), FinishesSpeech(text), op \in {"generate", "feed", "finish"}
      PROVE  Begun' /\ Answered' /\ Awaited'
  <2>1. CASE Finish(text)
    <3>1. text # <<>>
      <4>1. Len(text) # 0
        BY <1>3, ControlAssumption DEF Continues
      <4>2. QED
        BY <4>1
    <3>2. Answer' /\ UNCHANGED <<owner, adopted>>
      BY <1>0, <1>3, <2>1, <3>1 DEF Begun, Finish, FinishesSpeech, Answer
    <3>3. QED
      BY <1>0, <1>3, <3>2 DEF Begun, Answered, Awaited
  <2>2. CASE ~Finish(text)
    <3>1. after' # "response" /\ UNCHANGED <<owner, adopted>>
      BY <1>0, <1>3, <2>2 DEF FinishesSpeech, Feed, Goes, GoesOn, OverAs
    <3>2. QED
      BY <1>2, <1>3, <3>1
  <2>3. QED
    BY <2>1, <2>2
<1>4. CASE OpBegins
  BY <1>0, <1>4 DEF OpBegins, Open, Goes, GoesOn, OverAs, Begun, Answered, Awaited
<1>5. CASE OpTakesFragment \/ OpFeeds \/ OpExpires
  BY <1>0, <1>2, <1>5 DEF OpTakesFragment, OpFeeds, Feed, OpExpires, Goes, GoesOn
<1>6. CASE OpRefused \/ OpCancels \/ OpSilences \/ OpReleases
  BY <1>0, <1>1, <1>6 DEF OpRefused, OpCancels, CancelsSpeech, OpSilences, OpReleases, Goes, GoesOn, OverAs
<1>7. CASE OpTakesTerminal
  <2>1. CASE Ending(Head(responses))
    BY <1>1, <2>1 DEF Ending, ClosesSpeech, FailsSpeech, CancelsSpeech, Goes, OverAs
  <2>2. CASE ~Ending(Head(responses))
    BY <1>3, <1>7, <2>2, TerminalIs DEF IInv
  <2>3. QED
    BY <2>1, <2>2
<1>8. CASE OpFinishes
  <2>1. PICK text \in Seq(Fragments) : text = held
    BY DEF IInv, TypeOK
  <2>2. Continues(held) /\ FinishesSpeech(held) /\ op = "finish"
    BY <1>8, HeldContinues DEF IInv, OpFinishes
  <2>3. Continues(text) /\ FinishesSpeech(text)
    BY <2>1, <2>2 DEF FinishesSpeech, Finish, FinishWaits, Remainder, Full, Feed
  <2>4. QED
    BY <1>3, <2>2, <2>3
<1>9. QED
  BY <1>4, <1>5, <1>6, <1>7, <1>8 DEF Operation

\* A convergence takes it from no answer that still waits.
LEMMA ConvergenceAnswers ==
    ASSUME IInv, Convergence, phase # "dead"
    PROVE  Begun' /\ Answered' /\ Awaited'
<1>0. /\ Targets /\ Stops /\ Begun /\ Awaited
      /\ target = "speak" => op \in {"off", "over"}
      /\ Moves /\ conv # "off"
  <2>1. conv # "off"
    BY DEF Convergence, Level1Step, AbortReasoner, AbortSpeak, SilenceSpeech, JoinSpeech, JoinReasoner, JoinSpeak, Timeout,
       Waits, Level2Step, ForceLLM, ForceSpeak, ForceControl, ForceChild, ForceTask, ForceJoin, ForceEnds, ConvergenceEnds
  <2>2. QED
    BY <2>1, ConvergingIs, Standing, ConvergenceMoves DEF IInv, Answers, Begun, Awaited
<1>1. Answered'
  <2>1. phase = "converge"
    BY <1>0 DEF Targets, IInv, TypeOK
  <2>2. phase' # "think"
    BY <2>1 DEF Convergence, Level1Step, Level2Step, ForceEnds, Checked, Dies, ConvergenceEnds
  <2>3. QED
    BY <2>2 DEF Answered
<1>2. Begun'
  <2>1. UNCHANGED <<turn, adopted>>
    BY DEF Convergence, Level1Step, Level2Step, ForceEnds, ConvergenceEnds, AbortReasoner, AbortSpeak,
       SilenceSpeech, JoinSpeech, JoinReasoner, JoinSpeak, Timeout, CancelsControl, CancelsOperation, Releases,
       ForceLLM, ForceSpeak, ForceControl, ForceChild, ForceTask, ForceJoin, Cancel, CancelKill, ForceClose,
       ForceTTS, ForceKill, Drop
  <2>2. (op' = op /\ owner' = owner) \/ op' \notin {"generate", "feed", "finish"}
    BY <1>0, StopsIs DEF Convergence, Level1Step, Level2Step, ForceEnds, ConvergenceEnds, AbortReasoner, AbortSpeak,
       SilenceSpeech, JoinSpeech, JoinReasoner, JoinSpeak, Timeout, CancelsControl, CancelsOperation, Releases,
       ForceLLM, ForceSpeak, ForceControl, ForceChild, ForceTask, ForceJoin
  <2>3. QED
    BY <1>0, <2>1, <2>2 DEF Begun
<1>3. Awaited'
  <2>1. SUFFICES ASSUME speak' = "created" PROVE Answer'
    BY DEF Awaited
  <2>2. speak = "created"
    BY <2>1 DEF Convergence, Level1Step, Level2Step, ForceEnds, ConvergenceEnds
  <2>3. conv \in {"end", "speak_join"} /\ ~Opens
    BY <1>0, <2>2, NotOpened DEF Stops
  <2>4. UNCHANGED <<turn, owner, adopted>>
    BY <2>2, <2>3 DEF Convergence, Level1Step, Level2Step, ForceEnds, ConvergenceEnds, AbortReasoner, AbortSpeak,
       SilenceSpeech, JoinSpeech, JoinReasoner, JoinSpeak, Timeout, Waits,
       ForceLLM, ForceSpeak, ForceControl, ForceChild, ForceTask, ForceJoin
  <2>5. QED
    BY <1>0, <2>2, <2>3, <2>4, AnswerStays DEF Awaited
<1>4. QED
  BY <1>1, <1>2, <1>3

\* Together.
LEMMA AnswersKept ==
    ASSUME IInv, [Next]_vars
    PROVE  Answers'
<1>0. /\ Begun /\ Answered /\ Awaited /\ Tasks /\ Moves
  BY RecordIs, NextMoves DEF IInv, Answers, Begun, Answered, Awaited
<1>1. ASSUME Child \/ Press \/ UNCHANGED vars PROVE Begun' /\ Answered' /\ Awaited'
  BY <1>0, <1>1 DEF Child, Press, Begun, Answered, Awaited, Answer
<1>2. ASSUME Body PROVE Begun' /\ Answered' /\ Awaited'
  <2>1. UNCHANGED <<turn, owner, phase, speak, adopted, state, terminal>> /\ body # "off"
    BY <1>2 DEF Body, BodyEnds, BodyExpires, BodyRaises, BodyReaps, CancelsOperation
  <2>2. op' = op \/ op' \notin {"generate", "feed", "finish"}
    BY <1>2, StopsIs DEF Body, BodyEnds, BodyExpires, BodyRaises, BodyReaps, CancelsOperation
  <2>3. Answered'
    <3>1. CASE BodyEnds
      BY <1>0, <2>1, <3>1 DEF BodyEnds, Answered, Answer
    <3>2. CASE BodyExpires \/ BodyReaps \/ BodyRaises
      <4>1. body' # "await" /\ (thought' = thought \/ thought' # "response")
        BY <3>2 DEF BodyExpires, BodyReaps, BodyRaises
      <4>2. QED
        BY <1>0, <2>1, <4>1 DEF Answered, Answer
    <3>3. QED
      BY <1>2, <3>1, <3>2 DEF Body
  <2>4. QED
    BY <1>0, <2>1, <2>2, <2>3 DEF Begun, Awaited, Answer
<1>3. ASSUME Runner PROVE Begun' /\ Answered' /\ Awaited'
  <2>1. UNCHANGED <<turn, owner, phase, speak, opVars, bodyVars>> /\ RunnerStep
    BY <1>3 DEF Runner
  <2>2. adopted' = adopted /\ terminal' = terminal
    BY <2>1 DEF RunnerStep, RunnerStops, RunnerTakes, RunnerSynthesizes, RunnerHears, RunnerRejected,
       RunnerLosesTTS, RunnerPlays, RunnerDrained, RunnerCompletes, Raises
  <2>3. Answer => Answer'
    BY <2>1, <2>2, RunnerState DEF Answer
  <2>4. QED
    BY <1>0, <2>1, <2>2, <2>3 DEF Begun, Answered, Awaited
<1>4. ASSUME Action PROVE Begun' /\ Answered' /\ Awaited'
  <2>1. speak # "off" /\ speak' # "created" /\ UNCHANGED <<phase, opVars, body, thought>>
    BY <1>4 DEF Action, SpeakStarts, SpeakEnds
  <2>2. op = "over" /\ record = "speak" /\ phase # "think"
    BY <1>0, <2>1 DEF Tasks
  <2>3. QED
    BY <2>1, <2>2 DEF Begun, Answered, Awaited
<1>5. ASSUME StartTurn PROVE Begun' /\ Answered' /\ Awaited'
  <2>1. speak' = "off" /\ op' = "begin" /\ thought' = "none"
    BY <1>0, <1>5 DEF StartTurn, Tasks, IInv, TypeOK
  <2>2. QED
    BY <2>1 DEF Begun, Answered, Awaited
<1>6. ASSUME Handler PROVE Begun' /\ Answered' /\ Awaited'
  <2>1. UNCHANGED <<streamVars, turn, owner, opVars, body, thought>>
    BY <1>6 DEF Handler
  <2>2. phase' = phase \/ phase' # "think"
    BY <1>6 DEF Handler, HandlePress, HandleError, HandleReasoned, HandleSpoken, Converges, Concludes, Dies
  <2>3. speak' = speak \/ (phase = "think" /\ thought = "response")
    BY <1>6 DEF Handler, HandleReasoned
  <2>4. QED
    BY <1>0, <2>1, <2>2, <2>3 DEF Begun, Answered, Awaited, Answer
<1>7. Begun' /\ Answered' /\ Awaited'
  BY <1>1, <1>2, <1>3, <1>4, <1>5, <1>6, OperationAnswers, ConvergenceAnswers DEF Next, Alive
<1>8. QED
  BY <1>7 DEF Answers, Begun, Answered, Awaited

-----------------------------------------------------------------------------
(***************************************************************************)
(* The theorems.                                                           *)
(***************************************************************************)
\* Every step keeps the inductive invariant.
LEMMA IInvKept == IInv /\ [Next]_vars => IInv'
<1> SUFFICES ASSUME IInv, [Next]_vars PROVE IInv'
  OBVIOUS
<1>1. TypeOK' /\ Flow' /\ Limits' /\ Endgame'
  BY StreamKept, TypesKept
<1>2. Quiet' /\ Frames' /\ Texts'
  BY QuietKept, FramesKept, TextsKept
<1>3. Voice' /\ Cleanup'
  BY VoiceKept, CleanupKept
<1>4. Record' /\ Converging' /\ Answers'
  BY RecordKept, ConvergingKept, AnswersKept
<1>5. QED
  BY <1>1, <1>2, <1>3, <1>4 DEF IInv

\* Every reachable state satisfies the inductive invariant: of the control and its task
\* (streaming.py), of the reasoner and its child, of the manager's notices and of converge().
THEOREM SpeechInvariant == Spec => []IInv
  BY InitIInv, IInvKept, PTL DEF Spec

\* A fragment admitted by feed() or finish() is spoken once and in order, both limits of the
\* queue hold and its count of bytes is its weight, and a speech that completes was adopted and
\* has played exactly its text, whatever interrupts it.
THEOREM SpeechIsFaithful == Spec => []SpokenAsAdmitted
<1>1. ASSUME IInv PROVE SpokenAsAdmitted
  <2>1. TypeOK /\ NothingLost
    BY <1>1 DEF IInv, Flow, Going, NothingLost
  <2>2. PendingBounded
    BY <1>1, ControlAssumption DEF IInv, TypeOK, StreamTypeOK, Limits, PendingBounded
  <2>3. CompletionIsEarned
    BY <1>1 DEF IInv, Endgame, CompletionIsEarned
  <2>4. QED
    BY <2>1, <2>2, <2>3 DEF SpokenAsAdmitted
<1>2. QED
  BY <1>1, SpeechInvariant, PTL

\* A control that was released is not speaking any more, and execute() finds the control of its
\* own turn with the text of the answer.
THEOREM ControlHasOneOwner == Spec => []ControlIsOwned
<1>1. ASSUME IInv PROVE ControlIsOwned
  BY <1>1 DEF IInv, Voice, Answers, Answer, Over, ControlIsOwned, ReleasedIsOver, AnswerHasControl
<1>2. QED
  BY <1>1, SpeechInvariant, PTL

\* Once cancel(), fail() or close_unused() has closed the control, its task sends no request to
\* the TTS child and publishes no completion, except while level 2 is killing that child.
THEOREM ClosedControlIsSilent == Spec => ClosedIsSilent
<1> DEFINE Silent == conv \notin Level2 /\ state \in Closed /\ state' \in Closed \cup {"COMPLETED"} =>
                        /\ ~(tts = "ready" /\ tts' = "busy")
                        /\ completions' <= completions
<1>1. ASSUME IInv, [Next]_vars PROVE [Silent]_vars
  <2>1. SUFFICES ASSUME conv \notin Level2, state \in Closed
                 PROVE  ~(tts = "ready" /\ tts' = "busy") /\ completions' <= completions
    OBVIOUS
  <2>2. runner \notin {"batch", "adopt"} /\ completions \in 0 .. 1
    BY <1>1, <2>1 DEF IInv, Quiet, Level2, TypeOK, StreamTypeOK
  <2>3. ~(tts = "ready" /\ tts' = "busy")
    <3>1. CASE Opens
      BY <3>1 DEF Opens, Open
    <3>2. CASE ~Opens
      BY <1>1, <2>2, <3>2, NextMoves, MovesIs DEF RunnerSynthesizes
    <3>3. QED
      BY <3>1, <3>2
  <2>4. completions' \in {completions, 0}
    <3>1. CASE UNCHANGED streamVars \/ Opens \/ (\E f \in Fragments : Feed(f)) \/ Closes \/ Touches
      BY <3>1 DEF Opens, Open, Feed, Closes, Cancel, Fail, CloseUnused, Forced, ForceClose, Kill, Touches, Adopt,
         CancelKill, Killed, ForceTTS, Rebuilt, Freed
    <3>2. CASE \E text \in Seq(Fragments) : Continues(text) /\ Finish(text)
      BY <3>2 DEF Finish
    <3>3. CASE RunnerStep
      BY <2>2, <3>3 DEF RunnerStep, RunnerStops, RunnerTakes, RunnerSynthesizes, RunnerHears, RunnerRejected,
         RunnerLosesTTS, RunnerPlays, RunnerDrained, RunnerCompletes
    <3>4. QED
      BY <1>1, <3>1, <3>2, <3>3, NextMoves DEF Moves
  <2>5. QED
    BY <2>2, <2>3, <2>4
<1>2. QED
  BY <1>1, SpeechInvariant, PTL DEF Spec, ClosedIsSilent

=============================================================================
