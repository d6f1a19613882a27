------------------------------ MODULE Induction ------------------------------
(***************************************************************************)
(* Induction over the natural numbers, without an operator as a parameter: *)
(* what holds of 0, and of n + 1 if of n, is a set that holds all naturals.*)
(* And what follows from it of the sequences the models are built from:    *)
(* FlattenSeq, one sequence at a time.                                     *)
(***************************************************************************)
EXTENDS Integers, SequencesExt, FiniteSetTheorems, SequenceTheorems, TLAPS

(* A set of naturals that is not empty has a least element: its initial    *)
(* segments are finite sets, and inclusion of those is well-founded.       *)
LEMMA LeastNatural ==
    ASSUME NEW T \in SUBSET Nat, T # {}
    PROVE  \E m \in T : \A k \in T : m <= k
<1> DEFINE segments == {1..n : n \in T}
<1>1. segments \subseteq FiniteSubsetsOf(Nat)
  BY FS_Interval DEF FiniteSubsetsOf
<1>2. segments # {}
  OBVIOUS
<1>3. PICK s \in segments : \A r \in segments : <<r, s>> \notin StrictSubsetOrdering(Nat)
  <2> HIDE DEF segments
  <2>1. QED
    BY <1>1, <1>2, FS_StrictSubsetOrderingWellFounded, WFMin
<1>4. PICK m \in T : s = 1..m
  BY <1>3
<1>5. ASSUME NEW k \in T, k < m PROVE FALSE
  <2>1. 1..k \subseteq 1..m /\ m \in 1..m /\ m \notin 1..k
    BY <1>5
  <2>2. <<1..k, 1..m>> \in StrictSubsetOrdering(Nat)
    BY <2>1 DEF StrictSubsetOrdering
  <2>3. QED
    BY <1>3, <1>4, <2>2
<1>6. QED
  BY <1>5

(* Induction: a set with 0 and the successor of each of its naturals.      *)
LEMMA Induct ==
    ASSUME NEW A, 0 \in A, \A n \in Nat : n \in A => n + 1 \in A
    PROVE  Nat \subseteq A
<1> DEFINE T == Nat \ A
<1> SUFFICES ASSUME T # {} PROVE FALSE
  OBVIOUS
<1>1. PICK m \in T : \A k \in T : m <= k
  <2>1. T \in SUBSET Nat
    OBVIOUS
  <2> HIDE DEF T
  <2>2. QED
    BY <2>1, LeastNatural
<1>2. m - 1 \in Nat
  OBVIOUS
<1>3. m - 1 \in A
  BY <1>1, <1>2
<1>4. QED
  BY <1>2, <1>3

(* The largest of a set of numbers up to n + 1 that n + 1 is in. *)
LEMMA MaxOf ==
  ASSUME NEW n \in Nat, NEW s \in SUBSET (1..n + 1), n + 1 \in s
  PROVE Max(s) = n + 1 /\ s \ {Max(s)} \in SUBSET (1..n)
<1>1. \A y \in s : n + 1 >= y
  OBVIOUS
<1>2. ASSUME NEW x \in s, \A y \in s : x >= y PROVE x = n + 1
  BY <1>2
<1>3. Max(s) = n + 1
  BY <1>1, <1>2 DEF Max
<1>4. QED
  BY <1>3

-----------------------------------------------------------------------------
(* The recursion FlattenSeq is defined by. *)
Flattening(f, seqs, n) ==
    f = [i \in 1..n |-> IF i = 1 THEN seqs[i] ELSE f[i - 1] \o seqs[i]]

(* There is such a function, for any number of sequences. *)
LEMMA FlatteningExists ==
    ASSUME NEW seqs, NEW n \in Nat
    PROVE  \E f : Flattening(f, seqs, n)
<1> DEFINE A == {k \in Nat : \E f : Flattening(f, seqs, k)}
<1>1. 0 \in A
  <2> DEFINE f == [i \in 1..0 |-> seqs[i]]
  <2>1. Flattening(f, seqs, 0)
    BY DEF Flattening
  <2>2. QED
    BY <2>1
<1>2. ASSUME NEW k \in Nat, k \in A PROVE k + 1 \in A
  <2>1. PICK f : Flattening(f, seqs, k)
    BY <1>2
  <2> DEFINE h == [i \in 1..k + 1 |->
                      IF i = 1 THEN seqs[i] ELSE f[i - 1] \o seqs[i]]
  <2>2. ASSUME NEW i \in 1..k + 1
        PROVE  h[i] = IF i = 1 THEN seqs[i] ELSE h[i - 1] \o seqs[i]
    <3>1. CASE i = 1
      BY <3>1
    <3>2. CASE i # 1
      <4>1. i - 1 \in 1..k
        BY <3>2
      <4>2. h[i - 1] = IF i - 1 = 1 THEN seqs[i - 1] ELSE f[i - 1 - 1] \o seqs[i - 1]
        BY <4>1
      <4>3. f[i - 1] = IF i - 1 = 1 THEN seqs[i - 1] ELSE f[i - 1 - 1] \o seqs[i - 1]
        BY <2>1, <4>1 DEF Flattening
      <4>4. h[i - 1] = f[i - 1]
        BY <4>2, <4>3
      <4>5. QED
        BY <3>2, <4>4
    <3>3. QED
      BY <3>1, <3>2
  <2>3. Flattening(h, seqs, k + 1)
    BY <2>2 DEF Flattening
  <2>4. QED
    BY <2>3
<1>3. Nat \subseteq A
  <2> HIDE DEF A
  <2>1. QED
    BY <1>1, <1>2, Induct
<1>4. QED
  BY <1>3

(* FlattenSeq is the last value of such a function. *)
LEMMA Flattened ==
    ASSUME NEW seqs, NEW n \in Nat \ {0}, Len(seqs) = n
    PROVE  \E f : Flattening(f, seqs, n) /\ FlattenSeq(seqs) = f[n]
<1> DEFINE f == CHOOSE f : Flattening(f, seqs, n)
<1>1. Flattening(f, seqs, n)
  BY FlatteningExists
<1>2. FlattenSeq(seqs) = f[n]
  BY DEF FlattenSeq, Flattening
<1>3. QED
  BY <1>1, <1>2

(* What it says of the first sequence, and of the next. *)
LEMMA FlatteningStep ==
    ASSUME NEW seqs, NEW n \in Nat, NEW f, Flattening(f, seqs, n)
    PROVE  /\ n > 0 => f[1] = seqs[1]
           /\ \A k \in Nat \ {0} : k < n => f[k + 1] = f[k] \o seqs[k + 1]
<1>1. ASSUME n > 0 PROVE f[1] = seqs[1]
  <2>1. 1 \in 1..n
    BY <1>1
  <2>2. QED
    BY <2>1 DEF Flattening
<1>2. ASSUME NEW k \in Nat \ {0}, k < n PROVE f[k + 1] = f[k] \o seqs[k + 1]
  <2>1. k + 1 \in 1..n /\ k + 1 # 1 /\ (k + 1) - 1 = k
    BY <1>2
  <2>2. f[k + 1] = IF k + 1 = 1 THEN seqs[k + 1] ELSE f[(k + 1) - 1] \o seqs[k + 1]
    BY <2>1 DEF Flattening
  <2>3. QED
    BY <2>1, <2>2
<1>3. QED
  BY <1>1, <1>2

(* Of no sequences nothing is left. *)
LEMMA FlattenEmpty == FlattenSeq(<<>>) = <<>>
BY DEF FlattenSeq

(* The last sequence is at the end. *)
LEMMA FlattenAppend ==
    ASSUME NEW S, NEW seqs \in Seq(Seq(S)), NEW s \in Seq(S)
    PROVE  FlattenSeq(Append(seqs, s)) = FlattenSeq(seqs) \o s
<1> SUFFICES ASSUME NEW longer, longer = Append(seqs, s)
             PROVE  FlattenSeq(longer) = FlattenSeq(seqs) \o s
  OBVIOUS
<1> SUFFICES ASSUME NEW n \in Nat, n = Len(seqs)
             PROVE  FlattenSeq(longer) = FlattenSeq(seqs) \o s
  OBVIOUS
<1>1. /\ n + 1 \in Nat \ {0} /\ Len(longer) = n + 1
      /\ \A i \in 1..n : longer[i] = seqs[i]
      /\ longer[n + 1] = s
  BY AppendProperties
<1>2. PICK h : Flattening(h, longer, n + 1) /\ FlattenSeq(longer) = h[n + 1]
  BY <1>1, Flattened
<1>3. CASE n = 0
  <2>1. seqs = <<>> /\ FlattenSeq(seqs) = <<>>
    <3>1. seqs = <<>>
      BY <1>3, EmptySeq
    <3>2. QED
      BY <3>1, FlattenEmpty
  <2>2. h[n + 1] = s
    BY <1>1, <1>2, <1>3 DEF Flattening
  <2>3. QED
    BY <1>2, <2>1, <2>2
<1>4. CASE n # 0
  <2>1. PICK f : Flattening(f, seqs, n) /\ FlattenSeq(seqs) = f[n]
    BY <1>4, Flattened
  <2> DEFINE A == {k \in Nat : k # 0 /\ k <= n => f[k] = h[k]}
  <2>2. /\ f[1] = seqs[1]
        /\ \A k \in Nat \ {0} : k < n => f[k + 1] = f[k] \o seqs[k + 1]
    <3>1. n > 0
      BY <1>4
    <3>2. QED
      BY <2>1, <3>1, FlatteningStep
  <2>3. /\ h[1] = longer[1]
        /\ \A k \in Nat \ {0} : k < n + 1 => h[k + 1] = h[k] \o longer[k + 1]
    <3>1. n + 1 \in Nat /\ n + 1 > 0
      OBVIOUS
    <3>2. QED
      BY <1>2, <3>1, FlatteningStep
  <2>4. 0 \in A
    OBVIOUS
  <2>5. ASSUME NEW k \in Nat, k \in A PROVE k + 1 \in A
    <3>1. CASE k + 1 > n
      BY <3>1
    <3>2. CASE k = 0 /\ k + 1 <= n
      <4>1. 1 \in 1..n
        BY <3>2
      <4>2. f[1] = h[1]
        BY <1>1, <2>2, <2>3, <4>1
      <4>3. QED
        BY <3>2, <4>2
    <3>3. CASE k # 0 /\ k + 1 <= n
      <4>1. k + 1 \in 1..n /\ k < n /\ k < n + 1 /\ k \in Nat \ {0}
        BY <3>3
      <4>2. f[k + 1] = f[k] \o seqs[k + 1] /\ h[k + 1] = h[k] \o longer[k + 1]
        BY <2>2, <2>3, <4>1
      <4>3. f[k] = h[k] /\ longer[k + 1] = seqs[k + 1]
        BY <1>1, <2>5, <4>1
      <4>4. f[k + 1] = h[k + 1]
        BY <4>2, <4>3
      <4>5. QED
        BY <4>4
    <3>4. QED
      BY <3>1, <3>2, <3>3
  <2>6. Nat \subseteq A
    <3> HIDE DEF A
    <3>1. QED
      BY <2>4, <2>5, Induct
  <2>7. f[n] = h[n]
    BY <1>4, <2>6
  <2>8. h[n + 1] = h[n] \o s
    <3>1. n \in Nat \ {0} /\ n < n + 1
      BY <1>4
    <3>2. QED
      BY <1>1, <2>3, <3>1
  <2>9. QED
    BY <1>2, <2>1, <2>7, <2>8
<1>5. QED
  BY <1>3, <1>4

(* And it is a sequence of what they are sequences of. *)
LEMMA FlattenType ==
    ASSUME NEW S, NEW seqs \in Seq(Seq(S))
    PROVE  FlattenSeq(seqs) \in Seq(S)
<1> SUFFICES ASSUME NEW n \in Nat, n = Len(seqs)
             PROVE  FlattenSeq(seqs) \in Seq(S)
  OBVIOUS
<1>1. CASE n = 0
  <2>1. seqs = <<>>
    BY <1>1, EmptySeq
  <2>2. FlattenSeq(seqs) = <<>> /\ <<>> \in Seq(S)
    BY <2>1, FlattenEmpty
  <2>3. QED
    BY <2>2
<1>2. CASE n # 0
  <2>1. PICK f : Flattening(f, seqs, n) /\ FlattenSeq(seqs) = f[n]
    BY <1>2, Flattened
  <2>2. /\ f[1] = seqs[1]
        /\ \A k \in Nat \ {0} : k < n => f[k + 1] = f[k] \o seqs[k + 1]
    <3>1. n > 0
      BY <1>2
    <3>2. QED
      BY <2>1, <3>1, FlatteningStep
  <2>3. \A k \in 1..n : seqs[k] \in Seq(S)
    OBVIOUS
  <2> DEFINE A == {k \in Nat : k # 0 /\ k <= n => f[k] \in Seq(S)}
  <2>4. 0 \in A
    OBVIOUS
  <2>5. ASSUME NEW k \in Nat, k \in A PROVE k + 1 \in A
    <3>1. CASE k + 1 > n
      BY <3>1
    <3>2. CASE k = 0 /\ k + 1 <= n
      <4>1. 1 \in 1..n
        BY <3>2
      <4>2. f[1] \in Seq(S)
        BY <2>2, <2>3, <4>1
      <4>3. QED
        BY <3>2, <4>2
    <3>3. CASE k # 0 /\ k + 1 <= n
      <4>1. k + 1 \in 1..n /\ k < n /\ k \in Nat \ {0}
        BY <3>3
      <4>2. f[k + 1] = f[k] \o seqs[k + 1] /\ f[k] \in Seq(S) /\ seqs[k + 1] \in Seq(S)
        <5>1. f[k + 1] = f[k] \o seqs[k + 1]
          BY <2>2, <4>1
        <5>2. k # 0 /\ k <= n
          BY <4>1
        <5>3. QED
          BY <2>3, <2>5, <4>1, <5>1, <5>2
      <4>3. f[k] \o seqs[k + 1] \in Seq(S)
        BY <4>2, ConcatProperties
      <4>4. f[k + 1] \in Seq(S)
        BY <4>2, <4>3
      <4>5. QED
        BY <4>4
    <3>4. QED
      BY <3>1, <3>2, <3>3
  <2>6. Nat \subseteq A
    <3> HIDE DEF A
    <3>1. QED
      BY <2>4, <2>5, Induct
  <2>7. f[n] \in Seq(S)
    BY <1>2, <2>6
  <2>8. QED
    BY <2>1, <2>7
<1>3. QED
  BY <1>1, <1>2

(* A sequence with one more at its end, as a function. *)
LEMMA AppendAt ==
    ASSUME NEW S, NEW seq \in Seq(S), NEW e \in S
    PROVE  Append(seq, e) =
              [i \in 1..Len(seq) + 1 |-> IF i = Len(seq) + 1 THEN e ELSE seq[i]]
<1> DEFINE longer == Append(seq, e)
<1>1. /\ longer \in Seq(S) /\ Len(longer) = Len(seq) + 1
      /\ \A i \in 1..Len(seq) : longer[i] = seq[i]
      /\ longer[Len(seq) + 1] = e
      /\ Len(seq) \in Nat
  BY AppendProperties
<1> HIDE DEF longer
<1>2. longer \in [1..Len(longer) -> S]
  BY <1>1, LenProperties
<1>3. longer = [i \in 1..Len(seq) + 1 |-> longer[i]]
  BY <1>1, <1>2
<1>4. \A i \in 1..Len(seq) + 1 : longer[i] = IF i = Len(seq) + 1 THEN e ELSE seq[i]
  BY <1>1
<1>5. longer = [i \in 1..Len(seq) + 1 |-> IF i = Len(seq) + 1 THEN e ELSE seq[i]]
  BY <1>3, <1>4
<1>6. QED
  BY <1>5 DEF longer

(* One more of a sequence that is taken from its beginning. *)
LEMMA TakeOneMore ==
    ASSUME NEW S, NEW seq \in Seq(S), NEW k \in 1..Len(seq)
    PROVE  /\ SubSeq(seq, 1, k - 1) \in Seq(S)
           /\ SubSeq(seq, 1, k) = Append(SubSeq(seq, 1, k - 1), seq[k])
<1>1. Len(seq) \in Nat /\ 1 \in 1..Len(seq) /\ k \in 1..Len(seq) /\ k \in Nat /\ k - 1 \in Int
  OBVIOUS
<1>2. \A i \in 1..k - 1 : seq[i] \in S
  BY <1>1
<1>3. SubSeq(seq, 1, k - 1) \in Seq(S)
  BY <1>1, <1>2, SubSeqProperties
<1>4. SubSeq(seq, 1, k) = SubSeq(seq, 1, k - 1) \o <<seq[k]>>
  BY <1>1, SubSeqRecursiveSecond
<1>5. Append(SubSeq(seq, 1, k - 1), seq[k]) = SubSeq(seq, 1, k - 1) \o <<seq[k]>>
  BY <1>3, AppendIsConcat
<1>6. QED
  BY <1>3, <1>4, <1>5

(* What is added at the end of the second of two sequences. *)
LEMMA AppendOfConcat ==
    ASSUME NEW S, NEW s \in Seq(S), NEW t \in Seq(S), NEW e \in S
    PROVE  s \o Append(t, e) = Append(s \o t, e)
<1>1. s \o t \in Seq(S) /\ <<e>> \in Seq(S)
  BY ConcatProperties
<1>2. Append(t, e) = t \o <<e>> /\ Append(s \o t, e) = (s \o t) \o <<e>>
  <2>1. Append(t, e) = t \o <<e>>
    BY AppendIsConcat
  <2>2. Append(s \o t, e) = (s \o t) \o <<e>>
    BY <1>1, AppendIsConcat
  <2>3. QED
    BY <2>1, <2>2
<1>3. (s \o t) \o <<e>> = s \o (t \o <<e>>)
  BY <1>1, ConcatAssociative
<1>4. QED
  BY <1>2, <1>3

(* Where the second of three sequences lies. *)
LEMMA Stretch ==
    ASSUME NEW S, NEW a \in Seq(S), NEW b \in Seq(S), NEW c \in Seq(S)
    PROVE  /\ Len(a) \in Nat /\ Len(b) \in Nat /\ Len(c) \in Nat
           /\ Len(a \o b) = Len(a) + Len(b)
           /\ Len((a \o b) \o c) = Len(a) + Len(b) + Len(c)
           /\ \A i \in 1..Len(b) : ((a \o b) \o c)[Len(a) + i] = b[i]
<1> DEFINE ab == a \o b
<1>1. Len(a) \in Nat /\ Len(b) \in Nat /\ Len(c) \in Nat
  OBVIOUS
<1>2. ab \in Seq(S) /\ Len(ab) = Len(a) + Len(b)
  BY ConcatProperties
<1>3. \A i \in 1..Len(a) + Len(b) : ab[i] = IF i <= Len(a) THEN a[i] ELSE b[i - Len(a)]
  BY ConcatProperties
<1> HIDE DEF ab
<1>4. Len(ab \o c) = Len(ab) + Len(c)
  BY <1>2, ConcatProperties
<1>5. \A i \in 1..Len(ab) + Len(c) : (ab \o c)[i] = IF i <= Len(ab) THEN ab[i] ELSE c[i - Len(ab)]
  BY <1>2, ConcatProperties
<1>6. ASSUME NEW i \in 1..Len(b) PROVE (ab \o c)[Len(a) + i] = b[i]
  <2>1. /\ Len(a) + i \in 1..Len(a) + Len(b) /\ Len(a) + i \in 1..Len(ab) + Len(c)
        /\ ~(Len(a) + i <= Len(a)) /\ (Len(a) + i) - Len(a) = i /\ Len(a) + i <= Len(ab)
    BY <1>1, <1>2
  <2>2. (ab \o c)[Len(a) + i] = ab[Len(a) + i]
    BY <1>5, <2>1
  <2>3. ab[Len(a) + i] = b[i]
    BY <1>3, <2>1
  <2>4. QED
    BY <2>2, <2>3
<1>7. QED
  BY <1>1, <1>2, <1>4, <1>6 DEF ab

-----------------------------------------------------------------------------
(* The sequences a function gives for the elements of a sequence, one      *)
(* after the other.                                                        *)
FlatMap(f, seq) == FlattenSeq([i \in 1..Len(seq) |-> f[seq[i]]])

(* Its type. *)
LEMMA FlatMapType ==
    ASSUME NEW T, NEW S, NEW f \in [T -> Seq(S)], NEW seq \in Seq(T)
    PROVE  /\ [i \in 1..Len(seq) |-> f[seq[i]]] \in Seq(Seq(S))
           /\ FlatMap(f, seq) \in Seq(S)
<1>1. ASSUME NEW i \in 1..Len(seq) PROVE f[seq[i]] \in Seq(S)
  <2>1. seq[i] \in T
    BY ElementOfSeq
  <2>2. QED
    BY <2>1
<1>2. [i \in 1..Len(seq) |-> f[seq[i]]] \in Seq(Seq(S))
  <2>1. Len(seq) \in Nat
    OBVIOUS
  <2>2. QED
    BY <1>1, <2>1, IsASeq
<1>3. QED
  BY <1>2, FlattenType DEF FlatMap

(* Of nothing: nothing. *)
LEMMA FlatMapEmpty ==
    ASSUME NEW f PROVE FlatMap(f, <<>>) = <<>>
<1>1. [i \in 1..Len(<<>>) |-> f[<<>>[i]]] = <<>>
  OBVIOUS
<1>2. QED
  BY <1>1, FlattenEmpty DEF FlatMap

(* Of one element more. *)
LEMMA FlatMapAppend ==
    ASSUME NEW T, NEW S, NEW f \in [T -> Seq(S)], NEW seq \in Seq(T), NEW x \in T
    PROVE  FlatMap(f, Append(seq, x)) = FlatMap(f, seq) \o f[x]
<1> DEFINE each == [i \in 1..Len(seq) |-> f[seq[i]]]
           longer == Append(seq, x)
<1>1. each \in Seq(Seq(S)) /\ Len(each) = Len(seq) /\ Len(seq) \in Nat
  BY FlatMapType
<1>2. f[x] \in Seq(S)
  OBVIOUS
<1>3. /\ Len(longer) = Len(seq) + 1
      /\ \A i \in 1..Len(seq) : longer[i] = seq[i]
      /\ longer[Len(seq) + 1] = x
  BY AppendProperties
<1>4. [i \in 1..Len(longer) |-> f[longer[i]]] = Append(each, f[x])
  <2> HIDE DEF longer
  <2>1. Append(each, f[x]) =
            [i \in 1..Len(seq) + 1 |-> IF i = Len(seq) + 1 THEN f[x] ELSE each[i]]
    <3> HIDE DEF each
    <3>1. QED
      BY <1>1, <1>2, AppendAt
  <2>2. \A i \in 1..Len(seq) + 1 :
           f[longer[i]] = IF i = Len(seq) + 1 THEN f[x] ELSE each[i]
    BY <1>1, <1>3
  <2>3. QED
    BY <1>3, <2>1, <2>2
<1>5. FlattenSeq(Append(each, f[x])) = FlattenSeq(each) \o f[x]
  <2> HIDE DEF each
  <2>1. QED
    BY <1>1, <1>2, FlattenAppend
<1>6. QED
  BY <1>4, <1>5 DEF FlatMap

(* A sequence over S that is head and a rest. *)
Begins(S, all, head) == \E rest \in Seq(S) : all = head \o rest

(* What belongs to the first elements comes first. *)
LEMMA FlatMapBegins ==
    ASSUME NEW T, NEW S, NEW f \in [T -> Seq(S)], NEW seq \in Seq(T),
           NEW k \in 0..Len(seq)
    PROVE  Begins(S, FlatMap(f, seq), FlatMap(f, SubSeq(seq, 1, k)))
<1> DEFINE R(n) == FlatMap(f, SubSeq(seq, 1, n))
           A == {j \in Nat : k + j <= Len(seq) =>
                    \E rest \in Seq(S) : R(k + j) = R(k) \o rest}
<1>1. \A n \in 0..Len(seq) : R(n) \in Seq(S)
  <2> SUFFICES ASSUME NEW n \in 0..Len(seq) PROVE R(n) \in Seq(S)
    OBVIOUS
  <2>1. \A i \in 1..n : seq[i] \in T
    BY ElementOfSeq
  <2>2. SubSeq(seq, 1, n) \in Seq(T)
    BY <2>1, SubSeqProperties
  <2>3. QED
    BY <2>2, FlatMapType
<1>2. \A n \in 0..Len(seq) - 1 :
         R(n + 1) = R(n) \o f[seq[n + 1]] /\ f[seq[n + 1]] \in Seq(S)
  <2> SUFFICES ASSUME NEW n \in 0..Len(seq) - 1
               PROVE  R(n + 1) = R(n) \o f[seq[n + 1]] /\ f[seq[n + 1]] \in Seq(S)
    OBVIOUS
  <2>1. n + 1 \in 1..Len(seq) /\ (n + 1) - 1 = n
    OBVIOUS
  <2>2. SubSeq(seq, 1, n) \in Seq(T)
        /\ SubSeq(seq, 1, n + 1) = Append(SubSeq(seq, 1, n), seq[n + 1])
    <3>1. /\ SubSeq(seq, 1, (n + 1) - 1) \in Seq(T)
          /\ SubSeq(seq, 1, n + 1) = Append(SubSeq(seq, 1, (n + 1) - 1), seq[n + 1])
      BY <2>1, TakeOneMore
    <3>2. QED
      BY <2>1, <3>1
  <2>3. seq[n + 1] \in T
    BY <2>1, ElementOfSeq
  <2>4. QED
    BY <2>2, <2>3, FlatMapAppend
<1> HIDE DEF R
<1>3. 0 \in A
  <2>1. R(k) = R(k) \o <<>> /\ <<>> \in Seq(S)
    BY <1>1, ConcatEmptySeq
  <2>2. k + 0 = k
    OBVIOUS
  <2>3. QED
    BY <2>1, <2>2
<1>4. ASSUME NEW j \in Nat, j \in A PROVE j + 1 \in A
  <2>1. CASE ~(k + (j + 1) <= Len(seq))
    BY <2>1
  <2>2. CASE k + (j + 1) <= Len(seq)
    <3>1. /\ k + j \in 0..Len(seq) - 1 /\ k + j <= Len(seq)
          /\ (k + j) + 1 = k + (j + 1) /\ j + 1 \in Nat
      BY <2>2
    <3>2. PICK rest \in Seq(S) : R(k + j) = R(k) \o rest
      BY <1>4, <3>1
    <3> DEFINE one == f[seq[(k + j) + 1]]
    <3>3. R((k + j) + 1) = R(k + j) \o one /\ one \in Seq(S)
      BY <1>2, <3>1
    <3> HIDE DEF one
    <3>4. /\ (R(k) \o rest) \o one = R(k) \o (rest \o one)
          /\ rest \o one \in Seq(S)
      <4>1. R(k) \in Seq(S)
        BY <1>1
      <4>2. (R(k) \o rest) \o one = R(k) \o (rest \o one)
        BY <3>3, <4>1, ConcatAssociative
      <4>3. rest \o one \in Seq(S)
        BY <3>3, ConcatProperties
      <4>4. QED
        BY <4>2, <4>3
    <3>5. R(k + (j + 1)) = R(k) \o (rest \o one)
      BY <3>1, <3>2, <3>3, <3>4
    <3>6. QED
      BY <3>1, <3>4, <3>5
  <2>3. QED
    BY <2>1, <2>2
<1>5. Nat \subseteq A
  <2> HIDE DEF A
  <2>1. QED
    BY <1>3, <1>4, Induct
<1>6. PICK j \in Nat : k + j = Len(seq)
  <2>1. Len(seq) - k \in Nat /\ k + (Len(seq) - k) = Len(seq)
    OBVIOUS
  <2>2. QED
    BY <2>1
<1>7. PICK rest \in Seq(S) : R(Len(seq)) = R(k) \o rest
  <2>1. j \in A
    <3> HIDE DEF A
    <3>1. QED
      BY <1>5
  <2>2. k + j <= Len(seq)
    BY <1>6
  <2>3. QED
    BY <1>6, <2>1, <2>2
<1>8. SubSeq(seq, 1, Len(seq)) = seq
  BY SubSeqFull
<1>9. QED
  BY <1>7, <1>8 DEF R, Begins
=============================================================================
