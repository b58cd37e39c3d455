-------------------------- MODULE BusNetworkProofs --------------------------
(***************************************************************************)
(* Proofs about the lists of the second program of 1st year/IADS           *)
(* (BusNetwork, BusLists), for any stops, lines and costs.  Network is the *)
(* invariant: names are there once; the nodes of a line are a path, each   *)
(* neighbouring pair sharing one connection; the cost of a line is the sum *)
(* of its connections, each of which is as often in the bag of connections *)
(* as on the line; a stop counts the lines that pass it.                   *)
(*                                                                         *)
(* What a fold over a list computes is taken as an iteration (FoldIterates *)
(* and FoldSteps), so that an argument about the rounds of a removal is an *)
(* induction over them: the rounds of one line (RoundTaken, AllTaken), and *)
(* the lines one after another (MidStep, AllUpdated).                      *)
(*                                                                         *)
(* The second half compares the two programs.  Twins is the invariant:     *)
(* until the first removal the arrays of project1.c hold, under their      *)
(* indexes, what the lists of project2 hold.  The places of an array line  *)
(* are bounded, those of a list are not; the tokens of Spent show that the *)
(* bound on the cost leaves room for every stop of a line.                 *)
(***************************************************************************)
EXTENDS BusNetwork, FiniteSetTheorems, SequenceTheorems, WellFoundedInduction, TLAPS

(* Numbers, sets of numbers and sequences.                                      *)

\* Induction over numbers.
LEMMA LeastExists ==
  ASSUME NEW Y \in SUBSET Nat, Y # {}
  PROVE  \E x \in Y : \A y \in Y : x <= y
<1> DEFINE R == {ss \in Nat \X Nat : ss[1] < ss[2]}
<1>1. IsWellFoundedOn(R, Nat)
  BY NatLessThanWellFounded, Zenon DEF OpToRel
<1>2. \E x \in Y : \A y \in Y : ~(<<y, x>> \in R)
  BY <1>1, WFMin
<1>3. \A x, y \in Y : <<y, x>> \in R <=> y < x
  OBVIOUS
<1>4. \A x, y \in Y : ~(y < x) => x <= y
  OBVIOUS
<1> HIDE DEF R
<1> QED BY <1>2, <1>3, <1>4

LEMMA MinOfNumbers ==
  ASSUME NEW s \in SUBSET Nat, s # {}
  PROVE  Min(s) \in s /\ \A y \in s : Min(s) <= y
<1>1. \E x \in s : \A y \in s : x <= y
  BY LeastExists
<1> QED BY <1>1 DEF Min

LEMMA MaxOfInterval ==
  ASSUME NEW n \in Nat, NEW s \in SUBSET (1 .. n), s # {}
  PROVE  Max(s) \in s /\ \A y \in s : y <= Max(s)
<1> DEFINE Y == {n - m : m \in s}
<1>1. PICK x \in Y : \A y \in Y : x <= y
  <2>1. \A m \in s : n - m \in Nat
    OBVIOUS
  <2>2. Y \in SUBSET Nat /\ Y # {}
    BY <2>1
  <2> HIDE DEF Y
  <2> QED BY <2>2, LeastExists
<1>2. PICK m \in s : x = n - m
  BY <1>1
<1>3. \A y \in s : m >= y
  BY <1>1, <1>2
<1>4. \E z \in s : \A y \in s : z >= y
  BY <1>3
<1> QED BY <1>4 DEF Max

\* What FoldLeft computes from b by n steps F over the values X: a value for each set of
\* indexes.
Steps(n, X, F, b) == n \in Nat /\ F \in [X \X (1 .. n) -> X] /\ b \in X

Values(f, n, X, F, b) ==
  /\ f \in [SUBSET (1 .. n) -> X]
  /\ \A s \in SUBSET (1 .. n) : f[s] = IF s = {} THEN b ELSE F[<<f[s \ {Max(s)}], Max(s)>>]

LEMMA FoldExists ==
  ASSUME NEW X, NEW n, NEW F, NEW b, Steps(n, X, F, b)
  PROVE  \E f : Values(f, n, X, F, b)
<1> USE DEF Steps
<1> DEFINE Is(k, f) == \A s \in SUBSET (1 .. k) :
                         f[s] = IF s = {} THEN b ELSE F[<<f[s \ {Max(s)}], Max(s)>>]
           Good(k) == \E f \in [SUBSET (1 .. k) -> X] : Is(k, f)
           Bad == {k \in 0 .. n : ~Good(k)}
<1>1. Good(0)
  <2> DEFINE f == [s \in SUBSET (1 .. 0) |-> b]
  <2>1. f \in [SUBSET (1 .. 0) -> X]
    OBVIOUS
  <2>2. \A s \in SUBSET (1 .. 0) : s = {}
    OBVIOUS
  <2>3. Is(0, f)
    BY <2>2
  <2> QED BY <2>1, <2>3
<1>2. ASSUME NEW k \in Nat, k + 1 <= n, Good(k)
      PROVE  Good(k + 1)
  <2>1. PICK f \in [SUBSET (1 .. k) -> X] : Is(k, f)
    BY <1>2
  <2> DEFINE h == [s \in SUBSET (1 .. k + 1) |->
                     IF k + 1 \in s THEN F[<<f[s \ {k + 1}], k + 1>>] ELSE f[s]]
  <2>2. \A s \in SUBSET (1 .. k + 1) : s \ {k + 1} \in SUBSET (1 .. k)
    OBVIOUS
  <2>3. \A s \in SUBSET (1 .. k + 1) : k + 1 \notin s => s \in SUBSET (1 .. k)
    OBVIOUS
  <2>4. h \in [SUBSET (1 .. k + 1) -> X]
    <3>1. ASSUME NEW s \in SUBSET (1 .. k + 1)
          PROVE  h[s] \in X
      <4>1. CASE k + 1 \in s
        <5>1. f[s \ {k + 1}] \in X /\ k + 1 \in 1 .. n
          BY <1>2, <2>1, <2>2
        <5>2. F[<<f[s \ {k + 1}], k + 1>>] \in X
          BY <5>1
        <5> QED BY <4>1, <5>2
      <4>2. CASE k + 1 \notin s
        BY <4>2, <2>1, <2>3
      <4> QED BY <4>1, <4>2
    <3> QED BY <3>1
  <2>5. ASSUME NEW s \in SUBSET (1 .. k + 1)
        PROVE  h[s] = IF s = {} THEN b ELSE F[<<h[s \ {Max(s)}], Max(s)>>]
    <3>1. CASE k + 1 \in s
      <4>1. Max(s) = k + 1
        <5>1. k + 1 \in Nat /\ s # {}
          BY <3>1, <1>2
        <5>2. Max(s) \in s /\ \A y \in s : y <= Max(s)
          BY <5>1, MaxOfInterval
        <5>3. Max(s) \in 1 .. k + 1 /\ k + 1 <= Max(s)
          BY <3>1, <5>2
        <5> QED BY <5>3
      <4>2. h[s \ {k + 1}] = f[s \ {k + 1}]
        BY <2>2
      <4> QED BY <3>1, <4>1, <4>2
    <3>2. CASE k + 1 \notin s /\ s # {}
      <4>1. s \in SUBSET (1 .. k) /\ Max(s) \in s
        BY <3>2, <2>3, MaxOfInterval, <1>2
      <4>2. h[s] = f[s] /\ h[s \ {Max(s)}] = f[s \ {Max(s)}]
        BY <3>2
      <4>3. f[s] = F[<<f[s \ {Max(s)}], Max(s)>>]
        BY <2>1, <4>1, <3>2
      <4> QED BY <3>2, <4>2, <4>3
    <3>3. CASE s = {}
      <4>1. s \in SUBSET (1 .. k)
        BY <3>3
      <4>2. f[s] = b
        BY <2>1, <3>3, <4>1
      <4>3. h[s] = f[s]
        BY <3>3
      <4> QED BY <3>3, <4>2, <4>3
    <3> QED BY <3>1, <3>2, <3>3
  <2>6. Is(k + 1, h)
    <3> HIDE DEF h
    <3> QED BY <2>5
  <2> QED
    <3> HIDE DEF h, Is
    <3> QED BY <2>4, <2>6
<1>3. Bad = {}
  <2> SUFFICES ASSUME Bad # {} PROVE FALSE
    OBVIOUS
  <2>1. Bad \in SUBSET Nat
    OBVIOUS
  <2>2. PICK k \in Bad : \A m \in Bad : k <= m
    <3> HIDE DEF Bad
    <3> QED BY <2>1, LeastExists
  <2> HIDE DEF Good
  <2>3. k # 0
    BY <1>1
  <2>4. k - 1 \in Nat /\ k - 1 \in 0 .. n /\ (k - 1) + 1 = k /\ k <= n /\ ~(k <= k - 1)
    BY <2>3
  <2>5. Good(k - 1)
    BY <2>2, <2>4
  <2>6. Good((k - 1) + 1)
    BY <1>2, <2>4, <2>5
  <2> QED BY <2>4, <2>6
<1>4. Good(n)
  <2> HIDE DEF Good
  <2>1. n \in 0 .. n
    OBVIOUS
  <2> QED BY <1>3, <2>1
<1> QED BY <1>4 DEF Values

\* ... so that the values for the first indexes are those of an iteration.
Computes(f, n, X, F, b) ==
  /\ f[{}] = b
  /\ \A s \in SUBSET (1 .. n) : s # {} /\ Max(s) \in 1 .. n /\ f[s \ {Max(s)}] \in X =>
       f[s] = F[<<f[s \ {Max(s)}], Max(s)>>]

LEMMA FoldIterates ==
  ASSUME NEW n, NEW f, NEW X, NEW F, NEW b, Steps(n, X, F, b), Computes(f, n, X, F, b)
  PROVE  /\ \A k \in 0 .. n : f[1 .. k] \in X
         /\ \A k \in Nat : k + 1 <= n => f[1 .. k + 1] = F[<<f[1 .. k], k + 1>>]
<1> USE DEF Steps, Computes
<1>1. 1 .. 0 = {} /\ n \in Nat
  OBVIOUS
<1>2. ASSUME NEW k \in Nat, k + 1 <= n, f[1 .. k] \in X
      PROVE  f[1 .. k + 1] = F[<<f[1 .. k], k + 1>>] /\ f[1 .. k + 1] \in X
  <2>1. 1 .. k + 1 \in SUBSET (1 .. n)
    BY <1>2
  <2>2. k + 1 \in 1 .. k + 1
    BY <1>2
  <2>3. Max(1 .. k + 1) = k + 1
    <3>1. Max(1 .. k + 1) \in 1 .. k + 1 /\ \A y \in 1 .. k + 1 : y <= Max(1 .. k + 1)
      <4>1. 1 .. k + 1 # {}
        BY <2>2
      <4> QED BY <2>1, <4>1, MaxOfInterval
    <3> QED BY <2>2, <3>1
  <2>4. (1 .. k + 1) \ {k + 1} = 1 .. k
    BY <1>2
  <2>5. f[1 .. k + 1] = F[<<f[1 .. k], k + 1>>]
    <3>1. 1 .. k + 1 # {}
      BY <2>2
    <3>2. k + 1 \in 1 .. n
      BY <1>1, <1>2
    <3> QED BY <1>2, <2>1, <2>3, <2>4, <3>1, <3>2
  <2>6. k + 1 \in 1 .. n
    BY <1>2
  <2> QED BY <1>2, <2>5, <2>6
<1> DEFINE Bad == {k \in 0 .. n : f[1 .. k] \notin X}
<1>3. Bad = {}
  <2> SUFFICES ASSUME Bad # {} PROVE FALSE
    OBVIOUS
  <2>1. PICK k \in Bad : \A m \in Bad : k <= m
    <3>1. Bad \in SUBSET Nat
      OBVIOUS
    <3> HIDE DEF Bad
    <3> QED BY <3>1, LeastExists
  <2>2. k # 0
    BY <1>1
  <2>3. k - 1 \in Nat /\ k - 1 \in 0 .. n /\ (k - 1) + 1 = k /\ k <= n /\ ~(k <= k - 1)
    BY <2>2
  <2>4. f[1 .. k - 1] \in X
    BY <2>1, <2>3
  <2>5. f[1 .. (k - 1) + 1] \in X
    BY <1>2, <2>3, <2>4
  <2> QED BY <2>3, <2>5
<1>4. \A k \in 0 .. n : f[1 .. k] \in X
  BY <1>3
<1>5. ASSUME NEW k \in Nat, k + 1 <= n
      PROVE  f[1 .. k + 1] = F[<<f[1 .. k], k + 1>>]
  <2>1. k \in 0 .. n
    BY <1>5
  <2> QED BY <1>2, <1>4, <1>5, <2>1
<1> QED BY <1>4, <1>5

------------------------------------------------------------------------------
(* How often a sequence has an element, and how that changes when one is put in. *)

Times(seq, c) == Cardinality({i \in DOMAIN seq : seq[i] = c})

\* Where the place j is after another element was put in at i.
Beyond(i, j) == IF j < i THEN j ELSE j + 1

\* t is s with e put in at i.
Inserted(s, t, i, e) ==
  /\ i \in 1 .. Len(t) /\ Len(t) = Len(s) + 1 /\ t[i] = e
  /\ \A j \in 1 .. Len(s) : t[Beyond(i, j)] = s[j]

LEMMA SameSize ==
  ASSUME NEW S, NEW Y, IsFiniteSet(S), NEW f \in [S -> Y],
         \A a, b \in S : f[a] = f[b] => a = b, \A b \in Y : \E a \in S : f[a] = b
  PROVE  IsFiniteSet(Y) /\ Cardinality(Y) = Cardinality(S)
<1>1. f \in Surjection(S, Y) /\ f \in Injection(S, Y)
  BY DEF Surjection, Injection, IsInjective
<1> QED BY <1>1, FS_Surjection

LEMMA PartOfInterval ==
  ASSUME NEW n \in Nat, NEW A \in SUBSET (1 .. n)
  PROVE  IsFiniteSet(A) /\ Cardinality(A) \in Nat
<1>1. IsFiniteSet(1 .. n)
  BY FS_Interval
<1> QED BY <1>1, FS_Subset, FS_CardinalityType

LEMMA BeyondKeepsSize ==
  ASSUME NEW n \in Nat, NEW i \in Nat, NEW A \in SUBSET (1 .. n)
  PROVE  Cardinality({Beyond(i, j) : j \in A}) = Cardinality(A)
<1> DEFINE f == [j \in A |-> Beyond(i, j)]
<1>1. f \in [A -> {Beyond(i, j) : j \in A}]
  OBVIOUS
<1>2. \A a, b \in A : Beyond(i, a) = Beyond(i, b) => a = b
  BY DEF Beyond
<1>3. \A a, b \in A : f[a] = f[b] => a = b
  BY <1>2
<1>4. \A b \in {Beyond(i, j) : j \in A} : \E a \in A : f[a] = b
  OBVIOUS
<1> HIDE DEF f
<1> QED BY <1>1, <1>3, <1>4, SameSize, PartOfInterval

LEMMA InsertedTimes ==
  ASSUME NEW S, NEW s \in Seq(S), NEW t \in Seq(S), NEW i, NEW e, Inserted(s, t, i, e)
  PROVE  \A c : Times(t, c) = Times(s, c) + IF c = e THEN 1 ELSE 0
<1>1. PICK n \in Nat : n = Len(s) /\ Len(t) = n + 1 /\ DOMAIN s = 1 .. n /\ DOMAIN t = 1 .. n + 1
  BY LenProperties DEF Inserted
<1>2. i \in 1 .. n + 1 /\ t[i] = e /\ \A j \in 1 .. n : t[Beyond(i, j)] = s[j]
  BY <1>1 DEF Inserted
<1> SUFFICES ASSUME NEW c
             PROVE  Times(t, c) = Times(s, c) + IF c = e THEN 1 ELSE 0
  OBVIOUS
<1> DEFINE A == {j \in 1 .. n : s[j] = c}
           B == {Beyond(i, j) : j \in A}
           C == {j \in 1 .. n + 1 : t[j] = c}
<1>3. A \in SUBSET (1 .. n) /\ Times(s, c) = Cardinality(A) /\ Times(t, c) = Cardinality(C)
  BY <1>1 DEF Times
<1>4. \A j \in 1 .. n : Beyond(i, j) \in 1 .. n + 1 /\ Beyond(i, j) # i
  BY <1>2 DEF Beyond
<1>5. \A k \in 1 .. n + 1 : k # i => \E j \in 1 .. n : k = Beyond(i, j)
  <2> SUFFICES ASSUME NEW k \in 1 .. n + 1, k # i
               PROVE  \E j \in 1 .. n : k = Beyond(i, j)
    OBVIOUS
  <2>1. CASE k < i
    <3>1. k \in 1 .. n /\ k = Beyond(i, k)
      BY <1>2, <2>1 DEF Beyond
    <3> QED BY <3>1
  <2>2. CASE i < k
    <3>1. k - 1 \in 1 .. n /\ k = Beyond(i, k - 1)
      BY <1>2, <2>2 DEF Beyond
    <3> QED BY <3>1
  <2> QED BY <1>2, <2>1, <2>2
<1>6. B \subseteq C /\ i \notin B /\ B \in SUBSET (1 .. n + 1)
  BY <1>2, <1>4
<1>7. \A k \in C : k = i \/ k \in B
  BY <1>2, <1>5
<1>8. IsFiniteSet(B) /\ Cardinality(B) = Cardinality(A) /\ Cardinality(A) \in Nat
  <2>1. IsFiniteSet(B)
    <3>1. n + 1 \in Nat
      OBVIOUS
    <3> HIDE DEF B
    <3> QED BY <1>6, <3>1, PartOfInterval
  <2>2. Cardinality(B) = Cardinality(A)
    <3>1. i \in Nat
      BY <1>2
    <3> HIDE DEF A
    <3> QED BY <3>1, <1>3, BeyondKeepsSize
  <2> QED BY <1>3, <2>1, <2>2, PartOfInterval
<1>9. CASE c = e
  <2>1. C = B \cup {i}
    BY <1>2, <1>6, <1>7, <1>9
  <2> HIDE DEF B, C
  <2>2. Cardinality(C) = Cardinality(B) + 1
    BY <1>6, <1>8, <2>1, FS_AddElement
  <2> QED BY <1>3, <1>8, <1>9, <2>2
<1>10. CASE c # e
  <2>1. C = B
    BY <1>2, <1>6, <1>7, <1>10
  <2> HIDE DEF B, C
  <2> QED BY <1>3, <1>8, <1>10, <2>1
<1> QED BY <1>9, <1>10

\* An element that is taken away, or added at an end.
LEMMA RemoveAtFacts ==
  ASSUME NEW S, NEW s \in Seq(S), NEW i \in 1 .. Len(s)
  PROVE  /\ L!RemoveAt(s, i) \in Seq(S)
         /\ Len(L!RemoveAt(s, i)) = Len(s) - 1 /\ Len(s) \in Nat
         /\ \A j \in 1 .. Len(s) - 1 : L!RemoveAt(s, i)[j] = s[Beyond(i, j)]
         /\ Inserted(L!RemoveAt(s, i), s, i, s[i])
<1>1. PICK n \in Nat : n = Len(s) /\ i \in 1 .. n /\ \A j \in 1 .. n : s[j] \in S
  BY LenProperties
<1>2. PICK a : a = SubSeq(s, 1, i - 1)
  OBVIOUS
<1>3. PICK b : b = SubSeq(s, i + 1, n)
  OBVIOUS
<1>4. a \in Seq(S) /\ Len(a) = i - 1 /\ \A j \in 1 .. i - 1 : a[j] = s[j]
  <2>1. i - 1 \in Int /\ \A j \in 1 .. i - 1 : s[j] \in S
    BY <1>1
  <2>2. Len(a) = IF 1 <= i - 1 THEN (i - 1) - 1 + 1 ELSE 0
    BY <1>2, <2>1, SubSeqProperties
  <2>3. a \in Seq(S) /\ \A j \in 1 .. (i - 1) - 1 + 1 : a[j] = s[1 + j - 1]
    BY <1>2, <2>1, SubSeqProperties
  <2> QED BY <1>1, <2>2, <2>3
<1>5. b \in Seq(S) /\ Len(b) = n - i /\ \A j \in 1 .. n - i : b[j] = s[i + j]
  <2>1. i + 1 \in Int /\ n \in Int /\ \A j \in i + 1 .. n : s[j] \in S
    BY <1>1
  <2>2. Len(b) = IF i + 1 <= n THEN n - (i + 1) + 1 ELSE 0
    BY <1>3, <2>1, SubSeqProperties
  <2>3. b \in Seq(S) /\ \A j \in 1 .. n - (i + 1) + 1 : b[j] = s[(i + 1) + j - 1]
    BY <1>3, <2>1, SubSeqProperties
  <2> QED BY <1>1, <2>2, <2>3
<1>6. PICK r : r = L!RemoveAt(s, i)
  OBVIOUS
<1>7. r = a \o b
  BY <1>1, <1>2, <1>3, <1>6 DEF L!RemoveAt
<1>8. /\ r \in Seq(S) /\ Len(r) = n - 1
      /\ \A j \in 1 .. n - 1 : r[j] = IF j <= i - 1 THEN a[j] ELSE b[j - (i - 1)]
  <2>1. /\ a \o b \in Seq(S)
        /\ Len(a \o b) = Len(a) + Len(b)
        /\ \A j \in 1 .. Len(a) + Len(b) : (a \o b)[j] = IF j <= Len(a) THEN a[j] ELSE b[j - Len(a)]
    BY <1>4, <1>5, ConcatProperties
  <2>2. (i - 1) + (n - i) = n - 1
    BY <1>1
  <2> QED BY <1>4, <1>5, <1>7, <2>1, <2>2
<1>9. \A j \in 1 .. n - 1 : r[j] = s[Beyond(i, j)]
  <2> SUFFICES ASSUME NEW j \in 1 .. n - 1
               PROVE  r[j] = s[Beyond(i, j)]
    OBVIOUS
  <2>1. CASE j <= i - 1
    <3>1. j \in 1 .. i - 1 /\ j < i
      BY <1>1, <2>1
    <3> QED BY <1>4, <1>8, <2>1, <3>1 DEF Beyond
  <2>2. CASE ~(j <= i - 1)
    <3>1. j - (i - 1) \in 1 .. n - i /\ i + (j - (i - 1)) = j + 1 /\ ~(j < i)
      BY <1>1, <2>2
    <3> QED BY <1>5, <1>8, <2>2, <3>1 DEF Beyond
  <2> QED BY <2>1, <2>2
<1>10. Inserted(r, s, i, s[i])
  <2>1. 1 .. Len(r) = 1 .. n - 1 /\ n = Len(r) + 1
    BY <1>1, <1>8
  <2> QED BY <1>1, <1>9, <2>1 DEF Inserted
<1> QED BY <1>1, <1>6, <1>8, <1>9, <1>10

LEMMA AppendInserts ==
  ASSUME NEW S, NEW s \in Seq(S), NEW e \in S
  PROVE  /\ Append(s, e) \in Seq(S) /\ Len(Append(s, e)) = Len(s) + 1
         /\ Inserted(s, Append(s, e), Len(s) + 1, e)
<1>1. Len(s) \in Nat
  BY LenProperties
<1>2. \A j \in 1 .. Len(s) : Beyond(Len(s) + 1, j) = j
  BY <1>1 DEF Beyond
<1> QED BY <1>1, <1>2, AppendProperties DEF Inserted

LEMMA ConsInserts ==
  ASSUME NEW S, NEW s \in Seq(S), NEW e \in S
  PROVE  /\ <<e>> \o s \in Seq(S) /\ Len(<<e>> \o s) = Len(s) + 1
         /\ (<<e>> \o s)[1] = e /\ \A j \in 1 .. Len(s) : (<<e>> \o s)[j + 1] = s[j]
         /\ Inserted(s, <<e>> \o s, 1, e)
<1>1. Len(s) \in Nat
  BY LenProperties
<1>2. <<e>> \in Seq(S) /\ Len(<<e>>) = 1 /\ <<e>>[1] = e
  OBVIOUS
<1>3. PICK t : t = <<e>> \o s
  OBVIOUS
<1>4. /\ t \in Seq(S) /\ Len(t) = 1 + Len(s)
      /\ \A j \in 1 .. 1 + Len(s) : t[j] = IF j <= 1 THEN <<e>>[j] ELSE s[j - 1]
  <2>1. /\ <<e>> \o s \in Seq(S) /\ Len(<<e>> \o s) = Len(<<e>>) + Len(s)
        /\ \A j \in 1 .. Len(<<e>>) + Len(s) :
             (<<e>> \o s)[j] = IF j <= Len(<<e>>) THEN <<e>>[j] ELSE s[j - Len(<<e>>)]
    BY <1>2, ConcatProperties
  <2> QED BY <1>2, <1>3, <2>1
<1>5. t[1] = e /\ \A j \in 1 .. Len(s) : t[j + 1] = s[j]
  <2>1. 1 \in 1 .. 1 + Len(s)
    BY <1>1
  <2>2. \A j \in 1 .. Len(s) : j + 1 \in 1 .. 1 + Len(s) /\ ~(j + 1 <= 1) /\ (j + 1) - 1 = j
    BY <1>1
  <2> QED BY <1>2, <1>4, <2>1, <2>2
<1>6. \A j \in 1 .. Len(s) : Beyond(1, j) = j + 1
  BY <1>1 DEF Beyond
<1> QED BY <1>1, <1>3, <1>4, <1>5, <1>6 DEF Inserted

------------------------------------------------------------------------------
(* Where a name is in a list, and bags.                                         *)

LEMMA IndexOfFacts ==
  ASSUME NEW X, NEW list \in Seq(X), NEW name
  PROVE  /\ L!IndexOf(list, name) \in 0 .. Len(list) /\ Len(list) \in Nat
         /\ L!IndexOf(list, name) # 0 => list[L!IndexOf(list, name)].name = name
         /\ L!IndexOf(list, name) = 0 => \A j \in 1 .. Len(list) : list[j].name # name
<1> DEFINE I == {j \in 1 .. Len(list) : list[j].name = name}
<1>1. L!IndexOf(list, name) = IF I # {} THEN Min(I) ELSE 0
  BY DEF L!IndexOf, L!SelectInSeq, L!Min, Min
<1>2. Len(list) \in Nat
  BY LenProperties
<1>3. I \in SUBSET Nat
  OBVIOUS
<1>4. I # {} => Min(I) \in I
  <2> HIDE DEF I
  <2> QED BY <1>3, MinOfNumbers
<1> QED BY <1>1, <1>2, <1>4

\* The first node of a stop.
First(nodes, stop) == L!SelectInSeq(nodes, LAMBDA n : n.stop = stop)

LEMMA FirstNode ==
  ASSUME NEW X, NEW nodes \in Seq(X), NEW stop
  PROVE  /\ First(nodes, stop) \in 0 .. Len(nodes) /\ Len(nodes) \in Nat
         /\ First(nodes, stop) # 0 => nodes[First(nodes, stop)].stop = stop
         /\ First(nodes, stop) = 0 => \A j \in 1 .. Len(nodes) : nodes[j].stop # stop
<1> DEFINE I == {j \in 1 .. Len(nodes) : nodes[j].stop = stop}
<1>1. First(nodes, stop) = IF I # {} THEN Min(I) ELSE 0
  BY DEF First, L!SelectInSeq, L!Min, Min
<1>2. Len(nodes) \in Nat
  BY LenProperties
<1>3. I \in SUBSET Nat
  OBVIOUS
<1>4. I # {} => Min(I) \in I
  <2> HIDE DEF I
  <2> QED BY <1>3, MinOfNumbers
<1> QED BY <1>1, <1>2, <1>4

\* Bags of connections.
Bags == UNION {[D -> Nat \ {0}] : D \in SUBSET Conns}

LEMMA BagFacts ==
  ASSUME NEW b \in Bags
  PROVE  /\ DOMAIN b \subseteq Conns /\ b = [c \in DOMAIN b |-> b[c]]
         /\ \A c \in DOMAIN b : b[c] \in Nat \ {0}
         /\ \A c : Copies(c, b) \in Nat /\ (Copies(c, b) > 0 <=> c \in DOMAIN b)
<1>1. PICK D \in SUBSET Conns : b \in [D -> Nat \ {0}]
  BY DEF Bags
<1>2. DOMAIN b = D
  BY <1>1
<1>3. \A c \in D : b[c] \in Nat \ {0}
  BY <1>1
<1>4. \A c : Copies(c, b) \in Nat /\ (Copies(c, b) > 0 <=> c \in DOMAIN b)
  BY <1>2, <1>3 DEF Copies
<1> QED BY <1>1, <1>2, <1>3, <1>4

LEMMA IsBag ==
  ASSUME NEW D \in SUBSET Conns, NEW b \in [D -> Nat \ {0}]
  PROVE  b \in Bags
BY DEF Bags

LEMMA Added ==
  ASSUME NEW b \in Bags, NEW c \in Conns
  PROVE  /\ L!(+)(b, L!SetToBag({c})) \in Bags
         /\ \A d : Copies(d, L!(+)(b, L!SetToBag({c}))) = Copies(d, b) + IF d = c THEN 1 ELSE 0
<1>1. /\ DOMAIN b \subseteq Conns
      /\ \A d \in DOMAIN b : b[d] \in Nat \ {0}
  BY BagFacts
<1> DEFINE new == [d \in DOMAIN b \cup {c} |->
                     (IF d \in DOMAIN b THEN b[d] ELSE 0) + (IF d = c THEN 1 ELSE 0)]
<1>2. L!(+)(b, L!SetToBag({c})) = new
  <2>1. L!SetToBag({c}) = [d \in {c} |-> 1]
    BY DEF L!SetToBag
  <2>2. L!(+)(b, L!SetToBag({c})) =
          [d \in DOMAIN b \cup {c} |-> (IF d \in DOMAIN b THEN b[d] ELSE 0)
                                       + (IF d \in {c} THEN [e \in {c} |-> 1][d] ELSE 0)]
    BY <2>1 DEF L!(+)
  <2>3. \A d : (IF d \in {c} THEN [e \in {c} |-> 1][d] ELSE 0) = (IF d = c THEN 1 ELSE 0)
    OBVIOUS
  <2> QED BY <2>2, <2>3
<1>3. new \in [DOMAIN b \cup {c} -> Nat \ {0}] /\ DOMAIN b \cup {c} \in SUBSET Conns
  BY <1>1
<1>4. new \in Bags
  <2> HIDE DEF new
  <2> QED BY <1>3, IsBag
<1>5. \A d : Copies(d, new) = Copies(d, b) + IF d = c THEN 1 ELSE 0
  BY <1>1 DEF Copies
<1> HIDE DEF new
<1> QED BY <1>2, <1>4, <1>5

LEMMA Taken ==
  ASSUME NEW b \in Bags, NEW c, Copies(c, b) > 0
  PROVE  /\ L!Without(b, c) \in Bags
         /\ \A d : Copies(d, L!Without(b, c)) = Copies(d, b) - IF d = c THEN 1 ELSE 0
<1>1. /\ DOMAIN b \subseteq Conns /\ c \in DOMAIN b
      /\ \A d \in DOMAIN b : b[d] \in Nat \ {0}
  BY BagFacts
<1> DEFINE less == [d \in DOMAIN b |-> IF d = c THEN b[d] - 1 ELSE b[d]]
           D == {d \in DOMAIN b : less[d] > 0}
           new == [d \in D |-> less[d]]
<1>2. L!Without(b, c) = new
  <2>1. L!SetToBag({c}) = [d \in {c} |-> 1]
    BY DEF L!SetToBag
  <2>2. [d \in DOMAIN b |-> IF d \in DOMAIN L!SetToBag({c}) THEN b[d] - L!SetToBag({c})[d] ELSE b[d]] = less
    BY <2>1
  <2>3. L!Without(b, c) =
          LET B == [d \in DOMAIN b |->
                      IF d \in DOMAIN L!SetToBag({c}) THEN b[d] - L!SetToBag({c})[d] ELSE b[d]]
          IN [d \in {e \in DOMAIN B : B[e] > 0} |-> B[d]]
    BY DEF L!Without, L!(-)
  <2>4. DOMAIN less = DOMAIN b
    OBVIOUS
  <2> HIDE DEF less
  <2> QED BY <2>2, <2>3, <2>4
<1>3. /\ \A d \in DOMAIN b : less[d] \in Nat
      /\ new \in [D -> Nat \ {0}] /\ D \in SUBSET Conns
  BY <1>1
<1>4. new \in Bags
  <2> HIDE DEF new, D
  <2> QED BY <1>3, IsBag
<1>5. ASSUME NEW d
      PROVE  Copies(d, new) = Copies(d, b) - IF d = c THEN 1 ELSE 0
  <2>1. Copies(d, new) = IF d \in D THEN less[d] ELSE 0
    BY DEF Copies
  <2>2. CASE d \in DOMAIN b
    <3>1. less[d] = b[d] - (IF d = c THEN 1 ELSE 0) /\ less[d] \in Nat /\ Copies(d, b) = b[d]
      BY <1>3, <2>2 DEF Copies
    <3>2. d \in D <=> less[d] > 0
      BY <2>2
    <3> HIDE DEF less, D
    <3> QED BY <2>1, <3>1, <3>2
  <2>3. CASE d \notin DOMAIN b
    BY <1>1, <2>1, <2>3 DEF Copies
  <2> QED BY <2>2, <2>3
<1> HIDE DEF new
<1> QED BY <1>2, <1>4, <1>5

LEMMA SameCardinality ==
  ASSUME NEW S
  PROVE  L!Cardinality(S) = Cardinality(S)
BY Zenon DEF L!Cardinality, Cardinality

------------------------------------------------------------------------------
(* The cost of a line.                                                          *)

Total(used) == FoldLeft(LAMBDA sum, c : sum + c.cost, 0, used)

\* The values on the way of a fold.
Iterates(g, f, n, X, F, b) ==
  /\ g \in [0 .. n -> X] /\ g[0] = b /\ g[n] = f[1 .. n]
  /\ \A k \in Nat : k + 1 <= n => g[k + 1] = F[<<g[k], k + 1>>]

LEMMA FoldSteps ==
  ASSUME NEW n, NEW f, NEW X, NEW F, NEW b, Steps(n, X, F, b), Computes(f, n, X, F, b)
  PROVE  \E g : Iterates(g, f, n, X, F, b)
<1>1. n \in Nat /\ f[{}] = b
  BY DEF Steps, Computes
<1>2. /\ \A k \in 0 .. n : f[1 .. k] \in X
      /\ \A k \in Nat : k + 1 <= n => f[1 .. k + 1] = F[<<f[1 .. k], k + 1>>]
  BY FoldIterates
<1> DEFINE g == [k \in 0 .. n |-> f[1 .. k]]
<1>3. g \in [0 .. n -> X]
  BY <1>2
<1>4. g[0] = b /\ g[n] = f[1 .. n]
  <2>1. 1 .. 0 = {} /\ 0 \in 0 .. n /\ n \in 0 .. n
    BY <1>1
  <2> QED BY <1>1, <2>1
<1>5. ASSUME NEW k \in Nat, k + 1 <= n
      PROVE  g[k + 1] = F[<<g[k], k + 1>>]
  <2>1. k \in 0 .. n /\ k + 1 \in 0 .. n
    BY <1>1, <1>5
  <2> QED BY <1>2, <1>5, <2>1
<1> HIDE DEF g
<1> QED BY <1>3, <1>4, <1>5 DEF Iterates

LEMMA TotalSteps ==
  ASSUME NEW used \in Seq(Conns)
  PROVE  /\ Len(used) \in Nat
         /\ \E g \in [0 .. Len(used) -> Nat] :
              /\ g[0] = 0 /\ g[Len(used)] = Total(used)
              /\ \A k \in Nat : k + 1 <= Len(used) => g[k + 1] = g[k] + used[k + 1].cost
<1> DEFINE Eq(f) == f = [s \in SUBSET DOMAIN used |->
                           IF s = {} THEN 0 ELSE LET x == Max(s) IN f[s \ {x}] + used[x].cost]
           G == CHOOSE f : Eq(f)
<1>1. Total(used) = G[DOMAIN used]
  BY Zenon DEF Total, FoldLeft, MapThenFoldSet
<1>2. PICK n \in Nat : n = Len(used) /\ DOMAIN used = 1 .. n /\ \A i \in 1 .. n : used[i] \in Conns
  BY LenProperties
<1> DEFINE F == [p \in Nat \X (1 .. n) |-> p[1] + used[p[2]].cost]
<1>3. \A i \in 1 .. n : used[i].cost \in Nat
  BY <1>2 DEF Conns
<1>4. Steps(n, Nat, F, 0)
  BY <1>3 DEF Steps
<1>5. \A s \in SUBSET (1 .. n) : s # {} => Max(s) \in 1 .. n
  BY MaxOfInterval
<1>6. \A a \in Nat, i \in 1 .. n : F[<<a, i>>] = a + used[i].cost
  OBVIOUS
<1>7. PICK h : Values(h, n, Nat, F, 0)
  <2> HIDE DEF F
  <2> QED BY <1>4, FoldExists
<1> HIDE DEF F
<1>8. Eq(h)
  <2>1. \A s \in SUBSET (1 .. n) :
          h[s] = IF s = {} THEN 0 ELSE LET x == Max(s) IN h[s \ {x}] + used[x].cost
    <3>1. \A s \in SUBSET (1 .. n) : h[s \ {Max(s)}] \in Nat
      BY <1>7 DEF Values
    <3> QED BY <1>5, <1>6, <1>7, <3>1 DEF Values
  <2>2. h = [s \in SUBSET (1 .. n) |-> h[s]]
    BY <1>7 DEF Values
  <2> QED BY <1>2, <2>1, <2>2
<1>9. Eq(G)
  <2> HIDE DEF Eq
  <2> QED BY <1>8
<1>10. \A s \in SUBSET (1 .. n) :
          G[s] = IF s = {} THEN 0 ELSE LET x == Max(s) IN G[s \ {x}] + used[x].cost
  <2>1. G = [s \in SUBSET (1 .. n) |->
                IF s = {} THEN 0 ELSE LET x == Max(s) IN G[s \ {x}] + used[x].cost]
    <3> HIDE DEF G
    <3> QED BY <1>2, <1>9
  <2> HIDE DEF G
  <2> QED BY <2>1
<1> HIDE DEF G
<1>11. Computes(G, n, Nat, F, 0)
  BY <1>6, <1>10 DEF Computes
<1>13. PICK g : Iterates(g, G, n, Nat, F, 0)
  BY <1>4, <1>11, FoldSteps
<1>14. ASSUME NEW k \in Nat, k + 1 <= n
       PROVE  g[k + 1] = g[k] + used[k + 1].cost
  <2>1. k \in 0 .. n /\ k + 1 \in 1 .. n
    BY <1>14
  <2> QED BY <1>6, <1>13, <1>14, <2>1 DEF Iterates
<1> QED BY <1>1, <1>2, <1>13, <1>14 DEF Iterates

LEMMA TotalIsNat ==
  ASSUME NEW used \in Seq(Conns)
  PROVE  Total(used) \in Nat
<1>1. PICK g \in [0 .. Len(used) -> Nat] : Len(used) \in Nat /\ g[Len(used)] = Total(used)
  BY TotalSteps
<1> QED BY <1>1

LEMMA TotalOfNone ==
  ASSUME NEW used \in Seq(Conns), Len(used) = 0
  PROVE  Total(used) = 0
<1>1. PICK g \in [0 .. Len(used) -> Nat] : g[0] = 0 /\ g[Len(used)] = Total(used)
  BY TotalSteps
<1> QED BY <1>1

\* A connection put in adds its cost.
LEMMA TotalInserted ==
  ASSUME NEW s \in Seq(Conns), NEW t \in Seq(Conns), NEW i, NEW e \in Conns, Inserted(s, t, i, e)
  PROVE  Total(t) = Total(s) + e.cost
<1>1. PICK n \in Nat : n = Len(s) /\ Len(t) = n + 1
  BY LenProperties DEF Inserted
<1>2. i \in 1 .. n + 1 /\ t[i] = e /\ \A j \in 1 .. n : t[Beyond(i, j)] = s[j]
  BY <1>1 DEF Inserted
<1>3. PICK g \in [0 .. n -> Nat] :
         /\ g[0] = 0 /\ g[n] = Total(s)
         /\ \A k \in Nat : k + 1 <= n => g[k + 1] = g[k] + s[k + 1].cost
  BY <1>1, TotalSteps
<1>4. PICK h \in [0 .. n + 1 -> Nat] :
         /\ h[0] = 0 /\ h[n + 1] = Total(t)
         /\ \A k \in Nat : k + 1 <= n + 1 => h[k + 1] = h[k] + t[k + 1].cost
  BY <1>1, TotalSteps, SMTT(40), ZenonT(40)
<1>5. e.cost \in Nat /\ (\A k \in 1 .. n : s[k].cost \in Nat)
  <2>1. \A k \in 1 .. n : s[k] \in Conns
    BY <1>1, LenProperties
  <2> QED BY <2>1 DEF Conns
<1> DEFINE Same(k) == h[k] = IF k < i THEN g[k] ELSE g[k - 1] + e.cost
           Bad == {k \in 0 .. n + 1 : ~Same(k)}
<1>6. Same(0)
  BY <1>2, <1>3, <1>4
<1>7. ASSUME NEW k \in Nat, k + 1 <= n + 1, Same(k)
      PROVE  Same(k + 1)
  <2>1. h[k + 1] = h[k] + t[k + 1].cost
    BY <1>4, <1>7
  <2>2. CASE k + 1 < i
    <3>1. k + 1 \in 1 .. n /\ Beyond(i, k + 1) = k + 1 /\ k < i /\ k + 1 <= n
      BY <1>2, <1>7, <2>2 DEF Beyond
    <3>2. t[k + 1] = s[k + 1] /\ g[k + 1] = g[k] + s[k + 1].cost
      BY <1>2, <1>3, <3>1
    <3> QED BY <1>7, <2>1, <2>2, <3>1, <3>2
  <2>3. CASE k + 1 = i
    <3>1. k < i /\ (k + 1) - 1 = k /\ ~(k + 1 < i) /\ t[k + 1] = e
      BY <1>2, <2>3
    <3> QED BY <1>7, <2>1, <3>1
  <2>4. CASE i < k + 1
    <3>1. k \in 1 .. n /\ Beyond(i, k) = k + 1 /\ ~(k < i) /\ ~(k + 1 < i) /\ (k + 1) - 1 = k
          /\ k - 1 \in Nat /\ (k - 1) + 1 = k /\ k <= n
      BY <1>2, <1>7, <2>4 DEF Beyond
    <3>2. t[k + 1] = s[k] /\ g[k] = g[k - 1] + s[k].cost
      BY <1>2, <1>3, <3>1
    <3>3. g[k - 1] \in Nat /\ s[k].cost \in Nat
      <4>1. k - 1 \in 0 .. n
        BY <3>1
      <4> QED BY <1>3, <1>5, <3>1, <4>1
    <3> HIDE DEF Same
    <3>4. h[k] = g[k - 1] + e.cost
      BY <1>7, <3>1 DEF Same
    <3>5. h[k + 1] = g[k] + e.cost
      <4>1. h[k + 1] = g[k - 1] + e.cost + s[k].cost
        BY <2>1, <3>2, <3>4
      <4>2. g[k] = g[k - 1] + s[k].cost
        BY <3>2
      <4>3. e.cost \in Nat
        BY <1>5
      <4>4. PICK x \in Nat : x = g[k - 1]
        BY <3>3
      <4>5. PICK y \in Nat : y = e.cost
        BY <4>3
      <4>6. PICK z \in Nat : z = s[k].cost
        BY <3>3
      <4>7. h[k + 1] = x + y + z /\ g[k] = x + z
        BY <4>1, <4>2, <4>4, <4>5, <4>6
      <4>8. x + y + z = (x + z) + y
        OBVIOUS
      <4> QED BY <4>5, <4>7, <4>8
    <3> QED BY <3>1, <3>5 DEF Same
  <2> QED BY <1>2, <1>7, <2>2, <2>3, <2>4
<1>8. Bad = {}
  <2> SUFFICES ASSUME Bad # {} PROVE FALSE
    OBVIOUS
  <2>1. PICK k \in Bad : \A m \in Bad : k <= m
    <3>1. Bad \in SUBSET Nat
      OBVIOUS
    <3> HIDE DEF Bad
    <3> QED BY <3>1, LeastExists
  <2> HIDE DEF Same
  <2>2. k # 0
    BY <1>6
  <2>3. k - 1 \in Nat /\ k - 1 \in 0 .. n + 1 /\ (k - 1) + 1 = k /\ k <= n + 1 /\ ~(k <= k - 1)
    BY <2>2
  <2>4. Same(k - 1)
    BY <2>1, <2>3
  <2>5. Same((k - 1) + 1)
    BY <1>7, <2>3, <2>4
  <2> QED BY <2>3, <2>5
<1>9. Same(n + 1)
  <2>1. n + 1 \in 0 .. n + 1
    OBVIOUS
  <2> HIDE DEF Same
  <2> QED BY <1>8, <2>1
<1>10. ~(n + 1 < i) /\ (n + 1) - 1 = n
  BY <1>2
<1> QED BY <1>3, <1>4, <1>9, <1>10

------------------------------------------------------------------------------
(* Paths: the nodes of a line and the connections between them.                 *)

Between(nodes, i, name) ==
  /\ nodes[i].right = nodes[i + 1].left /\ nodes[i].right \in Conns
  /\ nodes[i].right.route = name
  /\ nodes[i].right.start = nodes[i].stop /\ nodes[i].right.end = nodes[i + 1].stop

Path(nodes, name) ==
  /\ nodes \in Seq(Nodes)
  /\ \A i \in 1 .. Len(nodes) - 1 : Between(nodes, i, name)
  /\ Len(nodes) > 0 => nodes[1].left = Null /\ nodes[Len(nodes)].right = Null

Used(nodes) == [i \in 1 .. Len(nodes) - 1 |-> nodes[i].right]
StopsOf(nodes) == [i \in 1 .. Len(nodes) |-> nodes[i].stop]

LEMMA NodesFacts ==
  ASSUME NEW nodes \in Seq(Nodes)
  PROVE  /\ Len(nodes) \in Nat /\ DOMAIN nodes = 1 .. Len(nodes)
         /\ \A i \in 1 .. Len(nodes) :
              nodes[i] \in Nodes /\ nodes[i].stop \in Stops
              /\ nodes[i].left \in Conns \cup {Null} /\ nodes[i].right \in Conns \cup {Null}
              /\ nodes[i] = [stop |-> nodes[i].stop, back |-> nodes[i].back,
                             left |-> nodes[i].left, right |-> nodes[i].right]
<1>1. Len(nodes) \in Nat /\ DOMAIN nodes = 1 .. Len(nodes) /\ \A i \in 1 .. Len(nodes) : nodes[i] \in Nodes
  BY LenProperties
<1>2. \A x \in Nodes : /\ x.stop \in Stops /\ x.left \in Conns \cup {Null} /\ x.right \in Conns \cup {Null}
                       /\ x = [stop |-> x.stop, back |-> x.back, left |-> x.left, right |-> x.right]
  BY DEF Nodes
<1> QED BY <1>1, <1>2

LEMMA StopsFacts ==
  ASSUME NEW nodes \in Seq(Nodes)
  PROVE  /\ StopsOf(nodes) \in Seq(Stops) /\ Len(StopsOf(nodes)) = Len(nodes)
         /\ \A i \in 1 .. Len(nodes) : StopsOf(nodes)[i] = nodes[i].stop
         /\ \A s : L!StopInRoute(nodes, s) = Times(StopsOf(nodes), s)
<1>1. /\ Len(nodes) \in Nat /\ DOMAIN nodes = 1 .. Len(nodes)
      /\ \A i \in 1 .. Len(nodes) : nodes[i].stop \in Stops
  BY NodesFacts
<1>2. StopsOf(nodes) \in Seq(Stops) /\ Len(StopsOf(nodes)) = Len(nodes)
  BY <1>1 DEF StopsOf
<1>3. \A i \in 1 .. Len(nodes) : StopsOf(nodes)[i] = nodes[i].stop
  BY DEF StopsOf
<1>4. ASSUME NEW s
      PROVE  L!StopInRoute(nodes, s) = Times(StopsOf(nodes), s)
  <2>1. {i \in DOMAIN nodes : nodes[i].stop = s} = {i \in DOMAIN StopsOf(nodes) : StopsOf(nodes)[i] = s}
    BY <1>1 DEF StopsOf
  <2>2. L!StopInRoute(nodes, s) = Cardinality({i \in DOMAIN nodes : nodes[i].stop = s})
    BY Zenon, SameCardinality DEF L!StopInRoute
  <2>3. Times(StopsOf(nodes), s) = Cardinality({i \in DOMAIN StopsOf(nodes) : StopsOf(nodes)[i] = s})
    BY Zenon DEF Times
  <2> QED BY <2>1, <2>2, <2>3
<1> QED BY <1>2, <1>3, <1>4

LEMMA UsedFacts ==
  ASSUME NEW nodes, NEW name, Path(nodes, name)
  PROVE  /\ Used(nodes) \in Seq(Conns)
         /\ Len(Used(nodes)) = IF Len(nodes) = 0 THEN 0 ELSE Len(nodes) - 1
         /\ \A i \in 1 .. Len(nodes) - 1 : Used(nodes)[i] = nodes[i].right
<1>1. /\ Len(nodes) \in Nat
      /\ \A i \in 1 .. Len(nodes) - 1 : nodes[i].right \in Conns
  BY LenProperties DEF Path, Between
<1>2. CASE Len(nodes) = 0
  <2>1. Used(nodes) = << >>
    BY <1>2 DEF Used
  <2>2. << >> \in Seq(Conns) /\ Len(<< >>) = 0
    OBVIOUS
  <2> QED BY <1>2, <2>1, <2>2
<1>3. CASE Len(nodes) # 0
  <2>1. PICK m \in Nat : m = Len(nodes) - 1
    BY <1>1, <1>3, SMTT(40), ZenonT(40)
  <2>2. Used(nodes) = [i \in 1 .. m |-> nodes[i].right]
    BY <2>1 DEF Used
  <2>3. [i \in 1 .. m |-> nodes[i].right] \in Seq(Conns) /\ Len([i \in 1 .. m |-> nodes[i].right]) = m
    BY <1>1, <2>1
  <2> QED BY <1>3, <2>1, <2>2, <2>3
<1> QED BY <1>2, <1>3

\* A path of m nodes that are given by their stops and connections.
Follows(nodes, name, stop, link, m) ==
  /\ m \in Nat /\ m > 0 /\ nodes \in Seq(Nodes) /\ Len(nodes) = m
  /\ \A i \in 1 .. m : /\ nodes[i].stop = stop[i]
                       /\ nodes[i].left = IF i = 1 THEN Null ELSE link[i - 1]
                       /\ nodes[i].right = IF i = m THEN Null ELSE link[i]
  /\ \A i \in 1 .. m - 1 : /\ link[i] \in Conns /\ link[i].route = name
                           /\ link[i].start = stop[i] /\ link[i].end = stop[i + 1]

Linked(nodes, link, m) ==
  /\ Used(nodes) \in Seq(Conns) /\ Len(Used(nodes)) = m - 1
  /\ \A i \in 1 .. m - 1 : Used(nodes)[i] = link[i]

LEMMA PathIs ==
  ASSUME NEW nodes, NEW name, NEW stop, NEW link, NEW m, Follows(nodes, name, stop, link, m)
  PROVE  Path(nodes, name) /\ Linked(nodes, link, m)
<1> USE DEF Follows
<1>1. ASSUME NEW i \in 1 .. m - 1
      PROVE  Between(nodes, i, name) /\ Used(nodes)[i] = link[i]
  <2>1. i \in 1 .. m /\ i + 1 \in 1 .. m /\ i # m /\ i + 1 # 1 /\ (i + 1) - 1 = i
    OBVIOUS
  <2>2. nodes[i].stop = stop[i] /\ nodes[i].right = link[i]
    BY <2>1
  <2>3. nodes[i + 1].stop = stop[i + 1] /\ nodes[i + 1].left = link[i]
    BY <2>1
  <2>4. link[i] \in Conns /\ link[i].route = name /\ link[i].start = stop[i] /\ link[i].end = stop[i + 1]
    OBVIOUS
  <2> QED BY <2>2, <2>3, <2>4 DEF Between, Used
<1>2. nodes[1].left = Null /\ nodes[m].right = Null
  OBVIOUS
<1>3. Path(nodes, name)
  BY <1>1, <1>2 DEF Path
<1> QED BY <1>1, <1>3, UsedFacts DEF Linked

\* ... and the other way round.
LEMMA PathHas ==
  ASSUME NEW nodes, NEW name, Path(nodes, name)
  PROVE  /\ Len(nodes) \in Nat /\ nodes \in Seq(Nodes) /\ Used(nodes) \in Seq(Conns)
         /\ \A i \in 1 .. Len(nodes) :
              /\ nodes[i].left = IF i = 1 THEN Null ELSE Used(nodes)[i - 1]
              /\ nodes[i].right = IF i = Len(nodes) THEN Null ELSE Used(nodes)[i]
         /\ \A i \in 1 .. Len(nodes) - 1 :
              /\ Used(nodes)[i] \in Conns /\ Used(nodes)[i].route = name
              /\ Used(nodes)[i].start = nodes[i].stop /\ Used(nodes)[i].end = nodes[i + 1].stop
<1>1. Len(nodes) \in Nat /\ nodes \in Seq(Nodes)
  BY LenProperties DEF Path
<1>2. \A i \in 1 .. Len(nodes) - 1 : Used(nodes)[i] = nodes[i].right /\ Between(nodes, i, name)
  BY UsedFacts DEF Path
<1>3. ASSUME NEW i \in 1 .. Len(nodes)
      PROVE  nodes[i].left = IF i = 1 THEN Null ELSE Used(nodes)[i - 1]
  <2>1. CASE i = 1
    BY <1>1, <2>1 DEF Path
  <2>2. CASE i # 1
    <3>1. i - 1 \in 1 .. Len(nodes) - 1 /\ (i - 1) + 1 = i
      BY <1>1, <2>2
    <3>2. Used(nodes)[i - 1] = nodes[i - 1].right /\ nodes[i - 1].right = nodes[(i - 1) + 1].left
      BY <1>2, <3>1 DEF Between
    <3> QED BY <2>2, <3>1, <3>2
  <2> QED BY <2>1, <2>2
<1>4. ASSUME NEW i \in 1 .. Len(nodes)
      PROVE  nodes[i].right = IF i = Len(nodes) THEN Null ELSE Used(nodes)[i]
  <2>1. CASE i = Len(nodes)
    BY <1>1, <2>1 DEF Path
  <2>2. CASE i # Len(nodes)
    <3>1. i \in 1 .. Len(nodes) - 1
      BY <1>1, <2>2
    <3> QED BY <1>2, <2>2, <3>1
  <2> QED BY <2>1, <2>2
<1>5. \A i \in 1 .. Len(nodes) - 1 :
              /\ Used(nodes)[i] \in Conns /\ Used(nodes)[i].route = name
              /\ Used(nodes)[i].start = nodes[i].stop /\ Used(nodes)[i].end = nodes[i + 1].stop
  BY <1>2 DEF Between
<1> QED BY <1>1, <1>3, <1>4, <1>5, UsedFacts

\* The stops of a path and its connections when a node is put in or taken away.
Joined(old, new, i, stop) ==
  Len(new) = Len(old) + 1 /\ Inserted(StopsOf(old), StopsOf(new), i, stop)

LEMMA StopsJoined ==
  ASSUME NEW old \in Seq(Nodes), NEW new \in Seq(Nodes), NEW i, NEW stop,
         i \in 1 .. Len(new), Len(new) = Len(old) + 1, new[i].stop = stop,
         \A j \in 1 .. Len(old) : new[Beyond(i, j)].stop = old[j].stop
  PROVE  Joined(old, new, i, stop)
<1>1. Len(old) \in Nat /\ Len(new) \in Nat /\ Len(StopsOf(old)) = Len(old) /\ Len(StopsOf(new)) = Len(new)
  BY StopsFacts, NodesFacts
<1>2. /\ \A j \in 1 .. Len(new) : StopsOf(new)[j] = new[j].stop
      /\ \A j \in 1 .. Len(old) : StopsOf(old)[j] = old[j].stop
  BY StopsFacts
<1>3. \A j \in 1 .. Len(old) : Beyond(i, j) \in 1 .. Len(new)
  BY <1>1 DEF Beyond
<1>4. StopsOf(new)[i] = stop
  BY <1>2
<1>5. \A j \in 1 .. Len(old) : StopsOf(new)[Beyond(i, j)] = StopsOf(old)[j]
  BY <1>2, <1>3
<1> QED BY <1>1, <1>4, <1>5 DEF Joined, Inserted

\* A new node, with what the functions addStopToRoute... set.
LEMMA NewNodes ==
  ASSUME NEW stop \in Stops, NEW conn \in Conns
  PROVE  /\ [L!NewNode(stop) EXCEPT !.back = "node", !.left = conn]
              = [stop |-> stop, back |-> "node", left |-> conn, right |-> Null]
         /\ [L!NewNode(stop) EXCEPT !.right = conn]
              = [stop |-> stop, back |-> "none", left |-> Null, right |-> conn]
         /\ [stop |-> stop, back |-> "node", left |-> conn, right |-> Null] \in Nodes
         /\ [stop |-> stop, back |-> "none", left |-> Null, right |-> conn] \in Nodes
<1>1. L!NewNode(stop) = [stop |-> stop, back |-> "none", left |-> Null, right |-> Null]
  BY DEF L!NewNode
<1>2. [L!NewNode(stop) EXCEPT !.back = "node", !.left = conn]
        = [stop |-> stop, back |-> "node", left |-> conn, right |-> Null]
  <2> DEFINE x == [stop |-> stop, back |-> "none", left |-> Null, right |-> Null]
  <2>1. [x EXCEPT !.back = "node", !.left = conn]
          = [stop |-> stop, back |-> "node", left |-> conn, right |-> Null]
    <3> DEFINE y == [stop |-> stop, back |-> "node", left |-> Null, right |-> Null]
    <3>1. [x EXCEPT !.back = "node"] = y
      OBVIOUS
    <3>2. [y EXCEPT !.left = conn] = [stop |-> stop, back |-> "node", left |-> conn, right |-> Null]
      OBVIOUS
    <3>3. [x EXCEPT !.back = "node", !.left = conn] = [[x EXCEPT !.back = "node"] EXCEPT !.left = conn]
      OBVIOUS
    <3> HIDE DEF x, y
    <3> QED BY <3>1, <3>2, <3>3
  <2>2. L!NewNode(stop) = x
    BY <1>1
  <2> HIDE DEF x
  <2> QED BY <2>1, <2>2
<1>3. [L!NewNode(stop) EXCEPT !.right = conn]
        = [stop |-> stop, back |-> "none", left |-> Null, right |-> conn]
  BY <1>1
<1>4. [stop |-> stop, back |-> "node", left |-> conn, right |-> Null] \in Nodes
  BY DEF Nodes
<1>5. [stop |-> stop, back |-> "none", left |-> Null, right |-> conn] \in Nodes
  BY DEF Nodes
<1> QED BY <1>2, <1>3, <1>4, <1>5

\* addInitialStopsToRoute.
TheFirst(new, conn) ==
  new = <<[L!NewNode(conn.start) EXCEPT !.right = conn],
          [L!NewNode(conn.end) EXCEPT !.back = "node", !.left = conn]>>

LEMMA PathFirst ==
  ASSUME NEW conn \in Conns, NEW new, TheFirst(new, conn)
  PROVE  /\ Path(new, conn.route) /\ Len(new) = 2
         /\ new[1].stop = conn.start /\ new[2].stop = conn.end
         /\ new[1].back = "none" /\ new[2].back = "node"
         /\ Len(Used(new)) = 1 /\ Used(new)[1] = conn
<1>1. conn.start \in Stops /\ conn.end \in Stops
  BY DEF Conns
<1> DEFINE a == [stop |-> conn.start, back |-> "none", left |-> Null, right |-> conn]
           b == [stop |-> conn.end, back |-> "node", left |-> conn, right |-> Null]
<1>2. a \in Nodes /\ b \in Nodes
  BY <1>1, NewNodes
<1>3. new \in Seq(Nodes) /\ Len(new) = 2 /\ new[1] = a /\ new[2] = b
  <2>1. new = <<a, b>>
    BY <1>1, NewNodes DEF TheFirst
  <2> HIDE DEF a, b
  <2> QED BY <1>2, <2>1
<1> DEFINE stop == <<conn.start, conn.end>>
           link == <<conn>>
<1>4. Follows(new, conn.route, stop, link, 2)
  <2>1. \A i \in 1 .. 2 : i = 1 \/ i = 2
    OBVIOUS
  <2>2. stop[1] = conn.start /\ stop[2] = conn.end /\ link[1] = conn
    OBVIOUS
  <2>3. new[1].stop = conn.start /\ new[1].left = Null /\ new[1].right = conn
    BY <1>3
  <2>4. new[2].stop = conn.end /\ new[2].left = conn /\ new[2].right = Null
    BY <1>3
  <2>5. \A i \in 1 .. 2 - 1 : i = 1
    OBVIOUS
  <2> HIDE DEF stop, link, a, b
  <2>6. \A i \in 1 .. 2 : /\ new[i].stop = stop[i]
                          /\ new[i].left = IF i = 1 THEN Null ELSE link[i - 1]
                          /\ new[i].right = IF i = 2 THEN Null ELSE link[i]
    <3>1. 2 - 1 = 1 /\ 2 # 1
      OBVIOUS
    <3> QED BY <2>1, <2>2, <2>3, <2>4, <3>1
  <2>7. \A i \in 1 .. 2 - 1 : /\ link[i] \in Conns /\ link[i].route = conn.route
                              /\ link[i].start = stop[i] /\ link[i].end = stop[i + 1]
    BY <2>2, <2>5
  <2> QED BY <1>3, <2>6, <2>7 DEF Follows
<1>5. /\ Path(new, conn.route) /\ Len(Used(new)) = 2 - 1
      /\ \A i \in 1 .. 2 - 1 : Used(new)[i] = link[i]
  <2>1. Path(new, conn.route) /\ Linked(new, link, 2)
    <3> HIDE DEF stop, link
    <3> QED BY <1>4, PathIs
  <2> QED BY <2>1 DEF Linked
<1>6. Used(new)[1] = conn
  <2>1. 1 \in 1 .. 2 - 1 /\ link[1] = conn
    OBVIOUS
  <2> QED BY <1>5, <2>1
<1>7. /\ new[1].stop = conn.start /\ new[2].stop = conn.end
      /\ new[1].back = "none" /\ new[2].back = "node"
  BY <1>3
<1> QED BY <1>3, <1>5, <1>6, <1>7

\* addStopToRouteEnd.
OneMore(new, nodes, conn) ==
  new = Append([nodes EXCEPT ![Len(nodes)].right = conn],
               [L!NewNode(conn.end) EXCEPT !.back = "node", !.left = conn])

LEMMA PathEnd ==
  ASSUME NEW nodes, NEW name, Path(nodes, name), NEW n \in Nat, Len(nodes) = n, n > 0,
         NEW conn \in Conns, conn.route = name, nodes[n].stop = conn.start, NEW new, OneMore(new, nodes, conn)
  PROVE  /\ Path(new, name) /\ Joined(nodes, new, n + 1, conn.end)
         /\ Inserted(Used(nodes), Used(new), n, conn)
         /\ new[1].back = nodes[1].back /\ new[n + 1].back = "node"
         /\ \A i \in 2 .. n : new[i].back = nodes[i].back
<1>1. conn.start \in Stops /\ conn.end \in Stops
  BY DEF Conns
<1>2. /\ nodes \in Seq(Nodes) /\ DOMAIN nodes = 1 .. n
      /\ \A i \in 1 .. n : nodes[i] \in Nodes
  BY NodesFacts DEF Path
<1> DEFINE b == [stop |-> conn.end, back |-> "node", left |-> conn, right |-> Null]
           old == [nodes EXCEPT ![n].right = conn]
<1>3. b = [L!NewNode(conn.end) EXCEPT !.back = "node", !.left = conn] /\ b \in Nodes
  BY <1>1, NewNodes
<1>4. /\ old \in Seq(Nodes) /\ Len(old) = n
      /\ \A i \in 1 .. n : /\ old[i].stop = nodes[i].stop /\ old[i].left = nodes[i].left
                           /\ old[i].back = nodes[i].back
                           /\ old[i].right = IF i = n THEN conn ELSE nodes[i].right
  <2>1. [nodes[n] EXCEPT !.right = conn] \in Nodes
    BY <1>2 DEF Nodes
  <2>2. old = [nodes EXCEPT ![n] = [nodes[n] EXCEPT !.right = conn]] /\ n \in 1 .. n
    OBVIOUS
  <2>3. old \in Seq(Nodes) /\ Len(old) = n
    <3> HIDE DEF old
    <3> QED BY <1>2, <2>1, <2>2, ExceptSeq
  <2>4. \A i \in 1 .. n : old[i] = IF i = n THEN [nodes[n] EXCEPT !.right = conn] ELSE nodes[i]
    BY <1>2
  <2>5. [nodes[n] EXCEPT !.right = conn] = [stop |-> nodes[n].stop, back |-> nodes[n].back,
                                            left |-> nodes[n].left, right |-> conn]
    BY <1>2 DEF Nodes
  <2> HIDE DEF old
  <2> QED BY <2>3, <2>4, <2>5
<1>5. /\ new \in Seq(Nodes) /\ Len(new) = n + 1
      /\ \A i \in 1 .. n : new[i] = old[i]
      /\ new[n + 1] = b
  <2>1. new = Append(old, b)
    BY <1>3 DEF OneMore
  <2> HIDE DEF old, b
  <2>2. /\ Append(old, b) \in Seq(Nodes) /\ Len(Append(old, b)) = Len(old) + 1
        /\ \A i \in 1 .. Len(old) : Append(old, b)[i] = old[i]
        /\ Append(old, b)[Len(old) + 1] = b
    BY <1>3, <1>4, AppendProperties
  <2> QED BY <1>4, <2>1, <2>2
<1>6. /\ \A i \in 1 .. n : /\ nodes[i].left = IF i = 1 THEN Null ELSE Used(nodes)[i - 1]
                           /\ nodes[i].right = IF i = n THEN Null ELSE Used(nodes)[i]
      /\ \A i \in 1 .. n - 1 :
              /\ Used(nodes)[i] \in Conns /\ Used(nodes)[i].route = name
              /\ Used(nodes)[i].start = nodes[i].stop /\ Used(nodes)[i].end = nodes[i + 1].stop
  BY PathHas, SMTT(40), ZenonT(40)
<1> DEFINE stop == [i \in 1 .. n + 1 |-> IF i = n + 1 THEN conn.end ELSE nodes[i].stop]
           link == [i \in 1 .. n |-> IF i = n THEN conn ELSE Used(nodes)[i]]
<1>7. \A i \in 1 .. n + 1 : /\ new[i].stop = stop[i]
                            /\ new[i].left = IF i = 1 THEN Null ELSE link[i - 1]
                            /\ new[i].right = IF i = n + 1 THEN Null ELSE link[i]
  <2> SUFFICES ASSUME NEW i \in 1 .. n + 1
               PROVE  /\ new[i].stop = stop[i]
                      /\ new[i].left = IF i = 1 THEN Null ELSE link[i - 1]
                      /\ new[i].right = IF i = n + 1 THEN Null ELSE link[i]
    OBVIOUS
  <2>1. CASE i = n + 1
    <3>1. i # 1 /\ i - 1 = n /\ n \in 1 .. n
      BY <2>1
    <3>2. b.stop = conn.end /\ b.left = conn /\ b.right = Null
      OBVIOUS
    <3> HIDE DEF b
    <3> QED BY <1>5, <2>1, <3>1, <3>2
  <2>2. CASE i # n + 1
    <3>1. i \in 1 .. n
      BY <2>2
    <3>2. stop[i] = nodes[i].stop /\ link[i] = (IF i = n THEN conn ELSE Used(nodes)[i])
      BY <2>2, <3>1
    <3>3. i # 1 => i - 1 \in 1 .. n /\ i - 1 # n
      BY <3>1
    <3>4. i # 1 => link[i - 1] = Used(nodes)[i - 1]
      BY <3>3
    <3> HIDE DEF stop, link, old
    <3> QED BY <1>4, <1>5, <1>6, <2>2, <3>1, <3>2, <3>4
  <2> QED BY <2>1, <2>2
<1>8. \A i \in 1 .. (n + 1) - 1 : /\ link[i] \in Conns /\ link[i].route = name
                                  /\ link[i].start = stop[i] /\ link[i].end = stop[i + 1]
  <2> SUFFICES ASSUME NEW i \in 1 .. n
               PROVE  /\ link[i] \in Conns /\ link[i].route = name
                      /\ link[i].start = stop[i] /\ link[i].end = stop[i + 1]
    <3>1. (n + 1) - 1 = n
      OBVIOUS
    <3> HIDE DEF link, stop
    <3> QED BY <3>1
  <2>1. CASE i = n
    <3>1. link[i] = conn /\ stop[i] = nodes[n].stop /\ stop[i + 1] = conn.end
      BY <2>1
    <3> HIDE DEF link, stop
    <3> QED BY <3>1
  <2>2. CASE i # n
    <3>1. i \in 1 .. n - 1 /\ i + 1 \in 1 .. n /\ i + 1 # n + 1
      BY <2>2
    <3>2. link[i] = Used(nodes)[i] /\ stop[i] = nodes[i].stop /\ stop[i + 1] = nodes[i + 1].stop
      BY <2>2, <3>1
    <3> HIDE DEF link, stop
    <3> QED BY <1>6, <3>1, <3>2
  <2> QED BY <2>1, <2>2
<1>9. Follows(new, name, stop, link, n + 1)
  <2>1. n + 1 \in Nat /\ n + 1 > 0
    OBVIOUS
  <2> HIDE DEF stop, link, b, old
  <2> QED BY <1>5, <1>7, <1>8, <2>1 DEF Follows
<1> HIDE DEF b, old
<1>10. /\ Path(new, name) /\ Used(new) \in Seq(Conns) /\ Len(Used(new)) = n
       /\ \A i \in 1 .. n : Used(new)[i] = link[i]
  <2>1. (n + 1) - 1 = n
    OBVIOUS
  <2> HIDE DEF stop, link
  <2>2. Path(new, name) /\ Linked(new, link, n + 1)
    BY <1>9, PathIs
  <2> QED BY <2>1, <2>2 DEF Linked
<1>11. Joined(nodes, new, n + 1, conn.end)
  <2>1. \A j \in 1 .. n : Beyond(n + 1, j) = j /\ j \in 1 .. n + 1
    BY DEF Beyond
  <2>2. \A j \in 1 .. n : new[j].stop = nodes[j].stop
    BY <1>4, <1>5
  <2>3. new[n + 1].stop = conn.end
    BY <1>5 DEF b
  <2>4. n + 1 \in 1 .. n + 1
    OBVIOUS
  <2> HIDE DEF stop, link
  <2> QED BY <1>2, <1>5, <1>10, <2>1, <2>2, <2>3, <2>4, StopsJoined
<1>12. Inserted(Used(nodes), Used(new), n, conn)
  <2>1. Used(nodes) \in Seq(Conns) /\ Len(Used(nodes)) = n - 1
    BY UsedFacts
  <2>2. Used(new)[n] = conn
    <3>1. n \in 1 .. n
      OBVIOUS
    <3> QED BY <1>10, <3>1
  <2>3. \A j \in 1 .. n - 1 : Beyond(n, j) = j /\ j \in 1 .. n /\ j # n
    BY DEF Beyond
  <2>4. \A j \in 1 .. n - 1 : Used(new)[j] = Used(nodes)[j]
    BY <1>10, <2>3
  <2>5. n \in 1 .. n /\ n = (n - 1) + 1
    OBVIOUS
  <2> QED BY <1>10, <2>1, <2>2, <2>3, <2>4, <2>5 DEF Inserted
<1>13. /\ new[1].back = nodes[1].back /\ new[n + 1].back = "node"
       /\ \A i \in 2 .. n : new[i].back = nodes[i].back
  <2>1. b.back = "node"
    BY DEF b
  <2>2. 1 \in 1 .. n /\ \A i \in 2 .. n : i \in 1 .. n
    OBVIOUS
  <2> QED BY <1>4, <1>5, <2>1, <2>2
<1> QED BY <1>10, <1>11, <1>12, <1>13

\* A node that gets another connection.
Differs(new, old, p, left, back) ==
  /\ new \in Seq(Nodes) /\ Len(new) = Len(old)
  /\ \A i \in 1 .. Len(old) :
       /\ new[i].stop = old[i].stop /\ new[i].right = old[i].right
       /\ new[i].left = IF i = p THEN left ELSE old[i].left
       /\ new[i].back = IF i = p THEN back ELSE old[i].back

LEMMA LeftSet ==
  ASSUME NEW nodes \in Seq(Nodes), NEW p \in 1 .. Len(nodes), NEW c \in Conns \cup {Null}
  PROVE  LET new == [nodes EXCEPT ![p].left = c] IN
         /\ new \in Seq(Nodes) /\ Len(new) = Len(nodes) /\ DOMAIN new = DOMAIN nodes
         /\ \A i \in 1 .. Len(nodes) :
              /\ new[i].stop = nodes[i].stop /\ new[i].right = nodes[i].right
              /\ new[i].left = (IF i = p THEN c ELSE nodes[i].left) /\ new[i].back = nodes[i].back
<1> DEFINE new == [nodes EXCEPT ![p].left = c]
           x == [stop |-> nodes[p].stop, back |-> nodes[p].back, left |-> c, right |-> nodes[p].right]
<1>1. /\ Len(nodes) \in Nat /\ DOMAIN nodes = 1 .. Len(nodes)
      /\ \A i \in 1 .. Len(nodes) : nodes[i] \in Nodes
  BY NodesFacts
<1>2. [nodes[p] EXCEPT !.left = c] = x /\ x \in Nodes
  BY <1>1 DEF Nodes
<1>3. new = [nodes EXCEPT ![p] = x]
  <2>1. new = [nodes EXCEPT ![p] = [nodes[p] EXCEPT !.left = c]]
    OBVIOUS
  <2> HIDE DEF new, x
  <2> QED BY <1>2, <2>1
<1>4. new \in Seq(Nodes) /\ Len(new) = Len(nodes)
  <2> HIDE DEF new, x
  <2> QED BY <1>2, <1>3, ExceptSeq
<1>5. \A i \in 1 .. Len(nodes) : new[i] = IF i = p THEN x ELSE nodes[i]
  <2> HIDE DEF new, x
  <2> QED BY <1>1, <1>3
<1>6. x.stop = nodes[p].stop /\ x.back = nodes[p].back /\ x.left = c /\ x.right = nodes[p].right
  OBVIOUS
<1> HIDE DEF new, x
<1>7. DOMAIN new = DOMAIN nodes
  BY <1>1, <1>4, LenProperties
<1>8. /\ new \in Seq(Nodes) /\ Len(new) = Len(nodes) /\ DOMAIN new = DOMAIN nodes
      /\ \A i \in 1 .. Len(nodes) :
           /\ new[i].stop = nodes[i].stop /\ new[i].right = nodes[i].right
           /\ new[i].left = (IF i = p THEN c ELSE nodes[i].left) /\ new[i].back = nodes[i].back
  BY <1>4, <1>5, <1>6, <1>7
<1> QED BY <1>8 DEF new

LEMMA RightSet ==
  ASSUME NEW nodes \in Seq(Nodes), NEW p \in 1 .. Len(nodes), NEW c \in Conns \cup {Null}
  PROVE  LET new == [nodes EXCEPT ![p].right = c] IN
         /\ new \in Seq(Nodes) /\ Len(new) = Len(nodes) /\ DOMAIN new = DOMAIN nodes
         /\ \A i \in 1 .. Len(nodes) :
              /\ new[i].stop = nodes[i].stop /\ new[i].left = nodes[i].left
              /\ new[i].right = (IF i = p THEN c ELSE nodes[i].right) /\ new[i].back = nodes[i].back
<1> DEFINE new == [nodes EXCEPT ![p].right = c]
           x == [stop |-> nodes[p].stop, back |-> nodes[p].back, left |-> nodes[p].left, right |-> c]
<1>1. /\ Len(nodes) \in Nat /\ DOMAIN nodes = 1 .. Len(nodes)
      /\ \A i \in 1 .. Len(nodes) : nodes[i] \in Nodes
  BY NodesFacts
<1>2. [nodes[p] EXCEPT !.right = c] = x /\ x \in Nodes
  BY <1>1 DEF Nodes
<1>3. new = [nodes EXCEPT ![p] = x]
  <2>1. new = [nodes EXCEPT ![p] = [nodes[p] EXCEPT !.right = c]]
    OBVIOUS
  <2> HIDE DEF new, x
  <2> QED BY <1>2, <2>1
<1>4. new \in Seq(Nodes) /\ Len(new) = Len(nodes)
  <2> HIDE DEF new, x
  <2> QED BY <1>2, <1>3, ExceptSeq
<1>5. \A i \in 1 .. Len(nodes) : new[i] = IF i = p THEN x ELSE nodes[i]
  <2> HIDE DEF new, x
  <2> QED BY <1>1, <1>3
<1>6. x.stop = nodes[p].stop /\ x.back = nodes[p].back /\ x.left = nodes[p].left /\ x.right = c
  OBVIOUS
<1> HIDE DEF new, x
<1>7. DOMAIN new = DOMAIN nodes
  BY <1>1, <1>4, LenProperties
<1>8. /\ new \in Seq(Nodes) /\ Len(new) = Len(nodes) /\ DOMAIN new = DOMAIN nodes
      /\ \A i \in 1 .. Len(nodes) :
           /\ new[i].stop = nodes[i].stop /\ new[i].left = nodes[i].left
           /\ new[i].right = (IF i = p THEN c ELSE nodes[i].right) /\ new[i].back = nodes[i].back
  BY <1>4, <1>5, <1>6, <1>7
<1> QED BY <1>8 DEF new

BackIs(new, old, p, back) ==
  /\ new \in Seq(Nodes) /\ Len(new) = Len(old)
  /\ \A i \in 1 .. Len(old) :
       /\ new[i].stop = old[i].stop /\ new[i].left = old[i].left
       /\ new[i].right = old[i].right /\ new[i].back = IF i = p THEN back ELSE old[i].back

LEMMA BackSet ==
  ASSUME NEW nodes \in Seq(Nodes), NEW p \in 1 .. Len(nodes), NEW b \in {"none", "node", "freed"}
  PROVE  BackIs([nodes EXCEPT ![p].back = b], nodes, p, b)
<1> DEFINE new == [nodes EXCEPT ![p].back = b]
           x == [stop |-> nodes[p].stop, back |-> b, left |-> nodes[p].left, right |-> nodes[p].right]
<1>1. /\ Len(nodes) \in Nat /\ DOMAIN nodes = 1 .. Len(nodes)
      /\ \A i \in 1 .. Len(nodes) : nodes[i] \in Nodes
  BY NodesFacts
<1>2. [nodes[p] EXCEPT !.back = b] = x /\ x \in Nodes
  BY <1>1 DEF Nodes
<1>3. new = [nodes EXCEPT ![p] = x]
  <2>1. new = [nodes EXCEPT ![p] = [nodes[p] EXCEPT !.back = b]]
    OBVIOUS
  <2> HIDE DEF new, x
  <2> QED BY <1>2, <2>1
<1>4. new \in Seq(Nodes) /\ Len(new) = Len(nodes)
  <2> HIDE DEF new, x
  <2> QED BY <1>2, <1>3, ExceptSeq
<1>5. \A i \in 1 .. Len(nodes) : new[i] = IF i = p THEN x ELSE nodes[i]
  <2> HIDE DEF new, x
  <2> QED BY <1>1, <1>3
<1>6. x.stop = nodes[p].stop /\ x.back = b /\ x.left = nodes[p].left /\ x.right = nodes[p].right
  OBVIOUS
<1> HIDE DEF new, x
<1>7. /\ new \in Seq(Nodes) /\ Len(new) = Len(nodes)
      /\ \A i \in 1 .. Len(nodes) :
           /\ new[i].stop = nodes[i].stop /\ new[i].left = nodes[i].left
           /\ new[i].right = nodes[i].right /\ new[i].back = IF i = p THEN b ELSE nodes[i].back
  BY <1>4, <1>5, <1>6
<1> QED BY <1>7 DEF new, BackIs

\* A node that gets another connection to its left, and another pointer back.
LEMMA LeftAndBackSet ==
  ASSUME NEW nodes \in Seq(Nodes), NEW p \in 1 .. Len(nodes), NEW c \in Conns \cup {Null},
         NEW b \in {"none", "node", "freed"}
  PROVE  Differs([nodes EXCEPT ![p].left = c, ![p].back = b], nodes, p, c, b)
<1> DEFINE one == [nodes EXCEPT ![p].left = c]
           two == [one EXCEPT ![p].back = b]
<1>1. [nodes EXCEPT ![p].left = c, ![p].back = b] = two
  OBVIOUS
<1>2. /\ one \in Seq(Nodes) /\ Len(one) = Len(nodes)
      /\ \A i \in 1 .. Len(nodes) :
           /\ one[i].stop = nodes[i].stop /\ one[i].right = nodes[i].right
           /\ one[i].left = (IF i = p THEN c ELSE nodes[i].left) /\ one[i].back = nodes[i].back
  BY LeftSet
<1> HIDE DEF one
<1>3. /\ two \in Seq(Nodes) /\ Len(two) = Len(one)
      /\ \A i \in 1 .. Len(one) :
           /\ two[i].stop = one[i].stop /\ two[i].left = one[i].left
           /\ two[i].right = one[i].right /\ two[i].back = IF i = p THEN b ELSE one[i].back
  <2>1. p \in 1 .. Len(one)
    BY <1>2
  <2>2. BackIs(two, one, p, b)
    BY <1>2, <2>1, BackSet
  <2> HIDE DEF two
  <2> QED BY <2>2 DEF BackIs
<1> HIDE DEF two
<1>4. Differs(two, nodes, p, c, b)
  BY <1>2, <1>3 DEF Differs
<1> QED BY <1>1, <1>4

\* addStopToRouteBeginning.
OneBefore(new, nodes, conn) ==
  new = <<[L!NewNode(conn.start) EXCEPT !.right = conn]>>
          \o [nodes EXCEPT ![1].left = conn, ![1].back = "node"]

LEMMA PathBeginning ==
  ASSUME NEW nodes, NEW name, Path(nodes, name), NEW n \in Nat, Len(nodes) = n, n > 0,
         NEW conn \in Conns, conn.route = name, nodes[1].stop = conn.end, NEW new, OneBefore(new, nodes, conn)
  PROVE  /\ Path(new, name) /\ Joined(nodes, new, 1, conn.start)
         /\ Inserted(Used(nodes), Used(new), 1, conn)
         /\ new[1].back = "none" /\ new[2].back = "node"
         /\ \A i \in 2 .. n : new[i + 1].back = nodes[i].back
<1>1. conn.start \in Stops /\ conn.end \in Stops
  BY DEF Conns
<1>2. nodes \in Seq(Nodes) /\ 1 \in 1 .. n /\ 1 \in 1 .. Len(nodes)
  BY DEF Path
<1> DEFINE a == [stop |-> conn.start, back |-> "none", left |-> Null, right |-> conn]
           old == [nodes EXCEPT ![1].left = conn, ![1].back = "node"]
<1>3. a = [L!NewNode(conn.start) EXCEPT !.right = conn] /\ a \in Nodes
  BY <1>1, NewNodes
<1>4. /\ old \in Seq(Nodes) /\ Len(old) = n
      /\ \A i \in 1 .. n :
           /\ old[i].stop = nodes[i].stop /\ old[i].right = nodes[i].right
           /\ old[i].left = (IF i = 1 THEN conn ELSE nodes[i].left)
           /\ old[i].back = IF i = 1 THEN "node" ELSE nodes[i].back
  <2>1. Differs(old, nodes, 1, conn, "node")
    BY <1>2, LeftAndBackSet
  <2> HIDE DEF old
  <2> QED BY <2>1 DEF Differs
<1>5. /\ new \in Seq(Nodes) /\ Len(new) = n + 1
      /\ \A i \in 1 .. n : new[i + 1] = old[i]
      /\ new[1] = a
  <2>1. new = <<a>> \o old
    BY <1>3 DEF OneBefore
  <2> HIDE DEF old, a
  <2>2. /\ <<a>> \o old \in Seq(Nodes) /\ Len(<<a>> \o old) = Len(old) + 1
        /\ (<<a>> \o old)[1] = a /\ \A j \in 1 .. Len(old) : (<<a>> \o old)[j + 1] = old[j]
    BY <1>3, <1>4, ConsInserts
  <2> QED BY <1>4, <2>1, <2>2
<1>6. /\ Used(nodes) \in Seq(Conns) /\ Len(Used(nodes)) = n - 1
      /\ \A i \in 1 .. n : /\ nodes[i].left = IF i = 1 THEN Null ELSE Used(nodes)[i - 1]
                           /\ nodes[i].right = IF i = n THEN Null ELSE Used(nodes)[i]
      /\ \A i \in 1 .. n - 1 :
              /\ Used(nodes)[i] \in Conns /\ Used(nodes)[i].route = name
              /\ Used(nodes)[i].start = nodes[i].stop /\ Used(nodes)[i].end = nodes[i + 1].stop
  BY PathHas, UsedFacts, SMTT(40), ZenonT(40)
<1>7. a.stop = conn.start /\ a.back = "none" /\ a.left = Null /\ a.right = conn
  OBVIOUS
<1> HIDE DEF a, old
<1> DEFINE stop == [i \in 1 .. n + 1 |-> IF i = 1 THEN conn.start ELSE nodes[i - 1].stop]
           link == [i \in 1 .. n |-> IF i = 1 THEN conn ELSE Used(nodes)[i - 1]]
<1>8. ASSUME NEW i \in 1 .. n + 1
      PROVE  /\ new[i].stop = stop[i]
             /\ new[i].left = IF i = 1 THEN Null ELSE link[i - 1]
             /\ new[i].right = IF i = n + 1 THEN Null ELSE link[i]
  <2>1. CASE i = 1
    <3>1. stop[i] = conn.start /\ link[i] = conn /\ i # n + 1
      BY <1>2, <2>1
    <3> HIDE DEF stop, link
    <3> QED BY <1>5, <1>7, <2>1, <3>1
  <2>2. CASE i # 1
    <3>1. i - 1 \in 1 .. n /\ (i - 1) + 1 = i /\ (i = n + 1 <=> i - 1 = n)
      BY <2>2
    <3>2. stop[i] = nodes[i - 1].stop /\ (i # n + 1 => i \in 1 .. n /\ link[i] = Used(nodes)[i - 1])
      BY <2>2
    <3>3. link[i - 1] = IF i - 1 = 1 THEN conn ELSE Used(nodes)[(i - 1) - 1]
      BY <3>1
    <3> HIDE DEF stop, link
    <3>4. new[i] = old[i - 1]
      BY <1>5, <3>1
    <3>5. PICK k \in 1 .. n : k = i - 1
      BY <3>1
    <3>6. new[i].stop = nodes[k].stop /\ new[i].right = nodes[k].right
          /\ new[i].left = (IF k = 1 THEN conn ELSE nodes[k].left)
      BY <1>4, <3>4, <3>5
    <3>7. /\ nodes[k].left = IF k = 1 THEN Null ELSE Used(nodes)[k - 1]
          /\ nodes[k].right = IF k = n THEN Null ELSE Used(nodes)[k]
      BY <1>6
    <3> QED BY <2>2, <3>1, <3>2, <3>3, <3>5, <3>6, <3>7
  <2> QED BY <2>1, <2>2
<1>9. ASSUME NEW i \in 1 .. n
      PROVE  /\ link[i] \in Conns /\ link[i].route = name
             /\ link[i].start = stop[i] /\ link[i].end = stop[i + 1]
  <2>1. CASE i = 1
    <3>1. link[i] = conn /\ stop[i] = conn.start /\ stop[i + 1] = nodes[1].stop
      BY <2>1
    <3> HIDE DEF link, stop
    <3> QED BY <3>1
  <2>2. CASE i # 1
    <3>1. i - 1 \in 1 .. n - 1 /\ i + 1 \in 1 .. n + 1 /\ i + 1 # 1 /\ (i + 1) - 1 = i /\ (i - 1) + 1 = i
          /\ i \in 1 .. n + 1
      BY <2>2
    <3>2. link[i] = Used(nodes)[i - 1] /\ stop[i] = nodes[i - 1].stop /\ stop[i + 1] = nodes[i].stop
      BY <2>2, <3>1
    <3> HIDE DEF link, stop
    <3>3. /\ Used(nodes)[i - 1] \in Conns /\ Used(nodes)[i - 1].route = name
          /\ Used(nodes)[i - 1].start = nodes[i - 1].stop /\ Used(nodes)[i - 1].end = nodes[(i - 1) + 1].stop
      BY <1>6, <3>1
    <3> QED BY <3>1, <3>2, <3>3
  <2> QED BY <2>1, <2>2
<1>10. (n + 1) - 1 = n
  OBVIOUS
<1>11. Follows(new, name, stop, link, n + 1)
  <2>1. n + 1 \in Nat /\ n + 1 > 0
    OBVIOUS
  <2> HIDE DEF stop, link
  <2> QED BY <1>5, <1>8, <1>9, <1>10, <2>1 DEF Follows
<1>12. /\ Path(new, name) /\ Used(new) \in Seq(Conns) /\ Len(Used(new)) = n
       /\ \A i \in 1 .. n : Used(new)[i] = link[i]
  <2> HIDE DEF stop, link
  <2>1. Path(new, name) /\ Linked(new, link, n + 1)
    BY <1>11, PathIs
  <2> QED BY <1>10, <2>1 DEF Linked
<1>13. Joined(nodes, new, 1, conn.start)
  <2>1. \A j \in 1 .. n : Beyond(1, j) = j + 1
    BY DEF Beyond
  <2>2. \A j \in 1 .. n : new[j + 1].stop = nodes[j].stop
    BY <1>4, <1>5
  <2>3. new[1].stop = conn.start
    BY <1>5, <1>7
  <2>4. 1 \in 1 .. n + 1
    OBVIOUS
  <2> HIDE DEF stop, link
  <2> QED BY <1>2, <1>5, <2>1, <2>2, <2>3, <2>4, StopsJoined, SMTT(40), ZenonT(40)
<1>14. Inserted(Used(nodes), Used(new), 1, conn)
  <2>1. Used(new)[1] = conn
    BY <1>2, <1>12
  <2>2. \A j \in 1 .. n - 1 : Beyond(1, j) = j + 1 /\ j + 1 \in 1 .. n /\ j + 1 # 1 /\ (j + 1) - 1 = j
    BY DEF Beyond
  <2>3. \A j \in 1 .. n - 1 : Used(new)[j + 1] = Used(nodes)[j]
    BY <1>12, <2>2
  <2>4. 1 \in 1 .. n /\ n = (n - 1) + 1
    OBVIOUS
  <2> HIDE DEF stop, link
  <2> QED BY <1>6, <1>12, <2>1, <2>2, <2>3, <2>4 DEF Inserted
<1>15. /\ new[1].back = "none" /\ new[2].back = "node"
       /\ \A i \in 2 .. n : new[i + 1].back = nodes[i].back
  <2>1. \A i \in 2 .. n : i \in 1 .. n /\ i # 1
    OBVIOUS
  <2>2. 1 + 1 = 2
    OBVIOUS
  <2>3. new[1 + 1] = old[1]
    BY <1>2, <1>5
  <2>4. \A i \in 2 .. n : new[i + 1] = old[i]
    BY <1>5, <2>1
  <2>5. old[1].back = "node"
    BY <1>2, <1>4
  <2>6. \A i \in 2 .. n : old[i].back = nodes[i].back
    BY <1>4, <2>1
  <2>7. new[1].back = "none"
    BY <1>5, <1>7
  <2> QED BY <2>2, <2>3, <2>4, <2>5, <2>6, <2>7
<1> QED BY <1>12, <1>13, <1>14, <1>15

\* A node that gets another connection to its right.
RightIs(new, old, p, right) ==
  /\ new \in Seq(Nodes) /\ Len(new) = Len(old)
  /\ \A i \in 1 .. Len(old) :
       /\ new[i].stop = old[i].stop /\ new[i].left = old[i].left
       /\ new[i].right = IF i = p THEN right ELSE old[i].right
       /\ new[i].back = old[i].back

LEMMA RightIsSet ==
  ASSUME NEW nodes \in Seq(Nodes), NEW p \in 1 .. Len(nodes), NEW c \in Conns \cup {Null}
  PROVE  RightIs([nodes EXCEPT ![p].right = c], nodes, p, c)
<1> DEFINE new == [nodes EXCEPT ![p].right = c]
<1>1. /\ new \in Seq(Nodes) /\ Len(new) = Len(nodes)
      /\ \A i \in 1 .. Len(nodes) :
           /\ new[i].stop = nodes[i].stop /\ new[i].left = nodes[i].left
           /\ new[i].right = (IF i = p THEN c ELSE nodes[i].right) /\ new[i].back = nodes[i].back
  BY RightSet
<1> HIDE DEF new
<1>2. RightIs(new, nodes, p, c)
  BY <1>1 DEF RightIs
<1> QED BY <1>2 DEF new

LeftIs(new, old, p, left) ==
  /\ new \in Seq(Nodes) /\ Len(new) = Len(old)
  /\ \A i \in 1 .. Len(old) :
       /\ new[i].stop = old[i].stop /\ new[i].right = old[i].right
       /\ new[i].left = IF i = p THEN left ELSE old[i].left
       /\ new[i].back = old[i].back

LEMMA LeftIsSet ==
  ASSUME NEW nodes \in Seq(Nodes), NEW p \in 1 .. Len(nodes), NEW c \in Conns \cup {Null}
  PROVE  LeftIs([nodes EXCEPT ![p].left = c], nodes, p, c)
<1> DEFINE new == [nodes EXCEPT ![p].left = c]
<1>1. /\ new \in Seq(Nodes) /\ Len(new) = Len(nodes)
      /\ \A i \in 1 .. Len(nodes) :
           /\ new[i].stop = nodes[i].stop /\ new[i].right = nodes[i].right
           /\ new[i].left = (IF i = p THEN c ELSE nodes[i].left) /\ new[i].back = nodes[i].back
  BY LeftSet
<1> HIDE DEF new
<1>2. LeftIs(new, nodes, p, c)
  BY <1>1 DEF LeftIs
<1> QED BY <1>2 DEF new

\* deleteStopOfRoute of the first node.
Beheaded(new, nodes) == new = [Tail(nodes) EXCEPT ![1].left = Null, ![1].back = "freed"]

LEMMA PathBeheaded ==
  ASSUME NEW nodes, NEW name, Path(nodes, name), NEW n \in Nat, Len(nodes) = n, n > 1,
         NEW new, Beheaded(new, nodes)
  PROVE  /\ Path(new, name) /\ Joined(new, nodes, 1, nodes[1].stop)
         /\ nodes[1].right \in Conns /\ nodes[1].right.route = name
         /\ Inserted(Used(new), Used(nodes), 1, nodes[1].right)
<1>1. PICK m \in Nat : m = n - 1 /\ m > 0 /\ n = m + 1 /\ m # 0
  OBVIOUS
<1>2. nodes \in Seq(Nodes) /\ nodes # << >> /\ 1 \in 1 .. n /\ 1 \in 1 .. m
  BY <1>1 DEF Path
<1> DEFINE rest == Tail(nodes)
<1>3. /\ rest \in Seq(Nodes) /\ Len(rest) = m
      /\ \A i \in 1 .. m : rest[i] = nodes[i + 1]
  BY <1>1, <1>2, HeadTailProperties
<1>4. /\ new \in Seq(Nodes) /\ Len(new) = m
      /\ \A i \in 1 .. m :
           /\ new[i].stop = nodes[i + 1].stop /\ new[i].right = nodes[i + 1].right
           /\ new[i].left = (IF i = 1 THEN Null ELSE nodes[i + 1].left)
  <2>1. new = [rest EXCEPT ![1].left = Null, ![1].back = "freed"]
    BY DEF Beheaded
  <2> HIDE DEF rest
  <2>2. 1 \in 1 .. Len(rest) /\ Null \in Conns \cup {Null} /\ "freed" \in {"none", "node", "freed"}
    BY <1>2, <1>3
  <2>3. Differs([rest EXCEPT ![1].left = Null, ![1].back = "freed"], rest, 1, Null, "freed")
    BY <1>3, <2>2, LeftAndBackSet
  <2>4. Differs(new, rest, 1, Null, "freed")
    BY <2>1, <2>3, Zenon
  <2> QED BY <1>3, <2>4 DEF Differs
<1> HIDE DEF rest
<1>5. /\ Used(nodes) \in Seq(Conns) /\ Len(Used(nodes)) = m
      /\ \A i \in 1 .. n : /\ nodes[i].left = IF i = 1 THEN Null ELSE Used(nodes)[i - 1]
                           /\ nodes[i].right = IF i = n THEN Null ELSE Used(nodes)[i]
      /\ \A i \in 1 .. m :
              /\ Used(nodes)[i] \in Conns /\ Used(nodes)[i].route = name
              /\ Used(nodes)[i].start = nodes[i].stop /\ Used(nodes)[i].end = nodes[i + 1].stop
  <2>1. Used(nodes) \in Seq(Conns) /\ Len(Used(nodes)) = n - 1
    BY <1>1, UsedFacts
  <2>2. /\ \A i \in 1 .. n : /\ nodes[i].left = IF i = 1 THEN Null ELSE Used(nodes)[i - 1]
                             /\ nodes[i].right = IF i = n THEN Null ELSE Used(nodes)[i]
        /\ \A i \in 1 .. n - 1 :
              /\ Used(nodes)[i] \in Conns /\ Used(nodes)[i].route = name
              /\ Used(nodes)[i].start = nodes[i].stop /\ Used(nodes)[i].end = nodes[i + 1].stop
    BY PathHas, SMTT(40), ZenonT(40)
  <2> QED BY <1>1, <2>1, <2>2
<1> DEFINE stop == [i \in 1 .. m |-> nodes[i + 1].stop]
           link == [i \in 1 .. m - 1 |-> Used(nodes)[i + 1]]
<1>6. ASSUME NEW i \in 1 .. m
      PROVE  /\ new[i].stop = stop[i]
             /\ new[i].left = IF i = 1 THEN Null ELSE link[i - 1]
             /\ new[i].right = IF i = m THEN Null ELSE link[i]
  <2>1. i + 1 \in 1 .. n /\ i + 1 # 1 /\ (i + 1) - 1 = i /\ (i + 1 = n <=> i = m)
    BY <1>1
  <2>2. nodes[i + 1].left = Used(nodes)[i] /\ nodes[i + 1].right = IF i = m THEN Null ELSE Used(nodes)[i + 1]
    BY <1>5, <2>1
  <2>3. i # 1 => i - 1 \in 1 .. m - 1 /\ (i - 1) + 1 = i
    OBVIOUS
  <2>4. i # 1 => link[i - 1] = Used(nodes)[i]
    BY <2>3
  <2>5. i # m => i \in 1 .. m - 1
    OBVIOUS
  <2>6. i # m => link[i] = Used(nodes)[i + 1]
    BY <2>5
  <2>7. stop[i] = nodes[i + 1].stop
    OBVIOUS
  <2> HIDE DEF stop, link
  <2> QED BY <1>4, <2>2, <2>4, <2>6, <2>7
<1>7. ASSUME NEW i \in 1 .. m - 1
      PROVE  /\ link[i] \in Conns /\ link[i].route = name
             /\ link[i].start = stop[i] /\ link[i].end = stop[i + 1]
  <2>1. i \in 1 .. m /\ i + 1 \in 1 .. m
    OBVIOUS
  <2>2. link[i] = Used(nodes)[i + 1] /\ stop[i] = nodes[i + 1].stop /\ stop[i + 1] = nodes[(i + 1) + 1].stop
    BY <2>1
  <2> HIDE DEF link, stop
  <2> QED BY <1>5, <2>1, <2>2
<1>8. Follows(new, name, stop, link, m)
  <2> HIDE DEF stop, link
  <2> QED BY <1>1, <1>4, <1>6, <1>7 DEF Follows
<1>9. /\ Path(new, name) /\ Used(new) \in Seq(Conns) /\ Len(Used(new)) = m - 1
      /\ \A i \in 1 .. m - 1 : Used(new)[i] = link[i]
  <2> HIDE DEF stop, link
  <2>1. Path(new, name) /\ Linked(new, link, m)
    BY <1>8, PathIs
  <2> QED BY <2>1 DEF Linked
<1>10. Joined(new, nodes, 1, nodes[1].stop)
  <2>1. \A j \in 1 .. m : Beyond(1, j) = j + 1
    BY DEF Beyond
  <2> HIDE DEF stop, link
  <2>2. 1 \in 1 .. Len(nodes) /\ Len(nodes) = Len(new) + 1
    BY <1>1, <1>2, <1>4
  <2>3. \A j \in 1 .. Len(new) : nodes[Beyond(1, j)].stop = new[j].stop
    BY <1>4, <2>1
  <2> QED BY <1>2, <1>4, <2>2, <2>3, StopsJoined
<1>11. nodes[1].right = Used(nodes)[1]
  BY <1>1, <1>2, <1>5
<1>12. Inserted(Used(new), Used(nodes), 1, nodes[1].right)
  <2>1. \A j \in 1 .. m - 1 : Beyond(1, j) = j + 1
    BY DEF Beyond
  <2>2. \A j \in 1 .. m - 1 : Used(nodes)[j + 1] = Used(new)[j]
    BY <1>9
  <2> HIDE DEF stop, link
  <2>3. m = (m - 1) + 1
    OBVIOUS
  <2> QED BY <1>2, <1>5, <1>9, <1>11, <2>1, <2>2, <2>3 DEF Inserted
<1> QED BY <1>2, <1>5, <1>9, <1>10, <1>11, <1>12

\* ... of the last node.
Curtailed(new, nodes) == new = [L!Front(nodes) EXCEPT ![Len(L!Front(nodes))].right = Null]

LEMMA PathCurtailed ==
  ASSUME NEW nodes, NEW name, Path(nodes, name), NEW n \in Nat, Len(nodes) = n, n > 1,
         NEW new, Curtailed(new, nodes)
  PROVE  /\ Path(new, name) /\ Joined(new, nodes, n, nodes[n].stop)
         /\ nodes[n].left \in Conns /\ nodes[n].left.route = name
         /\ Inserted(Used(new), Used(nodes), n - 1, nodes[n].left)
<1>1. PICK m \in Nat : m = n - 1 /\ m > 0 /\ n = m + 1 /\ m # 0
  OBVIOUS
<1>2. nodes \in Seq(Nodes) /\ n \in 1 .. n /\ m \in 1 .. n /\ m \in 1 .. m /\ n # 1
  BY <1>1 DEF Path
<1> DEFINE rest == L!Front(nodes)
<1>3. /\ rest \in Seq(Nodes) /\ Len(rest) = m
      /\ \A i \in 1 .. m : rest[i] = nodes[i]
  <2>1. \A i \in 1 .. m : nodes[i] \in Nodes
    BY <1>1, <1>2, NodesFacts
  <2>2. rest = SubSeq(nodes, 1, m)
    BY <1>1 DEF L!Front
  <2> HIDE DEF rest
  <2>3. 1 \in Int /\ m \in Int
    OBVIOUS
  <2>4. /\ SubSeq(nodes, 1, m) \in Seq(Nodes)
        /\ Len(SubSeq(nodes, 1, m)) = IF 1 <= m THEN m - 1 + 1 ELSE 0
        /\ \A i \in 1 .. m - 1 + 1 : SubSeq(nodes, 1, m)[i] = nodes[1 + i - 1]
    BY <2>1, <2>3, SubSeqProperties
  <2>5. m - 1 + 1 = m /\ 1 <= m /\ \A i \in 1 .. m : 1 + i - 1 = i
    BY <1>1
  <2> QED BY <2>2, <2>4, <2>5
<1>4. /\ new \in Seq(Nodes) /\ Len(new) = m
      /\ \A i \in 1 .. m :
           /\ new[i].stop = nodes[i].stop /\ new[i].left = nodes[i].left
           /\ new[i].right = (IF i = m THEN Null ELSE nodes[i].right)
  <2>1. new = [rest EXCEPT ![m].right = Null]
    BY <1>3 DEF Curtailed
  <2> HIDE DEF rest
  <2>2. m \in 1 .. Len(rest) /\ Null \in Conns \cup {Null}
    BY <1>2, <1>3
  <2>3. RightIs([rest EXCEPT ![m].right = Null], rest, m, Null)
    BY <1>3, <2>2, RightIsSet
  <2>4. RightIs(new, rest, m, Null)
    BY <2>1, <2>3, Zenon
  <2> QED BY <1>3, <2>4 DEF RightIs
<1> HIDE DEF rest
<1>5. /\ Used(nodes) \in Seq(Conns) /\ Len(Used(nodes)) = m
      /\ \A i \in 1 .. n : /\ nodes[i].left = IF i = 1 THEN Null ELSE Used(nodes)[i - 1]
                           /\ nodes[i].right = IF i = n THEN Null ELSE Used(nodes)[i]
      /\ \A i \in 1 .. m :
              /\ Used(nodes)[i] \in Conns /\ Used(nodes)[i].route = name
              /\ Used(nodes)[i].start = nodes[i].stop /\ Used(nodes)[i].end = nodes[i + 1].stop
  <2>1. Used(nodes) \in Seq(Conns) /\ Len(Used(nodes)) = n - 1
    BY <1>1, UsedFacts
  <2>2. /\ \A i \in 1 .. n : /\ nodes[i].left = IF i = 1 THEN Null ELSE Used(nodes)[i - 1]
                             /\ nodes[i].right = IF i = n THEN Null ELSE Used(nodes)[i]
        /\ \A i \in 1 .. n - 1 :
              /\ Used(nodes)[i] \in Conns /\ Used(nodes)[i].route = name
              /\ Used(nodes)[i].start = nodes[i].stop /\ Used(nodes)[i].end = nodes[i + 1].stop
    BY PathHas, SMTT(40), ZenonT(40)
  <2> QED BY <1>1, <2>1, <2>2
<1>6. ASSUME NEW i \in 1 .. m
      PROVE  /\ new[i].stop = StopsOf(nodes)[i]
             /\ new[i].left = IF i = 1 THEN Null ELSE Used(nodes)[i - 1]
             /\ new[i].right = IF i = m THEN Null ELSE Used(nodes)[i]
  <2>1. i \in 1 .. n /\ i # n
    BY <1>1
  <2>2. StopsOf(nodes)[i] = nodes[i].stop
    BY <1>2, <2>1, StopsFacts
  <2> QED BY <1>4, <1>5, <2>1, <2>2
<1>7. ASSUME NEW i \in 1 .. m - 1
      PROVE  /\ Used(nodes)[i] \in Conns /\ Used(nodes)[i].route = name
             /\ Used(nodes)[i].start = StopsOf(nodes)[i] /\ Used(nodes)[i].end = StopsOf(nodes)[i + 1]
  <2>1. i \in 1 .. m /\ i \in 1 .. n /\ i + 1 \in 1 .. n
    BY <1>1
  <2>2. StopsOf(nodes)[i] = nodes[i].stop /\ StopsOf(nodes)[i + 1] = nodes[i + 1].stop
    BY <1>2, <2>1, StopsFacts
  <2> QED BY <1>5, <2>1, <2>2
<1>8. Follows(new, name, StopsOf(nodes), Used(nodes), m)
  BY <1>1, <1>4, <1>6, <1>7 DEF Follows
<1>9. /\ Path(new, name) /\ Used(new) \in Seq(Conns) /\ Len(Used(new)) = m - 1
      /\ \A i \in 1 .. m - 1 : Used(new)[i] = Used(nodes)[i]
  <2>1. Path(new, name) /\ Linked(new, Used(nodes), m)
    BY <1>8, PathIs
  <2> QED BY <2>1 DEF Linked
<1>10. Joined(new, nodes, n, nodes[n].stop)
  <2>1. \A j \in 1 .. m : Beyond(n, j) = j
    BY <1>1 DEF Beyond
  <2>2. n \in 1 .. Len(nodes) /\ Len(nodes) = Len(new) + 1
    BY <1>1, <1>2, <1>4
  <2>3. \A j \in 1 .. Len(new) : nodes[Beyond(n, j)].stop = new[j].stop
    BY <1>4, <2>1
  <2> QED BY <1>2, <1>4, <2>2, <2>3, StopsJoined
<1>11. nodes[n].left = Used(nodes)[m]
  BY <1>1, <1>2, <1>5
<1>12. Inserted(Used(new), Used(nodes), m, nodes[n].left)
  <2>1. \A j \in 1 .. m - 1 : Beyond(m, j) = j
    BY DEF Beyond
  <2>2. m = (m - 1) + 1
    OBVIOUS
  <2> QED BY <1>2, <1>5, <1>9, <1>11, <2>1, <2>2 DEF Inserted
<1>13. nodes[n].left \in Conns /\ nodes[n].left.route = name
  <2>1. m \in 1 .. m
    BY <1>2
  <2>2. Used(nodes)[m] \in Conns /\ Used(nodes)[m].route = name
    BY <1>5, <2>1
  <2> QED BY <1>11, <2>2, Zenon
<1>14. Inserted(Used(new), Used(nodes), n - 1, nodes[n].left)
  BY <1>1, <1>12
<1> QED BY <1>9, <1>10, <1>13, <1>14, Zenon

\* RemoveAt, in the words of the lemmas above.
RemovedAt(new, s, i, S, m) ==
  /\ new \in Seq(S) /\ Len(new) = m
  /\ \A j \in 1 .. m : new[j] = s[Beyond(i, j)]
  /\ Inserted(new, s, i, s[i])

LEMMA RemovedAtIs ==
  ASSUME NEW S, NEW s \in Seq(S), NEW i \in 1 .. Len(s), NEW m \in Nat, m + 1 = Len(s)
  PROVE  RemovedAt(L!RemoveAt(s, i), s, i, S, m)
<1> DEFINE new == L!RemoveAt(s, i)
<1>1. /\ new \in Seq(S) /\ Len(new) = Len(s) - 1 /\ Len(s) \in Nat
      /\ \A j \in 1 .. Len(s) - 1 : new[j] = s[Beyond(i, j)]
      /\ Inserted(new, s, i, s[i])
  BY RemoveAtFacts
<1> HIDE DEF new
<1>2. Len(s) - 1 = m
  BY <1>1
<1>3. RemovedAt(new, s, i, S, m)
  BY <1>1, <1>2 DEF RemovedAt
<1> QED BY <1>3 DEF new

\* deleteStopOfRoute of a node in the middle: the two connections of the node become one.
Bypassed(new, nodes, i, conn) ==
  new = L!RemoveAt([nodes EXCEPT ![i - 1].right = conn, ![i + 1].left = conn], i)

\* The connections of new are those of old with one in the place of two.
Replaced(new, old, i, conn, left, right) ==
  \E x \in Seq(Conns), mid \in Seq(Conns) :
    /\ Inserted(x, new, i - 1, conn) /\ Inserted(x, mid, i - 1, left) /\ Inserted(mid, old, i, right)

BypassedNodes(new, nodes, i, conn, m) ==
  /\ new \in Seq(Nodes) /\ Len(new) = m
  /\ \A j \in 1 .. m :
       /\ new[j].stop = nodes[Beyond(i, j)].stop
       /\ new[j].left = (IF j = i THEN conn ELSE nodes[Beyond(i, j)].left)
       /\ new[j].right = (IF j = i - 1 THEN conn ELSE nodes[Beyond(i, j)].right)

LEMMA BypassedIs ==
  ASSUME NEW nodes \in Seq(Nodes), NEW n \in Nat, Len(nodes) = n, NEW i \in 2 .. n - 1,
         NEW conn \in Conns, NEW new, Bypassed(new, nodes, i, conn)
  PROVE  BypassedNodes(new, nodes, i, conn, n - 1)
<1> DEFINE one == [nodes EXCEPT ![i - 1].right = conn]
           two == [one EXCEPT ![i + 1].left = conn]
<1>1. i - 1 \in 1 .. n /\ i + 1 \in 1 .. n /\ i \in 1 .. n
  OBVIOUS
<1>2. two = [nodes EXCEPT ![i - 1].right = conn, ![i + 1].left = conn]
  OBVIOUS
<1>3. new = L!RemoveAt(two, i)
  <2> HIDE DEF two
  <2> QED BY <1>2, Zenon DEF Bypassed
<1>4. RightIs(one, nodes, i - 1, conn)
  BY <1>1, RightIsSet
<1> HIDE DEF one
<1>5. one \in Seq(Nodes) /\ Len(one) = n
  BY <1>4 DEF RightIs
<1>6. LeftIs(two, one, i + 1, conn)
  BY <1>1, <1>5, LeftIsSet
<1> HIDE DEF two
<1>7. two \in Seq(Nodes) /\ Len(two) = n
  BY <1>5, <1>6 DEF LeftIs
<1>8. \A j \in 1 .. n :
       /\ two[j].stop = nodes[j].stop
       /\ two[j].left = (IF j = i + 1 THEN conn ELSE nodes[j].left)
       /\ two[j].right = (IF j = i - 1 THEN conn ELSE nodes[j].right)
  BY <1>4, <1>5, <1>6 DEF LeftIs, RightIs
<1>9. /\ new \in Seq(Nodes) /\ Len(new) = n - 1
      /\ \A j \in 1 .. n - 1 : new[j] = two[Beyond(i, j)]
  <2>1. PICK m \in Nat : m = n - 1 /\ m + 1 = n
    OBVIOUS
  <2>2. i \in 1 .. Len(two) /\ m + 1 = Len(two)
    BY <1>1, <1>7, <2>1
  <2>3. RemovedAt(L!RemoveAt(two, i), two, i, Nodes, m)
    BY <1>7, <2>2, RemovedAtIs
  <2>4. RemovedAt(new, two, i, Nodes, m)
    BY <1>3, <2>3, Zenon
  <2> QED BY <2>1, <2>4 DEF RemovedAt
<1>10. ASSUME NEW j \in 1 .. n - 1
       PROVE  /\ new[j].stop = nodes[Beyond(i, j)].stop
              /\ new[j].left = (IF j = i THEN conn ELSE nodes[Beyond(i, j)].left)
              /\ new[j].right = (IF j = i - 1 THEN conn ELSE nodes[Beyond(i, j)].right)
  <2>1. /\ Beyond(i, j) \in 1 .. n
        /\ Beyond(i, j) = i + 1 <=> j = i
        /\ Beyond(i, j) = i - 1 <=> j = i - 1
    BY DEF Beyond
  <2> QED BY <1>8, <1>9, <2>1
<1> QED BY <1>9, <1>10 DEF BypassedNodes

LEMMA PathBypassed ==
  ASSUME NEW nodes, NEW name, Path(nodes, name), NEW n \in Nat, Len(nodes) = n, NEW i \in 2 .. n - 1,
         NEW conn \in Conns, conn.route = name,
         conn.start = nodes[i - 1].stop, conn.end = nodes[i + 1].stop,
         NEW new, Bypassed(new, nodes, i, conn)
  PROVE  /\ Path(new, name) /\ Joined(new, nodes, i, nodes[i].stop)
         /\ Replaced(Used(new), Used(nodes), i, conn, nodes[i].left, nodes[i].right)
<1>1. PICK m \in Nat : m = n - 1 /\ n = m + 1 /\ i \in 2 .. m /\ m > 1 /\ i \in 1 .. n
  OBVIOUS
<1>2. nodes \in Seq(Nodes)
  BY DEF Path
<1>3. BypassedNodes(new, nodes, i, conn, m)
  BY <1>1, <1>2, BypassedIs
<1>4. /\ new \in Seq(Nodes) /\ Len(new) = m
      /\ \A j \in 1 .. m :
           /\ new[j].stop = nodes[Beyond(i, j)].stop
           /\ new[j].left = (IF j = i THEN conn ELSE nodes[Beyond(i, j)].left)
           /\ new[j].right = (IF j = i - 1 THEN conn ELSE nodes[Beyond(i, j)].right)
  BY <1>3 DEF BypassedNodes
<1>5. /\ Used(nodes) \in Seq(Conns) /\ Len(Used(nodes)) = m
      /\ \A j \in 1 .. n : /\ nodes[j].left = IF j = 1 THEN Null ELSE Used(nodes)[j - 1]
                           /\ nodes[j].right = IF j = n THEN Null ELSE Used(nodes)[j]
      /\ \A j \in 1 .. m :
              /\ Used(nodes)[j] \in Conns /\ Used(nodes)[j].route = name
              /\ Used(nodes)[j].start = nodes[j].stop /\ Used(nodes)[j].end = nodes[j + 1].stop
  <2>1. Used(nodes) \in Seq(Conns) /\ Len(Used(nodes)) = n - 1
    BY <1>1, UsedFacts
  <2>2. /\ \A j \in 1 .. n : /\ nodes[j].left = IF j = 1 THEN Null ELSE Used(nodes)[j - 1]
                             /\ nodes[j].right = IF j = n THEN Null ELSE Used(nodes)[j]
        /\ \A j \in 1 .. n - 1 :
              /\ Used(nodes)[j] \in Conns /\ Used(nodes)[j].route = name
              /\ Used(nodes)[j].start = nodes[j].stop /\ Used(nodes)[j].end = nodes[j + 1].stop
    BY PathHas, SMTT(40), ZenonT(40)
  <2> QED BY <1>1, <2>1, <2>2
<1> DEFINE stop == [j \in 1 .. m |-> nodes[Beyond(i, j)].stop]
           link == [j \in 1 .. m - 1 |-> IF j < i - 1 THEN Used(nodes)[j]
                                         ELSE IF j = i - 1 THEN conn ELSE Used(nodes)[j + 1]]
<1>6. \A j \in 1 .. m - 1 : link[j] = IF j < i - 1 THEN Used(nodes)[j]
                                         ELSE IF j = i - 1 THEN conn ELSE Used(nodes)[j + 1]
  OBVIOUS
<1>7. \A j \in 1 .. m : stop[j] = nodes[Beyond(i, j)].stop
  OBVIOUS
<1> HIDE DEF stop, link
<1>8. ASSUME NEW j \in 1 .. m
      PROVE  /\ new[j].stop = stop[j]
             /\ new[j].left = IF j = 1 THEN Null ELSE link[j - 1]
             /\ new[j].right = IF j = m THEN Null ELSE link[j]
  <2>1. new[j].stop = stop[j]
    BY <1>4, <1>7
  <2>2. new[j].left = IF j = 1 THEN Null ELSE link[j - 1]
    <3>1. CASE j = i
      <4>1. j # 1 /\ j - 1 \in 1 .. m - 1 /\ j - 1 = i - 1
        BY <1>1, <3>1
      <4> QED BY <1>4, <1>6, <3>1, <4>1
    <3>2. CASE j < i
      <4>1. Beyond(i, j) = j /\ j \in 1 .. n /\ j # i
        BY <1>1, <3>2 DEF Beyond
      <4>2. new[j].left = IF j = 1 THEN Null ELSE Used(nodes)[j - 1]
        BY <1>4, <1>5, <4>1
      <4>3. j # 1 => j - 1 \in 1 .. m - 1 /\ j - 1 < i - 1
        BY <1>1, <3>2
      <4> QED BY <1>6, <4>2, <4>3
    <3>3. CASE j > i
      <4>1. Beyond(i, j) = j + 1 /\ j + 1 \in 1 .. n /\ j # i /\ j + 1 # 1 /\ (j + 1) - 1 = j /\ j # 1
        BY <1>1, <3>3 DEF Beyond
      <4>2. new[j].left = Used(nodes)[j]
        <5>1. nodes[j + 1].left = IF j + 1 = 1 THEN Null ELSE Used(nodes)[(j + 1) - 1]
          BY <1>5, <4>1
        <5>2. new[j].left = nodes[Beyond(i, j)].left
          BY <1>4, <4>1
        <5> QED BY <4>1, <5>1, <5>2
      <4>3. j - 1 \in 1 .. m - 1 /\ ~(j - 1 < i - 1) /\ j - 1 # i - 1 /\ (j - 1) + 1 = j
        BY <1>1, <3>3
      <4> QED BY <1>6, <4>1, <4>2, <4>3
    <3> QED BY <1>1, <3>1, <3>2, <3>3
  <2>3. new[j].right = IF j = m THEN Null ELSE link[j]
    <3>1. CASE j = i - 1
      <4>1. j # m /\ j \in 1 .. m - 1 /\ ~(j < i - 1)
        BY <1>1, <3>1
      <4> QED BY <1>4, <1>6, <3>1, <4>1
    <3>2. CASE j < i - 1
      <4>1. Beyond(i, j) = j /\ j \in 1 .. n /\ j # n /\ j # i - 1 /\ j # m /\ j \in 1 .. m - 1
        BY <1>1, <3>2 DEF Beyond
      <4>2. new[j].right = Used(nodes)[j]
        <5>1. nodes[j].right = IF j = n THEN Null ELSE Used(nodes)[j]
          BY <1>5, <4>1
        <5>2. new[j].right = nodes[Beyond(i, j)].right
          BY <1>4, <4>1
        <5> QED BY <4>1, <5>1, <5>2
      <4> QED BY <1>6, <3>2, <4>1, <4>2
    <3>3. CASE j > i - 1
      <4>1. Beyond(i, j) = j + 1 /\ j + 1 \in 1 .. n /\ j # i - 1 /\ (j + 1 = n <=> j = m)
        BY <1>1, <3>3 DEF Beyond
      <4>2. new[j].right = IF j = m THEN Null ELSE Used(nodes)[j + 1]
        <5>1. nodes[j + 1].right = IF j + 1 = n THEN Null ELSE Used(nodes)[j + 1]
          BY <1>5, <4>1
        <5>2. new[j].right = nodes[Beyond(i, j)].right
          BY <1>4, <4>1
        <5> QED BY <4>1, <5>1, <5>2
      <4>3. j # m => j \in 1 .. m - 1
        OBVIOUS
      <4>4. ~(j < i - 1) /\ j # i - 1
        BY <3>3
      <4> QED BY <1>6, <4>2, <4>3, <4>4
    <3> QED BY <1>1, <3>1, <3>2, <3>3
  <2> QED BY <2>1, <2>2, <2>3
<1>9. ASSUME NEW j \in 1 .. m - 1
      PROVE  /\ link[j] \in Conns /\ link[j].route = name
             /\ link[j].start = stop[j] /\ link[j].end = stop[j + 1]
  <2>1. j \in 1 .. m /\ j + 1 \in 1 .. m
    BY <1>1
  <2>2. stop[j] = nodes[Beyond(i, j)].stop /\ stop[j + 1] = nodes[Beyond(i, j + 1)].stop
    BY <1>7, <2>1
  <2>3. CASE j < i - 1
    <3>1. Beyond(i, j) = j /\ Beyond(i, j + 1) = j + 1
      BY <1>1, <2>3 DEF Beyond
    <3> QED BY <1>5, <1>6, <2>1, <2>2, <2>3, <3>1
  <2>4. CASE j = i - 1
    <3>1. Beyond(i, j) = i - 1 /\ Beyond(i, j + 1) = i + 1 /\ ~(j < i - 1)
      BY <1>1, <2>4 DEF Beyond
    <3>2. link[j] = conn
      BY <1>6, <2>4, <3>1
    <3> QED BY <2>2, <3>1, <3>2
  <2>5. CASE j > i - 1
    <3>1. Beyond(i, j) = j + 1 /\ Beyond(i, j + 1) = (j + 1) + 1 /\ ~(j < i - 1) /\ j # i - 1
      BY <1>1, <2>5 DEF Beyond
    <3>2. link[j] = Used(nodes)[j + 1]
      BY <1>6, <3>1
    <3> QED BY <1>5, <2>1, <2>2, <3>1, <3>2
  <2> QED BY <1>1, <2>3, <2>4, <2>5
<1>10. Follows(new, name, stop, link, m)
  BY <1>1, <1>4, <1>8, <1>9 DEF Follows
<1>11. /\ Path(new, name) /\ Used(new) \in Seq(Conns) /\ Len(Used(new)) = m - 1
       /\ \A j \in 1 .. m - 1 : Used(new)[j] = link[j]
  <2>1. Path(new, name) /\ Linked(new, link, m)
    BY <1>10, PathIs
  <2> QED BY <2>1 DEF Linked
<1>12. Joined(new, nodes, i, nodes[i].stop)
  <2>1. i \in 1 .. Len(nodes) /\ Len(nodes) = Len(new) + 1
    BY <1>1, <1>4
  <2>2. \A j \in 1 .. Len(new) : nodes[Beyond(i, j)].stop = new[j].stop
    BY <1>4
  <2> QED BY <1>2, <1>4, <2>1, <2>2, StopsJoined
<1>13. Replaced(Used(new), Used(nodes), i, conn, nodes[i].left, nodes[i].right)
  <2> DEFINE mid == L!RemoveAt(Used(nodes), i)
             x == L!RemoveAt(mid, i - 1)
  <2>1. nodes[i].left = Used(nodes)[i - 1] /\ nodes[i].right = Used(nodes)[i]
    <3>1. i # 1 /\ i # n
      BY <1>1
    <3> QED BY <1>1, <1>5, <3>1
  <2>2. i \in 1 .. Len(Used(nodes))
    BY <1>1, <1>5
  <2>20. PICK q \in Nat : q = m - 1 /\ q + 1 = m
    BY <1>1
  <2>21. RemovedAt(mid, Used(nodes), i, Conns, q)
    BY <1>5, <2>2, <2>20, RemovedAtIs
  <2> HIDE DEF mid
  <2>3. /\ mid \in Seq(Conns) /\ Len(mid) = m - 1
        /\ \A j \in 1 .. m - 1 : mid[j] = Used(nodes)[Beyond(i, j)]
        /\ Inserted(mid, Used(nodes), i, Used(nodes)[i])
    BY <2>20, <2>21 DEF RemovedAt
  <2>4. i - 1 \in 1 .. Len(mid) /\ i - 1 \in 1 .. m - 1
    BY <1>1, <2>3
  <2>5. PICK p \in Nat : p = (m - 1) - 1 /\ p + 1 = m - 1
    BY <1>1
  <2>50. p + 1 = Len(mid)
    BY <2>3, <2>5
  <2>51. RemovedAt(x, mid, i - 1, Conns, p)
    BY <2>3, <2>4, <2>50, RemovedAtIs
  <2> HIDE DEF x
  <2>6. /\ x \in Seq(Conns) /\ Len(x) = p
        /\ \A j \in 1 .. p : x[j] = mid[Beyond(i - 1, j)]
        /\ Inserted(x, mid, i - 1, mid[i - 1])
    BY <2>51 DEF RemovedAt
  <2>7. mid[i - 1] = Used(nodes)[i - 1]
    <3>1. Beyond(i, i - 1) = i - 1
      BY <1>1 DEF Beyond
    <3> QED BY <2>3, <2>4, <3>1
  <2>8. Inserted(x, Used(new), i - 1, conn)
    <3>1. Used(new)[i - 1] = conn
      <4>1. ~(i - 1 < i - 1)
        BY <1>1
      <4> QED BY <1>6, <1>11, <2>4, <4>1
    <3>2. ASSUME NEW j \in 1 .. p
          PROVE  Used(new)[Beyond(i - 1, j)] = x[j]
      <4>1. CASE j < i - 1
        <5>1. Beyond(i - 1, j) = j /\ j \in 1 .. m - 1 /\ Beyond(i, j) = j
          BY <1>1, <2>5, <4>1 DEF Beyond
        <5> QED BY <1>6, <1>11, <2>3, <2>6, <4>1, <5>1, SMTT(40), ZenonT(40)
      <4>2. CASE ~(j < i - 1)
        <5>1. /\ Beyond(i - 1, j) = j + 1 /\ j + 1 \in 1 .. m - 1 /\ Beyond(i, j + 1) = (j + 1) + 1
              /\ ~(j + 1 < i - 1) /\ j + 1 # i - 1
          BY <1>1, <2>5, <4>2 DEF Beyond
        <5>2. Used(new)[j + 1] = Used(nodes)[(j + 1) + 1]
          BY <1>6, <1>11, <5>1
        <5>3. x[j] = Used(nodes)[(j + 1) + 1]
          BY <2>3, <2>6, <5>1
        <5> QED BY <5>1, <5>2, <5>3
      <4> QED BY <4>1, <4>2
    <3>3. i - 1 \in 1 .. Len(Used(new)) /\ Len(Used(new)) = Len(x) + 1
      BY <1>11, <2>4, <2>5, <2>6
    <3> QED BY <2>6, <3>1, <3>2, <3>3 DEF Inserted
  <2> QED BY <2>1, <2>3, <2>6, <2>7, <2>8 DEF Replaced
<1> QED BY <1>11, <1>12, <1>13

------------------------------------------------------------------------------
(* The removal of a stop from a line.                                           *)

LEMMA TimesBound ==
  ASSUME NEW S, NEW s \in Seq(S), NEW c
  PROVE  /\ Times(s, c) \in Nat /\ Len(s) \in Nat /\ Times(s, c) <= Len(s)
         /\ Times(s, c) = 0 <=> \A i \in 1 .. Len(s) : s[i] # c
         /\ Times(s, c) = Len(s) => \A i \in 1 .. Len(s) : s[i] = c
<1>1. PICK n \in Nat : n = Len(s) /\ DOMAIN s = 1 .. n
  BY LenProperties
<1> DEFINE A == {i \in 1 .. n : s[i] = c}
<1>2. Times(s, c) = Cardinality(A)
  BY <1>1 DEF Times
<1>3. IsFiniteSet(1 .. n) /\ Cardinality(1 .. n) = n
  <2>1. 1 \in Int /\ n \in Int /\ n - 1 + 1 = n /\ (1 > n => n = 0)
    BY <1>1
  <2> QED BY <2>1, FS_Interval
<1>4. A \subseteq 1 .. n
  OBVIOUS
<1>5. IsFiniteSet(A) /\ Cardinality(A) <= n /\ (Cardinality(A) = n => A = 1 .. n)
  <2> HIDE DEF A
  <2> QED BY <1>3, <1>4, FS_Subset
<1>6. Cardinality(A) \in Nat /\ (Cardinality(A) = 0 <=> A = {})
  <2> HIDE DEF A
  <2> QED BY <1>5, FS_CardinalityType, FS_EmptySet
<1> QED BY <1>1, <1>2, <1>5, <1>6

StopRecs == [name : Stops, numRoutes : Nat]
RouteRecs == [name : Lines, cost : Nat, numStops : Nat, nodes : Seq(Nodes)]

\* A line whose data agree.
Sound(r) ==
  /\ r.numStops = Len(r.nodes) /\ Path(r.nodes, r.name)
  /\ r.cost = Total(Used(r.nodes))

States == [route : RouteRecs, conns : Bags, lost : Seq(Stops)]

\* Its connections are all there, and those of other lines (base) are as they were.
Owned(r, bag) == \A c : Copies(c, bag) >= Times(Used(r.nodes), c)
OthersKept(name, bag, base) == \A c \in Conns : c.route # name => Copies(c, bag) = Copies(c, base)

\* What holds between the rounds of updateRouteStops.
Rounds(name, stop, base, lost) ==
  {st \in States :
     /\ st.route.name = name /\ Sound(st.route)
     /\ Owned(st.route, st.conns) /\ OthersKept(name, st.conns, base)
     /\ st.lost = lost
     /\ Len(st.route.nodes) = 1 => Times(StopsOf(st.route.nodes), stop) = 0}

\* A state given by its parts.
StateIs(st, name, cost, num, nodes, conns, lost) ==
  st = [route |-> [name |-> name, cost |-> cost, numStops |-> num, nodes |-> nodes],
        conns |-> conns, lost |-> lost]

Parts(st) == StateIs(st, st.route.name, st.route.cost, st.route.numStops, st.route.nodes, st.conns, st.lost)

LEMMA StateParts ==
  ASSUME NEW st \in States
  PROVE  /\ Parts(st) /\ st.route.name \in Lines /\ st.route.cost \in Nat /\ st.route.numStops \in Nat
         /\ st.route.nodes \in Seq(Nodes) /\ st.conns \in Bags /\ st.lost \in Seq(Stops)
<1>1. st = [route |-> st.route, conns |-> st.conns, lost |-> st.lost] /\ st.route \in RouteRecs
      /\ st.conns \in Bags /\ st.lost \in Seq(Stops)
  BY DEF States
<1>2. \A r \in RouteRecs : /\ r = [name |-> r.name, cost |-> r.cost, numStops |-> r.numStops, nodes |-> r.nodes]
                           /\ r.name \in Lines /\ r.cost \in Nat /\ r.numStops \in Nat /\ r.nodes \in Seq(Nodes)
  BY DEF RouteRecs
<1> QED BY <1>1, <1>2 DEF Parts, StateIs

StateHas(st, name, cost, num, nodes, conns, lost) ==
  /\ st \in States
  /\ st.route.name = name /\ st.route.cost = cost /\ st.route.numStops = num
  /\ st.route.nodes = nodes /\ st.conns = conns /\ st.lost = lost

LEMMA PartsState ==
  ASSUME NEW st, NEW name \in Lines, NEW cost \in Nat, NEW num \in Nat, NEW nodes \in Seq(Nodes),
         NEW conns \in Bags, NEW lost \in Seq(Stops), StateIs(st, name, cost, num, nodes, conns, lost)
  PROVE  StateHas(st, name, cost, num, nodes, conns, lost)
BY DEF StateIs, States, RouteRecs, StateHas

\* The changes of a line.
ChangesTo(r, nodes, less, new) == [r EXCEPT !.nodes = nodes, !.cost = @ - less, !.numStops = @ - 1] = new

LEMMA RouteChanged ==
  ASSUME NEW a, NEW b, NEW c, NEW d, NEW nodes, NEW less
  PROVE  ChangesTo([name |-> a, cost |-> b, numStops |-> c, nodes |-> d], nodes, less,
                   [name |-> a, cost |-> b - less, numStops |-> c - 1, nodes |-> nodes])
<1> DEFINE r0 == [name |-> a, cost |-> b, numStops |-> c, nodes |-> d]
           r1 == [r0 EXCEPT !.nodes = nodes]
           r2 == [r1 EXCEPT !.cost = @ - less]
           r3 == [r2 EXCEPT !.numStops = @ - 1]
<1>1. r1 = [name |-> a, cost |-> b, numStops |-> c, nodes |-> nodes]
  OBVIOUS
<1>2. r2 = [name |-> a, cost |-> b - less, numStops |-> c, nodes |-> nodes]
  <2> HIDE DEF r1
  <2> QED BY <1>1
<1>3. r3 = [name |-> a, cost |-> b - less, numStops |-> c - 1, nodes |-> nodes]
  <2> HIDE DEF r2
  <2> QED BY <1>2
<1>4. r3 = [r0 EXCEPT !.nodes = nodes, !.cost = @ - less, !.numStops = @ - 1]
  OBVIOUS
<1> QED BY <1>3, <1>4, Zenon DEF ChangesTo

ShortensTo(r, nodes, new) == [r EXCEPT !.nodes = nodes, !.numStops = @ - 1] = new

LEMMA RouteShortened ==
  ASSUME NEW a, NEW b, NEW c, NEW d, NEW nodes
  PROVE  ShortensTo([name |-> a, cost |-> b, numStops |-> c, nodes |-> d], nodes,
                    [name |-> a, cost |-> b, numStops |-> c - 1, nodes |-> nodes])
<1> DEFINE r0 == [name |-> a, cost |-> b, numStops |-> c, nodes |-> d]
           r1 == [r0 EXCEPT !.nodes = nodes]
           r2 == [r1 EXCEPT !.numStops = @ - 1]
<1>1. r1 = [name |-> a, cost |-> b, numStops |-> c, nodes |-> nodes]
  OBVIOUS
<1>2. r2 = [name |-> a, cost |-> b, numStops |-> c - 1, nodes |-> nodes]
  <2> HIDE DEF r1
  <2> QED BY <1>1
<1>3. r2 = [r0 EXCEPT !.nodes = nodes, !.numStops = @ - 1]
  OBVIOUS
<1> QED BY <1>2, <1>3, Zenon DEF ShortensTo

EmptiesTo(r, new) == [r EXCEPT !.nodes = << >>, !.numStops = 0, !.cost = 0] = new
ResetsTo(r, new) == [r EXCEPT !.nodes = << >>, !.numStops = 0] = new

LEMMA RouteEmptied ==
  ASSUME NEW a, NEW b, NEW c, NEW d
  PROVE  /\ EmptiesTo([name |-> a, cost |-> b, numStops |-> c, nodes |-> d],
                      [name |-> a, cost |-> 0, numStops |-> 0, nodes |-> << >>])
         /\ ResetsTo([name |-> a, cost |-> b, numStops |-> c, nodes |-> d],
                     [name |-> a, cost |-> b, numStops |-> 0, nodes |-> << >>])
<1> DEFINE r0 == [name |-> a, cost |-> b, numStops |-> c, nodes |-> d]
           r1 == [r0 EXCEPT !.nodes = << >>]
           r2 == [r1 EXCEPT !.numStops = 0]
           r3 == [r2 EXCEPT !.cost = 0]
<1>1. r1 = [name |-> a, cost |-> b, numStops |-> c, nodes |-> << >>]
  OBVIOUS
<1>2. r2 = [name |-> a, cost |-> b, numStops |-> 0, nodes |-> << >>]
  <2> HIDE DEF r1
  <2> QED BY <1>1
<1>3. r3 = [name |-> a, cost |-> 0, numStops |-> 0, nodes |-> << >>]
  <2> HIDE DEF r2
  <2> QED BY <1>2
<1>4. r3 = [r0 EXCEPT !.nodes = << >>, !.numStops = 0, !.cost = 0]
  OBVIOUS
<1>5. r2 = [r0 EXCEPT !.nodes = << >>, !.numStops = 0]
  OBVIOUS
<1> QED BY <1>2, <1>3, <1>4, <1>5, Zenon DEF EmptiesTo, ResetsTo

LEMMA StateChanged ==
  ASSUME NEW r, NEW b, NEW l, NEW route, NEW conns
  PROVE  [[route |-> r, conns |-> b, lost |-> l] EXCEPT !.route = route, !.conns = conns]
           = [route |-> route, conns |-> conns, lost |-> l]
<1> DEFINE s0 == [route |-> r, conns |-> b, lost |-> l]
           s1 == [s0 EXCEPT !.route = route]
           s2 == [s1 EXCEPT !.conns = conns]
<1>1. s1 = [route |-> route, conns |-> b, lost |-> l]
  OBVIOUS
<1>2. s2 = [route |-> route, conns |-> conns, lost |-> l]
  <2> HIDE DEF s1
  <2> QED BY <1>1
<1>3. s2 = [s0 EXCEPT !.route = route, !.conns = conns]
  OBVIOUS
<1> QED BY <1>2, <1>3, Zenon

\* deleteStopOfRoute and the conditions of checkStopConditions, part by part.
HeadNodes(st) == [Tail(st.route.nodes) EXCEPT ![1].left = Null, ![1].back = "freed"]
TailNodes(st) == [L!Front(st.route.nodes) EXCEPT ![Len(L!Front(st.route.nodes))].right = Null]

LEMMA HeadIs ==
  ASSUME NEW st \in States
  PROVE  StateIs(L!DeleteHead(st), st.route.name, st.route.cost - st.route.nodes[1].right.cost, st.route.numStops - 1,
                 HeadNodes(st), L!Without(st.conns, st.route.nodes[1].right), st.lost)
<1>1. PICK a, b, c, d, e, f : StateIs(st, a, b, c, d, e, f)
  BY StateParts DEF Parts
<1> DEFINE r0 == [name |-> a, cost |-> b, numStops |-> c, nodes |-> d]
           conn == st.route.nodes[1].right
           new == [name |-> a, cost |-> b - conn.cost, numStops |-> c - 1, nodes |-> HeadNodes(st)]
           bag == L!Without(e, conn)
<1>2. st = [route |-> r0, conns |-> e, lost |-> f]
  BY <1>1 DEF StateIs
<1>3. st.route = r0 /\ st.conns = e /\ st.lost = f /\ st.route.name = a /\ st.route.cost = b
      /\ st.route.numStops = c /\ st.route.nodes = d
  BY <1>2
<1>4. [r0 EXCEPT !.nodes = HeadNodes(st), !.cost = @ - conn.cost, !.numStops = @ - 1] = new
  <2> HIDE DEF conn
  <2>1. ChangesTo(r0, HeadNodes(st), conn.cost, new)
    BY RouteChanged
  <2> QED BY <2>1, Zenon DEF ChangesTo
<1>5. L!DeleteHead(st) = [st EXCEPT !.route = [st.route EXCEPT !.nodes = HeadNodes(st), !.cost = @ - conn.cost,
                                                          !.numStops = @ - 1],
                                !.conns = L!Without(st.conns, conn)]
  BY Zenon DEF L!DeleteHead, HeadNodes
<1>6. L!DeleteHead(st) = [st EXCEPT !.route = new, !.conns = bag]
  <2> HIDE DEF conn, r0, new
  <2> QED BY <1>3, <1>4, <1>5, Zenon
<1> HIDE DEF conn, r0, new, bag
<1>7. L!DeleteHead(st) = [route |-> new, conns |-> bag, lost |-> f]
  BY <1>2, <1>6, StateChanged, Zenon
<1>8. StateIs(L!DeleteHead(st), a, b - conn.cost, c - 1, HeadNodes(st), bag, f)
  BY <1>7, Zenon DEF StateIs, new
<1> QED BY <1>3, <1>8, Zenon DEF bag, conn

LEMMA TailIs ==
  ASSUME NEW st \in States
  PROVE  StateIs(L!DeleteTail(st), st.route.name, st.route.cost - L!Last(st.route.nodes).left.cost, st.route.numStops - 1,
                 TailNodes(st), L!Without(st.conns, L!Last(st.route.nodes).left), st.lost)
<1>1. PICK a, b, c, d, e, f : StateIs(st, a, b, c, d, e, f)
  BY StateParts DEF Parts
<1> DEFINE r0 == [name |-> a, cost |-> b, numStops |-> c, nodes |-> d]
           conn == L!Last(st.route.nodes).left
           new == [name |-> a, cost |-> b - conn.cost, numStops |-> c - 1, nodes |-> TailNodes(st)]
           bag == L!Without(e, conn)
<1>2. st = [route |-> r0, conns |-> e, lost |-> f]
  BY <1>1 DEF StateIs
<1>3. st.route = r0 /\ st.conns = e /\ st.lost = f /\ st.route.name = a /\ st.route.cost = b
      /\ st.route.numStops = c /\ st.route.nodes = d
  BY <1>2
<1>4. [r0 EXCEPT !.nodes = TailNodes(st), !.cost = @ - conn.cost, !.numStops = @ - 1] = new
  <2> HIDE DEF conn
  <2>1. ChangesTo(r0, TailNodes(st), conn.cost, new)
    BY RouteChanged
  <2> QED BY <2>1, Zenon DEF ChangesTo
<1>5. L!DeleteTail(st) = [st EXCEPT !.route = [st.route EXCEPT !.nodes = TailNodes(st), !.cost = @ - conn.cost,
                                                          !.numStops = @ - 1],
                                !.conns = L!Without(st.conns, conn)]
  BY Zenon DEF L!DeleteTail, TailNodes
<1>6. L!DeleteTail(st) = [st EXCEPT !.route = new, !.conns = bag]
  <2> HIDE DEF conn, r0, new
  <2> QED BY <1>3, <1>4, <1>5, Zenon
<1> HIDE DEF conn, r0, new, bag
<1>7. L!DeleteTail(st) = [route |-> new, conns |-> bag, lost |-> f]
  BY <1>2, <1>6, StateChanged, Zenon
<1>8. StateIs(L!DeleteTail(st), a, b - conn.cost, c - 1, TailNodes(st), bag, f)
  BY <1>7, Zenon DEF StateIs, new
<1> QED BY <1>3, <1>8, Zenon DEF bag, conn

MiddleConn(st, i) ==
  L!NewConn(st.route.name, st.route.nodes[i].left.start, st.route.nodes[i].right.end,
            st.route.nodes[i].left.cost + st.route.nodes[i].right.cost)
MiddleNodes(st, i) ==
  L!RemoveAt([st.route.nodes EXCEPT ![i - 1].right = MiddleConn(st, i), ![i + 1].left = MiddleConn(st, i)], i)
MiddleConns(st, i) ==
  L!Without(L!Without(L!(+)(st.conns, L!SetToBag({MiddleConn(st, i)})), st.route.nodes[i].left),
            st.route.nodes[i].right)

LEMMA MiddleIs ==
  ASSUME NEW st \in States, NEW i
  PROVE  StateIs(L!DeleteMiddle(st, i), st.route.name, st.route.cost, st.route.numStops - 1,
                 MiddleNodes(st, i), MiddleConns(st, i), st.lost)
<1>1. PICK a, b, c, d, e, f : StateIs(st, a, b, c, d, e, f)
  BY StateParts DEF Parts
<1> DEFINE r0 == [name |-> a, cost |-> b, numStops |-> c, nodes |-> d]
           nodes == MiddleNodes(st, i)
           bag == MiddleConns(st, i)
           new == [name |-> a, cost |-> b, numStops |-> c - 1, nodes |-> nodes]
<1>2. st = [route |-> r0, conns |-> e, lost |-> f]
  BY <1>1 DEF StateIs
<1>3. st.route = r0 /\ st.conns = e /\ st.lost = f /\ st.route.name = a /\ st.route.cost = b
      /\ st.route.numStops = c /\ st.route.nodes = d
  BY <1>2
<1>4. [r0 EXCEPT !.nodes = nodes, !.numStops = @ - 1] = new
  <2> HIDE DEF nodes
  <2>1. ShortensTo(r0, nodes, new)
    BY RouteShortened
  <2> QED BY <2>1, Zenon DEF ShortensTo
<1>5. L!DeleteMiddle(st, i) = [st EXCEPT !.route = [st.route EXCEPT !.nodes = nodes, !.numStops = @ - 1],
                                         !.conns = bag]
  BY Zenon DEF L!DeleteMiddle, MiddleNodes, MiddleConns, MiddleConn
<1> HIDE DEF nodes, r0, new, bag
<1>6. L!DeleteMiddle(st, i) = [st EXCEPT !.route = new, !.conns = bag]
  BY <1>3, <1>4, <1>5, Zenon
<1>7. L!DeleteMiddle(st, i) = [route |-> new, conns |-> bag, lost |-> f]
  BY <1>2, <1>6, StateChanged, Zenon
<1>8. StateIs(L!DeleteMiddle(st, i), a, b, c - 1, nodes, bag, f)
  BY <1>7, Zenon DEF StateIs, new
<1> QED BY <1>3, <1>8, Zenon DEF bag, nodes

LEMMA EmptyIs ==
  ASSUME NEW st \in States
  PROVE  StateIs(L!Empty(st), st.route.name, 0, 0, << >>, st.conns, st.lost)
<1>1. PICK a, b, c, d, e, f : StateIs(st, a, b, c, d, e, f)
  BY StateParts DEF Parts
<1> DEFINE r0 == [name |-> a, cost |-> b, numStops |-> c, nodes |-> d]
           new == [name |-> a, cost |-> 0, numStops |-> 0, nodes |-> << >>]
<1>2. st = [route |-> r0, conns |-> e, lost |-> f]
  BY <1>1 DEF StateIs
<1>3. st.route = r0 /\ st.conns = e /\ st.lost = f /\ st.route.name = a
  BY <1>2
<1>4. [r0 EXCEPT !.nodes = << >>, !.numStops = 0, !.cost = 0] = new
  <2>1. EmptiesTo(r0, new)
    BY RouteEmptied
  <2> QED BY <2>1, Zenon DEF EmptiesTo
<1>5. L!Empty(st) = [st EXCEPT !.route = [st.route EXCEPT !.nodes = << >>, !.numStops = 0, !.cost = 0]]
  BY Zenon DEF L!Empty
<1> HIDE DEF r0, new
<1>6. L!Empty(st) = [st EXCEPT !.route = new]
  BY <1>3, <1>4, <1>5, Zenon
<1>7. L!Empty(st) = [route |-> new, conns |-> e, lost |-> f]
  BY <1>2, <1>6
<1>8. StateIs(L!Empty(st), a, 0, 0, << >>, e, f)
  BY <1>7, Zenon DEF StateIs, new
<1> QED BY <1>3, <1>8, Zenon

LEMMA ResetIs ==
  ASSUME NEW st \in States
  PROVE  IF st.route.numStops # 1 THEN L!ResetOne(st) = st
         ELSE StateIs(L!ResetOne(st), st.route.name, st.route.cost, 0, << >>, st.conns,
                      Append(st.lost, st.route.nodes[1].stop))
<1>1. PICK a, b, c, d, e, f : StateIs(st, a, b, c, d, e, f)
  BY StateParts DEF Parts
<1> DEFINE r0 == [name |-> a, cost |-> b, numStops |-> c, nodes |-> d]
           new == [name |-> a, cost |-> b, numStops |-> 0, nodes |-> << >>]
           lost == Append(st.lost, st.route.nodes[1].stop)
<1>2. st = [route |-> r0, conns |-> e, lost |-> f]
  BY <1>1 DEF StateIs
<1>3. st.route = r0 /\ st.conns = e /\ st.lost = f /\ st.route.name = a /\ st.route.cost = b
  BY <1>2
<1>4. [r0 EXCEPT !.nodes = << >>, !.numStops = 0] = new
  <2>1. ResetsTo(r0, new)
    BY RouteEmptied
  <2> QED BY <2>1, Zenon DEF ResetsTo
<1>5. CASE st.route.numStops # 1
  BY <1>5, Zenon DEF L!ResetOne
<1>6. CASE st.route.numStops = 1
  <2>1. L!ResetOne(st) = [st EXCEPT !.route = [st.route EXCEPT !.nodes = << >>, !.numStops = 0], !.lost = lost]
    BY <1>6, Zenon DEF L!ResetOne
  <2> HIDE DEF r0, new, lost
  <2>2. L!ResetOne(st) = [st EXCEPT !.route = new, !.lost = lost]
    BY <1>3, <1>4, <2>1, Zenon
  <2> DEFINE s1 == [st EXCEPT !.route = new]
             s2 == [s1 EXCEPT !.lost = lost]
  <2>3. s1 = [route |-> new, conns |-> e, lost |-> f]
    BY <1>2
  <2>4. s2 = [route |-> new, conns |-> e, lost |-> lost]
    <3> HIDE DEF s1
    <3> QED BY <2>3
  <2>5. s2 = [st EXCEPT !.route = new, !.lost = lost]
    OBVIOUS
  <2> HIDE DEF s2
  <2>6. StateIs(L!ResetOne(st), a, b, 0, << >>, e, lost)
    BY <2>2, <2>4, <2>5, Zenon DEF StateIs, new
  <2> QED BY <1>3, <1>6, <2>6, Zenon DEF lost
<1> QED BY <1>5, <1>6, Zenon

\* One round takes one node of the stop away, or all that are left.
Stepped(new, old, stop) ==
  /\ \A q : q # stop => Times(StopsOf(new), q) = Times(StopsOf(old), q)
  /\ Times(StopsOf(new), stop) = 0 \/ Times(StopsOf(new), stop) + 1 = Times(StopsOf(old), stop)

LEMMA NodeTaken ==
  ASSUME NEW new \in Seq(Nodes), NEW old \in Seq(Nodes), NEW i, NEW stop, Joined(new, old, i, stop),
         ~(Len(old) = 2 /\ Times(StopsOf(old), stop) = 2)
  PROVE  Stepped(new, old, stop) /\ (Len(new) = 1 => Times(StopsOf(new), stop) = 0)
<1>1. Inserted(StopsOf(new), StopsOf(old), i, stop) /\ Len(old) = Len(new) + 1
  BY DEF Joined
<1>2. StopsOf(new) \in Seq(Stops) /\ StopsOf(old) \in Seq(Stops) /\ Len(StopsOf(old)) = Len(old)
      /\ Len(new) \in Nat
  BY StopsFacts, NodesFacts
<1>3. \A q : Times(StopsOf(old), q) = Times(StopsOf(new), q) + IF q = stop THEN 1 ELSE 0
  BY <1>1, <1>2, InsertedTimes
<1>4. \A q : Times(StopsOf(new), q) \in Nat /\ Times(StopsOf(old), q) <= Len(old)
  BY <1>2, TimesBound
<1>5. Stepped(new, old, stop)
  BY <1>3, <1>4 DEF Stepped
<1>6. ASSUME Len(new) = 1
      PROVE  Times(StopsOf(new), stop) = 0
  <2>1. Len(old) = 2
    BY <1>1, <1>6
  <2>2. Times(StopsOf(old), stop) = Times(StopsOf(new), stop) + 1
    BY <1>3
  <2>3. Times(StopsOf(new), stop) \in Nat /\ Times(StopsOf(old), stop) <= 2
    BY <1>4, <2>1
  <2> QED BY <2>1, <2>2, <2>3
<1> QED BY <1>5, <1>6

\* The node of an end goes with its connection.
EndGoes(d, st, nodes, conn) ==
  StateIs(d, st.route.name, st.route.cost - conn.cost, st.route.numStops - 1, nodes,
          L!Without(st.conns, conn), st.lost)

LEMMA InRound ==
  ASSUME NEW name, NEW stop, NEW base, NEW lost, NEW st \in Rounds(name, stop, base, lost)
  PROVE  /\ st \in States /\ st.route.name = name /\ name \in Lines /\ st.lost = lost
         /\ Path(st.route.nodes, name) /\ st.route.numStops = Len(st.route.nodes)
         /\ st.route.cost = Total(Used(st.route.nodes)) /\ st.route.nodes \in Seq(Nodes)
         /\ Len(st.route.nodes) \in Nat /\ st.conns \in Bags /\ lost \in Seq(Stops)
         /\ Owned(st.route, st.conns) /\ OthersKept(name, st.conns, base)
         /\ Len(st.route.nodes) = 1 => Times(StopsOf(st.route.nodes), stop) = 0
<1>1. st \in States /\ st.route.name = name /\ st.lost = lost /\ Sound(st.route)
      /\ Owned(st.route, st.conns) /\ OthersKept(name, st.conns, base)
      /\ (Len(st.route.nodes) = 1 => Times(StopsOf(st.route.nodes), stop) = 0)
  BY DEF Rounds
<1>2. st.route.name \in Lines /\ st.route.nodes \in Seq(Nodes) /\ st.conns \in Bags /\ st.lost \in Seq(Stops)
  BY <1>1, StateParts
<1>3. Len(st.route.nodes) \in Nat
  BY <1>2, LenProperties
<1> QED BY <1>1, <1>2, <1>3 DEF Sound

LEMMA EndTaken ==
  ASSUME NEW name, NEW stop, NEW base, NEW lost, NEW st \in Rounds(name, stop, base, lost),
         NEW nodes, NEW conn \in Conns, NEW d, EndGoes(d, st, nodes, conn),
         NEW i, NEW j, Path(nodes, name), Joined(nodes, st.route.nodes, i, stop), conn.route = name,
         Inserted(Used(nodes), Used(st.route.nodes), j, conn),
         ~(Len(st.route.nodes) = 2 /\ Times(StopsOf(st.route.nodes), stop) = 2)
  PROVE  d \in Rounds(name, stop, base, lost) /\ Stepped(d.route.nodes, st.route.nodes, stop)
<1> DEFINE old == st.route.nodes
<1>1. /\ st \in States /\ st.route.name = name /\ name \in Lines /\ st.lost = lost
         /\ Path(st.route.nodes, name) /\ st.route.numStops = Len(st.route.nodes)
         /\ st.route.cost = Total(Used(st.route.nodes)) /\ st.route.nodes \in Seq(Nodes)
         /\ Len(st.route.nodes) \in Nat /\ st.conns \in Bags /\ lost \in Seq(Stops)
  BY InRound
<1>2. /\ \A c : Copies(c, st.conns) >= Times(Used(old), c)
      /\ \A c \in Conns : c.route # name => Copies(c, st.conns) = Copies(c, base)
  <2>1. Owned(st.route, st.conns) /\ OthersKept(name, st.conns, base)
    BY InRound
  <2> QED BY <2>1 DEF Owned, OthersKept
<1>3. nodes \in Seq(Nodes) /\ Used(nodes) \in Seq(Conns) /\ Used(old) \in Seq(Conns)
      /\ Len(nodes) \in Nat /\ Len(old) = Len(nodes) + 1
  BY <1>1, PathHas DEF Joined
<1>4. \A c : Times(Used(old), c) = Times(Used(nodes), c) + IF c = conn THEN 1 ELSE 0
  BY <1>3, InsertedTimes
<1>5. \A c : Times(Used(nodes), c) \in Nat /\ Copies(c, st.conns) \in Nat
  BY <1>1, <1>3, TimesBound, BagFacts
<1>6. Copies(conn, st.conns) > 0
  <2>1. Times(Used(old), conn) = Times(Used(nodes), conn) + 1 /\ Times(Used(nodes), conn) \in Nat
        /\ Copies(conn, st.conns) \in Nat /\ Copies(conn, st.conns) >= Times(Used(old), conn)
    BY <1>2, <1>4, <1>5
  <2> QED BY <2>1
<1>7. /\ L!Without(st.conns, conn) \in Bags
      /\ \A c : Copies(c, L!Without(st.conns, conn)) = Copies(c, st.conns) - IF c = conn THEN 1 ELSE 0
  BY <1>1, <1>6, Taken
<1>8. PICK k \in Nat : k = conn.cost
  BY DEF Conns
<1>9. Total(Used(old)) = Total(Used(nodes)) + k /\ Total(Used(nodes)) \in Nat
  BY <1>3, <1>8, TotalInserted, TotalIsNat
<1>10. st.route.cost - conn.cost = Total(Used(nodes)) /\ st.route.numStops - 1 = Len(nodes)
  BY <1>1, <1>3, <1>8, <1>9
<1>11. StateIs(d, name, Total(Used(nodes)), Len(nodes), nodes, L!Without(st.conns, conn), lost)
  BY <1>1, <1>10, Zenon DEF EndGoes
<1>12. d \in States /\ d.route.name = name /\ d.route.cost = Total(Used(nodes)) /\ d.route.numStops = Len(nodes)
       /\ d.route.nodes = nodes /\ d.conns = L!Without(st.conns, conn) /\ d.lost = lost
  <2>1. Total(Used(nodes)) \in Nat /\ Len(nodes) \in Nat /\ nodes \in Seq(Nodes) /\ name \in Lines
        /\ L!Without(st.conns, conn) \in Bags /\ lost \in Seq(Stops)
    BY <1>1, <1>3, <1>7, <1>9
  <2> DEFINE bag == L!Without(st.conns, conn)
             total == Total(Used(nodes))
             len == Len(nodes)
  <2> HIDE DEF bag, total, len
  <2>2. StateIs(d, name, total, len, nodes, bag, lost)
    BY <1>11, Zenon DEF bag, total, len
  <2>3. total \in Nat /\ len \in Nat /\ bag \in Bags
    BY <2>1 DEF bag, total, len
  <2>4. StateHas(d, name, total, len, nodes, bag, lost)
    BY <2>1, <2>2, <2>3, PartsState
  <2> QED BY <2>4, Zenon DEF StateHas, bag, total, len
<1>13. Stepped(nodes, old, stop) /\ (Len(nodes) = 1 => Times(StopsOf(nodes), stop) = 0)
  BY <1>1, <1>3, NodeTaken
<1>14. \A c : Copies(c, L!Without(st.conns, conn)) >= Times(Used(nodes), c)
  <2> TAKE c
  <2>1. /\ Copies(c, st.conns) >= Times(Used(old), c) /\ Times(Used(nodes), c) \in Nat /\ Copies(c, st.conns) \in Nat
        /\ Times(Used(old), c) = Times(Used(nodes), c) + (IF c = conn THEN 1 ELSE 0)
        /\ Copies(c, L!Without(st.conns, conn)) = Copies(c, st.conns) - (IF c = conn THEN 1 ELSE 0)
    BY <1>2, <1>4, <1>5, <1>7
  <2> QED BY <2>1
<1>15. \A c \in Conns : c.route # name => Copies(c, L!Without(st.conns, conn)) = Copies(c, base)
  <2> SUFFICES ASSUME NEW c \in Conns, c.route # name
               PROVE  Copies(c, L!Without(st.conns, conn)) = Copies(c, base)
    OBVIOUS
  <2>1. c # conn
    OBVIOUS
  <2>2. Copies(c, L!Without(st.conns, conn)) = Copies(c, st.conns) - 0 /\ Copies(c, st.conns) \in Nat
    BY <1>5, <1>7, <2>1
  <2> QED BY <1>2, <2>2
<1>16. Sound(d.route) /\ Owned(d.route, d.conns) /\ OthersKept(name, d.conns, base)
  BY <1>12, <1>14, <1>15 DEF Sound, Owned, OthersKept
<1> QED BY <1>12, <1>13, <1>16 DEF Rounds

LEMMA MiddleTaken ==
  ASSUME NEW name, NEW stop, NEW base, NEW lost, NEW st \in Rounds(name, stop, base, lost),
         NEW n \in Nat, n = Len(st.route.nodes), NEW i \in 2 .. n - 1, st.route.nodes[i].stop = stop
  PROVE  /\ L!DeleteMiddle(st, i) \in Rounds(name, stop, base, lost)
         /\ Stepped(L!DeleteMiddle(st, i).route.nodes, st.route.nodes, stop)
<1> DEFINE old == st.route.nodes
           left == old[i].left
           right == old[i].right
           conn == MiddleConn(st, i)
           nodes == MiddleNodes(st, i)
           bag == MiddleConns(st, i)
           d == L!DeleteMiddle(st, i)
<1>1. /\ st \in States /\ st.route.name = name /\ name \in Lines /\ st.lost = lost
      /\ Path(old, name) /\ st.route.numStops = n
      /\ st.route.cost = Total(Used(old)) /\ old \in Seq(Nodes)
      /\ st.conns \in Bags /\ lost \in Seq(Stops)
  BY InRound
<1>2. /\ \A c : Copies(c, st.conns) >= Times(Used(old), c)
      /\ \A c \in Conns : c.route # name => Copies(c, st.conns) = Copies(c, base)
  <2>1. Owned(st.route, st.conns) /\ OthersKept(name, st.conns, base)
    BY InRound
  <2> QED BY <2>1 DEF Owned, OthersKept
<1>3. /\ i - 1 \in 1 .. n - 1 /\ i \in 1 .. n - 1 /\ (i - 1) + 1 = i /\ i \in 1 .. n /\ i # 1 /\ i # n
      /\ i + 1 \in 1 .. n
  OBVIOUS
<1>4. /\ left \in Conns /\ left.route = name /\ left.start = old[i - 1].stop
      /\ right \in Conns /\ right.route = name /\ right.end = old[i + 1].stop
  <2>1. Between(old, i - 1, name) /\ Between(old, i, name)
    BY <1>1, <1>3 DEF Path
  <2> QED BY <1>3, <2>1 DEF Between
<1>5. PICK x \in Nat, y \in Nat : x = left.cost /\ y = right.cost
  BY <1>4 DEF Conns
<1>6. /\ conn = [route |-> name, start |-> left.start, end |-> right.end, cost |-> x + y]
  BY <1>1, <1>5, Zenon DEF MiddleConn, L!NewConn
<1>7. conn \in Conns /\ conn.route = name /\ conn.start = old[i - 1].stop /\ conn.end = old[i + 1].stop
      /\ conn.cost = x + y
  <2>1. left.start \in Stops /\ right.end \in Stops /\ x + y \in Nat
    <3>1. \A c \in Conns : c.start \in Stops /\ c.end \in Stops
      BY DEF Conns
    <3> HIDE DEF left, right
    <3>2. left \in Conns /\ right \in Conns
      BY <1>4
    <3> QED BY <3>1, <3>2
  <2> HIDE DEF conn, left, right
  <2>2. conn \in Conns
    BY <1>1, <1>6, <2>1 DEF Conns
  <2> QED BY <1>4, <1>6, <2>2
<1>8. Bypassed(nodes, old, i, conn)
  BY Zenon DEF Bypassed, MiddleNodes
<1> HIDE DEF conn, nodes, left, right
<1>9. /\ Path(nodes, name) /\ Joined(nodes, old, i, old[i].stop)
      /\ Replaced(Used(nodes), Used(old), i, conn, old[i].left, old[i].right)
  BY <1>1, <1>7, <1>8, PathBypassed
<1>10. nodes \in Seq(Nodes) /\ Used(nodes) \in Seq(Conns) /\ Used(old) \in Seq(Conns)
      /\ Len(nodes) \in Nat /\ n = Len(nodes) + 1
  BY <1>1, <1>9, PathHas DEF Joined
<1>11. PICK u \in Seq(Conns), v \in Seq(Conns) :
         /\ Inserted(u, Used(nodes), i - 1, conn) /\ Inserted(u, v, i - 1, left) /\ Inserted(v, Used(old), i, right)
  BY <1>9 DEF Replaced, left, right
<1>12. /\ \A c : Times(Used(nodes), c) = Times(u, c) + (IF c = conn THEN 1 ELSE 0)
       /\ \A c : Times(v, c) = Times(u, c) + (IF c = left THEN 1 ELSE 0)
       /\ \A c : Times(Used(old), c) = Times(v, c) + (IF c = right THEN 1 ELSE 0)
  BY <1>10, <1>11, InsertedTimes
<1>13. /\ \A c : Times(u, c) \in Nat /\ Times(Used(nodes), c) \in Nat
       /\ \A c : Copies(c, st.conns) \in Nat
  BY <1>1, <1>10, TimesBound, BagFacts
<1> DEFINE b1 == L!(+)(st.conns, L!SetToBag({conn}))
           b2 == L!Without(b1, left)
           b3 == L!Without(b2, right)
<1>14. /\ b1 \in Bags
       /\ \A c : Copies(c, b1) = Copies(c, st.conns) + IF c = conn THEN 1 ELSE 0
  BY <1>1, <1>7, Added
<1>15. bag = b3
  BY Zenon DEF MiddleConns, conn, left, right
<1> HIDE DEF b1
<1>16. Copies(left, b1) > 0
  <2>1. /\ Copies(left, st.conns) \in Nat /\ Copies(left, st.conns) >= Times(Used(old), left) /\ Times(u, left) \in Nat
        /\ Times(Used(old), left) = Times(v, left) + (IF left = right THEN 1 ELSE 0)
        /\ Times(v, left) = Times(u, left) + 1
        /\ Copies(left, b1) = Copies(left, st.conns) + (IF left = conn THEN 1 ELSE 0)
    BY <1>2, <1>12, <1>13, <1>14
  <2> QED BY <2>1
<1>17. /\ b2 \in Bags
       /\ \A c : Copies(c, b2) = Copies(c, b1) - IF c = left THEN 1 ELSE 0
  BY <1>14, <1>16, Taken
<1> HIDE DEF b2
<1>18. Copies(right, b2) > 0
  <2>1. /\ Copies(right, st.conns) \in Nat /\ Copies(right, st.conns) >= Times(Used(old), right) /\ Times(u, right) \in Nat
        /\ Times(Used(old), right) = Times(v, right) + 1
        /\ Times(v, right) = Times(u, right) + (IF right = left THEN 1 ELSE 0)
        /\ Copies(right, b1) = Copies(right, st.conns) + (IF right = conn THEN 1 ELSE 0)
        /\ Copies(right, b2) = Copies(right, b1) - (IF right = left THEN 1 ELSE 0)
    BY <1>2, <1>12, <1>13, <1>14, <1>17
  <2> QED BY <2>1
<1>19. /\ b3 \in Bags
       /\ \A c : Copies(c, b3) = Copies(c, b2) - IF c = right THEN 1 ELSE 0
  BY <1>17, <1>18, Taken
<1> HIDE DEF b3
<1>20. \A c : Copies(c, b3) >= Times(Used(nodes), c)
  <2> TAKE c
  <2>1. /\ Copies(c, st.conns) \in Nat /\ Copies(c, st.conns) >= Times(Used(old), c) /\ Times(u, c) \in Nat
        /\ Times(Used(old), c) = Times(v, c) + (IF c = right THEN 1 ELSE 0)
        /\ Times(v, c) = Times(u, c) + (IF c = left THEN 1 ELSE 0)
        /\ Times(Used(nodes), c) = Times(u, c) + (IF c = conn THEN 1 ELSE 0)
        /\ Copies(c, b1) = Copies(c, st.conns) + (IF c = conn THEN 1 ELSE 0)
        /\ Copies(c, b2) = Copies(c, b1) - (IF c = left THEN 1 ELSE 0)
        /\ Copies(c, b3) = Copies(c, b2) - (IF c = right THEN 1 ELSE 0)
    BY <1>2, <1>12, <1>13, <1>14, <1>17, <1>19
  <2> QED BY <2>1
<1>21. \A c \in Conns : c.route # name => Copies(c, b3) = Copies(c, base)
  <2> SUFFICES ASSUME NEW c \in Conns, c.route # name
               PROVE  Copies(c, b3) = Copies(c, base)
    OBVIOUS
  <2>1. c # conn /\ c # left /\ c # right
    BY <1>4, <1>7
  <2>2. /\ Copies(c, st.conns) \in Nat
        /\ Copies(c, b1) = Copies(c, st.conns) + 0
        /\ Copies(c, b2) = Copies(c, b1) - 0
        /\ Copies(c, b3) = Copies(c, b2) - 0
    BY <1>13, <1>14, <1>17, <1>19, <2>1
  <2> QED BY <1>2, <2>2
<1>22. Total(Used(nodes)) = Total(Used(old)) /\ Total(Used(nodes)) \in Nat
  <2>1. Total(Used(nodes)) = Total(u) + (x + y)
    BY <1>7, <1>10, <1>11, TotalInserted
  <2>2. Total(v) = Total(u) + x
    BY <1>4, <1>5, <1>11, TotalInserted
  <2>3. Total(Used(old)) = Total(v) + y
    BY <1>4, <1>5, <1>10, <1>11, TotalInserted
  <2>4. Total(u) \in Nat
    BY TotalIsNat
  <2> QED BY <2>1, <2>2, <2>3, <2>4
<1>23. StateIs(d, st.route.name, st.route.cost, st.route.numStops - 1, nodes, bag, st.lost)
  BY <1>1, MiddleIs DEF nodes
<1> DEFINE total == Total(Used(nodes))
           len == Len(nodes)
<1>24. StateIs(d, name, total, len, nodes, b3, lost)
  <2>1. st.route.numStops - 1 = len /\ st.route.cost = total
    BY <1>1, <1>10, <1>22
  <2> HIDE DEF d, bag, total, len
  <2> QED BY <1>1, <1>15, <1>23, <2>1, Zenon
<1> HIDE DEF d, bag
<1>25. StateHas(d, name, total, len, nodes, b3, lost)
  <2>1. total \in Nat /\ len \in Nat
    BY <1>10, <1>22
  <2> HIDE DEF total, len
  <2> QED BY <1>1, <1>10, <1>19, <1>24, <2>1, PartsState
<1>26. Stepped(nodes, old, stop) /\ (Len(nodes) = 1 => Times(StopsOf(nodes), stop) = 0)
  <2>1. n # 2
    <3>1. n > 2
      <4>1. i + 1 <= n /\ i >= 2 /\ i \in Int
        BY <1>3
      <4> QED BY <4>1
    <3> HIDE DEF total, len, old
    <3>2. n \in Nat
      OBVIOUS
    <3> QED BY ONLY <3>1, <3>2
  <2>2. n = Len(old)
    OBVIOUS
  <2> QED BY <1>1, <1>9, <1>10, <2>1, <2>2, NodeTaken
<1>27. Sound(d.route) /\ Owned(d.route, d.conns) /\ OthersKept(name, d.conns, base)
  BY <1>9, <1>20, <1>21, <1>25 DEF Sound, Owned, OthersKept, StateHas
<1>28. d \in Rounds(name, stop, base, lost) /\ d.route.nodes = nodes
  BY <1>25, <1>26, <1>27 DEF Rounds, StateHas
<1> QED BY <1>26, <1>28 DEF d

\* A line without stops.
LEMMA NoNodes ==
  ASSUME NEW name
  PROVE  /\ << >> \in Seq(Nodes) /\ Len(<< >>) = 0 /\ Path(<< >>, name)
         /\ Total(Used(<< >>)) = 0 /\ \A c : Times(Used(<< >>), c) = 0 /\ Times(StopsOf(<< >>), c) = 0
<1>1. << >> \in Seq(Nodes) /\ Len(<< >>) = 0
  OBVIOUS
<1>2. Path(<< >>, name)
  BY <1>1 DEF Path
<1>3. Used(<< >>) \in Seq(Conns) /\ Len(Used(<< >>)) = 0
  BY <1>1, <1>2, UsedFacts
<1>4. StopsOf(<< >>) \in Seq(Stops) /\ Len(StopsOf(<< >>)) = 0
  BY <1>1, StopsFacts
<1>5. \A c : Times(Used(<< >>), c) \in Nat /\ Times(Used(<< >>), c) <= 0
  BY <1>3, TimesBound
<1>6. \A c : Times(StopsOf(<< >>), c) \in Nat /\ Times(StopsOf(<< >>), c) <= 0
  BY <1>4, TimesBound
<1>7. Total(Used(<< >>)) = 0
  BY <1>3, TotalOfNone
<1> QED BY <1>1, <1>2, <1>5, <1>6, <1>7

LEMMA RoundEmpties ==
  ASSUME NEW name, NEW stop, NEW base, NEW lost, NEW st \in Rounds(name, stop, base, lost),
         Len(st.route.nodes) = 2, Times(StopsOf(st.route.nodes), stop) = 2
  PROVE  L!Empty(st) \in Rounds(name, stop, base, lost) /\ Stepped(L!Empty(st).route.nodes, st.route.nodes, stop)
<1> DEFINE old == st.route.nodes
           d == L!Empty(st)
<1>1. /\ st \in States /\ st.route.name = name /\ name \in Lines /\ st.lost = lost
      /\ old \in Seq(Nodes) /\ st.conns \in Bags /\ lost \in Seq(Stops)
      /\ OthersKept(name, st.conns, base)
  BY InRound
<1>2. StateIs(d, st.route.name, 0, 0, << >>, st.conns, st.lost)
  BY <1>1, EmptyIs
<1> HIDE DEF d
<1>3. StateIs(d, name, 0, 0, << >>, st.conns, lost)
  BY <1>1, <1>2
<1>4. 0 \in Nat /\ << >> \in Seq(Nodes)
  OBVIOUS
<1>5. StateHas(d, name, 0, 0, << >>, st.conns, lost)
  BY <1>1, <1>3, <1>4, PartsState
<1>6. Sound(d.route)
  BY <1>5, NoNodes DEF Sound, StateHas
<1>7. Owned(d.route, d.conns)
  <2>1. \A c : Copies(c, st.conns) \in Nat /\ Times(Used(<< >>), c) = 0
    BY <1>1, BagFacts, NoNodes
  <2> QED BY <1>5, <2>1 DEF StateHas, Owned
<1>8. Len(d.route.nodes) # 1
  BY <1>5, NoNodes DEF StateHas
<1>9. d \in Rounds(name, stop, base, lost)
  BY <1>1, <1>5, <1>6, <1>7, <1>8 DEF StateHas, Rounds
<1>10. ASSUME NEW q, q # stop
       PROVE  Times(StopsOf(old), q) = 0
  <2>1. StopsOf(old) \in Seq(Stops) /\ Len(StopsOf(old)) = 2
    BY <1>1, StopsFacts
  <2>2. \A i \in 1 .. Len(StopsOf(old)) : StopsOf(old)[i] = stop
    <3>1. Times(StopsOf(old), stop) = Len(StopsOf(old))
      BY <2>1
    <3> QED BY <2>1, <3>1, TimesBound, SMTT(40), ZenonT(40)
  <2>3. \A i \in 1 .. Len(StopsOf(old)) : StopsOf(old)[i] # q
    BY <1>10, <2>2
  <2> QED BY <2>1, <2>3, TimesBound
<1>11. Stepped(<< >>, old, stop)
  <2>1. \A c : Times(StopsOf(<< >>), c) = 0
    BY NoNodes
  <2> QED BY <1>10, <2>1 DEF Stepped
<1> QED BY <1>5, <1>9, <1>11 DEF StateHas, d

\* One round of updateRouteStops.
LEMMA RoundTaken ==
  ASSUME NEW name, NEW stop, NEW base, NEW lost, NEW st \in Rounds(name, stop, base, lost)
  PROVE  /\ L!DeleteOne(st, stop) \in Rounds(name, stop, base, lost)
         /\ Stepped(L!DeleteOne(st, stop).route.nodes, st.route.nodes, stop)
<1> DEFINE nodes == st.route.nodes
           i == First(nodes, stop)
<1>1. /\ st \in States /\ st.route.name = name /\ name \in Lines /\ st.lost = lost
      /\ Path(nodes, name) /\ nodes \in Seq(Nodes) /\ st.route.numStops = Len(nodes)
      /\ (Len(nodes) = 1 => Times(StopsOf(nodes), stop) = 0)
  BY InRound
<1>2. PICK n \in Nat : n = Len(nodes)
  BY <1>1, NodesFacts
<1>3. /\ i \in 0 .. n
      /\ i # 0 => nodes[i].stop = stop
      /\ i = 0 => \A j \in 1 .. n : nodes[j].stop # stop
  BY <1>1, <1>2, FirstNode
<1>4. L!StopInRoute(nodes, stop) = Times(StopsOf(nodes), stop)
  BY <1>1, StopsFacts
<1>5. L!DeleteOne(st, stop) =
        IF i = 0 \/ st.route.numStops = 1 THEN st
        ELSE IF st.route.numStops = 2 /\ L!StopInRoute(nodes, stop) = 2 THEN L!Empty(st)
        ELSE IF i = 1 THEN L!DeleteHead(st)
        ELSE IF i = Len(nodes) THEN L!DeleteTail(st) ELSE L!DeleteMiddle(st, i)
  BY Zenon DEF L!DeleteOne, First
<1> HIDE DEF i
<1>6. L!DeleteOne(st, stop) =
        IF i = 0 \/ n = 1 THEN st
        ELSE IF n = 2 /\ Times(StopsOf(nodes), stop) = 2 THEN L!Empty(st)
        ELSE IF i = 1 THEN L!DeleteHead(st)
        ELSE IF i = n THEN L!DeleteTail(st) ELSE L!DeleteMiddle(st, i)
  <2> HIDE DEF nodes
  <2> QED BY <1>1, <1>2, <1>4, <1>5, Zenon
<1>7. CASE i = 0 \/ n = 1
  <2>1. L!DeleteOne(st, stop) = st
    BY <1>6, <1>7, Zenon
  <2>2. StopsOf(nodes) \in Seq(Stops) /\ Len(StopsOf(nodes)) = n
        /\ \A j \in 1 .. n : StopsOf(nodes)[j] = nodes[j].stop
    BY <1>1, <1>2, StopsFacts
  <2>3. Times(StopsOf(nodes), stop) = 0
    <3>1. CASE i = 0
      <4>1. \A j \in 1 .. Len(StopsOf(nodes)) : StopsOf(nodes)[j] # stop
        BY <1>3, <2>2, <3>1
      <4> QED BY <2>2, <4>1, TimesBound
    <3>2. CASE n = 1
      BY <1>1, <1>2, <3>2
    <3> QED BY <1>7, <3>1, <3>2
  <2>4. Stepped(nodes, nodes, stop)
    BY <2>3 DEF Stepped
  <2> QED BY <2>1, <2>4, Zenon
<1>8. CASE ~(i = 0 \/ n = 1) /\ n = 2 /\ Times(StopsOf(nodes), stop) = 2
  <2>1. L!DeleteOne(st, stop) = L!Empty(st)
    BY <1>6, <1>8, Zenon
  <2>2. L!Empty(st) \in Rounds(name, stop, base, lost) /\ Stepped(L!Empty(st).route.nodes, st.route.nodes, stop)
    BY <1>2, <1>8, RoundEmpties
  <2> QED BY <2>1, <2>2, Zenon
<1>9. CASE ~(i = 0 \/ n = 1) /\ ~(n = 2 /\ Times(StopsOf(nodes), stop) = 2)
  <2>1. n > 1 /\ i # 0 /\ nodes[i].stop = stop /\ 1 \in 1 .. n - 1 /\ n - 1 \in 1 .. n - 1
    BY <1>3, <1>9
  <2>2. CASE i = 1
    <3>1. L!DeleteOne(st, stop) = L!DeleteHead(st)
      BY <1>6, <1>9, <2>2, Zenon
    <3>2. EndGoes(L!DeleteHead(st), st, HeadNodes(st), nodes[1].right)
      BY <1>1, HeadIs DEF EndGoes
    <3>3. Beheaded(HeadNodes(st), nodes)
      BY Zenon DEF Beheaded, HeadNodes
    <3>4. /\ Path(HeadNodes(st), name) /\ Joined(HeadNodes(st), nodes, 1, nodes[1].stop)
          /\ nodes[1].right \in Conns /\ nodes[1].right.route = name
          /\ Inserted(Used(HeadNodes(st)), Used(nodes), 1, nodes[1].right)
      BY <1>1, <1>2, <2>1, <3>3, PathBeheaded
    <3>5. Joined(HeadNodes(st), nodes, 1, stop) /\ ~(Len(nodes) = 2 /\ Times(StopsOf(nodes), stop) = 2)
      BY <1>2, <1>9, <2>1, <2>2, <3>4
    <3>6. /\ L!DeleteHead(st) \in Rounds(name, stop, base, lost)
          /\ Stepped(L!DeleteHead(st).route.nodes, st.route.nodes, stop)
      BY <3>2, <3>4, <3>5, EndTaken
    <3> QED BY <3>1, <3>6, Zenon
  <2>3. CASE i # 1 /\ i = n
    <3>1. L!DeleteOne(st, stop) = L!DeleteTail(st)
      BY <1>6, <1>9, <2>3, Zenon
    <3>2. L!Last(nodes) = nodes[n]
      BY <1>2, Zenon DEF L!Last
    <3>3. EndGoes(L!DeleteTail(st), st, TailNodes(st), nodes[n].left)
      BY <1>1, <3>2, TailIs, Zenon DEF EndGoes
    <3>4. Curtailed(TailNodes(st), nodes)
      BY Zenon DEF Curtailed, TailNodes
    <3>5. /\ Path(TailNodes(st), name) /\ Joined(TailNodes(st), nodes, n, nodes[n].stop)
          /\ nodes[n].left \in Conns /\ nodes[n].left.route = name
          /\ Inserted(Used(TailNodes(st)), Used(nodes), n - 1, nodes[n].left)
      BY <1>1, <1>2, <2>1, <3>4, PathCurtailed
    <3>6. Joined(TailNodes(st), nodes, n, stop) /\ ~(Len(nodes) = 2 /\ Times(StopsOf(nodes), stop) = 2)
      BY <1>2, <1>9, <2>1, <2>3, <3>5
    <3>7. /\ L!DeleteTail(st) \in Rounds(name, stop, base, lost)
          /\ Stepped(L!DeleteTail(st).route.nodes, st.route.nodes, stop)
      BY <3>3, <3>5, <3>6, EndTaken
    <3> QED BY <3>1, <3>7, Zenon
  <2>4. CASE i # 1 /\ i # n
    <3>1. L!DeleteOne(st, stop) = L!DeleteMiddle(st, i)
      BY <1>6, <1>9, <2>4, Zenon
    <3>2. i \in 2 .. n - 1
      BY <1>3, <2>1, <2>4
    <3>3. /\ L!DeleteMiddle(st, i) \in Rounds(name, stop, base, lost)
          /\ Stepped(L!DeleteMiddle(st, i).route.nodes, st.route.nodes, stop)
      BY <1>2, <2>1, <3>2, MiddleTaken
    <3> QED BY <3>1, <3>3, Zenon
  <2> QED BY <2>2, <2>3, <2>4
<1> QED BY <1>7, <1>8, <1>9

\* updateRouteStops: as many rounds as the line had nodes.
LEMMA UpdateSteps ==
  ASSUME NEW name, NEW stop, NEW base, NEW lost, NEW st \in Rounds(name, stop, base, lost),
         NEW n \in Nat, n = Len(st.route.nodes)
  PROVE  \E g \in [0 .. n -> Rounds(name, stop, base, lost)] :
              /\ g[0] = st /\ L!UpdateRoute(st, stop) = L!ResetOne(g[n])
              /\ \A k \in Nat : k + 1 <= n => g[k + 1] = L!DeleteOne(g[k], stop)
<1> DEFINE X == Rounds(name, stop, base, lost)
           nodes == st.route.nodes
           Eq(f) == f = [s \in SUBSET DOMAIN nodes |->
                           IF s = {} THEN st ELSE LET x == L!Max(s) IN L!DeleteOne(f[s \ {x}], stop)]
           G == CHOOSE f : Eq(f)
<1>1. L!UpdateRoute(st, stop) = L!ResetOne(G[DOMAIN nodes])
  BY Zenon DEF L!UpdateRoute, L!FoldLeft, L!MapThenFoldSet
<1>2. DOMAIN nodes = 1 .. n
  <2>1. nodes \in Seq(Nodes)
    BY InRound
  <2> QED BY <2>1, LenProperties
<1>3. \A s : L!Max(s) = Max(s)
  BY Zenon DEF L!Max, Max
<1> DEFINE F == [p \in X \X (1 .. n) |-> L!DeleteOne(p[1], stop)]
<1>4. \A x \in X : L!DeleteOne(x, stop) \in X
  BY RoundTaken
<1> HIDE DEF X
<1>5. st \in X
  BY DEF X
<1>6. Steps(n, X, F, st)
  BY <1>4, <1>5 DEF Steps
<1>7. \A s \in SUBSET (1 .. n) : s # {} => Max(s) \in 1 .. n
  BY MaxOfInterval
<1>8. \A a \in X, i \in 1 .. n : F[<<a, i>>] = L!DeleteOne(a, stop)
  OBVIOUS
<1> HIDE DEF F
<1>9. PICK h : Values(h, n, X, F, st)
  BY <1>6, FoldExists
<1>10. Eq(h)
  <2>1. \A s \in SUBSET (1 .. n) :
          h[s] = IF s = {} THEN st ELSE LET x == L!Max(s) IN L!DeleteOne(h[s \ {x}], stop)
    <3>1. \A s \in SUBSET (1 .. n) : h[s \ {Max(s)}] \in X
      BY <1>9 DEF Values
    <3> QED BY <1>3, <1>7, <1>8, <1>9, <3>1 DEF Values
  <2>2. h = [s \in SUBSET (1 .. n) |-> h[s]]
    BY <1>9 DEF Values
  <2> QED BY <1>2, <2>1, <2>2
<1>11. Eq(G)
  <2> HIDE DEF Eq
  <2> QED BY <1>10
<1>12. \A s \in SUBSET (1 .. n) :
          G[s] = IF s = {} THEN st ELSE LET x == Max(s) IN L!DeleteOne(G[s \ {x}], stop)
  <2>1. G = [s \in SUBSET (1 .. n) |->
                IF s = {} THEN st ELSE LET x == L!Max(s) IN L!DeleteOne(G[s \ {x}], stop)]
    <3> HIDE DEF G
    <3> QED BY <1>2, <1>11
  <2> HIDE DEF G
  <2> QED BY <1>3, <2>1
<1> HIDE DEF G
<1>13. Computes(G, n, X, F, st)
  BY <1>8, <1>12 DEF Computes
<1>14. PICK g : Iterates(g, G, n, X, F, st)
  BY <1>6, <1>13, FoldSteps
<1>15. ASSUME NEW k \in Nat, k + 1 <= n
       PROVE  g[k + 1] = L!DeleteOne(g[k], stop)
  <2>1. k \in 0 .. n /\ k + 1 \in 1 .. n
    BY <1>15
  <2> QED BY <1>8, <1>14, <1>15, <2>1 DEF Iterates
<1> QED BY <1>1, <1>2, <1>14, <1>15 DEF Iterates, X

\* After k rounds.
Left(now, old, stop, k) ==
  /\ \A q : q # stop => Times(StopsOf(now), q) = Times(StopsOf(old), q)
  /\ Times(StopsOf(now), stop) = 0 \/ Times(StopsOf(now), stop) + k <= Times(StopsOf(old), stop)

LEMMA AllTaken ==
  ASSUME NEW name, NEW stop, NEW base, NEW lost, NEW st \in Rounds(name, stop, base, lost)
  PROVE  \E d \in Rounds(name, stop, base, lost) :
           /\ L!UpdateRoute(st, stop) = L!ResetOne(d)
           /\ Times(StopsOf(d.route.nodes), stop) = 0
           /\ \A q : q # stop => Times(StopsOf(d.route.nodes), q) = Times(StopsOf(st.route.nodes), q)
<1> DEFINE X == Rounds(name, stop, base, lost)
           old == st.route.nodes
<1>1. PICK n \in Nat : n = Len(old)
  BY InRound
<1>2. PICK g \in [0 .. n -> X] :
              /\ g[0] = st /\ L!UpdateRoute(st, stop) = L!ResetOne(g[n])
              /\ \A k \in Nat : k + 1 <= n => g[k + 1] = L!DeleteOne(g[k], stop)
  BY <1>1, UpdateSteps
<1>3. \A x \in X : Stepped(L!DeleteOne(x, stop).route.nodes, x.route.nodes, stop)
  BY RoundTaken
<1>4. \A x \in X : \A q : Times(StopsOf(x.route.nodes), q) \in Nat
  <2>1. \A x \in X : x.route.nodes \in Seq(Nodes)
    BY InRound
  <2>2. \A x \in X : StopsOf(x.route.nodes) \in Seq(Stops)
    BY <2>1, StopsFacts
  <2> QED BY <2>2, TimesBound
<1>5. st \in X
  OBVIOUS
<1> HIDE DEF X
<1> DEFINE Good(k) == Left(g[k].route.nodes, old, stop, k)
           Bad == {k \in 0 .. n : ~Good(k)}
<1>6. Good(0)
  BY <1>2, <1>4, <1>5 DEF Left
<1>7. ASSUME NEW k \in Nat, k + 1 <= n, Good(k)
      PROVE  Good(k + 1)
  <2>1. k \in 0 .. n /\ g[k] \in X /\ g[k + 1] \in X
    BY <1>2, <1>7
  <2>2. Stepped(g[k + 1].route.nodes, g[k].route.nodes, stop)
    BY <1>2, <1>3, <1>7, <2>1
  <2>3. /\ Times(StopsOf(g[k].route.nodes), stop) \in Nat /\ Times(StopsOf(g[k + 1].route.nodes), stop) \in Nat
        /\ Times(StopsOf(old), stop) \in Nat
    BY <1>4, <1>5, <2>1
  <2> QED BY <1>7, <2>2, <2>3 DEF Stepped, Left
<1> HIDE DEF Good
<1>8. Bad = {}
  <2> SUFFICES ASSUME Bad # {}
               PROVE  FALSE
    OBVIOUS
  <2>1. PICK k \in Bad : \A j \in Bad : k <= j
    <3>1. Bad \in SUBSET Nat
      OBVIOUS
    <3> HIDE DEF Bad
    <3> QED BY <3>1, LeastExists
  <2>2. k \in Nat /\ k # 0 /\ k <= n
    BY <1>6, <2>1
  <2>3. k - 1 \in Nat /\ (k - 1) + 1 = k /\ k - 1 \in 0 .. n
    BY <2>2
  <2>4. Good(k - 1)
    BY <2>1, <2>2, <2>3
  <2>5. Good((k - 1) + 1)
    BY <1>7, <2>2, <2>3, <2>4
  <2> QED BY <2>1, <2>3, <2>5
<1>9. Left(g[n].route.nodes, old, stop, n) /\ g[n] \in X
  BY <1>2, <1>8 DEF Good
<1>10. Times(StopsOf(g[n].route.nodes), stop) = 0
  <2>1. StopsOf(old) \in Seq(Stops) /\ Len(StopsOf(old)) = n
    <3>1. old \in Seq(Nodes)
      BY InRound
    <3> QED BY <1>1, <3>1, StopsFacts
  <2>2. Times(StopsOf(old), stop) \in Nat /\ Times(StopsOf(old), stop) <= n
    BY <2>1, TimesBound
  <2>3. CASE n = 0
    BY <1>2, <1>4, <1>5, <2>2, <2>3
  <2>4. CASE n # 0
    <3>1. Times(StopsOf(g[n].route.nodes), stop) \in Nat
      BY <1>4, <1>9
    <3>2. \/ Times(StopsOf(g[n].route.nodes), stop) = 0
          \/ Times(StopsOf(g[n].route.nodes), stop) + n <= Times(StopsOf(old), stop)
      BY <1>9 DEF Left
    <3> QED BY <2>2, <3>1, <3>2
  <2> QED BY <2>3, <2>4
<1>11. \A q : q # stop => Times(StopsOf(g[n].route.nodes), q) = Times(StopsOf(old), q)
  BY <1>9 DEF Left
<1> QED BY <1>2, <1>9, <1>10, <1>11 DEF X

Passes(nodes, q) == IF Times(StopsOf(nodes), q) > 0 THEN 1 ELSE 0

\* The data of a line agree, and its connections are all there.
Fine(r, bag) == Sound(r) /\ Len(r.nodes) # 1 /\ Owned(r, bag)

\* What updateRouteStops leaves of a line: it does not pass the stop, and where it does not
\* pass any more it is taken off a count.
Updated(d, st, stop) ==
  /\ d \in States /\ d.route.name = st.route.name /\ Fine(d.route, d.conns)
  /\ OthersKept(st.route.name, d.conns, st.conns)
  /\ Times(StopsOf(d.route.nodes), stop) = 0
  /\ \A q : q # stop =>
       Passes(d.route.nodes, q) + Times(d.lost, q) = Passes(st.route.nodes, q) + Times(st.lost, q)
  /\ \A q : Times(StopsOf(d.route.nodes), q) > 0 => Times(StopsOf(st.route.nodes), q) > 0

LEMMA RouteUpdated ==
  ASSUME NEW stop, NEW st \in States, Fine(st.route, st.conns)
  PROVE  Updated(L!UpdateRoute(st, stop), st, stop)
<1> DEFINE name == st.route.name
           base == st.conns
           lost == st.lost
           old == st.route.nodes
<1>1. st \in Rounds(name, stop, base, lost)
  BY DEF Rounds, Fine, OthersKept
<1>2. PICK m \in Rounds(name, stop, base, lost) :
           /\ L!UpdateRoute(st, stop) = L!ResetOne(m)
           /\ Times(StopsOf(m.route.nodes), stop) = 0
           /\ \A q : q # stop => Times(StopsOf(m.route.nodes), q) = Times(StopsOf(old), q)
  BY <1>1, AllTaken
<1> HIDE DEF name, base, lost
<1>3. /\ m \in States /\ m.route.name = name /\ name \in Lines /\ m.lost = lost
      /\ Path(m.route.nodes, name) /\ m.route.numStops = Len(m.route.nodes)
      /\ m.route.cost = Total(Used(m.route.nodes)) /\ m.route.nodes \in Seq(Nodes)
      /\ Len(m.route.nodes) \in Nat /\ m.conns \in Bags /\ lost \in Seq(Stops)
      /\ Owned(m.route, m.conns) /\ OthersKept(name, m.conns, base)
  BY InRound
<1>4. \A q : /\ Times(StopsOf(m.route.nodes), q) \in Nat /\ Times(StopsOf(old), q) \in Nat /\ Times(lost, q) \in Nat
             /\ Times(StopsOf(m.route.nodes), q) > 0 => Times(StopsOf(old), q) > 0
  <2>1. old \in Seq(Nodes)
    BY StateParts
  <2>2. StopsOf(m.route.nodes) \in Seq(Stops) /\ StopsOf(old) \in Seq(Stops)
    BY <1>3, <2>1, StopsFacts
  <2>3. \A q : Times(StopsOf(m.route.nodes), q) \in Nat /\ Times(StopsOf(old), q) \in Nat /\ Times(lost, q) \in Nat
    BY <1>3, <2>2, TimesBound
  <2> QED BY <1>2, <2>3
<1>5. \A q : q # stop => Passes(m.route.nodes, q) = Passes(old, q)
  BY <1>2 DEF Passes
<1>6. CASE m.route.numStops # 1
  <2>1. L!ResetOne(m) = m
    BY <1>3, <1>6, ResetIs
  <2>2. Fine(m.route, m.conns)
    BY <1>3, <1>6 DEF Fine, Sound
  <2>3. Updated(m, st, stop)
    BY <1>2, <1>3, <1>4, <1>5, <2>2 DEF Updated, name, base, lost
  <2> QED BY <1>2, <2>1, <2>3, Zenon
<1>7. CASE m.route.numStops = 1
  <2> DEFINE d == L!ResetOne(m)
             last == m.route.nodes[1].stop
             more == Append(lost, last)
             cost == m.route.cost
             bag == m.conns
  <2>1. StateIs(d, m.route.name, m.route.cost, 0, << >>, m.conns, Append(m.lost, m.route.nodes[1].stop))
    BY <1>3, <1>7, ResetIs
  <2>2. 1 \in 1 .. 1 /\ Len(m.route.nodes) = 1
    BY <1>3, <1>7
  <2>3. last \in Stops
    BY <1>3, <2>2, NodesFacts
  <2>4. /\ StopsOf(m.route.nodes) \in Seq(Stops) /\ Len(StopsOf(m.route.nodes)) = 1
        /\ StopsOf(m.route.nodes)[1] = last
    BY <1>3, <2>2, StopsFacts
  <2>5. \A q : Passes(m.route.nodes, q) = IF q = last THEN 1 ELSE 0
    <3> SUFFICES ASSUME NEW q
                 PROVE  Passes(m.route.nodes, q) = IF q = last THEN 1 ELSE 0
      OBVIOUS
    <3>1. /\ Times(StopsOf(m.route.nodes), q) \in Nat
          /\ Times(StopsOf(m.route.nodes), q) = 0 <=> \A i \in 1 .. 1 : StopsOf(m.route.nodes)[i] # q
      BY <2>4, TimesBound
    <3>2. (\A i \in 1 .. 1 : StopsOf(m.route.nodes)[i] # q) <=> q # last
      BY <2>4
    <3> QED BY <3>1, <3>2 DEF Passes
  <2>6. /\ more \in Seq(Stops) /\ \A q : Times(more, q) = Times(lost, q) + IF q = last THEN 1 ELSE 0
    <3>1. more \in Seq(Stops) /\ Inserted(lost, more, Len(lost) + 1, last)
      BY <1>3, <2>3, AppendInserts
    <3> HIDE DEF more, last
    <3> QED BY <1>3, <3>1, InsertedTimes
  <2>7. cost = 0
    <3>1. Used(m.route.nodes) \in Seq(Conns) /\ Len(Used(m.route.nodes)) = 0
      BY <1>3, <2>2, UsedFacts
    <3> QED BY <1>3, <3>1, TotalOfNone
  <2> HIDE DEF d, last, cost
  <2>8. StateIs(d, name, cost, 0, << >>, bag, more)
    BY <1>3, <2>1, Zenon DEF last, cost, bag, more
  <2>9. 0 \in Nat /\ << >> \in Seq(Nodes) /\ cost \in Nat
    BY <2>7
  <2> HIDE DEF bag, more
  <2>10. bag \in Bags
    BY <1>3 DEF bag
  <2>11. StateHas(d, name, cost, 0, << >>, bag, more)
    BY <1>3, <2>6, <2>8, <2>9, <2>10, PartsState
  <2>12. Sound(d.route) /\ Len(d.route.nodes) # 1
    BY <2>7, <2>11, NoNodes DEF Sound, StateHas
  <2>13. Owned(d.route, d.conns)
    <3>1. \A c : Copies(c, bag) \in Nat /\ Times(Used(<< >>), c) = 0
      BY <2>10, BagFacts, NoNodes
    <3> QED BY <2>11, <3>1 DEF StateHas, Owned
  <2>14. \A q : Times(StopsOf(<< >>), q) = 0 /\ Passes(<< >>, q) = 0
    <3>1. \A q : Times(StopsOf(<< >>), q) = 0
      BY NoNodes
    <3> QED BY <3>1 DEF Passes
  <2>15. \A q : q # stop => Passes(<< >>, q) + Times(more, q) = Passes(old, q) + Times(lost, q)
    <3> SUFFICES ASSUME NEW q, q # stop
                 PROVE  Passes(<< >>, q) + Times(more, q) = Passes(old, q) + Times(lost, q)
      OBVIOUS
    <3>1. Passes(old, q) = IF q = last THEN 1 ELSE 0
      BY <1>5, <2>5
    <3>2. Passes(<< >>, q) = 0 /\ Times(more, q) = Times(lost, q) + (IF q = last THEN 1 ELSE 0) /\ Times(lost, q) \in Nat
      BY <1>4, <2>6, <2>14
    <3> QED BY <3>1, <3>2
  <2>16. Updated(d, st, stop)
    BY <1>3, <2>11, <2>12, <2>13, <2>14, <2>15 DEF Updated, Fine, StateHas, name, base, lost, bag
  <2> QED BY <1>2, <2>16, Zenon DEF d
<1> QED BY <1>6, <1>7

\* The connections of another line stay when those of one line change.
LEMMA OwnedKept ==
  ASSUME NEW r, NEW name, NEW base \in Bags, NEW bag \in Bags, Sound(r), r.name # name, Owned(r, base),
         OthersKept(name, bag, base)
  PROVE  Owned(r, bag)
<1>1. SUFFICES ASSUME NEW c
               PROVE  Copies(c, bag) >= Times(Used(r.nodes), c)
  BY DEF Owned
<1>2. Path(r.nodes, r.name)
  BY DEF Sound
<1>3. /\ Len(r.nodes) \in Nat /\ Used(r.nodes) \in Seq(Conns)
      /\ \A i \in 1 .. Len(r.nodes) - 1 : Used(r.nodes)[i] \in Conns /\ Used(r.nodes)[i].route = r.name
  BY <1>2, PathHas
<1>4. Copies(c, bag) \in Nat /\ Copies(c, base) \in Nat /\ Copies(c, base) >= Times(Used(r.nodes), c)
  BY BagFacts DEF Owned
<1>5. CASE c \in Conns /\ c.route = r.name
  <2>1. Copies(c, bag) = Copies(c, base)
    BY <1>5 DEF OthersKept
  <2> QED BY <1>4, <2>1
<1>6. CASE ~(c \in Conns /\ c.route = r.name)
  <2>1. Len(Used(r.nodes)) = IF Len(r.nodes) = 0 THEN 0 ELSE Len(r.nodes) - 1
    BY <1>2, UsedFacts
  <2>2. \A i \in 1 .. Len(Used(r.nodes)) : Used(r.nodes)[i] # c
    <3>1. \A i \in 1 .. Len(Used(r.nodes)) : i \in 1 .. Len(r.nodes) - 1
      BY <1>3, <2>1
    <3> QED BY <1>3, <1>6, <3>1
  <2>3. Times(Used(r.nodes), c) = 0
    BY <1>3, <2>2, TimesBound
  <2> QED BY <1>4, <2>3
<1> QED BY <1>5, <1>6

------------------------------------------------------------------------------
(* The removal of a stop from all lines.                                        *)

UpdateAll(y, r, stop) ==
  LET new == L!UpdateRoute([route |-> r, conns |-> y.conns, lost |-> y.lost], stop)
  IN [routes |-> Append(y.routes, new.route), conns |-> new.conns, lost |-> new.lost]

UpdateEq(f, routes, start, stop) ==
  f = [s \in SUBSET DOMAIN routes |->
         IF s = {} THEN start ELSE LET x == L!Max(s) IN UpdateAll(f[s \ {x}], routes[x], stop)]

After(routes, start, stop) == (CHOOSE f : UpdateEq(f, routes, start, stop))[DOMAIN routes]

Folds == [routes : Seq(RouteRecs), conns : Bags, lost : Seq(Stops)]

\* The line r is updated from y to z.
OneUpdated(z, y, r, stop) ==
  \E d : /\ Updated(d, [route |-> r, conns |-> y.conns, lost |-> y.lost], stop)
         /\ z = [routes |-> Append(y.routes, d.route), conns |-> d.conns, lost |-> d.lost]

LEMMA UpdatesOne ==
  ASSUME NEW y \in Folds, NEW r \in RouteRecs, NEW stop, Fine(r, y.conns)
  PROVE  UpdateAll(y, r, stop) \in Folds /\ OneUpdated(UpdateAll(y, r, stop), y, r, stop)
<1> DEFINE st == [route |-> r, conns |-> y.conns, lost |-> y.lost]
           d == L!UpdateRoute(st, stop)
           z == UpdateAll(y, r, stop)
<1>1. y.routes \in Seq(RouteRecs) /\ y.conns \in Bags /\ y.lost \in Seq(Stops)
  BY DEF Folds
<1>2. st \in States /\ st.route = r /\ st.conns = y.conns
  BY <1>1 DEF States
<1>3. z = [routes |-> Append(y.routes, d.route), conns |-> d.conns, lost |-> d.lost]
  BY Zenon DEF UpdateAll
<1> HIDE DEF st
<1>4. Updated(d, st, stop)
  BY <1>2, RouteUpdated
<1> HIDE DEF d, z
<1>5. d \in States
  BY <1>4 DEF Updated
<1>6. d.route \in RouteRecs /\ d.conns \in Bags /\ d.lost \in Seq(Stops)
  BY <1>5 DEF States
<1>7. Append(y.routes, d.route) \in Seq(RouteRecs)
  BY <1>1, <1>6, AppendProperties
<1>8. z \in Folds
  BY <1>3, <1>6, <1>7 DEF Folds
<1>9. OneUpdated(z, y, r, stop)
  BY <1>3, <1>4, Zenon DEF OneUpdated, st
<1> QED BY <1>8, <1>9 DEF z

\* The lines from the place i on have all their connections.
Fresh(routes, y, i) == \A j \in i .. Len(routes) : Owned(routes[j], y.conns)

Distinct(list) == \A i, j \in 1 .. Len(list) : list[i].name = list[j].name => i = j

LEMMA FreshKept ==
  ASSUME NEW routes \in Seq(RouteRecs), Distinct(routes), \A j \in 1 .. Len(routes) : Sound(routes[j]),
         NEW y \in Folds, NEW z \in Folds, NEW i \in 1 .. Len(routes), NEW stop,
         OneUpdated(z, y, routes[i], stop), Fresh(routes, y, i)
  PROVE  Fresh(routes, z, i + 1)
<1>1. PICK d : /\ Updated(d, [route |-> routes[i], conns |-> y.conns, lost |-> y.lost], stop)
               /\ z = [routes |-> Append(y.routes, d.route), conns |-> d.conns, lost |-> d.lost]
  BY DEF OneUpdated
<1>2. OthersKept(routes[i].name, z.conns, y.conns)
  BY <1>1 DEF Updated
<1>3. y.conns \in Bags /\ z.conns \in Bags /\ Len(routes) \in Nat
  BY LenProperties DEF Folds
<1>4. ASSUME NEW j \in i + 1 .. Len(routes)
      PROVE  Owned(routes[j], z.conns)
  <2>1. j \in i .. Len(routes) /\ j \in 1 .. Len(routes) /\ i # j
    BY <1>3
  <2>2. routes[j].name # routes[i].name /\ Sound(routes[j]) /\ Owned(routes[j], y.conns)
    BY <2>1 DEF Distinct, Fresh
  <2> QED BY <1>2, <1>3, <2>2, OwnedKept
<1> QED BY <1>4 DEF Fresh

LEMMA AfterExists ==
  ASSUME NEW routes \in Seq(RouteRecs), Distinct(routes), \A j \in 1 .. Len(routes) : Sound(routes[j]),
         \A j \in 1 .. Len(routes) : Len(routes[j].nodes) # 1,
         NEW start \in Folds, Fresh(routes, start, 1), NEW stop
  PROVE  \E f : UpdateEq(f, routes, start, stop)
<1>1. PICK n \in Nat : n = Len(routes) /\ DOMAIN routes = 1 .. n /\ \A j \in 1 .. n : routes[j] \in RouteRecs
  BY LenProperties
<1> DEFINE Op(y, i) == UpdateAll(y, routes[i], stop)
           F == [p \in Folds \X (1 .. n) |-> IF Fresh(routes, p[1], p[2]) THEN Op(p[1], p[2]) ELSE p[1]]
<1>2. ASSUME NEW y \in Folds, NEW i \in 1 .. n, Fresh(routes, y, i)
      PROVE  Op(y, i) \in Folds /\ Fresh(routes, Op(y, i), i + 1)
  <2>1. i \in i .. n
    OBVIOUS
  <2>2. Fine(routes[i], y.conns) /\ routes[i] \in RouteRecs
    BY <1>1, <1>2, <2>1 DEF Fresh, Fine
  <2>3. Op(y, i) \in Folds /\ OneUpdated(Op(y, i), y, routes[i], stop)
    BY <2>2, UpdatesOne
  <2> HIDE DEF Op
  <2> QED BY <1>1, <1>2, <2>3, FreshKept
<1> HIDE DEF Op
<1>3. \A y \in Folds, i \in 1 .. n : F[<<y, i>>] = IF Fresh(routes, y, i) THEN Op(y, i) ELSE y
  OBVIOUS
<1>4. Steps(n, Folds, F, start)
  <2>1. \A p \in Folds \X (1 .. n) : (IF Fresh(routes, p[1], p[2]) THEN Op(p[1], p[2]) ELSE p[1]) \in Folds
    BY <1>2
  <2> QED BY <2>1 DEF Steps
<1> HIDE DEF F
<1>5. PICK h : Values(h, n, Folds, F, start)
  BY <1>4, FoldExists
<1>6. \A s \in SUBSET (1 .. n) : h[s] \in Folds /\ h[s] = IF s = {} THEN start ELSE F[<<h[s \ {Max(s)}], Max(s)>>]
  BY <1>5 DEF Values
<1> DEFINE Good(k) == \A s \in SUBSET (1 .. k) : Fresh(routes, h[s], k + 1)
           Bad == {k \in 0 .. n : ~Good(k)}
<1>7. Good(0)
  <2>1. \A s \in SUBSET (1 .. 0) : s = {} /\ s \in SUBSET (1 .. n)
    OBVIOUS
  <2>2. \A s \in SUBSET (1 .. 0) : h[s] = start
    BY <1>6, <2>1
  <2>3. 0 + 1 = 1
    OBVIOUS
  <2> QED BY <2>2, <2>3
<1>8. ASSUME NEW k \in Nat, k + 1 <= n, Good(k)
      PROVE  Good(k + 1)
  <2> SUFFICES ASSUME NEW s \in SUBSET (1 .. k + 1)
               PROVE  Fresh(routes, h[s], (k + 1) + 1)
    OBVIOUS
  <2>1. s \in SUBSET (1 .. n) /\ k + 1 \in 1 .. n
    BY <1>8
  <2>2. CASE k + 1 \notin s
    <3>1. s \in SUBSET (1 .. k)
      BY <2>2
    <3>2. Fresh(routes, h[s], k + 1)
      BY <1>8, <3>1
    <3>3. \A j \in (k + 1) + 1 .. Len(routes) : j \in k + 1 .. Len(routes)
      BY <1>1
    <3> QED BY <3>2, <3>3 DEF Fresh
  <2>3. CASE k + 1 \in s
    <3>1. Max(s) = k + 1
      <4>1. s # {} /\ k + 1 \in Nat
        BY <2>3
      <4>2. Max(s) \in s /\ \A y \in s : y <= Max(s)
        BY <4>1, MaxOfInterval
      <4>3. PICK m \in 1 .. k + 1 : m = Max(s) /\ k + 1 <= m
        BY <2>3, <4>2
      <4>4. m = k + 1
        BY <4>3
      <4> QED BY <4>3, <4>4
    <3>2. s \ {k + 1} \in SUBSET (1 .. k) /\ s \ {k + 1} \in SUBSET (1 .. n) /\ s # {}
      BY <2>1, <2>3
    <3>3. Fresh(routes, h[s \ {k + 1}], k + 1) /\ h[s \ {k + 1}] \in Folds
      BY <1>6, <1>8, <3>2
    <3>4. h[s] = F[<<h[s \ {k + 1}], k + 1>>]
      BY <1>6, <2>1, <3>1, <3>2
    <3>5. h[s] = Op(h[s \ {k + 1}], k + 1)
      BY <1>3, <2>1, <3>3, <3>4
    <3> QED BY <1>2, <2>1, <3>3, <3>5
  <2> QED BY <2>2, <2>3
<1> HIDE DEF Good
<1>9. Bad = {}
  <2> SUFFICES ASSUME Bad # {}
               PROVE  FALSE
    OBVIOUS
  <2>1. PICK k \in Bad : \A j \in Bad : k <= j
    <3>1. Bad \in SUBSET Nat
      OBVIOUS
    <3> HIDE DEF Bad
    <3> QED BY <3>1, LeastExists
  <2>2. k \in Nat /\ k # 0 /\ k <= n
    BY <1>7, <2>1
  <2>3. k - 1 \in Nat /\ (k - 1) + 1 = k /\ k - 1 \in 0 .. n
    BY <2>2
  <2>4. Good(k - 1)
    BY <2>1, <2>2, <2>3
  <2>5. Good((k - 1) + 1)
    BY <1>8, <2>2, <2>3, <2>4
  <2> QED BY <2>1, <2>3, <2>5
<1>10. ASSUME NEW s \in SUBSET (1 .. n), s # {}
       PROVE  h[s] = Op(h[s \ {Max(s)}], Max(s))
  <2>1. Max(s) \in s /\ \A y \in s : y <= Max(s)
    BY <1>10, MaxOfInterval
  <2>2. PICK m \in 1 .. n : m = Max(s) /\ m \in s /\ \A y \in s : y <= m
    BY <2>1
  <2>3. m - 1 \in 0 .. n /\ (m - 1) + 1 = m
    OBVIOUS
  <2>4. s \ {m} \in SUBSET (1 .. m - 1) /\ s \ {m} \in SUBSET (1 .. n)
    <3>1. \A y \in s \ {m} : y \in 1 .. n /\ y <= m /\ y # m
      BY <2>2
    <3>2. \A y \in 1 .. n : y <= m /\ y # m => y \in 1 .. m - 1
      OBVIOUS
    <3> QED BY <3>1, <3>2
  <2>5. Fresh(routes, h[s \ {m}], (m - 1) + 1)
    BY <1>9, <2>3, <2>4 DEF Good
  <2>6. h[s \ {m}] \in Folds /\ h[s] = F[<<h[s \ {m}], m>>]
    BY <1>6, <1>10, <2>2, <2>4
  <2>7. h[s] = Op(h[s \ {m}], m)
    BY <1>3, <2>2, <2>3, <2>5, <2>6
  <2> QED BY <2>2, <2>7
<1>11. \A s : L!Max(s) = Max(s)
  BY Zenon DEF L!Max, Max
<1>12. \A s \in SUBSET (1 .. n) : h[s] = IF s = {} THEN start ELSE Op(h[s \ {L!Max(s)}], L!Max(s))
  BY <1>6, <1>10, <1>11
<1>13. h = [s \in SUBSET (1 .. n) |-> IF s = {} THEN start ELSE Op(h[s \ {L!Max(s)}], L!Max(s))]
  <2>1. h = [s \in SUBSET (1 .. n) |-> h[s]]
    BY <1>5 DEF Values
  <2> QED BY <1>12, <2>1
<1>14. UpdateEq(h, routes, start, stop)
  BY <1>1, <1>13, Zenon DEF UpdateEq, Op
<1> QED BY <1>14

AfterIs(g, n, routes, start, stop) ==
  /\ g[0] = start /\ g[n] = After(routes, start, stop)
  /\ \A k \in Nat : k + 1 <= n => g[k + 1] = UpdateAll(g[k], routes[k + 1], stop)

\* The values on the way of the removal.
LEMMA AfterSteps ==
  ASSUME NEW routes \in Seq(RouteRecs), Distinct(routes), \A j \in 1 .. Len(routes) : Sound(routes[j]),
         \A j \in 1 .. Len(routes) : Len(routes[j].nodes) # 1,
         NEW start \in Folds, Fresh(routes, start, 1), NEW stop
  PROVE  \E g : AfterIs(g, Len(routes), routes, start, stop)
<1>1. PICK n \in Nat : n = Len(routes) /\ DOMAIN routes = 1 .. n
  BY LenProperties
<1> DEFINE G == CHOOSE f : UpdateEq(f, routes, start, stop)
           g == [k \in 0 .. n |-> G[1 .. k]]
<1>2. UpdateEq(G, routes, start, stop)
  <2>1. \E f : UpdateEq(f, routes, start, stop)
    BY AfterExists
  <2> QED BY <2>1, Zenon
<1>3. After(routes, start, stop) = G[1 .. n]
  BY <1>1, Zenon DEF After
<1> HIDE DEF G
<1>4. \A s \in SUBSET (1 .. n) : G[s] = IF s = {} THEN start ELSE UpdateAll(G[s \ {L!Max(s)}], routes[L!Max(s)], stop)
  <2>1. G = [s \in SUBSET (1 .. n) |->
                IF s = {} THEN start ELSE UpdateAll(G[s \ {L!Max(s)}], routes[L!Max(s)], stop)]
    BY <1>1, <1>2, Zenon DEF UpdateEq
  <2> QED BY <2>1
<1>5. \A s : L!Max(s) = Max(s)
  BY Zenon DEF L!Max, Max
<1>6. ASSUME NEW k \in Nat, k + 1 <= n
      PROVE  G[1 .. k + 1] = UpdateAll(G[1 .. k], routes[k + 1], stop)
  <2>1. 1 .. k + 1 \in SUBSET (1 .. n) /\ 1 .. k + 1 # {} /\ (1 .. k + 1) \ {k + 1} = 1 .. k /\ k + 1 \in 1 .. k + 1
    <3>1. \A j \in 1 .. k + 1 : j \in 1 .. n
      BY <1>6
    <3>2. k + 1 \in 1 .. k + 1
      OBVIOUS
    <3>3. (1 .. k + 1) \ {k + 1} = 1 .. k
      OBVIOUS
    <3> QED BY <3>1, <3>2, <3>3
  <2>2. Max(1 .. k + 1) \in 1 .. k + 1 /\ \A y \in 1 .. k + 1 : y <= Max(1 .. k + 1)
    BY <2>1, MaxOfInterval
  <2>3. PICK m \in 1 .. k + 1 : m = Max(1 .. k + 1) /\ k + 1 <= m
    BY <2>1, <2>2
  <2>4. m = k + 1
    BY <2>3
  <2> QED BY <1>4, <1>5, <2>1, <2>3, <2>4
<1>7. G[1 .. 0] = start
  <2>1. 1 .. 0 = {} /\ 1 .. 0 \in SUBSET (1 .. n)
    OBVIOUS
  <2> QED BY <1>4, <2>1
<1>8. g[0] = start /\ g[n] = G[1 .. n]
  <2>1. 0 \in 0 .. n /\ n \in 0 .. n
    OBVIOUS
  <2> QED BY <1>7, <2>1
<1>9. ASSUME NEW k \in Nat, k + 1 <= n
      PROVE  g[k + 1] = UpdateAll(g[k], routes[k + 1], stop)
  <2>1. k \in 0 .. n /\ k + 1 \in 0 .. n
    BY <1>9
  <2>2. g[k] = G[1 .. k] /\ g[k + 1] = G[1 .. k + 1]
    BY <2>1
  <2> QED BY <1>6, <1>9, <2>2
<1> HIDE DEF g
<1>10. AfterIs(g, n, routes, start, stop)
  BY <1>3, <1>8, <1>9 DEF AfterIs
<1> QED BY <1>1, <1>10

LEMMA SetChanged ==
  ASSUME NEW n \in Nat, NEW A \in SUBSET (1 .. n), NEW B \in SUBSET (1 .. n), NEW i \in 1 .. n,
         \A j \in 1 .. n : j # i => (j \in A <=> j \in B)
  PROVE  Cardinality(A) + (IF i \in B THEN 1 ELSE 0) = Cardinality(B) + (IF i \in A THEN 1 ELSE 0)
<1> DEFINE C == A \ {i}
<1>1. C = B \ {i} /\ C \in SUBSET (1 .. n)
  OBVIOUS
<1>2. A = (IF i \in A THEN C \cup {i} ELSE C) /\ B = (IF i \in B THEN C \cup {i} ELSE C) /\ i \notin C
  BY <1>1
<1> HIDE DEF C
<1>3. IsFiniteSet(C) /\ Cardinality(C) \in Nat
  BY <1>1, PartOfInterval
<1>4. Cardinality(C \cup {i}) = Cardinality(C) + 1
  BY <1>2, <1>3, FS_AddElement
<1>5. Cardinality(A) = (IF i \in A THEN Cardinality(C) + 1 ELSE Cardinality(C))
  BY <1>2, <1>4
<1>6. Cardinality(B) = (IF i \in B THEN Cardinality(C) + 1 ELSE Cardinality(C))
  BY <1>2, <1>4
<1> QED BY <1>3, <1>5, <1>6

\* The lines that pass q.
PassSet(routes, q) == {j \in 1 .. Len(routes) : Times(StopsOf(routes[j].nodes), q) > 0}

\* ... when the first k are updated.
Passing(routes, y, k, q) ==
  {j \in 1 .. Len(routes) : Times(StopsOf((IF j <= k THEN y.routes[j] ELSE routes[j]).nodes), q) > 0}

Shrunk(new, old, stop) ==
  /\ new.name = old.name /\ Times(StopsOf(new.nodes), stop) = 0
  /\ \A q : Times(StopsOf(new.nodes), q) > 0 => Times(StopsOf(old.nodes), q) > 0

\* When the first k lines are updated, the lines that pass a stop and the ones that were taken
\* off its count are together as many as before.
Mid(routes, y, k, stop) ==
  /\ y \in Folds /\ Len(y.routes) = k
  /\ \A j \in 1 .. k : Fine(y.routes[j], y.conns) /\ Shrunk(y.routes[j], routes[j], stop)
  /\ Fresh(routes, y, k + 1)
  /\ \A q : q # stop =>
       Cardinality(Passing(routes, y, k, q)) + Times(y.lost, q) = Cardinality(PassSet(routes, q))

LEMMA MidStep ==
  ASSUME NEW routes \in Seq(RouteRecs), Distinct(routes), \A j \in 1 .. Len(routes) : Sound(routes[j]),
         NEW y, NEW k \in Nat, k + 1 <= Len(routes), NEW stop, Mid(routes, y, k, stop),
         NEW z \in Folds, OneUpdated(z, y, routes[k + 1], stop)
  PROVE  Mid(routes, z, k + 1, stop)
<1>1. PICK n \in Nat : n = Len(routes) /\ k + 1 \in 1 .. n /\ \A j \in 1 .. n : routes[j] \in RouteRecs
  BY LenProperties
<1> DEFINE r == routes[k + 1]
           st == [route |-> r, conns |-> y.conns, lost |-> y.lost]
<1>2. PICK d : /\ Updated(d, st, stop)
               /\ z = [routes |-> Append(y.routes, d.route), conns |-> d.conns, lost |-> d.lost]
  BY DEF OneUpdated
<1>3. /\ y \in Folds /\ y.routes \in Seq(RouteRecs) /\ Len(y.routes) = k /\ y.conns \in Bags /\ y.lost \in Seq(Stops)
      /\ Fresh(routes, y, k + 1)
  BY DEF Mid, Folds
<1>4. z.routes = Append(y.routes, d.route) /\ z.conns = d.conns /\ z.lost = d.lost
  BY <1>2
<1>5. st.route = r /\ st.conns = y.conns /\ st.lost = y.lost
  OBVIOUS
<1> HIDE DEF st
<1>6. /\ d \in States /\ d.route.name = r.name /\ Fine(d.route, d.conns)
      /\ OthersKept(r.name, d.conns, y.conns) /\ Times(StopsOf(d.route.nodes), stop) = 0
      /\ \A q : q # stop => Passes(d.route.nodes, q) + Times(d.lost, q) = Passes(r.nodes, q) + Times(y.lost, q)
      /\ \A q : Times(StopsOf(d.route.nodes), q) > 0 => Times(StopsOf(r.nodes), q) > 0
  BY <1>2, <1>5 DEF Updated
<1>7. d.route \in RouteRecs /\ d.conns \in Bags /\ d.lost \in Seq(Stops)
  BY <1>6 DEF States
<1>8. /\ Len(z.routes) = k + 1 /\ z.routes[k + 1] = d.route
      /\ \A j \in 1 .. k : z.routes[j] = y.routes[j]
  BY <1>3, <1>4, <1>7, AppendProperties
<1>9. Fresh(routes, z, (k + 1) + 1)
  BY <1>1, <1>3, FreshKept
<1>10. ASSUME NEW j \in 1 .. k + 1
       PROVE  Fine(z.routes[j], z.conns) /\ Shrunk(z.routes[j], routes[j], stop)
  <2>1. CASE j = k + 1
    BY <1>4, <1>6, <1>8, <2>1 DEF Shrunk
  <2>2. CASE j \in 1 .. k
    <3>1. z.routes[j] = y.routes[j] /\ Fine(y.routes[j], y.conns) /\ Shrunk(y.routes[j], routes[j], stop)
      BY <1>8, <2>2 DEF Mid
    <3>2. j \in 1 .. n /\ j # k + 1
      BY <1>1, <2>2
    <3>3. y.routes[j].name # r.name
      BY <1>1, <3>1, <3>2 DEF Distinct, Shrunk
    <3>4. Owned(y.routes[j], z.conns)
      <4>1. Sound(y.routes[j]) /\ Owned(y.routes[j], y.conns)
        BY <3>1 DEF Fine
      <4> QED BY <1>3, <1>4, <1>6, <1>7, <3>3, <4>1, OwnedKept
    <3> QED BY <3>1, <3>4 DEF Fine
  <2> QED BY <2>1, <2>2
<1>11. ASSUME NEW q, q # stop
       PROVE  Cardinality(Passing(routes, z, k + 1, q)) + Times(z.lost, q) = Cardinality(PassSet(routes, q))
  <2> DEFINE A == Passing(routes, y, k, q)
             B == Passing(routes, z, k + 1, q)
  <2>1. A \in SUBSET (1 .. n) /\ B \in SUBSET (1 .. n)
    BY <1>1 DEF Passing
  <2>2. ASSUME NEW j \in 1 .. n, j # k + 1
        PROVE  j \in A <=> j \in B
    <3>1. CASE j \in 1 .. k
      <4>1. j <= k /\ j <= k + 1 /\ z.routes[j] = y.routes[j]
        BY <1>8, <3>1
      <4> QED BY <1>1, <4>1 DEF Passing
    <3>2. CASE j \notin 1 .. k
      <4>1. ~(j <= k) /\ ~(j <= k + 1)
        BY <2>2, <3>2
      <4> QED BY <1>1, <4>1 DEF Passing
    <3> QED BY <3>1, <3>2
  <2>3. /\ k + 1 \in A <=> Times(StopsOf(r.nodes), q) > 0
        /\ k + 1 \in B <=> Times(StopsOf(d.route.nodes), q) > 0
    <3>1. ~(k + 1 <= k) /\ k + 1 <= k + 1
      OBVIOUS
    <3> QED BY <1>1, <1>8, <3>1 DEF Passing
  <2>4. Cardinality(A) \in Nat /\ Cardinality(B) \in Nat
    BY <2>1, PartOfInterval
  <2>5. Cardinality(A) + Times(y.lost, q) = Cardinality(PassSet(routes, q))
    BY <1>11 DEF Mid
  <2> HIDE DEF A, B
  <2>6. Cardinality(A) + (IF k + 1 \in B THEN 1 ELSE 0) = Cardinality(B) + (IF k + 1 \in A THEN 1 ELSE 0)
    BY <1>1, <2>1, <2>2, SetChanged
  <2>7. Passes(d.route.nodes, q) = (IF k + 1 \in B THEN 1 ELSE 0) /\ Passes(r.nodes, q) = (IF k + 1 \in A THEN 1 ELSE 0)
    BY <2>3 DEF Passes
  <2>8. Times(y.lost, q) \in Nat /\ Times(d.lost, q) \in Nat
    BY <1>3, <1>7, TimesBound
  <2>9. (IF k + 1 \in B THEN 1 ELSE 0) + Times(d.lost, q) = (IF k + 1 \in A THEN 1 ELSE 0) + Times(y.lost, q)
    BY <1>6, <1>11, <2>7
  <2> QED BY <1>4, <2>4, <2>5, <2>6, <2>8, <2>9, SMTT(40), ZenonT(40) DEF B
<1> QED BY <1>8, <1>9, <1>10, <1>11 DEF Mid

\* All lines are updated.
LEMMA AllUpdated ==
  ASSUME NEW routes \in Seq(RouteRecs), Distinct(routes), NEW start \in Folds, NEW stop,
         \A j \in 1 .. Len(routes) : Fine(routes[j], start.conns), start.routes = << >>, start.lost = << >>
  PROVE  Mid(routes, After(routes, start, stop), Len(routes), stop)
<1>1. PICK n \in Nat : n = Len(routes) /\ \A j \in 1 .. n : routes[j] \in RouteRecs
  BY LenProperties
<1>2. /\ \A j \in 1 .. Len(routes) : Sound(routes[j]) /\ Len(routes[j].nodes) # 1
      /\ Fresh(routes, start, 1)
  BY DEF Fine, Fresh
<1>3. PICK g : AfterIs(g, Len(routes), routes, start, stop)
  BY <1>2, AfterSteps
<1>4. /\ g[0] = start /\ g[n] = After(routes, start, stop)
      /\ \A k \in Nat : k + 1 <= n => g[k + 1] = UpdateAll(g[k], routes[k + 1], stop)
  BY <1>1, <1>3 DEF AfterIs
<1> DEFINE Good(k) == Mid(routes, g[k], k, stop)
           Bad == {k \in 0 .. n : ~Good(k)}
<1>5. Good(0)
  <2>1. Len(start.routes) = 0 /\ 0 + 1 = 1 /\ 1 .. 0 = {}
    OBVIOUS
  <2>2. \A q : Times(start.lost, q) = 0
    <3>1. << >> \in Seq(Stops) /\ Len(<< >>) = 0
      OBVIOUS
    <3>2. \A q : Times(<< >>, q) \in Nat /\ Times(<< >>, q) <= 0
      BY <3>1, TimesBound
    <3> QED BY <3>2
  <2>3. \A q : Cardinality(PassSet(routes, q)) \in Nat /\ Passing(routes, start, 0, q) = PassSet(routes, q)
    <3> SUFFICES ASSUME NEW q
                 PROVE  Cardinality(PassSet(routes, q)) \in Nat /\ Passing(routes, start, 0, q) = PassSet(routes, q)
      OBVIOUS
    <3>1. PassSet(routes, q) \in SUBSET (1 .. n)
      BY <1>1 DEF PassSet
    <3>2. \A j \in 1 .. n : ~(j <= 0)
      OBVIOUS
    <3>3. Passing(routes, start, 0, q) = PassSet(routes, q)
      BY <1>1, <3>2 DEF Passing, PassSet
    <3> QED BY <3>1, <3>3, PartOfInterval
  <2> QED BY <1>2, <1>4, <2>1, <2>2, <2>3 DEF Mid
<1>6. ASSUME NEW k \in Nat, k + 1 <= n, Good(k)
      PROVE  Good(k + 1)
  <2>1. k + 1 \in 1 .. n /\ k + 1 \in k + 1 .. n
    BY <1>6
  <2>2. g[k] \in Folds /\ Fine(routes[k + 1], g[k].conns) /\ routes[k + 1] \in RouteRecs
    <3>1. g[k] \in Folds /\ Owned(routes[k + 1], g[k].conns)
      BY <1>1, <1>6, <2>1 DEF Mid, Fresh
    <3> QED BY <1>1, <1>2, <2>1, <3>1 DEF Fine
  <2>3. g[k + 1] \in Folds /\ OneUpdated(g[k + 1], g[k], routes[k + 1], stop)
    BY <1>4, <1>6, <2>2, UpdatesOne
  <2> QED BY <1>1, <1>2, <1>6, <2>3, MidStep
<1> HIDE DEF Good
<1>7. Bad = {}
  <2> SUFFICES ASSUME Bad # {}
               PROVE  FALSE
    OBVIOUS
  <2>1. PICK k \in Bad : \A j \in Bad : k <= j
    <3>1. Bad \in SUBSET Nat
      OBVIOUS
    <3> HIDE DEF Bad
    <3> QED BY <3>1, LeastExists
  <2>2. k \in Nat /\ k # 0 /\ k <= n
    BY <1>5, <2>1
  <2>3. k - 1 \in Nat /\ (k - 1) + 1 = k /\ k - 1 \in 0 .. n
    BY <2>2
  <2>4. Good(k - 1)
    BY <2>1, <2>2, <2>3
  <2>5. Good((k - 1) + 1)
    BY <1>6, <2>2, <2>3, <2>4
  <2> QED BY <2>1, <2>3, <2>5
<1>8. Good(n)
  BY <1>7
<1> QED BY <1>1, <1>4, <1>8 DEF Good

------------------------------------------------------------------------------
(* The invariant of the second program.                                         *)

Known(stops, q) == \E s \in 1 .. Len(stops) : stops[s].name = q
Counted(stops, routes) ==
  \A s \in 1 .. Len(stops) : stops[s].numRoutes = Cardinality(PassSet(routes, stops[s].name))
Served(stops, routes) ==
  \A r \in 1 .. Len(routes) : \A q : Times(StopsOf(routes[r].nodes), q) > 0 => Known(stops, q)

NetworkOf(stops, routes, conns) ==
  /\ stops \in Seq(StopRecs) /\ Distinct(stops)
  /\ routes \in Seq(RouteRecs) /\ Distinct(routes)
  /\ conns \in Bags /\ \A j \in 1 .. Len(routes) : Fine(routes[j], conns)
  /\ Counted(stops, routes) /\ Served(stops, routes)

Network == NetworkOf(stops2, routes2, conns2)

\* What is left of the stops.
LessOf(s, lost) == [s EXCEPT !.numRoutes = @ - Times(lost, s.name)]
StopsLeft(new, stops, stop, lost) ==
  LET kept == L!RemoveAt(stops, L!IndexOf(stops, stop)) IN new = [s \in DOMAIN kept |-> LessOf(kept[s], lost)]

LEMMA RemoveStopIs ==
  ASSUME NEW stop, L!RemoveStop(stop)
  PROVE  LET after == After(routes2, [routes |-> << >>, conns |-> conns2, lost |-> << >>], stop) IN
         /\ L!IndexOf(stops2, stop) # 0 /\ routes2' = after.routes /\ conns2' = after.conns
         /\ StopsLeft(stops2', stops2, stop, after.lost)
<1> DEFINE start == [routes |-> << >>, conns |-> conns2, lost |-> << >>]
           after == After(routes2, start, stop)
           kept == L!RemoveAt(stops2, L!IndexOf(stops2, stop))
<1>1. /\ L!IndexOf(stops2, stop) # 0 /\ routes2' = after.routes /\ conns2' = after.conns
      /\ stops2' = [s \in DOMAIN kept |->
           [kept[s] EXCEPT !.numRoutes = @ - L!Cardinality({i \in DOMAIN after.lost : after.lost[i] = kept[s].name})]]
  BY Zenon DEF L!RemoveStop, L!Exists, After, UpdateEq, UpdateAll, L!FoldLeft, L!MapThenFoldSet
<1> HIDE DEF after, kept
<1>2. \A s : L!Cardinality({i \in DOMAIN after.lost : after.lost[i] = s}) = Times(after.lost, s)
  BY SameCardinality DEF Times
<1>3. stops2' = [s \in DOMAIN kept |-> LessOf(kept[s], after.lost)]
  BY <1>1, <1>2 DEF LessOf
<1>4. StopsLeft(stops2', stops2, stop, after.lost)
  BY <1>3, Zenon DEF StopsLeft, kept
<1> QED BY <1>1, <1>4, Zenon DEF after

LEMMA BeyondIs ==
  ASSUME NEW m \in Nat, NEW p \in 1 .. m + 1
  PROVE  /\ \A j \in 1 .. m : Beyond(p, j) \in 1 .. m + 1 /\ Beyond(p, j) # p
         /\ \A i, j \in 1 .. m : Beyond(p, i) = Beyond(p, j) => i = j
         /\ \A k \in 1 .. m + 1 : k # p => \E j \in 1 .. m : k = Beyond(p, j)
<1>1. ASSUME NEW k \in 1 .. m + 1, k # p
      PROVE  \E j \in 1 .. m : k = Beyond(p, j)
  <2>1. CASE k < p
    <3>1. k \in 1 .. m /\ Beyond(p, k) = k
      BY <2>1 DEF Beyond
    <3> QED BY <3>1
  <2>2. CASE k > p
    <3>1. k - 1 \in 1 .. m /\ Beyond(p, k - 1) = k
      BY <2>2 DEF Beyond
    <3> QED BY <3>1
  <2> QED BY <1>1, <2>1, <2>2
<1> QED BY <1>1 DEF Beyond

LEMMA LessIs ==
  ASSUME NEW s \in StopRecs, NEW lost, NEW v \in Nat, s.numRoutes - Times(lost, s.name) = v
  PROVE  LessOf(s, lost) \in StopRecs /\ LessOf(s, lost).name = s.name /\ LessOf(s, lost).numRoutes = v
<1>1. s.name \in Stops /\ s = [name |-> s.name, numRoutes |-> s.numRoutes]
  BY DEF StopRecs
<1>2. LessOf(s, lost) = [s EXCEPT !.numRoutes = v]
  BY DEF LessOf
<1>3. [s EXCEPT !.numRoutes = v] = [name |-> s.name, numRoutes |-> v]
  BY <1>1
<1> QED BY <1>1, <1>2, <1>3 DEF StopRecs

LEMMA StopGone ==
  ASSUME NEW stops \in Seq(StopRecs), Distinct(stops), NEW routes \in Seq(RouteRecs), Distinct(routes),
         Counted(stops, routes), Served(stops, routes), NEW stop, L!IndexOf(stops, stop) # 0,
         NEW y, Mid(routes, y, Len(routes), stop), NEW new, StopsLeft(new, stops, stop, y.lost)
  PROVE  NetworkOf(new, y.routes, y.conns)
<1> DEFINE p == L!IndexOf(stops, stop)
           kept == L!RemoveAt(stops, p)
<1>1. PICK n \in Nat : n = Len(routes)
  BY LenProperties
<1>2. /\ p \in 1 .. Len(stops) /\ Len(stops) \in Nat /\ stops[p].name = stop
  BY IndexOfFacts
<1>3. new = [s \in DOMAIN kept |-> LessOf(kept[s], y.lost)]
  BY Zenon DEF StopsLeft
<1>4. PICK m \in Nat : m + 1 = Len(stops)
  <2>1. Len(stops) > 0 /\ Len(stops) - 1 \in Nat /\ (Len(stops) - 1) + 1 = Len(stops)
    BY <1>2
  <2> QED BY <2>1
<1> HIDE DEF p
<1>5. RemovedAt(kept, stops, p, StopRecs, m)
  BY <1>2, <1>4, RemovedAtIs
<1> HIDE DEF kept
<1>6. kept \in Seq(StopRecs) /\ Len(kept) = m /\ \A j \in 1 .. m : kept[j] = stops[Beyond(p, j)]
  BY <1>5 DEF RemovedAt
<1>7. /\ \A j \in 1 .. m : Beyond(p, j) \in 1 .. m + 1 /\ Beyond(p, j) # p
      /\ \A i, j \in 1 .. m : Beyond(p, i) = Beyond(p, j) => i = j
      /\ \A k \in 1 .. m + 1 : k # p => \E j \in 1 .. m : k = Beyond(p, j)
  BY <1>2, <1>4, BeyondIs
<1>8. DOMAIN kept = 1 .. m /\ \A j \in 1 .. m : kept[j] \in StopRecs
  BY <1>6, LenProperties
<1>9. /\ y \in Folds /\ Len(y.routes) = n
      /\ \A j \in 1 .. n : Fine(y.routes[j], y.conns) /\ Shrunk(y.routes[j], routes[j], stop)
      /\ \A q : q # stop =>
           Cardinality(Passing(routes, y, n, q)) + Times(y.lost, q) = Cardinality(PassSet(routes, q))
  BY <1>1 DEF Mid
<1>10. y.routes \in Seq(RouteRecs) /\ y.conns \in Bags /\ y.lost \in Seq(Stops)
  BY <1>9 DEF Folds
<1>11. ASSUME NEW q
       PROVE  Passing(routes, y, n, q) = PassSet(y.routes, q) /\ Cardinality(PassSet(y.routes, q)) \in Nat
  <2>1. \A j \in 1 .. n : j <= n
    OBVIOUS
  <2>2. Passing(routes, y, n, q) = PassSet(y.routes, q)
    BY <1>1, <1>9, <2>1 DEF Passing, PassSet
  <2>3. PassSet(y.routes, q) \in SUBSET (1 .. n)
    BY <1>9 DEF PassSet
  <2> QED BY <2>2, <2>3, PartOfInterval
<1>12. ASSUME NEW j \in 1 .. m
       PROVE  /\ LessOf(kept[j], y.lost) \in StopRecs
              /\ LessOf(kept[j], y.lost).name = kept[j].name /\ kept[j].name # stop
              /\ LessOf(kept[j], y.lost).numRoutes = Cardinality(PassSet(y.routes, kept[j].name))
  <2> DEFINE q == kept[j].name
  <2>1. kept[j] = stops[Beyond(p, j)] /\ Beyond(p, j) \in 1 .. Len(stops) /\ Beyond(p, j) # p
    BY <1>4, <1>6, <1>7
  <2>2. q # stop
    BY <1>2, <2>1 DEF Distinct
  <2>3. kept[j].numRoutes = Cardinality(PassSet(routes, q))
    BY <2>1 DEF Counted
  <2>4. Cardinality(PassSet(y.routes, q)) + Times(y.lost, q) = Cardinality(PassSet(routes, q))
    BY <1>9, <1>11, <2>2
  <2>5. Cardinality(PassSet(y.routes, q)) \in Nat /\ Times(y.lost, q) \in Nat
    BY <1>10, <1>11, TimesBound
  <2>6. PICK v \in Nat : v = Cardinality(PassSet(y.routes, q))
    BY <2>5
  <2>7. kept[j].numRoutes - Times(y.lost, q) = v
    BY <2>3, <2>4, <2>5, <2>6
  <2> QED BY <1>8, <2>2, <2>6, <2>7, LessIs
<1>13. new \in Seq(StopRecs) /\ Len(new) = m
  <2>1. new \in [1 .. m -> StopRecs]
    BY <1>3, <1>8, <1>12
  <2> QED BY <2>1, LenProperties
<1>14. \A j \in 1 .. m : /\ new[j].name = stops[Beyond(p, j)].name
                         /\ new[j].numRoutes = Cardinality(PassSet(y.routes, new[j].name))
  BY <1>3, <1>6, <1>8, <1>12
<1>15. Distinct(new)
  <2>1. \A i, j \in 1 .. m : new[i].name = new[j].name => Beyond(p, i) = Beyond(p, j)
    BY <1>4, <1>7, <1>14, SMTT(40), ZenonT(40) DEF Distinct
  <2> QED BY <1>7, <1>13, <2>1 DEF Distinct
<1>16. Counted(new, y.routes)
  BY <1>13, <1>14 DEF Counted
<1>17. Served(new, y.routes)
  <2> SUFFICES ASSUME NEW r \in 1 .. n, NEW q, Times(StopsOf(y.routes[r].nodes), q) > 0
               PROVE  Known(new, q)
    BY <1>9 DEF Served
  <2>1. Shrunk(y.routes[r], routes[r], stop)
    BY <1>9
  <2>2. q # stop /\ Times(StopsOf(routes[r].nodes), q) > 0
    BY <2>1 DEF Shrunk
  <2>3. Known(stops, q)
    BY <1>1, <2>2 DEF Served
  <2>4. PICK s \in 1 .. m + 1 : stops[s].name = q
    BY <1>4, <2>3 DEF Known
  <2>5. s # p
    BY <1>2, <2>2, <2>4
  <2>6. PICK j \in 1 .. m : s = Beyond(p, j)
    BY <1>7, <2>5
  <2> QED BY <1>13, <1>14, <2>4, <2>6 DEF Known
<1>18. Distinct(y.routes)
  <2>1. \A j \in 1 .. n : y.routes[j].name = routes[j].name
    BY <1>9 DEF Shrunk
  <2> QED BY <1>1, <1>9, <2>1 DEF Distinct
<1> QED BY <1>9, <1>10, <1>13, <1>15, <1>16, <1>17, <1>18 DEF NetworkOf

\* removeStopCommand keeps the network.
LEMMA RemoveStopKeeps ==
  ASSUME NEW stop, Network, L!RemoveStop(stop)
  PROVE  Network'
<1> DEFINE start == [routes |-> << >>, conns |-> conns2, lost |-> << >>]
           after == After(routes2, start, stop)
<1>1. /\ stops2 \in Seq(StopRecs) /\ Distinct(stops2)
      /\ routes2 \in Seq(RouteRecs) /\ Distinct(routes2)
      /\ conns2 \in Bags /\ \A j \in 1 .. Len(routes2) : Fine(routes2[j], conns2)
      /\ Counted(stops2, routes2) /\ Served(stops2, routes2)
  BY DEF Network, NetworkOf
<1>2. /\ L!IndexOf(stops2, stop) # 0 /\ routes2' = after.routes /\ conns2' = after.conns
      /\ StopsLeft(stops2', stops2, stop, after.lost)
  BY RemoveStopIs
<1>3. start \in Folds /\ start.routes = << >> /\ start.lost = << >> /\ start.conns = conns2
  BY <1>1 DEF Folds
<1> HIDE DEF start
<1>4. Mid(routes2, after, Len(routes2), stop)
  BY <1>1, <1>3, AllUpdated
<1> HIDE DEF after
<1>5. NetworkOf(stops2', after.routes, after.conns)
  BY <1>1, <1>2, <1>4, StopGone
<1>6. NetworkOf(stops2', routes2', conns2')
  BY <1>2, <1>5, Zenon
<1> QED BY <1>6, Zenon DEF Network

LEMMA NetworkHas ==
  ASSUME Network
  PROVE  /\ stops2 \in Seq(StopRecs) /\ Distinct(stops2)
         /\ routes2 \in Seq(RouteRecs) /\ Distinct(routes2)
         /\ conns2 \in Bags /\ \A j \in 1 .. Len(routes2) : Fine(routes2[j], conns2)
         /\ Counted(stops2, routes2) /\ Served(stops2, routes2)
         /\ Len(stops2) \in Nat /\ Len(routes2) \in Nat
BY LenProperties DEF Network, NetworkOf

LEMMA PassSetIsNat ==
  ASSUME NEW X, NEW routes \in Seq(X), NEW q
  PROVE  PassSet(routes, q) \in SUBSET (1 .. Len(routes)) /\ Cardinality(PassSet(routes, q)) \in Nat
<1>1. Len(routes) \in Nat /\ PassSet(routes, q) \in SUBSET (1 .. Len(routes))
  BY LenProperties DEF PassSet
<1> QED BY <1>1, PartOfInterval

\* stopCreation.
LEMMA CreateStopKeeps ==
  ASSUME Network, NEW name \in Stops, L!CreateStop(name)
  PROVE  Network'
<1> DEFINE s == [name |-> name, numRoutes |-> 0]
<1>1. /\ L!IndexOf(stops2, name) = 0 /\ stops2' = Append(stops2, s) /\ routes2' = routes2 /\ conns2' = conns2
  <2>1. L!Exists(stops2, name) <=> L!IndexOf(stops2, name) # 0
    BY Zenon DEF L!Exists
  <2>2. ~L!Exists(stops2, name) /\ stops2' = Append(stops2, s) /\ routes2' = routes2 /\ conns2' = conns2
    BY DEF L!CreateStop
  <2> QED BY <2>1, <2>2
<1>2. PICK m \in Nat : m = Len(stops2)
  BY NetworkHas
<1>3. /\ stops2 \in Seq(StopRecs) /\ Distinct(stops2) /\ routes2 \in Seq(RouteRecs)
      /\ Counted(stops2, routes2) /\ Served(stops2, routes2) /\ Len(routes2) \in Nat
  BY NetworkHas
<1>4. \A j \in 1 .. m : stops2[j].name # name
  BY <1>1, <1>2, <1>3, IndexOfFacts
<1>5. s \in StopRecs /\ s.name = name /\ s.numRoutes = 0
  BY DEF StopRecs
<1> HIDE DEF s
<1>6. /\ stops2' \in Seq(StopRecs) /\ Len(stops2') = m + 1
      /\ \A j \in 1 .. m : stops2'[j] = stops2[j]
      /\ stops2'[m + 1] = s
  BY <1>1, <1>2, <1>3, <1>5, AppendProperties
<1>7. \A j \in 1 .. m + 1 : j \in 1 .. m \/ j = m + 1
  OBVIOUS
<1>8. Distinct(stops2')
  <2> SUFFICES ASSUME NEW i \in 1 .. m + 1, NEW j \in 1 .. m + 1, stops2'[i].name = stops2'[j].name
               PROVE  i = j
    BY <1>6 DEF Distinct
  <2>1. CASE i \in 1 .. m /\ j \in 1 .. m
    BY <1>2, <1>3, <1>6, <2>1 DEF Distinct
  <2>2. CASE i = m + 1 /\ j \in 1 .. m
    BY <1>4, <1>5, <1>6, <2>2
  <2>3. CASE j = m + 1 /\ i \in 1 .. m
    BY <1>4, <1>5, <1>6, <2>3
  <2> QED BY <1>7, <2>1, <2>2, <2>3
<1>9. PassSet(routes2, name) = {}
  <2>1. ~Known(stops2, name)
    BY <1>2, <1>4 DEF Known
  <2> QED BY <1>3, <2>1 DEF Served, PassSet
<1>10. Counted(stops2', routes2)
  <2> SUFFICES ASSUME NEW j \in 1 .. m + 1
               PROVE  stops2'[j].numRoutes = Cardinality(PassSet(routes2, stops2'[j].name))
    BY <1>6 DEF Counted
  <2>1. CASE j \in 1 .. m
    BY <1>2, <1>3, <1>6, <2>1 DEF Counted
  <2>2. CASE j = m + 1
    BY <1>5, <1>6, <1>9, <2>2, FS_EmptySet
  <2> QED BY <1>7, <2>1, <2>2
<1>11. Served(stops2', routes2)
  <2>1. ASSUME NEW q, Known(stops2, q)
        PROVE  Known(stops2', q)
    <3>1. PICK j \in 1 .. m : stops2[j].name = q
      BY <1>2, <2>1 DEF Known
    <3>2. j \in 1 .. m + 1 /\ stops2'[j].name = q
      BY <1>6, <3>1
    <3> QED BY <1>6, <3>2 DEF Known
  <2> QED BY <1>3, <2>1 DEF Served
<1>12. NetworkOf(stops2', routes2, conns2)
  BY <1>6, <1>8, <1>10, <1>11, NetworkHas DEF NetworkOf
<1>13. NetworkOf(stops2', routes2', conns2')
  BY <1>1, <1>12, Zenon
<1> QED BY <1>13, Zenon DEF Network

\* createRouteOrPrintStops of a new name.
LEMMA CreateRouteKeeps ==
  ASSUME Network, NEW name \in Lines, L!CreateRoute(name)
  PROVE  Network'
<1> DEFINE r == [name |-> name, cost |-> 0, numStops |-> 0, nodes |-> << >>]
<1>1. /\ L!IndexOf(routes2, name) = 0 /\ routes2' = Append(routes2, r) /\ stops2' = stops2 /\ conns2' = conns2
  <2>1. L!Exists(routes2, name) <=> L!IndexOf(routes2, name) # 0
    BY Zenon DEF L!Exists
  <2>2. ~L!Exists(routes2, name) /\ routes2' = Append(routes2, r) /\ stops2' = stops2 /\ conns2' = conns2
    BY DEF L!CreateRoute
  <2> QED BY <2>1, <2>2
<1>2. PICK m \in Nat : m = Len(routes2)
  BY NetworkHas
<1>3. /\ routes2 \in Seq(RouteRecs) /\ Distinct(routes2) /\ conns2 \in Bags
      /\ Counted(stops2, routes2) /\ Served(stops2, routes2)
      /\ \A j \in 1 .. m : Fine(routes2[j], conns2)
  BY <1>2, NetworkHas
<1>4. \A j \in 1 .. m : routes2[j].name # name
  BY <1>1, <1>2, <1>3, IndexOfFacts
<1>5. r \in RouteRecs /\ r.name = name /\ r.nodes = << >> /\ r.cost = 0 /\ r.numStops = 0
  <2>1. << >> \in Seq(Nodes) /\ 0 \in Nat
    OBVIOUS
  <2> QED BY <2>1 DEF RouteRecs
<1> HIDE DEF r
<1>6. /\ routes2' \in Seq(RouteRecs) /\ Len(routes2') = m + 1
      /\ \A j \in 1 .. m : routes2'[j] = routes2[j]
      /\ routes2'[m + 1] = r
  BY <1>1, <1>2, <1>3, <1>5, AppendProperties
<1>7. \A j \in 1 .. m + 1 : j \in 1 .. m \/ j = m + 1
  OBVIOUS
<1>8. Distinct(routes2')
  <2> SUFFICES ASSUME NEW i \in 1 .. m + 1, NEW j \in 1 .. m + 1, routes2'[i].name = routes2'[j].name
               PROVE  i = j
    BY <1>6 DEF Distinct
  <2>1. CASE i \in 1 .. m /\ j \in 1 .. m
    BY <1>2, <1>3, <1>6, <2>1 DEF Distinct
  <2>2. CASE i = m + 1 /\ j \in 1 .. m
    BY <1>4, <1>5, <1>6, <2>2
  <2>3. CASE j = m + 1 /\ i \in 1 .. m
    BY <1>4, <1>5, <1>6, <2>3
  <2> QED BY <1>7, <2>1, <2>2, <2>3
<1>9. Fine(r, conns2)
  <2>1. \A c : Copies(c, conns2) \in Nat
    BY <1>3, BagFacts
  <2>2. Sound(r) /\ Len(r.nodes) # 1
    BY <1>5, NoNodes DEF Sound
  <2>3. Owned(r, conns2)
    BY <1>5, <2>1, NoNodes DEF Owned
  <2> QED BY <2>2, <2>3 DEF Fine
<1>10. \A q : Times(StopsOf(r.nodes), q) = 0
  BY <1>5, NoNodes
<1>11. \A q : PassSet(routes2', q) = PassSet(routes2, q)
  <2> SUFFICES ASSUME NEW q
               PROVE  PassSet(routes2', q) = PassSet(routes2, q)
    OBVIOUS
  <2>1. ~(Times(StopsOf(routes2'[m + 1].nodes), q) > 0)
    <3>1. Times(StopsOf(routes2'[m + 1].nodes), q) = 0
      BY <1>6, <1>10
    <3> QED BY <3>1
  <2>2. \A j \in 1 .. m : j \in 1 .. m + 1 /\ routes2'[j] = routes2[j]
    BY <1>6
  <2> QED BY <1>2, <1>6, <1>7, <2>1, <2>2 DEF PassSet
<1>12. Counted(stops2, routes2')
  BY <1>3, <1>11 DEF Counted
<1>13. Served(stops2, routes2')
  <2> SUFFICES ASSUME NEW j \in 1 .. m + 1, NEW q, Times(StopsOf(routes2'[j].nodes), q) > 0
               PROVE  Known(stops2, q)
    BY <1>6 DEF Served
  <2>1. j # m + 1
    <3>1. Times(StopsOf(routes2'[m + 1].nodes), q) = 0
      BY <1>6, <1>10
    <3> QED BY <3>1
  <2>2. j \in 1 .. m
    BY <1>7, <2>1
  <2> QED BY <1>2, <1>3, <1>6, <2>2 DEF Served
<1>14. \A j \in 1 .. m + 1 : Fine(routes2'[j], conns2)
  BY <1>3, <1>6, <1>7, <1>9
<1>15. NetworkOf(stops2, routes2', conns2)
  BY <1>6, <1>8, <1>12, <1>13, <1>14, NetworkHas DEF NetworkOf
<1>16. NetworkOf(stops2', routes2', conns2')
  BY <1>1, <1>15, Zenon
<1> QED BY <1>16, Zenon DEF Network

\* freeSystem, and the beginning.
LEMMA NoNetwork ==
  ASSUME NEW bag, bag = << >>
  PROVE  NetworkOf(<< >>, << >>, bag)
<1>1. Len(<< >>) = 0 /\ << >> \in Seq(StopRecs) /\ << >> \in Seq(RouteRecs) /\ 1 .. 0 = {}
  OBVIOUS
<1>2. bag \in Bags
  <2>1. DOMAIN << >> = {}
    OBVIOUS
  <2>2. << >> = [c \in {} |-> 1]
    OBVIOUS
  <2>3. [c \in {} |-> 1] \in [{} -> Nat \ {0}] /\ {} \in SUBSET Conns
    OBVIOUS
  <2> QED BY <2>2, <2>3, IsBag
<1> QED BY <1>1, <1>2 DEF NetworkOf, Distinct, Counted, Served

LEMMA RemoveAllKeeps ==
  ASSUME L!RemoveAll
  PROVE  Network'
<1>1. stops2' = << >> /\ routes2' = << >> /\ conns2' = L!EmptyBag
  BY DEF L!RemoveAll
<1>2. L!EmptyBag = << >>
  <2>1. L!EmptyBag = [c \in {} |-> 1]
    BY Zenon DEF L!EmptyBag, L!SetToBag
  <2> QED BY <2>1
<1>3. NetworkOf(stops2', routes2', conns2')
  BY <1>1, <1>2, NoNetwork
<1> QED BY <1>3, Zenon DEF Network

------------------------------------------------------------------------------
(* A new connection.                                                            *)

\* The line r gets other nodes, and its cost grows.
Extended(new, old, r, nodes, add) ==
  /\ new \in Seq(RouteRecs) /\ Len(new) = Len(old)
  /\ \A j \in 1 .. Len(old) : j # r => new[j] = old[j]
  /\ new[r].name = old[r].name /\ new[r].cost = old[r].cost + add
  /\ new[r].numStops = Len(nodes) /\ new[r].nodes = nodes

LEMMA ExtendIs ==
  ASSUME routes2 \in Seq(RouteRecs), NEW r \in 1 .. Len(routes2), NEW nodes \in Seq(Nodes), NEW add \in Nat,
         L!Extend(r, nodes, add)
  PROVE  Extended(routes2', routes2, r, nodes, add)
<1>1. PICK n \in Nat : n = Len(routes2) /\ DOMAIN routes2 = 1 .. n /\ \A j \in 1 .. n : routes2[j] \in RouteRecs
  BY LenProperties
<1>2. PICK a, b, c, d : routes2[r] = [name |-> a, cost |-> b, numStops |-> c, nodes |-> d]
                        /\ a \in Lines /\ b \in Nat
  <2>1. PICK x \in RouteRecs : x = routes2[r]
    BY <1>1
  <2>2. x = [name |-> x.name, cost |-> x.cost, numStops |-> x.numStops, nodes |-> x.nodes]
        /\ x.name \in Lines /\ x.cost \in Nat
    BY DEF RouteRecs
  <2>3. \E a, b, c, d : x = [name |-> a, cost |-> b, numStops |-> c, nodes |-> d] /\ a \in Lines /\ b \in Nat
    BY <2>2, Zenon
  <2> QED BY <2>1, <2>3
<1> DEFINE len == Len(nodes)
           x1 == [routes2 EXCEPT ![r].nodes = nodes]
           x2 == [x1 EXCEPT ![r].numStops = len]
           x3 == [x2 EXCEPT ![r].cost = @ + add]
<1>3. len \in Nat
  BY LenProperties
<1>4. routes2' = x3
  <2>1. routes2' = [routes2 EXCEPT ![r].nodes = nodes, ![r].numStops = len, ![r].cost = @ + add]
    BY Zenon DEF L!Extend
  <2> HIDE DEF len
  <2>2. [routes2 EXCEPT ![r].nodes = nodes, ![r].numStops = len, ![r].cost = @ + add] = x3
    OBVIOUS
  <2> QED BY <2>1, <2>2, Zenon
<1> HIDE DEF len
<1>5. /\ DOMAIN x1 = 1 .. n /\ x1 = [j \in 1 .. n |-> x1[j]]
      /\ \A j \in 1 .. n : j # r => x1[j] = routes2[j]
      /\ x1[r] = [name |-> a, cost |-> b, numStops |-> c, nodes |-> nodes]
  <2>1. DOMAIN x1 = 1 .. n /\ x1 = [j \in 1 .. n |-> x1[j]] /\ (\A j \in 1 .. n : j # r => x1[j] = routes2[j])
        /\ x1[r] = [routes2[r] EXCEPT !.nodes = nodes]
    BY <1>1, <1>2
  <2> HIDE DEF x1
  <2>2. [routes2[r] EXCEPT !.nodes = nodes] = [name |-> a, cost |-> b, numStops |-> c, nodes |-> nodes]
    BY <1>1, <1>2
  <2> QED BY <1>1, <1>2, <2>1, <2>2
<1> HIDE DEF x1
<1>6. /\ DOMAIN x2 = 1 .. n /\ x2 = [j \in 1 .. n |-> x2[j]]
      /\ \A j \in 1 .. n : j # r => x2[j] = routes2[j]
      /\ x2[r] = [name |-> a, cost |-> b, numStops |-> len, nodes |-> nodes]
  <2>1. DOMAIN x2 = 1 .. n /\ x2 = [j \in 1 .. n |-> x2[j]] /\ (\A j \in 1 .. n : j # r => x2[j] = x1[j])
        /\ x2[r] = [x1[r] EXCEPT !.numStops = len]
    BY <1>1, <1>5
  <2> HIDE DEF x2
  <2>2. [x1[r] EXCEPT !.numStops = len] = [name |-> a, cost |-> b, numStops |-> len, nodes |-> nodes]
    <3>1. x1[r] = [name |-> a, cost |-> b, numStops |-> c, nodes |-> nodes]
      BY <1>5
    <3> QED BY <3>1
  <2> QED BY <1>1, <1>5, <2>1, <2>2
<1> HIDE DEF x2
<1>7. /\ DOMAIN x3 = 1 .. n /\ x3 = [j \in 1 .. n |-> x3[j]]
      /\ \A j \in 1 .. n : j # r => x3[j] = routes2[j]
      /\ x3[r] = [name |-> a, cost |-> b + add, numStops |-> len, nodes |-> nodes]
  <2>1. DOMAIN x3 = 1 .. n /\ x3 = [j \in 1 .. n |-> x3[j]] /\ (\A j \in 1 .. n : j # r => x3[j] = x2[j])
        /\ x3[r] = [x2[r] EXCEPT !.cost = @ + add]
    BY <1>1, <1>6
  <2> HIDE DEF x3
  <2>2. [x2[r] EXCEPT !.cost = @ + add] = [name |-> a, cost |-> b + add, numStops |-> len, nodes |-> nodes]
    <3>1. x2[r] = [name |-> a, cost |-> b, numStops |-> len, nodes |-> nodes]
      BY <1>6
    <3> QED BY <3>1
  <2> QED BY <1>1, <1>6, <2>1, <2>2
<1> HIDE DEF x3
<1>8. x3[r] \in RouteRecs
  <2>1. b + add \in Nat
    BY <1>2
  <2> QED BY <1>2, <1>3, <1>7, <2>1, SMTT(40), ZenonT(40) DEF RouteRecs
<1>9. x3 \in [1 .. n -> RouteRecs]
  BY <1>1, <1>7, <1>8
<1>10. x3 \in Seq(RouteRecs) /\ Len(x3) = n
  BY <1>9, LenProperties
<1>11. routes2[r].name = a /\ routes2[r].cost = b
  BY <1>2
<1> QED BY <1>1, <1>4, <1>7, <1>10, <1>11 DEF Extended, len

\* The counts of the stops when a line changes from the nodes old to new.
Gains(after, stops, old, new) ==
  /\ after \in Seq(StopRecs) /\ Len(after) = Len(stops)
  /\ \A s \in 1 .. Len(stops) :
       /\ after[s].name = stops[s].name
       /\ after[s].numRoutes = stops[s].numRoutes + Passes(new, stops[s].name) - Passes(old, stops[s].name)

LEMMA NetworkLinked ==
  ASSUME Network, NEW r \in 1 .. Len(routes2), NEW nodes, Path(nodes, routes2[r].name), Len(nodes) > 1,
         NEW conn \in Conns, conn.route = routes2[r].name,
         NEW k, Inserted(Used(routes2[r].nodes), Used(nodes), k, conn),
         NEW routes, Extended(routes, routes2, r, nodes, conn.cost),
         NEW stops, Gains(stops, stops2, routes2[r].nodes, nodes),
         \A q : Times(StopsOf(nodes), q) > 0 => Times(StopsOf(routes2[r].nodes), q) > 0 \/ Known(stops2, q)
  PROVE  NetworkOf(stops, routes, L!(+)(conns2, L!SetToBag({conn})))
<1> DEFINE old == routes2[r].nodes
           bag == L!(+)(conns2, L!SetToBag({conn}))
<1>1. PICK n \in Nat, m \in Nat : n = Len(routes2) /\ m = Len(stops2)
  BY NetworkHas
<1>2. /\ stops2 \in Seq(StopRecs) /\ Distinct(stops2)
      /\ routes2 \in Seq(RouteRecs) /\ Distinct(routes2)
      /\ conns2 \in Bags /\ \A j \in 1 .. n : Fine(routes2[j], conns2)
      /\ Counted(stops2, routes2) /\ Served(stops2, routes2)
  BY <1>1, NetworkHas
<1>3. /\ routes \in Seq(RouteRecs) /\ Len(routes) = n
      /\ \A j \in 1 .. n : j # r => routes[j] = routes2[j]
      /\ routes[r].name = routes2[r].name /\ routes[r].cost = routes2[r].cost + conn.cost
      /\ routes[r].numStops = Len(nodes) /\ routes[r].nodes = nodes /\ r \in 1 .. n
  BY <1>1 DEF Extended
<1>4. /\ stops \in Seq(StopRecs) /\ Len(stops) = m
      /\ \A s \in 1 .. m :
           /\ stops[s].name = stops2[s].name
           /\ stops[s].numRoutes = stops2[s].numRoutes + Passes(nodes, stops2[s].name) - Passes(old, stops2[s].name)
  BY <1>1 DEF Gains
<1>5. Fine(routes2[r], conns2)
  BY <1>2, <1>3
<1>6. Path(old, routes2[r].name) /\ routes2[r].cost = Total(Used(old))
  BY <1>5 DEF Fine, Sound
<1>7. Used(old) \in Seq(Conns) /\ Used(nodes) \in Seq(Conns)
  BY <1>6, UsedFacts
<1>8. bag \in Bags /\ \A c : Copies(c, bag) = Copies(c, conns2) + IF c = conn THEN 1 ELSE 0
  BY <1>2, Added
<1> HIDE DEF bag
<1>9. \A c : Copies(c, conns2) \in Nat
  BY <1>2, BagFacts
<1>10. Fine(routes[r], bag)
  <2>1. Total(Used(nodes)) = Total(Used(old)) + conn.cost
    BY <1>7, TotalInserted
  <2>2. Sound(routes[r])
    BY <1>3, <1>6, <2>1 DEF Sound
  <2>3. \A c : Copies(c, bag) >= Times(Used(nodes), c)
    <3> TAKE c
    <3>1. Times(Used(nodes), c) = Times(Used(old), c) + (IF c = conn THEN 1 ELSE 0) /\ Times(Used(old), c) \in Nat
      BY <1>7, InsertedTimes, TimesBound
    <3>2. Copies(c, conns2) >= Times(Used(old), c)
      BY <1>5 DEF Fine, Owned
    <3>3. Copies(c, bag) = Copies(c, conns2) + (IF c = conn THEN 1 ELSE 0) /\ Copies(c, conns2) \in Nat
      BY <1>8, <1>9
    <3> QED BY <3>1, <3>2, <3>3
  <2>4. Len(routes[r].nodes) # 1
    <3>1. Len(nodes) # 1
      <4>1. Len(nodes) \in Nat /\ Len(nodes) > 1
        BY PathHas
      <4>2. \A h \in Nat : h > 1 => h # 1
        OBVIOUS
      <4> QED BY <4>1, <4>2, Zenon
    <3> QED BY <1>3, <3>1
  <2> QED BY <1>3, <2>2, <2>3, <2>4 DEF Fine, Owned
<1>11. ASSUME NEW j \in 1 .. n
       PROVE  Fine(routes[j], bag)
  <2>1. CASE j = r
    BY <1>10, <2>1
  <2>2. CASE j # r
    <3>1. routes[j] = routes2[j] /\ Fine(routes2[j], conns2)
      BY <1>2, <1>3, <2>2
    <3>2. \A c : Copies(c, bag) >= Copies(c, conns2)
      BY <1>8, <1>9
    <3>3. Owned(routes2[j], bag)
      <4>1. Sound(routes2[j]) /\ Owned(routes2[j], conns2) /\ routes2[j].name # routes2[r].name
        BY <1>1, <1>2, <1>3, <2>2, <3>1 DEF Fine, Distinct
      <4>2. OthersKept(routes2[r].name, bag, conns2)
        <5> SUFFICES ASSUME NEW c \in Conns, c.route # routes2[r].name
                     PROVE  Copies(c, bag) = Copies(c, conns2)
          BY DEF OthersKept
        <5>1. c # conn
          OBVIOUS
        <5>2. Copies(c, bag) = Copies(c, conns2) + 0 /\ Copies(c, conns2) \in Nat
          BY <1>8, <1>9, <5>1
        <5> QED BY <5>2
      <4> QED BY <1>2, <1>8, <4>1, <4>2, OwnedKept
    <3> QED BY <3>1, <3>3 DEF Fine
  <2> QED BY <2>1, <2>2
<1>12. ASSUME NEW q
       PROVE  Cardinality(PassSet(routes, q)) = Cardinality(PassSet(routes2, q)) + Passes(nodes, q) - Passes(old, q)
  <2> DEFINE A == PassSet(routes2, q)
             B == PassSet(routes, q)
  <2>1. A \in SUBSET (1 .. n) /\ B \in SUBSET (1 .. n) /\ Cardinality(A) \in Nat /\ Cardinality(B) \in Nat
    BY <1>1, <1>2, <1>3, PassSetIsNat
  <2>2. \A j \in 1 .. n : j # r => (j \in A <=> j \in B)
    BY <1>1, <1>3 DEF PassSet
  <2>3. Passes(nodes, q) = (IF r \in B THEN 1 ELSE 0) /\ Passes(old, q) = (IF r \in A THEN 1 ELSE 0)
    BY <1>1, <1>3 DEF PassSet, Passes
  <2> HIDE DEF A, B
  <2>4. Cardinality(A) + (IF r \in B THEN 1 ELSE 0) = Cardinality(B) + (IF r \in A THEN 1 ELSE 0)
    <3>1. r \in 1 .. n
      BY <1>3
    <3>2. n \in Nat /\ A \in SUBSET (1 .. n) /\ B \in SUBSET (1 .. n)
      BY <2>1
    <3> QED BY ONLY <2>2, <3>1, <3>2, SetChanged
  <2>5. Cardinality(B) = Cardinality(A) + Passes(nodes, q) - Passes(old, q)
    BY <2>1, <2>3, <2>4
  <2> QED BY <2>5 DEF A, B
<1>13. Counted(stops, routes)
  <2> SUFFICES ASSUME NEW s \in 1 .. m
               PROVE  stops[s].numRoutes = Cardinality(PassSet(routes, stops[s].name))
    BY <1>4 DEF Counted
  <2>1. stops2[s].numRoutes = Cardinality(PassSet(routes2, stops2[s].name))
    BY <1>1, <1>2 DEF Counted
  <2> QED BY <1>4, <1>12, <2>1
<1>14. ASSUME NEW q, Known(stops2, q)
       PROVE  Known(stops, q)
  BY <1>1, <1>4, <1>14 DEF Known
<1>15. Served(stops, routes)
  <2> SUFFICES ASSUME NEW j \in 1 .. n, NEW q, Times(StopsOf(routes[j].nodes), q) > 0
               PROVE  Known(stops, q)
    BY <1>3 DEF Served
  <2>1. CASE j = r
    <3>1. Times(StopsOf(routes2[r].nodes), q) > 0 \/ Known(stops2, q)
      BY <1>3, <2>1
    <3> QED BY <1>1, <1>2, <1>3, <1>14, <3>1 DEF Served
  <2>2. CASE j # r
    BY <1>1, <1>2, <1>3, <1>14, <2>2 DEF Served
  <2> QED BY <2>1, <2>2
<1>16. Distinct(stops)
  BY <1>1, <1>2, <1>4 DEF Distinct
<1>17. Distinct(routes)
  <2>1. \A j \in 1 .. n : routes[j].name = routes2[j].name
    BY <1>3
  <2> QED BY <1>1, <1>2, <1>3, <2>1 DEF Distinct
<1> QED BY <1>3, <1>4, <1>8, <1>11, <1>13, <1>15, <1>16, <1>17 DEF NetworkOf, bag

LEMMA OneMoreLine ==
  ASSUME NEW s \in StopRecs
  PROVE  LET t == [s EXCEPT !.numRoutes = @ + 1] IN t \in StopRecs /\ t.name = s.name /\ t.numRoutes = s.numRoutes + 1
<1>1. PICK a \in Stops, b \in Nat : s = [name |-> a, numRoutes |-> b] /\ s.name = a /\ s.numRoutes = b
  BY DEF StopRecs
<1>2. [s EXCEPT !.numRoutes = @ + 1] = [name |-> a, numRoutes |-> b + 1]
  BY <1>1
<1> DEFINE t == [s EXCEPT !.numRoutes = @ + 1]
<1>3. t = [name |-> a, numRoutes |-> b + 1] /\ b + 1 \in Nat
  BY <1>2
<1> HIDE DEF t
<1>4. t \in StopRecs /\ t.name = a /\ t.numRoutes = b + 1
  BY <1>3 DEF StopRecs
<1> QED BY <1>1, <1>4 DEF t

\* A stop that comes to a line is counted when it was not on it.
LEMMA CountIs ==
  ASSUME Network, NEW stop, L!IndexOf(stops2, stop) # 0, NEW r \in 1 .. Len(routes2),
         NEW nodes \in Seq(Nodes), NEW k, Joined(routes2[r].nodes, nodes, k, stop)
  PROVE  Gains(L!Count(r, stop), stops2, routes2[r].nodes, nodes)
<1> DEFINE old == routes2[r].nodes
           p == L!IndexOf(stops2, stop)
           new == L!Count(r, stop)
<1>1. PICK m \in Nat : m = Len(stops2) /\ DOMAIN stops2 = 1 .. m /\ \A s \in 1 .. m : stops2[s] \in StopRecs
  BY NetworkHas, LenProperties
<1>2. p \in 1 .. m /\ stops2[p].name = stop
  BY <1>1, NetworkHas, IndexOfFacts
<1>3. old \in Seq(Nodes)
  <2>1. routes2[r] \in RouteRecs
    BY NetworkHas, LenProperties
  <2> QED BY <2>1 DEF RouteRecs
<1>4. StopsOf(old) \in Seq(Stops) /\ StopsOf(nodes) \in Seq(Stops) /\ L!StopInRoute(old, stop) = Times(StopsOf(old), stop)
  BY <1>3, StopsFacts
<1>5. /\ \A q : Times(StopsOf(nodes), q) = Times(StopsOf(old), q) + IF q = stop THEN 1 ELSE 0
      /\ \A q : Times(StopsOf(old), q) \in Nat
  BY <1>4, InsertedTimes, TimesBound DEF Joined
<1>6. \A q : /\ q # stop => Passes(nodes, q) = Passes(old, q)
             /\ Passes(nodes, stop) = 1
             /\ Passes(old, q) \in {0, 1}
  BY <1>5 DEF Passes
<1>7. \A s \in 1 .. m : stops2[s].numRoutes \in Nat /\ (s # p => stops2[s].name # stop)
  <2>1. \A s \in 1 .. m : stops2[s].numRoutes \in Nat
    BY <1>1 DEF StopRecs
  <2>2. \A s \in 1 .. m : s # p => stops2[s].name # stop
    BY <1>1, <1>2, NetworkHas DEF Distinct
  <2> QED BY <2>1, <2>2
<1>8. new = IF Times(StopsOf(old), stop) > 0 THEN stops2 ELSE [stops2 EXCEPT ![p].numRoutes = @ + 1]
  BY <1>4, Zenon DEF L!Count
<1> HIDE DEF p, old
<1>9. CASE Times(StopsOf(old), stop) > 0
  <2>1. new = stops2
    BY <1>8, <1>9
  <2>2. \A q : Passes(nodes, q) = Passes(old, q)
    BY <1>6, <1>9 DEF Passes
  <2>3. ASSUME NEW s \in 1 .. m
        PROVE  stops2[s].numRoutes = stops2[s].numRoutes + Passes(nodes, stops2[s].name) - Passes(old, stops2[s].name)
    <3>1. /\ Passes(nodes, stops2[s].name) = Passes(old, stops2[s].name) /\ Passes(old, stops2[s].name) \in {0, 1}
          /\ stops2[s].numRoutes \in Nat
      BY <1>6, <1>7, <2>2
    <3> QED BY <3>1
  <2> HIDE DEF new
  <2> QED BY <1>1, <2>1, <2>3, NetworkHas DEF Gains, new, old
<1>10. CASE ~(Times(StopsOf(old), stop) > 0)
  <2>1. new = [stops2 EXCEPT ![p] = [stops2[p] EXCEPT !.numRoutes = @ + 1]]
    BY <1>8, <1>10
  <2> DEFINE t == [stops2[p] EXCEPT !.numRoutes = @ + 1]
  <2>2. t \in StopRecs /\ t.name = stops2[p].name /\ t.numRoutes = stops2[p].numRoutes + 1
    BY <1>1, <1>2, OneMoreLine
  <2> HIDE DEF t
  <2>3. new = [stops2 EXCEPT ![p] = t]
    BY <2>1 DEF t
  <2> HIDE DEF new
  <2>4. /\ new \in Seq(StopRecs) /\ Len(new) = m
        /\ new[p] = t /\ \A s \in 1 .. m : s # p => new[s] = stops2[s]
    <3>1. new \in [1 .. m -> StopRecs] /\ new[p] = t /\ \A s \in 1 .. m : s # p => new[s] = stops2[s]
      BY <1>1, <1>2, <2>2, <2>3
    <3> QED BY <3>1, LenProperties
  <2>5. ASSUME NEW s \in 1 .. m
        PROVE  /\ new[s].name = stops2[s].name
               /\ new[s].numRoutes = stops2[s].numRoutes + Passes(nodes, stops2[s].name) - Passes(old, stops2[s].name)
    <3>1. CASE s = p
      <4>1. Passes(old, stop) = 0
        BY <1>10 DEF Passes
      <4>2. new[s].name = stop /\ new[s].numRoutes = stops2[s].numRoutes + 1 /\ stops2[s].name = stop
            /\ Passes(nodes, stop) = 1 /\ stops2[s].numRoutes \in Nat
        BY <1>2, <1>6, <1>7, <2>2, <2>4, <3>1
      <4> QED BY <4>1, <4>2
    <3>2. CASE s # p
      <4>1. new[s] = stops2[s] /\ stops2[s].numRoutes \in Nat
            /\ Passes(nodes, stops2[s].name) = Passes(old, stops2[s].name) /\ Passes(old, stops2[s].name) \in {0, 1}
        BY <1>6, <1>7, <2>4, <3>2
      <4> QED BY <4>1
    <3> QED BY <3>1, <3>2
  <2> QED BY <1>1, <2>4, <2>5 DEF Gains, new, old
<1> QED BY <1>9, <1>10

FirstCounted(new, stops, a, b) ==
  new = [s \in DOMAIN stops |-> IF stops[s].name \in {a, b} THEN [stops[s] EXCEPT !.numRoutes = @ + 1] ELSE stops[s]]

LEMMA FirstCountedAt ==
  ASSUME NEW stops, NEW m \in Nat, DOMAIN stops = 1 .. m, \A s \in 1 .. m : stops[s] \in StopRecs,
         NEW a, NEW b, NEW new, FirstCounted(new, stops, a, b)
  PROVE  /\ new \in [1 .. m -> StopRecs]
         /\ \A s \in 1 .. m : /\ new[s].name = stops[s].name
                              /\ new[s].numRoutes = stops[s].numRoutes + IF stops[s].name \in {a, b} THEN 1 ELSE 0
<1>1. ASSUME NEW s \in 1 .. m
      PROVE  /\ new[s] \in StopRecs /\ new[s].name = stops[s].name
             /\ new[s].numRoutes = stops[s].numRoutes + IF stops[s].name \in {a, b} THEN 1 ELSE 0
  <2>1. stops[s] \in StopRecs /\ stops[s].numRoutes \in Nat
    BY DEF StopRecs
  <2> DEFINE t == [stops[s] EXCEPT !.numRoutes = @ + 1]
  <2>2. t \in StopRecs /\ t.name = stops[s].name /\ t.numRoutes = stops[s].numRoutes + 1
    BY <2>1, OneMoreLine
  <2>3. new[s] = IF stops[s].name \in {a, b} THEN t ELSE stops[s]
    BY DEF FirstCounted
  <2> HIDE DEF t
  <2>4. CASE stops[s].name \in {a, b}
    BY <2>2, <2>3, <2>4
  <2>5. CASE stops[s].name \notin {a, b}
    <3>1. PICK v \in Nat : v = stops[s].numRoutes
      BY <2>1
    <3>2. new[s] = stops[s]
      BY <2>3, <2>5
    <3>3. v + 0 = v
      OBVIOUS
    <3> QED BY <2>1, <2>5, <3>1, <3>2, <3>3
  <2> QED BY <2>4, <2>5
<1>2. DOMAIN new = 1 .. m /\ new = [s \in DOMAIN new |-> new[s]]
  BY Zenon DEF FirstCounted
<1>3. new \in [1 .. m -> StopRecs]
  BY ONLY <1>1, <1>2
<1> QED BY <1>1, <1>3

\* The first connection of a line: both its stops are on one line more.
LEMMA CountFirst ==
  ASSUME Network, NEW r \in 1 .. Len(routes2), routes2[r].nodes = << >>, NEW nodes \in Seq(Nodes), Len(nodes) = 2,
         NEW a, NEW b, nodes[1].stop = a, nodes[2].stop = b, NEW new, FirstCounted(new, stops2, a, b)
  PROVE  Gains(new, stops2, routes2[r].nodes, nodes)
<1>1. PICK m \in Nat : m = Len(stops2) /\ DOMAIN stops2 = 1 .. m /\ \A s \in 1 .. m : stops2[s] \in StopRecs
  BY NetworkHas, LenProperties
<1>2. StopsOf(nodes) \in Seq(Stops) /\ Len(StopsOf(nodes)) = 2 /\ StopsOf(nodes)[1] = a /\ StopsOf(nodes)[2] = b
  BY StopsFacts
<1>3. \A q : Passes(nodes, q) = IF q \in {a, b} THEN 1 ELSE 0
  <2> SUFFICES ASSUME NEW q
               PROVE  Passes(nodes, q) = IF q \in {a, b} THEN 1 ELSE 0
    OBVIOUS
  <2>1. /\ Times(StopsOf(nodes), q) \in Nat
        /\ Times(StopsOf(nodes), q) = 0 <=> \A i \in 1 .. 2 : StopsOf(nodes)[i] # q
    BY <1>2, TimesBound
  <2>2. (\A i \in 1 .. 2 : StopsOf(nodes)[i] # q) <=> q \notin {a, b}
    <3>1. \A i \in 1 .. 2 : i = 1 \/ i = 2
      OBVIOUS
    <3>2. 1 \in 1 .. 2 /\ 2 \in 1 .. 2
      OBVIOUS
    <3> QED BY <1>2, <3>1, <3>2
  <2> QED BY <2>1, <2>2 DEF Passes
<1>4. \A q : Passes(routes2[r].nodes, q) = 0
  <2>1. \A q : Times(StopsOf(<< >>), q) = 0
    BY NoNodes
  <2> QED BY <2>1 DEF Passes
<1>5. new \in [1 .. m -> StopRecs] /\ \A s \in 1 .. m : new[s].name = stops2[s].name
  <2>1. new \in [1 .. m -> StopRecs]
    BY ONLY <1>1, FirstCounted(new, stops2, a, b), FirstCountedAt, Zenon
  <2>2. \A s \in 1 .. m : new[s].name = stops2[s].name
    BY ONLY <1>1, FirstCounted(new, stops2, a, b), FirstCountedAt
  <2> QED BY <2>1, <2>2
<1>6. \A s \in 1 .. m : new[s].numRoutes = stops2[s].numRoutes + IF stops2[s].name \in {a, b} THEN 1 ELSE 0
  BY ONLY <1>1, FirstCounted(new, stops2, a, b), FirstCountedAt
<1>7. new \in Seq(StopRecs) /\ Len(new) = m
  BY ONLY <1>1, <1>5, LenProperties, SeqDef
<1>8. ASSUME NEW s \in 1 .. m
      PROVE  new[s].numRoutes = stops2[s].numRoutes + Passes(nodes, stops2[s].name) - Passes(routes2[r].nodes, stops2[s].name)
  <2>1. PICK v \in Nat : v = stops2[s].numRoutes
    BY <1>1 DEF StopRecs
  <2>2. PICK w \in {0, 1} : w = Passes(nodes, stops2[s].name) /\ new[s].numRoutes = v + w
    BY <1>3, <1>6, <2>1
  <2>3. v + w = v + w - 0
    OBVIOUS
  <2> QED BY <1>4, <2>1, <2>2, <2>3
<1> QED BY <1>1, <1>5, <1>7, <1>8 DEF Gains

LEMMA KnownIs ==
  ASSUME NEW stops \in Seq(StopRecs), NEW q
  PROVE  Known(stops, q) <=> L!IndexOf(stops, q) # 0
<1>1. /\ L!IndexOf(stops, q) \in 0 .. Len(stops) /\ Len(stops) \in Nat
      /\ L!IndexOf(stops, q) # 0 => stops[L!IndexOf(stops, q)].name = q
      /\ L!IndexOf(stops, q) = 0 => \A j \in 1 .. Len(stops) : stops[j].name # q
  BY IndexOfFacts
<1>2. PICK k : k = L!IndexOf(stops, q)
  OBVIOUS
<1> QED BY <1>1, <1>2 DEF Known

\* A line on which the new connection can be.
Grows(r, conn) ==
  /\ Network /\ r \in 1 .. Len(routes2) /\ conn \in Conns /\ conn.route = routes2[r].name
  /\ L!IndexOf(stops2, conn.start) # 0 /\ L!IndexOf(stops2, conn.end) # 0
  /\ conns2' = L!(+)(conns2, L!SetToBag({conn}))

LEMMA GrowsHas ==
  ASSUME NEW r, NEW conn, Grows(r, conn)
  PROVE  /\ Network /\ r \in 1 .. Len(routes2) /\ conn \in Conns /\ conn.route = routes2[r].name
         /\ L!IndexOf(stops2, conn.start) # 0 /\ L!IndexOf(stops2, conn.end) # 0
         /\ Known(stops2, conn.start) /\ Known(stops2, conn.end)
         /\ conns2' = L!(+)(conns2, L!SetToBag({conn}))
         /\ conn.cost \in Nat /\ routes2 \in Seq(RouteRecs)
         /\ routes2[r].nodes \in Seq(Nodes) /\ Len(routes2[r].nodes) \in Nat
         /\ Path(routes2[r].nodes, routes2[r].name) /\ Len(routes2[r].nodes) # 1
         /\ routes2[r].numStops = Len(routes2[r].nodes)
<1>1. Network /\ r \in 1 .. Len(routes2) /\ conn \in Conns
  BY DEF Grows
<1>2. stops2 \in Seq(StopRecs) /\ routes2 \in Seq(RouteRecs) /\ Fine(routes2[r], conns2)
  BY <1>1, NetworkHas
<1>3. conn.cost \in Nat
  BY <1>1 DEF Conns
<1>4. Sound(routes2[r]) /\ Len(routes2[r].nodes) # 1
  BY <1>2 DEF Fine
<1>5. Path(routes2[r].nodes, routes2[r].name) /\ routes2[r].numStops = Len(routes2[r].nodes)
  BY <1>4 DEF Sound
<1>6. routes2[r].nodes \in Seq(Nodes) /\ Len(routes2[r].nodes) \in Nat
  BY <1>5, PathHas
<1>7. /\ L!IndexOf(stops2, conn.start) # 0 /\ L!IndexOf(stops2, conn.end) # 0 /\ conn.route = routes2[r].name
      /\ conns2' = L!(+)(conns2, L!SetToBag({conn}))
  BY DEF Grows
<1>8. Known(stops2, conn.start) /\ Known(stops2, conn.end)
  BY <1>2, <1>7, KnownIs
<1> QED BY <1>1, <1>2, <1>3, <1>4, <1>5, <1>6, <1>7, <1>8

\* What is known of a line that grew.
LEMMA Grown ==
  ASSUME NEW r, NEW conn, Grows(r, conn), NEW nodes, Path(nodes, conn.route), Len(nodes) > 1,
         NEW k, Inserted(Used(routes2[r].nodes), Used(nodes), k, conn),
         L!Extend(r, nodes, conn.cost), Gains(stops2', stops2, routes2[r].nodes, nodes),
         \A q : Times(StopsOf(nodes), q) > 0 => Times(StopsOf(routes2[r].nodes), q) > 0 \/ Known(stops2, q)
  PROVE  Network'
<1>1. /\ Network /\ r \in 1 .. Len(routes2) /\ conn \in Conns /\ conn.route = routes2[r].name
      /\ conns2' = L!(+)(conns2, L!SetToBag({conn}))
      /\ conn.cost \in Nat /\ routes2 \in Seq(RouteRecs)
  BY GrowsHas
<1>2. nodes \in Seq(Nodes)
  BY DEF Path
<1>3. Extended(routes2', routes2, r, nodes, conn.cost)
  BY <1>1, <1>2, ExtendIs
<1>4. Path(nodes, routes2[r].name)
  BY <1>1
<1>5. NetworkOf(stops2', routes2', L!(+)(conns2, L!SetToBag({conn})))
  BY <1>1, <1>3, <1>4, NetworkLinked
<1>6. NetworkOf(stops2', routes2', conns2')
  BY <1>1, <1>5, Zenon
<1> QED BY <1>6, Zenon DEF Network

\* addInitialStopsToRoute keeps the network.
LEMMA LinkFirstKeeps ==
  ASSUME NEW r, NEW conn, Grows(r, conn), L!LinkFirst(r, conn)
  PROVE  Network'
<1>1. /\ Network /\ r \in 1 .. Len(routes2) /\ conn \in Conns /\ conn.route = routes2[r].name
      /\ Known(stops2, conn.start) /\ Known(stops2, conn.end)
  BY GrowsHas
<1>2. PICK nodes : TheFirst(nodes, conn)
  BY Zenon DEF TheFirst
<1>3. routes2[r].nodes = << >> /\ L!Extend(r, nodes, conn.cost) /\ FirstCounted(stops2', stops2, conn.start, conn.end)
  <2>1. /\ routes2[r].nodes = << >>
        /\ L!Extend(r, <<[L!NewNode(conn.start) EXCEPT !.right = conn],
                         [L!NewNode(conn.end) EXCEPT !.back = "node", !.left = conn]>>, conn.cost)
        /\ stops2' = [s \in DOMAIN stops2 |-> IF stops2[s].name \in {conn.start, conn.end}
                                              THEN [stops2[s] EXCEPT !.numRoutes = @ + 1] ELSE stops2[s]]
    BY Zenon DEF L!LinkFirst
  <2>2. L!Extend(r, nodes, conn.cost)
    BY <1>2, <2>1, Zenon DEF TheFirst
  <2> QED BY <2>1, <2>2, Zenon DEF FirstCounted
<1>4. /\ Path(nodes, conn.route) /\ Len(nodes) = 2 /\ nodes[1].stop = conn.start /\ nodes[2].stop = conn.end
      /\ Len(Used(nodes)) = 1 /\ Used(nodes)[1] = conn
  BY <1>1, <1>2, PathFirst
<1>5. nodes \in Seq(Nodes)
  BY <1>4 DEF Path
<1>6. Inserted(Used(routes2[r].nodes), Used(nodes), 1, conn)
  <2>1. Path(<< >>, conn.route) /\ Len(<< >>) = 0
    BY NoNodes
  <2>2. Len(Used(<< >>)) = 0
    BY <2>1, UsedFacts
  <2>3. Inserted(Used(<< >>), Used(nodes), 1, conn)
    BY <1>4, <2>2 DEF Inserted
  <2> QED BY <1>3, <2>3
<1>7. Gains(stops2', stops2, routes2[r].nodes, nodes)
  BY <1>1, <1>3, <1>4, <1>5, CountFirst
<1>8. ASSUME NEW q, Times(StopsOf(nodes), q) > 0
      PROVE  Known(stops2, q)
  <2>1. StopsOf(nodes) \in Seq(Stops) /\ Len(StopsOf(nodes)) = 2
        /\ StopsOf(nodes)[1] = conn.start /\ StopsOf(nodes)[2] = conn.end
    BY <1>4, <1>5, StopsFacts
  <2>2. /\ Times(StopsOf(nodes), q) \in Nat
        /\ Times(StopsOf(nodes), q) = 0 <=> \A i \in 1 .. 2 : StopsOf(nodes)[i] # q
    BY ONLY <2>1, TimesBound
  <2>3. PICK i \in 1 .. 2 : StopsOf(nodes)[i] = q
    BY <1>8, <2>2
  <2>4. i = 1 \/ i = 2
    OBVIOUS
  <2> QED BY <1>1, <2>1, <2>3, <2>4
<1>9. Len(nodes) > 1
  BY <1>4
<1> QED BY <1>3, <1>4, <1>6, <1>7, <1>8, <1>9, Grown

\* The stops of a line that got one more.
LEMMA JoinedKnown ==
  ASSUME NEW old \in Seq(Nodes), NEW new \in Seq(Nodes), NEW k, NEW stop, Joined(old, new, k, stop), NEW q,
         Times(StopsOf(new), q) > 0
  PROVE  Times(StopsOf(old), q) > 0 \/ q = stop
<1>1. StopsOf(old) \in Seq(Stops) /\ StopsOf(new) \in Seq(Stops)
  BY StopsFacts
<1>2. Times(StopsOf(new), q) = Times(StopsOf(old), q) + (IF q = stop THEN 1 ELSE 0) /\ Times(StopsOf(old), q) \in Nat
  BY <1>1, InsertedTimes, TimesBound DEF Joined
<1> QED BY <1>2

LEMMA LastIs ==
  ASSUME NEW seq
  PROVE  L!Last(seq) = seq[Len(seq)]
BY Zenon DEF L!Last

\* addStopToRouteEnd keeps the network.
LEMMA LinkEndKeeps ==
  ASSUME NEW r, NEW conn, Grows(r, conn), L!LinkEnd(r, conn)
  PROVE  Network'
<1> DEFINE old == routes2[r].nodes
<1>1. /\ Network /\ r \in 1 .. Len(routes2) /\ conn \in Conns /\ conn.route = routes2[r].name
      /\ L!IndexOf(stops2, conn.end) # 0 /\ Known(stops2, conn.end)
      /\ old \in Seq(Nodes) /\ Path(old, conn.route)
  BY GrowsHas
<1>2. PICK n \in Nat : n = Len(old)
  BY GrowsHas
<1>3. PICK nodes : OneMore(nodes, old, conn)
  BY Zenon DEF OneMore
<1>4. old # << >> /\ L!Last(old).stop = conn.start /\ L!Extend(r, nodes, conn.cost) /\ stops2' = L!Count(r, conn.end)
  <2>1. /\ old # << >> /\ L!Last(old).stop = conn.start
        /\ L!Extend(r, Append([old EXCEPT ![Len(old)].right = conn],
                              [L!NewNode(conn.end) EXCEPT !.back = "node", !.left = conn]), conn.cost)
        /\ stops2' = L!Count(r, conn.end)
    BY Zenon DEF L!LinkEnd
  <2> QED BY <1>3, <2>1, Zenon DEF OneMore
<1> HIDE DEF old
<1>5. n > 0
  BY <1>1, <1>2, <1>4, EmptySeq
<1>6. old[n].stop = conn.start
  BY <1>2, <1>4, LastIs
<1>7. Path(nodes, conn.route) /\ Joined(old, nodes, n + 1, conn.end) /\ Inserted(Used(old), Used(nodes), n, conn)
  BY <1>1, <1>2, <1>3, <1>5, <1>6, PathEnd
<1>8. nodes \in Seq(Nodes)
  BY <1>7 DEF Path
<1>9. Gains(stops2', stops2, old, nodes)
  <2>1. Gains(L!Count(r, conn.end), stops2, old, nodes)
    BY <1>1, <1>7, <1>8, CountIs DEF old
  <2> QED BY <1>4, <2>1, Zenon
<1>10. \A q : Times(StopsOf(nodes), q) > 0 => Times(StopsOf(old), q) > 0 \/ Known(stops2, q)
  BY <1>1, <1>7, <1>8, JoinedKnown
<1>11. Len(nodes) > 1
  BY <1>2, <1>5, <1>7 DEF Joined
<1> QED BY <1>4, <1>7, <1>9, <1>10, <1>11, Grown DEF old

\* addStopToRouteBeginning keeps the network.
LEMMA LinkBeginningKeeps ==
  ASSUME NEW r, NEW conn, Grows(r, conn), L!LinkBeginning(r, conn),
         routes2[r].numStops # 0 => routes2[r].nodes[1].stop = conn.end \/ L!Last(routes2[r].nodes).stop = conn.start
  PROVE  Network'
<1> DEFINE old == routes2[r].nodes
<1>1. /\ Network /\ r \in 1 .. Len(routes2) /\ conn \in Conns /\ conn.route = routes2[r].name
      /\ L!IndexOf(stops2, conn.start) # 0 /\ Known(stops2, conn.start)
      /\ old \in Seq(Nodes) /\ Path(old, conn.route) /\ routes2[r].numStops = Len(old)
  BY GrowsHas
<1>2. PICK n \in Nat : n = Len(old)
  BY GrowsHas
<1>3. PICK nodes : OneBefore(nodes, old, conn)
  BY Zenon DEF OneBefore
<1>4. old # << >> /\ L!Last(old).stop # conn.start /\ L!Extend(r, nodes, conn.cost) /\ stops2' = L!Count(r, conn.start)
  <2>1. /\ old # << >> /\ L!Last(old).stop # conn.start
        /\ L!Extend(r, <<[L!NewNode(conn.start) EXCEPT !.right = conn]>>
                         \o [old EXCEPT ![1].left = conn, ![1].back = "node"], conn.cost)
        /\ stops2' = L!Count(r, conn.start)
    BY Zenon DEF L!LinkBeginning
  <2> QED BY <1>3, <2>1, Zenon DEF OneBefore
<1>5. n > 0
  BY <1>1, <1>2, <1>4, EmptySeq
<1>6. old[1].stop = conn.end
  <2>1. Len(old) # 0
    BY <1>2, <1>5
  <2>2. routes2[r].numStops # 0
    BY <1>1, <2>1
  <2> QED BY <1>4, <2>2
<1> HIDE DEF old
<1>7. Path(nodes, conn.route) /\ Joined(old, nodes, 1, conn.start) /\ Inserted(Used(old), Used(nodes), 1, conn)
  BY <1>1, <1>2, <1>3, <1>5, <1>6, PathBeginning
<1>8. nodes \in Seq(Nodes)
  BY <1>7 DEF Path
<1>9. Gains(stops2', stops2, old, nodes)
  <2>1. Gains(L!Count(r, conn.start), stops2, old, nodes)
    BY <1>1, <1>7, <1>8, CountIs DEF old
  <2> QED BY <1>4, <2>1, Zenon
<1>10. \A q : Times(StopsOf(nodes), q) > 0 => Times(StopsOf(old), q) > 0 \/ Known(stops2, q)
  BY <1>1, <1>7, <1>8, JoinedKnown
<1>11. Len(nodes) > 1
  BY <1>2, <1>5, <1>7 DEF Joined
<1> QED BY <1>4, <1>7, <1>9, <1>10, <1>11, Grown DEF old

\* connectionsCommand keeps the network.
LEMMA LinkKeeps ==
  ASSUME Network, NEW route \in Lines, NEW from \in Stops, NEW to \in Stops, NEW cost \in Nat,
         L!Link(route, from, to, cost)
  PROVE  Network'
<1> DEFINE r == L!IndexOf(routes2, route)
           conn == L!NewConn(route, from, to, cost)
<1>1. /\ L!LinkValid(route, from, to) /\ conns2' = L!(+)(conns2, L!SetToBag({conn}))
      /\ L!LinkFirst(r, conn) \/ L!LinkEnd(r, conn) \/ L!LinkBeginning(r, conn)
  BY Zenon DEF L!Link
<1>2. /\ r # 0 /\ L!IndexOf(stops2, from) # 0 /\ L!IndexOf(stops2, to) # 0
      /\ routes2[r].numStops # 0 => routes2[r].nodes[1].stop = to \/ L!Last(routes2[r].nodes).stop = from
  BY <1>1, Zenon DEF L!LinkValid, L!Exists
<1>3. conn \in Conns /\ conn.route = route /\ conn.start = from /\ conn.end = to
  BY DEF L!NewConn, Conns
<1>4. r \in 1 .. Len(routes2) /\ routes2[r].name = route
  BY <1>2, NetworkHas, IndexOfFacts
<1> HIDE DEF r, conn
<1>5. Grows(r, conn)
  BY <1>1, <1>2, <1>3, <1>4 DEF Grows
<1>6. routes2[r].numStops # 0 => routes2[r].nodes[1].stop = conn.end \/ L!Last(routes2[r].nodes).stop = conn.start
  BY <1>2, <1>3
<1> QED BY <1>1, <1>5, <1>6, LinkFirstKeeps, LinkEndKeeps, LinkBeginningKeeps

------------------------------------------------------------------------------
(* The removal of a line.                                                       *)
\* An element is once in a sequence.
LEMMA OnceIs ==
  ASSUME NEW S, NEW s \in Seq(S), NEW c, Len(s) > 0, s[1] = c
  PROVE  Times(s, c) = 1 <=> \A j \in 2 .. Len(s) : s[j] # c
<1> DEFINE Y == {i \in DOMAIN s : s[i] = c}
<1>1. DOMAIN s = 1 .. Len(s) /\ Len(s) \in Nat
  BY LenProperties
<1>2. Y \in SUBSET (1 .. Len(s)) /\ 1 \in Y /\ \A i \in 1 .. Len(s) : i \in Y <=> s[i] = c
  BY <1>1
<1>3. Times(s, c) = Cardinality(Y)
  BY Zenon DEF Times
<1> HIDE DEF Y
<1>4. IsFiniteSet(Y)
  BY <1>1, <1>2, PartOfInterval
<1>5. Cardinality(Y) = 1 <=> \E x : Y = {x}
  BY <1>4, FS_Singleton
<1>6. ASSUME \A j \in 2 .. Len(s) : s[j] # c
      PROVE  Y = {1}
  <2>1. ASSUME NEW i \in Y
        PROVE  i = 1
    <3>1. i \in 1 .. Len(s) /\ s[i] = c
      BY <1>2, <2>1
    <3>2. i = 1 \/ i \in 2 .. Len(s)
      BY <1>1, <3>1
    <3> QED BY <1>6, <3>1, <3>2
  <2> QED BY <1>2, <2>1
<1>7. ASSUME NEW x, Y = {x}, NEW j \in 2 .. Len(s)
      PROVE  s[j] # c
  <2>1. x = 1 /\ j # 1 /\ j \in 1 .. Len(s)
    BY <1>1, <1>2, <1>7
  <2>2. j \notin Y
    BY <1>7, <2>1
  <2> QED BY <1>2, <2>1, <2>2
<1> QED BY <1>3, <1>5, <1>6, <1>7

\* The nodes at which freeRouteNode takes the line off the count of a stop.
LastOnes(nodes, s) == {i \in DOMAIN nodes : nodes[i].stop = s /\ L!StopInRoute(SubSeq(nodes, i, Len(nodes)), s) = 1}
Lost(nodes, s) == L!Cardinality(LastOnes(nodes, s))

LEMMA RestOf ==
  ASSUME NEW nodes \in Seq(Nodes), NEW n \in Nat, n = Len(nodes), NEW i \in 1 .. n
  PROVE  /\ SubSeq(nodes, i, n) \in Seq(Nodes) /\ Len(SubSeq(nodes, i, n)) = n - i + 1
         /\ \A k \in 1 .. n - i + 1 : SubSeq(nodes, i, n)[k] = nodes[i + k - 1]
<1>1. \A k \in i .. n : nodes[k] \in Nodes
  <2>1. \A k \in i .. n : k \in 1 .. n
    OBVIOUS
  <2> QED BY <2>1, NodesFacts
<1>2. i \in Int /\ n \in Int /\ i <= n
  OBVIOUS
<1> QED BY <1>1, <1>2, SubSeqProperties

LEMMA LastOnesAre ==
  ASSUME NEW nodes \in Seq(Nodes), NEW n \in Nat, n = Len(nodes), NEW i \in 1 .. n, NEW s, nodes[i].stop = s
  PROVE  i \in LastOnes(nodes, s) <=> \A j \in i + 1 .. n : nodes[j].stop # s
<1> DEFINE t == SubSeq(nodes, i, n)
           m == n - i + 1
<1>1. t \in Seq(Nodes) /\ Len(t) = m /\ \A k \in 1 .. m : t[k] = nodes[i + k - 1]
  BY RestOf
<1>2. i \in LastOnes(nodes, s) <=> L!StopInRoute(t, s) = 1
  <2>1. i \in DOMAIN nodes
    BY NodesFacts
  <2> QED BY <2>1 DEF LastOnes
<1>3. m \in Nat /\ m > 0 /\ i + 1 - 1 = i
  OBVIOUS
<1> HIDE DEF t
<1>4. t[1] = nodes[i]
  BY <1>1, <1>3
<1>5. StopsOf(t) \in Seq(Stops) /\ Len(StopsOf(t)) = m /\ L!StopInRoute(t, s) = Times(StopsOf(t), s)
  BY <1>1, StopsFacts
<1>6. \A k \in 1 .. m : StopsOf(t)[k] = t[k].stop
  BY <1>1, StopsFacts
<1>7. StopsOf(t)[1] = s
  BY <1>3, <1>4, <1>6
<1>8. Times(StopsOf(t), s) = 1 <=> \A j \in 2 .. m : StopsOf(t)[j] # s
  <2>1. Len(StopsOf(t)) > 0
    BY <1>3, <1>5
  <2> HIDE DEF m
  <2> QED BY <1>5, <1>7, <2>1, OnceIs
<1>9. (\A j \in 2 .. m : StopsOf(t)[j] # s) <=> \A j \in i + 1 .. n : nodes[j].stop # s
  <2>1. ASSUME \A j \in 2 .. m : StopsOf(t)[j] # s, NEW j \in i + 1 .. n
        PROVE  nodes[j].stop # s
    <3>1. PICK k \in 2 .. m : k = j - i + 1 /\ i + k - 1 = j
      OBVIOUS
    <3>2. k \in 1 .. m
      OBVIOUS
    <3> QED BY <1>1, <1>6, <2>1, <3>1, <3>2
  <2>2. ASSUME \A j \in i + 1 .. n : nodes[j].stop # s, NEW j \in 2 .. m
        PROVE  StopsOf(t)[j] # s
    <3>1. j \in 1 .. m /\ i + j - 1 \in i + 1 .. n
      OBVIOUS
    <3> QED BY <1>1, <1>6, <2>2, <3>1
  <2> QED BY <2>1, <2>2
<1> QED BY <1>2, <1>5, <1>8, <1>9

\* freeRouteNode takes the line once off the count of each stop it passes.
LEMMA LostIs ==
  ASSUME NEW nodes \in Seq(Nodes), NEW s
  PROVE  Lost(nodes, s) = Passes(nodes, s)
<1>1. PICK n \in Nat : n = Len(nodes) /\ DOMAIN nodes = 1 .. n
  BY NodesFacts
<1> DEFINE A == {i \in 1 .. n : nodes[i].stop = s}
<1>2. StopsOf(nodes) \in Seq(Stops) /\ Len(StopsOf(nodes)) = n /\ \A i \in 1 .. n : StopsOf(nodes)[i] = nodes[i].stop
  BY <1>1, StopsFacts
<1>3. /\ Times(StopsOf(nodes), s) \in Nat
      /\ Times(StopsOf(nodes), s) = 0 <=> \A i \in 1 .. n : StopsOf(nodes)[i] # s
  BY ONLY <1>2, TimesBound
<1>4. Passes(nodes, s) = IF A = {} THEN 0 ELSE 1
  BY <1>2, <1>3 DEF Passes
<1>5. LastOnes(nodes, s) \subseteq A
  BY <1>1 DEF LastOnes
<1>6. A \in SUBSET (1 .. n) /\ \A i \in 1 .. n : i \in A <=> nodes[i].stop = s
  OBVIOUS
<1> HIDE DEF A
<1>7. CASE A = {}
  <2>1. LastOnes(nodes, s) = {}
    BY <1>5, <1>7
  <2>2. Cardinality(LastOnes(nodes, s)) = 0
    BY <2>1, FS_EmptySet
  <2>3. Lost(nodes, s) = 0
    BY <2>2, SameCardinality, Zenon DEF Lost
  <2> QED BY <1>4, <1>7, <2>3
<1>8. CASE A # {}
  <2>1. PICK k : k \in A /\ \A y \in A : y <= k
    <3>1. Max(A) \in A /\ \A y \in A : y <= Max(A)
      BY <1>6, <1>8, MaxOfInterval
    <3> QED BY <3>1
  <2>2. k \in 1 .. n
    BY <1>6, <2>1
  <2>3. ASSUME NEW i \in 1 .. n
        PROVE  i \in LastOnes(nodes, s) <=> i = k
    <3>1. CASE i \notin A
      BY <1>5, <2>1, <3>1
    <3>2. CASE i \in A
      <4>1. nodes[i].stop = s
        BY <1>6, <3>2
      <4>2. i \in LastOnes(nodes, s) <=> \A j \in i + 1 .. n : nodes[j].stop # s
        BY <1>1, <4>1, LastOnesAre
      <4>3. i = k => \A j \in i + 1 .. n : nodes[j].stop # s
        <5> SUFFICES ASSUME i = k, NEW j \in i + 1 .. n, nodes[j].stop = s
                     PROVE  FALSE
          OBVIOUS
        <5>1. j \in 1 .. n /\ j > k
          BY <2>2
        <5>2. j \in A
          BY <1>6, <5>1
        <5>3. j <= k
          BY <2>1, <5>2
        <5> QED BY <2>2, <5>1, <5>3
      <4>4. i # k => ~ \A j \in i + 1 .. n : nodes[j].stop # s
        <5> SUFFICES ASSUME i # k
                     PROVE  ~ \A j \in i + 1 .. n : nodes[j].stop # s
          OBVIOUS
        <5>1. i <= k
          BY <2>1, <3>2
        <5>2. k \in i + 1 .. n
          BY <2>2, <5>1
        <5>3. nodes[k].stop = s
          BY <1>6, <2>1, <2>2
        <5> QED BY <5>2, <5>3
      <4> QED BY <4>2, <4>3, <4>4
    <3> QED BY <3>1, <3>2
  <2>4. LastOnes(nodes, s) = {k}
    <3>1. LastOnes(nodes, s) \subseteq 1 .. n
      BY <1>5, <1>6
    <3> QED BY <2>2, <2>3, <3>1
  <2>5. Cardinality(LastOnes(nodes, s)) = 1
    BY <2>4, FS_Singleton
  <2>6. Lost(nodes, s) = 1
    BY <2>5, SameCardinality, Zenon DEF Lost
  <2> QED BY <1>4, <1>8, <2>6
<1> QED BY <1>7, <1>8

\* A stop that is on v lines less.
LessBy(s, v) == [s EXCEPT !.numRoutes = @ - v]
FreedStops(new, stops, nodes) == new = [s \in DOMAIN stops |-> LessBy(stops[s], Lost(nodes, stops[s].name))]
FreedConns(new, conns, name) == new = [c \in {d \in DOMAIN conns : d.route # name} |-> conns[c]]

LEMMA RemoveRouteIs ==
  ASSUME NEW name, L!RemoveRoute(name)
  PROVE  /\ L!IndexOf(routes2, name) # 0
         /\ FreedStops(stops2', stops2, routes2[L!IndexOf(routes2, name)].nodes)
         /\ routes2' = L!RemoveAt(routes2, L!IndexOf(routes2, name))
         /\ FreedConns(conns2', conns2, name)
<1>1. /\ L!Exists(routes2, name) /\ stops2' = L!FreeRoute(L!IndexOf(routes2, name))
      /\ routes2' = L!RemoveAt(routes2, L!IndexOf(routes2, name))
      /\ conns2' = [c \in {d \in DOMAIN conns2 : d.route # name} |-> conns2[c]]
  BY Zenon DEF L!RemoveRoute
<1>2. L!IndexOf(routes2, name) # 0
  BY <1>1, Zenon DEF L!Exists
<1>3. FreedStops(stops2', stops2, routes2[L!IndexOf(routes2, name)].nodes)
  BY <1>1, Zenon DEF L!FreeRoute, FreedStops, LessBy, Lost, LastOnes
<1> QED BY <1>1, <1>2, <1>3, Zenon DEF FreedConns

LEMMA LessByIs ==
  ASSUME NEW s \in StopRecs, NEW w, NEW v \in Nat, s.numRoutes - w = v
  PROVE  LessBy(s, w) \in StopRecs /\ LessBy(s, w).name = s.name /\ LessBy(s, w).numRoutes = v
<1>1. PICK a \in Stops, b \in Nat : s = [name |-> a, numRoutes |-> b] /\ s.name = a /\ s.numRoutes = b
  BY DEF StopRecs
<1>2. LessBy(s, w) = [name |-> a, numRoutes |-> b - w]
  BY <1>1 DEF LessBy
<1>3. LessBy(s, w) = [name |-> a, numRoutes |-> v]
  BY <1>1, <1>2
<1>4. LessBy(s, w) \in StopRecs /\ LessBy(s, w).name = a /\ LessBy(s, w).numRoutes = v
  BY <1>3 DEF StopRecs
<1> QED BY <1>1, <1>4

\* The lines through a stop when one line goes.
LEMMA PassSetLess ==
  ASSUME NEW routes \in Seq(RouteRecs), NEW m \in Nat, m + 1 = Len(routes), NEW p \in 1 .. m + 1, NEW left,
         RemovedAt(left, routes, p, RouteRecs, m), NEW q
  PROVE  Cardinality(PassSet(left, q)) = Cardinality(PassSet(routes, q)) - Passes(routes[p].nodes, q)
<1> DEFINE A == PassSet(routes, q)
           B == PassSet(left, q)
<1>1. left \in Seq(RouteRecs) /\ Len(left) = m /\ \A j \in 1 .. m : left[j] = routes[Beyond(p, j)]
  BY DEF RemovedAt
<1>2. /\ \A j \in 1 .. m : Beyond(p, j) \in 1 .. m + 1 /\ Beyond(p, j) # p
      /\ \A k \in 1 .. m + 1 : k # p => \E j \in 1 .. m : k = Beyond(p, j)
  BY BeyondIs, SMTT(40), ZenonT(40)
<1>3. /\ A \in SUBSET (1 .. m + 1) /\ B \in SUBSET (1 .. m)
      /\ \A k \in 1 .. m + 1 : k \in A <=> Times(StopsOf(routes[k].nodes), q) > 0
      /\ \A j \in 1 .. m : j \in B <=> Times(StopsOf(left[j].nodes), q) > 0
  BY <1>1 DEF PassSet
<1> HIDE DEF A, B
<1>4. \A j \in 1 .. m : j \in B <=> Beyond(p, j) \in A
  BY <1>1, <1>2, <1>3
<1>5. {Beyond(p, j) : j \in B} = A \ {p}
  <2>1. ASSUME NEW j \in B
        PROVE  Beyond(p, j) \in A \ {p}
    BY <1>2, <1>3, <1>4
  <2>2. ASSUME NEW k \in A \ {p}
        PROVE  \E j \in B : k = Beyond(p, j)
    <3>1. PICK j \in 1 .. m : k = Beyond(p, j)
      BY <1>2, <1>3
    <3> QED BY <1>4, <3>1
  <2> QED BY <2>1, <2>2
<1>6. Cardinality({Beyond(p, j) : j \in B}) = Cardinality(B)
  <2>1. p \in Nat
    OBVIOUS
  <2> QED BY <1>3, <2>1, BeyondKeepsSize
<1>7. IsFiniteSet(A) /\ Cardinality(A) \in Nat
  <2>1. m + 1 \in Nat /\ A \in SUBSET (1 .. m + 1)
    BY <1>3
  <2> QED BY ONLY <2>1, PartOfInterval
<1>8. Cardinality(A \ {p}) = IF p \in A THEN Cardinality(A) - 1 ELSE Cardinality(A)
  BY <1>7, FS_RemoveElement
<1>9. Passes(routes[p].nodes, q) = IF p \in A THEN 1 ELSE 0
  BY <1>3 DEF Passes
<1>10. Cardinality(B) = Cardinality(A) - Passes(routes[p].nodes, q)
  <2>1. Cardinality(B) = IF p \in A THEN Cardinality(A) - 1 ELSE Cardinality(A)
    BY ONLY <1>5, <1>6, <1>8
  <2>2. PICK v \in Nat : v = Cardinality(A)
    BY <1>7
  <2>3. v - 0 = v
    OBVIOUS
  <2> QED BY <1>9, <2>1, <2>2, <2>3
<1> QED BY <1>10 DEF A, B

\* The connections of the other lines stay.
LEMMA ConnsFreed ==
  ASSUME NEW conns \in Bags, NEW name, NEW new, FreedConns(new, conns, name)
  PROVE  new \in Bags /\ OthersKept(name, new, conns)
<1> DEFINE D == {d \in DOMAIN conns : d.route # name}
<1>1. /\ DOMAIN conns \subseteq Conns /\ \A c \in DOMAIN conns : conns[c] \in Nat \ {0}
  BY BagFacts
<1>2. D \in SUBSET Conns /\ \A c \in D : conns[c] \in Nat \ {0}
  BY <1>1
<1>3. new = [c \in D |-> conns[c]]
  BY Zenon DEF FreedConns
<1>4. \A c \in Conns : c.route # name => (c \in D <=> c \in DOMAIN conns)
  BY <1>1
<1> HIDE DEF D
<1>5. new \in [D -> Nat \ {0}]
  BY <1>2, <1>3
<1>6. OthersKept(name, new, conns)
  <2> SUFFICES ASSUME NEW c \in Conns, c.route # name
               PROVE  Copies(c, new) = Copies(c, conns)
    BY DEF OthersKept
  <2>1. DOMAIN new = D /\ (c \in D => new[c] = conns[c])
    BY <1>3
  <2> QED BY <1>4, <2>1 DEF Copies
<1> QED BY <1>2, <1>5, <1>6, IsBag

LEMMA RouteGone ==
  ASSUME NEW stops, NEW routes, NEW conns, NetworkOf(stops, routes, conns), NEW m \in Nat, m + 1 = Len(routes),
         NEW p \in 1 .. m + 1, NEW left, RemovedAt(left, routes, p, RouteRecs, m),
         NEW new, FreedStops(new, stops, routes[p].nodes),
         NEW bag, FreedConns(bag, conns, routes[p].name)
  PROVE  NetworkOf(new, left, bag)
<1>1. /\ stops \in Seq(StopRecs) /\ Distinct(stops) /\ routes \in Seq(RouteRecs) /\ Distinct(routes)
      /\ conns \in Bags /\ \A j \in 1 .. m + 1 : Fine(routes[j], conns)
      /\ Counted(stops, routes) /\ Served(stops, routes)
  BY DEF NetworkOf
<1>2. left \in Seq(RouteRecs) /\ Len(left) = m /\ \A j \in 1 .. m : left[j] = routes[Beyond(p, j)]
  BY DEF RemovedAt
<1>3. /\ \A j \in 1 .. m : Beyond(p, j) \in 1 .. m + 1 /\ Beyond(p, j) # p
      /\ \A i, j \in 1 .. m : Beyond(p, i) = Beyond(p, j) => i = j
  BY BeyondIs
<1>4. PICK n \in Nat : n = Len(stops) /\ DOMAIN stops = 1 .. n /\ \A s \in 1 .. n : stops[s] \in StopRecs
  BY <1>1, LenProperties
<1>5. bag \in Bags /\ OthersKept(routes[p].name, bag, conns)
  BY <1>1, ConnsFreed
<1>6. \A j \in 1 .. m : routes[Beyond(p, j)].name # routes[p].name
  BY <1>1, <1>3 DEF Distinct
<1>7. ASSUME NEW j \in 1 .. m
      PROVE  Fine(left[j], bag)
  <2>1. left[j] = routes[Beyond(p, j)] /\ Beyond(p, j) \in 1 .. m + 1
    BY <1>2, <1>3
  <2>2. Fine(left[j], conns) /\ left[j].name # routes[p].name
    BY <1>1, <1>6, <2>1
  <2>3. Sound(left[j]) /\ Len(left[j].nodes) # 1 /\ Owned(left[j], conns)
    BY <2>2 DEF Fine
  <2>4. Owned(left[j], bag)
    BY <1>1, <1>5, <2>2, <2>3, OwnedKept
  <2> QED BY <2>3, <2>4 DEF Fine
<1>8. Distinct(left)
  <2> SUFFICES ASSUME NEW i \in 1 .. m, NEW j \in 1 .. m, left[i].name = left[j].name
               PROVE  i = j
    BY <1>2 DEF Distinct
  <2>1. Beyond(p, i) = Beyond(p, j)
    BY <1>1, <1>2, <1>3, SMTT(40), ZenonT(40) DEF Distinct
  <2> QED BY <1>3, <2>1
<1>9. ASSUME NEW s \in 1 .. n
      PROVE  /\ new[s] \in StopRecs /\ new[s].name = stops[s].name
             /\ new[s].numRoutes = Cardinality(PassSet(left, stops[s].name))
  <2> DEFINE q == stops[s].name
  <2>1. new[s] = LessBy(stops[s], Lost(routes[p].nodes, q))
    BY <1>4 DEF FreedStops
  <2>2. routes[p].nodes \in Seq(Nodes)
    <3>1. routes[p] \in RouteRecs
      BY <1>1, LenProperties
    <3> QED BY <3>1 DEF RouteRecs
  <2>3. Lost(routes[p].nodes, q) = Passes(routes[p].nodes, q)
    BY <2>2, LostIs
  <2>4. stops[s].numRoutes = Cardinality(PassSet(routes, q))
    BY <1>1, <1>4 DEF Counted
  <2>5. PICK v \in Nat : v = Cardinality(PassSet(left, q))
    BY <1>2, PassSetIsNat
  <2>6. Cardinality(PassSet(left, q)) = Cardinality(PassSet(routes, q)) - Passes(routes[p].nodes, q)
    BY <1>1, PassSetLess
  <2>7. stops[s].numRoutes - Lost(routes[p].nodes, q) = v
    BY <2>3, <2>4, <2>5, <2>6
  <2>8. stops[s] \in StopRecs
    BY <1>4
  <2> QED BY <2>1, <2>5, <2>7, <2>8, LessByIs
<1>10. new \in Seq(StopRecs) /\ Len(new) = n
  <2>1. DOMAIN new = 1 .. n /\ new = [s \in 1 .. n |-> new[s]]
    BY <1>4 DEF FreedStops
  <2>2. new \in [1 .. n -> StopRecs]
    BY ONLY <1>9, <2>1
  <2> QED BY ONLY <2>2, n \in Nat, LenProperties, SeqDef
<1>11. Distinct(new)
  BY <1>1, <1>4, <1>9, <1>10 DEF Distinct
<1>12. Counted(new, left)
  BY <1>9, <1>10 DEF Counted
<1>13. Served(new, left)
  <2> SUFFICES ASSUME NEW j \in 1 .. m, NEW q, Times(StopsOf(left[j].nodes), q) > 0
               PROVE  Known(new, q)
    BY <1>2 DEF Served
  <2>1. left[j] = routes[Beyond(p, j)] /\ Beyond(p, j) \in 1 .. m + 1
    BY <1>2, <1>3
  <2>2. Known(stops, q)
    BY <1>1, <2>1 DEF Served
  <2>3. PICK s \in 1 .. n : stops[s].name = q
    BY <1>4, <2>2 DEF Known
  <2> QED BY <1>9, <1>10, <2>3 DEF Known
<1> QED BY <1>2, <1>5, <1>7, <1>8, <1>10, <1>11, <1>12, <1>13 DEF NetworkOf

\* removeRouteCommand keeps the network.
LEMMA RemoveRouteKeeps ==
  ASSUME NEW name, Network, L!RemoveRoute(name)
  PROVE  Network'
<1> DEFINE p == L!IndexOf(routes2, name)
<1>1. /\ p # 0 /\ FreedStops(stops2', stops2, routes2[p].nodes)
      /\ routes2' = L!RemoveAt(routes2, p) /\ FreedConns(conns2', conns2, name)
  BY RemoveRouteIs
<1>2. routes2 \in Seq(RouteRecs) /\ Len(routes2) \in Nat
  BY NetworkHas
<1>3. p \in 1 .. Len(routes2) /\ routes2[p].name = name
  BY <1>1, <1>2, IndexOfFacts
<1> HIDE DEF p
<1>4. PICK m \in Nat : m + 1 = Len(routes2)
  <2>1. Len(routes2) > 0 /\ Len(routes2) - 1 \in Nat /\ (Len(routes2) - 1) + 1 = Len(routes2)
    BY <1>2, <1>3
  <2> QED BY <2>1
<1>5. RemovedAt(L!RemoveAt(routes2, p), routes2, p, RouteRecs, m)
  BY <1>2, <1>3, <1>4, RemovedAtIs
<1>6. RemovedAt(routes2', routes2, p, RouteRecs, m)
  BY <1>1, <1>5, Zenon
<1>7. p \in 1 .. m + 1 /\ FreedConns(conns2', conns2, routes2[p].name)
  BY <1>1, <1>3, <1>4
<1>8. NetworkOf(stops2, routes2, conns2)
  BY DEF Network
<1>9. NetworkOf(stops2', routes2', conns2')
  BY <1>1, <1>4, <1>6, <1>7, <1>8, RouteGone
<1> QED BY <1>9, Zenon DEF Network

------------------------------------------------------------------------------
(* The specification.                                                           *)
LEMMA NetworkKept ==
  ASSUME stops2' = stops2, routes2' = routes2, conns2' = conns2, Network
  PROVE  Network'
<1>1. NetworkOf(stops2', routes2', conns2')
  BY Zenon DEF Network
<1> QED BY <1>1, Zenon DEF Network

LEMMA InitNetwork ==
  ASSUME Init
  PROVE  Network
<1>1. stops2 = << >> /\ routes2 = << >> /\ conns2 = << >>
  BY DEF Init
<1> QED BY <1>1, NoNetwork DEF Network

LEMMA NextNetwork ==
  ASSUME Network, [Next]_vars
  PROVE  Network'
<1>1. CASE UNCHANGED vars
  <2>1. stops2' = stops2 /\ routes2' = routes2 /\ conns2' = conns2
    BY <1>1 DEF vars, second
  <2> QED BY <2>1, NetworkKept
<1>2. ASSUME NEW s \in Stops, NewStop(s)
      PROVE  Network'
  <2>1. L!CreateStop(s)
    BY <1>2, Zenon DEF NewStop
  <2> QED BY <2>1, CreateStopKeeps
<1>3. ASSUME NEW s \in Stops, EndStop(s)
      PROVE  Network'
  <2>1. L!RemoveStop(s)
    BY <1>3, Zenon DEF EndStop
  <2> QED BY <2>1, RemoveStopKeeps
<1>4. ASSUME NEW l \in Lines, NewLine(l)
      PROVE  Network'
  <2>1. L!CreateRoute(l)
    BY <1>4, Zenon DEF NewLine
  <2> QED BY <2>1, CreateRouteKeeps
<1>5. ASSUME NEW l \in Lines, EndLine(l)
      PROVE  Network'
  <2>1. L!RemoveRoute(l)
    BY <1>5, Zenon DEF EndLine
  <2> QED BY <2>1, RemoveRouteKeeps
<1>6. ASSUME NEW l \in Lines, NEW from \in Stops, NEW to \in Stops, NEW cost \in Costs, NewLink(l, from, to, cost)
      PROVE  Network'
  <2>1. L!Link(l, from, to, cost)
    BY <1>6, Zenon DEF NewLink
  <2>2. cost \in Nat
    BY NetworkAssumption
  <2> QED BY <2>1, <2>2, LinkKeeps
<1>7. CASE EndAll
  <2>1. L!RemoveAll
    BY <1>7, Zenon DEF EndAll
  <2> QED BY <2>1, RemoveAllKeeps
<1> QED BY <1>1, <1>2, <1>3, <1>4, <1>5, <1>6, <1>7, Zenon DEF Next

\* After any commands the lists, the lines and the bag of connections agree.
THEOREM Invariance == Spec => []Network
<1>1. Init => Network
  BY InitNetwork
<1>2. Network /\ [Next]_vars => Network'
  BY NextNetwork
<1> QED BY <1>1, <1>2, PTL DEF Spec

LEMMA LineParts ==
  ASSUME Network, NEW r \in DOMAIN routes2
  PROVE  /\ r \in 1 .. Len(routes2) /\ routes2[r].nodes \in Seq(Nodes) /\ Len(routes2[r].nodes) \in Nat
         /\ DOMAIN routes2[r].nodes = 1 .. Len(routes2[r].nodes)
         /\ Path(routes2[r].nodes, routes2[r].name) /\ routes2[r].cost = Total(Used(routes2[r].nodes))
         /\ Owned(routes2[r], conns2)
<1>1. routes2 \in Seq(RouteRecs) /\ DOMAIN routes2 = 1 .. Len(routes2) /\ \A j \in 1 .. Len(routes2) : Fine(routes2[j], conns2)
  BY NetworkHas, LenProperties
<1>2. Sound(routes2[r]) /\ Owned(routes2[r], conns2) /\ r \in 1 .. Len(routes2)
  BY <1>1 DEF Fine
<1>3. Path(routes2[r].nodes, routes2[r].name) /\ routes2[r].cost = Total(Used(routes2[r].nodes))
  BY <1>2 DEF Sound
<1>4. routes2[r].nodes \in Seq(Nodes)
  BY <1>3 DEF Path
<1>5. Len(routes2[r].nodes) \in Nat /\ DOMAIN routes2[r].nodes = 1 .. Len(routes2[r].nodes)
  BY <1>4, NodesFacts
<1> QED BY <1>2, <1>3, <1>4, <1>5

LEMMA NetworkCounts ==
  ASSUME Network
  PROVE  CountsExact
<1>1. /\ stops2 \in Seq(StopRecs) /\ routes2 \in Seq(RouteRecs) /\ DOMAIN stops2 = 1 .. Len(stops2)
      /\ DOMAIN routes2 = 1 .. Len(routes2) /\ Counted(stops2, routes2) /\ Served(stops2, routes2)
  BY NetworkHas, LenProperties
<1>2. ASSUME NEW q
      PROVE  PassSet(routes2, q) = {r \in DOMAIN routes2 : L!StopInRoute(routes2[r].nodes, q) > 0}
  <2>1. \A r \in DOMAIN routes2 : L!StopInRoute(routes2[r].nodes, q) = Times(StopsOf(routes2[r].nodes), q)
    BY LineParts, StopsFacts
  <2> QED BY <1>1, <2>1 DEF PassSet
<1>3. ASSUME NEW s \in DOMAIN stops2
      PROVE  stops2[s].numRoutes = Cardinality({r \in DOMAIN routes2 : L!StopInRoute(routes2[r].nodes, stops2[s].name) > 0})
  <2>1. stops2[s].numRoutes = Cardinality(PassSet(routes2, stops2[s].name))
    BY <1>1 DEF Counted
  <2> QED BY <1>2, <2>1
<1>4. ASSUME NEW r \in DOMAIN routes2, NEW i \in DOMAIN routes2[r].nodes
      PROVE  L!Exists(stops2, routes2[r].nodes[i].stop)
  <2> DEFINE nodes == routes2[r].nodes
             q == nodes[i].stop
  <2>1. nodes \in Seq(Nodes) /\ i \in 1 .. Len(nodes)
    BY LineParts
  <2> HIDE DEF nodes
  <2>2. StopsOf(nodes) \in Seq(Stops) /\ i \in 1 .. Len(StopsOf(nodes)) /\ StopsOf(nodes)[i] = q
    BY <2>1, StopsFacts
  <2>3. Times(StopsOf(nodes), q) \in Nat /\ Times(StopsOf(nodes), q) # 0
    <3>1. /\ Times(StopsOf(nodes), q) \in Nat
          /\ Times(StopsOf(nodes), q) = 0 <=> \A j \in 1 .. Len(StopsOf(nodes)) : StopsOf(nodes)[j] # q
      BY ONLY <2>2, TimesBound
    <3> QED BY <2>2, <3>1
  <2>4. Times(StopsOf(nodes), q) > 0
    BY <2>3
  <2>5. Known(stops2, q)
    BY <1>1, <2>4 DEF Served, nodes
  <2>6. L!IndexOf(stops2, q) # 0
    BY <1>1, <2>5, KnownIs
  <2> QED BY <2>6, Zenon DEF L!Exists, nodes
<1> QED BY <1>3, <1>4, Zenon DEF CountsExact

\* A stop of the second program counts the lines that pass it, each one once, after any
\* commands: createConn, removeRoute, and the removal of stops (stops.c, routes.c).
THEOREM CountsAreExact == Spec => []CountsExact
<1>1. Network => CountsExact
  BY NetworkCounts
<1> QED BY <1>1, Invariance, PTL

Joins(nodes, r, bag) ==
  /\ \A i \in DOMAIN Used(nodes) :
       /\ nodes[i].right = nodes[i + 1].left
       /\ Used(nodes)[i] # Null => /\ Used(nodes)[i].start = nodes[i].stop /\ Used(nodes)[i].end = nodes[i + 1].stop
                                   /\ Used(nodes)[i].route = r.name
       /\ Copies(Used(nodes)[i], bag) >= Times(Used(nodes), Used(nodes)[i])
  /\ Len(nodes) > 0 => nodes[1].left = Null /\ nodes[Len(nodes)].right = Null
  /\ r.cost = Total(Used(nodes))

LEMMA NetworkJoins ==
  ASSUME Network
  PROVE  PathsJoin
<1>1. ASSUME NEW r \in DOMAIN routes2
      PROVE  Joins(routes2[r].nodes, routes2[r], conns2)
  <2> DEFINE nodes == routes2[r].nodes
  <2>1. /\ nodes \in Seq(Nodes) /\ Len(nodes) \in Nat /\ Path(nodes, routes2[r].name)
        /\ routes2[r].cost = Total(Used(nodes)) /\ Owned(routes2[r], conns2)
    BY LineParts
  <2>2. \A c : Copies(c, conns2) >= Times(Used(nodes), c)
    BY <2>1 DEF Owned
  <2> HIDE DEF nodes
  <2>3. /\ \A i \in 1 .. Len(nodes) - 1 : Between(nodes, i, routes2[r].name)
        /\ Len(nodes) > 0 => nodes[1].left = Null /\ nodes[Len(nodes)].right = Null
    BY <2>1 DEF Path
  <2>4. DOMAIN Used(nodes) = 1 .. Len(nodes) - 1 /\ \A i \in 1 .. Len(nodes) - 1 : Used(nodes)[i] = nodes[i].right
    BY DEF Used
  <2>5. ASSUME NEW i \in DOMAIN Used(nodes)
        PROVE  /\ nodes[i].right = nodes[i + 1].left
               /\ Used(nodes)[i].start = nodes[i].stop /\ Used(nodes)[i].end = nodes[i + 1].stop
               /\ Used(nodes)[i].route = routes2[r].name
    BY <2>3, <2>4 DEF Between
  <2>6. Joins(nodes, routes2[r], conns2)
    BY <2>1, <2>2, <2>3, <2>5, Zenon DEF Joins
  <2> QED BY <2>6 DEF nodes
<1> QED BY <1>1, Zenon DEF PathsJoin, Joins, Used, Times, Total

\* Two stops of a line that follow one another share one connection of the second program,
\* which is there and joins them, and the cost of the line is the sum of its connections,
\* after any commands (addStopToRoute..., removeBothConnsOfStop, freeRouteNode).
THEOREM PathsAreJoined == Spec => []PathsJoin
<1>1. Network => PathsJoin
  BY NetworkJoins
<1> QED BY <1>1, Invariance, PTL

------------------------------------------------------------------------------
(* What the connections cost together: the sum over a set, in whatever order, is *)
(* the number of tokens when each element has as many as its weight.             *)
Tokens(w, s) == {p \in s \X Nat : p[2] \in 1 .. w[p[1]]}

LEMMA TokensOfOne ==
  ASSUME NEW D, NEW w \in [D -> Nat], NEW s \in SUBSET D, NEW x \in s, IsFiniteSet(Tokens(w, s \ {x}))
  PROVE  IsFiniteSet(Tokens(w, s)) /\ Cardinality(Tokens(w, s)) = w[x] + Cardinality(Tokens(w, s \ {x}))
<1> DEFINE mine == {x} \X (1 .. w[x])
           rest == Tokens(w, s \ {x})
<1>1. PICK n \in Nat : n = w[x]
  OBVIOUS
<1>2. Tokens(w, s) = mine \cup rest /\ mine \cap rest = {}
  BY DEF Tokens
<1>3. IsFiniteSet(1 .. n) /\ Cardinality(1 .. n) = n
  <2>1. 1 \in Int /\ n \in Int /\ n - 1 + 1 = n /\ (1 > n => n = 0)
    OBVIOUS
  <2> QED BY <2>1, FS_Interval
<1>4. IsFiniteSet({x}) /\ Cardinality({x}) = 1
  BY FS_Singleton
<1>5. IsFiniteSet(mine) /\ Cardinality(mine) = n
  <2>1. IsFiniteSet({x} \X (1 .. n)) /\ Cardinality({x} \X (1 .. n)) = 1 * n
    BY <1>3, <1>4, FS_Product, SMTT(40), ZenonT(40)
  <2> QED BY <1>1, <2>1
<1> HIDE DEF mine, rest
<1>6. IsFiniteSet(rest) /\ Cardinality(rest) \in Nat
  BY FS_CardinalityType DEF rest
<1>7. IsFiniteSet(mine \cup rest) /\ Cardinality(mine \cup rest) = Cardinality(mine) + Cardinality(rest)
  <2>1. Cardinality(mine \cap rest) = 0
    BY <1>2, FS_EmptySet
  <2>2. /\ IsFiniteSet(mine \cup rest)
        /\ Cardinality(mine \cup rest) = Cardinality(mine) + Cardinality(rest) - Cardinality(mine \cap rest)
    BY <1>5, <1>6, FS_Union
  <2> QED BY <1>5, <1>6, <2>1, <2>2
<1> QED BY <1>1, <1>2, <1>5, <1>7 DEF rest

LEMMA TokensFinite ==
  ASSUME NEW D, IsFiniteSet(D), NEW w \in [D -> Nat], NEW t \in SUBSET D
  PROVE  IsFiniteSet(Tokens(w, t))
<1> DEFINE Bad == {s \in SUBSET D : ~IsFiniteSet(Tokens(w, s))}
           Sizes == {Cardinality(s) : s \in Bad}
<1>1. \A s \in SUBSET D : IsFiniteSet(s) /\ Cardinality(s) \in Nat
  BY FS_Subset, FS_CardinalityType
<1>2. Bad = {}
  <2> SUFFICES ASSUME Bad # {} PROVE FALSE
    OBVIOUS
  <2>1. PICK n \in Sizes : \A m \in Sizes : n <= m
    <3>1. Sizes \in SUBSET Nat /\ Sizes # {}
      BY <1>1
    <3> HIDE DEF Sizes
    <3> QED BY <3>1, LeastExists
  <2>2. PICK s \in Bad : n = Cardinality(s)
    BY <2>1
  <2>3. s # {}
    <3>1. Tokens(w, {}) = {}
      BY DEF Tokens
    <3> QED BY <2>2, <3>1, FS_EmptySet
  <2>4. PICK x : x \in s
    BY <2>3
  <2>5. s \ {x} \in SUBSET D /\ Cardinality(s \ {x}) = Cardinality(s) - 1 /\ Cardinality(s) \in Nat
    BY <1>1, <2>2, <2>4, FS_RemoveElement
  <2>6. s \ {x} \notin Bad
    <3>1. ~(Cardinality(s) <= Cardinality(s) - 1)
      BY <2>5
    <3> QED BY <2>1, <2>2, <2>5, <3>1
  <2> QED BY <2>2, <2>4, <2>5, <2>6, TokensOfOne
<1> QED BY <1>2

\* What a sum over the parts of D computes.
Sums(G, D, w) ==
  G = [s \in SUBSET D |-> IF s = {} THEN 0 ELSE LET x == CHOOSE y \in s : TRUE IN w[x] + G[s \ {x}]]

LEMMA SumsAreTokens ==
  ASSUME NEW D, IsFiniteSet(D), NEW w \in [D -> Nat]
  PROVE  /\ Sums([s \in SUBSET D |-> Cardinality(Tokens(w, s))], D, w)
         /\ \A G : Sums(G, D, w) => G[D] = Cardinality(Tokens(w, D))
<1> DEFINE h == [s \in SUBSET D |-> Cardinality(Tokens(w, s))]
<1>1. \A s \in SUBSET D : s # {} => (CHOOSE y \in s : TRUE) \in s
  OBVIOUS
<1>2. h[{}] = 0
  <2>1. Tokens(w, {}) = {}
    BY DEF Tokens
  <2> QED BY <2>1, FS_EmptySet
<1>3. ASSUME NEW s \in SUBSET D, NEW x \in s
      PROVE  h[s] = w[x] + h[s \ {x}]
  <2>1. s \ {x} \in SUBSET D
    OBVIOUS
  <2>2. IsFiniteSet(Tokens(w, s \ {x}))
    BY <2>1, TokensFinite
  <2>3. Cardinality(Tokens(w, s)) = w[x] + Cardinality(Tokens(w, s \ {x}))
    BY <2>2, TokensOfOne
  <2> QED BY <2>1, <2>3
<1> HIDE DEF h
<1>4. \A s \in SUBSET D : h[s] = IF s = {} THEN 0 ELSE LET x == CHOOSE y \in s : TRUE IN w[x] + h[s \ {x}]
  BY <1>1, <1>2, <1>3
<1>5. Sums(h, D, w)
  <2>1. h = [s \in SUBSET D |-> h[s]]
    BY DEF h
  <2> QED BY <1>4, <2>1 DEF Sums
<1>6. ASSUME NEW G, Sums(G, D, w)
      PROVE  G[D] = h[D]
  <2> DEFINE Bad == {s \in SUBSET D : G[s] # h[s]}
             Sizes == {Cardinality(s) : s \in Bad}
  <2>1. \A s \in SUBSET D : IsFiniteSet(s) /\ Cardinality(s) \in Nat
    BY FS_Subset, FS_CardinalityType
  <2>2. \A s \in SUBSET D : G[s] = IF s = {} THEN 0 ELSE LET x == CHOOSE y \in s : TRUE IN w[x] + G[s \ {x}]
    BY <1>6 DEF Sums
  <2>3. Bad = {}
    <3> SUFFICES ASSUME Bad # {} PROVE FALSE
      OBVIOUS
    <3>1. PICK n \in Sizes : \A m \in Sizes : n <= m
      <4>1. Sizes \in SUBSET Nat /\ Sizes # {}
        BY <2>1
      <4> HIDE DEF Sizes
      <4> QED BY <4>1, LeastExists
    <3>2. PICK s \in Bad : n = Cardinality(s)
      BY <3>1
    <3>3. s # {}
      BY <1>2, <2>2, <3>2
    <3> DEFINE x == CHOOSE y \in s : TRUE
    <3>4. x \in s
      BY <3>3
    <3>5. G[s] = w[x] + G[s \ {x}] /\ h[s] = w[x] + h[s \ {x}]
      BY <1>3, <2>2, <3>2, <3>3, <3>4
    <3> HIDE DEF x
    <3>6. s \ {x} \in SUBSET D /\ Cardinality(s \ {x}) = Cardinality(s) - 1 /\ Cardinality(s) \in Nat
      BY <2>1, <3>2, <3>4, FS_RemoveElement
    <3>7. s \ {x} \notin Bad
      <4>1. ~(Cardinality(s) <= Cardinality(s) - 1)
        BY <3>6
      <4> QED BY <3>1, <3>2, <3>6, <4>1
    <3> QED BY <3>2, <3>5, <3>6, <3>7
  <2> QED BY <2>3
<1>7. \A G : Sums(G, D, w) => G[D] = Cardinality(Tokens(w, D))
  BY <1>6 DEF h
<1> QED BY <1>5, <1>7 DEF h

Spent(bag) == MapThenSumSet(LAMBDA c : bag[c] * c.cost, DOMAIN bag)
Weights(bag) == [c \in DOMAIN bag |-> bag[c] * c.cost]

LEMMA WeightsAre ==
  ASSUME NEW bag \in Bags
  PROVE  Weights(bag) \in [DOMAIN bag -> Nat] /\ \A c \in DOMAIN bag : Weights(bag)[c] = bag[c] * c.cost
<1>1. \A c \in DOMAIN bag : c.cost \in Nat /\ bag[c] \in Nat
  BY BagFacts DEF Conns
<1>2. \A a, b \in Nat : a * b \in Nat
  OBVIOUS
<1>3. \A c \in DOMAIN bag : bag[c] * c.cost \in Nat
  BY <1>1, <1>2
<1> QED BY <1>3 DEF Weights

LEMMA SpentIsTokens ==
  ASSUME NEW bag \in Bags, IsFiniteSet(DOMAIN bag)
  PROVE  /\ Spent(bag) = Cardinality(Tokens(Weights(bag), DOMAIN bag)) /\ Spent(bag) \in Nat
         /\ IsFiniteSet(Tokens(Weights(bag), DOMAIN bag))
<1> DEFINE D == DOMAIN bag
           w == Weights(bag)
           Eq(g) == g = [s \in SUBSET D |->
                           IF s = {} THEN 0
                           ELSE LET x == CHOOSE y \in s : TRUE IN bag[x] * x.cost + g[s \ {x}]]
           G == CHOOSE g : Eq(g)
<1>1. Spent(bag) = G[D]
  BY Zenon DEF Spent, MapThenSumSet, MapThenFoldSet
<1>2. w \in [D -> Nat] /\ \A c \in D : w[c] = bag[c] * c.cost
  BY WeightsAre
<1>3. \A s \in SUBSET D : s # {} => (CHOOSE y \in s : TRUE) \in D
  <2>1. \A s : s # {} => (CHOOSE y \in s : TRUE) \in s
    OBVIOUS
  <2> QED BY <2>1
<1> HIDE DEF w
<1>4. ASSUME NEW g
      PROVE  Eq(g) <=> Sums(g, D, w)
  <2>1. \A s \in SUBSET D : s # {} => bag[CHOOSE y \in s : TRUE] * (CHOOSE y \in s : TRUE).cost
                                        = w[CHOOSE y \in s : TRUE]
    BY <1>2, <1>3
  <2>2. [s \in SUBSET D |-> IF s = {} THEN 0
                            ELSE LET x == CHOOSE y \in s : TRUE IN bag[x] * x.cost + g[s \ {x}]]
          = [s \in SUBSET D |-> IF s = {} THEN 0
                                ELSE LET x == CHOOSE y \in s : TRUE IN w[x] + g[s \ {x}]]
    BY <2>1
  <2> QED BY <2>2 DEF Sums
<1>5. \E g : Eq(g)
  <2> HIDE DEF Eq
  <2> QED BY <1>2, <1>4, SumsAreTokens
<1>6. Eq(G)
  <2> HIDE DEF Eq
  <2> QED BY <1>5
<1> HIDE DEF Eq, G
<1>7. G[D] = Cardinality(Tokens(w, D))
  BY <1>2, <1>4, <1>6, SumsAreTokens
<1>8. IsFiniteSet(Tokens(w, D)) /\ Cardinality(Tokens(w, D)) \in Nat
  BY <1>2, TokensFinite, FS_CardinalityType
<1> QED BY <1>1, <1>7, <1>8 DEF w

\* A connection that costs something makes them dearer.
LEMMA SpentGrows ==
  ASSUME NEW bag \in Bags, IsFiniteSet(DOMAIN bag), NEW conn \in Conns, conn.cost # 0,
         NEW new, new = L!(+)(bag, L!SetToBag({conn}))
  PROVE  IsFiniteSet(DOMAIN new) /\ Spent(bag) \in Nat /\ Spent(new) \in Nat /\ Spent(bag) + 1 <= Spent(new)
<1>1. new \in Bags /\ \A d : Copies(d, new) = Copies(d, bag) + IF d = conn THEN 1 ELSE 0
  BY Added
<1>2. /\ \A d : Copies(d, bag) \in Nat /\ (Copies(d, bag) > 0 <=> d \in DOMAIN bag)
      /\ \A d : Copies(d, new) \in Nat /\ (Copies(d, new) > 0 <=> d \in DOMAIN new)
  BY <1>1, BagFacts
<1>3. DOMAIN new = DOMAIN bag \cup {conn}
  <2>1. \A a, b \in Nat : a > 0 => a + b > 0
    OBVIOUS
  <2>2. \A d : d \in DOMAIN new <=> d \in DOMAIN bag \/ d = conn
    <3> TAKE d
    <3>1. PICK a \in Nat : a = Copies(d, bag)
      BY <1>2
    <3>2. CASE d = conn
      <4>1. Copies(d, new) = a + 1
        BY <1>1, <3>1, <3>2
      <4> QED BY <1>2, <3>2, <4>1
    <3>3. CASE d # conn
      <4>1. Copies(d, new) = a + 0 /\ a + 0 = a
        BY <1>1, <3>1, <3>3
      <4> QED BY <1>2, <3>1, <3>3, <4>1
    <3> QED BY <3>2, <3>3
  <2> QED BY <2>2
<1>4. IsFiniteSet(DOMAIN new)
  BY <1>3, FS_AddElement
<1> DEFINE v == Weights(bag)
           w == Weights(new)
           old == Tokens(v, DOMAIN bag)
           all == Tokens(w, DOMAIN new)
<1>5. /\ v \in [DOMAIN bag -> Nat] /\ w \in [DOMAIN new -> Nat]
      /\ \A c \in DOMAIN bag : v[c] = Copies(c, bag) * c.cost
      /\ \A c \in DOMAIN new : w[c] = Copies(c, new) * c.cost
  <2>1. (\A c \in DOMAIN bag : Copies(c, bag) = bag[c]) /\ \A c \in DOMAIN new : Copies(c, new) = new[c]
    BY DEF Copies
  <2> QED BY <1>1, <2>1, WeightsAre
<1>6. PICK cost \in Nat : cost = conn.cost /\ cost # 0
  BY DEF Conns
<1>7. PICK k \in Nat : k = Copies(conn, bag)
  BY <1>2
<1>8. w[conn] = k * cost + cost /\ (conn \in DOMAIN bag => v[conn] = k * cost) /\ k * cost \in Nat
  <2>1. Copies(conn, new) = k + 1 /\ conn \in DOMAIN new
    BY <1>1, <1>3, <1>7
  <2>2. (k + 1) * cost = k * cost + cost /\ k * cost \in Nat
    OBVIOUS
  <2> QED BY <1>5, <1>6, <1>7, <2>1, <2>2
<1>9. \A c \in DOMAIN bag : c # conn => w[c] = v[c]
  <2> TAKE c \in DOMAIN bag
  <2> HAVE c # conn
  <2>1. PICK a \in Nat : a = Copies(c, bag)
    BY <1>2
  <2>2. Copies(c, new) = a + 0 /\ a + 0 = a
    BY <1>1, <2>1
  <2> QED BY <1>3, <1>5, <2>1, <2>2
<1>10. \A c \in DOMAIN bag : v[c] <= w[c]
  <2> TAKE c \in DOMAIN bag
  <2>1. v[c] \in Nat /\ w[c] \in Nat
    BY <1>3, <1>5
  <2>2. CASE c = conn
    <3>1. PICK a \in Nat : a = k * cost
      BY <1>8
    <3>2. v[c] = a /\ w[c] = a + cost
      BY <1>8, <2>2, <3>1
    <3> QED BY <3>2
  <2>3. CASE c # conn
    BY <1>9, <2>1, <2>3
  <2> QED BY <2>2, <2>3
<1> DEFINE e == <<conn, w[conn]>>
<1> HIDE DEF v, w
<1>11. e \in all /\ e \notin old
  <2>1. PICK a \in Nat : a = k * cost
    BY <1>8
  <2>2. w[conn] = a + cost
    BY <1>8, <2>1
  <2>3. conn \in DOMAIN bag => v[conn] = a
    BY <1>8, <2>1
  <2>4. w[conn] \in Nat /\ w[conn] \in 1 .. w[conn] /\ (conn \in DOMAIN bag => w[conn] \notin 1 .. v[conn])
    BY <1>6, <2>2, <2>3
  <2> QED BY <1>3, <2>4 DEF Tokens
<1>12. old \in SUBSET all
  <2> SUFFICES ASSUME NEW p \in old
               PROVE  p \in all
    OBVIOUS
  <2>1. PICK c \in DOMAIN bag, i \in Nat : p = <<c, i>> /\ i \in 1 .. v[c]
    BY DEF Tokens
  <2>2. v[c] \in Nat /\ w[c] \in Nat /\ v[c] <= w[c] /\ c \in DOMAIN new
    BY <1>3, <1>5, <1>10
  <2>3. i \in 1 .. w[c]
    BY <2>1, <2>2
  <2> QED BY <2>1, <2>2, <2>3 DEF Tokens
<1> HIDE DEF old, all, e
<1>13. /\ Spent(bag) = Cardinality(old) /\ IsFiniteSet(old) /\ Spent(bag) \in Nat
       /\ Spent(new) = Cardinality(all) /\ IsFiniteSet(all) /\ Spent(new) \in Nat
  BY <1>1, <1>4, SpentIsTokens DEF old, all, v, w
<1>14. Cardinality(old \cup {e}) = Cardinality(old) + 1 /\ old \cup {e} \in SUBSET all
  BY <1>11, <1>12, <1>13, FS_AddElement
<1>15. Cardinality(old \cup {e}) <= Cardinality(all)
  BY <1>13, <1>14, FS_Subset
<1> QED BY <1>4, <1>13, <1>14, <1>15

------------------------------------------------------------------------------
(* The first program beside the second one, as long as it is asked.             *)
StopRecs1 == [name : Stops, num_routes : Nat]
RouteRecs1 == [name : Lines, route_stops : [1 .. MaxCost + 1 -> Nat], route_num_stops : Nat, total_cost : Nat]

TwinStop(s, p) == s.name = p.name /\ s.num_routes = p.numRoutes
TwinStops(mine, stops) ==
  /\ mine \in Seq(StopRecs1) /\ Len(mine) = Len(stops)
  /\ \A s \in 1 .. Len(stops) : TwinStop(mine[s], stops[s])

\* The indexes in the array of a line are those of the stops of its nodes.
Places(arr, nodes, stops) ==
  \A i \in 1 .. Len(nodes) : arr[i] \in 1 .. Len(stops) /\ stops[arr[i]].name = nodes[i].stop
TwinRoute(t, u, stops) ==
  /\ t.name = u.name /\ t.total_cost = u.cost /\ t.route_num_stops = Len(u.nodes)
  /\ Places(t.route_stops, u.nodes, stops)
TwinRoutes(mine, routes, stops) ==
  /\ mine \in Seq(RouteRecs1) /\ Len(mine) = Len(routes)
  /\ \A r \in 1 .. Len(routes) : TwinRoute(mine[r], routes[r], stops)

\* No node was freed, so that the pointers back lead to the first one.
Straight(nodes) == \A i \in 1 .. Len(nodes) : nodes[i].back = IF i = 1 THEN "none" ELSE "node"

\* Each connection was paid for, so that the array of a line has room for its stops.
Paid(nodes, bag) == Len(nodes) <= Spent(bag) + 1 /\ Len(nodes) <= MaxCost + 1

TwinsOf(mine, lines, stops, routes, bag) ==
  /\ TwinStops(mine, stops) /\ TwinRoutes(lines, routes, stops) /\ IsFiniteSet(DOMAIN bag)
  /\ \A r \in 1 .. Len(routes) : Straight(routes[r].nodes) /\ Paid(routes[r].nodes, bag)

Twins ==
  /\ parted \in BOOLEAN
  /\ parted => stops1 = << >> /\ routes1 = << >>
  /\ ~parted => TwinsOf(stops1, routes1, stops2, routes2, conns2)

LEMMA TwinsHave ==
  ASSUME Network, Twins, ~parted
  PROVE  /\ TwinStops(stops1, stops2) /\ TwinRoutes(routes1, routes2, stops2) /\ IsFiniteSet(DOMAIN conns2)
         /\ \A r \in 1 .. Len(routes2) : Straight(routes2[r].nodes) /\ Paid(routes2[r].nodes, conns2)
         /\ stops1 \in Seq(StopRecs1) /\ Len(stops1) = Len(stops2)
         /\ routes1 \in Seq(RouteRecs1) /\ Len(routes1) = Len(routes2)
         /\ \A s \in 1 .. Len(stops2) : TwinStop(stops1[s], stops2[s])
         /\ \A r \in 1 .. Len(routes2) : TwinRoute(routes1[r], routes2[r], stops2)
BY DEF Twins, TwinsOf, TwinStops, TwinRoutes

\* A name is in both lists at the same place; where it is not, the first program has the
\* index after the last one.
LEMMA SameIndex ==
  ASSUME NEW X, NEW Y, NEW mine \in Seq(X), NEW list \in Seq(Y), Len(mine) = Len(list),
         \A j \in 1 .. Len(list) : mine[j].name = list[j].name, NEW name
  PROVE  /\ T!IndexOf(mine, name) = IF L!IndexOf(list, name) = 0 THEN Len(list) + 1 ELSE L!IndexOf(list, name)
         /\ T!Exists(mine, name) <=> L!IndexOf(list, name) # 0
<1> DEFINE I == {j \in 1 .. Len(mine) : mine[j].name = name}
           J == {j \in 1 .. Len(list) : list[j].name = name}
           k == L!IndexOf(list, name)
<1>1. k \in 0 .. Len(list) /\ Len(list) \in Nat
  BY IndexOfFacts
<1>2. k = IF J # {} THEN Min(J) ELSE 0
  BY DEF L!IndexOf, L!SelectInSeq, L!Min, Min
<1>3. I = J
  OBVIOUS
<1>4. T!IndexOf(mine, name) =
        LET i == IF I # {} THEN Min(I) ELSE 0 IN IF i = 0 THEN Len(mine) + 1 ELSE i
  BY DEF T!IndexOf, T!SelectInSeq, T!Min, Min
<1> HIDE DEF I, J, k
<1>5. T!IndexOf(mine, name) = IF k = 0 THEN Len(list) + 1 ELSE k
  BY <1>2, <1>3, <1>4
<1>6. T!Exists(mine, name) <=> T!IndexOf(mine, name) # Len(mine) + 1
  BY Zenon DEF T!Exists
<1>7. T!Exists(mine, name) <=> k # 0
  BY <1>1, <1>5, <1>6
<1> QED BY <1>5, <1>7 DEF k

\* The names of both.
LEMMA SameIndexes ==
  ASSUME Network, Twins, ~parted, NEW name
  PROVE  /\ T!IndexOf(stops1, name) = (IF L!IndexOf(stops2, name) = 0 THEN Len(stops2) + 1 ELSE L!IndexOf(stops2, name))
         /\ T!IndexOf(routes1, name) = (IF L!IndexOf(routes2, name) = 0 THEN Len(routes2) + 1 ELSE L!IndexOf(routes2, name))
<1>1. stops2 \in Seq(StopRecs) /\ routes2 \in Seq(RouteRecs)
  BY NetworkHas
<1>2. /\ stops1 \in Seq(StopRecs1) /\ Len(stops1) = Len(stops2)
      /\ routes1 \in Seq(RouteRecs1) /\ Len(routes1) = Len(routes2)
      /\ \A s \in 1 .. Len(stops2) : stops1[s].name = stops2[s].name
      /\ \A r \in 1 .. Len(routes2) : routes1[r].name = routes2[r].name
  BY TwinsHave DEF TwinStop, TwinRoute
<1> QED BY <1>1, <1>2, SameIndex

\* Other stops do not change the places of a line when their names are the same.
LEMMA PlacesKept ==
  ASSUME NEW arr, NEW nodes, NEW stops, NEW new, Len(stops) \in Nat, Len(new) \in Nat, Len(new) >= Len(stops),
         \A s \in 1 .. Len(stops) : new[s].name = stops[s].name, Places(arr, nodes, stops)
  PROVE  Places(arr, nodes, new)
<1>1. \A s \in 1 .. Len(stops) : s \in 1 .. Len(new)
  OBVIOUS
<1> QED BY <1>1 DEF Places

\* stop_creation and stopCreation.
LEMMA CreateStopTwins ==
  ASSUME Network, Twins, ~parted, NEW name \in Stops, T!CreateStop(name), L!CreateStop(name)
  PROVE  TwinsOf(stops1', routes1', stops2', routes2', conns2')
<1> DEFINE s == [name |-> name, num_routes |-> 0]
           p == [name |-> name, numRoutes |-> 0]
<1>1. stops1' = Append(stops1, s) /\ routes1' = routes1
  BY DEF T!CreateStop
<1>2. stops2' = Append(stops2, p) /\ routes2' = routes2 /\ conns2' = conns2
  BY DEF L!CreateStop
<1>3. PICK m \in Nat : m = Len(stops2) /\ m = Len(stops1)
  BY NetworkHas, TwinsHave
<1>4. s \in StopRecs1 /\ p \in StopRecs /\ TwinStop(s, p)
  BY DEF StopRecs1, StopRecs, TwinStop
<1> HIDE DEF s, p
<1>5. /\ stops1' \in Seq(StopRecs1) /\ Len(stops1') = m + 1 /\ stops1'[m + 1] = s
      /\ \A j \in 1 .. m : stops1'[j] = stops1[j]
  BY <1>1, <1>3, <1>4, TwinsHave, AppendProperties
<1>6. /\ stops2' \in Seq(StopRecs) /\ Len(stops2') = m + 1 /\ stops2'[m + 1] = p
      /\ \A j \in 1 .. m : stops2'[j] = stops2[j]
  <2>1. stops2 \in Seq(StopRecs) /\ p \in StopRecs /\ stops2' = Append(stops2, p)
    BY <1>2, <1>4, NetworkHas
  <2>2. stops2' \in Seq(StopRecs) /\ Len(stops2') = Len(stops2) + 1
    BY ONLY <2>1, AppendProperties
  <2>3. \A j \in 1 .. Len(stops2) : stops2'[j] = stops2[j]
    BY ONLY <2>1, AppendProperties
  <2>4. stops2'[Len(stops2) + 1] = p
    BY ONLY <2>1, AppendProperties
  <2> QED BY <1>3, <2>2, <2>3, <2>4
<1>7. \A j \in 1 .. m + 1 : j \in 1 .. m \/ j = m + 1
  OBVIOUS
<1>8. TwinStops(stops1', stops2')
  <2>1. \A j \in 1 .. m + 1 : TwinStop(stops1'[j], stops2'[j])
    BY <1>3, <1>4, <1>5, <1>6, <1>7, TwinsHave
  <2> QED BY <1>5, <1>6, <2>1 DEF TwinStops
<1>9. TwinRoutes(routes1, routes2, stops2')
  <2>1. ASSUME NEW r \in 1 .. Len(routes2)
        PROVE  TwinRoute(routes1[r], routes2[r], stops2')
    <3>1. TwinRoute(routes1[r], routes2[r], stops2)
      BY TwinsHave
    <3>2. Places(routes1[r].route_stops, routes2[r].nodes, stops2)
      BY <3>1 DEF TwinRoute
    <3>3. /\ Len(stops2) \in Nat /\ Len(stops2') \in Nat /\ Len(stops2') >= Len(stops2)
          /\ \A j \in 1 .. Len(stops2) : stops2'[j].name = stops2[j].name
      BY <1>3, <1>6
    <3>4. Places(routes1[r].route_stops, routes2[r].nodes, stops2')
      BY ONLY <3>2, <3>3, PlacesKept
    <3> QED BY <3>1, <3>4 DEF TwinRoute
  <2> QED BY <2>1, TwinsHave DEF TwinRoutes
<1>10. TwinsOf(stops1', routes1, stops2', routes2, conns2)
  BY <1>8, <1>9, TwinsHave DEF TwinsOf
<1> QED BY <1>1, <1>2, <1>10, Zenon

\* create_route_or_print_stops and createRouteOrPrintStops of a new name.
LEMMA CreateRouteTwins ==
  ASSUME Network, Twins, ~parted, NEW name \in Lines, T!CreateRoute(name), L!CreateRoute(name)
  PROVE  TwinsOf(stops1', routes1', stops2', routes2', conns2')
<1> DEFINE t == [name |-> name, route_stops |-> [i \in 1 .. MaxCost + 1 |-> 1], route_num_stops |-> 0, total_cost |-> 0]
           u == [name |-> name, cost |-> 0, numStops |-> 0, nodes |-> << >>]
<1>1. routes1' = Append(routes1, t) /\ stops1' = stops1
  BY DEF T!CreateRoute
<1>2. routes2' = Append(routes2, u) /\ stops2' = stops2 /\ conns2' = conns2
  BY DEF L!CreateRoute
<1>3. PICK m \in Nat : m = Len(routes2) /\ m = Len(routes1)
  BY NetworkHas, TwinsHave
<1>4. u \in RouteRecs /\ u.nodes = << >> /\ u.name = name /\ u.cost = 0
  <2>1. << >> \in Seq(Nodes) /\ 0 \in Nat
    OBVIOUS
  <2> QED BY <2>1 DEF RouteRecs
<1>5. t \in RouteRecs1 /\ t.name = name /\ t.total_cost = 0 /\ t.route_num_stops = 0
  BY DEF RouteRecs1
<1> HIDE DEF t, u
<1>6. TwinRoute(t, u, stops2) /\ Straight(u.nodes)
  <2>1. Len(<< >>) = 0 /\ 1 .. 0 = {}
    OBVIOUS
  <2> QED BY <1>4, <1>5, <2>1 DEF TwinRoute, Places, Straight
<1>7. Paid(u.nodes, conns2)
  <2>1. Spent(conns2) \in Nat
    BY NetworkHas, TwinsHave, SpentIsTokens
  <2>2. Len(<< >>) = 0
    OBVIOUS
  <2> QED BY <1>4, <2>1, <2>2, NetworkAssumption DEF Paid
<1>8. /\ routes1' \in Seq(RouteRecs1) /\ Len(routes1') = m + 1 /\ routes1'[m + 1] = t
      /\ \A j \in 1 .. m : routes1'[j] = routes1[j]
  BY <1>1, <1>3, <1>5, TwinsHave, AppendProperties
<1>9. /\ routes2' \in Seq(RouteRecs) /\ Len(routes2') = m + 1 /\ routes2'[m + 1] = u
      /\ \A j \in 1 .. m : routes2'[j] = routes2[j]
  <2>1. routes2 \in Seq(RouteRecs) /\ u \in RouteRecs /\ routes2' = Append(routes2, u)
    BY <1>2, <1>4, NetworkHas
  <2>2. routes2' \in Seq(RouteRecs) /\ Len(routes2') = Len(routes2) + 1
    BY ONLY <2>1, AppendProperties
  <2>3. \A j \in 1 .. Len(routes2) : routes2'[j] = routes2[j]
    BY ONLY <2>1, AppendProperties
  <2>4. routes2'[Len(routes2) + 1] = u
    BY ONLY <2>1, AppendProperties
  <2> QED BY <1>3, <2>2, <2>3, <2>4
<1>10. \A j \in 1 .. m + 1 : j \in 1 .. m \/ j = m + 1
  OBVIOUS
<1>11. TwinRoutes(routes1', routes2', stops2)
  <2>1. \A j \in 1 .. m + 1 : TwinRoute(routes1'[j], routes2'[j], stops2)
    BY <1>3, <1>6, <1>8, <1>9, <1>10, TwinsHave
  <2> QED BY <1>8, <1>9, <2>1 DEF TwinRoutes
<1>12. \A j \in 1 .. m + 1 : Straight(routes2'[j].nodes) /\ Paid(routes2'[j].nodes, conns2)
  BY <1>3, <1>6, <1>7, <1>9, <1>10, TwinsHave
<1>13. TwinsOf(stops1, routes1', stops2, routes2', conns2)
  BY <1>9, <1>11, <1>12, TwinsHave DEF TwinsOf
<1> QED BY <1>1, <1>2, <1>13, Zenon

\* The line r of the first program gets another array, and its cost grows.
Extended1(new, old, r, arr, num, add) ==
  /\ new \in Seq(RouteRecs1) /\ Len(new) = Len(old)
  /\ \A j \in 1 .. Len(old) : j # r => new[j] = old[j]
  /\ new[r].name = old[r].name /\ new[r].total_cost = old[r].total_cost + add
  /\ new[r].route_num_stops = num /\ new[r].route_stops = arr

ExtendsTo(new, old, r, arr, num, add) ==
  new = [old EXCEPT ![r].route_stops = arr, ![r].route_num_stops = num, ![r].total_cost = @ + add]

LEMMA ExtendedIs ==
  ASSUME NEW old \in Seq(RouteRecs1), NEW r \in 1 .. Len(old), NEW arr \in [1 .. MaxCost + 1 -> Nat],
         NEW num \in Nat, NEW add \in Nat, NEW new, ExtendsTo(new, old, r, arr, num, add)
  PROVE  Extended1(new, old, r, arr, num, add)
<1>1. PICK n \in Nat : n = Len(old) /\ DOMAIN old = 1 .. n /\ \A j \in 1 .. n : old[j] \in RouteRecs1
  BY LenProperties
<1>2. PICK a, b, c, d : old[r] = [name |-> a, route_stops |-> b, route_num_stops |-> c, total_cost |-> d]
                        /\ a \in Lines /\ d \in Nat
  <2>1. PICK x \in RouteRecs1 : x = old[r]
    BY <1>1
  <2>2. x = [name |-> x.name, route_stops |-> x.route_stops, route_num_stops |-> x.route_num_stops,
             total_cost |-> x.total_cost]
        /\ x.name \in Lines /\ x.total_cost \in Nat
    BY DEF RouteRecs1
  <2>3. \E a, b, c, d : x = [name |-> a, route_stops |-> b, route_num_stops |-> c, total_cost |-> d]
                        /\ a \in Lines /\ d \in Nat
    BY <2>2, Zenon
  <2> QED BY <2>1, <2>3
<1> DEFINE x1 == [old EXCEPT ![r].route_stops = arr]
           x2 == [x1 EXCEPT ![r].route_num_stops = num]
           x3 == [x2 EXCEPT ![r].total_cost = @ + add]
<1>3. new = x3
  <2>1. [old EXCEPT ![r].route_stops = arr, ![r].route_num_stops = num, ![r].total_cost = @ + add] = x3
    OBVIOUS
  <2> QED BY <2>1, Zenon DEF ExtendsTo
<1>4. /\ DOMAIN x1 = 1 .. n /\ x1 = [j \in 1 .. n |-> x1[j]]
      /\ \A j \in 1 .. n : j # r => x1[j] = old[j]
      /\ x1[r] = [name |-> a, route_stops |-> arr, route_num_stops |-> c, total_cost |-> d]
  <2>1. DOMAIN x1 = 1 .. n /\ x1 = [j \in 1 .. n |-> x1[j]] /\ (\A j \in 1 .. n : j # r => x1[j] = old[j])
        /\ x1[r] = [old[r] EXCEPT !.route_stops = arr]
    BY <1>1, <1>2
  <2> HIDE DEF x1
  <2>2. [old[r] EXCEPT !.route_stops = arr] = [name |-> a, route_stops |-> arr, route_num_stops |-> c, total_cost |-> d]
    BY <1>1, <1>2
  <2> QED BY <1>1, <1>2, <2>1, <2>2
<1> HIDE DEF x1
<1>5. /\ DOMAIN x2 = 1 .. n /\ x2 = [j \in 1 .. n |-> x2[j]]
      /\ \A j \in 1 .. n : j # r => x2[j] = old[j]
      /\ x2[r] = [name |-> a, route_stops |-> arr, route_num_stops |-> num, total_cost |-> d]
  <2>1. DOMAIN x2 = 1 .. n /\ x2 = [j \in 1 .. n |-> x2[j]] /\ (\A j \in 1 .. n : j # r => x2[j] = x1[j])
        /\ x2[r] = [x1[r] EXCEPT !.route_num_stops = num]
    BY <1>1, <1>4
  <2> HIDE DEF x2
  <2>2. [x1[r] EXCEPT !.route_num_stops = num]
          = [name |-> a, route_stops |-> arr, route_num_stops |-> num, total_cost |-> d]
    <3>1. x1[r] = [name |-> a, route_stops |-> arr, route_num_stops |-> c, total_cost |-> d]
      BY <1>4
    <3> QED BY <3>1
  <2> QED BY <1>1, <1>4, <2>1, <2>2
<1> HIDE DEF x2
<1>6. /\ DOMAIN x3 = 1 .. n /\ x3 = [j \in 1 .. n |-> x3[j]]
      /\ \A j \in 1 .. n : j # r => x3[j] = old[j]
      /\ x3[r] = [name |-> a, route_stops |-> arr, route_num_stops |-> num, total_cost |-> d + add]
  <2>1. DOMAIN x3 = 1 .. n /\ x3 = [j \in 1 .. n |-> x3[j]] /\ (\A j \in 1 .. n : j # r => x3[j] = x2[j])
        /\ x3[r] = [x2[r] EXCEPT !.total_cost = @ + add]
    BY <1>1, <1>5
  <2> HIDE DEF x3
  <2>2. [x2[r] EXCEPT !.total_cost = @ + add]
          = [name |-> a, route_stops |-> arr, route_num_stops |-> num, total_cost |-> d + add]
    <3>1. x2[r] = [name |-> a, route_stops |-> arr, route_num_stops |-> num, total_cost |-> d]
      BY <1>5
    <3> QED BY <3>1
  <2> QED BY <1>1, <1>5, <2>1, <2>2
<1> HIDE DEF x3
<1>7. x3[r] \in RouteRecs1
  <2>1. PICK e \in Nat : e = d + add
    BY <1>2
  <2>2. x3[r] = [name |-> a, route_stops |-> arr, route_num_stops |-> num, total_cost |-> e]
    BY <1>6, <2>1
  <2> DEFINE A == [1 .. MaxCost + 1 -> Nat]
  <2>3. arr \in A
    OBVIOUS
  <2> HIDE DEF A
  <2>4. x3[r] \in [name : Lines, route_stops : A, route_num_stops : Nat, total_cost : Nat]
    BY <1>2, <2>2, <2>3
  <2> QED BY <2>4 DEF RouteRecs1, A
<1>8. x3 \in [1 .. n -> RouteRecs1]
  BY <1>1, <1>6, <1>7
<1>9. x3 \in Seq(RouteRecs1) /\ Len(x3) = n
  BY <1>8, LenProperties
<1>10. old[r].name = a /\ old[r].total_cost = d
  BY <1>2
<1> QED BY <1>1, <1>3, <1>6, <1>9, <1>10 DEF Extended1

\* One line more through a stop.
Raised(new, old, p) ==
  /\ new \in Seq(StopRecs1) /\ Len(new) = Len(old)
  /\ \A s \in 1 .. Len(old) : /\ new[s].name = old[s].name
                              /\ new[s].num_routes = old[s].num_routes + IF s = p THEN 1 ELSE 0

LEMMA RaisedIs ==
  ASSUME NEW old \in Seq(StopRecs1), NEW p \in 1 .. Len(old), NEW new, new = [old EXCEPT ![p].num_routes = @ + 1]
  PROVE  Raised(new, old, p)
<1>1. PICK n \in Nat : n = Len(old) /\ DOMAIN old = 1 .. n /\ \A j \in 1 .. n : old[j] \in StopRecs1
  BY LenProperties
<1>2. PICK a \in Stops, b \in Nat : old[p] = [name |-> a, num_routes |-> b]
  <2>1. old[p] \in StopRecs1
    BY <1>1
  <2> QED BY <2>1 DEF StopRecs1
<1>3. new = [old EXCEPT ![p] = [old[p] EXCEPT !.num_routes = @ + 1]]
  OBVIOUS
<1>4. [old[p] EXCEPT !.num_routes = @ + 1] = [name |-> a, num_routes |-> b + 1]
  BY <1>2
<1>5. [name |-> a, num_routes |-> b + 1] \in StopRecs1
  BY DEF StopRecs1
<1>6. new \in [1 .. n -> StopRecs1] /\ new[p] = [name |-> a, num_routes |-> b + 1]
      /\ \A s \in 1 .. n : s # p => new[s] = old[s]
  BY <1>1, <1>3, <1>4, <1>5
<1>7. new \in Seq(StopRecs1) /\ Len(new) = n
  BY <1>6, LenProperties
<1>8. ASSUME NEW s \in 1 .. n
      PROVE  new[s].name = old[s].name /\ new[s].num_routes = old[s].num_routes + IF s = p THEN 1 ELSE 0
  <2>1. CASE s = p
    BY <1>2, <1>6, <2>1
  <2>2. CASE s # p
    <3>1. PICK v \in Nat : v = old[s].num_routes
      BY <1>1 DEF StopRecs1
    <3>2. v + 0 = v
      OBVIOUS
    <3> QED BY <1>6, <2>2, <3>1, <3>2
  <2> QED BY <2>1, <2>2
<1> QED BY <1>1, <1>7, <1>8 DEF Raised

\* The names of the stops stay.
Keeps(new, old) == Len(new) = Len(old) /\ \A s \in 1 .. Len(old) : new[s].name = old[s].name

LEMMA TwinsGrown ==
  ASSUME NEW r, NEW conn, Grows(r, conn), Twins, ~parted, conn.cost # 0, Spent(conns2) + conn.cost <= MaxCost,
         NEW nodes \in Seq(Nodes), Straight(nodes),
         Len(nodes) <= IF Len(routes2[r].nodes) = 0 THEN 2 ELSE Len(routes2[r].nodes) + 1,
         Extended(routes2', routes2, r, nodes, conn.cost),
         NEW arr, Extended1(routes1', routes1, r, arr, Len(nodes), conn.cost), Places(arr, nodes, stops2),
         Keeps(stops2', stops2), TwinStops(stops1', stops2')
  PROVE  TwinsOf(stops1', routes1', stops2', routes2', conns2')
<1>1. /\ Network /\ r \in 1 .. Len(routes2) /\ conn \in Conns /\ conns2' = L!(+)(conns2, L!SetToBag({conn}))
      /\ conn.cost \in Nat /\ Len(routes2[r].nodes) \in Nat
  BY GrowsHas
<1>2. /\ TwinRoutes(routes1, routes2, stops2) /\ IsFiniteSet(DOMAIN conns2)
      /\ \A j \in 1 .. Len(routes2) : Straight(routes2[j].nodes) /\ Paid(routes2[j].nodes, conns2)
      /\ routes1 \in Seq(RouteRecs1) /\ Len(routes1) = Len(routes2)
  BY <1>1, TwinsHave
<1>3. PICK n \in Nat, m \in Nat : n = Len(routes2) /\ m = Len(stops2)
  BY <1>1, NetworkHas
<1>4. conns2 \in Bags /\ \A j \in 1 .. n : Fine(routes2[j], conns2)
  BY <1>1, <1>3, NetworkHas
<1>5. /\ IsFiniteSet(DOMAIN conns2') /\ Spent(conns2) \in Nat /\ Spent(conns2') \in Nat
      /\ Spent(conns2) + 1 <= Spent(conns2')
  BY <1>1, <1>2, <1>4, SpentGrows
<1>6. /\ Len(routes2') = n /\ (\A j \in 1 .. n : j # r => routes2'[j] = routes2[j])
      /\ routes2'[r].name = routes2[r].name /\ routes2'[r].cost = routes2[r].cost + conn.cost
      /\ routes2'[r].nodes = nodes /\ r \in 1 .. n
  BY <1>1, <1>3 DEF Extended
<1>7. /\ routes1' \in Seq(RouteRecs1) /\ Len(routes1') = n /\ (\A j \in 1 .. n : j # r => routes1'[j] = routes1[j])
      /\ routes1'[r].name = routes1[r].name /\ routes1'[r].total_cost = routes1[r].total_cost + conn.cost
      /\ routes1'[r].route_num_stops = Len(nodes) /\ routes1'[r].route_stops = arr
  BY <1>2, <1>3 DEF Extended1
<1>8. \A x, y : Places(x, y, stops2) => Places(x, y, stops2')
  <2> SUFFICES ASSUME NEW x, NEW y, Places(x, y, stops2)
               PROVE  Places(x, y, stops2')
    OBVIOUS
  <2>1. /\ Len(stops2) \in Nat /\ Len(stops2') \in Nat /\ Len(stops2') >= Len(stops2)
        /\ \A s \in 1 .. Len(stops2) : stops2'[s].name = stops2[s].name
    BY <1>3 DEF Keeps
  <2> QED BY <2>1, PlacesKept
<1>9. ASSUME NEW j \in 1 .. n
      PROVE  TwinRoute(routes1'[j], routes2'[j], stops2')
  <2>1. /\ routes1[j].name = routes2[j].name /\ routes1[j].total_cost = routes2[j].cost
        /\ routes1[j].route_num_stops = Len(routes2[j].nodes)
        /\ Places(routes1[j].route_stops, routes2[j].nodes, stops2)
    BY <1>2, <1>3 DEF TwinRoutes, TwinRoute
  <2>2. CASE j = r
    BY <1>6, <1>7, <1>8, <2>1, <2>2 DEF TwinRoute
  <2>3. CASE j # r
    BY <1>6, <1>7, <1>8, <2>1, <2>3 DEF TwinRoute
  <2> QED BY <2>2, <2>3
<1>10. TwinRoutes(routes1', routes2', stops2')
  BY <1>6, <1>7, <1>9 DEF TwinRoutes
<1>11. ASSUME NEW j \in 1 .. n
       PROVE  Straight(routes2'[j].nodes) /\ Paid(routes2'[j].nodes, conns2')
  <2>1. Paid(routes2[j].nodes, conns2) /\ Straight(routes2[j].nodes)
    BY <1>2, <1>3
  <2>2. CASE j = r
    <3>1. PICK a \in Nat, b \in Nat, c \in Nat, d \in Nat, e \in Nat :
             a = Len(routes2[r].nodes) /\ b = Len(nodes) /\ c = Spent(conns2) /\ d = Spent(conns2') /\ e = conn.cost
      BY <1>1, <1>5, LenProperties
    <3>2. a <= c + 1 /\ b <= (IF a = 0 THEN 2 ELSE a + 1) /\ c + 1 <= d /\ c + e <= MaxCost /\ e # 0 /\ MaxCost \in Nat
      BY <1>5, <2>1, <2>2, <3>1, NetworkAssumption DEF Paid
    <3>3. b <= d + 1 /\ b <= MaxCost + 1
      BY <3>2
    <3> QED BY <1>6, <2>2, <3>1, <3>3 DEF Paid
  <2>3. CASE j # r
    <3>1. PICK a \in Nat, c \in Nat, d \in Nat :
             a = Len(routes2[j].nodes) /\ c = Spent(conns2) /\ d = Spent(conns2')
      <4>1. Len(routes2[j].nodes) \in Nat
        BY <1>4, PathHas DEF Fine, Sound
      <4> QED BY <1>5, <4>1
    <3>2. a <= c + 1 /\ c + 1 <= d /\ a <= MaxCost + 1
      BY <1>5, <2>1, <3>1 DEF Paid
    <3>3. a <= d + 1
      BY <3>2
    <3> QED BY <1>6, <2>1, <2>3, <3>1, <3>2, <3>3 DEF Paid
  <2> QED BY <2>2, <2>3
<1> QED BY <1>5, <1>6, <1>10, <1>11 DEF TwinsOf

\* Each name is once among the stops, so that an index stands for one.
LEMMA SamePlace ==
  ASSUME Network, NEW stop, L!IndexOf(stops2, stop) # 0, NEW j \in 1 .. Len(stops2)
  PROVE  stops2[j].name = stop <=> j = L!IndexOf(stops2, stop)
<1>1. PICK k : k = L!IndexOf(stops2, stop)
  OBVIOUS
<1>2. k \in 1 .. Len(stops2) /\ stops2[k].name = stop
  BY <1>1, NetworkHas, IndexOfFacts
<1>3. Distinct(stops2)
  BY NetworkHas
<1> QED BY <1>1, <1>2, <1>3 DEF Distinct

LEMMA OnLine ==
  ASSUME Network, NEW nodes \in Seq(Nodes), NEW arr, Places(arr, nodes, stops2),
         NEW stop, L!IndexOf(stops2, stop) # 0
  PROVE  T!IsStopInRoute(arr, Len(nodes), L!IndexOf(stops2, stop)) <=> Times(StopsOf(nodes), stop) > 0
<1>1. PICK k : k = L!IndexOf(stops2, stop)
  OBVIOUS
<1>2. \A i \in 1 .. Len(nodes) : arr[i] = k <=> nodes[i].stop = stop
  BY <1>1, SamePlace DEF Places
<1>3. /\ StopsOf(nodes) \in Seq(Stops) /\ Len(StopsOf(nodes)) = Len(nodes)
      /\ \A i \in 1 .. Len(nodes) : StopsOf(nodes)[i] = nodes[i].stop
  BY StopsFacts
<1>4. /\ Times(StopsOf(nodes), stop) \in Nat
      /\ Times(StopsOf(nodes), stop) = 0 <=> \A i \in 1 .. Len(StopsOf(nodes)) : StopsOf(nodes)[i] # stop
  BY ONLY <1>3, TimesBound
<1>5. Times(StopsOf(nodes), stop) > 0 <=> \E i \in 1 .. Len(nodes) : nodes[i].stop = stop
  BY <1>3, <1>4
<1>6. T!IsStopInRoute(arr, Len(nodes), k) <=> \E i \in 1 .. Len(nodes) : arr[i] = k
  BY Zenon DEF T!IsStopInRoute
<1> QED BY <1>1, <1>2, <1>5, <1>6

Raised2(new, old, p) ==
  /\ new \in Seq(StopRecs) /\ Len(new) = Len(old)
  /\ \A s \in 1 .. Len(old) : /\ new[s].name = old[s].name
                              /\ new[s].numRoutes = old[s].numRoutes + IF s = p THEN 1 ELSE 0

LEMMA Raised2Is ==
  ASSUME NEW old \in Seq(StopRecs), NEW p \in 1 .. Len(old), NEW new, new = [old EXCEPT ![p].numRoutes = @ + 1]
  PROVE  Raised2(new, old, p)
<1>1. PICK n \in Nat : n = Len(old) /\ DOMAIN old = 1 .. n /\ \A j \in 1 .. n : old[j] \in StopRecs
  BY LenProperties
<1> DEFINE t == [old[p] EXCEPT !.numRoutes = @ + 1]
<1>2. t \in StopRecs /\ t.name = old[p].name /\ t.numRoutes = old[p].numRoutes + 1
  BY <1>1, OneMoreLine
<1>3. new = [old EXCEPT ![p] = t]
  OBVIOUS
<1> HIDE DEF t
<1>4. new \in [1 .. n -> StopRecs] /\ new[p] = t /\ \A s \in 1 .. n : s # p => new[s] = old[s]
  BY <1>1, <1>2, <1>3
<1>5. new \in Seq(StopRecs) /\ Len(new) = n
  BY <1>4, LenProperties
<1>6. ASSUME NEW s \in 1 .. n
      PROVE  new[s].name = old[s].name /\ new[s].numRoutes = old[s].numRoutes + IF s = p THEN 1 ELSE 0
  <2>1. CASE s = p
    BY <1>2, <1>4, <2>1
  <2>2. CASE s # p
    <3>1. PICK v \in Nat : v = old[s].numRoutes
      BY <1>1 DEF StopRecs
    <3>2. v + 0 = v
      OBVIOUS
    <3> QED BY <1>4, <2>2, <3>1, <3>2
  <2> QED BY <2>1, <2>2
<1> QED BY <1>1, <1>5, <1>6 DEF Raised2

\* Both count a stop that comes to a line when it was not on it.
LEMMA CountTwins ==
  ASSUME Network, Twins, ~parted, NEW r \in 1 .. Len(routes2), NEW stop, NEW p, p = L!IndexOf(stops2, stop), p # 0,
         NEW on, on <=> Times(StopsOf(routes2[r].nodes), stop) > 0,
         stops1' = IF on THEN stops1 ELSE T!Through(p), stops2' = L!Count(r, stop)
  PROVE  TwinStops(stops1', stops2') /\ Keeps(stops2', stops2)
<1>1. stops2 \in Seq(StopRecs) /\ routes2[r].nodes \in Seq(Nodes) /\ Len(stops2) \in Nat
  <2>1. routes2[r] \in RouteRecs
    BY NetworkHas, LenProperties
  <2> QED BY <2>1, NetworkHas DEF RouteRecs
<1>2. L!StopInRoute(routes2[r].nodes, stop) = Times(StopsOf(routes2[r].nodes), stop)
  BY <1>1, StopsFacts
<1>3. p \in 1 .. Len(stops2)
  BY <1>1, IndexOfFacts
<1>4. /\ TwinStops(stops1, stops2) /\ stops1 \in Seq(StopRecs1) /\ Len(stops1) = Len(stops2)
      /\ \A s \in 1 .. Len(stops2) : TwinStop(stops1[s], stops2[s])
  BY TwinsHave
<1>5. stops2' = IF on THEN stops2 ELSE [stops2 EXCEPT ![p].numRoutes = @ + 1]
  BY <1>2, Zenon DEF L!Count
<1>6. CASE on
  BY <1>4, <1>5, <1>6 DEF Keeps
<1>7. CASE ~on
  <2>1. stops1' = [stops1 EXCEPT ![p].num_routes = @ + 1] /\ stops2' = [stops2 EXCEPT ![p].numRoutes = @ + 1]
    BY <1>5, <1>7, Zenon DEF T!Through
  <2>2. Raised(stops1', stops1, p) /\ Raised2(stops2', stops2, p)
    BY <1>1, <1>3, <1>4, <2>1, RaisedIs, Raised2Is
  <2>3. \A s \in 1 .. Len(stops2) : TwinStop(stops1'[s], stops2'[s])
    BY <1>4, <2>2 DEF TwinStop, Raised, Raised2
  <2> QED BY <1>4, <2>2, <2>3 DEF TwinStops, Raised, Raised2, Keeps
<1> QED BY <1>6, <1>7

\* A connection on a line, as both programs have it.
Links(r, conn) ==
  /\ Grows(r, conn) /\ Twins /\ ~parted /\ conn.cost # 0 /\ Spent(conns2) + conn.cost <= MaxCost
Place(stop) == L!IndexOf(stops2, stop)

LEMMA LinksHas ==
  ASSUME NEW r, NEW conn, Links(r, conn)
  PROVE  /\ Network /\ Twins /\ ~parted /\ r \in 1 .. Len(routes2) /\ conn \in Conns
         /\ conn.cost \in Nat /\ routes2 \in Seq(RouteRecs) /\ routes1 \in Seq(RouteRecs1) /\ r \in 1 .. Len(routes1)
         /\ Place(conn.start) \in 1 .. Len(stops2) /\ Place(conn.end) \in 1 .. Len(stops2)
         /\ Path(routes2[r].nodes, conn.route)
         /\ routes2[r].nodes \in Seq(Nodes) /\ Len(routes2[r].nodes) \in Nat /\ Len(routes2[r].nodes) # 1
         /\ Straight(routes2[r].nodes) /\ Len(routes2[r].nodes) < MaxCost + 1 /\ 2 <= MaxCost + 1
         /\ Places(routes1[r].route_stops, routes2[r].nodes, stops2)
         /\ routes1[r].route_num_stops = Len(routes2[r].nodes)
         /\ routes1[r].route_stops \in [1 .. MaxCost + 1 -> Nat]
<1>1. Grows(r, conn) /\ Twins /\ ~parted /\ conn.cost # 0 /\ Spent(conns2) + conn.cost <= MaxCost
  BY DEF Links
<1>2. /\ Network /\ r \in 1 .. Len(routes2) /\ conn \in Conns /\ conn.route = routes2[r].name
      /\ L!IndexOf(stops2, conn.start) # 0 /\ L!IndexOf(stops2, conn.end) # 0
      /\ conn.cost \in Nat /\ routes2 \in Seq(RouteRecs)
      /\ routes2[r].nodes \in Seq(Nodes) /\ Len(routes2[r].nodes) \in Nat
      /\ Path(routes2[r].nodes, routes2[r].name) /\ Len(routes2[r].nodes) # 1
  BY <1>1, GrowsHas
<1>3. /\ routes1 \in Seq(RouteRecs1) /\ Len(routes1) = Len(routes2) /\ TwinRoute(routes1[r], routes2[r], stops2)
      /\ Straight(routes2[r].nodes) /\ Paid(routes2[r].nodes, conns2) /\ IsFiniteSet(DOMAIN conns2)
  BY <1>1, <1>2, TwinsHave
<1>4. stops2 \in Seq(StopRecs) /\ conns2 \in Bags
  BY <1>2, NetworkHas
<1>5. Place(conn.start) \in 1 .. Len(stops2) /\ Place(conn.end) \in 1 .. Len(stops2)
  BY <1>2, <1>4, IndexOfFacts DEF Place
<1>6. Len(routes2[r].nodes) < MaxCost + 1 /\ 2 <= MaxCost + 1
  <2>1. PICK a \in Nat, b \in Nat, c \in Nat : a = Len(routes2[r].nodes) /\ b = Spent(conns2) /\ c = conn.cost
    BY <1>2, <1>3, <1>4, SpentIsTokens
  <2>2. a <= b + 1 /\ b + c <= MaxCost /\ c # 0 /\ MaxCost \in Nat
    BY <1>1, <1>3, <2>1, NetworkAssumption DEF Paid
  <2>3. a < MaxCost + 1 /\ 2 <= MaxCost + 1
    BY <2>2
  <2> QED BY <2>1, <2>3
<1>7. routes1[r].route_stops \in [1 .. MaxCost + 1 -> Nat]
  <2> DEFINE A == [1 .. MaxCost + 1 -> Nat]
  <2>1. routes1[r] \in [name : Lines, route_stops : A, route_num_stops : Nat, total_cost : Nat]
    BY <1>2, <1>3, LenProperties DEF RouteRecs1
  <2> HIDE DEF A
  <2>2. routes1[r].route_stops \in A
    BY <2>1
  <2> QED BY <2>2 DEF A
<1> QED BY <1>1, <1>2, <1>3, <1>5, <1>6, <1>7 DEF TwinRoute

TwiceSet(old, r, f, t) == [[old EXCEPT ![r].route_stops[1] = f] EXCEPT ![r].route_stops[2] = t]
ArraySet(old, r, arr) == [old EXCEPT ![r].route_stops = arr]

LEMMA TwoStopsSet ==
  ASSUME NEW old \in Seq(RouteRecs1), NEW r \in 1 .. Len(old), NEW f, NEW t
  PROVE  TwiceSet(old, r, f, t) = ArraySet(old, r, [[old[r].route_stops EXCEPT ![1] = f] EXCEPT ![2] = t])
<1> DEFINE x == old[r]
           a1 == [x.route_stops EXCEPT ![1] = f]
           a2 == [a1 EXCEPT ![2] = t]
           y1 == [x EXCEPT !.route_stops = a1]
           y2 == [x EXCEPT !.route_stops = a2]
           x1 == [old EXCEPT ![r] = y1]
<1>1. DOMAIN old = 1 .. Len(old) /\ x \in RouteRecs1
  BY LenProperties
<1>2. x1[r] = y1
  BY <1>1
<1>3. y1.route_stops = a1 /\ \A a : [y1 EXCEPT !.route_stops = a] = [x EXCEPT !.route_stops = a]
  <2>1. DOMAIN x = {"name", "route_stops", "route_num_stops", "total_cost"}
    BY <1>1 DEF RouteRecs1
  <2> HIDE DEF x, a1
  <2> QED BY <2>1
<1>4. \A y : [x1 EXCEPT ![r] = y] = [old EXCEPT ![r] = y]
  BY <1>1
<1>5. [old EXCEPT ![r].route_stops[1] = f] = x1
  OBVIOUS
<1>6. [old EXCEPT ![r].route_stops = [[old[r].route_stops EXCEPT ![1] = f] EXCEPT ![2] = t]] = [old EXCEPT ![r] = y2]
  OBVIOUS
<1>7. [x1 EXCEPT ![r].route_stops[2] = t]
        = [x1 EXCEPT ![r] = [x1[r] EXCEPT !.route_stops = [x1[r].route_stops EXCEPT ![2] = t]]]
  OBVIOUS
<1> HIDE DEF x1, y1, x, a1
<1>8. [x1[r] EXCEPT !.route_stops = [x1[r].route_stops EXCEPT ![2] = t]] = y2
  BY <1>2, <1>3
<1> HIDE DEF y2
<1>9. [x1 EXCEPT ![r].route_stops[2] = t] = [old EXCEPT ![r] = y2]
  BY <1>4, <1>7, <1>8
<1> QED BY <1>5, <1>6, <1>9 DEF x, a1, TwiceSet, ArraySet

\* add_initial_stops_to_route and addInitialStopsToRoute.
LEMMA LinkFirstTwins ==
  ASSUME NEW r, NEW conn, Links(r, conn), L!LinkFirst(r, conn), conn.start # conn.end,
         T!LinkFirst(r, Place(conn.start), Place(conn.end), conn.cost)
  PROVE  TwinsOf(stops1', routes1', stops2', routes2', conns2')
<1> DEFINE f == Place(conn.start)
           t == Place(conn.end)
           cost == conn.cost
           old == routes1[r].route_stops
           arr == [[old EXCEPT ![1] = f] EXCEPT ![2] = t]
<1>1. /\ Network /\ Twins /\ ~parted /\ r \in 1 .. Len(routes2) /\ conn \in Conns
      /\ cost \in Nat /\ routes2 \in Seq(RouteRecs) /\ routes1 \in Seq(RouteRecs1) /\ r \in 1 .. Len(routes1)
      /\ f \in 1 .. Len(stops2) /\ t \in 1 .. Len(stops2)
      /\ 2 <= MaxCost + 1 /\ old \in [1 .. MaxCost + 1 -> Nat]
  BY LinksHas
<1>2. PICK nodes : TheFirst(nodes, conn)
  BY Zenon DEF TheFirst
<1>3. routes2[r].nodes = << >> /\ L!Extend(r, nodes, conn.cost) /\ FirstCounted(stops2', stops2, conn.start, conn.end)
  <2>1. /\ routes2[r].nodes = << >>
        /\ L!Extend(r, <<[L!NewNode(conn.start) EXCEPT !.right = conn],
                         [L!NewNode(conn.end) EXCEPT !.back = "node", !.left = conn]>>, conn.cost)
        /\ stops2' = [s \in DOMAIN stops2 |-> IF stops2[s].name \in {conn.start, conn.end}
                                              THEN [stops2[s] EXCEPT !.numRoutes = @ + 1] ELSE stops2[s]]
    BY Zenon DEF L!LinkFirst
  <2>2. L!Extend(r, nodes, conn.cost)
    BY <1>2, <2>1, Zenon DEF TheFirst
  <2> QED BY <2>1, <2>2, Zenon DEF FirstCounted
<1>4. /\ Path(nodes, conn.route) /\ Len(nodes) = 2 /\ nodes[1].stop = conn.start /\ nodes[2].stop = conn.end
      /\ nodes[1].back = "none" /\ nodes[2].back = "node" /\ nodes \in Seq(Nodes)
  BY <1>1, <1>2, PathFirst DEF Path
<1>5. \A i \in 1 .. 2 : i = 1 \/ i = 2
  OBVIOUS
<1>6. Straight(nodes)
  BY <1>4, <1>5 DEF Straight
<1>7. Extended(routes2', routes2, r, nodes, conn.cost)
  BY <1>1, <1>3, <1>4, ExtendIs
<1>8. PICK m \in Nat : m = Len(stops2) /\ m = Len(stops1) /\ DOMAIN stops2 = 1 .. m /\ \A s \in 1 .. m : stops2[s] \in StopRecs
  BY <1>1, NetworkHas, TwinsHave, LenProperties
<1>9. stops2[f].name = conn.start /\ stops2[t].name = conn.end /\ f # t
  <2>1. stops2[f].name = conn.start /\ stops2[t].name = conn.end
    BY <1>1, SamePlace DEF Place
  <2> QED BY <2>1
<1>10. \A s \in 1 .. m : (stops2[s].name = conn.start <=> s = f) /\ (stops2[s].name = conn.end <=> s = t)
  <2>1. L!IndexOf(stops2, conn.start) # 0 /\ L!IndexOf(stops2, conn.end) # 0
    BY <1>1, <1>8 DEF Place
  <2> QED BY <1>1, <1>8, <2>1, SamePlace DEF Place
<1> HIDE DEF f, t, cost, old
<1>11. T!LinkFirst(r, f, t, cost)
  BY DEF f, t, cost
<1>12. arr \in [1 .. MaxCost + 1 -> Nat] /\ arr[1] = f /\ arr[2] = t
  <2>1. 1 \in 1 .. MaxCost + 1 /\ 2 \in 1 .. MaxCost + 1 /\ f \in Nat /\ t \in Nat
    BY <1>1, <1>8, NetworkAssumption
  <2> QED BY <1>1, <2>1
<1>13. Places(arr, nodes, stops2)
  <2> HIDE DEF arr
  <2> QED BY <1>1, <1>4, <1>5, <1>9, <1>12 DEF Places
<1>14. ExtendsTo(routes1', routes1, r, arr, 2, cost)
  <2> DEFINE x1 == [routes1 EXCEPT ![r].route_stops[1] = f]
             x2 == [x1 EXCEPT ![r].route_stops[2] = t]
  <2>1. routes1' = [routes1 EXCEPT ![r].route_stops[1] = f, ![r].route_stops[2] = t,
                                   ![r].route_num_stops = 2, ![r].total_cost = @ + cost]
    BY <1>11, Zenon DEF T!LinkFirst
  <2>2. [routes1 EXCEPT ![r].route_stops[1] = f, ![r].route_stops[2] = t,
                        ![r].route_num_stops = 2, ![r].total_cost = @ + cost]
          = [x2 EXCEPT ![r].route_num_stops = 2, ![r].total_cost = @ + cost]
    OBVIOUS
  <2>3. x2 = [routes1 EXCEPT ![r].route_stops = arr]
    <3>1. TwiceSet(routes1, r, f, t) = ArraySet(routes1, r, arr)
      BY <1>1, TwoStopsSet DEF old
    <3> QED BY <3>1, Zenon DEF TwiceSet, ArraySet
  <2>4. [routes1 EXCEPT ![r].route_stops = arr, ![r].route_num_stops = 2, ![r].total_cost = @ + cost]
          = [[routes1 EXCEPT ![r].route_stops = arr] EXCEPT ![r].route_num_stops = 2, ![r].total_cost = @ + cost]
    OBVIOUS
  <2> HIDE DEF x2, arr
  <2> QED BY <2>1, <2>2, <2>3, <2>4 DEF ExtendsTo
<1>15. Extended1(routes1', routes1, r, arr, 2, cost)
  <2> HIDE DEF arr
  <2> QED BY <1>1, <1>12, <1>14, ExtendedIs
<1>16. Raised([stops1 EXCEPT ![f].num_routes = @ + 1], stops1, f)
       /\ Raised(stops1', [stops1 EXCEPT ![f].num_routes = @ + 1], t)
  <2> DEFINE mid == [stops1 EXCEPT ![f].num_routes = @ + 1]
  <2>1. stops1' = [stops1 EXCEPT ![f].num_routes = @ + 1, ![t].num_routes = @ + 1]
    BY <1>11, Zenon DEF T!LinkFirst
  <2>2. stops1' = [mid EXCEPT ![t].num_routes = @ + 1]
    <3>1. DOMAIN stops1 = 1 .. m /\ f \in 1 .. m /\ t \in 1 .. m
      BY <1>1, <1>8, TwinsHave, LenProperties
    <3>2. mid[t] = stops1[t]
      BY <1>9, <3>1
    <3>3. [stops1 EXCEPT ![f].num_routes = @ + 1, ![t].num_routes = @ + 1]
            = [mid EXCEPT ![t] = [stops1[t] EXCEPT !.num_routes = @ + 1]]
      BY <1>9, <3>1
    <3>4. [mid EXCEPT ![t].num_routes = @ + 1] = [mid EXCEPT ![t] = [mid[t] EXCEPT !.num_routes = @ + 1]]
      OBVIOUS
    <3>5. [stops1 EXCEPT ![f].num_routes = @ + 1, ![t].num_routes = @ + 1] = [mid EXCEPT ![t].num_routes = @ + 1]
      BY <3>2, <3>3, <3>4
    <3> QED BY <2>1, <3>5, Zenon
  <2>3. Raised(mid, stops1, f)
    BY <1>1, <1>8, TwinsHave, RaisedIs
  <2> HIDE DEF mid
  <2>4. mid \in Seq(StopRecs1) /\ Len(mid) = m
    BY <1>8, <2>3 DEF Raised
  <2>5. Raised(stops1', mid, t)
    BY <1>1, <1>8, <2>2, <2>4, RaisedIs
  <2> QED BY <2>3, <2>5 DEF mid
<1>17. /\ stops1' \in Seq(StopRecs1) /\ Len(stops1') = m
       /\ \A s \in 1 .. m : /\ stops1'[s].name = stops1[s].name
                            /\ stops1'[s].num_routes = stops1[s].num_routes + IF s \in {f, t} THEN 1 ELSE 0
  <2> DEFINE mid == [stops1 EXCEPT ![f].num_routes = @ + 1]
  <2> HIDE DEF mid
  <2>1. Raised(mid, stops1, f) /\ Raised(stops1', mid, t)
    BY <1>16 DEF mid
  <2>2. /\ stops1' \in Seq(StopRecs1) /\ Len(stops1') = m /\ Len(mid) = m
        /\ \A s \in 1 .. m : mid[s].name = stops1[s].name /\ stops1'[s].name = mid[s].name
    BY <1>8, <2>1 DEF Raised
  <2>3. ASSUME NEW s \in 1 .. m
        PROVE  stops1'[s].num_routes = stops1[s].num_routes + IF s \in {f, t} THEN 1 ELSE 0
    <3>1. PICK v \in Nat : v = stops1[s].num_routes
      <4>1. stops1[s] \in StopRecs1
        BY <1>1, <1>8, TwinsHave, LenProperties
      <4> QED BY <4>1 DEF StopRecs1
    <3>2. /\ mid[s].num_routes = v + (IF s = f THEN 1 ELSE 0)
          /\ stops1'[s].num_routes = mid[s].num_routes + (IF s = t THEN 1 ELSE 0)
      BY <1>8, <2>1, <2>2, <3>1 DEF Raised
    <3>3. v + (IF s = f THEN 1 ELSE 0) + (IF s = t THEN 1 ELSE 0) = v + IF s \in {f, t} THEN 1 ELSE 0
      BY <1>9
    <3> QED BY <3>1, <3>2, <3>3
  <2> QED BY <2>2, <2>3
<1>18. /\ stops2' \in [1 .. m -> StopRecs]
       /\ \A s \in 1 .. m : /\ stops2'[s].name = stops2[s].name
                            /\ stops2'[s].numRoutes = stops2[s].numRoutes
                                 + IF stops2[s].name \in {conn.start, conn.end} THEN 1 ELSE 0
  BY <1>3, <1>8, FirstCountedAt
<1>19. Keeps(stops2', stops2) /\ Len(stops2') = m
  <2>1. Len(stops2') = m
    BY <1>18, LenProperties
  <2> QED BY <1>8, <1>18, <2>1 DEF Keeps
<1>20. TwinStops(stops1', stops2')
  <2>1. \A s \in 1 .. m : TwinStop(stops1[s], stops2[s])
    BY <1>1, <1>8, TwinsHave
  <2>2. \A s \in 1 .. m : s \in {f, t} <=> stops2[s].name \in {conn.start, conn.end}
    BY <1>10
  <2>3. \A s \in 1 .. m : TwinStop(stops1'[s], stops2'[s])
    BY <1>17, <1>18, <2>1, <2>2 DEF TwinStop
  <2> QED BY <1>17, <1>19, <2>3 DEF TwinStops
<1>21. Len(nodes) <= IF Len(routes2[r].nodes) = 0 THEN 2 ELSE Len(routes2[r].nodes) + 1
  <2>1. Len(<< >>) = 0
    OBVIOUS
  <2> QED BY <1>3, <1>4, <2>1
<1>22. Extended1(routes1', routes1, r, arr, Len(nodes), conn.cost)
  BY <1>4, <1>15 DEF cost
<1> HIDE DEF arr
<1> QED BY <1>4, <1>6, <1>7, <1>13, <1>19, <1>20, <1>21, <1>22, TwinsGrown DEF Links

\* The stops of a line that got one more at place k.
LEMMA JoinedStops ==
  ASSUME NEW old \in Seq(Nodes), NEW new \in Seq(Nodes), NEW n \in Nat, Len(old) = n, NEW k \in 1 .. n + 1, NEW stop,
         Joined(old, new, k, stop)
  PROVE  /\ Len(new) = n + 1 /\ new[k].stop = stop
         /\ \A j \in 1 .. n : new[Beyond(k, j)].stop = old[j].stop
<1>1. Len(new) = n + 1 /\ Inserted(StopsOf(old), StopsOf(new), k, stop)
  BY DEF Joined
<1>2. Len(StopsOf(old)) = n /\ \A j \in 1 .. n : StopsOf(old)[j] = old[j].stop
  BY StopsFacts
<1>3. \A j \in 1 .. n + 1 : StopsOf(new)[j] = new[j].stop
  BY <1>1, StopsFacts
<1>4. \A j \in 1 .. n : Beyond(k, j) \in 1 .. n + 1
  BY DEF Beyond
<1>5. StopsOf(new)[k] = stop /\ \A j \in 1 .. n : StopsOf(new)[Beyond(k, j)] = StopsOf(old)[j]
  BY <1>1, <1>2 DEF Inserted
<1> QED BY <1>1, <1>2, <1>3, <1>4, <1>5

\* Both programs ask whether the line has the stop, and which is its last one.
LEMMA LastPlace ==
  ASSUME NEW r, NEW conn, Links(r, conn), NEW n \in Nat, n = Len(routes2[r].nodes), n > 0
  PROVE  /\ T!Destination(r) = routes1[r].route_stops[n]
         /\ routes1[r].route_stops[n] = Place(conn.start) <=> L!Last(routes2[r].nodes).stop = conn.start
<1>1. /\ Network /\ Place(conn.start) \in 1 .. Len(stops2)
      /\ Places(routes1[r].route_stops, routes2[r].nodes, stops2) /\ routes1[r].route_num_stops = n
  BY LinksHas
<1>2. T!Destination(r) = routes1[r].route_stops[n]
  BY <1>1, Zenon DEF T!Destination
<1>3. L!Last(routes2[r].nodes) = routes2[r].nodes[n]
  BY LastIs
<1>4. n \in 1 .. n
  OBVIOUS
<1>5. routes1[r].route_stops[n] \in 1 .. Len(stops2) /\ stops2[routes1[r].route_stops[n]].name = routes2[r].nodes[n].stop
  BY <1>1, <1>4 DEF Places
<1>6. Place(conn.start) # 0
  BY <1>1, NetworkHas
<1>7. routes1[r].route_stops[n] = Place(conn.start) <=> routes2[r].nodes[n].stop = conn.start
  BY <1>1, <1>5, <1>6, SamePlace DEF Place
<1> QED BY <1>2, <1>3, <1>7

\* add_stop at the end and addStopToRouteEnd.
LEMMA LinkEndTwins ==
  ASSUME NEW r, NEW conn, Links(r, conn), L!LinkEnd(r, conn),
         T!LinkEnd(r, Place(conn.start), Place(conn.end), conn.cost)
  PROVE  TwinsOf(stops1', routes1', stops2', routes2', conns2')
<1> DEFINE f == Place(conn.start)
           t == Place(conn.end)
           cost == conn.cost
           path == routes2[r].nodes
           old == routes1[r].route_stops
<1>1. /\ Network /\ Twins /\ ~parted /\ r \in 1 .. Len(routes2) /\ conn \in Conns
      /\ cost \in Nat /\ routes2 \in Seq(RouteRecs) /\ routes1 \in Seq(RouteRecs1) /\ r \in 1 .. Len(routes1)
      /\ f \in 1 .. Len(stops2) /\ t \in 1 .. Len(stops2) /\ Path(path, conn.route)
      /\ path \in Seq(Nodes) /\ Straight(path) /\ Places(old, path, stops2)
      /\ routes1[r].route_num_stops = Len(path) /\ old \in [1 .. MaxCost + 1 -> Nat]
      /\ Len(path) < MaxCost + 1 /\ conn.route = routes2[r].name
  BY LinksHas, GrowsHas DEF Links
<1>2. PICK n \in Nat : n = Len(path)
  BY LinksHas
<1>3. PICK nodes : OneMore(nodes, path, conn)
  BY Zenon DEF OneMore
<1>4. path # << >> /\ L!Last(path).stop = conn.start /\ L!Extend(r, nodes, conn.cost) /\ stops2' = L!Count(r, conn.end)
  <2>1. /\ path # << >> /\ L!Last(path).stop = conn.start
        /\ L!Extend(r, Append([path EXCEPT ![Len(path)].right = conn],
                              [L!NewNode(conn.end) EXCEPT !.back = "node", !.left = conn]), conn.cost)
        /\ stops2' = L!Count(r, conn.end)
    BY Zenon DEF L!LinkEnd
  <2> QED BY <1>3, <2>1, Zenon DEF OneMore
<1>5. PICK m \in Nat : m = Len(stops2)
  BY <1>1, NetworkHas
<1> DEFINE arr == [old EXCEPT ![n + 1] = t]
           on == T!IsStopInRoute(old, n, t)
<1>6. /\ stops1' = (IF on THEN stops1 ELSE T!Through(t))
      /\ ExtendsTo(routes1', routes1, r, arr, n + 1, cost)
  <2>1. /\ stops1' = (IF T!IsStopInRoute(routes1[r].route_stops, routes1[r].route_num_stops, t) THEN stops1 ELSE T!Through(t))
        /\ routes1' = [routes1 EXCEPT ![r].route_stops[routes1[r].route_num_stops + 1] = t,
                                      ![r].route_num_stops = routes1[r].route_num_stops + 1, ![r].total_cost = @ + cost]
    BY Zenon DEF T!LinkEnd
  <2>2. routes1[r].route_num_stops = n
    BY <1>1, <1>2
  <2>3. /\ stops1' = (IF on THEN stops1 ELSE T!Through(t))
        /\ routes1' = [routes1 EXCEPT ![r].route_stops[n + 1] = t, ![r].route_num_stops = n + 1, ![r].total_cost = @ + cost]
    BY <2>1, <2>2, Zenon
  <2>4. [routes1 EXCEPT ![r].route_stops[n + 1] = t, ![r].route_num_stops = n + 1, ![r].total_cost = @ + cost]
          = [routes1 EXCEPT ![r].route_stops = arr, ![r].route_num_stops = n + 1, ![r].total_cost = @ + cost]
    OBVIOUS
  <2> HIDE DEF arr
  <2> QED BY <2>3, <2>4, Zenon DEF ExtendsTo
<1> HIDE DEF path, old, f, t, cost
<1>7. n > 0
  BY <1>1, <1>2, <1>4, EmptySeq
<1>8. path[n].stop = conn.start
  BY <1>2, <1>4, LastIs
<1>9. /\ Path(nodes, conn.route) /\ Joined(path, nodes, n + 1, conn.end)
      /\ nodes[1].back = path[1].back /\ nodes[n + 1].back = "node" /\ \A i \in 2 .. n : nodes[i].back = path[i].back
  BY <1>1, <1>2, <1>3, <1>7, <1>8, PathEnd, SMTT(40), ZenonT(40)
<1>10. nodes \in Seq(Nodes)
  BY <1>9 DEF Path
<1>11. /\ Len(nodes) = n + 1 /\ nodes[n + 1].stop = conn.end
       /\ \A j \in 1 .. n : nodes[j].stop = path[j].stop
  <2>1. n + 1 \in 1 .. n + 1 /\ \A j \in 1 .. n : Beyond(n + 1, j) = j
    BY DEF Beyond
  <2> QED BY <1>1, <1>2, <1>9, <1>10, <2>1, JoinedStops, SMTT(40), ZenonT(40)
<1>12. \A i \in 1 .. n + 1 : i = 1 \/ i \in 2 .. n \/ i = n + 1
  OBVIOUS
<1>13. Straight(nodes)
  <2>1. n + 1 # 1 /\ 1 \in 1 .. n /\ \A i \in 2 .. n : i # 1 /\ i \in 1 .. n
    BY <1>7
  <2> QED BY <1>1, <1>2, <1>9, <1>11, <1>12, <2>1 DEF Straight
<1>14. Extended(routes2', routes2, r, nodes, conn.cost)
  BY <1>1, <1>4, <1>10, ExtendIs DEF cost
<1>15. /\ arr \in [1 .. MaxCost + 1 -> Nat] /\ arr[n + 1] = t
       /\ \A i \in 1 .. n : arr[i] = old[i]
  <2>1. n + 1 \in 1 .. MaxCost + 1 /\ t \in Nat /\ \A i \in 1 .. n : i \in 1 .. MaxCost + 1 /\ i # n + 1
    BY <1>1, <1>2, <1>5, NetworkAssumption
  <2> QED BY <1>1, <2>1
<1> HIDE DEF arr
<1>16. Places(arr, nodes, stops2)
  <2>1. stops2[t].name = conn.end
    <3>1. t # 0
      BY <1>1, <1>5
    <3> QED BY <1>1, <3>1, SamePlace DEF Place, t
  <2>2. \A i \in 1 .. n + 1 : i \in 1 .. n \/ i = n + 1
    OBVIOUS
  <2> QED BY <1>1, <1>2, <1>11, <1>15, <2>1, <2>2 DEF Places
<1>17. Extended1(routes1', routes1, r, arr, n + 1, cost)
  BY <1>1, <1>6, <1>15, ExtendedIs, SMTT(40), ZenonT(40)
<1>18. on <=> Times(StopsOf(path), conn.end) > 0
  <2>1. t # 0
    BY <1>1, <1>5
  <2> QED BY <1>1, <1>2, <2>1, OnLine DEF t, Place
<1> HIDE DEF on
<1>19. TwinStops(stops1', stops2') /\ Keeps(stops2', stops2)
  <2>1. t # 0 /\ t = L!IndexOf(stops2, conn.end)
    BY <1>1, <1>5 DEF t, Place
  <2> QED BY <1>1, <1>4, <1>6, <1>18, <2>1, CountTwins DEF path
<1>20. Len(nodes) <= IF Len(path) = 0 THEN 2 ELSE Len(path) + 1
  BY <1>2, <1>7, <1>11
<1> QED BY <1>10, <1>11, <1>13, <1>14, <1>16, <1>17, <1>19, <1>20, TwinsGrown DEF Links, path, cost

\* add_stop at the beginning and addStopToRouteBeginning: the first program looks for the
\* stop among all but the last one of the line, which is another one.
LEMMA LinkBeginningTwins ==
  ASSUME NEW r, NEW conn, Links(r, conn), L!LinkBeginning(r, conn),
         routes2[r].nodes[1].stop = conn.end \/ L!Last(routes2[r].nodes).stop = conn.start,
         T!LinkBeginning(r, Place(conn.start), Place(conn.end), conn.cost)
  PROVE  TwinsOf(stops1', routes1', stops2', routes2', conns2')
<1> DEFINE f == Place(conn.start)
           t == Place(conn.end)
           cost == conn.cost
           path == routes2[r].nodes
           old == routes1[r].route_stops
<1>1. /\ Network /\ Twins /\ ~parted /\ r \in 1 .. Len(routes2) /\ conn \in Conns
      /\ cost \in Nat /\ routes2 \in Seq(RouteRecs) /\ routes1 \in Seq(RouteRecs1) /\ r \in 1 .. Len(routes1)
      /\ f \in 1 .. Len(stops2) /\ Path(path, conn.route)
      /\ path \in Seq(Nodes) /\ Straight(path) /\ Places(old, path, stops2)
      /\ routes1[r].route_num_stops = Len(path) /\ old \in [1 .. MaxCost + 1 -> Nat]
      /\ Len(path) < MaxCost + 1 /\ Len(path) # 1 /\ conn.route = routes2[r].name
  BY LinksHas, GrowsHas DEF Links
<1>2. PICK n \in Nat : n = Len(path)
  BY LinksHas
<1>3. PICK nodes : OneBefore(nodes, path, conn)
  BY Zenon DEF OneBefore
<1>4. path # << >> /\ L!Last(path).stop # conn.start /\ L!Extend(r, nodes, conn.cost) /\ stops2' = L!Count(r, conn.start)
  <2>1. /\ path # << >> /\ L!Last(path).stop # conn.start
        /\ L!Extend(r, <<[L!NewNode(conn.start) EXCEPT !.right = conn]>>
                         \o [path EXCEPT ![1].left = conn, ![1].back = "node"], conn.cost)
        /\ stops2' = L!Count(r, conn.start)
    BY Zenon DEF L!LinkBeginning
  <2> QED BY <1>3, <2>1, Zenon DEF OneBefore
<1>5. PICK m \in Nat : m = Len(stops2)
  BY <1>1, NetworkHas
<1>6. n > 0 /\ n > 1
  <2>1. path \in Seq(Nodes) /\ path # << >> /\ n = Len(path) /\ n # 1
    BY <1>1, <1>2, <1>4
  <2> HIDE DEF path
  <2>2. n # 0
    BY <2>1, EmptySeq
  <2> QED BY <2>1, <2>2
<1>7. path[1].stop = conn.end
  BY <1>4
<1>8. old[n] # f
  BY <1>2, <1>4, <1>6, LastPlace
<1> DEFINE shifted == T!Shift(old, n)
           arr == [shifted EXCEPT ![1] = f]
           on == T!IsStopInRoute(shifted, n, f)
<1>9. /\ stops1' = (IF on THEN stops1 ELSE T!Through(f))
      /\ ExtendsTo(routes1', routes1, r, arr, n + 1, cost)
  <2>1. /\ stops1' = (IF T!IsStopInRoute(T!Shift(routes1[r].route_stops, routes1[r].route_num_stops),
                                         routes1[r].route_num_stops, f)
                      THEN stops1 ELSE T!Through(f))
        /\ routes1' = [routes1 EXCEPT
                         ![r].route_stops = [T!Shift(routes1[r].route_stops, routes1[r].route_num_stops) EXCEPT ![1] = f],
                         ![r].route_num_stops = routes1[r].route_num_stops + 1, ![r].total_cost = @ + cost]
    BY Zenon DEF T!LinkBeginning
  <2>2. routes1[r].route_num_stops = n
    BY <1>1, <1>2
  <2>3. /\ stops1' = (IF on THEN stops1 ELSE T!Through(f))
        /\ routes1' = [routes1 EXCEPT ![r].route_stops = arr, ![r].route_num_stops = n + 1, ![r].total_cost = @ + cost]
    BY <2>1, <2>2, Zenon
  <2> QED BY <2>3, Zenon DEF ExtendsTo
<1> HIDE DEF path, old, f, t, cost
<1>10. /\ Path(nodes, conn.route) /\ Joined(path, nodes, 1, conn.start)
       /\ nodes[1].back = "none" /\ nodes[2].back = "node" /\ \A i \in 2 .. n : nodes[i + 1].back = path[i].back
  BY <1>1, <1>2, <1>3, <1>6, <1>7, PathBeginning
<1>11. nodes \in Seq(Nodes)
  BY <1>10 DEF Path
<1>12. /\ Len(nodes) = n + 1 /\ nodes[1].stop = conn.start
       /\ \A j \in 1 .. n : nodes[j + 1].stop = path[j].stop
  <2>1. 1 \in 1 .. n + 1 /\ \A j \in 1 .. n : Beyond(1, j) = j + 1
    BY DEF Beyond
  <2> QED BY <1>1, <1>2, <1>10, <1>11, <2>1, JoinedStops, SMTT(40), ZenonT(40)
<1>13. \A i \in 1 .. n + 1 : i = 1 \/ i = 2 \/ (i - 1 \in 2 .. n /\ i - 1 + 1 = i)
  OBVIOUS
<1>14. Straight(nodes)
  <2> SUFFICES ASSUME NEW i \in 1 .. n + 1
               PROVE  nodes[i].back = IF i = 1 THEN "none" ELSE "node"
    BY <1>12 DEF Straight
  <2>1. CASE i = 1
    BY <1>10, <2>1
  <2>2. CASE i = 2
    BY <1>10, <2>2
  <2>3. CASE i - 1 \in 2 .. n /\ i - 1 + 1 = i
    <3>1. path[i - 1].back = "node"
      <4>1. i - 1 \in 1 .. n /\ i - 1 # 1
        BY <2>3
      <4> QED BY <1>1, <1>2, <4>1 DEF Straight
    <3>2. nodes[i - 1 + 1].back = path[i - 1].back
      BY <1>10, <2>3
    <3>3. i # 1
      BY <2>3
    <3> QED BY <2>3, <3>1, <3>2, <3>3
  <2> QED BY <1>13, <2>1, <2>2, <2>3
<1>15. Extended(routes2', routes2, r, nodes, conn.cost)
  BY <1>1, <1>4, <1>11, ExtendIs DEF cost
<1>16. /\ shifted \in [1 .. MaxCost + 1 -> Nat] /\ shifted[1] = old[1]
       /\ \A i \in 2 .. n + 1 : shifted[i] = old[i - 1]
  <2>1. shifted = [i \in 1 .. MaxCost + 1 |-> IF i \in 2 .. n + 1 THEN old[i - 1] ELSE old[i]]
    BY <1>1 DEF T!Shift
  <2>2. MaxCost \in Nat /\ n < MaxCost + 1
    BY <1>1, <1>2, NetworkAssumption
  <2>3. \A i \in 2 .. n + 1 : i - 1 \in 1 .. MaxCost + 1 /\ i \in 1 .. MaxCost + 1
    BY <2>2
  <2>4. \A i \in 1 .. MaxCost + 1 : (IF i \in 2 .. n + 1 THEN old[i - 1] ELSE old[i]) \in Nat
    BY <1>1, <2>3
  <2>5. shifted \in [1 .. MaxCost + 1 -> Nat]
    BY <2>1, <2>4
  <2>6. 1 \in 1 .. MaxCost + 1 /\ 1 \notin 2 .. n + 1
    BY <2>2
  <2> HIDE DEF shifted
  <2> QED BY <2>1, <2>3, <2>5, <2>6
<1> HIDE DEF shifted
<1>17. /\ arr \in [1 .. MaxCost + 1 -> Nat] /\ arr[1] = f
       /\ \A i \in 1 .. n : arr[i + 1] = old[i]
  <2>1. 1 \in 1 .. MaxCost + 1 /\ f \in Nat
    BY <1>1, <1>5, NetworkAssumption
  <2>2. \A i \in 1 .. n : i + 1 \in 2 .. n + 1 /\ i + 1 # 1 /\ i + 1 - 1 = i /\ i + 1 \in 1 .. MaxCost + 1
    BY <1>1, <1>2, NetworkAssumption
  <2>3. \A i \in 1 .. n : arr[i + 1] = shifted[i + 1]
    BY <1>16, <2>2
  <2>4. \A i \in 1 .. n : shifted[i + 1] = old[i]
    <3> TAKE i \in 1 .. n
    <3>1. shifted[i + 1] = old[i + 1 - 1]
      BY <1>16, <2>2
    <3> QED BY <2>2, <3>1
  <2> QED BY <1>16, <2>1, <2>3, <2>4
<1> HIDE DEF arr
<1>18. Places(arr, nodes, stops2)
  <2>1. stops2[f].name = conn.start
    <3>1. f # 0
      BY <1>1, <1>5
    <3> QED BY <1>1, <3>1, SamePlace DEF Place, f
  <2>2. \A i \in 1 .. n + 1 : i = 1 \/ (i - 1 \in 1 .. n /\ i - 1 + 1 = i)
    OBVIOUS
  <2>3. ASSUME NEW i \in 1 .. n + 1
        PROVE  arr[i] \in 1 .. Len(stops2) /\ stops2[arr[i]].name = nodes[i].stop
    <3>1. CASE i = 1
      BY <1>1, <1>12, <1>17, <2>1, <3>1
    <3>2. CASE i - 1 \in 1 .. n /\ i - 1 + 1 = i
      <4>1. PICK j \in 1 .. n : i = j + 1
        BY <3>2
      <4>2. old[j] \in 1 .. Len(stops2) /\ stops2[old[j]].name = path[j].stop
        BY <1>1, <1>2 DEF Places
      <4> QED BY <1>12, <1>17, <4>1, <4>2
    <3> QED BY <2>2, <3>1, <3>2
  <2> QED BY <1>12, <2>3 DEF Places
<1>19. Extended1(routes1', routes1, r, arr, n + 1, cost)
  BY <1>1, <1>9, <1>17, ExtendedIs
<1>20. on <=> Times(StopsOf(path), conn.start) > 0
  <2>1. f # 0
    BY <1>1, <1>5
  <2>2. T!IsStopInRoute(old, n, f) <=> Times(StopsOf(path), conn.start) > 0
    BY <1>1, <1>2, <2>1, OnLine DEF f, Place
  <2>3. T!IsStopInRoute(old, n, f) <=> \E i \in 1 .. n : old[i] = f
    BY Zenon DEF T!IsStopInRoute
  <2>4. on <=> \E i \in 1 .. n : shifted[i] = f
    BY Zenon DEF T!IsStopInRoute
  <2>5. ASSUME NEW i \in 1 .. n, old[i] = f
        PROVE  \E j \in 1 .. n : shifted[j] = f
    <3>1. i # n /\ i + 1 \in 1 .. n /\ i + 1 \in 2 .. n + 1 /\ i + 1 - 1 = i
      BY <1>8, <2>5 DEF f, old
    <3>2. shifted[i + 1] = old[i + 1 - 1]
      BY <1>16, <3>1
    <3> QED BY <2>5, <3>1, <3>2
  <2>6. ASSUME NEW i \in 1 .. n, shifted[i] = f
        PROVE  \E j \in 1 .. n : old[j] = f
    <3>1. CASE i = 1
      BY <1>16, <2>6, <3>1
    <3>2. CASE i # 1
      <4>1. i \in 2 .. n + 1 /\ i - 1 \in 1 .. n
        BY <3>2
      <4> QED BY <1>16, <2>6, <4>1
    <3> QED BY <3>1, <3>2
  <2> QED BY <2>2, <2>3, <2>4, <2>5, <2>6
<1> HIDE DEF on
<1>21. TwinStops(stops1', stops2') /\ Keeps(stops2', stops2)
  <2>1. f # 0 /\ f = L!IndexOf(stops2, conn.start)
    BY <1>1, <1>5 DEF f, Place
  <2> QED BY <1>1, <1>4, <1>9, <1>20, <2>1, CountTwins DEF path
<1>22. Len(nodes) <= IF Len(path) = 0 THEN 2 ELSE Len(path) + 1
  BY <1>2, <1>6, <1>12
<1> QED BY <1>11, <1>12, <1>14, <1>15, <1>18, <1>19, <1>21, <1>22, TwinsGrown DEF Links, path, cost

\* The connection of both programs.
LEMMA LinkTwins ==
  ASSUME Network, Twins, ~parted, NEW route \in Lines, NEW from \in Stops, NEW to \in Stops, NEW cost \in Nat \ {0},
         Spent(conns2) + cost <= MaxCost, ~Round(route, from, to),
         L!Link(route, from, to, cost), T!Link(route, from, to, cost)
  PROVE  TwinsOf(stops1', routes1', stops2', routes2', conns2')
<1> DEFINE r == L!IndexOf(routes2, route)
           conn == L!NewConn(route, from, to, cost)
<1>1. /\ L!LinkValid(route, from, to) /\ conns2' = L!(+)(conns2, L!SetToBag({conn}))
      /\ L!LinkFirst(r, conn) \/ L!LinkEnd(r, conn) \/ L!LinkBeginning(r, conn)
  BY Zenon DEF L!Link
<1>2. /\ r # 0 /\ L!IndexOf(stops2, from) # 0 /\ L!IndexOf(stops2, to) # 0
      /\ routes2[r].numStops # 0 => routes2[r].nodes[1].stop = to \/ L!Last(routes2[r].nodes).stop = from
  BY <1>1, Zenon DEF L!LinkValid, L!Exists
<1>3. conn \in Conns /\ conn.route = route /\ conn.start = from /\ conn.end = to /\ conn.cost = cost
  BY DEF L!NewConn, Conns
<1>4. r \in 1 .. Len(routes2) /\ routes2[r].name = route
  BY <1>2, NetworkHas, IndexOfFacts
<1>5. from = to => routes2[r].nodes # << >>
  <2> SUFFICES ASSUME from = to, routes2[r].nodes = << >>
               PROVE  FALSE
    OBVIOUS
  <2>1. L!PrintStops(route) = [i \in DOMAIN routes2[r].nodes |-> routes2[r].nodes[i].stop]
    BY Zenon DEF L!PrintStops, L!Named
  <2>2. DOMAIN routes2[r].nodes = {}
    BY DEF Network
  <2>3. L!PrintStops(route) = << >>
    BY <2>1, <2>2
  <2> QED BY <2>3 DEF Round
<1>6. /\ T!LinkFirst(r, L!IndexOf(stops2, from), L!IndexOf(stops2, to), cost)
         \/ T!LinkEnd(r, L!IndexOf(stops2, from), L!IndexOf(stops2, to), cost)
         \/ T!LinkBeginning(r, L!IndexOf(stops2, from), L!IndexOf(stops2, to), cost)
  <2>1. /\ T!IndexOf(routes1, route) = r /\ T!IndexOf(stops1, from) = L!IndexOf(stops2, from)
        /\ T!IndexOf(stops1, to) = L!IndexOf(stops2, to)
    BY <1>2, SameIndexes
  <2>2. \/ T!LinkFirst(T!IndexOf(routes1, route), T!IndexOf(stops1, from), T!IndexOf(stops1, to), cost)
        \/ T!LinkEnd(T!IndexOf(routes1, route), T!IndexOf(stops1, from), T!IndexOf(stops1, to), cost)
        \/ T!LinkBeginning(T!IndexOf(routes1, route), T!IndexOf(stops1, from), T!IndexOf(stops1, to), cost)
    BY Zenon DEF T!Link
  <2> QED BY <2>1, <2>2, Zenon
<1> HIDE DEF r, conn
<1>7. Grows(r, conn)
  BY <1>1, <1>2, <1>3, <1>4 DEF Grows
<1>8. Links(r, conn)
  BY <1>3, <1>7 DEF Links
<1>9. /\ T!LinkFirst(r, Place(conn.start), Place(conn.end), conn.cost)
         \/ T!LinkEnd(r, Place(conn.start), Place(conn.end), conn.cost)
         \/ T!LinkBeginning(r, Place(conn.start), Place(conn.end), conn.cost)
  BY <1>3, <1>6, Zenon DEF Place
<1>10. PICK n \in Nat : n = Len(routes2[r].nodes) /\ routes1[r].route_num_stops = n /\ routes2[r].nodes \in Seq(Nodes)
                        /\ routes2[r].numStops = n
  BY <1>7, <1>8, LinksHas, GrowsHas
<1>11. routes2[r].nodes = << >> <=> n = 0
  BY <1>10, EmptySeq
<1>12. n # 0 => (T!Destination(r) = Place(conn.start) <=> L!Last(routes2[r].nodes).stop = conn.start)
  <2> SUFFICES ASSUME n # 0
               PROVE  T!Destination(r) = Place(conn.start) <=> L!Last(routes2[r].nodes).stop = conn.start
    OBVIOUS
  <2>1. n > 0
    BY <1>10
  <2> QED BY <1>8, <1>10, <2>1, LastPlace
<1>13. CASE n = 0
  <2>1. L!LinkFirst(r, conn)
    BY <1>1, <1>11, <1>13, Zenon DEF L!LinkEnd, L!LinkBeginning
  <2>2. T!LinkFirst(r, Place(conn.start), Place(conn.end), conn.cost)
    BY <1>9, <1>10, <1>13, Zenon DEF T!LinkEnd, T!LinkBeginning
  <2>3. conn.start # conn.end
    BY <1>3, <1>5, <1>11, <1>13 DEF r
  <2> QED BY <1>8, <2>1, <2>2, <2>3, LinkFirstTwins
<1>14. CASE n # 0 /\ L!Last(routes2[r].nodes).stop = conn.start
  <2>1. L!LinkEnd(r, conn)
    BY <1>1, <1>11, <1>14, Zenon DEF L!LinkFirst, L!LinkBeginning
  <2>2. T!LinkEnd(r, Place(conn.start), Place(conn.end), conn.cost)
    BY <1>9, <1>10, <1>12, <1>14, Zenon DEF T!LinkFirst, T!LinkBeginning
  <2> QED BY <1>8, <2>1, <2>2, LinkEndTwins
<1>15. CASE n # 0 /\ L!Last(routes2[r].nodes).stop # conn.start
  <2>1. L!LinkBeginning(r, conn)
    BY <1>1, <1>11, <1>15, Zenon DEF L!LinkFirst, L!LinkEnd
  <2>2. T!LinkBeginning(r, Place(conn.start), Place(conn.end), conn.cost)
    BY <1>9, <1>10, <1>12, <1>15, Zenon DEF T!LinkFirst, T!LinkEnd
  <2>3. routes2[r].nodes[1].stop = conn.end \/ L!Last(routes2[r].nodes).stop = conn.start
    BY <1>2, <1>3, <1>10, <1>15
  <2> QED BY <1>8, <2>1, <2>2, <2>3, LinkBeginningTwins
<1> QED BY <1>13, <1>14, <1>15

------------------------------------------------------------------------------
(* Both programs.                                                               *)
LEMMA InitTwins ==
  ASSUME Init
  PROVE  Twins
<1>1. /\ stops1 = << >> /\ routes1 = << >> /\ stops2 = << >> /\ routes2 = << >> /\ conns2 = << >> /\ parted = FALSE
  BY DEF Init
<1>2. Len(<< >>) = 0 /\ 1 .. 0 = {} /\ << >> \in Seq(StopRecs1) /\ << >> \in Seq(RouteRecs1)
  OBVIOUS
<1>3. IsFiniteSet(DOMAIN conns2)
  <2>1. DOMAIN << >> = {}
    OBVIOUS
  <2> QED BY <1>1, <2>1, FS_EmptySet
<1> QED BY <1>1, <1>2, <1>3 DEF Twins, TwinsOf, TwinStops, TwinRoutes

LEMMA PartTwins ==
  ASSUME Part
  PROVE  Twins'
BY DEF Part, Twins

LEMMA TwinsFrom ==
  ASSUME Twins, ~parted, parted' = parted, TwinsOf(stops1', routes1', stops2', routes2', conns2')
  PROVE  Twins'
BY DEF Twins

LEMMA PartedStays ==
  ASSUME Twins, parted, UNCHANGED first, UNCHANGED parted
  PROVE  Twins'
BY DEF Twins, first

LEMMA NextTwins ==
  ASSUME Network, Twins, [Next]_vars
  PROVE  Twins'
<1>1. CASE UNCHANGED vars
  BY <1>1 DEF vars, first, second, Twins, TwinsOf, TwinStops, TwinRoutes, TwinStop, TwinRoute, Places, Straight, Paid
<1>2. ASSUME NEW s \in Stops, NewStop(s)
      PROVE  Twins'
  <2>1. L!CreateStop(s) /\ (IF parted THEN UNCHANGED first ELSE T!CreateStop(s)) /\ UNCHANGED parted
    BY <1>2, Zenon DEF NewStop
  <2>2. CASE parted
    BY <2>1, <2>2, PartedStays
  <2>3. CASE ~parted
    BY <2>1, <2>3, CreateStopTwins, TwinsFrom
  <2> QED BY <2>2, <2>3
<1>3. ASSUME NEW s \in Stops, EndStop(s)
      PROVE  Twins'
  BY <1>3, PartTwins DEF EndStop
<1>4. ASSUME NEW l \in Lines, NewLine(l)
      PROVE  Twins'
  <2>1. L!CreateRoute(l) /\ (IF parted THEN UNCHANGED first ELSE T!CreateRoute(l)) /\ UNCHANGED parted
    BY <1>4, Zenon DEF NewLine
  <2>2. CASE parted
    BY <2>1, <2>2, PartedStays
  <2>3. CASE ~parted
    BY <2>1, <2>3, CreateRouteTwins, TwinsFrom
  <2> QED BY <2>2, <2>3
<1>5. ASSUME NEW l \in Lines, EndLine(l)
      PROVE  Twins'
  BY <1>5, PartTwins DEF EndLine
<1>6. ASSUME NEW l \in Lines, NEW from \in Stops, NEW to \in Stops, NEW cost \in Costs, NewLink(l, from, to, cost)
      PROVE  Twins'
  <2>1. /\ Spent(conns2) + cost <= MaxCost /\ L!Link(l, from, to, cost)
        /\ IF parted THEN UNCHANGED <<first, parted>>
           ELSE IF Round(l, from, to) THEN Part ELSE T!Link(l, from, to, cost) /\ UNCHANGED parted
    BY <1>6, Zenon DEF NewLink, Spent
  <2>2. cost \in Nat \ {0}
    BY NetworkAssumption
  <2>3. CASE parted
    BY <2>1, <2>3, PartedStays
  <2>4. CASE ~parted /\ Round(l, from, to)
    BY <2>1, <2>4, PartTwins
  <2>5. CASE ~parted /\ ~Round(l, from, to)
    BY <2>1, <2>2, <2>5, LinkTwins, TwinsFrom
  <2> QED BY <2>3, <2>4, <2>5
<1>7. CASE EndAll
  BY <1>7, PartTwins DEF EndAll
<1> QED BY <1>1, <1>2, <1>3, <1>4, <1>5, <1>6, <1>7, Zenon DEF Next

\* As long as both programs are asked, what the first one keeps in its arrays is what the
\* second one keeps in its lists.
THEOREM TwinsInvariance == Spec => [](Network /\ Twins)
<1>1. Init => Network /\ Twins
  BY InitNetwork, InitTwins
<1>2. Network /\ Twins /\ [Next]_vars => (Network /\ Twins)'
  BY NextNetwork, NextTwins
<1> QED BY <1>1, <1>2, PTL DEF Spec

LEMMA CountBound ==
  ASSUME Network, NEW s \in 1 .. Len(stops2)
  PROVE  stops2[s].numRoutes \in 0 .. Len(routes2)
<1>1. PICK n \in Nat : n = Len(routes2) /\ Counted(stops2, routes2)
  BY NetworkHas
<1>2. PassSet(routes2, stops2[s].name) \subseteq 1 .. n
  BY <1>1 DEF PassSet
<1>3. IsFiniteSet(1 .. n) /\ Cardinality(1 .. n) = n
  <2>1. 1 \in Int /\ n \in Int /\ n - 1 + 1 = n /\ (1 > n => n = 0)
    OBVIOUS
  <2> QED BY <2>1, FS_Interval
<1>4. Cardinality(PassSet(routes2, stops2[s].name)) <= n /\ Cardinality(PassSet(routes2, stops2[s].name)) \in Nat
  BY <1>2, <1>3, FS_Subset, FS_CardinalityType
<1> QED BY <1>1, <1>4 DEF Counted

LEMMA TypesOK ==
  ASSUME Network, Twins
  PROVE  TypeOK
<1>1. /\ DOMAIN stops2 = 1 .. Len(stops2) /\ DOMAIN routes2 = 1 .. Len(routes2)
      /\ \A s \in 1 .. Len(stops2) : stops2[s] \in StopRecs
      /\ \A r \in 1 .. Len(routes2) : routes2[r] \in RouteRecs
  BY NetworkHas, LenProperties
<1>2. \A s \in DOMAIN stops2 : stops2[s].name \in Stops /\ stops2[s].numRoutes \in 0 .. Len(routes2)
  BY <1>1, CountBound DEF StopRecs
<1>3. \A r \in DOMAIN routes2 :
        /\ routes2[r].name \in Lines /\ routes2[r].nodes \in Seq(Nodes)
        /\ routes2[r].numStops = Len(routes2[r].nodes) /\ routes2[r].numStops # 1
  <2> TAKE r \in DOMAIN routes2
  <2>1. routes2[r].name \in Lines /\ routes2[r].nodes \in Seq(Nodes)
    BY <1>1 DEF RouteRecs
  <2>2. Fine(routes2[r], conns2)
    BY <1>1, NetworkHas
  <2>3. routes2[r].numStops = Len(routes2[r].nodes) /\ Len(routes2[r].nodes) # 1
    BY <2>2 DEF Fine, Sound
  <2> QED BY <2>1, <2>3
<1>4. DOMAIN conns2 \subseteq Conns
  BY NetworkHas, BagFacts
<1>5. \A s \in DOMAIN stops1 : stops1[s].name \in Stops /\ stops1[s].num_routes \in 0 .. Len(routes1)
  <2>1. CASE parted
    <3>1. DOMAIN stops1 = {}
      BY <2>1 DEF Twins
    <3> QED BY <3>1
  <2>2. CASE ~parted
    <3>1. /\ DOMAIN stops1 = DOMAIN stops2 /\ Len(routes1) = Len(routes2)
          /\ \A s \in 1 .. Len(stops2) : TwinStop(stops1[s], stops2[s])
      BY <1>1, <2>2, TwinsHave, LenProperties
    <3> QED BY <1>1, <1>2, <3>1 DEF TwinStop
  <2> QED BY <2>1, <2>2
<1>6. \A r \in DOMAIN routes1 :
        /\ routes1[r].name \in Lines /\ routes1[r].route_num_stops \in {0} \cup 2 .. (MaxCost + 1)
        /\ \A i \in 1 .. routes1[r].route_num_stops : routes1[r].route_stops[i] \in DOMAIN stops1
  <2>1. CASE parted
    <3>1. DOMAIN routes1 = {}
      BY <2>1 DEF Twins
    <3> QED BY <3>1
  <2>2. CASE ~parted
    <3>1. DOMAIN stops1 = 1 .. Len(stops2) /\ DOMAIN routes1 = 1 .. Len(routes2)
      BY <2>2, TwinsHave, LenProperties
    <3> TAKE r \in DOMAIN routes1
    <3>2. TwinRoute(routes1[r], routes2[r], stops2) /\ Paid(routes2[r].nodes, conns2)
      BY <2>2, <3>1, TwinsHave
    <3>3. routes1[r].name \in Lines /\ routes1[r].route_num_stops = Len(routes2[r].nodes)
          /\ Places(routes1[r].route_stops, routes2[r].nodes, stops2)
      BY <1>1, <1>3, <3>1, <3>2 DEF TwinRoute
    <3>4. Len(routes2[r].nodes) \in {0} \cup 2 .. (MaxCost + 1)
      <4>1. PICK a \in Nat : a = Len(routes2[r].nodes) /\ a # 1
        BY <1>1, <1>3, <3>1, LenProperties
      <4>2. a <= MaxCost + 1 /\ MaxCost \in Nat
        BY <3>2, <4>1, NetworkAssumption DEF Paid
      <4>3. \A x, y \in Nat : x # 1 /\ x <= y + 1 => x = 0 \/ x \in 2 .. (y + 1)
        OBVIOUS
      <4>4. a \in Nat /\ a # 1
        BY <4>1
      <4>5. a = 0 \/ a \in 2 .. (MaxCost + 1)
        BY ONLY <4>2, <4>3, <4>4
      <4>6. a \in {0} \cup 2 .. (MaxCost + 1)
        BY ONLY <4>5
      <4> QED BY ONLY <4>1, <4>6
    <3>5. \A i \in 1 .. routes1[r].route_num_stops : routes1[r].route_stops[i] \in DOMAIN stops1
      BY <3>1, <3>3 DEF Places
    <3> QED BY <3>3, <3>4, <3>5
  <2> QED BY <2>1, <2>2
<1>7. parted \in BOOLEAN
  BY DEF Twins
<1> QED BY <1>2, <1>3, <1>4, <1>5, <1>6, <1>7, Zenon DEF TypeOK

\* A line has no single stop, as many as it counts, and in project1.c room for them; a stop
\* counts no more lines than there are.
THEOREM TypeInvariance == Spec => []TypeOK
<1>1. Network /\ Twins => TypeOK
  BY TypesOK
<1> QED BY <1>1, TwinsInvariance, PTL

\* The pointers back lead from the tail to the first node.
LEMMA BackIs1 ==
  ASSUME NEW nodes \in Seq(Nodes), NEW n \in Nat, n = Len(nodes), n > 0, Straight(nodes)
  PROVE  LET stop == {0} \cup {i \in DOMAIN nodes : nodes[i].back # "node"}
         IN  (CHOOSE k \in stop : \A j \in stop : j <= k) = 1
<1> DEFINE stop == {0} \cup {i \in DOMAIN nodes : nodes[i].back # "node"}
<1>1. DOMAIN nodes = 1 .. n
  BY LenProperties
<1>2. stop = {0, 1}
  BY <1>1 DEF Straight
<1> HIDE DEF stop
<1>3. \A k \in stop : (\A j \in stop : j <= k) <=> k = 1
  BY <1>2
<1> QED BY <1>2, <1>3 DEF stop

\* The stops of a line, in both orders.
LEMMA SameStops ==
  ASSUME Network, Twins, ~parted, NEW r \in 1 .. Len(routes2)
  PROVE  /\ T!PrintStops(routes2[r].name) = L!PrintStops(routes2[r].name)
         /\ T!PrintReverse(routes2[r].name) = L!PrintReverse(routes2[r].name)
<1> DEFINE l == routes2[r].name
           nodes == routes2[r].nodes
<1>1. L!IndexOf(routes2, l) = r
  <2>1. PICK k : k = L!IndexOf(routes2, l)
    OBVIOUS
  <2>2. k \in 1 .. Len(routes2) /\ routes2[k].name = l
    BY <2>1, NetworkHas, IndexOfFacts
  <2>3. Distinct(routes2)
    BY NetworkHas
  <2> QED BY <2>1, <2>2, <2>3 DEF Distinct
<1>2. T!IndexOf(routes1, l) = r
  <2>1. r # 0
    BY NetworkHas
  <2> QED BY <1>1, <2>1, SameIndexes
<1>3. PICK n \in Nat : n = Len(nodes) /\ nodes \in Seq(Nodes) /\ DOMAIN nodes = 1 .. n
  <2>1. DOMAIN routes2 = 1 .. Len(routes2)
    BY NetworkHas, LenProperties
  <2> QED BY <2>1, LineParts
<1>4. L!Named(l) = routes2[r]
  BY <1>1, Zenon DEF L!Named
<1>5. routes1[r].route_num_stops = n /\ Places(routes1[r].route_stops, nodes, stops2) /\ Straight(nodes)
  BY <1>3, TwinsHave DEF TwinRoute
<1>6. L!PrintStops(l) = [i \in 1 .. n |-> nodes[i].stop]
  BY <1>3, <1>4 DEF L!PrintStops
<1>7. \A i \in 1 .. n : stops1[routes1[r].route_stops[i]].name = nodes[i].stop
  BY <1>3, <1>5, TwinsHave DEF Places, TwinStop
<1>8. T!NamesOf(r) = [i \in 1 .. n |-> nodes[i].stop]
  <2>1. T!NamesOf(r) = [i \in 1 .. routes1[r].route_num_stops |-> stops1[routes1[r].route_stops[i]].name]
    BY Zenon DEF T!NamesOf
  <2> QED BY <1>5, <1>7, <2>1
<1>9. T!PrintStops(l) = [i \in 1 .. n |-> nodes[i].stop]
  BY <1>2, <1>8, Zenon DEF T!PrintStops
<1> DEFINE path == [i \in 1 .. n |-> nodes[i].stop]
<1>10. DOMAIN path = 1 .. n /\ Len(path) = n /\ \A i \in 1 .. n : path[i] = nodes[i].stop
  <2>1. \A i \in 1 .. n : nodes[i].stop \in Stops
    BY <1>3, NodesFacts
  <2>2. path \in [1 .. n -> Stops]
    BY <2>1
  <2> QED BY <2>2, LenProperties
<1>11. T!PrintReverse(l) = [i \in 1 .. n |-> nodes[n + 1 - i].stop]
  <2>1. T!PrintReverse(l) = [i \in DOMAIN path |-> path[Len(path) + 1 - i]]
    BY <1>2, <1>8, Zenon DEF T!PrintReverse
  <2>2. \A i \in 1 .. n : n + 1 - i \in 1 .. n
    OBVIOUS
  <2> HIDE DEF path, nodes
  <2> QED BY <1>10, <2>1, <2>2
<1>12. L!PrintReverse(l) = [i \in 1 .. n |-> nodes[n + 1 - i].stop]
  <2> DEFINE stop == {0} \cup {i \in DOMAIN nodes : nodes[i].back # "node"}
             b == CHOOSE k \in stop : \A j \in stop : j <= k
  <2>1. L!PrintReverse(l) = IF n = 0 THEN << >>
                            ELSE IF b > 0 /\ nodes[b].back = "freed" THEN Undefined
                            ELSE [k \in 1 .. (n + 1 - b) |-> nodes[n + 1 - k].stop]
    BY <1>3, <1>4, Zenon DEF L!PrintReverse
  <2>2. CASE n = 0
    <3>1. << >> = [i \in 1 .. 0 |-> nodes[n + 1 - i].stop]
      OBVIOUS
    <3> QED BY <2>1, <2>2, <3>1
  <2>3. CASE n # 0
    <3>1. n > 0
      BY <2>3
    <3>2. b = 1
      BY <1>3, <1>5, <3>1, BackIs1
    <3> HIDE DEF b
    <3>3. nodes[1].back = "none"
      BY <1>3, <1>5, <3>1 DEF Straight
    <3>4. n + 1 - 1 = n
      OBVIOUS
    <3> QED BY <2>1, <2>3, <3>2, <3>3, <3>4
  <2> QED BY <2>2, <2>3
<1> QED BY <1>6, <1>9, <1>11, <1>12

LEMMA SamePrints ==
  ASSUME Network, Twins
  PROVE  ~parted => SameLists
<1> SUFFICES ASSUME ~parted
             PROVE  SameLists
  OBVIOUS
<1>1. /\ DOMAIN stops2 = 1 .. Len(stops2) /\ DOMAIN routes2 = 1 .. Len(routes2)
      /\ DOMAIN stops1 = 1 .. Len(stops2) /\ DOMAIN routes1 = 1 .. Len(routes2)
  BY NetworkHas, TwinsHave, LenProperties
<1>2. T!PrintAllStops = L!PrintAllStops
  <2>1. \A s \in 1 .. Len(stops2) : stops1[s].name = stops2[s].name /\ stops1[s].num_routes = stops2[s].numRoutes
    BY TwinsHave DEF TwinStop
  <2> QED BY <1>1, <2>1 DEF T!PrintAllStops, L!PrintAllStops
<1>3. T!PrintAllRoutes = L!PrintAllRoutes
  <2> DEFINE A(r) == IF routes1[r].route_num_stops = 0 THEN <<routes1[r].name, 0, routes1[r].total_cost>>
                     ELSE <<routes1[r].name, stops1[T!Origin(r)].name, stops1[T!Destination(r)].name,
                            routes1[r].route_num_stops, routes1[r].total_cost>>
             B(r) == IF routes2[r].numStops = 0 THEN <<routes2[r].name, 0, routes2[r].cost>>
                     ELSE <<routes2[r].name, routes2[r].nodes[1].stop, L!Last(routes2[r].nodes).stop,
                            routes2[r].numStops, routes2[r].cost>>
  <2>1. T!PrintAllRoutes = [r \in DOMAIN routes1 |-> A(r)]
    BY Zenon DEF T!PrintAllRoutes
  <2>2. L!PrintAllRoutes = [r \in DOMAIN routes2 |-> B(r)]
    BY Zenon DEF L!PrintAllRoutes
  <2>3. ASSUME NEW r \in 1 .. Len(routes2)
        PROVE  A(r) = B(r)
    <3>1. PICK n \in Nat : n = Len(routes2[r].nodes) /\ routes2[r].numStops = n
      BY <1>1, LineParts, NetworkHas DEF Fine, Sound
    <3>2. /\ routes1[r].name = routes2[r].name /\ routes1[r].total_cost = routes2[r].cost
          /\ routes1[r].route_num_stops = n /\ Places(routes1[r].route_stops, routes2[r].nodes, stops2)
      BY <3>1, TwinsHave DEF TwinRoute
    <3>3. \A i \in 1 .. n : stops1[routes1[r].route_stops[i]].name = routes2[r].nodes[i].stop
      BY <3>1, <3>2, TwinsHave DEF Places, TwinStop
    <3>4. T!Origin(r) = routes1[r].route_stops[1] /\ T!Destination(r) = routes1[r].route_stops[n]
      BY <3>2, Zenon DEF T!Origin, T!Destination
    <3>5. L!Last(routes2[r].nodes) = routes2[r].nodes[n]
      BY <3>1, LastIs
    <3>6. n # 0 => 1 \in 1 .. n /\ n \in 1 .. n
      OBVIOUS
    <3> QED BY <3>1, <3>2, <3>3, <3>4, <3>5, <3>6
  <2> HIDE DEF A, B
  <2> QED BY <1>1, <2>1, <2>2, <2>3
<1>4. \A r \in DOMAIN routes2 : /\ T!PrintStops(routes2[r].name) = L!PrintStops(routes2[r].name)
                                /\ T!PrintReverse(routes2[r].name) = L!PrintReverse(routes2[r].name)
  BY <1>1, SameStops
<1> QED BY <1>2, <1>3, <1>4, Zenon DEF SameLists

\* As long as both programs are asked they print the same stops with the same counts, the
\* same lines with the same ends and costs, and the same stops of a line in both orders.
THEOREM ListsAreSame == Spec => [](~parted => SameLists)
<1>1. Network /\ Twins => (~parted => SameLists)
  BY SamePrints
<1> QED BY <1>1, TwinsInvariance, PTL
==============================================================================
