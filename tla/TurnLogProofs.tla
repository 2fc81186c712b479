---------------------------- MODULE TurnLogProofs ----------------------------
(***************************************************************************)
(* Theorems about the log of a session's turns, for every list of prompts  *)
(* and every bound.                                                        *)
(***************************************************************************)
EXTENDS TurnLog, SequenceTheorems, WellFoundedInduction, TLAPS

-----------------------------------------------------------------------------
\* The least number of a set.
LEMMA LeastNumber ==
  ASSUME NEW S \in SUBSET Nat, S # {}
  PROVE  \E m \in S : \A x \in S : m <= x
<1>1. PICK m \in S : \A x \in S : <<x, m>> \notin OpToRel(<, Nat)
  BY WFMin, NatLessThanWellFounded, Zenon
<1>2. \A x \in S : ~(x < m)
  BY <1>1, Zenon DEF OpToRel
<1> QED
  BY <1>2

\* Induction for a set of numbers.
LEMMA EveryNumber ==
  ASSUME NEW S \in SUBSET Nat, 0 \in S, \A n \in S : n + 1 \in S
  PROVE  \A n \in Nat : n \in S
<1> DEFINE Rest == Nat \ S
<1>1. ASSUME Rest # {} PROVE FALSE
  <2> HIDE DEF Rest
  <2>0. Rest \in SUBSET Nat
    BY DEF Rest
  <2>1. PICK m \in Rest : \A x \in Rest : m <= x
    BY <1>1, <2>0, LeastNumber
  <2>2. m \in Nat /\ m \notin S /\ m # 0
    BY <2>1 DEF Rest
  <2>3. m - 1 \in Nat /\ ~(m <= m - 1) /\ (m - 1) + 1 = m
    BY <2>2
  <2>4. m - 1 \in S
    BY <2>1, <2>3 DEF Rest
  <2> QED
    BY <2>2, <2>3, <2>4
<1> QED
  BY <1>1

LEMMA LargestNumber ==
  ASSUME NEW n \in Nat, NEW s \in SUBSET (1..n), n \in s
  PROVE  Max(s) = n
<1>1. \A y \in s : y \in Int /\ n >= y
  OBVIOUS
<1>2. \E x \in s : \A y \in s : x >= y
  BY <1>1
<1>3. Max(s) \in s /\ \A y \in s : Max(s) >= y
  BY <1>2, Zenon DEF Max
<1>4. \A m : m \in s /\ (\A y \in s : m >= y) => m = n
  BY <1>1
<1> QED
  BY <1>3, <1>4, Zenon

LEMMA MaxIn ==
  ASSUME NEW n \in Nat, NEW s \in SUBSET (1..n), s # {}
  PROVE  Max(s) \in s /\ \A y \in s : Max(s) >= y
<1> DEFINE P == {k \in Nat : \A t \in SUBSET (1..k) : t # {} => \E x \in t : \A y \in t : x >= y}
<1> HIDE DEF P
<1>1. 0 \in P
  <2>1. 1..0 = {}
    OBVIOUS
  <2>2. \A t \in SUBSET (1..0) : t = {}
    BY <2>1
  <2> QED
    BY <2>2 DEF P
<1>2. ASSUME NEW k \in P PROVE k + 1 \in P
  <2>0. k \in Nat /\ \A t \in SUBSET (1..k) : t # {} => \E x \in t : \A y \in t : x >= y
    BY DEF P
  <2>1. ASSUME NEW t \in SUBSET (1..(k + 1)), t # {}
        PROVE  \E x \in t : \A y \in t : x >= y
    <3>1. CASE k + 1 \in t
      <4>1. \A y \in t : k + 1 >= y
        BY <2>0
      <4> QED
        BY <3>1, <4>1
    <3>2. CASE k + 1 \notin t
      <4>1. \A y \in t : y \in 1..(k + 1) /\ y # k + 1
        BY <3>2
      <4>2. \A y \in 1..(k + 1) : y # k + 1 => y \in 1..k
        BY <2>0
      <4>3. t \in SUBSET (1..k)
        BY <4>1, <4>2
      <4> QED
        BY <2>0, <2>1, <4>3
    <3> QED
      BY <3>1, <3>2
  <2> QED
    BY <2>0, <2>1 DEF P
<1>3. n \in P
  <2>1. P \in SUBSET Nat
    BY DEF P
  <2> QED
    BY <1>1, <1>2, <2>1, EveryNumber
<1>4. \E x \in s : \A y \in s : x >= y
  BY <1>3 DEF P
<1> QED
  BY <1>4, Zenon DEF Max

Iterates(h, msgs, n) ==
  h = [s \in SUBSET (1..n) |-> IF s = {} THEN <<>> ELSE merged(h[s \ {Max(s)}], msgs[Max(s)])]

LEMMA CanonicalIter ==
  ASSUME NEW msgs, NEW n, DOMAIN msgs = 1..n, \E g : Iterates(g, msgs, n)
  PROVE  \E h : Iterates(h, msgs, n) /\ canonical(msgs) = h[1..n]
<1>1. PICK g : Iterates(g, msgs, n)
  OBVIOUS
<1> QED
  BY <1>1, Zenon DEF canonical, FoldLeft, MapThenFoldSet, Iterates

LEMMA IteratesExist ==
  ASSUME NEW msgs, NEW n \in Nat
  PROVE  \E g : Iterates(g, msgs, n)
<1> DEFINE P == {k \in Nat : \E g : Iterates(g, msgs, k)}
<1> HIDE DEF P
<1>1. 0 \in P
  <2>1. PICK g : g = [s \in SUBSET (1..0) |-> IF s = {} THEN <<>> ELSE <<>>]
    OBVIOUS
  <2>2. 1..0 = {}
    OBVIOUS
  <2>3. \A s \in SUBSET (1..0) : s = {}
    BY <2>2
  <2>4. Iterates(g, msgs, 0)
    BY <2>1, <2>3, Zenon DEF Iterates
  <2> QED
    BY <2>4 DEF P
<1>2. ASSUME NEW k \in P PROVE k + 1 \in P
  <2>0. k \in Nat
    BY DEF P
  <2>1. PICK h : Iterates(h, msgs, k)
    BY DEF P
  <2>2. PICK g : g = [s \in SUBSET (1..(k + 1)) |->
                        IF k + 1 \in s THEN merged(h[s \ {k + 1}], msgs[k + 1]) ELSE h[s]]
    OBVIOUS
  <2>3. \A s \in SUBSET (1..(k + 1)) : k + 1 \notin s => s \in SUBSET (1..k)
    <3>1. \A x \in 1..(k + 1) : x # k + 1 => x \in 1..k
      BY <2>0
    <3> QED
      BY <3>1
  <2>4. \A s \in SUBSET (1..k) : h[s] = IF s = {} THEN <<>> ELSE merged(h[s \ {Max(s)}], msgs[Max(s)])
    BY <2>1, Zenon DEF Iterates
  <2>5. ASSUME NEW s \in SUBSET (1..(k + 1))
        PROVE  g[s] = IF s = {} THEN <<>> ELSE merged(g[s \ {Max(s)}], msgs[Max(s)])
    <3>1. CASE k + 1 \in s
      <4>1. Max(s) = k + 1 /\ s # {}
        BY <2>0, <3>1, LargestNumber
      <4>2. s \ {k + 1} \in SUBSET (1..(k + 1)) /\ k + 1 \notin s \ {k + 1}
        OBVIOUS
      <4>3. g[s \ {k + 1}] = h[s \ {k + 1}]
        BY <2>2, <4>2, Zenon
      <4>4. g[s] = merged(h[s \ {k + 1}], msgs[k + 1])
        BY <2>2, <3>1, Zenon
      <4> QED
        BY <4>1, <4>3, <4>4, Zenon
    <3>2. CASE k + 1 \notin s
      <4>1. s \in SUBSET (1..k) /\ g[s] = h[s]
        BY <2>2, <2>3, <3>2, Zenon
      <4>2. CASE s = {}
        BY <4>1, <4>2, <2>4, Zenon
      <4>3. CASE s # {}
        <5>1. s \ {Max(s)} \in SUBSET (1..(k + 1)) /\ k + 1 \notin s \ {Max(s)}
          BY <3>2
        <5>2. g[s \ {Max(s)}] = h[s \ {Max(s)}]
          BY <2>2, <5>1, Zenon
        <5> QED
          BY <4>1, <4>3, <5>2, <2>4, Zenon
      <4> QED
        BY <4>2, <4>3
    <3> QED
      BY <3>1, <3>2
  <2>6. Iterates(g, msgs, k + 1)
    BY <2>2, <2>5, Zenon DEF Iterates
  <2> QED
    BY <2>0, <2>6 DEF P
<1>3. P \in SUBSET Nat
  BY DEF P
<1>4. n \in P
  BY <1>1, <1>2, <1>3, EveryNumber
<1> QED
  BY <1>4 DEF P

\* canonical takes the messages one after the other.
LEMMA CanonicalSteps ==
  ASSUME NEW msgs, NEW n \in Nat, DOMAIN msgs = 1..n
  PROVE  \E g : /\ g[0] = <<>>
                /\ \A k \in 1..n : g[k] = merged(g[k - 1], msgs[k])
                /\ canonical(msgs) = g[n]
<1>1. PICK h : Iterates(h, msgs, n) /\ canonical(msgs) = h[1..n]
  BY IteratesExist, CanonicalIter
<1>2. PICK g : g = [k \in 0..n |-> h[1..k]]
  OBVIOUS
<1>3. \A s \in SUBSET (1..n) : h[s] = IF s = {} THEN <<>> ELSE merged(h[s \ {Max(s)}], msgs[Max(s)])
  BY <1>1, Zenon DEF Iterates
<1>4. g[0] = <<>>
  <2>1. 1..0 = {} /\ 0 \in 0..n
    OBVIOUS
  <2>2. {} \in SUBSET (1..n)
    OBVIOUS
  <2> QED
    BY <1>2, <1>3, <2>1, <2>2, Zenon
<1>5. ASSUME NEW k \in 1..n PROVE g[k] = merged(g[k - 1], msgs[k])
  <2>1. k \in Nat /\ k \in 0..n /\ k - 1 \in 0..n /\ 1..k \in SUBSET (1..n) /\ 1..k # {} /\ k \in 1..k
    OBVIOUS
  <2>2. Max(1..k) = k
    BY <2>1, LargestNumber
  <2>3. (1..k) \ {k} = 1..(k - 1)
    OBVIOUS
  <2> QED
    BY <1>2, <1>3, <2>1, <2>2, <2>3, Zenon
<1>6. n \in 0..n
  OBVIOUS
<1> QED
  BY <1>1, <1>2, <1>4, <1>5, <1>6, Zenon

-----------------------------------------------------------------------------
Builds(g, seqs, n) == g = [i \in 1..n |-> IF i = 1 THEN seqs[i] ELSE g[i - 1] \o seqs[i]]

LEMMA FlattenBuilds ==
  ASSUME NEW seqs, Len(seqs) # 0, \E g : Builds(g, seqs, Len(seqs))
  PROVE  \E h : Builds(h, seqs, Len(seqs)) /\ FlattenSeq(seqs) = h[Len(seqs)]
<1>1. PICK g : Builds(g, seqs, Len(seqs))
  OBVIOUS
<1> QED
  BY <1>1, Zenon DEF FlattenSeq, Builds

LEMMA BuildsExist ==
  ASSUME NEW seqs, NEW n \in Nat PROVE \E g : Builds(g, seqs, n)
<1> DEFINE P == {k \in Nat : \E g : Builds(g, seqs, k)}
<1> HIDE DEF P
<1>1. 0 \in P
  <2>1. PICK g : g = [i \in 1..0 |-> IF i = 1 THEN seqs[i] ELSE seqs[i]]
    OBVIOUS
  <2>2. Builds(g, seqs, 0)
    BY <2>1 DEF Builds
  <2> QED
    BY <2>2 DEF P
<1>2. ASSUME NEW k \in P PROVE k + 1 \in P
  <2>0. k \in Nat
    BY DEF P
  <2>1. PICK h : Builds(h, seqs, k)
    BY DEF P
  <2>2. PICK g : g = [i \in 1..(k + 1) |-> IF i = k + 1 THEN (IF i = 1 THEN seqs[i] ELSE h[i - 1] \o seqs[i]) ELSE h[i]]
    OBVIOUS
  <2>3. \A i \in 1..k : h[i] = IF i = 1 THEN seqs[i] ELSE h[i - 1] \o seqs[i]
    BY <2>1, Zenon DEF Builds
  <2>4. ASSUME NEW i \in 1..(k + 1) PROVE g[i] = IF i = 1 THEN seqs[i] ELSE g[i - 1] \o seqs[i]
    <3>1. i # 1 => i - 1 \in 1..(k + 1) /\ i - 1 # k + 1
      BY <2>0
    <3>2. i # 1 => g[i - 1] = h[i - 1]
      BY <2>2, <3>1, Zenon
    <3>3. CASE i = k + 1
      BY <2>2, <3>2, <3>3, Zenon
    <3>4. CASE i # k + 1
      <4>1. i \in 1..k
        BY <2>0, <3>4
      <4> QED
        BY <2>2, <2>3, <3>2, <3>4, <4>1, Zenon
    <3> QED
      BY <3>3, <3>4
  <2>5. Builds(g, seqs, k + 1)
    BY <2>2, <2>4, Zenon DEF Builds
  <2> QED
    BY <2>0, <2>5 DEF P
<1>3. P \in SUBSET Nat
  BY DEF P
<1>4. n \in P
  BY <1>1, <1>2, <1>3, EveryNumber
<1> QED
  BY <1>4 DEF P

\* G is the first n of seqs, one after the other; off says where each begins.
Placed(S, G, seqs, n, off) ==
    /\ G \in Seq(S) /\ off \in [1..n -> Nat]
    /\ \A i \in 1..n : seqs[i] \in Seq(S)
    /\ \A i \in 1..n : off[i] + Len(seqs[i]) <= Len(G)
    /\ \A i \in 1..n : \A j \in 1..Len(seqs[i]) : G[off[i] + j] = seqs[i][j]
    /\ \A i \in 1..n : \A k \in 1..n : i < k => off[i] + Len(seqs[i]) <= off[k]
    /\ \A p \in 1..Len(G) : \E i \in 1..n : \E j \in 1..Len(seqs[i]) : p = off[i] + j

LEMMA PlacedOne ==
  ASSUME NEW S, NEW seqs, seqs[1] \in Seq(S)
  PROVE  \E off : Placed(S, seqs[1], seqs, 1, off)
<1>1. PICK off : off = [i \in 1..1 |-> 0]
  OBVIOUS
<1>2. Len(seqs[1]) \in Nat /\ \A i \in 1..1 : i = 1
  OBVIOUS
<1>3. off \in [1..1 -> Nat] /\ off[1] = 0
  BY <1>1
<1>4. \A p \in 1..Len(seqs[1]) : \E i \in 1..1 : \E j \in 1..Len(seqs[i]) : p = off[i] + j
  <2> SUFFICES ASSUME NEW p \in 1..Len(seqs[1])
               PROVE  \E i \in 1..1 : \E j \in 1..Len(seqs[i]) : p = off[i] + j
    OBVIOUS
  <2>1. p = off[1] + p /\ 1 \in 1..1
    BY <1>3
  <2> QED
    BY <2>1
<1>5. \A i \in 1..1 : \A j \in 1..Len(seqs[i]) : seqs[1][off[i] + j] = seqs[i][j]
  <2> SUFFICES ASSUME NEW j \in 1..Len(seqs[1]) PROVE seqs[1][off[1] + j] = seqs[1][j]
    BY <1>2, Zenon
  <2>1. off[1] + j = j
    BY <1>2, <1>3
  <2> QED
    BY <2>1
<1>6. \A i \in 1..1 : off[i] + Len(seqs[i]) <= Len(seqs[1])
  BY <1>2, <1>3
<1>7. \A i \in 1..1 : \A k \in 1..1 : i < k => off[i] + Len(seqs[i]) <= off[k]
  OBVIOUS
<1> QED
  BY <1>2, <1>3, <1>4, <1>5, <1>6, <1>7 DEF Placed

LEMMA PlacedMore ==
  ASSUME NEW S, NEW seqs, NEW G, NEW n \in Nat, NEW off, Placed(S, G, seqs, n, off),
         seqs[n + 1] \in Seq(S)
  PROVE  \E new : Placed(S, G \o seqs[n + 1], seqs, n + 1, new)
<1>1. PICK m : m = n + 1
  OBVIOUS
<1>2. PICK L : L = seqs[m]
  OBVIOUS
<1>3. PICK H : H = G \o L
  OBVIOUS
<1>4. PICK new : new = [i \in 1..m |-> IF i = m THEN Len(G) ELSE off[i]]
  OBVIOUS
<1>5. G \in Seq(S) /\ L \in Seq(S) /\ Len(G) \in Nat /\ Len(L) \in Nat
  BY <1>1, <1>2 DEF Placed
<1>6. H \in Seq(S) /\ Len(H) = Len(G) + Len(L)
  BY <1>3, <1>5
<1>7. /\ \A j \in 1..Len(G) : H[j] = G[j]
      /\ \A j \in 1..Len(L) : H[Len(G) + j] = L[j]
  BY <1>3, <1>5
<1>8. \A i \in 1..m : i # m => i \in 1..n /\ new[i] = off[i] /\ off[i] \in Nat
  BY <1>1, <1>4 DEF Placed
<1>9. m \in 1..m /\ new[m] = Len(G) /\ 1..n \subseteq 1..m /\ m \notin 1..n
  BY <1>1, <1>4
<1>a. new \in [1..m -> Nat]
  BY <1>4, <1>5, <1>8
<1>b. ASSUME NEW i \in 1..m PROVE new[i] + Len(seqs[i]) <= Len(H)
  <2>1. CASE i = m
    BY <2>1, <1>2, <1>5, <1>6, <1>9
  <2>2. CASE i # m
    <3>1. off[i] + Len(seqs[i]) <= Len(G) /\ new[i] = off[i] /\ off[i] \in Nat
      BY <2>2, <1>8 DEF Placed
    <3>2. Len(seqs[i]) \in Nat
      BY <2>2, <1>8 DEF Placed
    <3> QED
      BY <3>1, <3>2, <1>5, <1>6
  <2> QED
    BY <2>1, <2>2
<1>c. ASSUME NEW i \in 1..m, NEW j \in 1..Len(seqs[i]) PROVE H[new[i] + j] = seqs[i][j]
  <2>1. CASE i = m
    BY <2>1, <1>2, <1>7, <1>9
  <2>2. CASE i # m
    <3>1. off[i] + Len(seqs[i]) <= Len(G) /\ new[i] = off[i] /\ off[i] \in Nat /\ G[off[i] + j] = seqs[i][j]
      BY <2>2, <1>8 DEF Placed
    <3>2. PICK k : k = off[i] + j
      OBVIOUS
    <3>3. off[i] + j \in 1..Len(G)
      <4>1. PICK l, o : l = Len(seqs[i]) /\ o = off[i]
        OBVIOUS
      <4>2. l \in Nat /\ o \in Nat /\ j \in 1..l /\ o + l <= Len(G) /\ Len(G) \in Nat
        BY <2>2, <3>1, <4>1, <1>5, <1>8 DEF Placed
      <4> QED
        BY ONLY <4>1, <4>2
    <3>4. k \in 1..Len(G) /\ G[k] = seqs[i][j]
      BY <3>1, <3>2, <3>3
    <3>5. H[k] = G[k]
      BY ONLY <3>4, <1>7
    <3>6. new[i] + j = k
      BY ONLY <3>1, <3>2
    <3> QED
      BY ONLY <3>4, <3>5, <3>6
  <2> QED
    BY <2>1, <2>2
<1>d. ASSUME NEW i \in 1..m, NEW k \in 1..m, i < k PROVE new[i] + Len(seqs[i]) <= new[k]
  <2>0. i # m
    BY <1>1, <1>d
  <2>1. CASE k = m
    BY <2>0, <2>1, <1>8, <1>9 DEF Placed
  <2>2. CASE k # m
    BY <2>0, <2>2, <1>8, <1>d DEF Placed
  <2> QED
    BY <2>1, <2>2
<1>e. ASSUME NEW p \in 1..Len(H) PROVE \E i \in 1..m : \E j \in 1..Len(seqs[i]) : p = new[i] + j
  <2>1. CASE p <= Len(G)
    <3>1. p \in 1..Len(G)
      BY <2>1, <1>5
    <3>2. PICK i \in 1..n : \E j \in 1..Len(seqs[i]) : p = off[i] + j
      BY <3>1 DEF Placed
    <3>3. i \in 1..m /\ new[i] = off[i]
      BY <1>8, <1>9
    <3> QED
      BY <3>2, <3>3
  <2>2. CASE ~(p <= Len(G))
    <3>1. p - Len(G) \in 1..Len(L) /\ p = Len(G) + (p - Len(G))
      BY <2>2, <1>5, <1>6
    <3>2. PICK j : j = p - Len(G)
      OBVIOUS
    <3>3. j \in 1..Len(seqs[m]) /\ p = new[m] + j
      BY <3>1, <3>2, <1>2, <1>9
    <3> QED
      BY <3>3, <1>9
  <2> QED
    BY <2>1, <2>2
<1>g. \A i \in 1..m : seqs[i] \in Seq(S)
  BY <1>2, <1>5, <1>8 DEF Placed
<1>f. Placed(S, H, seqs, m, new)
  BY <1>6, <1>g, <1>a, <1>b, <1>c, <1>d, <1>e DEF Placed
<1> QED
  BY <1>1, <1>2, <1>3, <1>f

\* FlattenSeq puts the sequences one after the other.
LEMMA FlattenPlaces ==
  ASSUME NEW S, NEW seqs \in Seq(Seq(S))
  PROVE  \E off : Placed(S, FlattenSeq(seqs), seqs, Len(seqs), off)
<1>0. Len(seqs) \in Nat /\ \A i \in 1..Len(seqs) : seqs[i] \in Seq(S)
  OBVIOUS
<1>1. CASE Len(seqs) = 0
  <2>1. FlattenSeq(seqs) = seqs /\ seqs = <<>>
    BY <1>1 DEF FlattenSeq
  <2>2. PICK off : off = [i \in 1..0 |-> 0]
    OBVIOUS
  <2>3. Placed(S, <<>>, seqs, 0, off)
    BY <2>2 DEF Placed
  <2> QED
    BY <1>1, <2>1, <2>3
<1>2. CASE Len(seqs) # 0
  <2>1. \E g : Builds(g, seqs, Len(seqs))
    BY <1>0, BuildsExist
  <2>2. PICK h : Builds(h, seqs, Len(seqs)) /\ FlattenSeq(seqs) = h[Len(seqs)]
    BY <2>1, <1>2, FlattenBuilds
  <2>3. \A i \in 1..Len(seqs) : h[i] = IF i = 1 THEN seqs[i] ELSE h[i - 1] \o seqs[i]
    BY <2>2, Zenon DEF Builds
  <2> DEFINE P == {k \in Nat : k \in 1..Len(seqs) => \E off : Placed(S, h[k], seqs, k, off)}
  <2> HIDE DEF P
  <2>4. 0 \in P
    BY DEF P
  <2>5. ASSUME NEW k \in P PROVE k + 1 \in P
    <3>0. k \in Nat /\ (k \in 1..Len(seqs) => \E off : Placed(S, h[k], seqs, k, off))
      BY DEF P
    <3>1. ASSUME k + 1 \in 1..Len(seqs) PROVE \E off : Placed(S, h[k + 1], seqs, k + 1, off)
      <4>1. CASE k = 0
        <5>1. h[1] = seqs[1] /\ seqs[1] \in Seq(S)
          BY <3>1, <4>1, <2>3, <1>0
        <5>2. k + 1 = 1
          BY <4>1
        <5> QED
          BY <5>1, <5>2, PlacedOne
      <4>2. CASE k # 0
        <5>1. k \in 1..Len(seqs) /\ k + 1 # 1 /\ (k + 1) - 1 = k
          BY <3>0, <3>1, <4>2, <1>0
        <5>2. h[k + 1] = h[k] \o seqs[k + 1]
          BY <5>1, <2>3, <3>1
        <5>3. PICK off : Placed(S, h[k], seqs, k, off)
          BY <5>1, <3>0
        <5>4. seqs[k + 1] \in Seq(S)
          BY <3>1, <1>0
        <5> QED
          BY <5>2, <5>3, <5>4, <3>0, PlacedMore
      <4> QED
        BY <4>1, <4>2
    <3> QED
      BY <3>0, <3>1 DEF P
  <2>6. P \in SUBSET Nat
    BY DEF P
  <2>7. Len(seqs) \in P
    BY <2>4, <2>5, <2>6, <1>0, EveryNumber
  <2>8. Len(seqs) \in 1..Len(seqs)
    BY <1>0, <1>2
  <2> QED
    BY <2>2, <2>7, <2>8 DEF P
<1> QED
  BY <1>1, <1>2

-----------------------------------------------------------------------------
Prompted == {TurnPrompts[i] : i \in 1..Len(TurnPrompts)}
Piece == [prompt : Prompted, steered : BOOLEAN]
Result == [call : Nat, out : {"settled", "placeholder", "interrupted"}]
Fields == [role : {"user", "assistant"}, pieces : Seq(Piece), results : SUBSET Result,
           calls : SUBSET Nat, chunks : Seq(Nat)]
Message == {m \in Fields :
                /\ m.role = "user" => m.calls = {}
                /\ m.role = "assistant" => m.results = {} /\ m.pieces = <<>>}

LEMMA MessageParts ==
  ASSUME NEW m \in Message
  PROVE  /\ m.role \in {"user", "assistant"} /\ m.pieces \in Seq(Piece)
         /\ m.results \in SUBSET Result /\ m.calls \in SUBSET Nat /\ m.chunks \in Seq(Nat)
         /\ m.role = "user" => m.calls = {}
         /\ m.role = "assistant" => m.results = {} /\ m.pieces = <<>>
<1>1. m \in Fields
  BY DEF Message
<1>2. /\ m.role \in {"user", "assistant"} /\ m.pieces \in Seq(Piece)
      /\ m.results \in SUBSET Result /\ m.calls \in SUBSET Nat /\ m.chunks \in Seq(Nat)
  BY <1>1 DEF Fields
<1> QED
  BY <1>2 DEF Message

LEMMA UserParts ==
  ASSUME NEW pieces, NEW results
  PROVE  /\ User(pieces, results).role = "user" /\ User(pieces, results).pieces = pieces
         /\ User(pieces, results).results = results /\ User(pieces, results).calls = {}
  BY DEF User

LEMMA UserMessage ==
  ASSUME NEW pieces \in Seq(Piece), NEW results \in SUBSET Result
  PROVE  User(pieces, results) \in Message
<1>1. <<>> \in Seq(Nat)
  OBVIOUS
<1>2. User(pieces, results) \in Fields
  BY <1>1 DEF User, Fields
<1> QED
  BY <1>2 DEF Message, User

LEMMA AssistantParts ==
  ASSUME NEW calls, NEW chunks
  PROVE  /\ Assistant(calls, chunks).role = "assistant" /\ Assistant(calls, chunks).pieces = <<>>
         /\ Assistant(calls, chunks).results = {} /\ Assistant(calls, chunks).calls = calls
  BY DEF Assistant

LEMMA AssistantMessage ==
  ASSUME NEW calls \in SUBSET Nat, NEW chunks \in Seq(Nat)
  PROVE  Assistant(calls, chunks) \in Message
<1>1. <<>> \in Seq(Piece)
  OBVIOUS
<1>2. Assistant(calls, chunks) \in Fields
  BY <1>1 DEF Assistant, Fields
<1> QED
  BY <1>2 DEF Message, Assistant

LEMMA NoPieces == <<>> \in Seq(Piece)
  OBVIOUS

\* The last prompt of m is that of n.
EndsAlike(m, n) == n.pieces # <<>> /\ Last(m.pieces) = Last(n.pieces)
\* No other message with a prompt goes where message i does.
AloneIn(msgs, n, at, i) == \A j \in 1..n : j # i /\ at[j] = at[i] => msgs[j].pieces = <<>>

\* G is the first n of msgs with the adjacent user messages merged; at says where
\* each went.
Joins(G, msgs, n, at) ==
    /\ G \in Seq(Message) /\ at \in [1..n -> Nat] /\ (n = 0 => G = <<>>)
    /\ \A i \in 1..n : /\ at[i] \in 1..Len(G) /\ G[at[i]].role = msgs[i].role
                       /\ G[at[i]].calls = msgs[i].calls
                       /\ msgs[i].results \subseteq G[at[i]].results
    /\ \A i, k \in 1..n : i <= k => at[i] <= at[k]
    /\ \A i, k \in 1..n : i < k /\ "assistant" \in {msgs[i].role, msgs[k].role} => at[i] < at[k]
    /\ n # 0 => at[n] = Len(G)
    /\ \A p \in 1..Len(G) : \E i \in 1..n : at[i] = p
    /\ \A p \in 1..Len(G) : \A r \in G[p].results : \E i \in 1..n : at[i] = p /\ r \in msgs[i].results
    /\ \A p \in 1..Len(G) :
           (\A i \in 1..n : at[i] = p => msgs[i].pieces = <<>>) => G[p].pieces = <<>>
    /\ \A p \in 1..Len(G) : G[p].pieces # <<>> =>
           \E i \in 1..n : at[i] = p /\ EndsAlike(G[p], msgs[i])
    /\ \A i \in 1..n : AloneIn(msgs, n, at, i) => G[at[i]].pieces = msgs[i].pieces

LEMMA JoinsFacts ==
  ASSUME NEW G, NEW msgs, NEW n, NEW at, Joins(G, msgs, n, at)
  PROVE  /\ G \in Seq(Message) /\ at \in [1..n -> Nat] /\ (n = 0 => G = <<>>)
         /\ \A i \in 1..n : /\ at[i] \in 1..Len(G) /\ G[at[i]].role = msgs[i].role
                            /\ G[at[i]].calls = msgs[i].calls
                            /\ msgs[i].results \subseteq G[at[i]].results
         /\ \A i, k \in 1..n : i <= k => at[i] <= at[k]
         /\ \A i, k \in 1..n : i < k /\ "assistant" \in {msgs[i].role, msgs[k].role} => at[i] < at[k]
         /\ n # 0 => at[n] = Len(G)
         /\ \A p \in 1..Len(G) : \E i \in 1..n : at[i] = p
         /\ \A p \in 1..Len(G) : \A r \in G[p].results : \E i \in 1..n : at[i] = p /\ r \in msgs[i].results
         /\ \A p \in 1..Len(G) :
                (\A i \in 1..n : at[i] = p => msgs[i].pieces = <<>>) => G[p].pieces = <<>>
         /\ \A p \in 1..Len(G) : G[p].pieces # <<>> =>
                \E i \in 1..n : at[i] = p /\ EndsAlike(G[p], msgs[i])
         /\ \A i \in 1..n : AloneIn(msgs, n, at, i) => G[at[i]].pieces = msgs[i].pieces
  BY DEF Joins

LEMMA LastJoined ==
  ASSUME NEW a \in Seq(Piece), NEW b \in Seq(Piece), b # <<>>, NEW c, c = a \o b
  PROVE  Last(c) = Last(b)
<1>1. Len(b) \in Nat /\ Len(b) # 0 /\ Len(a) \in Nat /\ Len(c) = Len(a) + Len(b)
  OBVIOUS
<1>2. c[Len(a) + Len(b)] = b[Len(b)]
  BY <1>1
<1> QED
  BY <1>1, <1>2 DEF Last

\* A message of its own.
LEMMA JoinsAppend ==
  ASSUME NEW G, NEW msgs, NEW n \in Nat, NEW at, Joins(G, msgs, n, at), NEW m \in Message,
         msgs[n + 1] = m, \A i \in 1..n : msgs[i] \in Message,
         G # <<>> => G[Len(G)].role = "assistant" \/ m.role = "assistant"
  PROVE  \E new : Joins(Append(G, m), msgs, n + 1, new)
<1>A. /\ G \in Seq(Message) /\ at \in [1..n -> Nat] /\ (n = 0 => G = <<>>)
      /\ \A i \in 1..n : /\ at[i] \in 1..Len(G) /\ G[at[i]].role = msgs[i].role
                         /\ G[at[i]].calls = msgs[i].calls
                         /\ msgs[i].results \subseteq G[at[i]].results
  BY Zenon DEF Joins
<1>B. \A i, j \in 1..n : i <= j => at[i] <= at[j]
  BY Zenon DEF Joins
<1>C. \A i, j \in 1..n : i < j /\ "assistant" \in {msgs[i].role, msgs[j].role} => at[i] < at[j]
  BY Zenon DEF Joins
<1>D. \A p \in 1..Len(G) : \E i \in 1..n : at[i] = p
  BY Zenon DEF Joins
<1>E. \A p \in 1..Len(G) : \A r \in G[p].results : \E i \in 1..n : at[i] = p /\ r \in msgs[i].results
  BY Zenon DEF Joins
<1>F. \A p \in 1..Len(G) :
         (\A i \in 1..n : at[i] = p => msgs[i].pieces = <<>>) => G[p].pieces = <<>>
  BY Zenon DEF Joins
<1>G. \A p \in 1..Len(G) : G[p].pieces # <<>> =>
         \E i \in 1..n : at[i] = p /\ EndsAlike(G[p], msgs[i])
  BY Zenon DEF Joins
<1>H. \A i \in 1..n : AloneIn(msgs, n, at, i) => G[at[i]].pieces = msgs[i].pieces
  BY Zenon DEF Joins
<1>1. PICK k : k = n + 1
  OBVIOUS
<1>2. PICK L : L = Len(G)
  OBVIOUS
<1>3. PICK H : H = Append(G, m)
  OBVIOUS
<1>4. PICK new : new = [i \in 1..k |-> IF i = k THEN L + 1 ELSE at[i]]
  OBVIOUS
<1>5. L \in Nat /\ k \in Nat /\ G \in Seq(Message)
  BY <1>A, <1>1, <1>2
<1>6. H \in Seq(Message) /\ Len(H) = L + 1 /\ H[L + 1] = m /\ \A p \in 1..L : H[p] = G[p]
  BY <1>2, <1>3, <1>5
<1>7. \A i \in 1..k : i # k => i \in 1..n /\ new[i] = at[i] /\ at[i] \in 1..L
  BY <1>A, <1>1, <1>2, <1>4
<1>8. k \in 1..k /\ new[k] = L + 1 /\ msgs[k] = m /\ k \notin 1..n /\ 1..n \subseteq 1..k
  BY <1>1, <1>4
<1>9. new \in [1..k -> Nat]
  BY <1>4, <1>5, <1>7
<1>a. ASSUME NEW i \in 1..k
      PROVE  /\ new[i] \in 1..Len(H) /\ H[new[i]].role = msgs[i].role
             /\ H[new[i]].calls = msgs[i].calls /\ msgs[i].results \subseteq H[new[i]].results
  <2>1. CASE i = k
    BY <2>1, <1>5, <1>6, <1>8
  <2>2. CASE i # k
    BY <2>2, <1>A, <1>2, <1>5, <1>6, <1>7
  <2> QED
    BY <2>1, <2>2
<1>b. ASSUME NEW i \in 1..k, NEW j \in 1..k, i <= j PROVE new[i] <= new[j]
  <2>1. CASE j = k
    BY <2>1, <1>5, <1>7, <1>8
  <2>2. CASE j # k
    <3>1. i # k
      BY <2>2, <1>5, <1>b
    <3> QED
      BY <2>2, <3>1, <1>B, <1>7, <1>b
  <2> QED
    BY <2>1, <2>2
<1>c. ASSUME NEW i \in 1..k, NEW j \in 1..k, i < j, "assistant" \in {msgs[i].role, msgs[j].role}
      PROVE  new[i] < new[j]
  <2>0. i # k
    BY <1>5, <1>c
  <2>1. CASE j = k
    BY <2>0, <2>1, <1>5, <1>7, <1>8
  <2>2. CASE j # k
    BY <2>0, <2>2, <1>C, <1>7, <1>c
  <2> QED
    BY <2>1, <2>2
<1>d. ASSUME NEW p \in 1..Len(H)
      PROVE  /\ \E i \in 1..k : new[i] = p
             /\ \A r \in H[p].results : \E i \in 1..k : new[i] = p /\ r \in msgs[i].results
             /\ (\A i \in 1..k : new[i] = p => msgs[i].pieces = <<>>) => H[p].pieces = <<>>
  <2>1. CASE p = L + 1
    BY <2>1, <1>6, <1>8
  <2>2. CASE p # L + 1
    <3>1. p \in 1..L /\ H[p] = G[p]
      BY <2>2, <1>5, <1>6
    <3>a. \A i \in 1..n : i \in 1..k /\ new[i] = at[i]
      BY <1>7, <1>8
    <3>2. \E i \in 1..k : new[i] = p
      BY <3>1, <3>a, <1>D, <1>2
    <3>3. \A r \in H[p].results : \E i \in 1..k : new[i] = p /\ r \in msgs[i].results
      BY <3>1, <3>a, <1>E, <1>2
    <3>4. ASSUME \A i \in 1..k : new[i] = p => msgs[i].pieces = <<>> PROVE H[p].pieces = <<>>
      <4>1. \A i \in 1..n : at[i] = p => msgs[i].pieces = <<>>
        BY <3>4, <3>a
      <4> QED
        BY <4>1, <3>1, <1>F, <1>2
    <3> QED
      BY <3>2, <3>3, <3>4
  <2> QED
    BY <2>1, <2>2
<1>e. (k = 0 => H = <<>>) /\ (k # 0 => new[k] = Len(H))
  BY <1>1, <1>6, <1>8
<1>g. ASSUME NEW p \in 1..Len(H), H[p].pieces # <<>>
      PROVE  \E i \in 1..k : new[i] = p /\ EndsAlike(H[p], msgs[i])
  <2>1. CASE p = L + 1
    BY <2>1, <1>6, <1>8, <1>g DEF EndsAlike
  <2>2. CASE p # L + 1
    <3>1. p \in 1..L /\ H[p] = G[p]
      BY <2>2, <1>5, <1>6
    <3>2. PICK i \in 1..n : at[i] = p /\ EndsAlike(G[p], msgs[i])
      BY <3>1, <1>G, <1>2, <1>g
    <3>3. i \in 1..k /\ new[i] = at[i]
      BY <1>7, <1>8
    <3> QED
      BY <3>1, <3>2, <3>3
  <2> QED
    BY <2>1, <2>2
<1>h. ASSUME NEW i \in 1..k, AloneIn(msgs, k, new, i) PROVE H[new[i]].pieces = msgs[i].pieces
  <2>1. CASE i = k
    BY <2>1, <1>6, <1>8
  <2>2. CASE i # k
    <3>1. i \in 1..n /\ new[i] = at[i] /\ at[i] \in 1..L /\ H[at[i]] = G[at[i]]
      BY <2>2, <1>6, <1>7
    <3>2. \A j \in 1..n : j \in 1..k /\ new[j] = at[j]
      BY <1>7, <1>8
    <3>3. AloneIn(msgs, n, at, i)
      BY <3>1, <3>2, <1>h DEF AloneIn
    <3> QED
      BY <3>1, <3>3, <1>H
  <2> QED
    BY <2>1, <2>2
<1>f. Joins(H, msgs, k, new)
  BY <1>6, <1>9, <1>a, <1>b, <1>c, <1>d, <1>e, <1>g, <1>h DEF Joins
<1> QED
  BY <1>1, <1>3, <1>f

\* A user message after a user message.
LEMMA JoinsMerge ==
  ASSUME NEW G, NEW msgs, NEW n \in Nat, NEW at, Joins(G, msgs, n, at), NEW m \in Message,
         msgs[n + 1] = m, \A i \in 1..n : msgs[i] \in Message,
         G # <<>>, G[Len(G)].role = "user", m.role = "user"
  PROVE  \E new : Joins(Append(Front(G), User(Last(G).pieces \o m.pieces, Last(G).results \cup m.results)),
                        msgs, n + 1, new)
<1>A. /\ G \in Seq(Message) /\ at \in [1..n -> Nat] /\ (n = 0 => G = <<>>)
      /\ \A i \in 1..n : /\ at[i] \in 1..Len(G) /\ G[at[i]].role = msgs[i].role
                         /\ G[at[i]].calls = msgs[i].calls
                         /\ msgs[i].results \subseteq G[at[i]].results
  BY Zenon DEF Joins
<1>B. \A i, j \in 1..n : i <= j => at[i] <= at[j]
  BY Zenon DEF Joins
<1>C. \A i, j \in 1..n : i < j /\ "assistant" \in {msgs[i].role, msgs[j].role} => at[i] < at[j]
  BY Zenon DEF Joins
<1>D. \A p \in 1..Len(G) : \E i \in 1..n : at[i] = p
  BY Zenon DEF Joins
<1>E. \A p \in 1..Len(G) : \A r \in G[p].results : \E i \in 1..n : at[i] = p /\ r \in msgs[i].results
  BY Zenon DEF Joins
<1>F. \A p \in 1..Len(G) :
         (\A i \in 1..n : at[i] = p => msgs[i].pieces = <<>>) => G[p].pieces = <<>>
  BY Zenon DEF Joins
<1>G. \A p \in 1..Len(G) : G[p].pieces # <<>> =>
         \E i \in 1..n : at[i] = p /\ EndsAlike(G[p], msgs[i])
  BY Zenon DEF Joins
<1>H. \A i \in 1..n : AloneIn(msgs, n, at, i) => G[at[i]].pieces = msgs[i].pieces
  BY Zenon DEF Joins
<1>1. PICK k : k = n + 1
  OBVIOUS
<1>2. PICK L : L = Len(G)
  OBVIOUS
<1>3. PICK last : last = G[L]
  OBVIOUS
<1>4. PICK U : U = User(last.pieces \o m.pieces, last.results \cup m.results)
  OBVIOUS
<1>5. PICK H : H = Append(Front(G), U)
  OBVIOUS
<1>6. PICK new : new = [i \in 1..k |-> IF i = k THEN L ELSE at[i]]
  OBVIOUS
<1>7. L \in Nat /\ L # 0 /\ k \in Nat /\ G \in Seq(Message) /\ last \in Message
  BY <1>A, <1>1, <1>2, <1>3
<1>8. last.pieces \in Seq(Piece) /\ m.pieces \in Seq(Piece) /\ last.results \in SUBSET Result
      /\ m.results \in SUBSET Result /\ last.role = "user" /\ last.calls = {} /\ m.calls = {}
  BY <1>2, <1>3, <1>7, MessageParts
<1>9. U \in Message /\ U.role = "user" /\ U.calls = {} /\ U.pieces = last.pieces \o m.pieces
      /\ U.results = last.results \cup m.results
  <2>1. last.pieces \o m.pieces \in Seq(Piece) /\ last.results \cup m.results \in SUBSET Result
    BY <1>8
  <2>2. U \in Message
    BY <2>1, <1>4, UserMessage
  <2>3. U.role = "user" /\ U.calls = {} /\ U.pieces = last.pieces \o m.pieces
        /\ U.results = last.results \cup m.results
    BY <1>4 DEF User
  <2> QED
    BY <2>2, <2>3
<1>a. H \in Seq(Message) /\ Len(H) = L /\ H[L] = U /\ \A p \in 1..(L - 1) : H[p] = G[p]
  <2>1. Front(G) = SubSeq(G, 1, L - 1)
    BY <1>2 DEF Front
  <2>2. Front(G) \in Seq(Message) /\ Len(Front(G)) = L - 1 /\ \A p \in 1..(L - 1) : Front(G)[p] = G[p]
    BY <2>1, <1>2, <1>7
  <2> QED
    BY <2>2, <1>5, <1>7, <1>9
<1>b. \A i \in 1..k : i # k => i \in 1..n /\ new[i] = at[i] /\ at[i] \in 1..L
  BY <1>A, <1>1, <1>2, <1>6
<1>c. k \in 1..k /\ new[k] = L /\ msgs[k] = m /\ k \notin 1..n /\ 1..n \subseteq 1..k
  BY <1>1, <1>6
<1>d. new \in [1..k -> Nat]
  BY <1>6, <1>7, <1>b
<1>e. ASSUME NEW i \in 1..k
      PROVE  /\ new[i] \in 1..Len(H) /\ H[new[i]].role = msgs[i].role
             /\ H[new[i]].calls = msgs[i].calls /\ msgs[i].results \subseteq H[new[i]].results
  <2>1. CASE i = k
    <3>1. new[i] = L /\ msgs[i] = m /\ L \in 1..Len(H) /\ H[L] = U
      BY <2>1, <1>7, <1>a, <1>c
    <3>2. m.results \subseteq U.results
      BY <1>9
    <3> QED
      BY <3>1, <3>2, <1>8, <1>9, Zenon
  <2>2. CASE i # k /\ at[i] = L
    <3>1. /\ new[i] = L /\ last.role = msgs[i].role /\ last.calls = msgs[i].calls
          /\ msgs[i].results \subseteq last.results
      BY <2>2, <1>A, <1>2, <1>3, <1>b
    <3> QED
      BY <3>1, <1>7, <1>8, <1>9, <1>a
  <2>3. CASE i # k /\ at[i] # L
    <3>1. new[i] = at[i] /\ at[i] \in 1..(L - 1) /\ H[at[i]] = G[at[i]]
      BY <2>3, <1>7, <1>a, <1>b
    <3> QED
      BY <2>3, <3>1, <1>A, <1>2, <1>7, <1>a, <1>b
  <2> QED
    BY <2>1, <2>2, <2>3
<1>f. ASSUME NEW i \in 1..k, NEW j \in 1..k, i <= j PROVE new[i] <= new[j]
  <2>1. CASE j = k
    BY <2>1, <1>7, <1>b, <1>c
  <2>2. CASE j # k
    <3>1. i # k
      BY <2>2, <1>7, <1>f
    <3> QED
      BY <2>2, <3>1, <1>B, <1>b, <1>f
  <2> QED
    BY <2>1, <2>2
<1>g. ASSUME NEW i \in 1..k, NEW j \in 1..k, i < j, "assistant" \in {msgs[i].role, msgs[j].role}
      PROVE  new[i] < new[j]
  <2>0. i # k
    BY <1>7, <1>g
  <2>1. CASE j = k
    <3>1. msgs[i].role = "assistant"
      BY <2>1, <1>c, <1>g
    <3>2. at[i] # L
      BY <3>1, <2>0, <1>A, <1>2, <1>3, <1>8, <1>b
    <3> QED
      BY <2>0, <2>1, <3>2, <1>7, <1>b, <1>c
  <2>2. CASE j # k
    BY <2>0, <2>2, <1>C, <1>b, <1>g
  <2> QED
    BY <2>1, <2>2
<1>h. ASSUME NEW p \in 1..Len(H)
      PROVE  /\ \E i \in 1..k : new[i] = p
             /\ \A r \in H[p].results : \E i \in 1..k : new[i] = p /\ r \in msgs[i].results
             /\ (\A i \in 1..k : new[i] = p => msgs[i].pieces = <<>>) => H[p].pieces = <<>>
  <2>0. p \in 1..L
    BY <1>a
  <2>1. CASE p = L
    <3>1. \E i \in 1..k : new[i] = p
      BY <2>1, <1>c
    <3>2. ASSUME NEW r \in U.results PROVE \E i \in 1..k : new[i] = p /\ r \in msgs[i].results
      <4>1. CASE r \in m.results
        BY <4>1, <2>1, <1>c
      <4>2. CASE r \in last.results
        <5>1. PICK i \in 1..n : at[i] = L /\ r \in msgs[i].results
          BY <4>2, <2>0, <2>1, <1>E, <1>2, <1>3
        <5>2. i \in 1..k /\ i # k
          BY <1>c
        <5> QED
          BY <5>1, <5>2, <2>1, <1>b
      <4> QED
        BY <3>2, <4>1, <4>2, <1>9
    <3>3. ASSUME \A i \in 1..k : new[i] = p => msgs[i].pieces = <<>> PROVE U.pieces = <<>>
      <4>1. \A i \in 1..n : at[i] = p => msgs[i].pieces = <<>>
        BY <3>3, <1>b, <1>c
      <4>2. last.pieces = <<>>
        BY <4>1, <2>0, <2>1, <1>F, <1>2, <1>3
      <4>3. m.pieces = <<>>
        BY <3>3, <2>1, <1>c
      <4>4. <<>> \o <<>> = <<>>
        OBVIOUS
      <4> QED
        BY <4>2, <4>3, <4>4, <1>9
    <3> QED
      BY <3>1, <3>2, <3>3, <2>1, <1>a
  <2>2. CASE p # L
    <3>1. H[p] = G[p]
      BY <2>0, <2>2, <1>7, <1>a
    <3>a. \A i \in 1..n : i \in 1..k /\ new[i] = at[i]
      BY <1>b, <1>c
    <3>2. \E i \in 1..k : new[i] = p
      BY <2>0, <3>a, <1>D, <1>2
    <3>3. \A r \in H[p].results : \E i \in 1..k : new[i] = p /\ r \in msgs[i].results
      BY <2>0, <3>1, <3>a, <1>E, <1>2
    <3>4. ASSUME \A i \in 1..k : new[i] = p => msgs[i].pieces = <<>> PROVE H[p].pieces = <<>>
      <4>1. \A i \in 1..n : at[i] = p => msgs[i].pieces = <<>>
        BY <3>4, <3>a
      <4> QED
        BY <4>1, <3>1, <2>0, <1>F, <1>2
    <3> QED
      BY <3>2, <3>3, <3>4
  <2> QED
    BY <2>1, <2>2
<1>i. (k = 0 => H = <<>>) /\ (k # 0 => new[k] = Len(H))
  BY <1>1, <1>a, <1>c
<1>l. ASSUME NEW p \in 1..Len(H), H[p].pieces # <<>>
      PROVE  \E i \in 1..k : new[i] = p /\ EndsAlike(H[p], msgs[i])
  <2>1. CASE p = L /\ m.pieces # <<>>
    <3>1. H[p].pieces = last.pieces \o m.pieces
      BY <2>1, <1>9, <1>a
    <3>2. Last(H[p].pieces) = Last(m.pieces)
      BY <3>1, <2>1, <1>8, LastJoined
    <3> QED
      BY <2>1, <3>2, <1>c DEF EndsAlike
  <2>2. CASE p = L /\ m.pieces = <<>>
    <3>1. H[p].pieces = last.pieces
      <4>1. last.pieces \o <<>> = last.pieces
        BY <1>8
      <4> QED
        BY <2>2, <4>1, <1>9, <1>a
    <3>2. G[p].pieces # <<>> /\ p \in 1..Len(G) /\ H[p].pieces = G[p].pieces
      BY <2>2, <3>1, <1>2, <1>3, <1>7, <1>l
    <3>3. PICK i \in 1..n : at[i] = p /\ EndsAlike(G[p], msgs[i])
      BY <3>2, <1>G
    <3>4. i \in 1..k /\ new[i] = at[i]
      BY <1>b, <1>c
    <3> QED
      BY <3>2, <3>3, <3>4 DEF EndsAlike
  <2>3. CASE p # L
    <3>1. p \in 1..Len(G) /\ H[p] = G[p]
      BY <2>3, <1>2, <1>7, <1>a
    <3>2. PICK i \in 1..n : at[i] = p /\ EndsAlike(G[p], msgs[i])
      BY <3>1, <1>G, <1>l
    <3>3. i \in 1..k /\ new[i] = at[i]
      BY <1>b, <1>c
    <3> QED
      BY <3>1, <3>2, <3>3
  <2> QED
    BY <2>1, <2>2, <2>3
<1>m. ASSUME NEW i \in 1..k, AloneIn(msgs, k, new, i) PROVE H[new[i]].pieces = msgs[i].pieces
  <2>1. CASE i = k
    <3>1. \A j \in 1..n : at[j] = L => msgs[j].pieces = <<>>
      BY <2>1, <1>b, <1>c, <1>m DEF AloneIn
    <3>2. last.pieces = <<>>
      BY <3>1, <1>F, <1>2, <1>3, <1>7
    <3>3. <<>> \o m.pieces = m.pieces
      BY <1>8
    <3> QED
      BY <2>1, <3>2, <3>3, <1>9, <1>a, <1>c
  <2>2. CASE i # k
    <3>0. i \in 1..n /\ new[i] = at[i] /\ at[i] \in 1..L
      BY <2>2, <1>b
    <3>1. \A j \in 1..n : j \in 1..k /\ new[j] = at[j]
      BY <1>b, <1>c
    <3>2. AloneIn(msgs, n, at, i)
      BY <3>0, <3>1, <1>m DEF AloneIn
    <3>3. G[at[i]].pieces = msgs[i].pieces
      BY <3>0, <3>2, <1>H
    <3>4. CASE at[i] = L
      <4>1. m.pieces = <<>>
        BY <2>2, <3>0, <3>4, <1>c, <1>m DEF AloneIn
      <4>2. last.pieces \o <<>> = last.pieces
        BY <1>8
      <4> QED
        BY <3>0, <3>3, <3>4, <4>1, <4>2, <1>3, <1>9, <1>a
    <3>5. CASE at[i] # L
      <4>1. H[at[i]] = G[at[i]]
        BY <3>0, <3>5, <1>7, <1>a
      <4> QED
        BY <3>0, <3>3, <4>1
    <3> QED
      BY <3>4, <3>5
  <2> QED
    BY <2>1, <2>2
<1>j. Joins(H, msgs, k, new)
  BY <1>a, <1>d, <1>e, <1>f, <1>g, <1>h, <1>i, <1>l, <1>m DEF Joins
<1>k. Last(G) = last
  BY <1>2, <1>3 DEF Last
<1> QED
  BY <1>1, <1>4, <1>5, <1>j, <1>k

\* canonical keeps every call and every result, in order.
LEMMA CanonicalJoins ==
  ASSUME NEW msgs \in Seq(Message)
  PROVE  \E at : Joins(canonical(msgs), msgs, Len(msgs), at)
<1>0. Len(msgs) \in Nat /\ DOMAIN msgs = 1..Len(msgs) /\ \A i \in 1..Len(msgs) : msgs[i] \in Message
  OBVIOUS
<1>1. PICK g : /\ g[0] = <<>>
               /\ \A k \in 1..Len(msgs) : g[k] = merged(g[k - 1], msgs[k])
               /\ canonical(msgs) = g[Len(msgs)]
  BY <1>0, CanonicalSteps
<1> DEFINE P == {k \in Nat : k <= Len(msgs) => \E at : Joins(g[k], msgs, k, at)}
<1> HIDE DEF P
<1>2. 0 \in P
  <2>1. PICK at : at = [i \in 1..0 |-> 0]
    OBVIOUS
  <2>2. Joins(<<>>, msgs, 0, at)
    BY <2>1 DEF Joins
  <2> QED
    BY <2>2, <1>1 DEF P
<1>3. ASSUME NEW k \in P PROVE k + 1 \in P
  <2>0. k \in Nat /\ (k <= Len(msgs) => \E at : Joins(g[k], msgs, k, at))
    BY DEF P
  <2>1. ASSUME k + 1 <= Len(msgs) PROVE \E at : Joins(g[k + 1], msgs, k + 1, at)
    <3>1. k <= Len(msgs) /\ k + 1 \in 1..Len(msgs) /\ (k + 1) - 1 = k /\ 1..k \subseteq 1..Len(msgs)
      BY <2>0, <2>1, <1>0
    <3>2. PICK at : Joins(g[k], msgs, k, at)
      BY <2>0, <3>1
    <3>3. PICK m : m = msgs[k + 1]
      OBVIOUS
    <3>4. m \in Message /\ g[k + 1] = merged(g[k], m) /\ \A i \in 1..k : msgs[i] \in Message
      BY <3>1, <3>3, <1>0, <1>1
    <3>5. PICK G : G = g[k]
      OBVIOUS
    <3>6. G \in Seq(Message)
      BY <3>2, <3>5, JoinsFacts
    <3>7. CASE G # <<>> /\ Last(G).role = "user" /\ m.role = "user"
      <4>1. merged(G, m) = Append(Front(G), User(Last(G).pieces \o m.pieces, Last(G).results \cup m.results))
        BY <3>7, Zenon DEF merged
      <4>2. G[Len(G)].role = "user"
        BY <3>7 DEF Last
      <4>3. Joins(G, msgs, k, at) /\ msgs[k + 1] = m
        BY <3>2, <3>3, <3>5
      <4>4. \E new : Joins(Append(Front(G), User(Last(G).pieces \o m.pieces, Last(G).results \cup m.results)),
                            msgs, k + 1, new)
        BY <2>0, <3>4, <3>7, <4>2, <4>3, JoinsMerge
      <4> QED
        BY <3>4, <3>5, <4>1, <4>4
    <3>8. CASE ~(G # <<>> /\ Last(G).role = "user" /\ m.role = "user")
      <4>1. merged(G, m) = Append(G, m)
        BY <3>8, Zenon DEF merged
      <4>2. G # <<>> => G[Len(G)] \in Message
        BY <3>6
      <4>3. G # <<>> => G[Len(G)].role \in {"user", "assistant"}
        BY <4>2, MessageParts
      <4>4. m.role \in {"user", "assistant"}
        BY <3>4, MessageParts
      <4>5. G # <<>> => G[Len(G)].role = "assistant" \/ m.role = "assistant"
        BY <3>8, <4>3, <4>4 DEF Last
      <4> QED
        BY <2>0, <3>2, <3>3, <3>4, <3>5, <4>1, <4>5, JoinsAppend
    <3> QED
      BY <3>7, <3>8
  <2> QED
    BY <2>0, <2>1 DEF P
<1>4. P \in SUBSET Nat
  BY DEF P
<1>5. Len(msgs) \in P
  BY <1>0, <1>2, <1>3, <1>4, EveryNumber
<1>6. Len(msgs) <= Len(msgs)
  BY <1>0
<1> QED
  BY <1>1, <1>5, <1>6 DEF P

-----------------------------------------------------------------------------
LEMMA OutcomeIs ==
  ASSUME NEW c PROVE outcome_of(c) \in {"settled", "interrupted"}
  BY DEF outcome_of

\* What a call of the delta that nobody answered becomes.
Answer(delta, i) ==
    User(<<>>, {[call |-> c, out |-> outcome_of(c)] : c \in delta[i].calls \ answered_call_ids(delta)})
Closes(delta, i) ==
    IF delta[i].calls \ answered_call_ids(delta) = {} THEN <<delta[i]>>
    ELSE <<delta[i], Answer(delta, i)>>

LEMMA CloseIs ==
  ASSUME NEW delta
  PROVE  close_unanswered_tool_calls_with(delta) = FlattenSeq([i \in DOMAIN delta |-> Closes(delta, i)])
  BY Zenon DEF close_unanswered_tool_calls_with, Closes, Answer

LEMMA ClosesParts ==
  ASSUME NEW delta \in Seq(Message), NEW i \in 1..Len(delta)
  PROVE  /\ Closes(delta, i) \in Seq(Message) /\ Len(Closes(delta, i)) \in {1, 2}
         /\ Closes(delta, i)[1] = delta[i]
         /\ delta[i].calls \ answered_call_ids(delta) # {} => Len(Closes(delta, i)) = 2
         /\ Len(Closes(delta, i)) = 2 => Closes(delta, i)[2] = Answer(delta, i)
<1>1. delta[i] \in Message
  OBVIOUS
<1>2. delta[i].calls \in SUBSET Nat
  BY <1>1, MessageParts
<1>3. ASSUME NEW c \in delta[i].calls PROVE [call |-> c, out |-> outcome_of(c)] \in Result
  BY <1>2, <1>3, OutcomeIs DEF Result
<1>4. {[call |-> c, out |-> outcome_of(c)] : c \in delta[i].calls \ answered_call_ids(delta)} \in SUBSET Result
  BY <1>3
<1>5. Answer(delta, i) \in Message
  BY <1>4, NoPieces, UserMessage DEF Answer
<1>6. CASE delta[i].calls \ answered_call_ids(delta) = {}
  <2>1. Closes(delta, i) = <<delta[i]>>
    BY <1>6 DEF Closes
  <2> QED
    BY <2>1, <1>1, <1>6
<1>7. CASE delta[i].calls \ answered_call_ids(delta) # {}
  <2>1. Closes(delta, i) = <<delta[i], Answer(delta, i)>>
    BY <1>7 DEF Closes
  <2> QED
    BY <2>1, <1>1, <1>5, <1>7
<1> QED
  BY <1>6, <1>7

\* Where the messages of the delta go, and what is put behind them.
ClosedAs(C, delta, off) ==
    /\ C \in Seq(Message) /\ off \in [1..Len(delta) -> Nat]
    /\ \A i \in 1..Len(delta) :
          /\ off[i] + 1 \in 1..Len(C) /\ C[off[i] + 1] = delta[i]
          /\ delta[i].calls \ answered_call_ids(delta) # {} =>
                off[i] + 2 \in 1..Len(C) /\ C[off[i] + 2] = Answer(delta, i)
    /\ \A i, k \in 1..Len(delta) : i < k => off[i] + 1 < off[k] + 1
    /\ \A p \in 1..Len(C) : \E i \in 1..Len(delta) :
          \/ p = off[i] + 1
          \/ p = off[i] + 2 /\ C[p] = Answer(delta, i)

LEMMA ClosePlaces ==
  ASSUME NEW delta \in Seq(Message)
  PROVE  \E off : ClosedAs(close_unanswered_tool_calls_with(delta), delta, off)
<1>1. PICK n : n = Len(delta)
  OBVIOUS
<1>2. PICK seqs : seqs = [i \in DOMAIN delta |-> Closes(delta, i)]
  OBVIOUS
<1>3. PICK C : C = close_unanswered_tool_calls_with(delta)
  OBVIOUS
<1>4. n \in Nat /\ DOMAIN delta = 1..n
  BY <1>1
<1>5. \A i \in 1..n : seqs[i] = Closes(delta, i) /\ seqs[i] \in Seq(Message)
  BY <1>1, <1>2, <1>4, ClosesParts
<1>6. seqs \in Seq(Seq(Message)) /\ Len(seqs) = n
  BY <1>2, <1>4, <1>5
<1>7. C = FlattenSeq(seqs)
  BY <1>2, <1>3, CloseIs
<1>8. PICK off : Placed(Message, C, seqs, n, off)
  BY <1>6, <1>7, FlattenPlaces
<1>a. C \in Seq(Message) /\ off \in [1..n -> Nat]
  BY <1>8, Zenon DEF Placed
<1>b. \A i \in 1..n : off[i] + Len(seqs[i]) <= Len(C)
  BY <1>8, Zenon DEF Placed
<1>c. \A i \in 1..n : \A j \in 1..Len(seqs[i]) : C[off[i] + j] = seqs[i][j]
  BY <1>8, Zenon DEF Placed
<1>d. \A i \in 1..n : \A k \in 1..n : i < k => off[i] + Len(seqs[i]) <= off[k]
  BY <1>8, Zenon DEF Placed
<1>e. \A p \in 1..Len(C) : \E i \in 1..n : \E j \in 1..Len(seqs[i]) : p = off[i] + j
  BY <1>8, Zenon DEF Placed
<1>f. ASSUME NEW i \in 1..n
      PROVE  /\ off[i] \in Nat /\ Len(C) \in Nat /\ Len(seqs[i]) \in {1, 2} /\ seqs[i][1] = delta[i]
             /\ delta[i].calls \ answered_call_ids(delta) # {} => Len(seqs[i]) = 2
             /\ Len(seqs[i]) = 2 => seqs[i][2] = Answer(delta, i)
  <2>1. seqs[i] = Closes(delta, i) /\ i \in 1..Len(delta)
    BY <1>1, <1>5
  <2>2. off[i] \in Nat /\ Len(C) \in Nat
    BY <1>a
  <2> QED
    BY <2>1, <2>2, ClosesParts
<1>g. ASSUME NEW i \in 1..n
      PROVE  /\ off[i] + 1 \in 1..Len(C) /\ C[off[i] + 1] = delta[i]
             /\ Len(seqs[i]) = 2 => off[i] + 2 \in 1..Len(C) /\ C[off[i] + 2] = Answer(delta, i)
  <2>1. off[i] + 1 \in 1..Len(C) /\ 1 \in 1..Len(seqs[i])
    BY <1>b, <1>f
  <2>2. Len(seqs[i]) = 2 => off[i] + 2 \in 1..Len(C) /\ 2 \in 1..Len(seqs[i])
    BY <1>b, <1>f
  <2> QED
    BY <2>1, <2>2, <1>c, <1>f
<1>h. ASSUME NEW i \in 1..n, NEW k \in 1..n, i < k PROVE off[i] + 1 < off[k] + 1
  BY <1>d, <1>f, <1>h
<1>i. ASSUME NEW p \in 1..Len(C)
      PROVE  \E i \in 1..n : \/ p = off[i] + 1
                             \/ p = off[i] + 2 /\ C[p] = Answer(delta, i)
  <2>1. PICK i \in 1..n : \E j \in 1..Len(seqs[i]) : p = off[i] + j
    BY <1>e
  <2>2. PICK j \in 1..Len(seqs[i]) : p = off[i] + j
    BY <2>1
  <2>4. Len(seqs[i]) = 1 \/ Len(seqs[i]) = 2
    BY <1>f
  <2>3. j = 1 \/ (j = 2 /\ Len(seqs[i]) = 2)
    <3>1. PICK len : len = Len(seqs[i])
      OBVIOUS
    <3>2. CASE len = 1
      <4>1. j \in 1..1
        BY <3>1, <3>2
      <4> QED
        BY <4>1
    <3>3. CASE len = 2
      <4>1. j \in 1..2 /\ Len(seqs[i]) = 2
        BY <3>1, <3>3
      <4> QED
        BY <4>1
    <3> QED
      BY <2>4, <3>1, <3>2, <3>3
  <2> QED
    BY <2>2, <2>3, <1>g
<1>j. ClosedAs(C, delta, off)
  BY <1>1, <1>a, <1>f, <1>g, <1>h, <1>i DEF ClosedAs
<1> QED
  BY <1>3, <1>j

\* What becomes of one result.
Repaired(r) ==
    IF r.out = "placeholder" /\ outcome_of(r.call) = "settled" THEN [r EXCEPT !.out = "settled"] ELSE r

LEMMA RepairedParts ==
  ASSUME NEW r \in Result
  PROVE  /\ Repaired(r) \in Result /\ Repaired(r).call = r.call
         /\ r.out \in {"settled", "placeholder"} /\ outcome_of(r.call) = "settled" =>
               Repaired(r) = [call |-> r.call, out |-> "settled"]
  BY DEF Repaired, Result

LEMMA ReplaceIs ==
  ASSUME NEW delta \in Seq(Message)
  PROVE  /\ replace_placeholder_results_with(delta) \in Seq(Message)
         /\ Len(replace_placeholder_results_with(delta)) = Len(delta)
         /\ \A i \in 1..Len(delta) :
               /\ replace_placeholder_results_with(delta)[i].pieces = delta[i].pieces
               /\ replace_placeholder_results_with(delta)[i].calls = delta[i].calls
               /\ replace_placeholder_results_with(delta)[i].results = {Repaired(r) : r \in delta[i].results}
<1>1. PICK R : R = replace_placeholder_results_with(delta)
  OBVIOUS
<1>2. R = [i \in DOMAIN delta |-> [delta[i] EXCEPT !.results = {Repaired(r) : r \in delta[i].results}]]
  BY <1>1, Zenon DEF replace_placeholder_results_with, Repaired
<1>3. ASSUME NEW i \in 1..Len(delta)
      PROVE  /\ R[i] \in Message /\ R[i].pieces = delta[i].pieces /\ R[i].calls = delta[i].calls
             /\ R[i].results = {Repaired(r) : r \in delta[i].results}
  <2>1. delta[i] \in Message /\ R[i] = [delta[i] EXCEPT !.results = {Repaired(r) : r \in delta[i].results}]
    <3>1. i \in DOMAIN delta /\ delta[i] \in Message
      OBVIOUS
    <3> QED
      BY <3>1, <1>2, Zenon
  <2>2. PICK m : m = delta[i]
    OBVIOUS
  <2>3. PICK x : x = {Repaired(r) : r \in m.results}
    OBVIOUS
  <2>4. m.results \in SUBSET Result
    BY <2>1, <2>2, MessageParts
  <2>5. x \in SUBSET Result /\ (m.results = {} => x = {})
    BY <2>3, <2>4, RepairedParts
  <2>6. m \in Fields /\ (m.role = "user" => m.calls = {}) /\ (m.role = "assistant" => m.results = {} /\ m.pieces = <<>>)
    BY <2>1, <2>2 DEF Message
  <2>7. R[i] = [m EXCEPT !.results = x]
    BY <2>1, <2>2, <2>3
  <2>8. R[i] \in Fields /\ R[i].pieces = m.pieces /\ R[i].calls = m.calls /\ R[i].results = x /\ R[i].role = m.role
    BY <2>5, <2>6, <2>7 DEF Fields
  <2>9. R[i] \in Message
    BY <2>5, <2>6, <2>8 DEF Message
  <2> QED
    BY <2>2, <2>3, <2>8, <2>9
<1>4. DOMAIN delta = 1..Len(delta) /\ Len(delta) \in Nat
  OBVIOUS
<1>5. R \in Seq(Message) /\ Len(R) = Len(delta)
  BY <1>2, <1>3, <1>4
<1> QED
  BY <1>1, <1>3, <1>5

\* Streamed text is only put behind the delta.
LEMMA StreamIs ==
  ASSUME NEW delta \in Seq(Message), stopped.text \in Seq(Nat)
  PROVE  /\ with_streamed_text(delta) \in Seq(Message) /\ Len(delta) <= Len(with_streamed_text(delta))
         /\ \A i \in 1..Len(delta) : with_streamed_text(delta)[i] = delta[i]
         /\ \A i \in 1..Len(with_streamed_text(delta)) : i \notin 1..Len(delta) =>
               with_streamed_text(delta)[i].calls = {} /\ with_streamed_text(delta)[i].results = {}
<1>1. PICK committed : committed = FlattenSeq([i \in DOMAIN delta |-> delta[i].chunks])
  OBVIOUS
<1>2. with_streamed_text(delta) =
        IF IsStrictPrefix(committed, stopped.text)
        THEN Append(delta, Assistant({}, SubSeq(stopped.text, Len(committed) + 1, Len(stopped.text))))
        ELSE delta
  BY <1>1, Zenon DEF with_streamed_text
<1>3. CASE ~IsStrictPrefix(committed, stopped.text)
  BY <1>2, <1>3
<1>4. CASE IsStrictPrefix(committed, stopped.text)
  <2>1. PICK rest : rest = SubSeq(stopped.text, Len(committed) + 1, Len(stopped.text))
    OBVIOUS
  <2>2. PICK parts : parts = [i \in DOMAIN delta |-> delta[i].chunks]
    OBVIOUS
  <2>a. \A i \in DOMAIN delta : delta[i] \in Message /\ delta[i].chunks \in Seq(Nat)
    <3>1. \A i \in DOMAIN delta : delta[i] \in Message
      OBVIOUS
    <3> QED
      BY <3>1, MessageParts
  <2>b. DOMAIN delta = 1..Len(delta) /\ Len(delta) \in Nat
    OBVIOUS
  <2>c. parts \in Seq(Seq(Nat))
    BY <2>2, <2>a, <2>b
  <2>d. \E off : Placed(Nat, committed, parts, Len(parts), off)
    BY <1>1, <2>2, <2>c, FlattenPlaces
  <2>e. committed \in Seq(Nat)
    BY <2>d, Zenon DEF Placed
  <2>3. Len(committed) + 1 \in Int
    BY <2>e
  <2>4. rest \in Seq(Nat)
    BY <2>1, <2>3
  <2>5. PICK m : m = Assistant({}, rest)
    OBVIOUS
  <2>6. m \in Message /\ m.calls = {} /\ m.results = {}
    BY <2>4, <2>5, AssistantMessage, AssistantParts
  <2>7. with_streamed_text(delta) = Append(delta, m)
    BY <1>2, <1>4, <2>1, <2>5
  <2> QED
    BY <2>6, <2>7
<1> QED
  BY <1>3, <1>4

-----------------------------------------------------------------------------
Finished(delta) ==
    with_streamed_text(replace_placeholder_results_with(close_unanswered_tool_calls_with(delta)))

Fixed(results) == {Repaired(r) : r \in results}

\* F is the delta with its open calls closed; off[i] + 1 is where message i is.
FinishedAs(F, delta, off) ==
    /\ F \in Seq(Message) /\ off \in [1..Len(delta) -> Nat] /\ (Len(delta) # 0 => off[1] = 0)
    /\ \A i \in 1..Len(delta) :
          /\ off[i] + 1 \in 1..Len(F) /\ F[off[i] + 1].pieces = delta[i].pieces
          /\ F[off[i] + 1].calls = delta[i].calls /\ F[off[i] + 1].results = Fixed(delta[i].results)
          /\ delta[i].calls \ answered_call_ids(delta) # {} =>
                off[i] + 2 \in 1..Len(F) /\ F[off[i] + 2].results = Fixed(Answer(delta, i).results)
    /\ \A i, k \in 1..Len(delta) : i < k => off[i] + 1 < off[k] + 1
    /\ \A p \in 1..Len(F) :
          \/ \E i \in 1..Len(delta) : p = off[i] + 1
          \/ F[p].calls = {} /\ \E i \in 1..Len(delta) :
                p = off[i] + 2 /\ F[p].results = Fixed(Answer(delta, i).results)
          \/ F[p].calls = {} /\ F[p].results = {}

LEMMA FinishPlaces ==
  ASSUME NEW delta \in Seq(Message), stopped.text \in Seq(Nat)
  PROVE  \E off : FinishedAs(Finished(delta), delta, off)
<1>1. PICK C : C = close_unanswered_tool_calls_with(delta)
  OBVIOUS
<1>2. PICK off : ClosedAs(C, delta, off)
  BY <1>1, ClosePlaces
<1>3. C \in Seq(Message) /\ off \in [1..Len(delta) -> Nat]
  BY <1>2, Zenon DEF ClosedAs
<1>4. \A i \in 1..Len(delta) :
          /\ off[i] + 1 \in 1..Len(C) /\ C[off[i] + 1] = delta[i]
          /\ delta[i].calls \ answered_call_ids(delta) # {} =>
                off[i] + 2 \in 1..Len(C) /\ C[off[i] + 2] = Answer(delta, i)
  BY <1>2, Zenon DEF ClosedAs
<1>5. \A i, k \in 1..Len(delta) : i < k => off[i] + 1 < off[k] + 1
  BY <1>2, Zenon DEF ClosedAs
<1>6. \A p \in 1..Len(C) : \E i \in 1..Len(delta) :
          \/ p = off[i] + 1
          \/ p = off[i] + 2 /\ C[p] = Answer(delta, i)
  BY <1>2, Zenon DEF ClosedAs
<1>7. PICK R : R = replace_placeholder_results_with(C)
  OBVIOUS
<1>8. /\ R \in Seq(Message) /\ Len(R) = Len(C)
      /\ \A i \in 1..Len(C) : /\ R[i].pieces = C[i].pieces /\ R[i].calls = C[i].calls
                              /\ R[i].results = Fixed(C[i].results)
  BY <1>3, <1>7, ReplaceIs DEF Fixed
<1>9. PICK F : F = with_streamed_text(R)
  OBVIOUS
<1>a. /\ F \in Seq(Message) /\ Len(R) <= Len(F)
      /\ \A i \in 1..Len(R) : F[i] = R[i]
      /\ \A i \in 1..Len(F) : i \notin 1..Len(R) => F[i].calls = {} /\ F[i].results = {}
  BY <1>8, <1>9, StreamIs
<1>b. 1..Len(C) \subseteq 1..Len(F)
  <2>1. Len(C) \in Nat /\ Len(F) \in Nat /\ Len(C) <= Len(F)
    BY <1>3, <1>8, <1>a
  <2> QED
    BY <2>1
<1>c. \A p \in 1..Len(C) : /\ F[p].pieces = C[p].pieces /\ F[p].calls = C[p].calls
                           /\ F[p].results = Fixed(C[p].results)
  BY <1>8, <1>a
<1>d. ASSUME NEW i \in 1..Len(delta)
      PROVE  /\ off[i] + 1 \in 1..Len(F) /\ F[off[i] + 1].pieces = delta[i].pieces
             /\ F[off[i] + 1].calls = delta[i].calls /\ F[off[i] + 1].results = Fixed(delta[i].results)
             /\ delta[i].calls \ answered_call_ids(delta) # {} =>
                   off[i] + 2 \in 1..Len(F) /\ F[off[i] + 2].results = Fixed(Answer(delta, i).results)
  BY <1>4, <1>b, <1>c, Zenon
<1>e. ASSUME NEW p \in 1..Len(F)
      PROVE  \/ \E i \in 1..Len(delta) : p = off[i] + 1
             \/ F[p].calls = {} /\ \E i \in 1..Len(delta) :
                   p = off[i] + 2 /\ F[p].results = Fixed(Answer(delta, i).results)
             \/ F[p].calls = {} /\ F[p].results = {}
  <2>1. CASE p \notin 1..Len(C)
    BY <2>1, <1>8, <1>a
  <2>2. CASE p \in 1..Len(C)
    <3>1. PICK i \in 1..Len(delta) : p = off[i] + 1 \/ (p = off[i] + 2 /\ C[p] = Answer(delta, i))
      BY <2>2, <1>6
    <3>2. CASE p = off[i] + 1
      BY <3>2
    <3>3. CASE p = off[i] + 2 /\ C[p] = Answer(delta, i)
      <4>1. F[p].calls = Answer(delta, i).calls /\ F[p].results = Fixed(Answer(delta, i).results)
        BY <2>2, <3>3, <1>c
      <4>2. Answer(delta, i).calls = {}
        BY UserParts DEF Answer
      <4> QED
        BY <3>3, <4>1, <4>2
    <3> QED
      BY <3>1, <3>2, <3>3
  <2> QED
    BY <2>1, <2>2
<1>g. Len(delta) # 0 => off[1] = 0
  <2> SUFFICES ASSUME Len(delta) # 0 PROVE off[1] = 0
    OBVIOUS
  <2>1. 1 \in 1..Len(delta) /\ Len(C) \in Nat
    BY <1>3
  <2>2. 1 \in 1..Len(C)
    BY <2>1, <1>3, <1>4
  <2>3. PICK i \in 1..Len(delta) : 1 = off[i] + 1 \/ 1 = off[i] + 2
    BY <2>2, <1>6
  <2>4. off[i] \in Nat /\ off[1] \in Nat
    BY <2>1, <1>3
  <2>5. ~(1 < i)
    BY <2>1, <2>3, <2>4, <1>5
  <2>6. i = 1
    BY <2>1, <2>5
  <2> QED
    BY <2>3, <2>4, <2>6
<1>f. FinishedAs(F, delta, off)
  BY <1>3, <1>5, <1>a, <1>d, <1>e, <1>g, Zenon DEF FinishedAs
<1> QED
  BY <1>1, <1>7, <1>9, <1>f DEF Finished

LEMMA FixedCalls ==
  ASSUME NEW results \in SUBSET Result
  PROVE  {r.call : r \in Fixed(results)} = {r.call : r \in results}
<1>1. \A r \in results : Repaired(r).call = r.call
  BY RepairedParts
<1> QED
  BY <1>1 DEF Fixed

LEMMA AnswerParts ==
  ASSUME NEW delta \in Seq(Message), NEW i \in 1..Len(delta)
  PROVE  /\ Answer(delta, i).results \in SUBSET Result
         /\ \A c \in delta[i].calls \ answered_call_ids(delta) :
               [call |-> c, out |-> outcome_of(c)] \in Answer(delta, i).results
         /\ {r.call : r \in Answer(delta, i).results} = delta[i].calls \ answered_call_ids(delta)
<1>1. PICK open : open = delta[i].calls \ answered_call_ids(delta)
  OBVIOUS
<1>2. Answer(delta, i).results = {[call |-> c, out |-> outcome_of(c)] : c \in open}
  BY <1>1, UserParts DEF Answer
<1>3. delta[i] \in Message
  OBVIOUS
<1>4. open \in SUBSET Nat
  BY <1>1, <1>3, MessageParts
<1>5. \A c \in open : [call |-> c, out |-> outcome_of(c)] \in Result
  BY <1>4, OutcomeIs DEF Result
<1>6. \A c \in open : [call |-> c, out |-> outcome_of(c)] \in Answer(delta, i).results
  BY <1>2, Zenon
<1>7. {r.call : r \in Answer(delta, i).results} = open
  <2>1. \A r \in Answer(delta, i).results : r.call \in open
    BY <1>2
  <2>2. \A c \in open : [call |-> c, out |-> outcome_of(c)].call = c
    OBVIOUS
  <2>3. \A c \in open : \E r \in Answer(delta, i).results : r.call = c
    BY <2>2, <1>6
  <2> QED
    BY <2>1, <2>3
<1>8. Answer(delta, i).results \in SUBSET Result
  BY <1>2, <1>5
<1> QED
  BY <1>1, <1>6, <1>7, <1>8, Zenon

RecordsTyped == records \in Seq([call : Nat, result : {"none", "settled"}])

LEMMA SettledOutcome ==
  ASSUME RecordsTyped, NEW c \in settled_calls
  PROVE  outcome_of(c) = "settled"
<1>1. PICK i \in DOMAIN records : records[i].result = "settled" /\ records[i].call = c
  BY DEF settled_calls
<1>2. records[i] \in [call : Nat, result : {"none", "settled"}]
  <2>1. \A S : \A s \in Seq(S) : \A k \in DOMAIN s : s[k] \in S
    OBVIOUS
  <2> QED
    BY <1>1, <2>1, Zenon DEF RecordsTyped
<1>4. PICK x : x = records[i]
  OBVIOUS
<1>3. records[i] = [call |-> c, result |-> "settled"]
  BY <1>1, <1>2, <1>4
<1> QED
  BY <1>1, <1>3 DEF outcome_of

\* What closing keeps: every prompt and call, and what a call settled with.
LEMMA FinishKeeps ==
  ASSUME NEW delta \in Seq(Message), stopped.text \in Seq(Nat), RecordsTyped
  PROVE  /\ Finished(delta) \in Seq(Message)
         /\ \A i \in 1..Len(delta) : \E p \in 1..Len(Finished(delta)) :
               Finished(delta)[p].pieces = delta[i].pieces
         /\ call_ids(delta) \subseteq call_ids(Finished(delta))
         /\ \A c \in settled_calls \cap call_ids(delta) :
               (\A i \in 1..Len(delta) : \A r \in delta[i].results :
                   r.call = c => r.out \in {"settled", "placeholder"})
               => \E p \in 1..Len(Finished(delta)) : [call |-> c, out |-> "settled"] \in Finished(delta)[p].results
<1>1. PICK F : F = Finished(delta)
  OBVIOUS
<1>2. PICK off : FinishedAs(F, delta, off)
  BY <1>1, FinishPlaces
<1>3. F \in Seq(Message) /\ off \in [1..Len(delta) -> Nat]
  BY <1>2, Zenon DEF FinishedAs
<1>4. \A i \in 1..Len(delta) :
          /\ off[i] + 1 \in 1..Len(F) /\ F[off[i] + 1].pieces = delta[i].pieces
          /\ F[off[i] + 1].calls = delta[i].calls /\ F[off[i] + 1].results = Fixed(delta[i].results)
          /\ delta[i].calls \ answered_call_ids(delta) # {} =>
                off[i] + 2 \in 1..Len(F) /\ F[off[i] + 2].results = Fixed(Answer(delta, i).results)
  BY <1>2, Zenon DEF FinishedAs
<1>5. DOMAIN delta = 1..Len(delta) /\ DOMAIN F = 1..Len(F)
  BY <1>3
<1>6. call_ids(delta) \subseteq call_ids(F)
  <2> SUFFICES ASSUME NEW c \in call_ids(delta) PROVE c \in call_ids(F)
    OBVIOUS
  <2>1. PICK i \in 1..Len(delta) : c \in delta[i].calls
    BY <1>5 DEF call_ids
  <2>2. off[i] + 1 \in DOMAIN F /\ c \in F[off[i] + 1].calls
    BY <2>1, <1>4, <1>5
  <2> QED
    BY <2>2 DEF call_ids
<1>7. ASSUME NEW c \in settled_calls \cap call_ids(delta),
             \A i \in 1..Len(delta) : \A r \in delta[i].results : r.call = c => r.out \in {"settled", "placeholder"}
      PROVE  \E p \in 1..Len(F) : [call |-> c, out |-> "settled"] \in F[p].results
  <2>0. outcome_of(c) = "settled"
    BY SettledOutcome
  <2>1. CASE c \in answered_call_ids(delta)
    <3>1. PICK i \in 1..Len(delta) : \E r \in delta[i].results : r.call = c
      BY <2>1, <1>5 DEF answered_call_ids
    <3>2. PICK r \in delta[i].results : r.call = c
      BY <3>1
    <3>3. delta[i] \in Message
      OBVIOUS
    <3>4. r \in Result
      BY <3>2, <3>3, MessageParts
    <3>5. Repaired(r) = [call |-> c, out |-> "settled"]
      BY <3>2, <3>4, <2>0, <1>7, RepairedParts
    <3>6. Repaired(r) \in F[off[i] + 1].results
      BY <3>2, <1>4 DEF Fixed
    <3> QED
      BY <3>5, <3>6, <1>4
  <2>2. CASE c \notin answered_call_ids(delta)
    <3>1. PICK i \in 1..Len(delta) : c \in delta[i].calls
      BY <1>5 DEF call_ids
    <3>2. PICK r : r = [call |-> c, out |-> "settled"]
      OBVIOUS
    <3>3. r \in Answer(delta, i).results /\ Answer(delta, i).results \in SUBSET Result
      BY <2>0, <2>2, <3>1, <3>2, AnswerParts
    <3>4. Repaired(r) = r
      BY <3>2 DEF Repaired
    <3>5. r \in Fixed(Answer(delta, i).results)
      BY <3>3, <3>4 DEF Fixed
    <3>6. off[i] + 2 \in 1..Len(F) /\ F[off[i] + 2].results = Fixed(Answer(delta, i).results)
      BY <2>2, <3>1, <1>4
    <3> QED
      BY <3>2, <3>5, <3>6
  <2> QED
    BY <2>1, <2>2
<1>8. \A i \in 1..Len(delta) : \E p \in 1..Len(F) : F[p].pieces = delta[i].pieces
  BY <1>4
<1> QED
  BY <1>1, <1>3, <1>6, <1>7, <1>8

-----------------------------------------------------------------------------
\* The anchor is the last message with the turn's prompt.
LEMMA AnchorIs ==
  ASSUME NEW h, Len(h) \in Nat
  PROVE  /\ prompt_anchor(h) \in 0..Len(h)
         /\ prompt_anchor(h) # 0 => is_prompt(h[prompt_anchor(h)])
         /\ \A i \in 1..Len(h) : is_prompt(h[i]) => i <= prompt_anchor(h)
<1>1. PICK I : I = {i \in 1..Len(h) : is_prompt(h[i])}
  OBVIOUS
<1>2. prompt_anchor(h) = IF I # {} THEN Max(I) ELSE 0
  BY <1>1, Zenon DEF prompt_anchor, SelectLastInSubSeq
<1>3. CASE I = {}
  BY <1>1, <1>2, <1>3
<1>4. CASE I # {}
  <2>1. I \in SUBSET (1..Len(h))
    BY <1>1
  <2>2. Max(I) \in I /\ \A y \in I : Max(I) >= y
    BY <2>1, <1>4, MaxIn
  <2>3. PICK a : a = Max(I)
    OBVIOUS
  <2>4. a \in 1..Len(h) /\ is_prompt(h[a]) /\ prompt_anchor(h) = a
    BY <2>2, <2>3, <1>1, <1>2, <1>4
  <2>5. \A i \in 1..Len(h) : is_prompt(h[i]) => i <= a
    BY <2>2, <2>3, <2>4, <1>1
  <2> QED
    BY <2>4, <2>5
<1> QED
  BY <1>3, <1>4

\* Only results of the first message are dropped.
Trimmed(delta, cut) ==
    /\ delta \in Seq(Message) /\ Len(delta) = Len(cut)
    /\ \A i \in 1..Len(cut) : /\ delta[i].pieces = cut[i].pieces /\ delta[i].calls = cut[i].calls
                              /\ delta[i].results \subseteq cut[i].results
                              /\ i # 1 => delta[i] = cut[i]

LEMMA DropIs ==
  ASSUME NEW cut \in Seq(Message), cut # <<>> => cut[1].pieces # <<>>, NEW stored
  PROVE  Trimmed(drop_stored_results(cut, stored), cut)
<1>1. PICK D : D = drop_stored_results(cut, stored)
  OBVIOUS
<1>2. CASE D = cut
  BY <1>1, <1>2 DEF Trimmed
<1>3. CASE D # cut
  <2>1. PICK head : head = Head(cut)
    OBVIOUS
  <2>2. PICK kept : kept = {r \in head.results : r.call \notin stored}
    OBVIOUS
  <2>3. D = IF cut = <<>> \/ head.role # "user" THEN cut
            ELSE IF kept = head.results THEN cut
            ELSE IF kept = {} /\ head.pieces = <<>> THEN Tail(cut)
            ELSE <<User(head.pieces, kept)>> \o Tail(cut)
    BY <1>1, <2>1, <2>2, Zenon DEF drop_stored_results
  <2>4. cut # <<>> /\ head.role = "user" /\ head = cut[1] /\ head \in Message
    BY <1>3, <2>1, <2>3
  <2>5. D = <<User(head.pieces, kept)>> \o Tail(cut)
    BY <1>3, <2>3, <2>4
  <2>6. /\ head.pieces \in Seq(Piece) /\ head.results \in SUBSET Result /\ head.calls = {}
        /\ kept \in SUBSET Result
    BY <2>2, <2>4, MessageParts
  <2>7. PICK u : u = User(head.pieces, kept)
    OBVIOUS
  <2>8. u \in Message /\ u.pieces = head.pieces /\ u.calls = {} /\ u.results = kept
    BY <2>6, <2>7, UserMessage, UserParts
  <2>9. D = <<u>> \o Tail(cut)
    BY <2>5, <2>7
  <2>a. /\ D \in Seq(Message) /\ Len(D) = Len(cut) /\ D[1] = u
        /\ \A i \in 1..Len(cut) : i # 1 => D[i] = cut[i]
    BY <2>4, <2>8, <2>9
  <2>b. ASSUME NEW i \in 1..Len(cut)
        PROVE  /\ D[i].pieces = cut[i].pieces /\ D[i].calls = cut[i].calls
               /\ D[i].results \subseteq cut[i].results
    <3>1. CASE i = 1
      BY <3>1, <2>2, <2>4, <2>6, <2>8, <2>a
    <3>2. CASE i # 1
      BY <3>2, <2>a
    <3> QED
      BY <3>1, <3>2
  <2> QED
    BY <1>1, <2>a, <2>b DEF Trimmed
<1> QED
  BY <1>2, <1>3

LEMMA CutIs ==
  ASSUME NEW h \in Seq(Message), NEW a \in 1..Len(h)
  PROVE  /\ SubSeq(h, a, Len(h)) \in Seq(Message) /\ Len(SubSeq(h, a, Len(h))) = Len(h) - a + 1
         /\ \A i \in 1..(Len(h) - a + 1) : SubSeq(h, a, Len(h))[i] = h[a + i - 1]
  OBVIOUS

\* What the delta is before it is finished: the prompt when it was not found, what
\* was cut off, and the calls it lacks.
asked == User(<<[prompt |-> prompt, steered |-> FALSE]>>, {})
Before(anchor) == IF anchor = 0 THEN <<asked>> ELSE <<>>
Behind(anchor, missing) ==
    IF missing # {} THEN <<Assistant(missing, <<>>)>>
    ELSE IF anchor = 0 THEN <<EmptyReply>> ELSE <<>>
CutAt(h, anchor) == IF anchor = 0 THEN <<>> ELSE SubSeq(h, anchor, Len(h))

LEMMA DeltaIs ==
  ASSUME NEW stored
  PROVE  \E anchor, delta, missing :
            /\ anchor = prompt_anchor(stopped.history)
            /\ delta = drop_stored_results(CutAt(stopped.history, anchor), stored)
            /\ missing = missing_tool_calls(delta)
            /\ turn_delta(stored) = Finished(
                  IF missing # {} THEN (IF anchor = 0 THEN <<asked>> ELSE <<>>) \o delta \o <<Assistant(missing, <<>>)>>
                  ELSE IF anchor = 0 THEN <<asked, EmptyReply>> ELSE delta)
  BY Zenon DEF turn_delta, Finished, CutAt, asked

LEMMA DeltaParts ==
  ASSUME NEW stored, stopped.history \in Seq(Message)
  PROVE  \E anchor, delta, missing :
            /\ anchor = prompt_anchor(stopped.history)
            /\ delta = drop_stored_results(CutAt(stopped.history, anchor), stored)
            /\ Trimmed(delta, CutAt(stopped.history, anchor))
            /\ missing = missing_tool_calls(delta)
            /\ turn_delta(stored) = Finished(Before(anchor) \o (delta \o Behind(anchor, missing)))
<1>1. PICK anchor, delta, missing :
            /\ anchor = prompt_anchor(stopped.history)
            /\ delta = drop_stored_results(CutAt(stopped.history, anchor), stored)
            /\ missing = missing_tool_calls(delta)
            /\ turn_delta(stored) = Finished(
                  IF missing # {} THEN (IF anchor = 0 THEN <<asked>> ELSE <<>>) \o delta \o <<Assistant(missing, <<>>)>>
                  ELSE IF anchor = 0 THEN <<asked, EmptyReply>> ELSE delta)
  BY DeltaIs, Zenon
<1>2. PICK h : h = stopped.history
  OBVIOUS
<1>3. h \in Seq(Message) /\ Len(h) \in Nat /\ anchor \in 0..Len(h) /\ (anchor # 0 => is_prompt(h[anchor]))
  <2>1. Len(h) \in Nat
    BY <1>2
  <2> QED
    BY <2>1, <1>1, <1>2, AnchorIs
<1>4. PICK cut : cut = CutAt(h, anchor)
  OBVIOUS
<1>5. cut \in Seq(Message) /\ (cut # <<>> => cut[1].pieces # <<>>)
  <2>1. CASE anchor = 0
    BY <2>1, <1>4 DEF CutAt
  <2>2. CASE anchor # 0
    <3>1. cut = SubSeq(h, anchor, Len(h)) /\ anchor \in 1..Len(h)
      BY <2>2, <1>3, <1>4 DEF CutAt
    <3>2. 1 \in 1..(Len(h) - anchor + 1) /\ anchor + 1 - 1 = anchor
      BY <3>1, <1>3
    <3>3. cut \in Seq(Message) /\ cut[1] = h[anchor]
      BY <3>1, <3>2, <1>3, CutIs
    <3> QED
      BY <2>2, <3>3, <1>3 DEF is_prompt
  <2> QED
    BY <2>1, <2>2
<1>6. Trimmed(delta, cut)
  BY <1>1, <1>2, <1>4, <1>5, DropIs
<1>7. delta \in Seq(Message) /\ (anchor = 0 => delta = <<>>)
  <2>1. delta \in Seq(Message) /\ Len(delta) = Len(cut)
    BY <1>6 DEF Trimmed
  <2>2. anchor = 0 => cut = <<>>
    BY <1>4 DEF CutAt
  <2> QED
    BY <2>1, <2>2
<1>8. (IF missing # {} THEN (IF anchor = 0 THEN <<asked>> ELSE <<>>) \o delta \o <<Assistant(missing, <<>>)>>
       ELSE IF anchor = 0 THEN <<asked, EmptyReply>> ELSE delta)
      = Before(anchor) \o (delta \o Behind(anchor, missing))
  <2>1. PICK m : m = Assistant(missing, <<>>)
    OBVIOUS
  <2>2. PICK q : q = asked
    OBVIOUS
  <2>3. PICK e : e = EmptyReply
    OBVIOUS
  <2>4. PICK S : S = Message \cup {m, q, e}
    OBVIOUS
  <2>5. m \in S /\ q \in S /\ e \in S /\ delta \in Seq(S)
    <3>1. Message \subseteq S
      BY <2>4
    <3> QED
      BY <3>1, <2>4, <1>7
  <2>6. CASE missing # {}
    <3>1. Behind(anchor, missing) = <<m>>
      BY <2>1, <2>6 DEF Behind
    <3>2. CASE anchor = 0
      <4>1. Before(anchor) = <<q>>
        BY <2>2, <3>2 DEF Before
      <4>2. <<q>> \o delta \o <<m>> = <<q>> \o (delta \o <<m>>)
        BY <2>5
      <4> QED
        BY <2>1, <2>2, <2>6, <3>1, <3>2, <4>1, <4>2
    <3>3. CASE anchor # 0
      <4>1. Before(anchor) = <<>>
        BY <3>3 DEF Before
      <4>2. <<>> \o delta \o <<m>> = <<>> \o (delta \o <<m>>)
        BY <2>5
      <4> QED
        BY <2>1, <2>6, <3>1, <3>3, <4>1, <4>2
    <3> QED
      BY <3>2, <3>3
  <2>7. CASE missing = {} /\ anchor = 0
    <3>1. Behind(anchor, missing) = <<e>> /\ Before(anchor) = <<q>> /\ delta = <<>>
      BY <2>2, <2>3, <2>7, <1>7 DEF Before, Behind
    <3>2. <<q>> \o (<<>> \o <<e>>) = <<q, e>>
      <4>1. <<e>> \in Seq(S) /\ <<q>> \in Seq(S) /\ <<q, e>> \in Seq(S)
        BY <2>5
      <4>2. <<>> \o <<e>> = <<e>>
        BY <4>1
      <4>3. <<q>> \o <<e>> = <<q, e>>
        <5>1. PICK z : z = <<q>> \o <<e>>
          OBVIOUS
        <5>2. z \in Seq(S) /\ Len(z) = 2 /\ z[1] = q /\ z[2] = e
          BY <4>1, <5>1
        <5>3. PICK w : w = <<q, e>>
          OBVIOUS
        <5>4. w \in Seq(S) /\ Len(w) = 2 /\ w[1] = q /\ w[2] = e
          BY <4>1, <5>3
        <5>5. \A i \in 1..Len(z) : z[i] = w[i]
          BY <5>2, <5>4
        <5> QED
          BY <5>1, <5>2, <5>3, <5>4, <5>5, SeqEqual
      <4> QED
        BY <4>2, <4>3
    <3> QED
      BY <2>2, <2>3, <2>7, <3>1, <3>2
  <2>8. CASE missing = {} /\ anchor # 0
    <3>1. Behind(anchor, missing) = <<>> /\ Before(anchor) = <<>>
      BY <2>8 DEF Before, Behind
    <3>2. <<>> \o (delta \o <<>>) = delta
      BY <1>7
    <3> QED
      BY <2>8, <3>1, <3>2
  <2> QED
    BY <2>6, <2>7, <2>8
<1> QED
  BY <1>1, <1>2, <1>4, <1>6, <1>8

-----------------------------------------------------------------------------
LEMMA Concat ==
  ASSUME NEW S, NEW s \in Seq(S), NEW t \in Seq(S)
  PROVE  /\ s \o t \in Seq(S) /\ Len(s \o t) = Len(s) + Len(t)
         /\ \A i \in 1..Len(s) : (s \o t)[i] = s[i]
         /\ \A i \in 1..Len(t) : (s \o t)[Len(s) + i] = t[i]
  OBVIOUS

Sandwiched(S, w, pre, mid, post) ==
         /\ w \in Seq(S)
         /\ \A i \in 1..Len(pre) : i \in 1..Len(w) /\ w[i] = pre[i]
         /\ \A i \in 1..Len(mid) : Len(pre) + i \in 1..Len(w) /\ w[Len(pre) + i] = mid[i]
         /\ \A i \in 1..Len(post) : /\ Len(pre) + Len(mid) + i \in 1..Len(w)
                                    /\ w[Len(pre) + Len(mid) + i] = post[i]
         /\ \A p \in 1..Len(w) : \/ p \in 1..Len(pre)
                                 \/ p - Len(pre) \in 1..Len(mid)
                                 \/ p - Len(pre) - Len(mid) \in 1..Len(post)

LEMMA Sandwich ==
  ASSUME NEW S, NEW pre \in Seq(S), NEW mid \in Seq(S), NEW post \in Seq(S), NEW w,
         w = pre \o (mid \o post)
  PROVE  Sandwiched(S, w, pre, mid, post)
<1>1. PICK x : x = mid \o post
  OBVIOUS
<1>2. x \in Seq(S) /\ Len(x) = Len(mid) + Len(post)
  BY <1>1
<1>3. /\ \A i \in 1..Len(mid) : x[i] = mid[i]
      /\ \A i \in 1..Len(post) : x[Len(mid) + i] = post[i]
  BY <1>1
<1>4. w = pre \o x
  BY <1>1
<1>5. w \in Seq(S) /\ Len(w) = Len(pre) + Len(x)
  <2>1. /\ pre \o x \in Seq(S) /\ Len(pre \o x) = Len(pre) + Len(x)
        /\ \A i \in 1..Len(pre) : (pre \o x)[i] = pre[i]
        /\ \A i \in 1..Len(x) : (pre \o x)[Len(pre) + i] = x[i]
    <3>1. x \in Seq(S)
      BY <1>2
    <3> QED
      BY ONLY pre \in Seq(S), <3>1, Concat
  <2> QED
    BY <2>1, <1>4
<1>6. /\ \A i \in 1..Len(pre) : w[i] = pre[i]
      /\ \A i \in 1..Len(x) : w[Len(pre) + i] = x[i]
  <2>1. /\ pre \o x \in Seq(S) /\ Len(pre \o x) = Len(pre) + Len(x)
        /\ \A i \in 1..Len(pre) : (pre \o x)[i] = pre[i]
        /\ \A i \in 1..Len(x) : (pre \o x)[Len(pre) + i] = x[i]
    <3>1. x \in Seq(S)
      BY <1>2
    <3> QED
      BY ONLY pre \in Seq(S), <3>1, Concat
  <2> QED
    BY <2>1, <1>4
<1>7. Len(pre) \in Nat /\ Len(mid) \in Nat /\ Len(post) \in Nat
  OBVIOUS
<1>8. ASSUME NEW i \in 1..Len(post)
      PROVE  /\ Len(pre) + Len(mid) + i \in 1..Len(w) /\ w[Len(pre) + Len(mid) + i] = post[i]
  <2>1. Len(mid) + i \in 1..Len(x) /\ Len(pre) + (Len(mid) + i) = Len(pre) + Len(mid) + i
    BY <1>2, <1>7
  <2>2. Len(pre) + Len(mid) + i \in 1..Len(w)
    BY <1>2, <1>5, <1>7
  <2> QED
    BY <2>1, <2>2, <1>3, <1>6
<1>9. ASSUME NEW i \in 1..Len(mid)
      PROVE  Len(pre) + i \in 1..Len(w) /\ w[Len(pre) + i] = mid[i]
  <2>1. i \in 1..Len(x) /\ Len(pre) + i \in 1..Len(w)
    BY <1>2, <1>5, <1>7
  <2> QED
    BY <2>1, <1>3, <1>6
<1>a. \A p \in 1..Len(w) : \/ p \in 1..Len(pre)
                           \/ p - Len(pre) \in 1..Len(mid)
                           \/ p - Len(pre) - Len(mid) \in 1..Len(post)
  BY <1>2, <1>5, <1>7
<1>b. \A i \in 1..Len(pre) : i \in 1..Len(w)
  BY <1>2, <1>5, <1>7
<1> QED
  BY <1>5, <1>6, <1>8, <1>9, <1>a, <1>b DEF Sandwiched

LEMMA AskedIs ==
  ASSUME prompt \in Prompted
  PROVE  /\ asked \in Message /\ asked.results = {} /\ asked.calls = {}
         /\ 1 \in DOMAIN asked.pieces /\ asked.pieces[1].prompt = prompt
<1>1. [prompt |-> prompt, steered |-> FALSE] \in Piece
  BY DEF Piece
<1>2. PICK ps : ps = <<[prompt |-> prompt, steered |-> FALSE]>>
  OBVIOUS
<1>3. ps \in Seq(Piece) /\ 1 \in DOMAIN ps /\ ps[1].prompt = prompt
  BY <1>1, <1>2
<1>4. asked = User(ps, {}) /\ {} \in SUBSET Result
  BY <1>2 DEF asked
<1>5. asked \in Message
  BY <1>3, <1>4, UserMessage
<1>6. asked.results = {} /\ asked.calls = {} /\ asked.pieces = ps
  BY <1>4 DEF User
<1> QED
  BY <1>3, <1>5, <1>6

LEMMA EmptyReplyIs == EmptyReply \in Message /\ EmptyReply.results = {} /\ EmptyReply.calls = {}
<1>1. <<0>> \in Seq(Nat)
  OBVIOUS
<1> QED
  BY <1>1, AssistantMessage, AssistantParts DEF EmptyReply

LEMMA MissingNat ==
  ASSUME RecordsTyped PROVE \A delta : missing_tool_calls(delta) \subseteq Nat
<1>1. \A i \in DOMAIN records : records[i].call \in Nat
  <2>1. \A S : \A s \in Seq(S) : \A k \in DOMAIN s : s[k] \in S
    OBVIOUS
  <2>2. \A i \in DOMAIN records : records[i] \in [call : Nat, result : {"none", "settled"}]
    BY <2>1, Zenon DEF RecordsTyped
  <2> QED
    BY <2>2
<1> QED
  BY <1>1 DEF missing_tool_calls

LEMMA EndsAre ==
  ASSUME NEW anchor, NEW missing \in SUBSET Nat, prompt \in Prompted
  PROVE  /\ Before(anchor) \in Seq(Message) /\ Behind(anchor, missing) \in Seq(Message)
         /\ \A i \in 1..Len(Before(anchor)) : /\ Before(anchor)[i].results = {}
                                              /\ Before(anchor)[i].calls = {}
         /\ \A i \in 1..Len(Behind(anchor, missing)) :
               /\ Behind(anchor, missing)[i].results = {}
               /\ Behind(anchor, missing)[i].calls \subseteq missing
         /\ missing # {} => /\ 1 \in 1..Len(Behind(anchor, missing))
                            /\ Behind(anchor, missing)[1].calls = missing
         /\ anchor = 0 => /\ 1 \in 1..Len(Before(anchor))
                          /\ Before(anchor)[1] = asked
         /\ anchor # 0 => Len(Before(anchor)) = 0
         /\ Len(Behind(anchor, missing)) <= 1
<1>0. anchor # 0 => Len(Before(anchor)) = 0
  BY DEF Before
<1>1. Before(anchor) \in {<<>>, <<asked>>} /\ (anchor = 0 => Before(anchor) = <<asked>>)
  BY DEF Before
<1>2. PICK m : m = Assistant(missing, <<>>)
  OBVIOUS
<1>3. <<>> \in Seq(Nat)
  OBVIOUS
<1>4. m \in Message /\ m.results = {} /\ m.calls = missing
  BY <1>2, <1>3, AssistantMessage, AssistantParts
<1>5. /\ Behind(anchor, missing) \in {<<>>, <<m>>, <<EmptyReply>>}
      /\ missing # {} => Behind(anchor, missing) = <<m>>
  BY <1>2 DEF Behind
<1>6. /\ Before(anchor) \in Seq(Message)
      /\ \A i \in 1..Len(Before(anchor)) : Before(anchor)[i] = asked
      /\ anchor = 0 => 1 \in 1..Len(Before(anchor)) /\ Before(anchor)[1] = asked
  <2>1. CASE Before(anchor) = <<>>
    BY <2>1, <1>1
  <2>2. CASE Before(anchor) = <<asked>>
    BY <2>2, <1>1, AskedIs
  <2> QED
    BY <2>1, <2>2, <1>1
<1>7. /\ Behind(anchor, missing) \in Seq(Message)
      /\ \A i \in 1..Len(Behind(anchor, missing)) : Behind(anchor, missing)[i] \in {m, EmptyReply}
      /\ missing # {} => 1 \in 1..Len(Behind(anchor, missing)) /\ Behind(anchor, missing)[1] = m
      /\ Len(Behind(anchor, missing)) <= 1
  <2>1. CASE Behind(anchor, missing) = <<>>
    BY <2>1, <1>5
  <2>2. CASE Behind(anchor, missing) = <<m>>
    BY <2>2, <1>4
  <2>3. CASE Behind(anchor, missing) = <<EmptyReply>> /\ missing = {}
    BY <2>3, EmptyReplyIs
  <2> QED
    BY <2>1, <2>2, <2>3, <1>5
<1> QED
  BY <1>0, <1>4, <1>6, <1>7, AskedIs, EmptyReplyIs

\* The delta before it is finished.
Unfinished(anchor, delta, missing) == Before(anchor) \o (delta \o Behind(anchor, missing))

LEMMA DeltaTyped ==
  ASSUME NEW stored, stopped.history \in Seq(Message), stopped.text \in Seq(Nat), RecordsTyped,
         prompt \in Prompted
  PROVE  turn_delta(stored) \in Seq(Message)
<1>1. PICK anchor, delta, missing :
            /\ Trimmed(delta, CutAt(stopped.history, anchor))
            /\ missing = missing_tool_calls(delta)
            /\ turn_delta(stored) = Finished(Before(anchor) \o (delta \o Behind(anchor, missing)))
  BY DeltaParts, Zenon
<1>2. PICK w : w = Before(anchor) \o (delta \o Behind(anchor, missing))
  OBVIOUS
<1>3. delta \in Seq(Message)
  BY <1>1 DEF Trimmed
<1>4. missing \in SUBSET Nat
  BY <1>1, MissingNat
<1>5. w \in Seq(Message)
  <2>1. PICK pre, post : pre = Before(anchor) /\ post = Behind(anchor, missing)
    OBVIOUS
  <2>2. pre \in Seq(Message) /\ post \in Seq(Message)
    BY <2>1, <1>4, EndsAre
  <2>3. Sandwiched(Message, w, pre, delta, post)
    BY <2>1, <2>2, <1>2, <1>3, Sandwich
  <2> QED
    BY <2>3 DEF Sandwiched
<1> QED
  BY <1>1, <1>2, <1>5, FinishKeeps

\* The attempt's own work in a history: it starts at p, behind it is no prompt, and
\* the results of its own calls are real or placeholders and come with their calls.
WorkFrom(h, p, own) ==
    /\ p \in 1..Len(h)
    /\ \A i \in 1..Len(h) : p < i => h[i].pieces = <<>>
    /\ \A i \in 1..Len(h) : \A r \in h[i].results :
          r.call \in own =>
             /\ r.out \in {"settled", "placeholder"}
             /\ \E j \in 1..Len(h) : p <= j /\ r.call \in h[j].calls

LEMMA DeltaWork ==
  ASSUME NEW stored, stopped.history \in Seq(Message), stopped.text \in Seq(Nat), RecordsTyped,
         prompt \in Prompted, NEW own, recorded \subseteq own,
         stopped.history = <<>> \/ \E p : WorkFrom(stopped.history, p, own)
  PROVE  LET D == turn_delta(stored) IN
         /\ \E i \in DOMAIN D : \E k \in DOMAIN D[i].pieces : D[i].pieces[k].prompt = prompt
         /\ recorded \subseteq call_ids(D)
         /\ \A c \in settled_calls : \E i \in DOMAIN D : [call |-> c, out |-> "settled"] \in D[i].results
<1>0. PICK h : h = stopped.history
  OBVIOUS
<1>1. PICK anchor, delta, missing :
            /\ anchor = prompt_anchor(h)
            /\ Trimmed(delta, CutAt(h, anchor))
            /\ missing = missing_tool_calls(delta)
            /\ turn_delta(stored) = Finished(Before(anchor) \o (delta \o Behind(anchor, missing)))
  BY <1>0, DeltaParts, Zenon
<1>2. PICK w : w = Before(anchor) \o (delta \o Behind(anchor, missing))
  OBVIOUS
<1>3. PICK cut : cut = CutAt(h, anchor)
  OBVIOUS
<1>4. /\ delta \in Seq(Message) /\ Len(delta) = Len(cut)
      /\ \A i \in 1..Len(cut) : /\ delta[i].pieces = cut[i].pieces /\ delta[i].calls = cut[i].calls
                                /\ delta[i].results \subseteq cut[i].results
  BY <1>1, <1>3 DEF Trimmed
<1>5. missing \in SUBSET Nat
  BY <1>1, MissingNat
<1>6. PICK pre, post : pre = Before(anchor) /\ post = Behind(anchor, missing)
  OBVIOUS
<1>7. /\ pre \in Seq(Message) /\ post \in Seq(Message)
      /\ \A i \in 1..Len(pre) : pre[i].results = {}
      /\ \A i \in 1..Len(post) : post[i].results = {}
      /\ missing # {} => 1 \in 1..Len(post) /\ post[1].calls = missing
      /\ anchor = 0 => 1 \in 1..Len(pre) /\ pre[1] = asked
  BY <1>5, <1>6, EndsAre
<1>8. w = pre \o (delta \o post)
  BY <1>2, <1>6
<1>9. /\ w \in Seq(Message)
      /\ \A i \in 1..Len(pre) : i \in 1..Len(w) /\ w[i] = pre[i]
      /\ \A i \in 1..Len(delta) : Len(pre) + i \in 1..Len(w) /\ w[Len(pre) + i] = delta[i]
      /\ \A i \in 1..Len(post) : /\ Len(pre) + Len(delta) + i \in 1..Len(w)
                                 /\ w[Len(pre) + Len(delta) + i] = post[i]
      /\ \A p \in 1..Len(w) : \/ p \in 1..Len(pre)
                              \/ p - Len(pre) \in 1..Len(delta)
                              \/ p - Len(pre) - Len(delta) \in 1..Len(post)
  <2>1. Sandwiched(Message, w, pre, delta, post)
    BY <1>4, <1>7, <1>8, Sandwich
  <2> QED
    BY <2>1, Zenon DEF Sandwiched
<1>a. h \in Seq(Message) /\ Len(h) \in Nat /\ DOMAIN delta = 1..Len(delta) /\ DOMAIN w = 1..Len(w)
  BY <1>0, <1>4, <1>9
<1>b. anchor \in 0..Len(h) /\ (anchor # 0 => is_prompt(h[anchor]))
  BY <1>1, <1>a, AnchorIs
<1>c. anchor = 0 => Len(cut) = 0
  BY <1>3 DEF CutAt
<1>d. anchor # 0 => /\ anchor \in 1..Len(h) /\ Len(cut) = Len(h) - anchor + 1
                    /\ \A i \in 1..Len(cut) : cut[i] = h[anchor + i - 1]
  <2> SUFFICES ASSUME anchor # 0
               PROVE  /\ anchor \in 1..Len(h) /\ Len(cut) = Len(h) - anchor + 1
                      /\ \A i \in 1..Len(cut) : cut[i] = h[anchor + i - 1]
    OBVIOUS
  <2>1. anchor \in 1..Len(h) /\ cut = SubSeq(h, anchor, Len(h))
    BY <1>3, <1>b DEF CutAt
  <2> QED
    BY <2>1, <1>a, CutIs
\* The prompt is there.
<1>e. \E i \in 1..Len(w) : \E k \in DOMAIN w[i].pieces : w[i].pieces[k].prompt = prompt
  <2>1. CASE anchor = 0
    <3>1. 1 \in 1..Len(w) /\ w[1] = asked
      BY <2>1, <1>7, <1>9
    <3> QED
      BY <3>1, AskedIs
  <2>2. CASE anchor # 0
    <3>1. 1 \in 1..Len(cut) /\ cut[1] = h[anchor]
      <4>1. 1 \in 1..Len(cut) /\ anchor + 1 - 1 = anchor
        BY <2>2, <1>a, <1>d
      <4> QED
        BY <4>1, <2>2, <1>d
    <3>2. Len(pre) + 1 \in 1..Len(w) /\ w[Len(pre) + 1].pieces = h[anchor].pieces
      BY <3>1, <1>4, <1>9
    <3>3. PICK x : x = h[anchor].pieces
      OBVIOUS
    <3>4. h[anchor] \in Message
      BY <2>2, <1>a, <1>d
    <3>5. x \in Seq(Piece) /\ x # <<>> /\ x[Len(x)].prompt = prompt
      BY <2>2, <3>3, <3>4, <1>b, MessageParts DEF is_prompt, Last
    <3>6. Len(x) \in DOMAIN x
      BY <3>5
    <3> QED
      BY <3>2, <3>3, <3>5, <3>6
  <2> QED
    BY <2>1, <2>2
\* An own result in the delta is one of the history.
<1>f. ASSUME NEW i \in 1..Len(delta), NEW r \in delta[i].results, r.call \in own
      PROVE  r.out \in {"settled", "placeholder"} /\ r.call \in call_ids(delta)
  <2>1. anchor # 0
    BY <1>4, <1>c
  <2>2. /\ anchor \in 1..Len(h) /\ i \in 1..Len(cut) /\ Len(cut) = Len(h) - anchor + 1
        /\ cut[i] = h[anchor + i - 1]
    BY <2>1, <1>4, <1>d
  <2>3. anchor + i - 1 \in 1..Len(h) /\ r \in h[anchor + i - 1].results
    BY <2>2, <1>4, <1>a
  <2>4. PICK p : WorkFrom(h, p, own)
    BY <2>2, <1>0, <1>a
  <2>5. /\ p \in 1..Len(h) /\ r.out \in {"settled", "placeholder"}
        /\ \E j \in 1..Len(h) : p <= j /\ r.call \in h[j].calls
    BY <2>3, <2>4, <1>f DEF WorkFrom
  <2>6. PICK j \in 1..Len(h) : p <= j /\ r.call \in h[j].calls
    BY <2>5
  <2>7. anchor <= p
    <3>1. h[anchor].pieces # <<>>
      BY <2>1, <1>b DEF is_prompt
    <3>2. ~(p < anchor)
      BY <3>1, <2>2, <2>4 DEF WorkFrom
    <3> QED
      BY <3>2, <2>2, <2>5
  <2>8. j - anchor + 1 \in 1..Len(cut) /\ anchor + (j - anchor + 1) - 1 = j
    BY <2>2, <2>5, <2>6, <2>7, <1>a
  <2>9. PICK k : k = j - anchor + 1
    OBVIOUS
  <2>a. k \in 1..Len(cut) /\ cut[k] = h[j]
    BY <2>1, <2>8, <2>9, <1>d
  <2>b. k \in DOMAIN delta /\ r.call \in delta[k].calls
    BY <2>6, <2>a, <1>4, <1>a
  <2> QED
    BY <2>5, <2>b DEF call_ids
<1>g. recorded \subseteq call_ids(w)
  <2> SUFFICES ASSUME NEW c \in recorded PROVE c \in call_ids(w)
    OBVIOUS
  <2>1. CASE c \in missing
    <3>1. 1 \in 1..Len(post) /\ post[1].calls = missing
      BY <2>1, <1>7
    <3>2. \E i \in DOMAIN w : c \in w[i].calls
      BY <2>1, <3>1, <1>9, <1>a
    <3> QED
      BY <3>2 DEF call_ids
  <2>2. CASE c \notin missing
    <3>1. c \in call_ids(delta) \cup answered_call_ids(delta)
      BY <2>2, <1>1 DEF missing_tool_calls, recorded
    <3>2. c \in call_ids(delta)
      <4>1. ASSUME c \in answered_call_ids(delta) PROVE c \in call_ids(delta)
        <5>1. PICK i \in 1..Len(delta) : \E r \in delta[i].results : r.call = c
          BY <4>1, <1>a DEF answered_call_ids
        <5>2. PICK r \in delta[i].results : r.call = c
          BY <5>1
        <5> QED
          BY <5>2, <1>f
      <4> QED
        BY <3>1, <4>1
    <3>3. PICK i \in 1..Len(delta) : c \in delta[i].calls
      BY <3>2, <1>a DEF call_ids
    <3>4. \E k \in DOMAIN w : c \in w[k].calls
      BY <3>3, <1>9, <1>a
    <3> QED
      BY <3>4 DEF call_ids
  <2> QED
    BY <2>1, <2>2
<1>h. ASSUME NEW c \in settled_calls, NEW i \in 1..Len(w), NEW r \in w[i].results, r.call = c
      PROVE  r.out \in {"settled", "placeholder"}
  <2>1. c \in own
    BY DEF settled_calls, recorded
  <2>2. i \notin 1..Len(pre)
    BY <1>7, <1>9
  <2>3. i - Len(pre) - Len(delta) \notin 1..Len(post)
    <3> SUFFICES ASSUME i - Len(pre) - Len(delta) \in 1..Len(post) PROVE FALSE
      OBVIOUS
    <3>1. PICK k : k = i - Len(pre) - Len(delta)
      OBVIOUS
    <3>a. i \in Int /\ Len(pre) \in Int /\ Len(delta) \in Int
      BY <1>4, <1>7, <1>9
    <3>2. Len(pre) + Len(delta) + k = i
      BY <3>1, <3>a
    <3>3. w[i] = post[k] /\ post[k].results = {}
      BY <3>1, <3>2, <1>7, <1>9
    <3> QED
      BY <3>3
  <2>4. i - Len(pre) \in 1..Len(delta)
    BY <2>2, <2>3, <1>9
  <2>5. PICK k : k = i - Len(pre)
    OBVIOUS
  <2>6. k \in 1..Len(delta) /\ Len(pre) + k = i
    BY <2>4, <2>5, <1>7
  <2>7. r \in delta[k].results
    BY <2>6, <1>9
  <2> QED
    BY <2>1, <2>6, <2>7, <1>f, <1>h
<1>i. PICK D : D = turn_delta(stored)
  OBVIOUS
<1>j. /\ D \in Seq(Message)
      /\ \A i \in 1..Len(w) : \E p \in 1..Len(D) : D[p].pieces = w[i].pieces
      /\ call_ids(w) \subseteq call_ids(D)
      /\ \A c \in settled_calls \cap call_ids(w) :
               (\A i \in 1..Len(w) : \A r \in w[i].results :
                   r.call = c => r.out \in {"settled", "placeholder"})
               => \E p \in 1..Len(D) : [call |-> c, out |-> "settled"] \in D[p].results
  <2>1. D = Finished(w) /\ w \in Seq(Message)
    BY <1>1, <1>2, <1>9, <1>i
  <2> QED
    BY <2>1, FinishKeeps, Zenon
<1>k. DOMAIN D = 1..Len(D)
  BY <1>j
<1>l. \E i \in DOMAIN D : \E k \in DOMAIN D[i].pieces : D[i].pieces[k].prompt = prompt
  <2>1. PICK i \in 1..Len(w) : \E k \in DOMAIN w[i].pieces : w[i].pieces[k].prompt = prompt
    BY <1>e
  <2>2. PICK p \in 1..Len(D) : D[p].pieces = w[i].pieces
    BY <1>j
  <2> QED
    BY <2>1, <2>2, <1>k
<1>m. \A c \in settled_calls : \E i \in DOMAIN D : [call |-> c, out |-> "settled"] \in D[i].results
  <2> SUFFICES ASSUME NEW c \in settled_calls
               PROVE  \E i \in DOMAIN D : [call |-> c, out |-> "settled"] \in D[i].results
    OBVIOUS
  <2>1. c \in recorded
    BY DEF settled_calls, recorded
  <2>2. c \in call_ids(w)
    BY <2>1, <1>g
  <2> QED
    BY <2>2, <1>h, <1>j, <1>k
<1>n. recorded \subseteq call_ids(D)
  BY <1>g, <1>j
<1> QED
  BY <1>i, <1>l, <1>m, <1>n

-----------------------------------------------------------------------------
Phases == {"idle", "attempt", "open", "ready", "calling", "tools", "saving", "saved",
           "settle", "recover", "extend", "facts"}
Entry == [key : Nat, by : Nat, msg : Message]
Run == [base : Seq(Message), keys : SUBSET Nat, committed : Seq(Message), open : SUBSET Nat,
        calls : Nat, fresh : Seq(Nat), chunks : Nat]

(* What is kept across attempts.                                           *)
KeptTypes ==
    /\ turn \in 0..Len(TurnPrompts) /\ made \in [key : Nat, call : Nat, attempt : Nat]
    /\ log \in Seq(Entry)
    /\ \A i \in 1..Len(log) : log[i].key \in 1..made.key /\ log[i].by \in 0..turn
    /\ turns \in Seq([turn : Nat, since : Nat])
    /\ entry_turns \in SUBSET ((1..made.key) \X (1..Len(turns)))
    /\ lost \in SUBSET [turn : 1..turn, how : {"warned", "logged"}]

(* The turn and its attempt.                                               *)
TurnTypes ==
    /\ phase \in Phases /\ (phase # "idle" => turn # 0)
    /\ retries \in [RetryKind -> Nat] /\ \A kind \in RetryKind : retries[kind] <= Budget[kind]
    /\ steering \in BOOLEAN
AttemptTypes ==
    /\ pre_turn \in [known : BOOLEAN, keys : SUBSET Nat, count : Nat, since : Nat]
    /\ run \in Run /\ snapshot \in Seq(Message) /\ text \in Seq(Nat) /\ RecordsTyped
TailTypes ==
    /\ stopped \in [why : {"none", "retry", "cancelled", "failed"}, history : Seq(Message), text : Seq(Nat)]
    /\ loaded \in [keys : SUBSET Nat, delta : Seq(Message)]
    /\ saved \in SUBSET Keys(log)
LogTypes == KeptTypes /\ TurnTypes /\ AttemptTypes /\ TailTypes

LEMMA TypesSuffice == LogTypes => LogTypeOK
<1> SUFFICES ASSUME LogTypes PROVE LogTypeOK
  OBVIOUS
<1> USE DEF LogTypes
<1>1. /\ turn \in 0..Len(TurnPrompts) /\ phase \in Phases /\ steering \in BOOLEAN
      /\ \A i \in DOMAIN log : log[i].key \in 1..made.key /\ log[i].by \in 0..turn
  BY DEF KeptTypes, TurnTypes
<1>2. \A kind \in RetryKind : retries[kind] \in 0..Budget[kind]
  <2>1. \A kind \in RetryKind : Budget[kind] \in Nat /\ retries[kind] \in Nat /\ retries[kind] <= Budget[kind]
    BY TurnLogAssumption DEF TurnTypes
  <2> QED
    BY <2>1
<1>3. \A e \in entry_turns : e[1] \in 1..made.key /\ e[2] \in 1..Len(turns)
  BY DEF KeptTypes
<1>4. \A i \in DOMAIN records : records[i].result \in {"none", "settled"}
  <2>1. records \in Seq([call : Nat, result : {"none", "settled"}])
    BY DEF AttemptTypes, RecordsTyped
  <2>2. \A S : \A s \in Seq(S) : \A k \in DOMAIN s : s[k] \in S
    OBVIOUS
  <2>3. \A i \in DOMAIN records : records[i] \in [call : Nat, result : {"none", "settled"}]
    BY <2>1, <2>2, Zenon
  <2> QED
    BY <2>3
<1>5. stopped.why \in {"none", "retry", "cancelled", "failed"}
  BY DEF TailTypes
<1>6. \A l \in lost : l.turn \in 1..turn /\ l.how \in {"warned", "logged"}
  BY DEF KeptTypes
<1> QED
  BY <1>1, <1>2, <1>3, <1>4, <1>5, <1>6 DEF LogTypeOK, Phases

LEMMA LogInitTypes == LogInit => LogTypes
<1> SUFFICES ASSUME LogInit PROVE LogTypes
  OBVIOUS
<1>1. KeptTypes
  <2>1. log = <<>> /\ turn = 0 /\ turns = <<>> /\ entry_turns = {} /\ lost = {}
        /\ made = [key |-> 0, call |-> 0, attempt |-> 0]
    BY DEF LogInit
  <2>2. turn \in 0..Len(TurnPrompts) /\ made \in [key : Nat, call : Nat, attempt : Nat]
    BY <2>1, TurnLogAssumption
  <2>3. log \in Seq(Entry) /\ turns \in Seq([turn : Nat, since : Nat]) /\ Len(log) = 0
    BY <2>1
  <2>4. \A i \in 1..Len(log) : log[i].key \in 1..made.key /\ log[i].by \in 0..turn
    BY <2>3
  <2>5. entry_turns \in SUBSET ((1..made.key) \X (1..Len(turns)))
    BY <2>1
  <2>6. lost \in SUBSET [turn : 1..turn, how : {"warned", "logged"}]
    BY <2>1
  <2> QED
    BY <2>2, <2>3, <2>4, <2>5, <2>6 DEF KeptTypes
<1>2. TurnTypes
  <2>1. /\ phase = "idle" /\ steering = FALSE
        /\ retries = [kind \in RetryKind |-> 0]
    BY DEF LogInit
  <2>2. \A kind \in RetryKind : retries[kind] = 0 /\ Budget[kind] \in Nat
    BY <2>1, TurnLogAssumption
  <2>3. \A kind \in RetryKind : retries[kind] <= Budget[kind]
    BY <2>2
  <2>4. retries \in [RetryKind -> Nat]
    BY <2>1
  <2> QED
    BY <2>1, <2>3, <2>4 DEF TurnTypes, Phases
<1>3. AttemptTypes
  <2>1. run = NoRun /\ snapshot = <<>> /\ text = <<>> /\ records = <<>> /\ pre_turn = NoPreTurn
    BY DEF LogInit
  <2>2. /\ <<>> \in Seq(Message) /\ <<>> \in Seq(Nat)
        /\ <<>> \in Seq([call : Nat, result : {"none", "settled"}])
    OBVIOUS
  <2>3. NoRun \in Run
    BY <2>2 DEF NoRun, Run
  <2>4. NoPreTurn \in [known : BOOLEAN, keys : SUBSET Nat, count : Nat, since : Nat]
    BY DEF NoPreTurn
  <2> QED
    BY <2>1, <2>2, <2>3, <2>4 DEF AttemptTypes, RecordsTyped
<1>4. TailTypes
  BY DEF LogInit, TailTypes, NotStopped, NotLoaded
<1> QED
  BY <1>1, <1>2, <1>3, <1>4 DEF LogTypes

LEMMA MsgsTyped ==
  ASSUME KeptTypes
  PROVE  /\ Msgs(log) \in Seq(Message) /\ Len(Msgs(log)) = Len(log)
         /\ \A i \in 1..Len(log) : Msgs(log)[i] = log[i].msg
         /\ Keys(log) \subseteq 1..made.key
<1>1. log \in Seq(Entry) /\ DOMAIN log = 1..Len(log) /\ Len(log) \in Nat
  BY DEF KeptTypes
<1>2. \A i \in 1..Len(log) : log[i] \in Entry
  BY <1>1
<1>3. \A i \in 1..Len(log) : log[i].msg \in Message
  BY <1>2 DEF Entry
<1>4. PICK m : m = [i \in 1..Len(log) |-> log[i].msg]
  OBVIOUS
<1>5. m \in Seq(Message) /\ Len(m) = Len(log) /\ \A i \in 1..Len(log) : m[i] = log[i].msg
  BY <1>1, <1>3, <1>4
<1>6. m = Msgs(log)
  BY <1>1, <1>4 DEF Msgs
<1>7. Keys(log) \subseteq 1..made.key
  BY <1>1 DEF Keys, KeptTypes
<1> QED
  BY <1>5, <1>6, <1>7

\* A write appends messages with the keys that follow.
Written(writer, msgs) ==
    /\ log' \in Seq(Entry) /\ Len(log') = Len(log) + Len(msgs)
    /\ \A i \in 1..Len(log) : log'[i] = log[i]
    /\ \A i \in 1..Len(msgs) : log'[Len(log) + i] = [key |-> made.key + i, by |-> writer, msg |-> msgs[i]]
    /\ \A p \in 1..Len(log') : p \in 1..Len(log) \/ p - Len(log) \in 1..Len(msgs)
    /\ made' \in [key : Nat, call : Nat, attempt : Nat]
    /\ made'.key = made.key + Len(msgs) /\ made'.call = made.call
    /\ Keys(log) \subseteq Keys(log')
    /\ \A k \in Keys(log') : k \in Keys(log) \/ k \in (made.key + 1)..made'.key

LEMMA WriteIs ==
  ASSUME KeptTypes, NEW writer \in Nat, NEW msgs \in Seq(Message), Write(writer, msgs)
  PROVE  Written(writer, msgs)
<1>0. /\ log \in Seq(Entry) /\ DOMAIN log = 1..Len(log) /\ Len(log) \in Nat
      /\ made \in [key : Nat, call : Nat, attempt : Nat] /\ made.key \in Nat
      /\ Len(msgs) \in Nat /\ DOMAIN msgs = 1..Len(msgs)
  BY DEF KeptTypes
<1>1. PICK E : E = Entries(writer, msgs)
  OBVIOUS
<1>2. E = [i \in 1..Len(msgs) |-> [key |-> made.key + i, by |-> writer, msg |-> msgs[i]]]
  BY <1>0, <1>1 DEF Entries
<1>3. \A i \in 1..Len(msgs) : /\ E[i] = [key |-> made.key + i, by |-> writer, msg |-> msgs[i]]
                              /\ E[i] \in Entry
  BY <1>0, <1>2 DEF Entry
<1>4. E \in Seq(Entry) /\ Len(E) = Len(msgs)
  BY <1>0, <1>2, <1>3
<1>5. log' = log \o E /\ made' = [made EXCEPT !.key = @ + Len(msgs)]
  BY <1>1 DEF Write
<1>6. /\ log' \in Seq(Entry) /\ Len(log') = Len(log) + Len(E)
      /\ \A i \in 1..Len(log) : log'[i] = log[i]
      /\ \A i \in 1..Len(E) : log'[Len(log) + i] = E[i]
  <2>1. PICK l : l = log \o E
    OBVIOUS
  <2>2. /\ l \in Seq(Entry) /\ Len(l) = Len(log) + Len(E)
        /\ \A i \in 1..Len(log) : l[i] = log[i]
        /\ \A i \in 1..Len(E) : l[Len(log) + i] = E[i]
    <3>1. log \in Seq(Entry)
      BY <1>0
    <3>2. E \in Seq(Entry)
      BY <1>4
    <3> QED
      BY ONLY <2>1, <3>1, <3>2, Concat
  <2>3. log' = l
    BY <2>1, <1>5
  <2> QED
    BY <2>2, <2>3
<1>7. /\ made' \in [key : Nat, call : Nat, attempt : Nat]
      /\ made'.key = made.key + Len(msgs) /\ made'.call = made.call
  BY <1>0, <1>5
<1>8. \A p \in 1..Len(log') : p \in 1..Len(log) \/ p - Len(log) \in 1..Len(msgs)
  BY <1>0, <1>4, <1>6
<1>9. DOMAIN log' = 1..Len(log')
  BY <1>6
<1>a. Keys(log) \subseteq Keys(log')
  BY <1>0, <1>4, <1>6, <1>9 DEF Keys
<1>b. ASSUME NEW k \in Keys(log') PROVE k \in Keys(log) \/ k \in (made.key + 1)..made'.key
  <2>1. PICK p \in 1..Len(log') : k = log'[p].key
    BY <1>9 DEF Keys
  <2>2. CASE p \in 1..Len(log)
    BY <2>1, <2>2, <1>0, <1>6 DEF Keys
  <2>3. CASE p - Len(log) \in 1..Len(msgs)
    <3>1. PICK i : i = p - Len(log)
      OBVIOUS
    <3>2. i \in 1..Len(msgs) /\ Len(log) + i = p
      BY <2>1, <2>3, <3>1, <1>0
    <3>3. k = made.key + i
      <4>1. log'[Len(log) + i] = E[i]
        BY <3>2, <1>4, <1>6
      <4>2. E[i].key = made.key + i
        <5>1. E[i] = [key |-> made.key + i, by |-> writer, msg |-> msgs[i]]
          BY <3>2, <1>3, Zenon
        <5>2. PICK n : n = made.key + i
          OBVIOUS
        <5>3. E[i] = [key |-> n, by |-> writer, msg |-> msgs[i]]
          BY <5>1, <5>2
        <5> QED
          BY <5>2, <5>3
      <4> QED
        BY <2>1, <3>2, <4>1, <4>2
    <3> QED
      BY <3>2, <3>3, <1>0, <1>7
  <2> QED
    BY <2>1, <2>2, <2>3, <1>8
<1> QED
  BY <1>3, <1>4, <1>6, <1>7, <1>8, <1>a, <1>b DEF Written

LEMMA WriteKeeps ==
  ASSUME KeptTypes, NEW writer \in 0..turn, NEW msgs \in Seq(Message), Write(writer, msgs),
         UNCHANGED <<turn, turns, entry_turns, lost>>
  PROVE  KeptTypes'
<1>0. writer \in Nat /\ turn \in Nat
  BY TurnLogAssumption DEF KeptTypes
<1>1. Written(writer, msgs)
  BY <1>0, WriteIs
<1>2. /\ log \in Seq(Entry) /\ Len(log) \in Nat /\ made.key \in Nat /\ Len(msgs) \in Nat
      /\ \A i \in 1..Len(log) : log[i].key \in 1..made.key /\ log[i].by \in 0..turn
      /\ entry_turns \in SUBSET ((1..made.key) \X (1..Len(turns)))
  BY DEF KeptTypes
<1>3. made'.key \in Nat /\ made.key <= made'.key /\ 1..made.key \subseteq 1..made'.key
  BY <1>1, <1>2 DEF Written
<1>4. ASSUME NEW p \in 1..Len(log') PROVE log'[p].key \in 1..made'.key /\ log'[p].by \in 0..turn
  <2>1. CASE p \in 1..Len(log)
    BY <2>1, <1>1, <1>2, <1>3 DEF Written
  <2>2. CASE p - Len(log) \in 1..Len(msgs)
    <3>1. PICK i : i = p - Len(log)
      OBVIOUS
    <3>2. i \in 1..Len(msgs) /\ Len(log) + i = p
      BY <2>2, <3>1, <1>2
    <3>3. PICK n : n = made.key + i
      OBVIOUS
    <3>4. log'[p] = [key |-> n, by |-> writer, msg |-> msgs[i]]
      BY <3>2, <3>3, <1>1 DEF Written
    <3>5. made'.key = made.key + Len(msgs)
      BY <1>1 DEF Written
    <3>6. n \in 1..made'.key
      BY <3>2, <3>3, <3>5, <1>2
    <3> QED
      BY <3>4, <3>6, <1>0
  <2> QED
    BY <2>1, <2>2, <1>1 DEF Written
<1>5. entry_turns \in SUBSET ((1..made'.key) \X (1..Len(turns)))
  BY <1>2, <1>3
<1> QED
  BY <1>1, <1>4, <1>5 DEF KeptTypes, Written

-----------------------------------------------------------------------------
LEMMA KeptSame ==
  ASSUME KeptTypes, UNCHANGED <<savedVars, turn>>, made' \in [key : Nat, call : Nat, attempt : Nat],
         made'.key = made.key
  PROVE  KeptTypes'
  BY DEF KeptTypes, savedVars

LEMMA AttemptSame == AttemptTypes /\ UNCHANGED attemptVars => AttemptTypes'
  BY DEF AttemptTypes, RecordsTyped, attemptVars

LEMMA TailSame == TailTypes /\ UNCHANGED <<tailVars, log>> => TailTypes'
  BY DEF TailTypes, tailVars, Keys

LEMMA TurnSame ==
  ASSUME TurnTypes, UNCHANGED turnVars, phase # "idle", phase' \in Phases
  PROVE  TurnTypes'
  BY DEF TurnTypes, turnVars

LEMMA EndAttemptTypes ==
  ASSUME NEW next \in Phases, EndAttempt(next)
  PROVE  AttemptTypes' /\ TailTypes' /\ phase' = next
<1>1. /\ <<>> \in Seq(Message) /\ <<>> \in Seq(Nat)
      /\ <<>> \in Seq([call : Nat, result : {"none", "settled"}])
  OBVIOUS
<1>2. NoRun \in Run
  BY <1>1 DEF NoRun, Run
<1>3. NoPreTurn \in [known : BOOLEAN, keys : SUBSET Nat, count : Nat, since : Nat]
  BY DEF NoPreTurn
<1>4. /\ NotLoaded \in [keys : SUBSET Nat, delta : Seq(Message)]
      /\ NotStopped \in [why : {"none", "retry", "cancelled", "failed"}, history : Seq(Message), text : Seq(Nat)]
  BY <1>1 DEF NotLoaded, NotStopped
<1>5. /\ phase' = next /\ pre_turn' = NoPreTurn /\ run' = NoRun /\ snapshot' = <<>> /\ text' = <<>>
      /\ records' = <<>> /\ stopped' = NotStopped /\ loaded' = NotLoaded /\ saved' = {}
  BY DEF EndAttempt
<1>6. AttemptTypes'
  BY <1>1, <1>2, <1>3, <1>5 DEF AttemptTypes, RecordsTyped
<1>7. TailTypes'
  BY <1>4, <1>5 DEF TailTypes
<1> QED
  BY <1>5, <1>6, <1>7

LEMMA ChatTyped ==
  ASSUME AttemptTypes
  PROVE  /\ run.base \in Seq(Message) /\ run.committed \in Seq(Message) /\ chat_history \in Seq(Message)
         /\ run.keys \in SUBSET Nat /\ run.open \in SUBSET Nat /\ run.calls \in Nat
         /\ run.fresh \in Seq(Nat) /\ run.chunks \in Nat
         /\ DOMAIN run = {"base", "keys", "committed", "open", "calls", "fresh", "chunks"}
<1>1. run \in Run
  BY DEF AttemptTypes
<1>2. run.base \in Seq(Message) /\ run.committed \in Seq(Message)
  BY <1>1 DEF Run
<1>3. chat_history \in Seq(Message)
  BY <1>2 DEF chat_history
<1> QED
  BY <1>1, <1>2, <1>3 DEF Run

LEMMA CanonicalTyped ==
  ASSUME NEW h \in Seq(Message) PROVE canonical(h) \in Seq(Message)
<1>1. PICK at : Joins(canonical(h), h, Len(h), at)
  BY CanonicalJoins
<1> QED
  BY <1>1, Zenon DEF Joins

LEMMA PromptIs ==
  ASSUME KeptTypes, TurnTypes, phase # "idle"
  PROVE  prompt \in Prompted /\ turn_prompt \in Message
<1>1. turn \in 1..Len(TurnPrompts)
  BY TurnLogAssumption DEF KeptTypes, TurnTypes
<1>2. prompt \in Prompted
  BY <1>1 DEF prompt, Prompted
<1>3. PICK q : q = [prompt |-> prompt, steered |-> steering]
  OBVIOUS
<1>4. q \in Piece
  BY <1>2, <1>3 DEF Piece, TurnTypes
<1>5. <<q>> \in Seq(Piece)
  BY <1>4
<1>6. turn_prompt = User(<<q>>, {}) /\ {} \in SUBSET Result
  BY <1>3 DEF turn_prompt
<1> QED
  BY <1>2, <1>5, <1>6, UserMessage

LEMMA ResultsTyped ==
  ASSUME AttemptTypes, NEW answered PROVE BatchResults(answered) \in Message
<1>1. run.open \in SUBSET Nat
  BY ChatTyped
<1>2. PICK x : x = {[call |-> c, out |-> IF c \in answered THEN "settled" ELSE "placeholder"] : c \in run.open}
  OBVIOUS
<1>3. x \in SUBSET Result
  BY <1>1, <1>2 DEF Result
<1>4. BatchResults(answered) = User(<<>>, x)
  BY <1>2 DEF BatchResults
<1> QED
  BY <1>3, <1>4, NoPieces, UserMessage

-----------------------------------------------------------------------------
LEMMA StopTypes ==
  ASSUME LogTypes, NEW why \in {"retry", "cancelled", "failed"}, NEW history \in Seq(Message),
         NEW streamed \in Seq(Nat), Stop(why, history, streamed), UNCHANGED turn
  PROVE  KeptTypes' /\ AttemptTypes' /\ TailTypes' /\ phase' = "recover"
<1> USE DEF LogTypes
<1>1. /\ phase' = "recover" /\ UNCHANGED <<savedVars, attemptVars, loaded, saved, made, turn>>
      /\ stopped' = [why |-> why, history |-> history, text |-> streamed]
  BY DEF Stop
<1>2. KeptTypes'
  <2>1. made \in [key : Nat, call : Nat, attempt : Nat]
    BY DEF KeptTypes
  <2> QED
    BY <1>1, <2>1, KeptSame
<1>3. AttemptTypes'
  BY <1>1, AttemptSame
<1>4. TailTypes'
  <2>1. stopped' \in [why : {"none", "retry", "cancelled", "failed"}, history : Seq(Message), text : Seq(Nat)]
    BY <1>1
  <2> QED
    BY <1>1, <2>1 DEF TailTypes, savedVars, Keys
<1> QED
  BY <1>1, <1>2, <1>3, <1>4

LEMMA StopStep ==
  ASSUME LogTypes, phase # "idle", NEW why \in {"retry", "cancelled", "failed"},
         NEW history \in Seq(Message), NEW streamed \in Seq(Nat), Stop(why, history, streamed),
         UNCHANGED turnVars
  PROVE  LogTypes'
<1>1. KeptTypes' /\ AttemptTypes' /\ TailTypes' /\ phase' = "recover"
  BY StopTypes DEF turnVars
<1> QED
  BY <1>1, TurnSame DEF LogTypes, Phases

LEMMA RetryStep ==
  ASSUME LogTypes, phase # "idle", NEW kind \in RetryKind, NEW otherwise \in {"cancelled", "failed"},
         NEW history \in Seq(Message), NEW streamed \in Seq(Nat),
         RetryOr(kind, otherwise, history, streamed), UNCHANGED turn
  PROVE  LogTypes'
<1>1. CASE retries[kind] < Budget[kind] /\ made.attempt < MaxAttempts
  <2>1. /\ retries' = [retries EXCEPT ![kind] = @ + 1]
        /\ steering' = (steering \/ kind # "backoff") /\ Stop("retry", history, <<>>)
    BY <1>1 DEF RetryOr
  <2>0. <<>> \in Seq(Nat)
    OBVIOUS
  <2>2. KeptTypes' /\ AttemptTypes' /\ TailTypes' /\ phase' = "recover"
    BY <2>0, <2>1, StopTypes
  <2>3. retries' \in [RetryKind -> Nat]
    BY <2>1 DEF LogTypes, TurnTypes
  <2>4. \A k \in RetryKind : retries'[k] <= Budget[k]
    <3>1. \A k \in RetryKind : retries[k] \in Nat /\ Budget[k] \in Nat /\ retries[k] <= Budget[k]
      BY TurnLogAssumption DEF LogTypes, TurnTypes
    <3>2. retries \in [RetryKind -> Nat]
      BY DEF LogTypes, TurnTypes
    <3>3. \A k \in RetryKind : retries'[k] = IF k = kind THEN retries[k] + 1 ELSE retries[k]
      BY <2>1, <3>2
    <3> QED
      BY <1>1, <3>1, <3>3
  <2>5. steering' \in BOOLEAN
    BY <2>1 DEF LogTypes, TurnTypes
  <2>6. turn' # 0
    BY DEF LogTypes, TurnTypes
  <2>7. TurnTypes'
    BY <2>2, <2>3, <2>4, <2>5, <2>6 DEF TurnTypes, Phases
  <2> QED
    BY <2>2, <2>7 DEF LogTypes
<1>2. CASE ~(retries[kind] < Budget[kind] /\ made.attempt < MaxAttempts)
  <2>1. UNCHANGED <<retries, steering>> /\ Stop(otherwise, history, streamed)
    BY <1>2 DEF RetryOr
  <2> QED
    BY <2>1, StopStep DEF turnVars
<1> QED
  BY <1>1, <1>2

-----------------------------------------------------------------------------
LEMMA TypesOf ==
  ASSUME LogTypes PROVE KeptTypes /\ TurnTypes /\ AttemptTypes /\ TailTypes
  BY DEF LogTypes

\* An attempt's step that leaves the log, the turn and the tail alone.
LEMMA AttemptStep ==
  ASSUME LogTypes, UNCHANGED <<savedVars, tailVars, turnVars>>,
         made' \in [key : Nat, call : Nat, attempt : Nat], made'.key = made.key,
         phase # "idle", phase' \in Phases, AttemptTypes'
  PROVE  LogTypes'
<1>1. KeptTypes'
  BY TypesOf, KeptSame DEF turnVars
<1>2. TurnTypes'
  BY TypesOf, TurnSame
<1>3. TailTypes'
  BY TypesOf, TailSame DEF savedVars
<1> QED
  BY <1>1, <1>2, <1>3 DEF LogTypes

LEMMA MadeTyped ==
  ASSUME LogTypes
  PROVE  /\ made \in [key : Nat, call : Nat, attempt : Nat]
         /\ made.key \in Nat /\ made.call \in Nat /\ made.attempt \in Nat
  BY DEF LogTypes, KeptTypes

LEMMA BeginTypes == LogTypes /\ BeginTurn => LogTypes'
<1> SUFFICES ASSUME LogTypes, BeginTurn PROVE LogTypes'
  OBVIOUS
<1>1. /\ turn < Len(TurnPrompts) /\ turn' = turn + 1 /\ phase' = "attempt"
      /\ retries' = [kind \in RetryKind |-> 0] /\ steering' = FALSE
      /\ UNCHANGED <<savedVars, attemptVars, tailVars, made>>
  BY DEF BeginTurn
<1>2. turn \in Nat /\ turn' \in 1..Len(TurnPrompts) /\ 0..turn \subseteq 0..turn' /\ 1..turn \subseteq 1..turn'
  BY <1>1, TurnLogAssumption, TypesOf DEF KeptTypes
<1>3. KeptTypes'
  <2>0. log' = log /\ turns' = turns /\ entry_turns' = entry_turns /\ made' = made
    BY <1>1 DEF savedVars
  <2>1. /\ made' \in [key : Nat, call : Nat, attempt : Nat]
        /\ log' \in Seq(Entry) /\ turns' \in Seq([turn : Nat, since : Nat])
        /\ entry_turns' \in SUBSET ((1..made'.key) \X (1..Len(turns')))
    <3>1. /\ made \in [key : Nat, call : Nat, attempt : Nat]
          /\ log \in Seq(Entry) /\ turns \in Seq([turn : Nat, since : Nat])
          /\ entry_turns \in SUBSET ((1..made.key) \X (1..Len(turns)))
      BY TypesOf, Zenon DEF KeptTypes
    <3> QED
      BY <2>0, <3>1, Zenon
  <2>2. \A i \in 1..Len(log') : log'[i].key \in 1..made'.key /\ log'[i].by \in 0..turn'
    BY <1>1, <1>2, TypesOf DEF KeptTypes, savedVars
  <2>3. lost' \in SUBSET [turn : 1..turn', how : {"warned", "logged"}]
    BY <1>1, <1>2, TypesOf DEF KeptTypes, savedVars
  <2>4. turn' \in 0..Len(TurnPrompts)
    BY <1>2
  <2> QED
    BY <2>1, <2>2, <2>3, <2>4 DEF KeptTypes
<1>4. TurnTypes'
  <2>1. \A kind \in RetryKind : retries'[kind] = 0 /\ Budget[kind] \in Nat
    BY <1>1, TurnLogAssumption
  <2>2. \A kind \in RetryKind : retries'[kind] <= Budget[kind]
    BY <2>1
  <2>3. retries' \in [RetryKind -> Nat]
    BY <1>1
  <2>4. phase' \in Phases /\ (phase' # "idle" => turn' # 0)
    BY <1>1, <1>2 DEF Phases
  <2>5. steering' \in BOOLEAN
    BY <1>1
  <2> QED
    BY <2>2, <2>3, <2>4, <2>5, Zenon DEF TurnTypes
<1>5. AttemptTypes'
  BY <1>1, TypesOf, AttemptSame
<1>6. TailTypes'
  BY <1>1, TypesOf, TailSame DEF savedVars
<1> QED
  BY <1>3, <1>4, <1>5, <1>6 DEF LogTypes

LEMMA PreLoadTypes == LogTypes /\ PreLoad => LogTypes'
<1> SUFFICES ASSUME LogTypes, PreLoad PROVE LogTypes'
  OBVIOUS
<1>1. /\ phase = "attempt" /\ phase' = "open"
      /\ run' = NoRun /\ snapshot' = <<>> /\ text' = <<>> /\ records' = <<>>
      /\ made' = [made EXCEPT !.attempt = @ + 1]
      /\ UNCHANGED <<savedVars, tailVars, turnVars>>
      /\ \/ pre_turn' = [known |-> TRUE, keys |-> Keys(log), count |-> Len(log), since |-> made.key]
         \/ pre_turn' = [known |-> FALSE, keys |-> {}, count |-> 0, since |-> made.key]
  BY DEF PreLoad
<1>2. made' \in [key : Nat, call : Nat, attempt : Nat] /\ made'.key = made.key
  BY <1>1, MadeTyped
<1>3. Keys(log) \subseteq Nat /\ Len(log) \in Nat
  BY TypesOf, MsgsTyped, MadeTyped DEF KeptTypes
<1>4. pre_turn' \in [known : BOOLEAN, keys : SUBSET Nat, count : Nat, since : Nat]
  <2>1. made.key \in Nat
    BY MadeTyped
  <2>2. CASE pre_turn' = [known |-> TRUE, keys |-> Keys(log), count |-> Len(log), since |-> made.key]
    BY <2>1, <2>2, <1>3
  <2>3. CASE pre_turn' = [known |-> FALSE, keys |-> {}, count |-> 0, since |-> made.key]
    BY <2>1, <2>3
  <2> QED
    BY <1>1, <2>2, <2>3
<1>5. /\ <<>> \in Seq(Message) /\ <<>> \in Seq(Nat)
      /\ <<>> \in Seq([call : Nat, result : {"none", "settled"}])
  OBVIOUS
<1>6. NoRun \in Run
  BY <1>5 DEF NoRun, Run
<1>7. AttemptTypes'
  BY <1>1, <1>4, <1>5, <1>6 DEF AttemptTypes, RecordsTyped
<1> QED
  BY <1>1, <1>2, <1>7, AttemptStep DEF Phases

\* The steps of the run and of its records.
LEMMA RunTypes ==
  ASSUME LogTypes, phase # "idle", phase' \in Phases, UNCHANGED <<savedVars, pre_turn, tailVars, turnVars>>,
         made' \in [key : Nat, call : Nat, attempt : Nat], made'.key = made.key,
         run' \in Run, snapshot' \in Seq(Message), text' \in Seq(Nat),
         records' \in Seq([call : Nat, result : {"none", "settled"}])
  PROVE  LogTypes'
<1>1. pre_turn' \in [known : BOOLEAN, keys : SUBSET Nat, count : Nat, since : Nat]
  BY TypesOf DEF AttemptTypes
<1>2. AttemptTypes'
  BY <1>1 DEF AttemptTypes, RecordsTyped
<1> QED
  BY <1>2, AttemptStep

LEMMA RunOpenTypes == LogTypes /\ RunOpen => LogTypes'
<1> SUFFICES ASSUME LogTypes, RunOpen PROVE LogTypes'
  OBVIOUS
<1>1. /\ phase = "open" /\ phase' = "ready"
      /\ run' = [NoRun EXCEPT !.base = Msgs(log), !.keys = Keys(log), !.committed = <<turn_prompt>>]
      /\ UNCHANGED <<savedVars, pre_turn, snapshot, text, records, tailVars, turnVars, made>>
  BY DEF RunOpen
<1>2. turn_prompt \in Message /\ Msgs(log) \in Seq(Message) /\ Keys(log) \in SUBSET Nat
  BY <1>1, PromptIs, TypesOf, MsgsTyped, MadeTyped
<1>3. <<turn_prompt>> \in Seq(Message) /\ <<>> \in Seq(Nat)
  BY <1>2
<1>4. run' = [base |-> Msgs(log), keys |-> Keys(log), committed |-> <<turn_prompt>>, open |-> {},
              calls |-> 0, fresh |-> <<>>, chunks |-> 0]
  BY <1>1 DEF NoRun
<1>5. run' \in Run
  BY <1>2, <1>3, <1>4 DEF Run
<1> QED
  BY <1>1, <1>5, TypesOf, MadeTyped, RunTypes DEF AttemptTypes, RecordsTyped, Phases

LEMMA CallTypes == LogTypes /\ on_completion_call => LogTypes'
<1> SUFFICES ASSUME LogTypes, on_completion_call PROVE LogTypes'
  OBVIOUS
<1>1. /\ phase = "ready" /\ phase' = "calling" /\ snapshot' = chat_history
      /\ run' = [run EXCEPT !.calls = @ + 1, !.fresh = <<>>]
      /\ UNCHANGED <<savedVars, pre_turn, text, records, tailVars, turnVars, made>>
  BY DEF on_completion_call
<1>2. run' \in Run
  <2>1. run \in Run /\ <<>> \in Seq(Nat)
    BY TypesOf DEF AttemptTypes
  <2>2. run.calls \in Nat
    BY TypesOf, ChatTyped
  <2>3. PICK n : n = run.calls + 1
    OBVIOUS
  <2>4. n \in Nat /\ run' = [run EXCEPT !.calls = n, !.fresh = <<>>]
    BY <1>1, <2>2, <2>3
  <2> QED
    BY <2>1, <2>4 DEF Run
<1>3. chat_history \in Seq(Message)
  BY TypesOf, ChatTyped
<1> QED
  BY <1>1, <1>2, <1>3, TypesOf, MadeTyped, RunTypes DEF AttemptTypes, RecordsTyped, Phases

LEMMA StreamTypes == LogTypes /\ StreamText => LogTypes'
<1> SUFFICES ASSUME LogTypes, StreamText PROVE LogTypes'
  OBVIOUS
<1>1. /\ phase = "calling" /\ text' = Append(text, run.chunks + 1)
      /\ run' = [run EXCEPT !.chunks = @ + 1, !.fresh = <<run.chunks + 1>>]
      /\ UNCHANGED <<savedVars, phase, pre_turn, snapshot, records, tailVars, turnVars, made>>
  BY DEF StreamText
<1>2. run' \in Run /\ text' \in Seq(Nat)
  <2>1. run \in Run /\ text \in Seq(Nat) /\ run.chunks \in Nat
    BY TypesOf, ChatTyped DEF AttemptTypes
  <2>2. run.chunks + 1 \in Nat
    BY <2>1
  <2>3. <<run.chunks + 1>> \in Seq(Nat)
    BY <2>2
  <2>4. Append(text, run.chunks + 1) \in Seq(Nat)
    BY <2>1, <2>2
  <2> QED
    BY <1>1, <2>1, <2>2, <2>3, <2>4 DEF Run
<1> QED
  BY <1>1, <1>2, TypesOf, MadeTyped, RunTypes DEF AttemptTypes, RecordsTyped, Phases

LEMMA RetriedTypes == LogTypes /\ ModelTurnRetried => LogTypes'
<1> SUFFICES ASSUME LogTypes, ModelTurnRetried PROVE LogTypes'
  OBVIOUS
<1>1. /\ phase = "calling" /\ text' = <<>> /\ run' = [run EXCEPT !.fresh = <<>>]
      /\ UNCHANGED <<savedVars, phase, pre_turn, snapshot, records, tailVars, turnVars, made>>
  BY DEF ModelTurnRetried
<1>2. run' \in Run /\ text' \in Seq(Nat)
  <2>1. run \in Run /\ <<>> \in Seq(Nat)
    BY TypesOf DEF AttemptTypes
  <2> QED
    BY <1>1, <2>1 DEF Run
<1> QED
  BY <1>1, <1>2, TypesOf, MadeTyped, RunTypes DEF AttemptTypes, RecordsTyped, Phases

\* Committing a message: the calls it opens are Nat.
LEMMA CommitTypes ==
  ASSUME LogTypes, NEW m \in Message, NEW open \in SUBSET Nat,
         run' = [run EXCEPT !.committed = Append(@, m), !.open = open]
  PROVE  run' \in Run
<1>1. run \in Run /\ run.committed \in Seq(Message)
  BY TypesOf, ChatTyped DEF AttemptTypes
<1>2. Append(run.committed, m) \in Seq(Message)
  BY <1>1
<1> QED
  BY <1>1, <1>2 DEF Run

LEMMA BatchTypes == LogTypes /\ CommitBatch => LogTypes'
<1> SUFFICES ASSUME LogTypes, CommitBatch PROVE LogTypes'
  OBVIOUS
<1>1. PICK n \in 1..Batch :
         /\ phase = "calling" /\ phase' = "tools"
         /\ run' = [run EXCEPT !.committed = Append(@, Assistant((made.call + 1)..(made.call + n), run.fresh)),
                               !.open = (made.call + 1)..(made.call + n)]
         /\ made' = [made EXCEPT !.call = @ + n]
         /\ UNCHANGED <<savedVars, pre_turn, snapshot, text, records, tailVars, turnVars>>
  BY DEF CommitBatch
<1>2. PICK batch : batch = (made.call + 1)..(made.call + n)
  OBVIOUS
<1>3. n \in Nat /\ batch \in SUBSET Nat
  BY <1>2, MadeTyped, TurnLogAssumption
<1>4. Assistant(batch, run.fresh) \in Message
  BY <1>3, TypesOf, ChatTyped, AssistantMessage
<1>5. run' \in Run
  <2>1. run' = [run EXCEPT !.committed = Append(@, Assistant(batch, run.fresh)), !.open = batch]
    BY <1>1, <1>2
  <2> QED
    BY <2>1, <1>3, <1>4, CommitTypes
<1>6. made' \in [key : Nat, call : Nat, attempt : Nat] /\ made'.key = made.key
  BY <1>1, <1>3, MadeTyped
<1> QED
  BY <1>1, <1>5, <1>6, TypesOf, RunTypes DEF AttemptTypes, RecordsTyped, Phases

LEMMA AnsweredTypes == LogTypes /\ BatchAnswered => LogTypes'
<1> SUFFICES ASSUME LogTypes, BatchAnswered PROVE LogTypes'
  OBVIOUS
<1>1. /\ phase = "tools" /\ phase' = "ready"
      /\ run' = [run EXCEPT !.committed = Append(@, BatchResults(run.open)), !.open = {}]
      /\ UNCHANGED <<savedVars, pre_turn, snapshot, text, records, tailVars, turnVars, made>>
  BY DEF BatchAnswered
<1>2. BatchResults(run.open) \in Message
  BY TypesOf, ResultsTyped
<1>3. run' \in Run
  BY <1>1, <1>2, CommitTypes
<1> QED
  BY <1>1, <1>3, TypesOf, MadeTyped, RunTypes DEF AttemptTypes, RecordsTyped, Phases

LEMMA FinalTypes == LogTypes /\ FinalResponse => LogTypes'
<1> SUFFICES ASSUME LogTypes, FinalResponse PROVE LogTypes'
  OBVIOUS
<1>1. /\ phase = "calling" /\ phase' = "saving"
      /\ run' = [run EXCEPT !.committed = Append(@, Assistant({}, run.fresh))]
      /\ UNCHANGED <<savedVars, pre_turn, snapshot, text, records, tailVars, turnVars, made>>
  BY DEF FinalResponse
<1>2. PICK m : m = Assistant({}, run.fresh)
  OBVIOUS
<1>3. m \in Message
  BY <1>2, TypesOf, ChatTyped, AssistantMessage
<1>4. run' \in Run
  <2>1. run \in Run /\ run.committed \in Seq(Message)
    BY TypesOf, ChatTyped DEF AttemptTypes
  <2>2. Append(run.committed, m) \in Seq(Message)
    BY <1>3, <2>1
  <2> QED
    BY <1>1, <1>2, <2>1, <2>2 DEF Run
<1> QED
  BY <1>1, <1>4, TypesOf, MadeTyped, RunTypes DEF AttemptTypes, RecordsTyped, Phases

LEMMA MinIn ==
  ASSUME NEW S \in SUBSET Nat, S # {} PROVE Min(S) \in S
<1>1. \E m \in S : \A x \in S : m <= x
  BY LeastNumber
<1> QED
  BY <1>1, Zenon DEF Min

LEMMA RecordTypes == LogTypes /\ record_call => LogTypes'
<1> SUFFICES ASSUME LogTypes, record_call PROVE LogTypes'
  OBVIOUS
<1>1. /\ phase = "tools" /\ run.open \ recorded # {}
      /\ records' = Append(records, [call |-> Min(run.open \ recorded), result |-> "none"])
      /\ UNCHANGED <<savedVars, phase, pre_turn, run, snapshot, text, tailVars, turnVars, made>>
  BY DEF record_call
<1>2. PICK c : c = Min(run.open \ recorded)
  OBVIOUS
<1>3. c \in Nat
  <2>1. run.open \ recorded \in SUBSET Nat
    BY TypesOf, ChatTyped
  <2> QED
    BY <1>1, <1>2, <2>1, MinIn
<1>4. records' \in Seq([call : Nat, result : {"none", "settled"}])
  <2>1. records \in Seq([call : Nat, result : {"none", "settled"}])
    BY TypesOf DEF AttemptTypes, RecordsTyped
  <2>2. [call |-> c, result |-> "none"] \in [call : Nat, result : {"none", "settled"}]
    BY <1>3
  <2> QED
    BY <1>1, <1>2, <2>1, <2>2
<1> QED
  BY <1>1, <1>4, TypesOf, MadeTyped, RunTypes DEF AttemptTypes, Phases

\* A record that settles keeps its call.
SettlesAt(i) ==
    /\ i \in 1..Len(records) /\ Len(records') = Len(records) /\ records[i].result = "none"
    /\ records' \in Seq([call : Nat, result : {"none", "settled"}])
    /\ \A j \in 1..Len(records) : records'[j].call = records[j].call

LEMMA RecordedParts ==
  ASSUME LogTypes, record_result
  PROVE  /\ phase = "tools"
         /\ \E i : SettlesAt(i)
         /\ UNCHANGED <<savedVars, phase, pre_turn, run, snapshot, text, tailVars, turnVars, made>>
<1> DEFINE R == [call : Nat, result : {"none", "settled"}]
<1>1. records \in Seq(R)
  BY TypesOf DEF AttemptTypes, RecordsTyped
<1>2. PICK i \in DOMAIN records : records[i].result = "none" /\ records' = [records EXCEPT ![i].result = "settled"]
  BY DEF record_result
<1>3. i \in 1..Len(records) /\ \A j \in 1..Len(records) : records[j] \in R
  <2>1. \A S : \A s \in Seq(S) : DOMAIN s = 1..Len(s) /\ \A j \in 1..Len(s) : s[j] \in S
    OBVIOUS
  <2>2. DOMAIN records = 1..Len(records) /\ \A j \in 1..Len(records) : records[j] \in R
    BY <1>1, <2>1, Zenon
  <2> QED
    BY <1>2, <2>2
<1>4. PICK e : e = [records[i] EXCEPT !.result = "settled"]
  OBVIOUS
<1>5. e \in R /\ e.call = records[i].call
  BY <1>3, <1>4
<1>6. records' = [records EXCEPT ![i] = e]
  BY <1>2, <1>4
<1>7. records' \in Seq(R) /\ Len(records') = Len(records)
  BY <1>1, <1>3, <1>5, <1>6
<1>8. \A j \in 1..Len(records) : records'[j].call = records[j].call
  BY <1>1, <1>3, <1>5, <1>6
<1>9. SettlesAt(i)
  BY <1>2, <1>3, <1>7, <1>8 DEF SettlesAt
<1> QED
  BY <1>9 DEF record_result

LEMMA ResultTypes == LogTypes /\ record_result => LogTypes'
<1> SUFFICES ASSUME LogTypes, record_result PROVE LogTypes'
  OBVIOUS
<1>1. /\ phase = "tools"
      /\ \E i : SettlesAt(i)
      /\ UNCHANGED <<savedVars, phase, pre_turn, run, snapshot, text, tailVars, turnVars, made>>
  BY RecordedParts
<1>2. records' \in Seq([call : Nat, result : {"none", "settled"}])
  BY <1>1 DEF SettlesAt
<1> QED
  BY <1>1, <1>2, TypesOf, MadeTyped, RunTypes DEF AttemptTypes, Phases

-----------------------------------------------------------------------------
LEMMA FailedTypes == LogTypes /\ CompletionFailed => LogTypes'
<1> SUFFICES ASSUME LogTypes, CompletionFailed PROVE LogTypes'
  OBVIOUS
<1>1. PICK kind \in {"backoff", "feedback"} : RetryOr(kind, "failed", snapshot, <<>>)
  BY DEF CompletionFailed
<1>2. phase # "idle" /\ UNCHANGED turn
  BY DEF CompletionFailed
<1>3. kind \in RetryKind /\ snapshot \in Seq(Message) /\ <<>> \in Seq(Nat)
  BY TypesOf DEF RetryKind, AttemptTypes
<1> QED
  BY <1>1, <1>2, <1>3, RetryStep

LEMMA MaxTurnsTypes == LogTypes /\ MaxTurnsExceeded => LogTypes'
<1> SUFFICES ASSUME LogTypes, MaxTurnsExceeded PROVE LogTypes'
  OBVIOUS
<1>1. phase # "idle" /\ UNCHANGED turn /\ RetryOr("max_turns", "failed", chat_history, <<>>)
  BY DEF MaxTurnsExceeded
<1>2. "max_turns" \in RetryKind /\ chat_history \in Seq(Message) /\ <<>> \in Seq(Nat)
  BY TypesOf, ChatTyped DEF RetryKind
<1> QED
  BY <1>1, <1>2, RetryStep

LEMMA RepetitionTypes == LogTypes /\ RepetitionStop => LogTypes'
<1> SUFFICES ASSUME LogTypes, RepetitionStop PROVE LogTypes'
  OBVIOUS
<1>1. phase # "idle" /\ UNCHANGED turn /\ RetryOr("repetition", "cancelled", canonical(chat_history), text)
  BY DEF RepetitionStop
<1>2. "repetition" \in RetryKind /\ canonical(chat_history) \in Seq(Message) /\ text \in Seq(Nat)
  BY TypesOf, ChatTyped, CanonicalTyped DEF RetryKind, AttemptTypes
<1> QED
  BY <1>1, <1>2, RetryStep

LEMMA UnknownTypes == LogTypes /\ UnknownTool => LogTypes'
<1> SUFFICES ASSUME LogTypes, UnknownTool PROVE LogTypes'
  OBVIOUS
<1>1. phase # "idle" /\ Stop("failed", chat_history, <<>>) /\ UNCHANGED turnVars
  BY DEF UnknownTool
<1>2. chat_history \in Seq(Message) /\ <<>> \in Seq(Nat)
  BY TypesOf, ChatTyped
<1> QED
  BY <1>1, <1>2, StopStep

LEMMA ToolFailedTypes == LogTypes /\ ToolExecutionFailed => LogTypes'
<1> SUFFICES ASSUME LogTypes, ToolExecutionFailed PROVE LogTypes'
  OBVIOUS
<1>1. phase # "idle" /\ Stop("failed", snapshot, <<>>) /\ UNCHANGED turnVars
  BY DEF ToolExecutionFailed
<1>2. snapshot \in Seq(Message) /\ <<>> \in Seq(Nat)
  BY TypesOf DEF AttemptTypes
<1> QED
  BY <1>1, <1>2, StopStep

\* The history a cancelled run yields: its own, with the open batch answered.
InFlight(answered) == IF run.open = {} THEN <<>> ELSE <<BatchResults(answered)>>
CancelledHistory(answered) == canonical(chat_history \o InFlight(answered))

LEMMA CancelledTyped ==
  ASSUME AttemptTypes, NEW answered
  PROVE  /\ InFlight(answered) \in Seq(Message) /\ CancelledHistory(answered) \in Seq(Message)
         /\ chat_history \o InFlight(answered) \in Seq(Message)
<1>1. PICK m : m = BatchResults(answered)
  OBVIOUS
<1>2. m \in Message
  BY <1>1, ResultsTyped
<1>3. <<m>> \in Seq(Message) /\ <<>> \in Seq(Message)
  BY <1>2
<1>4. InFlight(answered) \in Seq(Message)
  BY <1>1, <1>3 DEF InFlight
<1>5. chat_history \o InFlight(answered) \in Seq(Message)
  BY <1>4, ChatTyped
<1> QED
  BY <1>4, <1>5, CanonicalTyped DEF CancelledHistory

LEMMA CancelledTypes == LogTypes /\ Cancelled => LogTypes'
<1> SUFFICES ASSUME LogTypes, Cancelled PROVE LogTypes'
  OBVIOUS
<1>1. PICK answered \in SUBSET (run.open \cap settled_calls) :
         Stop("cancelled", CancelledHistory(answered), text)
  BY DEF Cancelled, CancelledHistory, InFlight
<1>2. phase # "idle" /\ UNCHANGED turnVars
  BY DEF Cancelled
<1>3. CancelledHistory(answered) \in Seq(Message) /\ text \in Seq(Nat)
  BY TypesOf, CancelledTyped DEF AttemptTypes
<1> QED
  BY <1>1, <1>2, <1>3, StopStep

LEMMA GraceTypes == LogTypes /\ GraceExpired => LogTypes'
<1> SUFFICES ASSUME LogTypes, GraceExpired PROVE LogTypes'
  OBVIOUS
<1>1. /\ phase # "idle" /\ UNCHANGED turnVars
      /\ Stop("cancelled", snapshot, text) \/ Stop("cancelled", chat_history, text)
  BY DEF GraceExpired
<1>2. snapshot \in Seq(Message) /\ chat_history \in Seq(Message) /\ text \in Seq(Nat)
  BY TypesOf, ChatTyped DEF AttemptTypes
<1> QED
  BY <1>1, <1>2, StopStep

\* The attempt ends; what is kept is typed.
LEMMA EndTypes ==
  ASSUME LogTypes, phase # "idle", NEW next \in {"idle", "attempt"}, EndAttempt(next), KeptTypes',
         UNCHANGED turnVars
  PROVE  LogTypes'
<1>1. next \in Phases
  BY DEF Phases
<1>2. AttemptTypes' /\ TailTypes' /\ phase' = next
  BY <1>1, EndAttemptTypes
<1>3. TurnTypes'
  BY <1>1, <1>2, TypesOf, TurnSame
<1> QED
  BY <1>2, <1>3 DEF LogTypes

LEMMA CrashTypes == LogTypes /\ Crash => LogTypes'
<1> SUFFICES ASSUME LogTypes, Crash PROVE LogTypes'
  OBVIOUS
<1>1. phase # "idle" /\ EndAttempt("idle") /\ UNCHANGED <<savedVars, turnVars, made>>
  BY DEF Crash
<1>2. KeptTypes'
  BY <1>1, TypesOf, MadeTyped, KeptSame DEF turnVars
<1> QED
  BY <1>1, <1>2, EndTypes

LEMMA OtherTypes == LogTypes /\ OtherAppend => LogTypes'
<1> SUFFICES ASSUME LogTypes, OtherAppend PROVE LogTypes'
  OBVIOUS
<1>1. PICK a, b : a = User(<<>>, {}) /\ b = Assistant({}, <<>>)
  OBVIOUS
<1>2. /\ Write(0, <<a, b>>)
      /\ UNCHANGED <<turns, entry_turns, lost, phase, attemptVars, tailVars, turnVars>>
  BY <1>1 DEF OtherAppend
<1>3. a \in Message /\ b \in Message
  <2>1. {} \in SUBSET Result /\ {} \in SUBSET Nat /\ <<>> \in Seq(Nat)
    OBVIOUS
  <2> QED
    BY <1>1, <2>1, NoPieces, UserMessage, AssistantMessage
<1>4. <<a, b>> \in Seq(Message) /\ turn \in Nat /\ 0 \in 0..turn
  BY <1>3, TypesOf, TurnLogAssumption DEF KeptTypes
<1>5. KeptTypes'
  BY <1>2, <1>4, TypesOf, WriteKeeps DEF turnVars
<1>6. Keys(log) \subseteq Keys(log')
  BY <1>2, <1>4, TypesOf, WriteIs DEF Written
<1>7. TailTypes'
  BY <1>2, <1>6, TypesOf DEF TailTypes, tailVars
<1>8. TurnTypes'
  BY <1>2, TypesOf DEF TurnTypes, turnVars
<1>9. AttemptTypes'
  BY <1>2, TypesOf, AttemptSame
<1> QED
  BY <1>5, <1>7, <1>8, <1>9 DEF LogTypes

LEMMA RunSaveTypes == LogTypes /\ RunSave => LogTypes'
<1> SUFFICES ASSUME LogTypes, RunSave PROVE LogTypes'
  OBVIOUS
<1>1. /\ phase = "saving" /\ UNCHANGED <<turns, entry_turns, lost, attemptVars, loaded, saved, turnVars>>
  BY DEF RunSave
<1>2. AttemptTypes'
  BY <1>1, TypesOf, AttemptSame
<1>3. CASE phase' = "saved" /\ Write(turn, run.committed) /\ UNCHANGED stopped
  <2>1. run.committed \in Seq(Message) /\ turn \in Nat /\ turn \in 0..turn
    BY TypesOf, ChatTyped, TurnLogAssumption DEF KeptTypes
  <2>2. KeptTypes'
    BY <1>1, <1>3, <2>1, TypesOf, WriteKeeps DEF turnVars
  <2>3. Keys(log) \subseteq Keys(log')
    BY <1>3, <2>1, TypesOf, WriteIs DEF Written
  <2>4. TailTypes'
    BY <1>1, <1>3, <2>3, TypesOf DEF TailTypes
  <2>5. TurnTypes'
    BY <1>1, <1>3, TypesOf, TurnSame DEF Phases
  <2> QED
    BY <1>2, <2>2, <2>4, <2>5 DEF LogTypes
<1>4. CASE /\ phase' = "recover" /\ UNCHANGED <<log, made>>
           /\ stopped' = [why |-> "failed", history |-> snapshot, text |-> <<>>]
  <2>1. KeptTypes'
    BY <1>1, <1>4, TypesOf, MadeTyped, KeptSame DEF savedVars, turnVars
  <2>2. TailTypes'
    <3>1. snapshot \in Seq(Message) /\ <<>> \in Seq(Nat)
      BY TypesOf DEF AttemptTypes
    <3>2. stopped' \in [why : {"none", "retry", "cancelled", "failed"}, history : Seq(Message), text : Seq(Nat)]
      BY <1>4, <3>1
    <3> QED
      BY <1>1, <1>4, <3>2, TypesOf DEF TailTypes, Keys
  <2>3. TurnTypes'
    BY <1>1, <1>4, TypesOf, TurnSame DEF Phases
  <2> QED
    BY <1>2, <2>1, <2>2, <2>3 DEF LogTypes
<1> QED
  BY <1>3, <1>4 DEF RunSave

\* A row is added and takes the keys of the attempt.
LEMMA SettleTypes ==
  ASSUME LogTypes, NEW keys \in SUBSET Keys(log), Settle(keys), UNCHANGED <<log, lost, turn, made>>
  PROVE  KeptTypes'
<1>1. /\ turns' = Append(turns, [turn |-> turn, since |-> pre_turn.since])
      /\ entry_turns' = {e \in entry_turns : e[1] \notin keys} \cup (keys \X {Len(turns) + 1})
  BY DEF Settle
<1>2. keys \in SUBSET (1..made.key)
  BY TypesOf, MsgsTyped
<1>3. turns \in Seq([turn : Nat, since : Nat]) /\ Len(turns) \in Nat
  BY TypesOf DEF KeptTypes
<1>4. [turn |-> turn, since |-> pre_turn.since] \in [turn : Nat, since : Nat]
  <2>1. turn \in Nat /\ pre_turn.since \in Nat
    BY TypesOf, TurnLogAssumption DEF KeptTypes, AttemptTypes
  <2> QED
    BY <2>1
<1>5. turns' \in Seq([turn : Nat, since : Nat]) /\ Len(turns') = Len(turns) + 1
  BY <1>1, <1>3, <1>4
<1>6. 1..Len(turns) \subseteq 1..Len(turns') /\ Len(turns) + 1 \in 1..Len(turns')
  BY <1>3, <1>5
<1>7. entry_turns' \in SUBSET ((1..made'.key) \X (1..Len(turns')))
  <2>1. entry_turns \in SUBSET ((1..made.key) \X (1..Len(turns)))
    BY TypesOf DEF KeptTypes
  <2>2. ASSUME NEW e \in entry_turns' PROVE e \in (1..made.key) \X (1..Len(turns'))
    <3>1. CASE e \in entry_turns
      BY <2>1, <3>1, <1>6
    <3>2. CASE e \in keys \X {Len(turns) + 1}
      BY <3>2, <1>2, <1>6
    <3> QED
      BY <3>1, <3>2, <1>1
  <2> QED
    BY <2>2
<1> QED
  BY <1>5, <1>7, TypesOf DEF KeptTypes

LEMMA RecordsWrittenTypes == LogTypes /\ write_state_records => LogTypes'
<1> SUFFICES ASSUME LogTypes, write_state_records PROVE LogTypes'
  OBVIOUS
<1>1. phase = "saved" /\ UNCHANGED <<savedVars, turnVars, made>>
  BY DEF write_state_records
<1>2. KeptTypes'
  BY <1>1, TypesOf, MadeTyped, KeptSame DEF turnVars
<1>3. CASE phase' = "settle" /\ saved' = Keys(log) /\ UNCHANGED <<attemptVars, stopped, loaded>>
  <2>1. AttemptTypes'
    BY <1>3, TypesOf, AttemptSame
  <2>2. TailTypes'
    BY <1>1, <1>3, TypesOf DEF TailTypes, savedVars, Keys
  <2>3. TurnTypes'
    BY <1>1, <1>3, TypesOf, TurnSame DEF Phases
  <2> QED
    BY <1>2, <2>1, <2>2, <2>3 DEF LogTypes
<1>4. CASE EndAttempt("idle")
  BY <1>1, <1>2, <1>4, EndTypes
<1> QED
  BY <1>3, <1>4 DEF write_state_records

LEMMA SettledTypes == LogTypes /\ settle => LogTypes'
<1> SUFFICES ASSUME LogTypes, settle PROVE LogTypes'
  OBVIOUS
<1>1. /\ phase = "settle" /\ EndAttempt("idle") /\ UNCHANGED <<log, lost, turnVars, made>>
      /\ Settle(saved \ pre_turn.keys) \/ UNCHANGED <<turns, entry_turns>>
  BY DEF settle
<1>2. KeptTypes'
  <2>1. CASE Settle(saved \ pre_turn.keys)
    <3>1. saved \ pre_turn.keys \in SUBSET Keys(log)
      BY TypesOf DEF TailTypes
    <3> QED
      BY <1>1, <2>1, <3>1, SettleTypes DEF turnVars
  <2>2. CASE UNCHANGED <<turns, entry_turns>>
    BY <1>1, <2>2, TypesOf, MadeTyped, KeptSame DEF savedVars, turnVars
  <2> QED
    BY <1>1, <2>1, <2>2
<1> QED
  BY <1>1, <1>2, EndTypes

LEMMA LostTypes ==
  ASSUME LogTypes, phase # "idle", NEW how \in {"warned", "logged"},
         lost' = lost \cup {[turn |-> turn, how |-> how]},
         UNCHANGED <<log, turns, entry_turns, turn, made>>
  PROVE  KeptTypes'
<1>1. turn \in 1..turn
  BY TypesOf, TurnLogAssumption DEF KeptTypes, TurnTypes
<1>2. lost' \in SUBSET [turn : 1..turn, how : {"warned", "logged"}]
  BY <1>1, TypesOf DEF KeptTypes
<1> QED
  BY <1>2, TypesOf DEF KeptTypes

LEMMA AfterStopIs == AfterStop \in {"idle", "attempt"}
  BY DEF AfterStop

LEMMA RecoverLoadTypes == LogTypes /\ RecoverLoad => LogTypes'
<1> SUFFICES ASSUME LogTypes, RecoverLoad PROVE LogTypes'
  OBVIOUS
<1>1. phase = "recover" /\ UNCHANGED <<log, turns, entry_turns, turnVars, made>>
  BY DEF RecoverLoad
<1>2. CASE /\ phase' = "extend"
           /\ loaded' = [keys |-> Keys(log), delta |-> turn_delta(answered_call_ids(Msgs(log)))]
           /\ UNCHANGED <<lost, attemptVars, stopped, saved>>
  <2>1. AttemptTypes'
    BY <1>2, TypesOf, AttemptSame
  <2>2. KeptTypes'
    BY <1>1, <1>2, TypesOf, MadeTyped, KeptSame DEF savedVars, turnVars
  <2>3. PICK d : d = turn_delta(answered_call_ids(Msgs(log)))
    OBVIOUS
  <2>4. d \in Seq(Message)
    <3>1. stopped.history \in Seq(Message) /\ stopped.text \in Seq(Nat) /\ RecordsTyped
      BY TypesOf DEF TailTypes, AttemptTypes
    <3>2. prompt \in Prompted
      BY <1>1, TypesOf, PromptIs
    <3> QED
      BY <2>3, <3>1, <3>2, DeltaTyped
  <2>5. Keys(log) \in SUBSET Nat
    BY TypesOf, MsgsTyped, MadeTyped
  <2>6. loaded' \in [keys : SUBSET Nat, delta : Seq(Message)]
    BY <1>2, <2>3, <2>4, <2>5
  <2>7. TailTypes'
    BY <1>1, <1>2, <2>6, TypesOf DEF TailTypes, Keys
  <2>8. TurnTypes'
    BY <1>1, <1>2, TypesOf, TurnSame DEF Phases
  <2> QED
    BY <2>1, <2>2, <2>7, <2>8 DEF LogTypes
<1>3. CASE \E how \in {"warned", "logged"} :
              EndAttempt(AfterStop) /\ lost' = lost \cup {[turn |-> turn, how |-> how]}
  <2>1. KeptTypes'
    BY <1>1, <1>3, LostTypes DEF turnVars
  <2> QED
    BY <1>1, <1>3, <2>1, AfterStopIs, EndTypes
<1> QED
  BY <1>2, <1>3 DEF RecoverLoad

LEMMA RecoverSaveTypes == LogTypes /\ RecoverSave => LogTypes'
<1> SUFFICES ASSUME LogTypes, RecoverSave PROVE LogTypes'
  OBVIOUS
<1>1. /\ phase = "extend" /\ phase' = "facts"
      /\ UNCHANGED <<turns, entry_turns, attemptVars, stopped, loaded, turnVars>>
  BY DEF RecoverSave
<1>2. AttemptTypes'
  BY <1>1, TypesOf, AttemptSame
<1>3. TurnTypes'
  BY <1>1, TypesOf, TurnSame DEF Phases
<1>4. CASE Write(turn, loaded.delta) /\ saved' = Keys(log') /\ UNCHANGED lost
  <2>1. loaded.delta \in Seq(Message) /\ turn \in 0..turn
    BY TypesOf, TurnLogAssumption DEF TailTypes, KeptTypes
  <2>2. KeptTypes'
    BY <1>1, <1>4, <2>1, TypesOf, WriteKeeps DEF turnVars
  <2>3. TailTypes'
    BY <1>1, <1>4, TypesOf DEF TailTypes
  <2> QED
    BY <1>2, <1>3, <2>2, <2>3 DEF LogTypes
<1>5. CASE saved' = {} /\ lost' = lost \cup {[turn |-> turn, how |-> "logged"]} /\ UNCHANGED <<log, made>>
  <2>1. KeptTypes'
    BY <1>1, <1>5, LostTypes DEF turnVars
  <2>2. TailTypes'
    BY <1>1, <1>5, TypesOf DEF TailTypes
  <2> QED
    BY <1>2, <1>3, <2>1, <2>2 DEF LogTypes
<1> QED
  BY <1>4, <1>5 DEF RecoverSave

LEMMA FactsTypes == LogTypes /\ persist_tool_facts => LogTypes'
<1> SUFFICES ASSUME LogTypes, persist_tool_facts PROVE LogTypes'
  OBVIOUS
<1>1. /\ phase = "facts" /\ EndAttempt(AfterStop) /\ UNCHANGED <<log, lost, turnVars, made>>
      /\ Settle(saved \ loaded.keys) \/ UNCHANGED <<turns, entry_turns>>
  BY DEF persist_tool_facts
<1>2. KeptTypes'
  <2>1. CASE Settle(saved \ loaded.keys)
    <3>1. saved \ loaded.keys \in SUBSET Keys(log)
      BY TypesOf DEF TailTypes
    <3> QED
      BY <1>1, <2>1, <3>1, SettleTypes DEF turnVars
  <2>2. CASE UNCHANGED <<turns, entry_turns>>
    BY <1>1, <2>2, TypesOf, MadeTyped, KeptSame DEF savedVars, turnVars
  <2> QED
    BY <1>1, <2>1, <2>2
<1> QED
  BY <1>1, <1>2, AfterStopIs, EndTypes

LEMMA LogSame == LogTypes /\ UNCHANGED logVars => LogTypes'
<1> SUFFICES ASSUME LogTypes, UNCHANGED logVars PROVE LogTypes'
  OBVIOUS
<1>1. KeptTypes'
  BY TypesOf, MadeTyped, KeptSame DEF logVars, savedVars
<1>2. AttemptTypes' /\ TailTypes'
  BY TypesOf, AttemptSame, TailSame DEF logVars, attemptVars, tailVars
<1>3. TurnTypes'
  BY TypesOf DEF TurnTypes, logVars
<1> QED
  BY <1>1, <1>2, <1>3 DEF LogTypes

LEMMA LogTypesStep == LogTypes /\ [LogNext]_logVars => LogTypes'
<1> SUFFICES ASSUME LogTypes, [LogNext]_logVars PROVE LogTypes'
  OBVIOUS
<1>1. ASSUME LogStep PROVE LogTypes'
  BY <1>1, PreLoadTypes, RunOpenTypes, CallTypes, StreamTypes, RetriedTypes, BatchTypes, RecordTypes,
     ResultTypes, AnsweredTypes, FinalTypes, FailedTypes, MaxTurnsTypes, RepetitionTypes,
     UnknownTypes, ToolFailedTypes, CancelledTypes, GraceTypes, RunSaveTypes, RecordsWrittenTypes,
     SettledTypes, RecoverLoadTypes, RecoverSaveTypes, FactsTypes, Zenon DEF LogStep
<1> QED
  BY <1>1, BeginTypes, OtherTypes, CrashTypes, LogSame, Zenon DEF LogNext

THEOREM LogTypeCorrect == LogSpec => []LogTypeOK
<1>1. LogInit => LogTypes
  BY LogInitTypes
<1>2. LogTypes /\ [LogNext]_logVars => LogTypes'
  BY LogTypesStep
<1>3. LogTypes => LogTypeOK
  BY TypesSuffice
<1> QED
  BY <1>1, <1>2, <1>3, PTL DEF LogSpec

-----------------------------------------------------------------------------
(* What a row may claim: the log that was read before the attempt holds     *)
(* every key given out until then, so a key it does not hold is new.        *)
RowsInv ==
    /\ pre_turn.since <= made.key
    /\ pre_turn.known => \A k \in Keys(log) : k \in pre_turn.keys \/ k > pre_turn.since
    /\ phase = "facts" => \A k \in saved : k \in loaded.keys \/ k > pre_turn.since
    /\ RowsClaimNew

\* The log keeps its entries; what is new has a new key.
Grown ==
    /\ made'.key \in Nat /\ made.key <= made'.key
    /\ \A k \in Keys(log') : k \in Keys(log) \/ (k \in Nat /\ k > made.key)

LEMMA StillGrown ==
  ASSUME LogTypes, UNCHANGED log, made'.key = made.key PROVE Grown
  BY MadeTyped DEF Grown, Keys

LEMMA WrittenGrown ==
  ASSUME LogTypes, NEW writer \in 0..turn, NEW msgs \in Seq(Message), Write(writer, msgs)
  PROVE  Grown
<1>1. writer \in Nat
  BY TypesOf, TurnLogAssumption DEF KeptTypes
<1>2. Written(writer, msgs)
  BY <1>1, TypesOf, WriteIs
<1> QED
  BY <1>2, MadeTyped DEF Written, Grown

LEMMA OtherGrown ==
  ASSUME LogTypes, OtherAppend PROVE Grown
<1>1. PICK a, b : a = User(<<>>, {}) /\ b = Assistant({}, <<>>)
  OBVIOUS
<1>2. Write(0, <<a, b>>)
  BY <1>1 DEF OtherAppend
<1>3. a \in Message /\ b \in Message
  <2>1. {} \in SUBSET Result /\ {} \in SUBSET Nat /\ <<>> \in Seq(Nat)
    OBVIOUS
  <2> QED
    BY <1>1, <2>1, NoPieces, UserMessage, AssistantMessage
<1>4. <<a, b>> \in Seq(Message) /\ 0 \in 0..turn
  BY <1>3, TypesOf, TurnLogAssumption DEF KeptTypes
<1> QED
  BY <1>2, <1>4, WrittenGrown

LEMMA RunTyped ==
  ASSUME LogTypes
  PROVE  /\ run.committed \in Seq(Message) /\ loaded.delta \in Seq(Message) /\ turn \in 0..turn
         /\ pre_turn.since \in Nat /\ pre_turn.keys \in SUBSET Nat
         /\ saved \in SUBSET Keys(log) /\ Keys(log) \in SUBSET Nat
<1>1. run.committed \in Seq(Message)
  BY TypesOf, ChatTyped
<1>2. loaded.delta \in Seq(Message) /\ saved \in SUBSET Keys(log)
  BY TypesOf DEF TailTypes
<1>3. turn \in 0..turn
  BY TypesOf, TurnLogAssumption DEF KeptTypes
<1>4. pre_turn.since \in Nat /\ pre_turn.keys \in SUBSET Nat
  BY TypesOf DEF AttemptTypes
<1>5. Keys(log) \in SUBSET Nat
  BY TypesOf, MsgsTyped, MadeTyped
<1> QED
  BY <1>1, <1>2, <1>3, <1>4, <1>5

\* Steps that keep the rows and what was read before the attempt.
LEMMA RowsKept ==
  ASSUME LogTypes, RowsInv, Grown, UNCHANGED <<pre_turn, turns, entry_turns>>,
         phase' = "facts" => \A k \in saved' : k \in loaded'.keys \/ k > pre_turn.since
  PROVE  RowsInv'
<1>1. pre_turn.since <= made'.key
  BY RunTyped, MadeTyped DEF RowsInv, Grown
<1>2. pre_turn.known => \A k \in Keys(log') : k \in pre_turn.keys \/ k > pre_turn.since
  <2> SUFFICES ASSUME pre_turn.known, NEW k \in Keys(log')
               PROVE  k \in pre_turn.keys \/ k > pre_turn.since
    OBVIOUS
  <2>1. CASE k \in Keys(log)
    BY <2>1 DEF RowsInv
  <2>2. CASE k \in Nat /\ k > made.key
    BY <2>2, RunTyped, MadeTyped DEF RowsInv
  <2> QED
    BY <2>1, <2>2 DEF Grown
<1>3. RowsClaimNew'
  BY DEF RowsInv, RowsClaimNew
<1> QED
  BY <1>1, <1>2, <1>3 DEF RowsInv

LEMMA RowsOnPreLoad ==
  ASSUME LogTypes, RowsInv, PreLoad PROVE RowsInv'
<1>1. /\ phase' = "open" /\ UNCHANGED <<log, turns, entry_turns>>
      /\ made' = [made EXCEPT !.attempt = @ + 1]
      /\ \/ pre_turn' = [known |-> TRUE, keys |-> Keys(log), count |-> Len(log), since |-> made.key]
         \/ pre_turn' = [known |-> FALSE, keys |-> {}, count |-> 0, since |-> made.key]
  BY DEF PreLoad, savedVars
<1>2. made'.key = made.key /\ made.key \in Nat
  BY <1>1, MadeTyped
<1>3. RowsClaimNew'
  BY <1>1 DEF RowsInv, RowsClaimNew
<1>4. Keys(log') = Keys(log)
  BY <1>1 DEF Keys
<1>5. /\ pre_turn'.since = made.key
      /\ pre_turn'.known => pre_turn'.keys = Keys(log)
  BY <1>1
<1> QED
  BY <1>1, <1>2, <1>3, <1>4, <1>5 DEF RowsInv

\* Steps that end the attempt: a row that is added claims new keys.
LEMMA RowsOnEnd ==
  ASSUME LogTypes, RowsInv, NEW next \in {"idle", "attempt"}, EndAttempt(next),
         UNCHANGED <<log, made>>,
         \/ UNCHANGED <<turns, entry_turns>>
         \/ \E keys \in SUBSET Keys(log) : Settle(keys) /\ \A k \in keys : k > pre_turn.since
  PROVE  RowsInv'
<1>1. phase' # "facts" /\ pre_turn' = NoPreTurn
  BY DEF EndAttempt
<1>2. Keys(log') = Keys(log) /\ Keys(log) \subseteq 1..made.key /\ made.key \in Nat
  BY TypesOf, MsgsTyped, MadeTyped DEF Keys
<1>3. /\ pre_turn'.since <= made'.key
      /\ \A k \in Keys(log') : k > pre_turn'.since
  <2>1. pre_turn'.since = 0
    BY <1>1 DEF NoPreTurn
  <2> QED
    BY <2>1, <1>2
<1>4. RowsClaimNew'
  <2>1. CASE UNCHANGED <<turns, entry_turns>>
    BY <2>1 DEF RowsInv, RowsClaimNew
  <2>2. ASSUME NEW keys \in SUBSET Keys(log), Settle(keys), \A k \in keys : k > pre_turn.since
        PROVE  RowsClaimNew'
    <3>1. PICK row : row = [turn |-> turn, since |-> pre_turn.since]
      OBVIOUS
    <3>2. /\ turns' = Append(turns, row)
          /\ entry_turns' = {e \in entry_turns : e[1] \notin keys} \cup (keys \X {Len(turns) + 1})
      BY <2>2, <3>1 DEF Settle
    <3>3. turns \in Seq([turn : Nat, since : Nat]) /\ Len(turns) \in Nat
          /\ entry_turns \in SUBSET ((1..made.key) \X (1..Len(turns)))
      BY TypesOf DEF KeptTypes
    <3>4. row \in [turn : Nat, since : Nat] /\ row.since = pre_turn.since
      BY <3>1, TypesOf, TurnLogAssumption DEF KeptTypes, AttemptTypes
    <3>5. turns'[Len(turns) + 1] = row /\ \A i \in 1..Len(turns) : turns'[i] = turns[i]
      BY <3>2, <3>3, <3>4
    <3>6. ASSUME NEW e \in entry_turns' PROVE e[1] > turns'[e[2]].since
      <4>1. CASE e \in entry_turns
        <5>1. e[2] \in 1..Len(turns)
          BY <4>1, <3>3
        <5> QED
          BY <4>1, <5>1, <3>5 DEF RowsInv, RowsClaimNew
      <4>2. CASE e \in keys \X {Len(turns) + 1}
        BY <4>2, <2>2, <3>4, <3>5
      <4> QED
        BY <4>1, <4>2, <3>2
    <3> QED
      BY <3>6 DEF RowsClaimNew
  <2> QED
    BY <2>1, <2>2
<1> QED
  BY <1>1, <1>3, <1>4 DEF RowsInv

LEMMA RowsOnRunSave ==
  ASSUME LogTypes, RowsInv, RunSave PROVE RowsInv'
<1>1. /\ UNCHANGED <<pre_turn, turns, entry_turns>> /\ phase' # "facts"
      /\ Write(turn, run.committed) \/ UNCHANGED <<log, made>>
  BY DEF RunSave, attemptVars
<1>2. Grown
  BY <1>1, RunTyped, WrittenGrown, StillGrown
<1> QED
  BY <1>1, <1>2, RowsKept

LEMMA RowsOnRecoverSave ==
  ASSUME LogTypes, RowsInv, RecoverSave PROVE RowsInv'
<1>1. UNCHANGED <<pre_turn, loaded, turns, entry_turns>>
  BY DEF RecoverSave, attemptVars
<1>2. CASE Keys(log) = loaded.keys /\ Write(turn, loaded.delta) /\ saved' = Keys(log')
  <2>1. Grown
    BY <1>2, RunTyped, WrittenGrown
  <2>2. \A k \in saved' : k \in loaded'.keys \/ k > pre_turn.since
    <3>1. pre_turn.since \in Nat /\ made.key \in Nat /\ pre_turn.since <= made.key
      BY RunTyped, MadeTyped DEF RowsInv
    <3> QED
      BY <1>1, <1>2, <2>1, <3>1 DEF Grown
  <2> QED
    BY <1>1, <2>1, <2>2, RowsKept
<1>3. CASE saved' = {} /\ UNCHANGED <<log, made>>
  <2>1. Grown
    BY <1>3, StillGrown
  <2> QED
    BY <1>1, <1>3, <2>1, RowsKept
<1> QED
  BY <1>2, <1>3 DEF RecoverSave

\* The steps of the attempt and of its end, by what they leave alone.
LEMMA RowsQuiet ==
  ASSUME LogTypes, RowsInv, UNCHANGED <<log, pre_turn, turns, entry_turns>>, made'.key = made.key,
         phase' # "facts" \/ UNCHANGED <<phase, saved, loaded>>
  PROVE  RowsInv'
<1>1. Grown
  BY StillGrown
<1>2. phase' = "facts" => \A k \in saved' : k \in loaded'.keys \/ k > pre_turn.since
  BY DEF RowsInv
<1> QED
  BY <1>1, <1>2, RowsKept

LEMMA StopQuiet ==
  ASSUME LogTypes, RowsInv, NEW why, NEW history, NEW streamed, Stop(why, history, streamed)
  PROVE  RowsInv'
<1>1. UNCHANGED <<log, pre_turn, turns, entry_turns>> /\ made'.key = made.key /\ phase' = "recover"
  BY DEF Stop, savedVars, attemptVars
<1> QED
  BY <1>1, RowsQuiet

LEMMA RetryQuiet ==
  ASSUME LogTypes, RowsInv, NEW kind, NEW otherwise, NEW history, NEW streamed,
         RetryOr(kind, otherwise, history, streamed)
  PROVE  RowsInv'
<1>1. \E why, text2 : Stop(why, history, text2)
  BY DEF RetryOr
<1> QED
  BY <1>1, StopQuiet

LEMMA RowsStep ==
  ASSUME LogTypes, RowsInv, [LogNext]_logVars PROVE RowsInv'
<1>1. CASE BeginTurn
  BY <1>1, RowsQuiet DEF BeginTurn, savedVars, attemptVars
<1>2. CASE PreLoad
  BY <1>2, RowsOnPreLoad
<1>3. CASE RunOpen
  BY <1>3, RowsQuiet DEF RunOpen, savedVars
<1>4. CASE on_completion_call
  BY <1>4, RowsQuiet DEF on_completion_call, savedVars
<1>5. CASE StreamText
  BY <1>5, RowsQuiet DEF StreamText, savedVars
<1>6. CASE ModelTurnRetried
  BY <1>6, RowsQuiet DEF ModelTurnRetried, savedVars
<1>7. CASE CommitBatch
  <2>1. /\ UNCHANGED <<log, pre_turn, turns, entry_turns>> /\ phase' # "facts"
        /\ \E n : made' = [made EXCEPT !.call = @ + n]
    BY <1>7 DEF CommitBatch, savedVars
  <2>2. made'.key = made.key
    BY <2>1, MadeTyped
  <2> QED
    BY <2>1, <2>2, RowsQuiet
<1>8. CASE record_call
  BY <1>8, RowsQuiet DEF record_call, savedVars
<1>9. CASE record_result
  BY <1>9, RowsQuiet DEF record_result, savedVars
<1>10. CASE BatchAnswered
  BY <1>10, RowsQuiet DEF BatchAnswered, savedVars
<1>11. CASE FinalResponse
  BY <1>11, RowsQuiet DEF FinalResponse, savedVars
<1>12. CASE CompletionFailed
  BY <1>12, RetryQuiet DEF CompletionFailed
<1>13. CASE MaxTurnsExceeded
  BY <1>13, RetryQuiet DEF MaxTurnsExceeded
<1>14. CASE RepetitionStop
  BY <1>14, RetryQuiet DEF RepetitionStop
<1>15. CASE UnknownTool
  BY <1>15, StopQuiet DEF UnknownTool
<1>16. CASE ToolExecutionFailed
  BY <1>16, StopQuiet DEF ToolExecutionFailed
<1>17. CASE Cancelled
  <2>1. \E history : Stop("cancelled", history, text)
    BY <1>17 DEF Cancelled
  <2> QED
    BY <2>1, StopQuiet
<1>18. CASE GraceExpired
  BY <1>18, StopQuiet DEF GraceExpired
<1>19. CASE RunSave
  BY <1>19, RowsOnRunSave
<1>20. CASE write_state_records
  <2>1. UNCHANGED <<log, made, turns, entry_turns>> /\ (EndAttempt("idle") \/ (UNCHANGED pre_turn /\ phase' = "settle"))
    BY <1>20 DEF write_state_records, savedVars, attemptVars
  <2> QED
    BY <2>1, RowsQuiet, RowsOnEnd
<1>21. CASE settle
  <2>1. /\ EndAttempt("idle") /\ UNCHANGED <<log, made>>
        /\ (pre_turn.known /\ Settle(saved \ pre_turn.keys)) \/ UNCHANGED <<turns, entry_turns>>
    BY <1>21 DEF settle
  <2>2. saved \ pre_turn.keys \in SUBSET Keys(log)
    BY RunTyped
  <2>3. pre_turn.known => \A k \in saved \ pre_turn.keys : k > pre_turn.since
    BY RunTyped DEF RowsInv
  <2> QED
    BY <2>1, <2>2, <2>3, RowsOnEnd
<1>22. CASE RecoverLoad
  <2>1. /\ UNCHANGED <<log, made, turns, entry_turns>>
        /\ EndAttempt(AfterStop) \/ (UNCHANGED pre_turn /\ phase' = "extend")
    BY <1>22 DEF RecoverLoad, attemptVars
  <2> QED
    BY <2>1, AfterStopIs, RowsQuiet, RowsOnEnd
<1>23. CASE RecoverSave
  BY <1>23, RowsOnRecoverSave
<1>24. CASE persist_tool_facts
  <2>1. /\ phase = "facts" /\ EndAttempt(AfterStop) /\ UNCHANGED <<log, made>>
        /\ Settle(saved \ loaded.keys) \/ UNCHANGED <<turns, entry_turns>>
    BY <1>24 DEF persist_tool_facts
  <2>2. saved \ loaded.keys \in SUBSET Keys(log)
    BY RunTyped
  <2>3. \A k \in saved \ loaded.keys : k > pre_turn.since
    BY <2>1 DEF RowsInv
  <2> QED
    BY <2>1, <2>2, <2>3, AfterStopIs, RowsOnEnd
<1>25. CASE OtherAppend
  <2>1. UNCHANGED <<pre_turn, turns, entry_turns, phase, saved, loaded>>
    BY <1>25 DEF OtherAppend, attemptVars, tailVars
  <2>2. phase' = "facts" => \A k \in saved' : k \in loaded'.keys \/ k > pre_turn.since
    BY <2>1 DEF RowsInv
  <2> QED
    BY <1>25, <2>1, <2>2, OtherGrown, RowsKept
<1>26. CASE Crash
  <2>1. EndAttempt("idle") /\ UNCHANGED <<log, made, turns, entry_turns>>
    BY <1>26 DEF Crash, savedVars
  <2> QED
    BY <2>1, RowsOnEnd
<1>27. CASE UNCHANGED logVars
  BY <1>27, RowsQuiet DEF logVars
<1> QED
  BY <1>1, <1>2, <1>3, <1>4, <1>5, <1>6, <1>7, <1>8, <1>9, <1>10, <1>11, <1>12, <1>13, <1>14,
     <1>15, <1>16, <1>17, <1>18, <1>19, <1>20, <1>21, <1>22, <1>23, <1>24, <1>25, <1>26, <1>27,
     Zenon DEF LogNext, LogStep

LEMMA LogInitRows == LogInit => RowsInv
<1> SUFFICES ASSUME LogInit PROVE RowsInv
  OBVIOUS
<1>1. /\ log = <<>> /\ pre_turn = NoPreTurn /\ phase = "idle" /\ entry_turns = {}
      /\ made = [key |-> 0, call |-> 0, attempt |-> 0]
  BY DEF LogInit
<1>2. Keys(log) = {}
  BY <1>1 DEF Keys
<1> QED
  BY <1>1, <1>2 DEF RowsInv, NoPreTurn, RowsClaimNew

\* A row of the fact tables never claims an entry that was in the log before its
\* attempt began.
THEOREM RowsAreNew == LogSpec => []RowsClaimNew
<1>1. LogInit => LogTypes /\ RowsInv
  BY LogInitTypes, LogInitRows
<1>2. LogTypes /\ RowsInv /\ [LogNext]_logVars => (LogTypes /\ RowsInv)'
  BY LogTypesStep, RowsStep
<1>3. RowsInv => RowsClaimNew
  BY DEF RowsInv
<1> QED
  BY <1>1, <1>2, <1>3, PTL DEF LogSpec

-----------------------------------------------------------------------------
(* Histories: every call and result id in one was given out before; a call  *)
(* is answered behind it or nowhere, and a result is behind its call.       *)
Given(h, n) ==
    \A i \in 1..Len(h) : h[i].calls \subseteq 1..n /\ \A r \in h[i].results : r.call \in 1..n
Answered(h, i, c) == \E j \in 1..Len(h) : i < j /\ \E r \in h[j].results : r.call = c
Unheard(h, c) == \A j \in 1..Len(h) : \A r \in h[j].results : r.call # c
Backed(h, i, c) == \E j \in 1..Len(h) : j < i /\ c \in h[j].calls
Ordered(h) ==
    /\ \A i \in 1..Len(h) : \A c \in h[i].calls : Answered(h, i, c) \/ Unheard(h, c)
    /\ \A i \in 1..Len(h) : \A r \in h[i].results : Backed(h, i, r.call)

\* A history that tells of the attempt from p on; what is before p is in old.
Tells(h, p, own, old) ==
    /\ h \in Seq(Message) /\ WorkFrom(h, p, own) /\ Ordered(h)
    /\ \A i \in 1..Len(h) : i < p => h[i].calls \subseteq old

\* A message at the end of a sequence.
Longer(g, h, m) ==
    /\ g \in Seq(Message) /\ Len(g) = Len(h) + 1 /\ g[Len(h) + 1] = m
    /\ \A i \in 1..Len(h) : i \in 1..Len(g) /\ g[i] = h[i]
    /\ \A i \in 1..Len(g) : i \in 1..Len(h) \/ i = Len(h) + 1

LEMMA AppendLonger ==
  ASSUME NEW h \in Seq(Message), NEW m \in Message PROVE Longer(Append(h, m), h, m)
<1>1. PICK g : g = Append(h, m)
  OBVIOUS
<1>2. g \in Seq(Message) /\ Len(g) = Len(h) + 1 /\ g[Len(h) + 1] = m
  BY <1>1
<1>3. \A i \in 1..Len(h) : i \in 1..Len(g) /\ g[i] = h[i]
  BY <1>1
<1>4. \A i \in 1..Len(g) : i \in 1..Len(h) \/ i = Len(h) + 1
  BY <1>2
<1> QED
  BY <1>1, <1>2, <1>3, <1>4 DEF Longer

LEMMA GivenLonger ==
  ASSUME NEW g, NEW h, NEW m, Longer(g, h, m), NEW n \in Nat, NEW k \in Nat, n <= k, Given(h, n),
         m.calls \subseteq 1..k, \A r \in m.results : r.call \in 1..k
  PROVE  Given(g, k)
<1>1. 1..n \subseteq 1..k
  OBVIOUS
<1> QED
  BY <1>1 DEF Longer, Given

LEMMA AnsweredLonger ==
  ASSUME NEW g, NEW h \in Seq(Message), NEW m, Longer(g, h, m), NEW i \in 1..Len(h), NEW c
  PROVE  /\ Answered(h, i, c) => Answered(g, i, c)
         /\ (\E r \in m.results : r.call = c) => Answered(g, i, c)
         /\ Unheard(h, c) /\ (\A r \in m.results : r.call # c) => Unheard(g, c)
<1>1. ASSUME Answered(h, i, c) PROVE Answered(g, i, c)
  BY <1>1 DEF Answered, Longer
<1>2. ASSUME \E r \in m.results : r.call = c PROVE Answered(g, i, c)
  <2>1. Len(h) + 1 \in 1..Len(g) /\ i < Len(h) + 1
    BY DEF Longer
  <2> QED
    BY <1>2, <2>1 DEF Answered, Longer
<1>3. ASSUME Unheard(h, c), \A r \in m.results : r.call # c PROVE Unheard(g, c)
  BY <1>3 DEF Unheard, Longer
<1> QED
  BY <1>1, <1>2, <1>3

LEMMA OrderedLonger ==
  ASSUME NEW g, NEW h \in Seq(Message), NEW m \in Message, Longer(g, h, m), Ordered(h),
         \A c \in m.calls : Unheard(h, c),
         \A r \in m.results : \E j \in 1..Len(h) : r.call \in h[j].calls
  PROVE  Ordered(g)
<1>1. ASSUME NEW i \in 1..Len(g), NEW c \in g[i].calls PROVE Answered(g, i, c) \/ Unheard(g, c)
  <2>1. CASE i \in 1..Len(h)
    <3>1. c \in h[i].calls
      BY <2>1, <1>1 DEF Longer
    <3>2. Answered(h, i, c) \/ Unheard(h, c)
      BY <2>1, <3>1 DEF Ordered
    <3> QED
      BY <2>1, <3>2, AnsweredLonger
  <2>2. CASE i = Len(h) + 1
    <3>1. c \in m.calls
      BY <2>2, <1>1 DEF Longer
    <3>2. m.role # "user"
      BY <3>1, MessageParts
    <3>3. m.results = {}
      BY <3>2, MessageParts
    <3>4. Unheard(h, c)
      BY <3>1
    <3> QED
      BY <3>3, <3>4 DEF Unheard, Longer
  <2> QED
    BY <2>1, <2>2 DEF Longer
<1>2. ASSUME NEW i \in 1..Len(g), NEW r \in g[i].results PROVE Backed(g, i, r.call)
  <2>1. CASE i \in 1..Len(h)
    <3>1. r \in h[i].results
      BY <2>1, <1>2 DEF Longer
    <3>2. Backed(h, i, r.call)
      BY <2>1, <3>1 DEF Ordered
    <3> QED
      BY <3>2 DEF Backed, Longer
  <2>2. CASE i = Len(h) + 1
    <3>1. r \in m.results
      BY <2>2, <1>2 DEF Longer
    <3>2. PICK j \in 1..Len(h) : r.call \in h[j].calls
      BY <3>1
    <3>3. j < i
      BY <2>2
    <3> QED
      BY <3>2, <3>3 DEF Backed, Longer
  <2> QED
    BY <2>1, <2>2 DEF Longer
<1> QED
  BY <1>1, <1>2 DEF Ordered

\* The attempt goes on: a message without a prompt, of new calls or of results.
LEMMA TellsLonger ==
  ASSUME NEW g, NEW h, NEW m \in Message, Longer(g, h, m), NEW p, NEW own, NEW old, Tells(h, p, own, old),
         m.pieces = <<>>, NEW new, \A c \in new : c \in own \/ Unheard(h, c),
         \A c \in m.calls : Unheard(h, c),
         \A r \in m.results : /\ r.out \in {"settled", "placeholder"}
                              /\ \E j \in 1..Len(h) : p <= j /\ r.call \in h[j].calls
  PROVE  Tells(g, p, new, old)
<1>1. h \in Seq(Message) /\ Ordered(h) /\ p \in 1..Len(h)
  BY DEF Tells, WorkFrom
<1>2. Ordered(g)
  BY <1>1, OrderedLonger
<1>3. g \in Seq(Message) /\ p \in 1..Len(g) /\ Len(h) \in Nat
  BY <1>1 DEF Longer
<1>4. ASSUME NEW i \in 1..Len(g), p < i PROVE g[i].pieces = <<>>
  BY <1>4 DEF Longer, Tells, WorkFrom
<1>5. ASSUME NEW i \in 1..Len(g), NEW r \in g[i].results, r.call \in new
      PROVE  /\ r.out \in {"settled", "placeholder"}
             /\ \E j \in 1..Len(g) : p <= j /\ r.call \in g[j].calls
  <2>1. /\ r.out \in {"settled", "placeholder"}
        /\ \E j \in 1..Len(h) : p <= j /\ r.call \in h[j].calls
    <3>1. CASE i \in 1..Len(h)
      <4>1. r \in h[i].results
        BY <3>1, <1>5 DEF Longer
      <4>2. r.call \in own
        BY <3>1, <4>1, <1>5 DEF Unheard
      <4> QED
        BY <3>1, <4>1, <4>2 DEF Tells, WorkFrom
    <3>2. CASE i = Len(h) + 1
      BY <3>2, <1>5 DEF Longer
    <3> QED
      BY <3>1, <3>2 DEF Longer
  <2> QED
    BY <2>1 DEF Longer
<1>6. ASSUME NEW i \in 1..Len(g), i < p PROVE g[i].calls \subseteq old
  <2>1. i \in 1..Len(h)
    BY <1>1, <1>3, <1>6
  <2> QED
    BY <2>1, <1>6 DEF Longer, Tells
<1> QED
  BY <1>2, <1>3, <1>4, <1>5, <1>6 DEF Tells, WorkFrom

LEMMA TellsGrow ==
  ASSUME NEW h, NEW p, NEW own, NEW old, Tells(h, p, own, old), NEW new,
         \A c \in new : c \in own \/ Unheard(h, c)
  PROVE  Tells(h, p, new, old)
<1>1. ASSUME NEW i \in 1..Len(h), NEW r \in h[i].results, r.call \in new
      PROVE  /\ r.out \in {"settled", "placeholder"}
             /\ \E j \in 1..Len(h) : p <= j /\ r.call \in h[j].calls
  <2>1. r.call \in own
    BY <1>1 DEF Unheard
  <2> QED
    BY <1>1, <2>1 DEF Tells, WorkFrom
<1> QED
  BY <1>1 DEF Tells, WorkFrom

\* The base of a run and its prompt.
LEMMA TellsStart ==
  ASSUME NEW h \in Seq(Message), NEW m \in Message, NEW g, Longer(g, h, m), Ordered(h),
         m.calls = {}, m.results = {}, NEW old, \A i \in 1..Len(h) : h[i].calls \subseteq old
  PROVE  Tells(g, Len(h) + 1, {}, old)
<1>1. Ordered(g)
  BY OrderedLonger
<1>2. g \in Seq(Message) /\ Len(g) = Len(h) + 1 /\ Len(h) + 1 \in 1..Len(g) /\ Len(h) \in Nat
  BY DEF Longer
<1>3. \A i \in 1..Len(g) : ~(Len(h) + 1 < i)
  BY <1>2
<1>4. WorkFrom(g, Len(h) + 1, {})
  BY <1>2, <1>3 DEF WorkFrom
<1>5. ASSUME NEW i \in 1..Len(g), i < Len(h) + 1 PROVE g[i].calls \subseteq old
  BY <1>2, <1>5 DEF Longer
<1> QED
  BY <1>1, <1>2, <1>4, <1>5 DEF Tells

\* Merging adjacent user messages.
LEMMA CanonicalGiven ==
  ASSUME NEW h \in Seq(Message), NEW n, Given(h, n) PROVE Given(canonical(h), n)
<1>1. PICK at : Joins(canonical(h), h, Len(h), at)
  BY CanonicalJoins
<1>2. PICK G : G = canonical(h)
  OBVIOUS
<1>3. /\ \A i \in 1..Len(h) : at[i] \in 1..Len(G) /\ G[at[i]].calls = h[i].calls
      /\ \A p \in 1..Len(G) : \E i \in 1..Len(h) : at[i] = p
      /\ \A p \in 1..Len(G) : \A r \in G[p].results : \E i \in 1..Len(h) : at[i] = p /\ r \in h[i].results
  BY <1>1, <1>2, Zenon DEF Joins
<1>4. ASSUME NEW p \in 1..Len(G) PROVE G[p].calls \subseteq 1..n
  <2>1. PICK i \in 1..Len(h) : at[i] = p
    BY <1>3
  <2> QED
    BY <2>1, <1>3 DEF Given
<1>5. ASSUME NEW p \in 1..Len(G), NEW r \in G[p].results PROVE r.call \in 1..n
  <2>1. PICK i \in 1..Len(h) : r \in h[i].results
    BY <1>3
  <2> QED
    BY <2>1 DEF Given
<1> QED
  BY <1>2, <1>4, <1>5 DEF Given

LEMMA TellsCanonical ==
  ASSUME NEW h, NEW p, NEW own, NEW old, Tells(h, p, own, old)
  PROVE  \E q : Tells(canonical(h), q, own, old)
<1>0. h \in Seq(Message) /\ WorkFrom(h, p, own) /\ Ordered(h) /\ p \in 1..Len(h) /\ Len(h) \in Nat
  BY DEF Tells, WorkFrom
<1>1. PICK at : Joins(canonical(h), h, Len(h), at)
  BY <1>0, CanonicalJoins
<1>2. PICK G : G = canonical(h)
  OBVIOUS
<1>3. /\ G \in Seq(Message) /\ at \in [1..Len(h) -> Nat]
      /\ \A i \in 1..Len(h) : /\ at[i] \in 1..Len(G) /\ G[at[i]].calls = h[i].calls
                              /\ h[i].results \subseteq G[at[i]].results
      /\ \A i, k \in 1..Len(h) : i <= k => at[i] <= at[k]
      /\ \A i, k \in 1..Len(h) : i < k /\ "assistant" \in {h[i].role, h[k].role} => at[i] < at[k]
      /\ \A x \in 1..Len(G) : \E i \in 1..Len(h) : at[i] = x
      /\ \A x \in 1..Len(G) : \A r \in G[x].results : \E i \in 1..Len(h) : at[i] = x /\ r \in h[i].results
      /\ \A x \in 1..Len(G) :
            (\A i \in 1..Len(h) : at[i] = x => h[i].pieces = <<>>) => G[x].pieces = <<>>
  BY <1>1, <1>2, Zenon DEF Joins
<1>4. \A i \in 1..Len(h) : h[i].calls # {} => h[i].role = "assistant"
  <2>1. \A i \in 1..Len(h) : h[i] \in Message
    BY <1>0
  <2>2. \A m \in Message : m.calls # {} => m.role = "assistant"
    BY MessageParts
  <2> QED
    BY <2>1, <2>2
<1>5. PICK q : q = at[p]
  OBVIOUS
<1>6. q \in 1..Len(G) /\ \A i \in 1..Len(h) : at[i] \in Nat
  BY <1>0, <1>3, <1>5
<1>7. ASSUME NEW x \in 1..Len(G), q < x PROVE G[x].pieces = <<>>
  <2>1. ASSUME NEW i \in 1..Len(h), at[i] = x PROVE h[i].pieces = <<>>
    <3>1. ~(i <= p)
      BY <1>0, <1>3, <1>5, <1>6, <1>7, <2>1
    <3>2. p < i
      BY <3>1, <1>0
    <3> QED
      BY <3>2, <1>0 DEF WorkFrom
  <2> QED
    BY <2>1, <1>3
<1>8. ASSUME NEW x \in 1..Len(G), NEW r \in G[x].results, r.call \in own
      PROVE  /\ r.out \in {"settled", "placeholder"}
             /\ \E j \in 1..Len(G) : q <= j /\ r.call \in G[j].calls
  <2>1. PICK i \in 1..Len(h) : r \in h[i].results
    BY <1>3
  <2>2. /\ r.out \in {"settled", "placeholder"}
        /\ \E j \in 1..Len(h) : p <= j /\ r.call \in h[j].calls
    BY <2>1, <1>0, <1>8 DEF WorkFrom
  <2>3. PICK j \in 1..Len(h) : p <= j /\ r.call \in h[j].calls
    BY <2>2
  <2>4. at[j] \in 1..Len(G) /\ q <= at[j] /\ r.call \in G[at[j]].calls
    BY <2>3, <1>0, <1>3, <1>5
  <2> QED
    BY <2>2, <2>4
<1>9. ASSUME NEW x \in 1..Len(G), NEW c \in G[x].calls PROVE Answered(G, x, c) \/ Unheard(G, c)
  <2>1. PICK i \in 1..Len(h) : at[i] = x
    BY <1>3
  <2>2. c \in h[i].calls /\ h[i].role = "assistant"
    BY <2>1, <1>3, <1>4, <1>9
  <2>3. CASE Answered(h, i, c)
    <3>1. PICK j \in 1..Len(h) : i < j /\ \E r \in h[j].results : r.call = c
      BY <2>3 DEF Answered
    <3>2. at[j] \in 1..Len(G) /\ x < at[j] /\ \E r \in G[at[j]].results : r.call = c
      BY <2>1, <2>2, <3>1, <1>3
    <3> QED
      BY <3>2 DEF Answered
  <2>4. CASE Unheard(h, c)
    BY <2>4, <1>3 DEF Unheard
  <2> QED
    BY <2>2, <2>3, <2>4, <1>0 DEF Ordered
<1>a. ASSUME NEW x \in 1..Len(G), NEW r \in G[x].results PROVE Backed(G, x, r.call)
  <2>1. PICK i \in 1..Len(h) : at[i] = x /\ r \in h[i].results
    BY <1>3
  <2>2. Backed(h, i, r.call)
    BY <2>1, <1>0 DEF Ordered
  <2>3. PICK j \in 1..Len(h) : j < i /\ r.call \in h[j].calls
    BY <2>2 DEF Backed
  <2>4. h[j].role = "assistant"
    BY <2>3, <1>4
  <2>5. at[j] \in 1..Len(G) /\ at[j] < x /\ r.call \in G[at[j]].calls
    BY <2>1, <2>3, <2>4, <1>3
  <2> QED
    BY <2>5 DEF Backed
<1>b. ASSUME NEW x \in 1..Len(G), x < q PROVE G[x].calls \subseteq old
  <2>1. PICK i \in 1..Len(h) : at[i] = x
    BY <1>3
  <2>2. ~(p <= i)
    BY <2>1, <1>0, <1>3, <1>5, <1>6, <1>b
  <2>3. i < p
    BY <2>2, <1>0
  <2> QED
    BY <2>1, <2>3, <1>3 DEF Tells
<1>c. WorkFrom(G, q, own)
  BY <1>6, <1>7, <1>8 DEF WorkFrom
<1>d. Ordered(G)
  BY <1>9, <1>a DEF Ordered
<1>e. Tells(G, q, own, old)
  BY <1>3, <1>b, <1>c, <1>d DEF Tells
<1> QED
  BY <1>2, <1>e

-----------------------------------------------------------------------------
\* The delta is the history from the anchor on, but for results of its first message.
DeltaFrom(delta, h, a) ==
    /\ delta \in Seq(Message)
    /\ Len(delta) # 0 => /\ a \in 1..Len(h) /\ Len(delta) = Len(h) - a + 1 /\ h[a].pieces # <<>>
    /\ \A k \in 1..Len(delta) :
          /\ a + k - 1 \in 1..Len(h) /\ delta[k].calls = h[a + k - 1].calls
          /\ delta[k].pieces = h[a + k - 1].pieces
          /\ delta[k].results \subseteq h[a + k - 1].results
          /\ k # 1 => delta[k].results = h[a + k - 1].results

\* What recovery finishes: the delta, its prompt and the missing calls around it.
Whole(w, delta, missing, s) ==
    /\ w \in Seq(Message) /\ s \in Nat
    /\ \A k \in 1..Len(delta) : s + k \in 1..Len(w) /\ w[s + k] = delta[k]
    /\ \A i \in 1..Len(w) : \/ i - s \in 1..Len(delta) /\ w[i] = delta[i - s]
                            \/ w[i].results = {} /\ w[i].calls \subseteq missing
    /\ \A i, j \in 1..Len(w) :
          i - s \notin 1..Len(delta) /\ j - s \notin 1..Len(delta)
             /\ w[i].calls # {} /\ w[j].calls # {} => i = j

LEMMA WholeIs ==
  ASSUME NEW stored, stopped.history \in Seq(Message), RecordsTyped, prompt \in Prompted
  PROVE  \E w, delta, a, s :
            /\ turn_delta(stored) = Finished(w)
            /\ a = prompt_anchor(stopped.history)
            /\ delta = drop_stored_results(CutAt(stopped.history, a), stored)
            /\ DeltaFrom(delta, stopped.history, a)
            /\ Whole(w, delta, missing_tool_calls(delta), s)
            /\ Len(delta) # 0 => s = 0
<1>0. PICK h : h = stopped.history
  OBVIOUS
<1>1. PICK anchor, delta, missing :
            /\ anchor = prompt_anchor(h)
            /\ delta = drop_stored_results(CutAt(h, anchor), stored)
            /\ Trimmed(delta, CutAt(h, anchor))
            /\ missing = missing_tool_calls(delta)
            /\ turn_delta(stored) = Finished(Before(anchor) \o (delta \o Behind(anchor, missing)))
  BY <1>0, DeltaParts, Zenon
<1>2. PICK w : w = Before(anchor) \o (delta \o Behind(anchor, missing))
  OBVIOUS
<1>3. PICK cut : cut = CutAt(h, anchor)
  OBVIOUS
<1>4. /\ delta \in Seq(Message) /\ Len(delta) = Len(cut)
      /\ \A i \in 1..Len(cut) : /\ delta[i].pieces = cut[i].pieces /\ delta[i].calls = cut[i].calls
                                /\ delta[i].results \subseteq cut[i].results
                                /\ i # 1 => delta[i] = cut[i]
  BY <1>1, <1>3 DEF Trimmed
<1>5. missing \in SUBSET Nat
  BY <1>1, MissingNat
<1>6. PICK pre, post : pre = Before(anchor) /\ post = Behind(anchor, missing)
  OBVIOUS
<1>7. /\ pre \in Seq(Message) /\ post \in Seq(Message)
      /\ \A i \in 1..Len(pre) : pre[i].results = {} /\ pre[i].calls = {}
      /\ \A i \in 1..Len(post) : post[i].results = {} /\ post[i].calls \subseteq missing
      /\ Len(post) <= 1 /\ (anchor # 0 => Len(pre) = 0)
  BY <1>5, <1>6, EndsAre
<1>8. w = pre \o (delta \o post)
  BY <1>2, <1>6
<1>9. /\ w \in Seq(Message)
      /\ \A i \in 1..Len(pre) : i \in 1..Len(w) /\ w[i] = pre[i]
      /\ \A i \in 1..Len(delta) : Len(pre) + i \in 1..Len(w) /\ w[Len(pre) + i] = delta[i]
      /\ \A i \in 1..Len(post) : /\ Len(pre) + Len(delta) + i \in 1..Len(w)
                                 /\ w[Len(pre) + Len(delta) + i] = post[i]
      /\ \A p \in 1..Len(w) : \/ p \in 1..Len(pre)
                              \/ p - Len(pre) \in 1..Len(delta)
                              \/ p - Len(pre) - Len(delta) \in 1..Len(post)
  <2>1. Sandwiched(Message, w, pre, delta, post)
    BY <1>4, <1>7, <1>8, Sandwich
  <2> QED
    BY <2>1, Zenon DEF Sandwiched
<1>a. h \in Seq(Message) /\ Len(h) \in Nat /\ Len(pre) \in Nat /\ Len(delta) \in Nat
  BY <1>0, <1>4, <1>7
<1>b. anchor \in 0..Len(h) /\ (anchor # 0 => is_prompt(h[anchor]))
  BY <1>1, <1>a, AnchorIs
<1>c. DeltaFrom(delta, h, anchor)
  <2>1. CASE anchor = 0
    <3>1. Len(cut) = 0
      BY <2>1, <1>3 DEF CutAt
    <3> QED
      BY <3>1, <1>4 DEF DeltaFrom
  <2>2. CASE anchor # 0
    <3>1. anchor \in 1..Len(h) /\ cut = SubSeq(h, anchor, Len(h))
      BY <2>2, <1>3, <1>b DEF CutAt
    <3>2. Len(cut) = Len(h) - anchor + 1 /\ \A i \in 1..Len(cut) : cut[i] = h[anchor + i - 1]
      BY <3>1, <1>a, CutIs
    <3>3. h[anchor].pieces # <<>>
      BY <2>2, <1>b DEF is_prompt
    <3>4. \A k \in 1..Len(delta) :
             /\ anchor + k - 1 \in 1..Len(h) /\ delta[k].calls = h[anchor + k - 1].calls
             /\ delta[k].pieces = h[anchor + k - 1].pieces
             /\ delta[k].results \subseteq h[anchor + k - 1].results
             /\ k # 1 => delta[k].results = h[anchor + k - 1].results
      <4> SUFFICES ASSUME NEW k \in 1..Len(delta)
                   PROVE  /\ anchor + k - 1 \in 1..Len(h) /\ delta[k].calls = h[anchor + k - 1].calls
                          /\ delta[k].pieces = h[anchor + k - 1].pieces
                          /\ delta[k].results \subseteq h[anchor + k - 1].results
                          /\ k # 1 => delta[k].results = h[anchor + k - 1].results
        OBVIOUS
      <4>1. anchor + k - 1 \in 1..Len(h)
        BY <3>1, <3>2, <1>4, <1>a
      <4> QED
        BY <4>1, <3>2, <1>4
    <3> QED
      BY <3>1, <3>2, <3>3, <3>4, <1>4 DEF DeltaFrom
  <2> QED
    BY <2>1, <2>2
<1>d. PICK s : s = Len(pre)
  OBVIOUS
<1>e. ASSUME NEW i \in 1..Len(w)
      PROVE  \/ i - s \in 1..Len(delta) /\ w[i] = delta[i - s]
             \/ w[i].results = {} /\ w[i].calls \subseteq missing
  <2>1. CASE i \in 1..Len(pre)
    BY <2>1, <1>7, <1>9
  <2>2. CASE i - Len(pre) \in 1..Len(delta)
    <3>1. PICK k : k = i - Len(pre)
      OBVIOUS
    <3>2. k \in 1..Len(delta) /\ Len(pre) + k = i
      BY <2>2, <3>1, <1>a
    <3> QED
      BY <3>1, <3>2, <1>9, <1>d
  <2>3. CASE i - Len(pre) - Len(delta) \in 1..Len(post)
    <3>1. PICK k : k = i - Len(pre) - Len(delta)
      OBVIOUS
    <3>2. k \in 1..Len(post) /\ Len(pre) + Len(delta) + k = i
      BY <2>3, <3>1, <1>a
    <3>3. w[i] = post[k]
      BY <3>2, <1>9
    <3> QED
      BY <3>2, <3>3, <1>7
  <2> QED
    BY <2>1, <2>2, <2>3, <1>9
<1>g. ASSUME NEW i \in 1..Len(w), i - s \notin 1..Len(delta), w[i].calls # {}
      PROVE  i = Len(pre) + Len(delta) + 1
  <2>1. i \notin 1..Len(pre)
    BY <1>7, <1>9, <1>g
  <2>2. i - Len(pre) - Len(delta) \in 1..Len(post)
    BY <2>1, <1>9, <1>d, <1>g
  <2>3. Len(post) \in Nat /\ Len(post) <= 1
    BY <1>7
  <2> QED
    BY <2>2, <2>3, <1>a
<1>f. Whole(w, delta, missing, s)
  BY <1>9, <1>a, <1>d, <1>e, <1>g DEF Whole
<1>h. Len(delta) # 0 => s = 0
  <2>1. anchor = 0 => Len(cut) = 0
    BY <1>3 DEF CutAt
  <2> QED
    BY <2>1, <1>4, <1>7, <1>d
<1> QED
  BY <1>0, <1>1, <1>2, <1>c, <1>f, <1>h

LEMMA MissingIs ==
  ASSUME NEW delta \in Seq(Message), NEW c \in missing_tool_calls(delta)
  PROVE  c \in recorded /\ Unheard(delta, c)
<1>1. c \in recorded /\ c \notin answered_call_ids(delta)
  BY DEF missing_tool_calls, recorded
<1>2. DOMAIN delta = 1..Len(delta)
  OBVIOUS
<1> QED
  BY <1>1, <1>2 DEF answered_call_ids, Unheard

LEMMA FixedIs ==
  ASSUME NEW results \in SUBSET Result, NEW c
  PROVE  (\E r \in Fixed(results) : r.call = c) <=> (\E r \in results : r.call = c)
<1>1. {r.call : r \in Fixed(results)} = {r.call : r \in results}
  BY FixedCalls
<1>2. (\E r \in Fixed(results) : r.call = c) <=> c \in {r.call : r \in Fixed(results)}
  OBVIOUS
<1>3. (\E r \in results : r.call = c) <=> c \in {r.call : r \in results}
  OBVIOUS
<1> QED
  BY <1>1, <1>2, <1>3

\* What is finished has no other calls and results, and answers what was open.
FinishedParts(F, w, off) ==
    /\ F \in Seq(Message) /\ off \in [1..Len(w) -> Nat] /\ (Len(w) # 0 => off[1] = 0)
    /\ \A i \in 1..Len(w) :
          /\ off[i] + 1 \in 1..Len(F) /\ F[off[i] + 1].calls = w[i].calls
          /\ F[off[i] + 1].pieces = w[i].pieces
          /\ \A c : (\E r \in F[off[i] + 1].results : r.call = c) <=> (\E r \in w[i].results : r.call = c)
          /\ \A c \in w[i].calls : Unheard(w, c) =>
                off[i] + 2 \in 1..Len(F) /\ \E r \in F[off[i] + 2].results : r.call = c
    /\ \A i, k \in 1..Len(w) : i < k => off[i] + 1 < off[k] + 1
    /\ \A p \in 1..Len(F) :
          \/ \E i \in 1..Len(w) : p = off[i] + 1
          \/ F[p].calls = {} /\ \E i \in 1..Len(w) :
                p = off[i] + 2 /\ \A r \in F[p].results : r.call \in w[i].calls /\ Unheard(w, r.call)
          \/ F[p].calls = {} /\ F[p].results = {}

LEMMA FinishedHas ==
  ASSUME NEW w \in Seq(Message), stopped.text \in Seq(Nat)
  PROVE  \E off : FinishedParts(Finished(w), w, off)
<1>1. PICK off : FinishedAs(Finished(w), w, off)
  BY FinishPlaces
<1>2. PICK F : F = Finished(w)
  OBVIOUS
<1>3. /\ F \in Seq(Message) /\ off \in [1..Len(w) -> Nat] /\ (Len(w) # 0 => off[1] = 0)
      /\ \A i, k \in 1..Len(w) : i < k => off[i] + 1 < off[k] + 1
  BY <1>1, <1>2 DEF FinishedAs
<1>4. \A i \in 1..Len(w) :
          /\ off[i] + 1 \in 1..Len(F) /\ F[off[i] + 1].pieces = w[i].pieces
          /\ F[off[i] + 1].calls = w[i].calls /\ F[off[i] + 1].results = Fixed(w[i].results)
          /\ w[i].calls \ answered_call_ids(w) # {} =>
                off[i] + 2 \in 1..Len(F) /\ F[off[i] + 2].results = Fixed(Answer(w, i).results)
  BY <1>1, <1>2 DEF FinishedAs
<1>5. \A p \in 1..Len(F) :
          \/ \E i \in 1..Len(w) : p = off[i] + 1
          \/ F[p].calls = {} /\ \E i \in 1..Len(w) :
                p = off[i] + 2 /\ F[p].results = Fixed(Answer(w, i).results)
          \/ F[p].calls = {} /\ F[p].results = {}
  BY <1>1, <1>2, Zenon DEF FinishedAs
<1>6. \A i \in 1..Len(w) : w[i].results \in SUBSET Result
  <2>1. \A i \in 1..Len(w) : w[i] \in Message
    OBVIOUS
  <2> QED
    BY <2>1, MessageParts
<1>7. ASSUME NEW i \in 1..Len(w)
      PROVE  /\ \A c : (\E r \in Fixed(Answer(w, i).results) : r.call = c) <=> c \in w[i].calls \ answered_call_ids(w)
  <2>1. /\ Answer(w, i).results \in SUBSET Result
        /\ {r.call : r \in Answer(w, i).results} = w[i].calls \ answered_call_ids(w)
    BY AnswerParts, Zenon
  <2>2. {r.call : r \in Fixed(Answer(w, i).results)} = w[i].calls \ answered_call_ids(w)
    BY <2>1, FixedCalls
  <2>3. PICK x : x = Fixed(Answer(w, i).results)
    OBVIOUS
  <2>4. {r.call : r \in x} = w[i].calls \ answered_call_ids(w)
    BY <2>2, <2>3
  <2>5. \A c : (\E r \in x : r.call = c) <=> c \in {r.call : r \in x}
    OBVIOUS
  <2>6. \A c : (\E r \in x : r.call = c) <=> c \in w[i].calls \ answered_call_ids(w)
    BY <2>4, <2>5
  <2> QED
    BY <2>3, <2>6
<1>8. ASSUME NEW i \in 1..Len(w)
      PROVE  /\ \A c : (\E r \in F[off[i] + 1].results : r.call = c) <=> (\E r \in w[i].results : r.call = c)
             /\ \A c \in w[i].calls : Unheard(w, c) =>
                   off[i] + 2 \in 1..Len(F) /\ \E r \in F[off[i] + 2].results : r.call = c
  <2>1. \A c : (\E r \in F[off[i] + 1].results : r.call = c) <=> (\E r \in w[i].results : r.call = c)
    <3>1. F[off[i] + 1].results = Fixed(w[i].results) /\ w[i].results \in SUBSET Result
      BY <1>4, <1>6
    <3>2. PICK x : x = w[i].results
      OBVIOUS
    <3>3. x \in SUBSET Result /\ F[off[i] + 1].results = Fixed(x)
      BY <3>1, <3>2
    <3>4. ASSUME NEW c PROVE (\E r \in Fixed(x) : r.call = c) <=> (\E r \in x : r.call = c)
      BY <3>3, FixedIs, Zenon
    <3>5. PICK y : y = F[off[i] + 1].results
      OBVIOUS
    <3>6. \A c : (\E r \in y : r.call = c) <=> (\E r \in x : r.call = c)
      BY <3>3, <3>4, <3>5
    <3> QED
      BY <3>2, <3>5, <3>6
  <2>2. ASSUME NEW c \in w[i].calls, Unheard(w, c)
        PROVE  off[i] + 2 \in 1..Len(F) /\ \E r \in F[off[i] + 2].results : r.call = c
    <3>1. c \notin answered_call_ids(w)
      <4>1. DOMAIN w = 1..Len(w)
        OBVIOUS
      <4> QED
        BY <2>2, <4>1 DEF answered_call_ids, Unheard
    <3>2. c \in w[i].calls \ answered_call_ids(w)
      BY <2>2, <3>1
    <3>3. off[i] + 2 \in 1..Len(F) /\ F[off[i] + 2].results = Fixed(Answer(w, i).results)
      BY <3>2, <1>4
    <3> QED
      BY <3>2, <3>3, <1>7
  <2> QED
    BY <2>1, <2>2
<1>9. ASSUME NEW p \in 1..Len(F)
      PROVE  \/ \E i \in 1..Len(w) : p = off[i] + 1
             \/ F[p].calls = {} /\ \E i \in 1..Len(w) :
                   p = off[i] + 2 /\ \A r \in F[p].results : r.call \in w[i].calls /\ Unheard(w, r.call)
             \/ F[p].calls = {} /\ F[p].results = {}
  <2>1. ASSUME NEW i \in 1..Len(w), F[p].results = Fixed(Answer(w, i).results)
        PROVE  \A r \in F[p].results : r.call \in w[i].calls /\ Unheard(w, r.call)
    <3>1. \A r \in F[p].results : r.call \in w[i].calls /\ r.call \notin answered_call_ids(w)
      BY <2>1, <1>7
    <3>2. DOMAIN w = 1..Len(w)
      OBVIOUS
    <3> QED
      BY <3>1, <3>2 DEF answered_call_ids, Unheard
  <2> QED
    BY <2>1, <1>5, Zenon
<1>a. FinishedParts(F, w, off)
  BY <1>3, <1>4, <1>8, <1>9 DEF FinishedParts
<1> QED
  BY <1>2, <1>a

-----------------------------------------------------------------------------
\* Every call is answered behind it; a result is behind its call, here or in old.
Closed(d, old) ==
    /\ \A i \in 1..Len(d) : \A c \in d[i].calls : Answered(d, i, c)
    /\ \A i \in 1..Len(d) : \A r \in d[i].results : r.call \in old \/ Backed(d, i, r.call)

LEMMA FinishCloses ==
  ASSUME NEW w \in Seq(Message), stopped.text \in Seq(Nat), NEW old,
         \A i \in 1..Len(w) : \A c \in w[i].calls : Answered(w, i, c) \/ Unheard(w, c),
         \A i \in 1..Len(w) : \A r \in w[i].results : r.call \in old \/ Backed(w, i, r.call)
  PROVE  Closed(Finished(w), old)
<1>1. PICK off : FinishedParts(Finished(w), w, off)
  BY FinishedHas
<1>2. PICK F : F = Finished(w)
  OBVIOUS
<1>3. /\ \A i \in 1..Len(w) :
          /\ off[i] + 1 \in 1..Len(F) /\ F[off[i] + 1].calls = w[i].calls
          /\ \A c : (\E r \in F[off[i] + 1].results : r.call = c) <=> (\E r \in w[i].results : r.call = c)
          /\ \A c \in w[i].calls : Unheard(w, c) =>
                off[i] + 2 \in 1..Len(F) /\ \E r \in F[off[i] + 2].results : r.call = c
      /\ \A i, k \in 1..Len(w) : i < k => off[i] + 1 < off[k] + 1
      /\ \A i \in 1..Len(w) : off[i] \in Nat
  <2>1. FinishedParts(F, w, off)
    BY <1>1, <1>2
  <2>2. /\ off \in [1..Len(w) -> Nat]
        /\ \A i, k \in 1..Len(w) : i < k => off[i] + 1 < off[k] + 1
    BY ONLY <2>1, Zenon DEF FinishedParts
  <2>3. \A i \in 1..Len(w) :
          /\ off[i] + 1 \in 1..Len(F) /\ F[off[i] + 1].calls = w[i].calls
          /\ \A c : (\E r \in F[off[i] + 1].results : r.call = c) <=> (\E r \in w[i].results : r.call = c)
          /\ \A c \in w[i].calls : Unheard(w, c) =>
                off[i] + 2 \in 1..Len(F) /\ \E r \in F[off[i] + 2].results : r.call = c
    BY ONLY <2>1, Zenon DEF FinishedParts
  <2> QED
    BY <2>2, <2>3
<1>4. \A p \in 1..Len(F) :
          \/ \E i \in 1..Len(w) : p = off[i] + 1
          \/ F[p].calls = {} /\ \E i \in 1..Len(w) :
                p = off[i] + 2 /\ \A r \in F[p].results : r.call \in w[i].calls
          \/ F[p].calls = {} /\ F[p].results = {}
  BY <1>1, <1>2, Zenon DEF FinishedParts
<1>5. ASSUME NEW p \in 1..Len(F), NEW c \in F[p].calls PROVE Answered(F, p, c)
  <2>1. PICK i \in 1..Len(w) : p = off[i] + 1
    BY <1>4, <1>5
  <2>2. c \in w[i].calls
    BY <2>1, <1>3, <1>5
  <2>3. CASE Answered(w, i, c)
    <3>1. PICK j \in 1..Len(w) : i < j /\ \E r \in w[j].results : r.call = c
      BY <2>3 DEF Answered
    <3>2. off[j] + 1 \in 1..Len(F) /\ p < off[j] + 1 /\ \E r \in F[off[j] + 1].results : r.call = c
      BY <2>1, <3>1, <1>3
    <3> QED
      BY <3>2 DEF Answered
  <2>4. CASE Unheard(w, c)
    <3>1. off[i] + 2 \in 1..Len(F) /\ \E r \in F[off[i] + 2].results : r.call = c
      BY <2>2, <2>4, <1>3
    <3>2. p < off[i] + 2
      BY <2>1, <1>3
    <3> QED
      BY <3>1, <3>2 DEF Answered
  <2> QED
    BY <2>2, <2>3, <2>4
<1>6. ASSUME NEW p \in 1..Len(F), NEW r \in F[p].results PROVE r.call \in old \/ Backed(F, p, r.call)
  <2>1. ASSUME NEW i \in 1..Len(w), p = off[i] + 1 PROVE r.call \in old \/ Backed(F, p, r.call)
    <3>1. PICK q \in w[i].results : q.call = r.call
      BY <2>1, <1>3, <1>6
    <3>2. CASE Backed(w, i, r.call)
      <4>1. PICK j \in 1..Len(w) : j < i /\ r.call \in w[j].calls
        BY <3>2 DEF Backed
      <4>2. off[j] + 1 \in 1..Len(F) /\ off[j] + 1 < p /\ r.call \in F[off[j] + 1].calls
        BY <2>1, <4>1, <1>3
      <4> QED
        BY <4>2 DEF Backed
    <3>3. r.call \in old \/ Backed(w, i, r.call)
      <4>1. q.call \in old \/ Backed(w, i, q.call)
        BY <3>1
      <4> QED
        BY <3>1, <4>1
    <3> QED
      BY <3>2, <3>3
  <2>2. ASSUME NEW i \in 1..Len(w), p = off[i] + 2, \A x \in F[p].results : x.call \in w[i].calls
        PROVE  Backed(F, p, r.call)
    <3>1. r.call \in F[off[i] + 1].calls /\ off[i] + 1 \in 1..Len(F)
      BY <2>2, <1>3, <1>6
    <3>2. off[i] + 1 < p
      BY <2>2, <1>3
    <3> QED
      BY <3>1, <3>2 DEF Backed
  <2> QED
    BY <2>1, <2>2, <1>4, <1>6
<1> QED
  BY <1>2, <1>5, <1>6 DEF Closed

LEMMA FinishGiven ==
  ASSUME NEW w \in Seq(Message), stopped.text \in Seq(Nat), NEW n, Given(w, n)
  PROVE  Given(Finished(w), n)
<1>1. PICK off : FinishedParts(Finished(w), w, off)
  BY FinishedHas
<1>2. PICK F : F = Finished(w)
  OBVIOUS
<1>3. \A i \in 1..Len(w) :
          /\ F[off[i] + 1].calls = w[i].calls
          /\ \A c : (\E r \in F[off[i] + 1].results : r.call = c) <=> (\E r \in w[i].results : r.call = c)
  <2>1. FinishedParts(F, w, off)
    BY <1>1, <1>2
  <2>2. \A i \in 1..Len(w) : F[off[i] + 1].calls = w[i].calls
    BY ONLY <2>1, Zenon DEF FinishedParts
  <2>3. \A i \in 1..Len(w) :
           \A c : (\E r \in F[off[i] + 1].results : r.call = c) <=> (\E r \in w[i].results : r.call = c)
    BY ONLY <2>1, Zenon DEF FinishedParts
  <2> QED
    BY <2>2, <2>3
<1>4. \A p \in 1..Len(F) :
          \/ \E i \in 1..Len(w) : p = off[i] + 1
          \/ F[p].calls = {} /\ \E i \in 1..Len(w) :
                p = off[i] + 2 /\ \A r \in F[p].results : r.call \in w[i].calls
          \/ F[p].calls = {} /\ F[p].results = {}
  BY <1>1, <1>2, Zenon DEF FinishedParts
<1>5. ASSUME NEW p \in 1..Len(F) PROVE F[p].calls \subseteq 1..n
  <2>1. ASSUME NEW i \in 1..Len(w), p = off[i] + 1 PROVE F[p].calls \subseteq 1..n
    BY <2>1, <1>3 DEF Given
  <2> QED
    BY <2>1, <1>4
<1>6. ASSUME NEW p \in 1..Len(F), NEW r \in F[p].results PROVE r.call \in 1..n
  <2>1. ASSUME NEW i \in 1..Len(w), p = off[i] + 1 PROVE r.call \in 1..n
    <3>1. PICK q \in w[i].results : q.call = r.call
      BY <2>1, <1>3, <1>6
    <3> QED
      BY <3>1 DEF Given
  <2>2. ASSUME NEW i \in 1..Len(w), \A x \in F[p].results : x.call \in w[i].calls PROVE r.call \in 1..n
    BY <2>2, <1>6 DEF Given
  <2> QED
    BY <2>1, <2>2, <1>4, <1>6
<1> QED
  BY <1>2, <1>5, <1>6 DEF Given

\* Recovery's delta uses no call id that was not given out.
LEMMA DeltaGiven ==
  ASSUME NEW stored, stopped.history \in Seq(Message), stopped.text \in Seq(Nat), RecordsTyped,
         prompt \in Prompted, NEW n, Given(stopped.history, n), recorded \subseteq 1..n
  PROVE  Given(turn_delta(stored), n)
<1>0. PICK h : h = stopped.history
  OBVIOUS
<1>1. PICK w, delta, a, s :
            /\ turn_delta(stored) = Finished(w)
            /\ DeltaFrom(delta, h, a)
            /\ Whole(w, delta, missing_tool_calls(delta), s)
  BY <1>0, WholeIs
<1>2. delta \in Seq(Message) /\ w \in Seq(Message)
  BY <1>1 DEF DeltaFrom, Whole
<1>3. missing_tool_calls(delta) \subseteq 1..n
  BY <1>2, MissingIs
<1>4. \A k \in 1..Len(delta) :
         delta[k].calls \subseteq 1..n /\ \A r \in delta[k].results : r.call \in 1..n
  BY <1>0, <1>1 DEF DeltaFrom, Given
<1>5. \A i \in 1..Len(w) : \/ i - s \in 1..Len(delta) /\ w[i] = delta[i - s]
                           \/ w[i].results = {} /\ w[i].calls \subseteq missing_tool_calls(delta)
  BY <1>1 DEF Whole
<1>6. Given(w, n)
  BY <1>3, <1>4, <1>5 DEF Given
<1> QED
  BY <1>1, <1>2, <1>6, FinishGiven

\* Recovery's delta answers every call it holds, whatever the history holds.
LEMMA DeltaClosed ==
  ASSUME NEW stored, stopped.history \in Seq(Message), stopped.text \in Seq(Nat), RecordsTyped,
         prompt \in Prompted, NEW own, NEW old,
         stopped.history = <<>> \/ \E p : Tells(stopped.history, p, own, old)
  PROVE  Closed(turn_delta(stored), old)
<1>0. PICK h : h = stopped.history
  OBVIOUS
<1>1. PICK w, delta, a, s :
            /\ turn_delta(stored) = Finished(w)
            /\ DeltaFrom(delta, h, a)
            /\ Whole(w, delta, missing_tool_calls(delta), s)
  BY <1>0, WholeIs
<1>2. PICK missing : missing = missing_tool_calls(delta)
  OBVIOUS
<1>3. /\ delta \in Seq(Message) /\ w \in Seq(Message) /\ s \in Nat
      /\ \A k \in 1..Len(delta) : s + k \in 1..Len(w) /\ w[s + k] = delta[k]
      /\ \A i \in 1..Len(w) : \/ i - s \in 1..Len(delta) /\ w[i] = delta[i - s]
                              \/ w[i].results = {} /\ w[i].calls \subseteq missing
  BY <1>1, <1>2 DEF DeltaFrom, Whole
<1>4. /\ Len(delta) # 0 => /\ a \in 1..Len(h) /\ Len(delta) = Len(h) - a + 1 /\ h[a].pieces # <<>>
      /\ \A k \in 1..Len(delta) :
            /\ a + k - 1 \in 1..Len(h) /\ delta[k].calls = h[a + k - 1].calls
            /\ delta[k].results \subseteq h[a + k - 1].results
            /\ k # 1 => delta[k].results = h[a + k - 1].results
  BY <1>1 DEF DeltaFrom
<1>5. Len(h) \in Nat /\ Len(delta) \in Nat /\ (h = <<>> => Len(delta) = 0)
  <2>1. Len(h) \in Nat /\ Len(delta) \in Nat /\ (h = <<>> => Len(h) = 0)
    BY <1>0, <1>3
  <2> QED
    BY <2>1, <1>4
\* What no result of the history answers, none of the whole does.
<1>6. ASSUME NEW c, \A k \in 1..Len(delta) : \A r \in delta[k].results : r.call # c PROVE Unheard(w, c)
  BY <1>6, <1>3 DEF Unheard
<1>7. ASSUME NEW i \in 1..Len(w), NEW c \in w[i].calls PROVE Answered(w, i, c) \/ Unheard(w, c)
  <2>1. CASE i - s \in 1..Len(delta) /\ w[i] = delta[i - s]
    <3>1. PICK k : k = i - s
      OBVIOUS
    <3>2. k \in 1..Len(delta) /\ i = s + k /\ c \in delta[k].calls
      BY <2>1, <3>1, <1>3, <1>7
    <3>3. PICK q : q = a + k - 1
      OBVIOUS
    <3>4. q \in 1..Len(h) /\ c \in h[q].calls
      BY <3>2, <3>3, <1>4
    <3>5. PICK p : Tells(h, p, own, old)
      BY <3>2, <1>0, <1>5
    <3>6. Answered(h, q, c) \/ Unheard(h, c)
      BY <3>4, <3>5 DEF Tells, Ordered
    <3>7. CASE Answered(h, q, c)
      <4>1. PICK j \in 1..Len(h) : q < j /\ \E r \in h[j].results : r.call = c
        BY <3>7 DEF Answered
      <4>2. PICK l : l = j - a + 1
        OBVIOUS
      <4>3. a \in 1..Len(h) /\ Len(delta) = Len(h) - a + 1
        BY <3>2, <1>4, <1>5
      <4>4. l \in 1..Len(delta) /\ l # 1 /\ a + l - 1 = j /\ k < l
        BY <4>1, <4>2, <4>3, <3>2, <3>3, <1>5
      <4>5. delta[l].results = h[j].results
        BY <4>4, <1>4
      <4>6. s + l \in 1..Len(w) /\ i < s + l /\ w[s + l] = delta[l]
        BY <4>4, <3>2, <1>3
      <4> QED
        BY <4>1, <4>5, <4>6 DEF Answered
    <3>8. CASE Unheard(h, c)
      <4>1. \A x \in 1..Len(delta) : \A r \in delta[x].results : r.call # c
        BY <3>8, <1>4 DEF Unheard
      <4> QED
        BY <4>1, <1>6
    <3> QED
      BY <3>6, <3>7, <3>8
  <2>2. CASE w[i].calls \subseteq missing
    <3>1. c \in missing_tool_calls(delta)
      BY <2>2, <1>2, <1>7
    <3>2. Unheard(delta, c)
      BY <3>1, <1>3, MissingIs
    <3> QED
      BY <3>2, <1>6 DEF Unheard
  <2> QED
    BY <2>1, <2>2, <1>3
<1>8. ASSUME NEW i \in 1..Len(w), NEW r \in w[i].results PROVE r.call \in old \/ Backed(w, i, r.call)
  <2>1. i - s \in 1..Len(delta) /\ w[i] = delta[i - s]
    BY <1>3, <1>8
  <2>2. PICK k : k = i - s
    OBVIOUS
  <2>3. k \in 1..Len(delta) /\ i = s + k /\ r \in delta[k].results
    BY <2>1, <2>2, <1>3, <1>8
  <2>4. PICK q : q = a + k - 1
    OBVIOUS
  <2>5. q \in 1..Len(h) /\ r \in h[q].results
    BY <2>3, <2>4, <1>4
  <2>6. PICK p : Tells(h, p, own, old)
    BY <2>3, <1>0, <1>5
  <2>7. Backed(h, q, r.call)
    BY <2>5, <2>6 DEF Tells, Ordered
  <2>8. PICK j \in 1..Len(h) : j < q /\ r.call \in h[j].calls
    BY <2>7 DEF Backed
  <2>9. a \in 1..Len(h) /\ Len(delta) = Len(h) - a + 1 /\ h[a].pieces # <<>>
    BY <2>3, <1>4, <1>5
  <2>a. CASE a <= j
    <3>1. PICK l : l = j - a + 1
      OBVIOUS
    <3>2. l \in 1..Len(delta) /\ a + l - 1 = j /\ l < k
      BY <2>3, <2>4, <2>8, <2>9, <2>a, <3>1, <1>5
    <3>3. delta[l].calls = h[j].calls
      BY <3>2, <1>4
    <3>4. s + l \in 1..Len(w) /\ s + l < i /\ w[s + l] = delta[l]
      BY <3>2, <2>3, <1>3
    <3> QED
      BY <2>8, <3>3, <3>4 DEF Backed
  <2>b. CASE j < a
    <3>1. p \in 1..Len(h) /\ ~(p < a)
      BY <2>6, <2>9 DEF Tells, WorkFrom
    <3>2. j < p
      BY <2>b, <2>9, <3>1, <1>5
    <3> QED
      BY <2>6, <2>8, <3>2 DEF Tells
  <2> QED
    BY <2>9, <2>a, <2>b, <1>5
<1> QED
  BY <1>1, <1>3, <1>7, <1>8, FinishCloses

-----------------------------------------------------------------------------
own_calls == call_ids(run.committed)
old_calls == call_ids(run.base)
Running == {"ready", "calling", "tools", "saving", "saved"}

(* The inductive invariant of what the log and the attempt's histories hold. *)
GivenInv ==
    /\ Given(Msgs(log), made.call) /\ Given(run.base, made.call) /\ Given(run.committed, made.call)
    /\ Given(snapshot, made.call) /\ Given(stopped.history, made.call) /\ Given(loaded.delta, made.call)
OwnInv ==
    /\ recorded \subseteq own_calls /\ run.open \subseteq own_calls
    /\ old_calls \subseteq call_ids(Msgs(log))
    /\ phase \in {"ready", "calling", "saving"} => run.open = {}
    /\ phase = "open" => snapshot = <<>> /\ records = <<>>
RunInv ==
    phase \in Running =>
       /\ Tells(chat_history, Len(run.base) + 1, own_calls, old_calls)
       /\ \A i \in 1..Len(chat_history) : \A c \in chat_history[i].calls :
             Answered(chat_history, i, c) \/ c \in run.open
ReportInv ==
    /\ snapshot = <<>> \/ \E p : Tells(snapshot, p, own_calls, old_calls)
    /\ phase = "recover" =>
          stopped.history = <<>> \/ \E p : Tells(stopped.history, p, own_calls, old_calls)
DeltaInv == DeltaKeepsWork /\ (phase = "extend" => Closed(loaded.delta, call_ids(Msgs(log))))
WorkInv == GivenInv /\ OwnInv /\ RunInv /\ ReportInv /\ DeltaInv /\ Closed(Msgs(log), {})

LEMMA CallIdsIs ==
  ASSUME NEW h \in Seq(Message)
  PROVE  \A c : c \in call_ids(h) <=> \E i \in 1..Len(h) : c \in h[i].calls
<1>1. DOMAIN h = 1..Len(h)
  OBVIOUS
<1> QED
  BY <1>1 DEF call_ids

LEMMA GivenUnheard ==
  ASSUME NEW h, NEW n, Given(h, n), NEW c, c \notin 1..n PROVE Unheard(h, c)
  BY DEF Given, Unheard

LEMMA GivenMore ==
  ASSUME NEW h, NEW n \in Nat, NEW k \in Nat, n <= k, Given(h, n) PROVE Given(h, k)
<1>1. 1..n \subseteq 1..k
  OBVIOUS
<1> QED
  BY <1>1 DEF Given

LEMMA NothingGiven == \A n : Given(<<>>, n)
  BY DEF Given

\* c is a and then b.
Joined(c, a, b) ==
    /\ c \in Seq(Message) /\ Len(c) = Len(a) + Len(b)
    /\ \A i \in 1..Len(a) : i \in 1..Len(c) /\ c[i] = a[i]
    /\ \A i \in 1..Len(b) : Len(a) + i \in 1..Len(c) /\ c[Len(a) + i] = b[i]
    /\ \A i \in 1..Len(c) : i \in 1..Len(a) \/ (i - Len(a) \in 1..Len(b) /\ c[i] = b[i - Len(a)])

LEMMA ConcatJoined ==
  ASSUME NEW a \in Seq(Message), NEW b \in Seq(Message) PROVE Joined(a \o b, a, b)
<1>1. PICK c : c = a \o b
  OBVIOUS
<1>2. /\ c \in Seq(Message) /\ Len(c) = Len(a) + Len(b)
      /\ \A i \in 1..Len(a) : c[i] = a[i]
      /\ \A i \in 1..Len(b) : c[Len(a) + i] = b[i]
  BY ONLY <1>1, a \in Seq(Message), b \in Seq(Message), Concat
<1>3. Len(a) \in Nat /\ Len(b) \in Nat
  OBVIOUS
<1>4. ASSUME NEW i \in 1..Len(c)
      PROVE  i \in 1..Len(a) \/ (i - Len(a) \in 1..Len(b) /\ c[i] = b[i - Len(a)])
  <2>1. PICK k : k = i - Len(a)
    OBVIOUS
  <2>2. CASE i \notin 1..Len(a)
    <3>1. k \in 1..Len(b) /\ Len(a) + k = i
      BY <2>1, <2>2, <1>2, <1>3
    <3> QED
      BY <2>1, <3>1, <1>2
  <2> QED
    BY <2>2
<1>5. \A i \in 1..Len(a) : i \in 1..Len(c)
  BY <1>2, <1>3
<1>6. \A i \in 1..Len(b) : Len(a) + i \in 1..Len(c)
  BY <1>2, <1>3
<1> QED
  BY <1>1, <1>2, <1>4, <1>5, <1>6 DEF Joined

LEMMA GivenJoined ==
  ASSUME NEW a, NEW b, NEW c, Joined(c, a, b), NEW n, Given(a, n), Given(b, n) PROVE Given(c, n)
  BY DEF Joined, Given

LEMMA CallsJoined ==
  ASSUME NEW a \in Seq(Message), NEW b \in Seq(Message), NEW c, Joined(c, a, b)
  PROVE  call_ids(a) \subseteq call_ids(c)
<1>1. c \in Seq(Message) /\ \A i \in 1..Len(a) : i \in 1..Len(c) /\ c[i] = a[i]
  BY DEF Joined
<1> QED
  BY <1>1, CallIdsIs

LEMMA ClosedJoined ==
  ASSUME NEW a \in Seq(Message), NEW b \in Seq(Message), NEW c, Joined(c, a, b), Closed(a, {}),
         Closed(b, call_ids(a))
  PROVE  Closed(c, {})
<1>0. Len(a) \in Nat /\ Len(b) \in Nat /\ Len(c) = Len(a) + Len(b)
  BY DEF Joined
<1>1. ASSUME NEW i \in 1..Len(c), NEW x \in c[i].calls PROVE Answered(c, i, x)
  <2>1. CASE i \in 1..Len(a)
    <3>1. x \in a[i].calls
      BY <2>1, <1>1 DEF Joined
    <3>2. Answered(a, i, x)
      BY <2>1, <3>1 DEF Closed
    <3> QED
      BY <3>2 DEF Answered, Joined
  <2>2. CASE i - Len(a) \in 1..Len(b) /\ c[i] = b[i - Len(a)]
    <3>1. PICK k : k = i - Len(a)
      OBVIOUS
    <3>2. k \in 1..Len(b) /\ Len(a) + k = i /\ x \in b[k].calls
      BY <2>2, <3>1, <1>0, <1>1
    <3>3. PICK j \in 1..Len(b) : k < j /\ \E r \in b[j].results : r.call = x
      BY <3>2 DEF Closed, Answered
    <3>4. Len(a) + j \in 1..Len(c) /\ c[Len(a) + j] = b[j] /\ i < Len(a) + j
      BY <3>2, <3>3, <1>0 DEF Joined
    <3> QED
      BY <3>3, <3>4 DEF Answered
  <2> QED
    BY <2>1, <2>2 DEF Joined
<1>2. ASSUME NEW i \in 1..Len(c), NEW r \in c[i].results PROVE Backed(c, i, r.call)
  <2>1. CASE i \in 1..Len(a)
    <3>1. r \in a[i].results
      BY <2>1, <1>2 DEF Joined
    <3>2. Backed(a, i, r.call)
      BY <2>1, <3>1 DEF Closed
    <3> QED
      BY <3>2 DEF Backed, Joined
  <2>2. CASE i - Len(a) \in 1..Len(b) /\ c[i] = b[i - Len(a)]
    <3>1. PICK k : k = i - Len(a)
      OBVIOUS
    <3>2. k \in 1..Len(b) /\ Len(a) + k = i /\ r \in b[k].results
      BY <2>2, <3>1, <1>0, <1>2
    <3>3. CASE r.call \in call_ids(a)
      <4>1. PICK j \in 1..Len(a) : r.call \in a[j].calls
        BY <3>3, CallIdsIs
      <4>2. j < i
        BY <3>2, <1>0
      <4> QED
        BY <4>1, <4>2 DEF Backed, Joined
    <3>4. CASE Backed(b, k, r.call)
      <4>1. PICK j \in 1..Len(b) : j < k /\ r.call \in b[j].calls
        BY <3>4 DEF Backed
      <4>2. Len(a) + j \in 1..Len(c) /\ c[Len(a) + j] = b[j] /\ Len(a) + j < i
        BY <3>2, <4>1, <1>0 DEF Joined
      <4> QED
        BY <4>1, <4>2 DEF Backed
    <3> QED
      BY <3>2, <3>3, <3>4 DEF Closed
  <2> QED
    BY <2>1, <2>2 DEF Joined
<1> QED
  BY <1>1, <1>2 DEF Closed

\* What follows a base, when the two together answer every call.
LEMMA ClosedTail ==
  ASSUME NEW a \in Seq(Message), NEW b \in Seq(Message), NEW c, Joined(c, a, b), Ordered(c),
         \A i \in 1..Len(c) : \A x \in c[i].calls : Answered(c, i, x)
  PROVE  Closed(b, call_ids(a))
<1>0. Len(a) \in Nat /\ Len(b) \in Nat /\ Len(c) = Len(a) + Len(b)
  BY DEF Joined
<1>1. ASSUME NEW k \in 1..Len(b), NEW x \in b[k].calls PROVE Answered(b, k, x)
  <2>1. Len(a) + k \in 1..Len(c) /\ x \in c[Len(a) + k].calls
    BY <1>1 DEF Joined
  <2>2. PICK j \in 1..Len(c) : Len(a) + k < j /\ \E r \in c[j].results : r.call = x
    BY <2>1 DEF Answered
  <2>3. j \notin 1..Len(a)
    BY <2>2, <1>0
  <2>4. PICK l : l = j - Len(a)
    OBVIOUS
  <2>5. l \in 1..Len(b) /\ c[j] = b[l] /\ k < l
    BY <2>2, <2>3, <2>4, <1>0 DEF Joined
  <2> QED
    BY <2>2, <2>5 DEF Answered
<1>2. ASSUME NEW k \in 1..Len(b), NEW r \in b[k].results PROVE r.call \in call_ids(a) \/ Backed(b, k, r.call)
  <2>1. Len(a) + k \in 1..Len(c) /\ r \in c[Len(a) + k].results
    BY <1>2 DEF Joined
  <2>2. Backed(c, Len(a) + k, r.call)
    BY <2>1 DEF Ordered
  <2>3. PICK j \in 1..Len(c) : j < Len(a) + k /\ r.call \in c[j].calls
    BY <2>2 DEF Backed
  <2>4. CASE j \in 1..Len(a)
    <3>1. r.call \in a[j].calls
      BY <2>3, <2>4 DEF Joined
    <3> QED
      BY <2>4, <3>1, CallIdsIs
  <2>5. CASE j \notin 1..Len(a)
    <3>1. PICK l : l = j - Len(a)
      OBVIOUS
    <3>2. l \in 1..Len(b) /\ c[j] = b[l] /\ l < k
      BY <2>3, <2>5, <3>1, <1>0 DEF Joined
    <3> QED
      BY <2>3, <3>2 DEF Backed
  <2> QED
    BY <2>4, <2>5
<1> QED
  BY <1>1, <1>2 DEF Closed

LEMMA ClosedMore ==
  ASSUME NEW d, NEW old, NEW more, Closed(d, old), old \subseteq more PROVE Closed(d, more)
  BY DEF Closed

LEMMA ClosedOrdered == \A h : Closed(h, {}) => Ordered(h)
  BY DEF Closed, Ordered

LEMMA MsgsOf ==
  ASSUME NEW e \in Seq(Entry)
  PROVE  /\ Msgs(e) \in Seq(Message) /\ Len(Msgs(e)) = Len(e)
         /\ \A i \in 1..Len(e) : Msgs(e)[i] = e[i].msg
<1>1. DOMAIN e = 1..Len(e) /\ Len(e) \in Nat /\ \A i \in 1..Len(e) : e[i] \in Entry
  OBVIOUS
<1>2. \A i \in 1..Len(e) : e[i].msg \in Message
  BY <1>1 DEF Entry
<1>3. PICK m : m = [i \in 1..Len(e) |-> e[i].msg]
  OBVIOUS
<1>4. m \in Seq(Message) /\ Len(m) = Len(e) /\ \A i \in 1..Len(e) : m[i] = e[i].msg
  BY <1>1, <1>2, <1>3
<1>5. m = Msgs(e)
  BY <1>1, <1>3 DEF Msgs
<1> QED
  BY <1>4, <1>5

\* The log after a write.
LEMMA WrittenMsgs ==
  ASSUME LogTypes, NEW writer \in 0..turn, NEW msgs \in Seq(Message), Write(writer, msgs)
  PROVE  Joined(Msgs(log'), Msgs(log), msgs) /\ made'.call = made.call
<1>1. writer \in Nat
  BY TypesOf, TurnLogAssumption DEF KeptTypes
<1>2. Written(writer, msgs)
  BY <1>1, TypesOf, WriteIs
<1>3. PICK a, c : a = Msgs(log) /\ c = Msgs(log')
  OBVIOUS
<1>4. a \in Seq(Message) /\ Len(a) = Len(log) /\ \A i \in 1..Len(log) : a[i] = log[i].msg
  BY <1>3, TypesOf, MsgsTyped
<1>5. c \in Seq(Message) /\ Len(c) = Len(log') /\ \A i \in 1..Len(log') : c[i] = log'[i].msg
  <2>1. PICK e : e = log'
    OBVIOUS
  <2>2. e \in Seq(Entry) /\ c = Msgs(e)
    BY <2>1, <1>2, <1>3 DEF Written
  <2> QED
    BY <2>1, <2>2, MsgsOf
<1>6. Len(a) \in Nat /\ Len(msgs) \in Nat /\ Len(c) = Len(a) + Len(msgs)
  BY <1>2, <1>4, <1>5 DEF Written
<1>7. ASSUME NEW i \in 1..Len(a) PROVE i \in 1..Len(c) /\ c[i] = a[i]
  <2>1. i \in 1..Len(log) /\ i \in 1..Len(c) /\ i \in 1..Len(log')
    BY <1>4, <1>5, <1>6
  <2>2. log'[i] = log[i]
    BY <2>1, <1>2 DEF Written
  <2> QED
    BY <2>1, <2>2, <1>4, <1>5
<1>8. ASSUME NEW i \in 1..Len(msgs) PROVE Len(a) + i \in 1..Len(c) /\ c[Len(a) + i] = msgs[i]
  <2>1. Len(a) + i \in 1..Len(c)
    BY <1>6
  <2>2. log'[Len(log) + i] = [key |-> made.key + i, by |-> writer, msg |-> msgs[i]]
    BY <1>2 DEF Written
  <2>3. log'[Len(log) + i].msg = msgs[i]
    BY <2>2
  <2> QED
    BY <2>1, <2>3, <1>4, <1>5
<1>9. ASSUME NEW i \in 1..Len(c)
      PROVE  i \in 1..Len(a) \/ (i - Len(a) \in 1..Len(msgs) /\ c[i] = msgs[i - Len(a)])
  <2>1. CASE i \notin 1..Len(a)
    <3>1. PICK k : k = i - Len(a)
      OBVIOUS
    <3>2. k \in 1..Len(msgs) /\ Len(a) + k = i
      BY <2>1, <3>1, <1>6
    <3> QED
      BY <3>1, <3>2, <1>8
  <2> QED
    BY <2>1
<1>a. Joined(c, a, msgs)
  BY <1>5, <1>6, <1>7, <1>8, <1>9 DEF Joined
<1> QED
  BY <1>2, <1>3, <1>a DEF Written

-----------------------------------------------------------------------------
LEMMA WorkParts ==
  ASSUME WorkInv PROVE GivenInv /\ OwnInv /\ RunInv /\ ReportInv /\ DeltaInv /\ Closed(Msgs(log), {})
  BY DEF WorkInv

\* What the attempt may report: nothing, or a history that tells of it.
Reported(h) == Given(h, made.call) /\ (h = <<>> \/ \E p : Tells(h, p, own_calls, old_calls))

LEMMA ChatJoined ==
  ASSUME LogTypes
  PROVE  /\ Joined(chat_history, run.base, run.committed)
         /\ run.base \in Seq(Message) /\ run.committed \in Seq(Message) /\ chat_history \in Seq(Message)
<1>1. /\ run.base \in Seq(Message) /\ run.committed \in Seq(Message) /\ chat_history \in Seq(Message)
  BY TypesOf, ChatTyped
<1>2. PICK a, b : a = run.base /\ b = run.committed
  OBVIOUS
<1>3. Joined(a \o b, a, b)
  BY <1>1, <1>2, ConcatJoined
<1> QED
  BY <1>1, <1>2, <1>3 DEF chat_history

LEMMA ChatGiven ==
  ASSUME LogTypes, GivenInv PROVE Given(chat_history, made.call)
<1>1. Given(run.base, made.call) /\ Given(run.committed, made.call)
  BY DEF GivenInv
<1> QED
  BY <1>1, ChatJoined, GivenJoined

LEMMA ChatReported ==
  ASSUME LogTypes, WorkInv, phase \in Running PROVE Reported(chat_history)
<1>1. Given(chat_history, made.call)
  BY WorkParts, ChatGiven
<1>2. \E p : Tells(chat_history, p, own_calls, old_calls)
  BY WorkParts DEF RunInv
<1> QED
  BY <1>1, <1>2 DEF Reported

LEMMA SnapshotReported ==
  ASSUME WorkInv PROVE Reported(snapshot)
  BY WorkParts DEF GivenInv, ReportInv, Reported

\* Steps that leave the log and what the run has committed alone.
LEMMA WorkQuiet ==
  ASSUME WorkInv, UNCHANGED <<log, loaded>>, made'.call = made.call,
         run'.base = run.base, run'.committed = run.committed, run'.open = run.open,
         recorded' \subseteq own_calls, Reported(snapshot'),
         stopped' = stopped \/ Reported(stopped'.history),
         phase' \in Running => phase \in Running,
         phase' \in {"ready", "calling", "saving"} => run.open = {},
         phase' \notin {"open", "extend"}, phase' = "recover" => phase = "recover" \/ Reported(stopped'.history)
  PROVE  WorkInv'
<1>1. own_calls' = own_calls /\ old_calls' = old_calls /\ chat_history' = chat_history
      /\ Msgs(log') = Msgs(log)
  BY DEF own_calls, old_calls, chat_history, call_ids
<1>2. GivenInv'
  BY <1>1, WorkParts DEF GivenInv, Reported
<1>3. OwnInv'
  BY <1>1, WorkParts DEF OwnInv
<1>4. RunInv'
  <2>1. CASE phase' \notin Running
    BY <2>1 DEF RunInv, Running
  <2>2. CASE phase' \in Running
    BY <2>2, <1>1, WorkParts DEF RunInv
  <2> QED
    BY <2>1, <2>2
<1>5. ReportInv'
  BY <1>1, WorkParts DEF ReportInv, Reported
<1>6. DeltaInv'
  BY DEF DeltaInv, DeltaKeepsWork
<1>7. Closed(Msgs(log'), {})
  BY <1>1, WorkParts
<1> QED
  BY <1>2, <1>3, <1>4, <1>5, <1>6, <1>7 DEF WorkInv

\* Nothing is left of an attempt that ended.
LEMMA WorkEnd ==
  ASSUME WorkInv, NEW next \in {"idle", "attempt"}, EndAttempt(next), UNCHANGED log,
         made'.call = made.call
  PROVE  WorkInv'
<1>1. /\ phase' = next /\ run' = NoRun /\ snapshot' = <<>> /\ records' = <<>>
      /\ stopped' = NotStopped /\ loaded' = NotLoaded
  BY DEF EndAttempt
<1>2. /\ run'.base = <<>> /\ run'.committed = <<>> /\ run'.open = {}
      /\ stopped'.history = <<>> /\ loaded'.delta = <<>>
  BY <1>1 DEF NoRun, NotStopped, NotLoaded
<1>3. GivenInv'
  BY <1>1, <1>2, WorkParts, NothingGiven DEF GivenInv
<1>4. OwnInv'
  <2>1. recorded' = {} /\ old_calls' = {}
    BY <1>1, <1>2 DEF recorded, old_calls, call_ids
  <2> QED
    BY <1>1, <1>2, <2>1 DEF OwnInv
<1>5. RunInv' /\ ReportInv' /\ DeltaInv'
  BY <1>1 DEF RunInv, ReportInv, DeltaInv, DeltaKeepsWork, Running
<1>6. Closed(Msgs(log'), {})
  BY WorkParts
<1> QED
  BY <1>3, <1>4, <1>5, <1>6 DEF WorkInv

-----------------------------------------------------------------------------
LEMMA AppendJoins ==
  ASSUME NEW a \in Seq(Message), NEW b \in Seq(Message), NEW m \in Message
  PROVE  a \o Append(b, m) = Append(a \o b, m)
  OBVIOUS

LEMMA CallsLonger ==
  ASSUME NEW h \in Seq(Message), NEW m \in Message, NEW g, Longer(g, h, m)
  PROVE  call_ids(g) = call_ids(h) \cup m.calls
<1>1. g \in Seq(Message) /\ Len(h) + 1 \in 1..Len(g) /\ g[Len(h) + 1] = m
  <2>1. Len(h) \in Nat
    OBVIOUS
  <2> QED
    BY <2>1 DEF Longer
<1>2. \A i \in 1..Len(h) : i \in 1..Len(g) /\ g[i] = h[i]
  BY DEF Longer
<1>3. \A i \in 1..Len(g) : i \in 1..Len(h) \/ i = Len(h) + 1
  BY DEF Longer
<1>4. ASSUME NEW c \in call_ids(g) PROVE c \in call_ids(h) \cup m.calls
  <2>1. PICK i \in 1..Len(g) : c \in g[i].calls
    BY <1>1, CallIdsIs
  <2> QED
    BY <2>1, <1>1, <1>2, <1>3, CallIdsIs
<1>5. ASSUME NEW c \in call_ids(h) \cup m.calls PROVE c \in call_ids(g)
  <2>1. CASE c \in call_ids(h)
    <3>1. PICK i \in 1..Len(h) : c \in h[i].calls
      BY <2>1, CallIdsIs
    <3> QED
      BY <3>1, <1>1, <1>2, CallIdsIs
  <2>2. CASE c \in m.calls
    BY <2>2, <1>1, CallIdsIs
  <2> QED
    BY <2>1, <2>2
<1> QED
  BY <1>4, <1>5

\* A message is committed behind what the run has.
LEMMA Commits ==
  ASSUME LogTypes, NEW m \in Message, run'.base = run.base, run'.committed = Append(run.committed, m)
  PROVE  /\ Longer(chat_history', chat_history, m) /\ Longer(run'.committed, run.committed, m)
         /\ own_calls' = own_calls \cup m.calls /\ old_calls' = old_calls
<1>1. /\ run.base \in Seq(Message) /\ run.committed \in Seq(Message) /\ chat_history \in Seq(Message)
  BY TypesOf, ChatTyped
<1>2. PICK a, b : a = run.base /\ b = run.committed
  OBVIOUS
<1>3. chat_history' = Append(chat_history, m)
  <2>1. chat_history' = a \o Append(b, m) /\ chat_history = a \o b
    BY <1>2 DEF chat_history
  <2>2. a \o Append(b, m) = Append(a \o b, m)
    BY <1>1, <1>2, AppendJoins
  <2> QED
    BY <2>1, <2>2
<1>4. Longer(chat_history', chat_history, m) /\ Longer(run'.committed, run.committed, m)
  BY <1>1, <1>3, AppendLonger
<1>5. own_calls' = call_ids(run'.committed) /\ old_calls' = call_ids(run'.base)
  BY DEF own_calls, old_calls, call_ids
<1>6. call_ids(run'.committed) = call_ids(run.committed) \cup m.calls
  BY <1>1, <1>4, CallsLonger
<1> QED
  BY <1>4, <1>5, <1>6 DEF own_calls, old_calls

\* A call of the attempt is behind the base.
LEMMA OwnPlace ==
  ASSUME LogTypes, NEW c \in own_calls
  PROVE  \E j \in 1..Len(chat_history) : Len(run.base) + 1 <= j /\ c \in chat_history[j].calls
<1>1. PICK i \in 1..Len(run.committed) : c \in run.committed[i].calls
  BY ChatJoined, CallIdsIs DEF own_calls
<1>2. Len(run.base) + i \in 1..Len(chat_history) /\ chat_history[Len(run.base) + i] = run.committed[i]
  BY <1>1, ChatJoined DEF Joined
<1>3. Len(run.base) + 1 <= Len(run.base) + i
  BY <1>1, ChatJoined
<1> QED
  BY <1>1, <1>2, <1>3

\* The run commits a message that answers the open calls or opens new ones.
LEMMA WorkCommit ==
  ASSUME LogTypes, WorkInv, phase \in {"calling", "tools"}, phase' \in {"ready", "tools", "saving"},
         NEW m \in Message, m.pieces = <<>>,
         run'.base = run.base, run'.committed = Append(run.committed, m), run'.open = m.calls,
         phase' = "tools" \/ m.calls = {},
         UNCHANGED <<log, snapshot, stopped, loaded, records>>,
         made'.call \in Nat, made.call <= made'.call, m.calls \subseteq (made.call + 1)..made'.call,
         \A r \in m.results : r.out \in {"settled", "placeholder"} /\ r.call \in run.open,
         \A c \in run.open : \E r \in m.results : r.call = c
  PROVE  WorkInv'
<1>0. made.call \in Nat
  BY MadeTyped
<1>1. /\ Longer(chat_history', chat_history, m) /\ Longer(run'.committed, run.committed, m)
      /\ own_calls' = own_calls \cup m.calls /\ old_calls' = old_calls
  BY Commits
<1>2. Msgs(log') = Msgs(log) /\ recorded' = recorded
  BY DEF recorded
<1>3. run.open \subseteq own_calls /\ Given(chat_history, made.call) /\ Given(snapshot, made.call)
  BY WorkParts, ChatGiven DEF OwnInv, GivenInv
<1>4. \A c \in m.calls : Unheard(chat_history, c) /\ Unheard(snapshot, c)
  BY <1>0, <1>3, GivenUnheard
<1>5. GivenInv'
  <2>1. /\ Given(Msgs(log), made'.call) /\ Given(run.base, made'.call)
        /\ Given(snapshot, made'.call) /\ Given(stopped.history, made'.call) /\ Given(loaded.delta, made'.call)
    BY <1>0, WorkParts, GivenMore DEF GivenInv
  <2>2. m.calls \subseteq 1..made'.call
    BY <1>0
  <2>3. \A r \in m.results : r.call \in 1..made'.call
    <3>1. own_calls \subseteq 1..made.call
      <4>1. Given(run.committed, made.call) /\ run.committed \in Seq(Message)
        BY WorkParts, TypesOf, ChatTyped DEF GivenInv
      <4> QED
        BY <4>1, CallIdsIs DEF own_calls, Given
    <3>2. 1..made.call \subseteq 1..made'.call
      BY <1>0
    <3> QED
      BY <3>1, <3>2, <1>3
  <2>4. Given(run'.committed, made'.call)
    <3>1. Given(run.committed, made.call)
      BY WorkParts DEF GivenInv
    <3> QED
      BY <3>1, <2>2, <2>3, <1>0, <1>1, GivenLonger
  <2> QED
    BY <2>1, <2>4, <1>2 DEF GivenInv
<1>6. OwnInv'
  BY <1>1, <1>2, WorkParts DEF OwnInv
<1>7. RunInv'
  <2>1. chat_history \in Seq(Message) /\ phase \in Running
    BY TypesOf, ChatTyped DEF Running
  <2>2. /\ Tells(chat_history, Len(run.base) + 1, own_calls, old_calls)
        /\ \A i \in 1..Len(chat_history) : \A c \in chat_history[i].calls :
             Answered(chat_history, i, c) \/ c \in run.open
    BY <2>1, WorkParts DEF RunInv
  <2>3. \A r \in m.results : /\ r.out \in {"settled", "placeholder"}
                             /\ \E j \in 1..Len(chat_history) :
                                   Len(run.base) + 1 <= j /\ r.call \in chat_history[j].calls
    BY <1>3, OwnPlace
  <2>4. \A c \in own_calls' : c \in own_calls \/ Unheard(chat_history, c)
    BY <1>1, <1>4
  <2>5. Tells(chat_history', Len(run.base) + 1, own_calls', old_calls)
    BY <1>1, <1>4, <2>2, <2>3, <2>4, TellsLonger
  <2>6. ASSUME NEW i \in 1..Len(chat_history'), NEW c \in chat_history'[i].calls
        PROVE  Answered(chat_history', i, c) \/ c \in run'.open
    <3>1. CASE i \in 1..Len(chat_history)
      <4>1. c \in chat_history[i].calls
        BY <3>1, <2>6, <1>1 DEF Longer
      <4>2. Answered(chat_history, i, c) \/ \E r \in m.results : r.call = c
        BY <3>1, <4>1, <2>2
      <4> QED
        BY <3>1, <4>2, <1>1, <2>1, AnsweredLonger
    <3>2. CASE i = Len(chat_history) + 1
      BY <3>2, <2>6, <1>1 DEF Longer
    <3> QED
      BY <3>1, <3>2, <1>1 DEF Longer
  <2> QED
    BY <1>1, <2>5, <2>6 DEF RunInv
<1>8. ReportInv'
  <2>1. snapshot = <<>> \/ \E p : Tells(snapshot, p, own_calls', old_calls)
    <3>1. \A c \in own_calls' : c \in own_calls \/ Unheard(snapshot, c)
      BY <1>1, <1>4
    <3> QED
      BY <3>1, WorkParts, TellsGrow DEF ReportInv
  <2> QED
    BY <2>1, <1>1 DEF ReportInv
<1>9. DeltaInv'
  BY DEF DeltaInv, DeltaKeepsWork
<1>a. Closed(Msgs(log'), {})
  BY <1>2, WorkParts
<1> QED
  BY <1>5, <1>6, <1>7, <1>8, <1>9, <1>a DEF WorkInv

-----------------------------------------------------------------------------
LEMMA RunSame ==
  ASSUME UNCHANGED run PROVE run'.base = run.base /\ run'.committed = run.committed /\ run'.open = run.open
  OBVIOUS

LEMMA RecordedSame == ASSUME UNCHANGED records PROVE recorded' = recorded
  BY DEF recorded

LEMMA BeginWork ==
  ASSUME WorkInv, BeginTurn PROVE WorkInv'
<1>1. phase' = "attempt" /\ UNCHANGED <<log, loaded, made, run, snapshot, stopped, records>>
  BY DEF BeginTurn, savedVars, attemptVars, tailVars
<1>2. recorded' \subseteq own_calls /\ Reported(snapshot')
  BY <1>1, RecordedSame, WorkParts, SnapshotReported DEF OwnInv
<1> QED
  BY <1>1, <1>2, WorkQuiet DEF Running

LEMMA PreLoadWork ==
  ASSUME LogTypes, WorkInv, PreLoad PROVE WorkInv'
<1>1. /\ phase' = "open" /\ run' = NoRun /\ snapshot' = <<>> /\ records' = <<>>
      /\ UNCHANGED <<log, stopped, loaded>> /\ made' = [made EXCEPT !.attempt = @ + 1]
  BY DEF PreLoad, savedVars, tailVars
<1>2. made'.call = made.call /\ run'.base = <<>> /\ run'.committed = <<>> /\ run'.open = {}
  BY <1>1, MadeTyped DEF NoRun
<1>3. GivenInv'
  BY <1>1, <1>2, WorkParts, NothingGiven DEF GivenInv
<1>4. OwnInv'
  <2>1. recorded' = {} /\ old_calls' = {}
    BY <1>1, <1>2 DEF recorded, old_calls, call_ids
  <2> QED
    BY <1>1, <1>2, <2>1 DEF OwnInv
<1>5. RunInv' /\ ReportInv' /\ DeltaInv'
  BY <1>1 DEF RunInv, ReportInv, DeltaInv, DeltaKeepsWork, Running
<1>6. Closed(Msgs(log'), {})
  BY <1>1, WorkParts
<1> QED
  BY <1>3, <1>4, <1>5, <1>6 DEF WorkInv

\* The run starts from the log: all of its calls are answered.
LEMMA OpenWork ==
  ASSUME LogTypes, WorkInv, RunOpen PROVE WorkInv'
<1>1. PICK b, m : b = Msgs(log) /\ m = turn_prompt
  OBVIOUS
<1>2. /\ phase = "open" /\ phase' = "ready" /\ UNCHANGED <<log, snapshot, records, stopped, loaded, made>>
      /\ run' = [NoRun EXCEPT !.base = b, !.keys = Keys(log), !.committed = <<m>>]
  BY <1>1 DEF RunOpen, savedVars, tailVars
<1>3. run'.base = b /\ run'.committed = <<m>> /\ run'.open = {}
  BY <1>2 DEF NoRun
<1>4. b \in Seq(Message) /\ m \in Message /\ m.calls = {} /\ m.results = {}
  <2>1. b \in Seq(Message) /\ m \in Message
    BY <1>1, <1>2, TypesOf, MsgsTyped, PromptIs
  <2>2. m = User(<<[prompt |-> prompt, steered |-> steering]>>, {})
    BY <1>1 DEF turn_prompt
  <2> QED
    BY <2>1, <2>2 DEF User
<1>5. own_calls' = {} /\ old_calls' = call_ids(b) /\ recorded' = {} /\ snapshot' = <<>>
  <2>1. own_calls' = call_ids(<<m>>) /\ old_calls' = call_ids(b)
    BY <1>3 DEF own_calls, old_calls, call_ids
  <2>2. call_ids(<<m>>) = {}
    BY <1>4 DEF call_ids
  <2>3. records' = <<>> /\ snapshot' = <<>>
    BY <1>2, WorkParts DEF OwnInv
  <2>4. recorded' = {}
    BY <2>3 DEF recorded
  <2> QED
    BY <2>1, <2>2, <2>3, <2>4
<1>6. chat_history' = Append(b, m)
  <2>1. chat_history' = b \o <<m>>
    BY <1>3 DEF chat_history
  <2> QED
    BY <2>1, <1>4
<1>7. PICK g : g = chat_history'
  OBVIOUS
<1>8. Longer(g, b, m)
  BY <1>4, <1>6, <1>7, AppendLonger
<1>9. GivenInv'
  <2>1. Given(<<m>>, made.call)
    BY <1>4 DEF Given
  <2>2. Given(Msgs(log'), made'.call) /\ Given(run'.base, made'.call) /\ Given(run'.committed, made'.call)
    BY <1>1, <1>2, <1>3, <2>1, WorkParts DEF GivenInv
  <2> QED
    BY <1>2, <2>2, WorkParts DEF GivenInv
<1>a. OwnInv'
  BY <1>1, <1>2, <1>3, <1>5 DEF OwnInv
<1>b. RunInv'
  <2>1. Closed(b, {})
    BY <1>1, WorkParts
  <2>2. Ordered(b) /\ \A i \in 1..Len(b) : b[i].calls \subseteq call_ids(b)
    BY <2>1, <1>4, ClosedOrdered, CallIdsIs
  <2>3. Tells(g, Len(b) + 1, {}, call_ids(b))
    BY <2>2, <1>4, <1>8, TellsStart
  <2>4. ASSUME NEW i \in 1..Len(g), NEW c \in g[i].calls PROVE Answered(g, i, c)
    <3>1. CASE i \in 1..Len(b)
      <4>1. Answered(b, i, c)
        BY <3>1, <2>1, <2>4, <1>8 DEF Closed, Longer
      <4> QED
        BY <3>1, <4>1, <1>4, <1>8, AnsweredLonger
    <3>2. CASE i = Len(b) + 1
      BY <3>2, <2>4, <1>4, <1>8 DEF Longer
    <3> QED
      BY <3>1, <3>2, <1>8 DEF Longer
  <2>5. Tells(chat_history', Len(run'.base) + 1, own_calls', old_calls')
    BY <2>3, <1>3, <1>5, <1>7
  <2> QED
    BY <2>4, <2>5, <1>7 DEF RunInv
<1>c. ReportInv'
  BY <1>2, <1>5 DEF ReportInv
<1>d. DeltaInv'
  BY <1>2 DEF DeltaInv, DeltaKeepsWork
<1>e. Closed(Msgs(log'), {})
  BY <1>2, WorkParts
<1> QED
  BY <1>9, <1>a, <1>b, <1>c, <1>d, <1>e DEF WorkInv

LEMMA CallWork ==
  ASSUME LogTypes, WorkInv, on_completion_call PROVE WorkInv'
<1>1. /\ phase = "ready" /\ phase' = "calling" /\ snapshot' = chat_history
      /\ run' = [run EXCEPT !.calls = @ + 1, !.fresh = <<>>]
      /\ UNCHANGED <<log, records, stopped, loaded, made>>
  BY DEF on_completion_call, savedVars, tailVars
<1>2. run'.base = run.base /\ run'.committed = run.committed /\ run'.open = run.open
  BY <1>1, TypesOf, ChatTyped
<1>3. recorded' \subseteq own_calls /\ Reported(snapshot') /\ run.open = {}
  BY <1>1, RecordedSame, WorkParts, ChatReported DEF OwnInv, Running
<1> QED
  BY <1>1, <1>2, <1>3, WorkQuiet DEF Running

LEMMA StreamWork ==
  ASSUME LogTypes, WorkInv, StreamText \/ ModelTurnRetried PROVE WorkInv'
<1>1. /\ phase = "calling" /\ UNCHANGED <<log, phase, snapshot, records, stopped, loaded, made>>
      /\ \/ run' = [run EXCEPT !.chunks = @ + 1, !.fresh = <<run.chunks + 1>>]
         \/ run' = [run EXCEPT !.fresh = <<>>]
  BY DEF StreamText, ModelTurnRetried, savedVars, tailVars
<1>2. run'.base = run.base /\ run'.committed = run.committed /\ run'.open = run.open
  BY <1>1, TypesOf, ChatTyped
<1>3. recorded' \subseteq own_calls /\ Reported(snapshot') /\ run.open = {}
  BY <1>1, RecordedSame, WorkParts, SnapshotReported DEF OwnInv
<1> QED
  BY <1>1, <1>2, <1>3, WorkQuiet DEF Running

LEMMA BatchWork ==
  ASSUME LogTypes, WorkInv, CommitBatch PROVE WorkInv'
<1>1. PICK n \in 1..Batch :
         /\ phase = "calling" /\ phase' = "tools"
         /\ run' = [run EXCEPT !.committed = Append(@, Assistant((made.call + 1)..(made.call + n), run.fresh)),
                               !.open = (made.call + 1)..(made.call + n)]
         /\ made' = [made EXCEPT !.call = @ + n]
         /\ UNCHANGED <<log, snapshot, records, stopped, loaded>>
  BY DEF CommitBatch, savedVars, tailVars
<1>2. PICK batch, m : batch = (made.call + 1)..(made.call + n) /\ m = Assistant(batch, run.fresh)
  OBVIOUS
<1>3. n \in Nat /\ made.call \in Nat /\ batch \in SUBSET Nat
  BY <1>2, MadeTyped, TurnLogAssumption
<1>4. m \in Message /\ m.pieces = <<>> /\ m.calls = batch /\ m.results = {}
  <2>1. m \in Message
    BY <1>2, <1>3, TypesOf, ChatTyped, AssistantMessage
  <2> QED
    BY <2>1, <1>2 DEF Assistant
<1>5. run'.base = run.base /\ run'.committed = Append(run.committed, m) /\ run'.open = m.calls
  BY <1>1, <1>2, <1>4, TypesOf, ChatTyped
<1>6. made'.call \in Nat /\ made.call <= made'.call /\ m.calls \subseteq (made.call + 1)..made'.call
  <2>1. made'.call = made.call + n
    BY <1>1, MadeTyped
  <2> QED
    BY <2>1, <1>2, <1>3, <1>4
<1>7. run.open = {}
  BY <1>1, WorkParts DEF OwnInv
<1> QED
  BY <1>1, <1>4, <1>5, <1>6, <1>7, WorkCommit

LEMMA FinalWork ==
  ASSUME LogTypes, WorkInv, FinalResponse PROVE WorkInv'
<1>1. PICK m : m = Assistant({}, run.fresh)
  OBVIOUS
<1>2. /\ phase = "calling" /\ phase' = "saving"
      /\ run' = [run EXCEPT !.committed = Append(@, m)]
      /\ UNCHANGED <<log, snapshot, records, stopped, loaded, made>>
  BY <1>1 DEF FinalResponse, savedVars, tailVars
<1>3. m \in Message /\ m.pieces = <<>> /\ m.calls = {} /\ m.results = {}
  <2>1. m \in Message
    BY <1>1, TypesOf, ChatTyped, AssistantMessage
  <2> QED
    BY <2>1, <1>1 DEF Assistant
<1>4. run.open = {}
  BY <1>2, WorkParts DEF OwnInv
<1>5. run'.base = run.base /\ run'.committed = Append(run.committed, m) /\ run'.open = m.calls
  BY <1>2, <1>3, <1>4, TypesOf, ChatTyped
<1>6. made'.call \in Nat /\ made.call <= made'.call /\ made' = made
  BY <1>2, MadeTyped
<1> QED
  BY <1>2, <1>3, <1>4, <1>5, <1>6, WorkCommit

\* The results of the open calls.
LEMMA ResultsAre ==
  ASSUME LogTypes, NEW answered, NEW m, m = BatchResults(answered)
  PROVE  /\ m \in Message /\ m.pieces = <<>> /\ m.calls = {}
         /\ \A r \in m.results : r.out \in {"settled", "placeholder"} /\ r.call \in run.open
         /\ \A c \in run.open : \E r \in m.results : r.call = c
<1>1. m \in Message
  BY TypesOf, ResultsTyped
<1>2. PICK x : x = {[call |-> c, out |-> IF c \in answered THEN "settled" ELSE "placeholder"] : c \in run.open}
  OBVIOUS
<1>3. m = User(<<>>, x)
  BY <1>2 DEF BatchResults
<1>4. \A r \in x : r.out \in {"settled", "placeholder"} /\ r.call \in run.open
  BY <1>2
<1>5. ASSUME NEW c \in run.open PROVE \E r \in x : r.call = c
  <2>1. PICK r : r = [call |-> c, out |-> IF c \in answered THEN "settled" ELSE "placeholder"]
    OBVIOUS
  <2>2. r \in x
    BY <1>2, <2>1
  <2>3. r.call = c
    BY <2>1
  <2> QED
    BY <2>2, <2>3
<1> QED
  BY <1>1, <1>3, <1>4, <1>5 DEF User

LEMMA AnsweredWork ==
  ASSUME LogTypes, WorkInv, BatchAnswered PROVE WorkInv'
<1>1. PICK m : m = BatchResults(run.open)
  OBVIOUS
<1>2. /\ phase = "tools" /\ phase' = "ready"
      /\ run' = [run EXCEPT !.committed = Append(@, m), !.open = {}]
      /\ UNCHANGED <<log, snapshot, records, stopped, loaded, made>>
  BY <1>1 DEF BatchAnswered, savedVars, tailVars
<1>3. /\ m \in Message /\ m.pieces = <<>> /\ m.calls = {}
      /\ \A r \in m.results : r.out \in {"settled", "placeholder"} /\ r.call \in run.open
      /\ \A c \in run.open : \E r \in m.results : r.call = c
  BY <1>1, ResultsAre
<1>4. run'.base = run.base /\ run'.committed = Append(run.committed, m) /\ run'.open = m.calls
  BY <1>2, <1>3, TypesOf, ChatTyped
<1>5. made'.call \in Nat /\ made.call <= made'.call
  BY <1>2, MadeTyped
<1> QED
  BY <1>2, <1>3, <1>4, <1>5, WorkCommit

LEMMA RecordWork ==
  ASSUME LogTypes, WorkInv, record_call PROVE WorkInv'
<1>1. /\ phase = "tools" /\ run.open \ recorded # {}
      /\ records' = Append(records, [call |-> Min(run.open \ recorded), result |-> "none"])
      /\ UNCHANGED <<log, phase, run, snapshot, stopped, loaded, made>>
  BY DEF record_call, savedVars, tailVars
<1>2. PICK e : e = [call |-> Min(run.open \ recorded), result |-> "none"]
  OBVIOUS
<1>3. e.call \in run.open
  <2>1. run.open \ recorded \in SUBSET Nat
    BY TypesOf, ChatTyped
  <2> QED
    BY <1>1, <1>2, <2>1, MinIn
<1>4. records \in Seq([call : Nat, result : {"none", "settled"}])
  BY TypesOf DEF AttemptTypes, RecordsTyped
<1>5. \A i \in DOMAIN records' : (i \in DOMAIN records /\ records'[i] = records[i]) \/ records'[i] = e
  <2>1. records' = Append(records, e)
    BY <1>1, <1>2
  <2> QED
    BY <2>1, <1>4
<1>6. recorded' \subseteq own_calls
  <2>1. recorded \subseteq own_calls /\ run.open \subseteq own_calls
    BY WorkParts DEF OwnInv
  <2> QED
    BY <2>1, <1>3, <1>5 DEF recorded
<1>7. Reported(snapshot')
  BY <1>1, SnapshotReported
<1> QED
  BY <1>1, <1>6, <1>7, RunSame, WorkQuiet DEF Running

LEMMA ResultWork ==
  ASSUME LogTypes, WorkInv, record_result PROVE WorkInv'
<1>1. /\ phase = "tools" /\ UNCHANGED <<log, phase, run, snapshot, stopped, loaded, made>>
      /\ \E i : SettlesAt(i)
  BY RecordedParts DEF savedVars, tailVars
<1>2. recorded' \subseteq own_calls
  <2>1. /\ Len(records') = Len(records) /\ \A j \in 1..Len(records) : records'[j].call = records[j].call
        /\ DOMAIN records' = 1..Len(records')
    BY <1>1 DEF SettlesAt
  <2>2. DOMAIN records = 1..Len(records)
    BY TypesOf DEF AttemptTypes, RecordsTyped
  <2>3. recorded' \subseteq recorded
    BY <2>1, <2>2 DEF recorded
  <2> QED
    BY <2>3, WorkParts DEF OwnInv
<1>3. Reported(snapshot')
  BY <1>1, SnapshotReported
<1> QED
  BY <1>1, <1>2, <1>3, RunSame, WorkQuiet DEF Running

-----------------------------------------------------------------------------
LEMMA StopWork ==
  ASSUME WorkInv, NEW why, NEW history, NEW streamed, Stop(why, history, streamed), Reported(history)
  PROVE  WorkInv'
<1>1. /\ phase' = "recover" /\ UNCHANGED <<log, loaded, made, run, snapshot, records>>
      /\ stopped' = [why |-> why, history |-> history, text |-> streamed]
  BY DEF Stop, savedVars, attemptVars
<1>2. stopped'.history = history
  BY <1>1
<1>3. recorded' \subseteq own_calls /\ Reported(snapshot') /\ Reported(stopped'.history)
  BY <1>1, <1>2, RecordedSame, WorkParts, SnapshotReported DEF OwnInv
<1>4. made'.call = made.call
  BY <1>1
<1> QED
  BY <1>1, <1>3, <1>4, RunSame, WorkQuiet DEF Running

LEMMA RetryWork ==
  ASSUME WorkInv, NEW kind, NEW otherwise, NEW history, NEW streamed,
         RetryOr(kind, otherwise, history, streamed), Reported(history)
  PROVE  WorkInv'
<1>1. \E why, text2 : Stop(why, history, text2)
  BY DEF RetryOr
<1> QED
  BY <1>1, StopWork

LEMMA CanonicalReported ==
  ASSUME NEW h \in Seq(Message), Given(h, made.call), NEW p, Tells(h, p, own_calls, old_calls)
  PROVE  Reported(canonical(h))
  BY CanonicalGiven, TellsCanonical DEF Reported

\* A cancelled run answers the calls of its open batch before it reports.
LEMMA CancelledWork ==
  ASSUME LogTypes, WorkInv, Cancelled PROVE WorkInv'
<1>1. PICK answered : Stop("cancelled", CancelledHistory(answered), text)
  BY DEF Cancelled, CancelledHistory, InFlight
<1>2. phase \in Running
  BY DEF Cancelled, Running
<1>3. /\ chat_history \in Seq(Message) /\ Given(chat_history, made.call)
      /\ Tells(chat_history, Len(run.base) + 1, own_calls, old_calls)
  BY <1>2, TypesOf, ChatTyped, ChatGiven, WorkParts DEF RunInv
<1>4. CASE run.open = {}
  <2>1. chat_history \o <<>> = chat_history
    BY <1>3
  <2>2. CancelledHistory(answered) = canonical(chat_history)
    BY <1>4, <2>1 DEF CancelledHistory, InFlight
  <2>3. Reported(CancelledHistory(answered))
    BY <2>2, <1>3, CanonicalReported
  <2> QED
    BY <2>3, <1>1, StopWork
<1>5. CASE run.open # {}
  <2>1. PICK m : m = BatchResults(answered)
    OBVIOUS
  <2>2. /\ m \in Message /\ m.pieces = <<>> /\ m.calls = {}
        /\ \A r \in m.results : r.out \in {"settled", "placeholder"} /\ r.call \in run.open
    BY <2>1, ResultsAre
  <2>3. PICK g : g = Append(chat_history, m)
    OBVIOUS
  <2>4. CancelledHistory(answered) = canonical(g)
    <3>1. InFlight(answered) = <<m>>
      BY <1>5, <2>1 DEF InFlight
    <3>2. chat_history \o <<m>> = g
      BY <2>2, <2>3, <1>3
    <3> QED
      BY <3>1, <3>2 DEF CancelledHistory
  <2>5. g \in Seq(Message) /\ Longer(g, chat_history, m)
    BY <2>2, <2>3, <1>3, AppendLonger
  <2>6. run.open \subseteq own_calls /\ made.call \in Nat
    BY WorkParts, MadeTyped DEF OwnInv
  <2>7. own_calls \subseteq 1..made.call
    <3>1. Given(run.committed, made.call) /\ run.committed \in Seq(Message)
      BY WorkParts, TypesOf, ChatTyped DEF GivenInv
    <3> QED
      BY <3>1, CallIdsIs DEF own_calls, Given
  <2>8. Given(g, made.call)
    <3>1. m.calls \subseteq 1..made.call /\ \A r \in m.results : r.call \in 1..made.call
      BY <2>2, <2>6, <2>7
    <3> QED
      BY <3>1, <2>5, <2>6, <1>3, GivenLonger
  <2>9. Tells(g, Len(run.base) + 1, own_calls, old_calls)
    <3>1. \A r \in m.results : /\ r.out \in {"settled", "placeholder"}
                               /\ \E j \in 1..Len(chat_history) :
                                     Len(run.base) + 1 <= j /\ r.call \in chat_history[j].calls
      BY <2>2, <2>6, OwnPlace
    <3>2. \A c \in m.calls : Unheard(chat_history, c)
      BY <2>2
    <3> QED
      BY <3>1, <3>2, <2>2, <2>5, <1>3, TellsLonger
  <2>a. Reported(CancelledHistory(answered))
    BY <2>4, <2>5, <2>8, <2>9, CanonicalReported
  <2> QED
    BY <2>a, <1>1, StopWork
<1> QED
  BY <1>4, <1>5

LEMMA StopsWork ==
  ASSUME LogTypes, WorkInv,
         CompletionFailed \/ MaxTurnsExceeded \/ RepetitionStop \/ UnknownTool \/ ToolExecutionFailed
            \/ GraceExpired
  PROVE  WorkInv'
<1>1. Reported(snapshot)
  BY SnapshotReported
<1>2. phase \in Running => Reported(chat_history)
  BY ChatReported
<1>3. CASE CompletionFailed
  BY <1>1, <1>3, RetryWork DEF CompletionFailed
<1>4. CASE MaxTurnsExceeded
  BY <1>2, <1>4, RetryWork DEF MaxTurnsExceeded, Running
<1>5. CASE RepetitionStop
  <2>1. phase = "calling" /\ RetryOr("repetition", "cancelled", canonical(chat_history), text)
    BY <1>5 DEF RepetitionStop
  <2>2. /\ chat_history \in Seq(Message) /\ Given(chat_history, made.call)
        /\ Tells(chat_history, Len(run.base) + 1, own_calls, old_calls)
    BY <2>1, TypesOf, ChatTyped, ChatGiven, WorkParts DEF RunInv, Running
  <2> QED
    BY <2>1, <2>2, CanonicalReported, RetryWork
<1>6. CASE UnknownTool
  BY <1>2, <1>6, StopWork DEF UnknownTool, Running
<1>7. CASE ToolExecutionFailed
  BY <1>1, <1>7, StopWork DEF ToolExecutionFailed
<1>8. CASE GraceExpired
  BY <1>1, <1>2, <1>8, StopWork DEF GraceExpired, Running
<1> QED
  BY <1>3, <1>4, <1>5, <1>6, <1>7, <1>8

\* The log grows by messages that answer all of their calls.
LEMMA WorkGrows ==
  ASSUME LogTypes, WorkInv, NEW writer \in 0..turn, NEW msgs \in Seq(Message), Write(writer, msgs),
         Given(msgs, made.call), Closed(msgs, call_ids(Msgs(log))),
         UNCHANGED <<attemptVars, stopped, loaded, turn>>,
         phase' \in Running => phase \in Running,
         phase' = phase \/ phase' \in {"saved", "facts"}
  PROVE  WorkInv'
<1>0. UNCHANGED <<run, snapshot, records>>
  BY DEF attemptVars
<1>1. Joined(Msgs(log'), Msgs(log), msgs) /\ made'.call = made.call
  BY WrittenMsgs
<1>2. PICK a, c : a = Msgs(log) /\ c = Msgs(log')
  OBVIOUS
<1>3. a \in Seq(Message) /\ Joined(c, a, msgs) /\ Given(a, made.call) /\ Closed(a, {})
  BY <1>1, <1>2, TypesOf, MsgsTyped, WorkParts DEF GivenInv
<1>4. call_ids(a) \subseteq call_ids(c)
  BY <1>3, CallsJoined
<1>5. own_calls' = own_calls /\ old_calls' = old_calls /\ chat_history' = chat_history
      /\ recorded' = recorded
  BY <1>0 DEF own_calls, old_calls, chat_history, call_ids, recorded
<1>6. GivenInv'
  <2>1. Given(c, made.call)
    BY <1>3, GivenJoined
  <2> QED
    BY <1>0, <1>1, <1>2, <2>1, WorkParts DEF GivenInv
<1>7. OwnInv'
  <2>1. old_calls' \subseteq call_ids(Msgs(log'))
    BY <1>2, <1>4, <1>5, WorkParts DEF OwnInv
  <2> QED
    BY <1>0, <1>5, <2>1, WorkParts DEF OwnInv
<1>8. RunInv'
  <2>1. CASE phase' \notin Running
    BY <2>1 DEF RunInv, Running
  <2>2. CASE phase' \in Running
    BY <2>2, <1>0, <1>5, WorkParts DEF RunInv
  <2> QED
    BY <2>1, <2>2
<1>9. ReportInv'
  BY <1>0, <1>5, WorkParts DEF ReportInv
<1>a. DeltaInv'
  <2>1. CASE phase' # "extend"
    BY <2>1 DEF DeltaInv, DeltaKeepsWork
  <2>2. CASE phase' = "extend"
    <3>1. phase = "extend"
      BY <2>2
    <3>2. DeltaKeepsWork'
      BY <3>1, <1>0, WorkParts DEF DeltaInv, DeltaKeepsWork, prompt, recorded, settled_calls
    <3>3. Closed(loaded.delta, call_ids(c))
      BY <3>1, <1>2, <1>4, WorkParts, ClosedMore DEF DeltaInv
    <3> QED
      BY <3>2, <3>3, <1>2 DEF DeltaInv
  <2> QED
    BY <2>1, <2>2
<1>b. Closed(c, {})
  BY <1>2, <1>3, ClosedJoined
<1> QED
  BY <1>2, <1>6, <1>7, <1>8, <1>9, <1>a, <1>b DEF WorkInv

-----------------------------------------------------------------------------
\* A run that is saved answered every call it committed.
LEMMA RunSaveWork ==
  ASSUME LogTypes, WorkInv, RunSave PROVE WorkInv'
<1>1. phase = "saving" /\ UNCHANGED <<attemptVars, loaded, turn>>
  BY DEF RunSave, turnVars
<1>2. CASE phase' = "saved" /\ Write(turn, run.committed) /\ UNCHANGED stopped
  <2>1. run.committed \in Seq(Message) /\ run.base \in Seq(Message) /\ turn \in 0..turn
    BY RunTyped, ChatJoined
  <2>2. Given(run.committed, made.call) /\ run.open = {} /\ old_calls \subseteq call_ids(Msgs(log))
    BY <1>1, WorkParts DEF GivenInv, OwnInv
  <2>3. /\ Ordered(chat_history)
        /\ \A i \in 1..Len(chat_history) : \A c \in chat_history[i].calls : Answered(chat_history, i, c)
    BY <1>1, <2>2, WorkParts DEF RunInv, Running, Tells
  <2>4. Closed(run.committed, old_calls)
    BY <2>1, <2>3, ChatJoined, ClosedTail DEF old_calls
  <2>5. Closed(run.committed, call_ids(Msgs(log)))
    BY <2>2, <2>4, ClosedMore
  <2> QED
    BY <1>1, <1>2, <2>1, <2>2, <2>5, WorkGrows DEF Running
<1>3. CASE /\ phase' = "recover" /\ UNCHANGED <<log, made>>
           /\ stopped' = [why |-> "failed", history |-> snapshot, text |-> <<>>]
  <2>1. UNCHANGED <<run, snapshot, records>> /\ stopped'.history = snapshot /\ made'.call = made.call
    BY <1>1, <1>3 DEF attemptVars
  <2>2. recorded' \subseteq own_calls /\ Reported(snapshot') /\ Reported(stopped'.history)
    BY <2>1, RecordedSame, WorkParts, SnapshotReported DEF OwnInv
  <2> QED
    BY <1>1, <1>3, <2>1, <2>2, RunSame, WorkQuiet DEF Running
<1> QED
  BY <1>2, <1>3 DEF RunSave

\* Recovery makes its delta of what the attempt reported.
LEMMA RecoverLoadWork ==
  ASSUME LogTypes, WorkInv, RecoverLoad PROVE WorkInv'
<1>1. phase = "recover" /\ UNCHANGED <<log, made, turnVars>>
  BY DEF RecoverLoad
<1>2. CASE /\ phase' = "extend" /\ UNCHANGED <<attemptVars, stopped>>
           /\ loaded' = [keys |-> Keys(log), delta |-> turn_delta(answered_call_ids(Msgs(log)))]
  <2>1. PICK stored : stored = answered_call_ids(Msgs(log))
    OBVIOUS
  <2>2. PICK D : D = turn_delta(stored)
    OBVIOUS
  <2>3. UNCHANGED <<run, snapshot, records>> /\ loaded'.delta = D
    BY <1>2, <2>1, <2>2 DEF attemptVars
  <2>4. /\ stopped.history \in Seq(Message) /\ stopped.text \in Seq(Nat) /\ RecordsTyped
        /\ prompt \in Prompted
    <3>1. stopped.history \in Seq(Message) /\ stopped.text \in Seq(Nat) /\ RecordsTyped
      BY TypesOf DEF TailTypes, AttemptTypes
    <3> QED
      BY <1>1, <3>1, TypesOf, PromptIs
  <2>5. /\ stopped.history = <<>> \/ \E p : Tells(stopped.history, p, own_calls, old_calls)
        /\ Given(stopped.history, made.call) /\ recorded \subseteq own_calls
        /\ old_calls \subseteq call_ids(Msgs(log))
    BY <1>1, WorkParts DEF ReportInv, GivenInv, OwnInv
  <2>6. Given(D, made.call)
    <3>1. recorded \subseteq 1..made.call
      <4>1. Given(run.committed, made.call) /\ run.committed \in Seq(Message)
        BY WorkParts, TypesOf, ChatTyped DEF GivenInv
      <4>2. own_calls \subseteq 1..made.call
        BY <4>1, CallIdsIs DEF own_calls, Given
      <4> QED
        BY <4>2, <2>5
    <3> QED
      BY <3>1, <2>2, <2>4, <2>5, DeltaGiven
  <2>7. Closed(D, call_ids(Msgs(log)))
    <3>1. Closed(D, old_calls)
      BY <2>2, <2>4, <2>5, DeltaClosed
    <3> QED
      BY <3>1, <2>5, ClosedMore
  <2>8. /\ \E i \in DOMAIN D : \E k \in DOMAIN D[i].pieces : D[i].pieces[k].prompt = prompt
        /\ recorded \subseteq call_ids(D)
        /\ \A c \in settled_calls : \E i \in DOMAIN D : [call |-> c, out |-> "settled"] \in D[i].results
    <3>1. stopped.history = <<>> \/ \E p : WorkFrom(stopped.history, p, own_calls)
      BY <2>5 DEF Tells
    <3> QED
      BY <3>1, <2>2, <2>4, <2>5, DeltaWork
  <2>9. /\ own_calls' = own_calls /\ old_calls' = old_calls /\ recorded' = recorded
        /\ prompt' = prompt /\ settled_calls' = settled_calls /\ Msgs(log') = Msgs(log)
    BY <1>1, <2>3 DEF own_calls, old_calls, call_ids, recorded, prompt, settled_calls, turnVars
  <2>a. GivenInv'
    BY <1>1, <1>2, <2>3, <2>6, <2>9, WorkParts DEF GivenInv
  <2>b. OwnInv'
    BY <1>2, <2>3, <2>9, WorkParts DEF OwnInv
  <2>c. RunInv' /\ ReportInv'
    BY <1>2, <2>3, <2>9, WorkParts DEF RunInv, ReportInv, Running
  <2>d. DeltaKeepsWork'
    BY <2>3, <2>8, <2>9 DEF DeltaKeepsWork, call_ids
  <2>e. Closed(loaded'.delta, call_ids(Msgs(log')))
    BY <2>3, <2>7, <2>9
  <2>f. DeltaInv' /\ Closed(Msgs(log'), {})
    BY <2>9, <2>d, <2>e, WorkParts DEF DeltaInv
  <2> QED
    BY <2>a, <2>b, <2>c, <2>f DEF WorkInv
<1>3. CASE EndAttempt(AfterStop)
  BY <1>1, <1>3, AfterStopIs, WorkEnd
<1> QED
  BY <1>2, <1>3 DEF RecoverLoad

LEMMA RecoverSaveWork ==
  ASSUME LogTypes, WorkInv, RecoverSave PROVE WorkInv'
<1>1. phase = "extend" /\ phase' = "facts" /\ UNCHANGED <<attemptVars, stopped, loaded, turn>>
  BY DEF RecoverSave, turnVars
<1>2. CASE Write(turn, loaded.delta)
  <2>1. loaded.delta \in Seq(Message) /\ turn \in 0..turn
    BY RunTyped
  <2>2. Given(loaded.delta, made.call) /\ Closed(loaded.delta, call_ids(Msgs(log)))
    BY <1>1, WorkParts DEF GivenInv, DeltaInv
  <2> QED
    BY <1>1, <1>2, <2>1, <2>2, WorkGrows DEF Running
<1>3. CASE UNCHANGED <<log, made>>
  <2>1. UNCHANGED <<run, snapshot, records>> /\ made'.call = made.call
    BY <1>1, <1>3 DEF attemptVars
  <2>2. recorded' \subseteq own_calls /\ Reported(snapshot')
    BY <2>1, RecordedSame, WorkParts, SnapshotReported DEF OwnInv
  <2> QED
    BY <1>1, <1>3, <2>1, <2>2, RunSame, WorkQuiet DEF Running
<1> QED
  BY <1>2, <1>3 DEF RecoverSave

LEMMA OtherWork ==
  ASSUME LogTypes, WorkInv, OtherAppend PROVE WorkInv'
<1>1. PICK a, b : a = User(<<>>, {}) /\ b = Assistant({}, <<>>)
  OBVIOUS
<1>2. PICK msgs : msgs = <<a, b>>
  OBVIOUS
<1>3. Write(0, msgs) /\ UNCHANGED <<phase, attemptVars, stopped, loaded, turn>>
  BY <1>1, <1>2 DEF OtherAppend, tailVars, turnVars
<1>4. a \in Message /\ b \in Message /\ a.calls = {} /\ a.results = {} /\ b.calls = {} /\ b.results = {}
  <2>1. {} \in SUBSET Result /\ {} \in SUBSET Nat /\ <<>> \in Seq(Nat)
    OBVIOUS
  <2>2. a \in Message /\ b \in Message
    BY <1>1, <2>1, NoPieces, UserMessage, AssistantMessage
  <2> QED
    BY <1>1, <2>2 DEF User, Assistant
<1>5. msgs \in Seq(Message) /\ \A i \in 1..Len(msgs) : msgs[i].calls = {} /\ msgs[i].results = {}
  BY <1>2, <1>4
<1>6. Given(msgs, made.call) /\ Closed(msgs, call_ids(Msgs(log)))
  BY <1>5 DEF Given, Closed
<1>7. 0 \in 0..turn
  BY TypesOf, TurnLogAssumption DEF KeptTypes
<1> QED
  BY <1>3, <1>5, <1>6, <1>7, WorkGrows

LEMMA EndsWork ==
  ASSUME LogTypes, WorkInv, write_state_records \/ settle \/ persist_tool_facts \/ Crash PROVE WorkInv'
<1>1. UNCHANGED <<log, made>>
  BY DEF write_state_records, settle, persist_tool_facts, Crash, savedVars
<1>2. CASE \E next \in {"idle", "attempt"} : EndAttempt(next)
  BY <1>1, <1>2, WorkEnd
<1>3. CASE phase' = "settle" /\ UNCHANGED <<attemptVars, stopped, loaded>>
  <2>1. UNCHANGED <<run, snapshot, records>> /\ made'.call = made.call
    BY <1>1, <1>3 DEF attemptVars
  <2>2. recorded' \subseteq own_calls /\ Reported(snapshot')
    BY <2>1, RecordedSame, WorkParts, SnapshotReported DEF OwnInv
  <2> QED
    BY <1>1, <1>3, <2>1, <2>2, RunSame, WorkQuiet DEF Running
<1> QED
  BY <1>2, <1>3, AfterStopIs DEF write_state_records, settle, persist_tool_facts, Crash

LEMMA WorkStutters ==
  ASSUME WorkInv, UNCHANGED logVars PROVE WorkInv'
<1>1. UNCHANGED <<log, made, turn, run, snapshot, records, stopped, loaded, phase>>
  BY DEF logVars
<1>2. /\ own_calls' = own_calls /\ old_calls' = old_calls /\ recorded' = recorded
      /\ prompt' = prompt /\ settled_calls' = settled_calls /\ Msgs(log') = Msgs(log)
      /\ chat_history' = chat_history
  BY <1>1 DEF own_calls, old_calls, call_ids, recorded, prompt, settled_calls, chat_history
<1>3. GivenInv' /\ OwnInv'
  BY <1>1, <1>2, WorkParts DEF GivenInv, OwnInv
<1>4. RunInv' /\ ReportInv'
  BY <1>1, <1>2, WorkParts DEF RunInv, ReportInv
<1>5. DeltaInv'
  BY <1>1, <1>2, WorkParts DEF DeltaInv, DeltaKeepsWork
<1>6. Closed(Msgs(log'), {})
  BY <1>2, WorkParts
<1> QED
  BY <1>3, <1>4, <1>5, <1>6 DEF WorkInv

LEMMA WorkStep ==
  ASSUME LogTypes, WorkInv, [LogNext]_logVars PROVE WorkInv'
<1>1. CASE PreLoad \/ RunOpen \/ on_completion_call \/ StreamText \/ ModelTurnRetried
  BY <1>1, PreLoadWork, OpenWork, CallWork, StreamWork
<1>2. CASE CommitBatch \/ record_call \/ record_result \/ BatchAnswered \/ FinalResponse
  BY <1>2, BatchWork, RecordWork, ResultWork, AnsweredWork, FinalWork
<1>3. CASE CompletionFailed \/ MaxTurnsExceeded \/ RepetitionStop \/ UnknownTool
              \/ ToolExecutionFailed \/ Cancelled \/ GraceExpired
  BY <1>3, StopsWork, CancelledWork
<1>4. CASE RunSave \/ write_state_records \/ settle \/ RecoverLoad \/ RecoverSave \/ persist_tool_facts
  BY <1>4, RunSaveWork, RecoverLoadWork, RecoverSaveWork, EndsWork
<1>5. CASE BeginTurn \/ OtherAppend \/ Crash
  BY <1>5, BeginWork, OtherWork, EndsWork
<1>6. CASE UNCHANGED logVars
  BY <1>6, WorkStutters
<1> QED
  BY <1>1, <1>2, <1>3, <1>4, <1>5, <1>6, Zenon DEF LogNext, LogStep

LEMMA LogInitWork == LogInit => WorkInv
<1> SUFFICES ASSUME LogInit PROVE WorkInv
  OBVIOUS
<1>1. /\ log = <<>> /\ phase = "idle" /\ run = NoRun /\ snapshot = <<>> /\ records = <<>>
      /\ stopped = NotStopped /\ loaded = NotLoaded
  BY DEF LogInit
<1>2. /\ run.base = <<>> /\ run.committed = <<>> /\ run.open = {}
      /\ stopped.history = <<>> /\ loaded.delta = <<>>
  BY <1>1 DEF NoRun, NotStopped, NotLoaded
<1>3. Msgs(log) = <<>>
  BY <1>1 DEF Msgs
<1>4. GivenInv
  BY <1>1, <1>2, <1>3, NothingGiven DEF GivenInv
<1>5. OwnInv
  <2>1. recorded = {} /\ old_calls = {}
    BY <1>1, <1>2 DEF recorded, old_calls, call_ids
  <2> QED
    BY <1>1, <1>2, <2>1 DEF OwnInv
<1>6. RunInv /\ ReportInv /\ DeltaInv
  BY <1>1 DEF RunInv, ReportInv, DeltaInv, DeltaKeepsWork, Running
<1>7. Closed(Msgs(log), {})
  BY <1>3 DEF Closed
<1> QED
  BY <1>4, <1>5, <1>6, <1>7 DEF WorkInv

\* A closed log is one whose calls are answered, each behind its call.
LEMMA ClosedAnswers ==
  ASSUME LogTypes, Closed(Msgs(log), {}) PROVE CallsAnswered
<1>1. PICK m : m = Msgs(log)
  OBVIOUS
<1>2. m \in Seq(Message) /\ Len(m) \in Nat /\ DOMAIN m = 1..Len(m)
  BY <1>1, TypesOf, MsgsTyped
<1>3. ASSUME NEW i \in DOMAIN m, NEW c \in m[i].calls
      PROVE  \E j \in (i + 1)..Len(m) : c \in answers(m, j)
  <2>1. PICK j \in 1..Len(m) : i < j /\ \E r \in m[j].results : r.call = c
    BY <1>1, <1>2, <1>3 DEF Closed, Answered
  <2>2. j \in (i + 1)..Len(m)
    BY <1>2, <1>3, <2>1
  <2> QED
    BY <2>1, <2>2 DEF answers
<1>4. ASSUME NEW i \in DOMAIN m, NEW c \in answers(m, i)
      PROVE  \E j \in 1..(i - 1) : c \in m[j].calls
  <2>1. PICK r \in m[i].results : r.call = c
    BY <1>4 DEF answers
  <2>2. PICK j \in 1..Len(m) : j < i /\ c \in m[j].calls
    BY <1>1, <1>2, <2>1 DEF Closed, Backed
  <2>3. j \in 1..(i - 1)
    BY <1>2, <1>4, <2>2
  <2> QED
    BY <2>2, <2>3
<1> QED
  BY <1>1, <1>3, <1>4 DEF CallsAnswered

\* What recovery is about to save holds the turn's prompt and every call the
\* attempt dispatched, with the result it settled with: turn_delta keeps the work
\* of an attempt however the attempt ended.
THEOREM DeltaKeepsAll == LogSpec => []DeltaKeepsWork
<1>1. LogInit => LogTypes /\ WorkInv
  BY LogInitTypes, LogInitWork
<1>2. LogTypes /\ WorkInv /\ [LogNext]_logVars => (LogTypes /\ WorkInv)'
  BY LogTypesStep, WorkStep
<1>3. WorkInv => DeltaKeepsWork
  BY DEF WorkInv, DeltaInv
<1> QED
  BY <1>1, <1>2, <1>3, PTL DEF LogSpec

\* Every call of the log has a later result and every result an earlier call,
\* however the attempts of its turns ended, and however often the process died:
\* close_unanswered_tool_calls_with and drop_stored_results with rig's own save.
THEOREM CallsAllAnswered == LogSpec => []CallsAnswered
<1>1. LogInit => LogTypes /\ WorkInv
  BY LogInitTypes, LogInitWork
<1>2. LogTypes /\ WorkInv /\ [LogNext]_logVars => (LogTypes /\ WorkInv)'
  BY LogTypesStep, WorkStep
<1>3. LogTypes /\ WorkInv => CallsAnswered
  BY ClosedAnswers DEF WorkInv
<1> QED
  BY <1>1, <1>2, <1>3, PTL DEF LogSpec

-----------------------------------------------------------------------------
(* Facts: the calls and the results a message puts in the log.             *)
LEMMA HoldsIs ==
  ASSUME NEW m, NEW f
  PROVE  f \in holds(m) <=> \/ \E c \in m.calls : f = <<"call", c>>
                            \/ \E r \in m.results : f = <<"result", r.call>>
  BY DEF holds

LEMMA CallHeld ==
  ASSUME NEW m, NEW c PROVE <<"call", c>> \in holds(m) <=> c \in m.calls
<1>1. \A d, e : <<"call", d>> = <<"call", e>> => d = e
  OBVIOUS
<1>2. \A d, e : <<"call", d>> # <<"result", e>>
  OBVIOUS
<1> QED
  BY <1>1, <1>2, HoldsIs

LEMMA ResultHeld ==
  ASSUME NEW m, NEW c PROVE <<"result", c>> \in holds(m) <=> \E r \in m.results : r.call = c
<1>1. \A d, e : <<"result", d>> = <<"result", e>> => d = e
  OBVIOUS
<1>2. \A d, e : <<"call", d>> # <<"result", e>>
  OBVIOUS
<1> QED
  BY <1>1, <1>2, HoldsIs

\* A fact is of a call made or of one answered.
LEMMA FactOf ==
  ASSUME NEW m, NEW f \in holds(m)
  PROVE  \/ f[2] \in m.calls /\ f = <<"call", f[2]>>
         \/ f = <<"result", f[2]>> /\ \E r \in m.results : r.call = f[2]
<1>1. CASE \E c \in m.calls : f = <<"call", c>>
  <2>1. PICK c \in m.calls : f = <<"call", c>>
    BY <1>1
  <2>2. f[2] = c
    BY <2>1
  <2> QED
    BY <2>1, <2>2
<1>2. CASE \E r \in m.results : f = <<"result", r.call>>
  <2>1. PICK r \in m.results : f = <<"result", r.call>>
    BY <1>2
  <2>2. f[2] = r.call
    BY <2>1
  <2> QED
    BY <2>1, <2>2
<1> QED
  BY <1>1, <1>2, HoldsIs

LEMMA SameHeld ==
  ASSUME NEW m, NEW n, m.calls = n.calls,
         \A c : (\E r \in m.results : r.call = c) <=> (\E r \in n.results : r.call = c)
  PROVE  holds(m) = holds(n)
<1>1. ASSUME NEW f PROVE f \in holds(m) <=> f \in holds(n)
  <2>1. (\E r \in m.results : f = <<"result", r.call>>) <=> (\E r \in n.results : f = <<"result", r.call>>)
    OBVIOUS
  <2> QED
    BY <2>1, HoldsIs
<1> QED
  BY <1>1

LEMMA NothingHeld ==
  ASSUME NEW m, m.calls = {}, m.results = {} PROVE holds(m) = {}
  BY DEF holds

\* Every fact of a history whose ids were given out is of such an id.
LEMMA FactGiven ==
  ASSUME NEW h, NEW n, Given(h, n), NEW i \in 1..Len(h), NEW f \in holds(h[i]) PROVE f[2] \in 1..n
<1>1. h[i].calls \subseteq 1..n /\ \A r \in h[i].results : r.call \in 1..n
  BY DEF Given
<1> QED
  BY <1>1, FactOf

-----------------------------------------------------------------------------
(* What an attempt's histories hold: facts of the conversation it began     *)
(* with, and its own, which are new.                                        *)
IsPrompt(m, q) == m.role = "user" /\ poses(m, q) /\ (Len(m.pieces) = 1 \/ Last(m.pieces).steered)
\* Behind position k of b the fact is stored.
Past(b, k, f) == \E i \in 1..Len(b) : k < i /\ f \in holds(b[i])
\* b ends with a prompt nobody replied to.
Dangling(b) == \E d \in 1..Len(b) : b[d].pieces # <<>> /\ \A n \in 1..Len(b) : d <= n => b[n].role = "user"
Apart(h, own) == \A i \in 1..Len(h) : \A f \in holds(h[i]) : f[2] \notin own

\* In h the turn's prompt is at p: what is behind it is the attempt's own, and what
\* follows an earlier message with the same prompt follows one in the base too.
Sourced(h, p, own, base, q) ==
    /\ \A x \in 1..Len(h) : p < x => h[x].pieces = <<>> /\ \A f \in holds(h[x]) : f[2] \in own
    /\ \A x, y \in 1..Len(h) : p < x /\ x < y => holds(h[x]) \cap holds(h[y]) = {}
    /\ \A x \in 1..Len(h) : x <= p => \A f \in holds(h[x]) : Past(base, 0, f)
    /\ \A a \in 1..Len(h) : a < p /\ poses(h[a], q) =>
          \E k \in 1..Len(base) : poses(base[k], q) /\
             \A x \in 1..Len(h) : a < x /\ x <= p => \A f \in holds(h[x]) : Past(base, k, f)
    /\ IsPrompt(h[p], q) \/ Dangling(base)

\* What the attempt committed: its prompt, then messages of its own, none twice.
Attempt(c, own, q) ==
    /\ Len(c) # 0 /\ IsPrompt(c[1], q) /\ holds(c[1]) = {}
    /\ \A x \in 1..Len(c) : 1 < x => c[x].pieces = <<>> /\ \A f \in holds(c[x]) : f[2] \in own
    /\ \A x, y \in 1..Len(c) : x < y => holds(c[x]) \cap holds(c[y]) = {}

LEMMA SourcedChat ==
  ASSUME NEW base \in Seq(Message), NEW c \in Seq(Message), NEW h, Joined(h, base, c), NEW own, NEW q,
         Attempt(c, own, q)
  PROVE  Len(base) + 1 \in 1..Len(h) /\ Sourced(h, Len(base) + 1, own, base, q)
<1>0. PICK p : p = Len(base) + 1
  OBVIOUS
<1>1. /\ Len(base) \in Nat /\ Len(c) \in Nat /\ Len(h) = Len(base) + Len(c) /\ Len(c) # 0
  BY DEF Joined, Attempt
<1>2. /\ p \in 1..Len(h) /\ 1 \in 1..Len(c) /\ h[p] = c[1]
  BY <1>0, <1>1 DEF Joined
<1>3. \A x \in 1..Len(h) : p < x => x - Len(base) \in 1..Len(c) /\ 1 < x - Len(base) /\ h[x] = c[x - Len(base)]
  BY <1>0, <1>1 DEF Joined
<1>4. \A x \in 1..Len(h) : x < p => x \in 1..Len(base) /\ h[x] = base[x]
  BY <1>0, <1>1 DEF Joined
<1>5. ASSUME NEW x \in 1..Len(h), p < x PROVE h[x].pieces = <<>> /\ \A f \in holds(h[x]) : f[2] \in own
  BY <1>3, <1>5 DEF Attempt
<1>6. ASSUME NEW x \in 1..Len(h), NEW y \in 1..Len(h), p < x, x < y PROVE holds(h[x]) \cap holds(h[y]) = {}
  <2>1. p < y
    BY <1>0, <1>1, <1>6
  <2>2. PICK i, j : i = x - Len(base) /\ j = y - Len(base)
    OBVIOUS
  <2>3. i \in 1..Len(c) /\ j \in 1..Len(c) /\ i < j /\ h[x] = c[i] /\ h[y] = c[j]
    BY <2>1, <2>2, <1>1, <1>3, <1>6
  <2> QED
    BY <2>3 DEF Attempt
<1>7. ASSUME NEW x \in 1..Len(h), x <= p, NEW f \in holds(h[x]) PROVE x \in 1..Len(base) /\ f \in holds(base[x])
  <2>1. x # p
    BY <1>2, <1>7 DEF Attempt
  <2> QED
    BY <2>1, <1>0, <1>1, <1>4, <1>7
<1>8. ASSUME NEW x \in 1..Len(h), x <= p, NEW f \in holds(h[x]) PROVE Past(base, 0, f)
  <2>1. x \in 1..Len(base) /\ f \in holds(base[x])
    BY <1>7, <1>8
  <2>2. 0 < x
    BY <2>1
  <2> QED
    BY <2>1, <2>2 DEF Past
<1>9. ASSUME NEW a \in 1..Len(h), a < p, poses(h[a], q)
      PROVE  \E k \in 1..Len(base) : poses(base[k], q) /\
                \A x \in 1..Len(h) : a < x /\ x <= p => \A f \in holds(h[x]) : Past(base, k, f)
  <2>1. a \in 1..Len(base) /\ poses(base[a], q)
    BY <1>4, <1>9
  <2>2. \A x \in 1..Len(h) : a < x /\ x <= p => \A f \in holds(h[x]) : Past(base, a, f)
    BY <1>7 DEF Past
  <2> QED
    BY <2>1, <2>2
<1>a. IsPrompt(h[p], q)
  BY <1>2 DEF Attempt
<1>b. Sourced(h, p, own, base, q)
  BY <1>5, <1>6, <1>8, <1>9, <1>a DEF Sourced
<1> QED
  BY <1>0, <1>2, <1>b

\* Merging adjacent user messages keeps that: the prompt may join what no one replied to.
LEMMA SourcedCanonical ==
  ASSUME NEW base \in Seq(Message), NEW c \in Seq(Message), NEW h, Joined(h, base, c), NEW own, NEW q,
         Attempt(c, own, q), Ordered(h), Apart(base, own)
  PROVE  \E p \in 1..Len(canonical(h)) : Sourced(canonical(h), p, own, base, q)
<1>0. PICK n : n = Len(base) + 1
  OBVIOUS
<1>1. /\ h \in Seq(Message) /\ Len(base) \in Nat /\ Len(h) \in Nat /\ n \in 1..Len(h)
      /\ Sourced(h, n, own, base, q)
  <2>1. h \in Seq(Message)
    BY Zenon DEF Joined
  <2>2. n \in 1..Len(h) /\ Sourced(h, n, own, base, q)
    BY <1>0, SourcedChat
  <2> QED
    BY <2>1, <2>2
<1>2. /\ h[n] = c[1] /\ holds(h[n]) = {} /\ IsPrompt(h[n], q)
  <2>1. 1 \in 1..Len(c) /\ c[1] = h[n]
    BY <1>0 DEF Joined, Attempt
  <2> QED
    BY <2>1 DEF Attempt
<1>3. \A x \in 1..Len(h) : x < n => x \in 1..Len(base) /\ h[x] = base[x]
  <2>1. \A x \in 1..Len(h) : x < n => x \in 1..Len(base)
    BY <1>0, <1>1
  <2>2. \A x \in 1..Len(base) : h[x] = base[x]
    BY DEF Joined
  <2> QED
    BY <2>1, <2>2
<1>4. \A x \in 1..Len(h) : n < x => h[x].pieces = <<>> /\ \A f \in holds(h[x]) : f[2] \in own
  BY <1>1, Zenon DEF Sourced
<1>5. \A x, y \in 1..Len(h) : n < x /\ x < y => holds(h[x]) \cap holds(h[y]) = {}
  BY <1>1, Zenon DEF Sourced
<1>6. PICK at : Joins(canonical(h), h, Len(h), at)
  BY <1>1, CanonicalJoins
<1>7. PICK G : G = canonical(h)
  OBVIOUS
<1>8. /\ G \in Seq(Message) /\ at \in [1..Len(h) -> Nat]
      /\ \A i \in 1..Len(h) : /\ at[i] \in 1..Len(G) /\ G[at[i]].role = h[i].role
                              /\ G[at[i]].calls = h[i].calls
                              /\ h[i].results \subseteq G[at[i]].results
      /\ \A i, k \in 1..Len(h) : i <= k => at[i] <= at[k]
      /\ \A i, k \in 1..Len(h) : i < k /\ "assistant" \in {h[i].role, h[k].role} => at[i] < at[k]
      /\ \A x \in 1..Len(G) : \E i \in 1..Len(h) : at[i] = x
      /\ \A x \in 1..Len(G) : \A r \in G[x].results : \E i \in 1..Len(h) : at[i] = x /\ r \in h[i].results
  BY <1>6, <1>7, Zenon DEF Joins
<1>9. /\ \A x \in 1..Len(G) :
            (\A i \in 1..Len(h) : at[i] = x => h[i].pieces = <<>>) => G[x].pieces = <<>>
      /\ \A x \in 1..Len(G) : G[x].pieces # <<>> =>
            \E i \in 1..Len(h) : at[i] = x /\ EndsAlike(G[x], h[i])
      /\ \A i \in 1..Len(h) : AloneIn(h, Len(h), at, i) => G[at[i]].pieces = h[i].pieces
  BY <1>6, <1>7, Zenon DEF Joins
<1>a. PICK p : p = at[n]
  OBVIOUS
<1>b. p \in 1..Len(G) /\ \A i \in 1..Len(h) : at[i] \in Nat
  BY <1>1, <1>8, <1>a
\* A fact of a merged message is one of a message it is made of.
<1>c. ASSUME NEW x \in 1..Len(G), NEW f \in holds(G[x])
      PROVE  \E i \in 1..Len(h) : at[i] = x /\ f \in holds(h[i])
  <2>1. CASE f[2] \in G[x].calls /\ f = <<"call", f[2]>>
    <3>1. PICK i \in 1..Len(h) : at[i] = x
      BY <1>8
    <3>2. f[2] \in h[i].calls
      BY <2>1, <3>1, <1>8
    <3> QED
      BY <2>1, <3>1, <3>2, HoldsIs
  <2>2. CASE f = <<"result", f[2]>> /\ \E r \in G[x].results : r.call = f[2]
    <3>1. PICK r \in G[x].results : r.call = f[2]
      BY <2>2
    <3>2. PICK i \in 1..Len(h) : at[i] = x /\ r \in h[i].results
      BY <1>8
    <3> QED
      BY <2>2, <3>1, <3>2, HoldsIs
  <2> QED
    BY <2>1, <2>2, FactOf
<1>d. ASSUME NEW i \in 1..Len(h), NEW x, at[i] = x, p < x PROVE n < i
  <2>1. ~(i <= n)
    BY <1>1, <1>8, <1>a, <1>b, <1>d
  <2> QED
    BY <2>1, <1>1
<1>e. ASSUME NEW x \in 1..Len(G), p < x PROVE G[x].pieces = <<>> /\ \A f \in holds(G[x]) : f[2] \in own
  <2>1. \A i \in 1..Len(h) : at[i] = x => h[i].pieces = <<>> /\ \A f \in holds(h[i]) : f[2] \in own
    BY <1>4, <1>d, <1>e
  <2> QED
    BY <2>1, <1>9, <1>c
<1>f. ASSUME NEW x \in 1..Len(G), NEW y \in 1..Len(G), p < x, x < y PROVE holds(G[x]) \cap holds(G[y]) = {}
  <2> SUFFICES ASSUME NEW f \in holds(G[x]), f \in holds(G[y]) PROVE FALSE
    OBVIOUS
  <2>1. PICK i \in 1..Len(h) : at[i] = x /\ f \in holds(h[i])
    BY <1>c
  <2>2. PICK j \in 1..Len(h) : at[j] = y /\ f \in holds(h[j])
    BY <1>c
  <2>3. n < i
    BY <2>1, <1>d, <1>f
  <2>4. ~(j <= i)
    BY <2>1, <2>2, <1>8, <1>b, <1>f
  <2>5. i < j
    BY <2>4, <1>1
  <2> QED
    BY <2>1, <2>2, <2>3, <2>5, <1>5
\* What is at the prompt or before it comes from the base.
<1>g. ASSUME NEW x \in 1..Len(G), x <= p, NEW f \in holds(G[x])
      PROVE  \E i \in 1..Len(base) : i \in 1..Len(h) /\ at[i] = x /\ f \in holds(base[i])
  <2>1. PICK i \in 1..Len(h) : at[i] = x /\ f \in holds(h[i])
    BY <1>c
  <2>2. ASSUME n < i PROVE FALSE
    <3>1. at[i] = p
      BY <2>1, <2>2, <1>1, <1>8, <1>a, <1>b, <1>g
    <3>2. ~(h[i].role = "assistant")
      BY <2>2, <3>1, <1>1, <1>8, <1>a, <1>b
    <3>3. h[i] \in Message
      BY <1>1
    <3>4. h[i].calls = {}
      BY <3>2, <3>3, MessageParts
    <3>5. f[2] \in own /\ \E r \in h[i].results : r.call = f[2]
      BY <2>1, <2>2, <3>4, <1>4, FactOf
    <3>6. Backed(h, i, f[2])
      BY <3>5 DEF Ordered
    <3>7. PICK j \in 1..Len(h) : j < i /\ f[2] \in h[j].calls
      BY <3>6 DEF Backed
    <3>8. <<"call", f[2]>> \in holds(h[j])
      BY <3>7, CallHeld
    <3>9. ~(j < n)
      <4>1. ASSUME j < n PROVE FALSE
        <5>1. j \in 1..Len(base) /\ <<"call", f[2]>> \in holds(base[j])
          BY <3>8, <4>1, <1>3
        <5>2. PICK g : g = <<"call", f[2]>>
          OBVIOUS
        <5>3. g[2] = f[2] /\ g \in holds(base[j])
          BY <5>1, <5>2
        <5> QED
          BY <5>1, <5>3, <3>5 DEF Apart
      <4> QED
        BY <4>1
    <3>a. j # n
      BY <3>8, <1>2
    <3>b. n < j
      BY <3>9, <3>a, <1>1
    <3>c. h[j].role = "assistant"
      <4>1. h[j] \in Message
        BY <1>1
      <4> QED
        BY <3>7, <4>1, MessageParts
    <3>d. at[n] < at[j] /\ at[j] <= at[i]
      BY <3>7, <3>b, <3>c, <1>1, <1>8
    <3> QED
      BY <3>1, <3>d, <1>a, <1>b
  <2>3. i # n
    BY <2>1, <1>2
  <2>4. i < n
    BY <2>2, <2>3, <1>1
  <2> QED
    BY <2>1, <2>4, <1>3
<1>h. ASSUME NEW x \in 1..Len(G), x <= p, NEW f \in holds(G[x]) PROVE Past(base, 0, f)
  <2>1. PICK i \in 1..Len(base) : f \in holds(base[i])
    BY <1>g, <1>h
  <2>2. 0 < i
    BY <2>1
  <2> QED
    BY <2>1, <2>2 DEF Past
<1>i. ASSUME NEW a \in 1..Len(G), a < p, poses(G[a], q)
      PROVE  \E k \in 1..Len(base) : poses(base[k], q) /\
                \A x \in 1..Len(G) : a < x /\ x <= p => \A f \in holds(G[x]) : Past(base, k, f)
  <2>1. PICK k \in 1..Len(h) : at[k] = a /\ EndsAlike(G[a], h[k])
    BY <1>9, <1>i DEF poses
  <2>2. poses(h[k], q)
    BY <2>1, <1>i DEF poses, EndsAlike
  <2>3. ~(n <= k)
    BY <2>1, <1>1, <1>8, <1>a, <1>b, <1>i
  <2>4. k < n
    BY <2>3, <1>1
  <2>5. k \in 1..Len(base) /\ poses(base[k], q)
    BY <2>2, <2>4, <1>3
  <2>6. ASSUME NEW x \in 1..Len(G), a < x, x <= p, NEW f \in holds(G[x]) PROVE Past(base, k, f)
    <3>1. PICK i \in 1..Len(base) : i \in 1..Len(h) /\ at[i] = x /\ f \in holds(base[i])
      BY <1>g, <2>6
    <3>2. ~(i <= k)
      BY <2>1, <2>6, <3>1, <1>8, <1>b
    <3>3. k < i
      BY <3>1, <3>2, <1>1
    <3> QED
      BY <3>1, <3>3 DEF Past
  <2> QED
    BY <2>5, <2>6
<1>j. IsPrompt(G[p], q) \/ Dangling(base)
  <2>1. CASE AloneIn(h, Len(h), at, n)
    <3>1. G[p].pieces = h[n].pieces /\ G[p].role = h[n].role
      BY <2>1, <1>1, <1>8, <1>9, <1>a
    <3> QED
      BY <3>1, <1>2 DEF IsPrompt, poses
  <2>2. CASE ~AloneIn(h, Len(h), at, n)
    <3>1. PICK d \in 1..Len(h) : d # n /\ at[d] = at[n] /\ h[d].pieces # <<>>
      BY <2>2 DEF AloneIn
    <3>2. d < n
      BY <3>1, <1>1, <1>4
    <3>3. d \in 1..Len(base) /\ base[d].pieces # <<>>
      BY <3>1, <3>2, <1>3
    <3>4. ASSUME NEW m \in 1..Len(base), d <= m PROVE base[m].role = "user"
      <4>1. m \in 1..Len(h) /\ m < n
        BY <1>0, <1>1
      <4>2. at[d] <= at[m] /\ at[m] <= at[n]
        BY <3>4, <4>1, <1>1, <1>8
      <4>3. at[m] = at[n]
        BY <4>1, <4>2, <3>1, <1>1, <1>b
      <4>4. h[m].role = h[n].role
        BY <4>1, <4>3, <1>1, <1>8
      <4> QED
        BY <4>1, <4>4, <1>2, <1>3 DEF IsPrompt
    <3> QED
      BY <3>3, <3>4 DEF Dangling
  <2> QED
    BY <2>1, <2>2
<1>k. Sourced(G, p, own, base, q)
  BY <1>e, <1>f, <1>h, <1>i, <1>j DEF Sourced
<1> QED
  BY <1>7, <1>b, <1>k

LEMMA SourcedGrow ==
  ASSUME NEW h, NEW p, NEW own, NEW base, NEW q, Sourced(h, p, own, base, q), NEW more, own \subseteq more
  PROVE  Sourced(h, p, more, base, q)
<1>1. \A x \in 1..Len(h) : p < x => h[x].pieces = <<>> /\ \A f \in holds(h[x]) : f[2] \in more
  BY DEF Sourced
<1> QED
  BY <1>1, Zenon DEF Sourced

LEMMA AttemptGrow ==
  ASSUME NEW c \in Seq(Message), NEW m \in Message, NEW d, Longer(d, c, m), NEW own, NEW q, Attempt(c, own, q),
         NEW more, own \subseteq more, m.pieces = <<>>, \A f \in holds(m) : f[2] \in more,
         \A x \in 1..Len(c) : holds(c[x]) \cap holds(m) = {}
  PROVE  Attempt(d, more, q)
<1>1. /\ Len(c) \in Nat /\ Len(c) # 0 /\ Len(d) = Len(c) + 1 /\ d[Len(c) + 1] = m
      /\ \A i \in 1..Len(c) : d[i] = c[i]
      /\ \A i \in 1..Len(d) : i \in 1..Len(c) \/ i = Len(c) + 1
  BY DEF Longer, Attempt
<1>2. d[1] = c[1] /\ Len(d) # 0 /\ IsPrompt(d[1], q) /\ holds(d[1]) = {}
  <2>1. 1 \in 1..Len(c)
    BY <1>1
  <2> QED
    BY <2>1, <1>1 DEF Attempt
<1>3. ASSUME NEW x \in 1..Len(d), 1 < x PROVE d[x].pieces = <<>> /\ \A f \in holds(d[x]) : f[2] \in more
  <2>1. CASE x \in 1..Len(c)
    BY <2>1, <1>1, <1>3 DEF Attempt
  <2>2. CASE x = Len(c) + 1
    BY <2>2, <1>1
  <2> QED
    BY <2>1, <2>2, <1>1
<1>4. ASSUME NEW x \in 1..Len(d), NEW y \in 1..Len(d), x < y PROVE holds(d[x]) \cap holds(d[y]) = {}
  <2>1. x \in 1..Len(c)
    BY <1>1, <1>4
  <2>2. CASE y \in 1..Len(c)
    BY <2>1, <2>2, <1>1, <1>4 DEF Attempt
  <2>3. CASE y = Len(c) + 1
    BY <2>1, <2>3, <1>1
  <2> QED
    BY <2>2, <2>3, <1>1
<1> QED
  BY <1>2, <1>3, <1>4 DEF Attempt

-----------------------------------------------------------------------------
\* Each fact of w is the attempt's own, and there once, or follows k in the base.
Split(w, own, base, k) ==
    \A i \in 1..Len(w) : \A f \in holds(w[i]) :
       \/ f[2] \in own /\ \A j \in 1..Len(w) : f \in holds(w[j]) => j = i
       \/ Past(base, k, f)

LEMMA OwnIsNew ==
  ASSUME NEW base, NEW own, Apart(base, own), NEW f, f[2] \in own, NEW k PROVE ~Past(base, k, f)
  BY DEF Apart, Past

LEMMA AnsweredToo ==
  ASSUME NEW base \in Seq(Message), Closed(base, {}), NEW k \in Nat, NEW c, Past(base, k, <<"call", c>>)
  PROVE  Past(base, k, <<"result", c>>)
<1>1. PICK i \in 1..Len(base) : k < i /\ <<"call", c>> \in holds(base[i])
  BY DEF Past
<1>2. c \in base[i].calls
  BY <1>1, CallHeld
<1>3. PICK j \in 1..Len(base) : i < j /\ \E r \in base[j].results : r.call = c
  BY <1>2 DEF Closed, Answered
<1>4. <<"result", c>> \in holds(base[j]) /\ k < j
  BY <1>1, <1>3, ResultHeld
<1> QED
  BY <1>4 DEF Past

\* Closing the open calls adds results of calls that have none.
LEMMA FinishSplit ==
  ASSUME NEW w \in Seq(Message), stopped.text \in Seq(Nat), NEW base \in Seq(Message), Closed(base, {}),
         NEW own, NEW k \in Nat, Split(w, own, base, k)
  PROVE  Split(Finished(w), own, base, k)
<1>1. PICK F : F = Finished(w)
  OBVIOUS
<1>2. PICK off : FinishedParts(F, w, off)
  BY <1>1, FinishedHas
<1>3. \A i \in 1..Len(w) : F[off[i] + 1].calls = w[i].calls
  BY ONLY <1>2, Zenon DEF FinishedParts
<1>4. \A i \in 1..Len(w) :
         \A c : (\E r \in F[off[i] + 1].results : r.call = c) <=> (\E r \in w[i].results : r.call = c)
  BY ONLY <1>2, Zenon DEF FinishedParts
<1>5. \A p \in 1..Len(F) :
          \/ \E i \in 1..Len(w) : p = off[i] + 1
          \/ F[p].calls = {} /\ \E i \in 1..Len(w) :
                p = off[i] + 2 /\ \A r \in F[p].results : r.call \in w[i].calls /\ Unheard(w, r.call)
          \/ F[p].calls = {} /\ F[p].results = {}
  BY ONLY <1>2, Zenon DEF FinishedParts
<1>6. ASSUME NEW i \in 1..Len(w) PROVE holds(F[off[i] + 1]) = holds(w[i])
  BY <1>3, <1>4, SameHeld
\* Where a fact of the finished delta comes from.
<1>7. ASSUME NEW p \in 1..Len(F), NEW f \in holds(F[p])
      PROVE  \E i \in 1..Len(w) :
                \/ p = off[i] + 1 /\ f \in holds(w[i])
                \/ /\ p = off[i] + 2 /\ f = <<"result", f[2]>>
                   /\ <<"call", f[2]>> \in holds(w[i]) /\ Unheard(w, f[2])
  <2>1. CASE \E i \in 1..Len(w) : p = off[i] + 1
    BY <2>1, <1>6
  <2>2. CASE F[p].calls = {} /\ \E i \in 1..Len(w) :
                p = off[i] + 2 /\ \A r \in F[p].results : r.call \in w[i].calls /\ Unheard(w, r.call)
    <3>1. PICK i \in 1..Len(w) :
             p = off[i] + 2 /\ \A r \in F[p].results : r.call \in w[i].calls /\ Unheard(w, r.call)
      BY <2>2
    <3>2. f = <<"result", f[2]>> /\ \E r \in F[p].results : r.call = f[2]
      BY <2>2, FactOf
    <3>3. f[2] \in w[i].calls /\ Unheard(w, f[2])
      BY <3>1, <3>2
    <3> QED
      BY <3>1, <3>2, <3>3, CallHeld
  <2>3. CASE F[p].calls = {} /\ F[p].results = {}
    BY <2>3, NothingHeld
  <2> QED
    BY <2>1, <2>2, <2>3, <1>5
<1>8. ASSUME NEW i \in 1..Len(w), NEW c, Unheard(w, c) PROVE <<"result", c>> \notin holds(w[i])
  BY <1>8, ResultHeld DEF Unheard
<1>9. ASSUME NEW p \in 1..Len(F), NEW f \in holds(F[p])
      PROVE  \/ f[2] \in own /\ \A y \in 1..Len(F) : f \in holds(F[y]) => y = p
             \/ Past(base, k, f)
  <2>1. PICK i \in 1..Len(w) :
                \/ p = off[i] + 1 /\ f \in holds(w[i])
                \/ /\ p = off[i] + 2 /\ f = <<"result", f[2]>>
                   /\ <<"call", f[2]>> \in holds(w[i]) /\ Unheard(w, f[2])
    BY <1>7
  <2>2. CASE p = off[i] + 1 /\ f \in holds(w[i])
    <3>1. \/ f[2] \in own /\ \A j \in 1..Len(w) : f \in holds(w[j]) => j = i
          \/ Past(base, k, f)
      BY <2>2 DEF Split
    <3>2. ASSUME \A j \in 1..Len(w) : f \in holds(w[j]) => j = i, NEW y \in 1..Len(F), f \in holds(F[y])
          PROVE  y = p
      <4>1. PICK j \in 1..Len(w) :
                \/ y = off[j] + 1 /\ f \in holds(w[j])
                \/ /\ y = off[j] + 2 /\ f = <<"result", f[2]>>
                   /\ <<"call", f[2]>> \in holds(w[j]) /\ Unheard(w, f[2])
        BY <1>7, <3>2
      <4> QED
        BY <4>1, <2>2, <3>2, <1>8
    <3> QED
      BY <3>1, <3>2
  <2>3. CASE /\ p = off[i] + 2 /\ f = <<"result", f[2]>>
             /\ <<"call", f[2]>> \in holds(w[i]) /\ Unheard(w, f[2])
    <3>1. PICK g : g = <<"call", f[2]>>
      OBVIOUS
    <3>2. g \in holds(w[i]) /\ g[2] = f[2]
      BY <2>3, <3>1
    <3>3. CASE Past(base, k, g)
      <4>1. Past(base, k, <<"result", f[2]>>)
        BY <3>1, <3>3, AnsweredToo
      <4> QED
        BY <4>1, <2>3
    <3>4. CASE g[2] \in own /\ \A j \in 1..Len(w) : g \in holds(w[j]) => j = i
      <4>1. ASSUME NEW y \in 1..Len(F), f \in holds(F[y]) PROVE y = p
        <5>1. PICK j \in 1..Len(w) :
                \/ y = off[j] + 1 /\ f \in holds(w[j])
                \/ /\ y = off[j] + 2 /\ f = <<"result", f[2]>>
                   /\ <<"call", f[2]>> \in holds(w[j]) /\ Unheard(w, f[2])
          BY <1>7, <4>1
        <5>2. f \notin holds(w[j])
          BY <2>3, <1>8
        <5>3. y = off[j] + 2 /\ g \in holds(w[j])
          BY <5>1, <5>2, <3>1
        <5> QED
          BY <5>3, <3>4, <2>3
      <4> QED
        BY <4>1, <3>2, <3>4
    <3> QED
      BY <3>2, <3>3, <3>4 DEF Split
  <2> QED
    BY <2>1, <2>2, <2>3
<1> QED
  BY <1>1, <1>9 DEF Split

LEMMA FinishStarts ==
  ASSUME NEW w \in Seq(Message), stopped.text \in Seq(Nat), Len(w) # 0
  PROVE  Finished(w)[1].pieces = w[1].pieces /\ 1 \in 1..Len(Finished(w))
<1>1. PICK F : F = Finished(w)
  OBVIOUS
<1>2. PICK off : FinishedParts(F, w, off)
  BY <1>1, FinishedHas
<1>3. off[1] = 0
  BY ONLY <1>2, Len(w) # 0, Zenon DEF FinishedParts
<1>4. \A i \in 1..Len(w) : off[i] + 1 \in 1..Len(F) /\ F[off[i] + 1].pieces = w[i].pieces
  BY ONLY <1>2, Zenon DEF FinishedParts
<1>5. 1 \in 1..Len(w) /\ off[1] + 1 = 1
  BY <1>3
<1>6. off[1] + 1 \in 1..Len(F) /\ F[off[1] + 1].pieces = w[1].pieces
  BY <1>4, <1>5
<1> QED
  BY <1>1, <1>5, <1>6

-----------------------------------------------------------------------------
\* drop_stored_results leaves no result in the prompt's message that is stored.
LEMMA DropDrops ==
  ASSUME NEW cut \in Seq(Message), Len(cut) # 0, cut[1].pieces # <<>>, cut[1].role = "user", NEW stored
  PROVE  \A r \in drop_stored_results(cut, stored)[1].results : r.call \notin stored
<1>1. PICK head, kept : head = Head(cut) /\ kept = {r \in head.results : r.call \notin stored}
  OBVIOUS
<1>2. PICK D : D = drop_stored_results(cut, stored)
  OBVIOUS
<1>3. D = IF cut = <<>> \/ head.role # "user" THEN cut
          ELSE IF kept = head.results THEN cut
          ELSE IF kept = {} /\ head.pieces = <<>> THEN Tail(cut)
          ELSE <<User(head.pieces, kept)>> \o Tail(cut)
  BY <1>1, <1>2, Zenon DEF drop_stored_results
<1>4. cut # <<>> /\ head = cut[1] /\ cut[1] \in Message
  BY <1>1
<1>5. D = IF kept = head.results THEN cut ELSE <<User(head.pieces, kept)>> \o Tail(cut)
  BY <1>3, <1>4
<1>6. \A r \in kept : r.call \notin stored
  BY <1>1
<1>7. CASE kept = head.results
  BY <1>2, <1>4, <1>5, <1>6, <1>7
<1>8. CASE kept # head.results
  <2>1. PICK u : u = User(head.pieces, kept)
    OBVIOUS
  <2>2. head.pieces \in Seq(Piece) /\ head.results \in SUBSET Result
    BY <1>4, MessageParts
  <2>3. kept \in SUBSET Result
    BY <2>2, <1>1
  <2>4. u \in Message /\ u.results = kept
    BY <2>1, <2>2, <2>3, UserMessage, UserParts
  <2>5. D = <<u>> \o Tail(cut)
    BY <1>5, <1>8, <2>1
  <2>6. D[1] = u
    BY <2>4, <2>5, <1>4
  <2> QED
    BY <2>4, <2>6, <1>2, <1>6
<1> QED
  BY <1>7, <1>8

-----------------------------------------------------------------------------
\* Each fact of D is new and there once; or D begins with the prompt of an attempt
\* whose base b ends with a prompt nobody replied to, and the fact follows a message
\* of b that asks the same.
Explained(D, b, q) ==
    \A j \in 1..Len(D) : \A f \in holds(D[j]) :
       \/ ~Past(b, 0, f) /\ \A i \in 1..Len(D) : f \in holds(D[i]) => i = j
       \/ /\ \E k \in 1..Len(b) : poses(b[k], q) /\ Past(b, k, f)
          /\ Dangling(b) /\ D[1].pieces # <<>>

\* Where the anchor is: at the turn's prompt, or before it when it was merged.
LEMMA AnchorSourced ==
  ASSUME NEW h \in Seq(Message), NEW own, NEW base, NEW p \in 1..Len(h), Sourced(h, p, own, base, prompt),
         NEW a, a = prompt_anchor(h), a # 0
  PROVE  /\ a \in 1..Len(h) /\ a <= p /\ h[a].role = "user" /\ poses(h[a], prompt)
         /\ a = p \/ (a < p /\ Dangling(base))
<1>1. Len(h) \in Nat
  OBVIOUS
<1>2. a \in 0..Len(h) /\ is_prompt(h[a]) /\ \A i \in 1..Len(h) : is_prompt(h[i]) => i <= a
  BY <1>1, AnchorIs
<1>3. a \in 1..Len(h) /\ h[a].role = "user" /\ poses(h[a], prompt)
  BY <1>1, <1>2 DEF is_prompt, poses
<1>4. ~(p < a)
  <2>1. \A x \in 1..Len(h) : p < x => h[x].pieces = <<>>
    BY Zenon DEF Sourced
  <2> QED
    BY <2>1, <1>3 DEF poses
<1>5. ASSUME IsPrompt(h[p], prompt) PROVE p <= a
  <2>1. is_prompt(h[p])
    BY <1>5 DEF IsPrompt, is_prompt, poses
  <2> QED
    BY <2>1, <1>2
<1>6. IsPrompt(h[p], prompt) \/ Dangling(base)
  BY Zenon DEF Sourced
<1> QED
  BY <1>1, <1>3, <1>4, <1>5, <1>6

\* What recovery finishes before it closes the calls, from a history it was told.
LEMMA WholeSplit ==
  ASSUME NEW h \in Seq(Message), NEW own, NEW base \in Seq(Message), Apart(base, own), recorded \subseteq own,
         NEW p \in 1..Len(h), Sourced(h, p, own, base, prompt),
         NEW w, NEW delta, NEW a, NEW s, a = prompt_anchor(h),
         delta = drop_stored_results(CutAt(h, a), answered_call_ids(base)),
         DeltaFrom(delta, h, a), Whole(w, delta, missing_tool_calls(delta), s), Len(delta) # 0 => s = 0
  PROVE  \E k \in Nat :
            /\ Split(w, own, base, k)
            /\ k = Len(base) \/ /\ k \in 1..Len(base) /\ poses(base[k], prompt) /\ Dangling(base)
                                /\ Len(w) # 0 /\ w[1].pieces # <<>>
<1>1. /\ delta \in Seq(Message) /\ Len(h) \in Nat /\ Len(base) \in Nat /\ Len(delta) \in Nat
      /\ p \in Nat
  BY DEF DeltaFrom
<1>2. /\ Len(delta) # 0 => /\ a \in 1..Len(h) /\ Len(delta) = Len(h) - a + 1 /\ h[a].pieces # <<>>
      /\ \A k \in 1..Len(delta) :
          /\ a + k - 1 \in 1..Len(h) /\ delta[k].calls = h[a + k - 1].calls
          /\ delta[k].pieces = h[a + k - 1].pieces
          /\ delta[k].results \subseteq h[a + k - 1].results
          /\ k # 1 => delta[k].results = h[a + k - 1].results
  BY Zenon DEF DeltaFrom
<1>3. /\ w \in Seq(Message) /\ s \in Nat
      /\ \A k \in 1..Len(delta) : s + k \in 1..Len(w) /\ w[s + k] = delta[k]
      /\ \A i \in 1..Len(w) : \/ i - s \in 1..Len(delta) /\ w[i] = delta[i - s]
                              \/ w[i].results = {} /\ w[i].calls \subseteq missing_tool_calls(delta)
      /\ \A i, j \in 1..Len(w) :
            i - s \notin 1..Len(delta) /\ j - s \notin 1..Len(delta)
               /\ w[i].calls # {} /\ w[j].calls # {} => i = j
  BY Zenon DEF Whole
\* A position of the delta, or the one with the missing calls.
<1>4. ASSUME NEW i \in 1..Len(w), NEW f \in holds(w[i])
      PROVE  \/ i \in 1..Len(delta) /\ w[i] = delta[i] /\ s = 0
             \/ /\ i - s \notin 1..Len(delta) /\ w[i].calls # {}
                /\ f = <<"call", f[2]>> /\ f[2] \in missing_tool_calls(delta)
  <2>1. CASE i - s \in 1..Len(delta)
    <3>1. s = 0
      BY <2>1, <1>1
    <3>2. i - s = i
      BY <3>1
    <3>3. w[i] = delta[i]
      BY <3>1, <3>2, <2>1, <1>3
    <3> QED
      BY <2>1, <3>1, <3>2, <3>3
  <2>2. CASE i - s \notin 1..Len(delta)
    <3>1. w[i].results = {} /\ w[i].calls \subseteq missing_tool_calls(delta)
      BY <2>2, <1>3
    <3>2. f[2] \in w[i].calls /\ f = <<"call", f[2]>>
      BY <3>1, <1>4, FactOf
    <3> QED
      BY <2>2, <3>1, <3>2
  <2> QED
    BY <2>1, <2>2
<1>5. \A f, i : i \in 1..Len(delta) /\ f = <<"call", f[2]>> /\ f[2] \in missing_tool_calls(delta) => f \notin holds(delta[i])
  <2> SUFFICES ASSUME NEW f, NEW i \in 1..Len(delta), f = <<"call", f[2]>>,
                      f[2] \in missing_tool_calls(delta), f \in holds(delta[i])
               PROVE  FALSE
    OBVIOUS
  <2>1. f[2] \in delta[i].calls
    BY CallHeld
  <2>2. f[2] \in call_ids(delta)
    BY <2>1, <1>1, CallIdsIs
  <2> QED
    BY <2>2 DEF missing_tool_calls
\* The missing calls are the attempt's own and are together in one message.
<1>6. ASSUME NEW i \in 1..Len(w), NEW f \in holds(w[i]), i - s \notin 1..Len(delta), w[i].calls # {},
             f = <<"call", f[2]>>, f[2] \in missing_tool_calls(delta)
      PROVE  f[2] \in own /\ \A j \in 1..Len(w) : f \in holds(w[j]) => j = i
  <2>1. f[2] \in own
    BY <1>1, <1>6, MissingIs
  <2>2. ASSUME NEW j \in 1..Len(w), f \in holds(w[j]) PROVE j = i
    <3>1. \/ j \in 1..Len(delta) /\ w[j] = delta[j]
          \/ j - s \notin 1..Len(delta) /\ w[j].calls # {}
      BY <2>2, <1>4
    <3>2. ~(j \in 1..Len(delta) /\ w[j] = delta[j])
      BY <2>2, <1>5, <1>6
    <3> QED
      BY <3>1, <3>2, <1>3, <1>6
  <2> QED
    BY <2>1, <2>2
<1>7. CASE Len(delta) = 0
  <2>1. Split(w, own, base, Len(base))
    <3>1. \A i \in 1..Len(w) : \A f \in holds(w[i]) :
             f[2] \in own /\ \A j \in 1..Len(w) : f \in holds(w[j]) => j = i
      BY <1>7, <1>4, <1>6
    <3> QED
      BY <3>1 DEF Split
  <2> QED
    BY <2>1, <1>1
<1>8. CASE Len(delta) # 0
  <2>0. a \in 1..Len(h) /\ a # 0 /\ a \in Nat /\ s = 0
    BY <1>2, <1>8
  <2>1. /\ a <= p /\ h[a].role = "user" /\ poses(h[a], prompt)
        /\ a = p \/ (a < p /\ Dangling(base))
    BY <2>0, AnchorSourced
  <2>2. /\ \A x \in 1..Len(h) : p < x => \A f \in holds(h[x]) : f[2] \in own
        /\ \A x, y \in 1..Len(h) : p < x /\ x < y => holds(h[x]) \cap holds(h[y]) = {}
        /\ \A x \in 1..Len(h) : x <= p => \A f \in holds(h[x]) : Past(base, 0, f)
        /\ \A b \in 1..Len(h) : b < p /\ poses(h[b], prompt) =>
              \E k \in 1..Len(base) : poses(base[k], prompt) /\
                 \A x \in 1..Len(h) : b < x /\ x <= p => \A f \in holds(h[x]) : Past(base, k, f)
    BY Zenon DEF Sourced
  <2>3. 1 \in 1..Len(delta) /\ 1 \in 1..Len(w) /\ w[1] = delta[1] /\ a + 1 - 1 = a
    <3>1. 1 \in 1..Len(delta) /\ s + 1 = 1
      BY <1>1, <1>8, <2>0
    <3> QED
      BY <3>1, <1>3, <2>0
  <2>4. w[1].pieces # <<>> /\ Len(w) # 0
    <3>1. delta[1].pieces = h[a].pieces
      BY <2>3, <1>2
    <3> QED
      BY <3>1, <2>3, <1>2, <1>8
\* The results at the anchor come from the base, so they are stored and dropped.
  <2>5. holds(delta[1]) = {}
    <3> SUFFICES ASSUME NEW f \in holds(delta[1]) PROVE FALSE
      OBVIOUS
    <3>1. delta[1].calls = h[a].calls /\ delta[1].results \subseteq h[a].results
      BY <2>3, <1>2
    <3>2. h[a] \in Message
      BY <2>0
    <3>3. delta[1].calls = {}
      BY <2>1, <3>1, <3>2, MessageParts
    <3>4. f = <<"result", f[2]>> /\ \E r \in delta[1].results : r.call = f[2]
      BY <3>3, FactOf
    <3>5. f \in holds(h[a])
      BY <3>1, <3>4, ResultHeld
    <3>6. Past(base, 0, f)
      BY <3>5, <2>0, <2>1, <2>2
    <3>7. PICK n \in 1..Len(base) : f \in holds(base[n])
      BY <3>6 DEF Past
    <3>8. \E r \in base[n].results : r.call = f[2]
      BY <3>4, <3>7, ResultHeld
    <3>9. f[2] \in answered_call_ids(base)
      <4>1. DOMAIN base = 1..Len(base)
        OBVIOUS
      <4> QED
        BY <3>8, <4>1 DEF answered_call_ids
    <3>a. PICK cut : cut = CutAt(h, a)
      OBVIOUS
    <3>b. /\ cut \in Seq(Message) /\ Len(cut) = Len(h) - a + 1
          /\ \A i \in 1..(Len(h) - a + 1) : cut[i] = h[a + i - 1]
      BY <3>a, <2>0, CutIs DEF CutAt
    <3>c. Len(cut) # 0 /\ cut[1] = h[a]
      <4>1. 1 \in 1..(Len(h) - a + 1)
        BY <1>1, <2>0
      <4> QED
        BY <4>1, <3>b, <2>3
    <3>d. \A r \in delta[1].results : r.call \notin answered_call_ids(base)
      BY <3>a, <3>b, <3>c, <2>1, DropDrops DEF poses
    <3> QED
      BY <3>4, <3>9, <3>d
\* A fact of the delta is one of the history, behind the anchor.
  <2>6. ASSUME NEW i \in 1..Len(delta), NEW f \in holds(delta[i])
        PROVE  a + i - 1 \in 1..Len(h) /\ a < a + i - 1 /\ f \in holds(h[a + i - 1])
    <3>1. i # 1
      BY <2>5, <2>6
    <3>2. /\ a + i - 1 \in 1..Len(h) /\ delta[i].calls = h[a + i - 1].calls
          /\ delta[i].results = h[a + i - 1].results
      BY <3>1, <1>2
    <3>3. f \in holds(h[a + i - 1])
      BY <3>2, <2>6, HoldsIs
    <3> QED
      BY <3>1, <3>2, <3>3, <2>0
  <2>7. ASSUME NEW i \in 1..Len(w), NEW f \in holds(w[i]), i \in 1..Len(delta), w[i] = delta[i],
               NEW x, x = a + i - 1, p < x
        PROVE  f[2] \in own /\ \A j \in 1..Len(w) : f \in holds(w[j]) => j = i
    <3>1. x \in 1..Len(h) /\ f \in holds(h[x])
      BY <2>6, <2>7
    <3>2. f[2] \in own
      BY <3>1, <2>2, <2>7
    <3>3. ASSUME NEW j \in 1..Len(w), f \in holds(w[j]) PROVE j = i
      <4>1. j \in 1..Len(delta) /\ w[j] = delta[j]
        BY <3>3, <2>7, <1>4, <1>5
      <4>2. PICK y : y = a + j - 1
        OBVIOUS
      <4>3. y \in 1..Len(h) /\ f \in holds(h[y])
        BY <4>1, <4>2, <3>3, <2>6
      <4>4. ~(y <= p)
        BY <4>3, <3>2, <2>2, OwnIsNew
      <4>5. ~(x < y) /\ ~(y < x)
        <5>1. p < x /\ p < y
          BY <4>3, <4>4, <2>7, <1>1
        <5>2. f \in holds(h[x]) \cap holds(h[y])
          BY <3>1, <4>3
        <5> QED
          BY <5>1, <5>2, <3>1, <4>3, <2>2
      <4>6. x = y
        BY <4>5, <3>1, <4>3
      <4> QED
        BY <4>2, <4>6, <2>0, <2>7, <4>1
    <3> QED
      BY <3>2, <3>3
  <2>8. ASSUME NEW k \in Nat,
               \A x \in 1..Len(h) : a < x /\ x <= p => \A f \in holds(h[x]) : Past(base, k, f)
        PROVE  Split(w, own, base, k)
    <3>1. ASSUME NEW i \in 1..Len(w), NEW f \in holds(w[i])
          PROVE  \/ f[2] \in own /\ \A j \in 1..Len(w) : f \in holds(w[j]) => j = i
                 \/ Past(base, k, f)
      <4>1. CASE i \in 1..Len(delta) /\ w[i] = delta[i]
        <5>1. PICK x : x = a + i - 1
          OBVIOUS
        <5>2. x \in 1..Len(h) /\ a < x /\ f \in holds(h[x])
          BY <4>1, <5>1, <3>1, <2>6
        <5>3. CASE p < x
          BY <4>1, <5>1, <5>3, <3>1, <2>7
        <5>4. CASE ~(p < x)
          <6>1. x <= p
            BY <5>2, <5>4, <1>1
          <6> QED
            BY <6>1, <5>2, <2>8
        <5> QED
          BY <5>3, <5>4
      <4>2. CASE /\ i - s \notin 1..Len(delta) /\ w[i].calls # {}
                 /\ f = <<"call", f[2]>> /\ f[2] \in missing_tool_calls(delta)
        BY <4>2, <3>1, <1>6
      <4> QED
        BY <4>1, <4>2, <3>1, <1>4
    <3> QED
      BY <3>1 DEF Split
  <2>9. CASE a = p
    <3>1. \A x \in 1..Len(h) : ~(a < x /\ x <= p)
      BY <2>9, <1>1
    <3>2. Split(w, own, base, Len(base))
      BY <3>1, <2>8, <1>1
    <3> QED
      BY <3>2, <1>1
  <2>a. CASE a < p /\ Dangling(base)
    <3>1. PICK k \in 1..Len(base) : poses(base[k], prompt) /\
                 \A x \in 1..Len(h) : a < x /\ x <= p => \A f \in holds(h[x]) : Past(base, k, f)
      BY <2>0, <2>1, <2>2, <2>a
    <3>2. Split(w, own, base, k) /\ k \in Nat
      BY <3>1, <2>8
    <3> QED
      BY <3>1, <3>2, <2>4, <2>a
  <2> QED
    BY <2>1, <2>9, <2>a
<1> QED
  BY <1>7, <1>8

-----------------------------------------------------------------------------
\* Recovery explains each fact it is about to save.
LEMMA DeltaExplained ==
  ASSUME stopped.history \in Seq(Message), stopped.text \in Seq(Nat), RecordsTyped, prompt \in Prompted,
         NEW own, recorded \subseteq own, NEW base \in Seq(Message), Closed(base, {}), Apart(base, own),
         stopped.history = <<>> \/ \E p \in 1..Len(stopped.history) : Sourced(stopped.history, p, own, base, prompt)
  PROVE  Explained(turn_delta(answered_call_ids(base)), base, prompt)
<1>0. PICK h : h = stopped.history
  OBVIOUS
<1>1. PICK w, delta, a, s :
            /\ turn_delta(answered_call_ids(base)) = Finished(w)
            /\ a = prompt_anchor(h)
            /\ delta = drop_stored_results(CutAt(h, a), answered_call_ids(base))
            /\ DeltaFrom(delta, h, a)
            /\ Whole(w, delta, missing_tool_calls(delta), s)
            /\ Len(delta) # 0 => s = 0
  BY <1>0, WholeIs
<1>2. h \in Seq(Message) /\ Len(base) \in Nat /\ w \in Seq(Message)
  <2>1. w \in Seq(Message)
    BY <1>1, Zenon DEF Whole
  <2> QED
    BY <2>1, <1>0
<1>3. PICK k \in Nat :
            /\ Split(w, own, base, k)
            /\ k = Len(base) \/ /\ k \in 1..Len(base) /\ poses(base[k], prompt) /\ Dangling(base)
                                /\ Len(w) # 0 /\ w[1].pieces # <<>>
  <2>1. CASE h = <<>>
\* Nothing was reported: only the missing calls are saved.
    <3>1. Len(delta) = 0
      <4>1. Len(h) = 0
        BY <2>1
      <4>2. Len(delta) # 0 => a \in 1..Len(h)
        BY <1>1, Zenon DEF DeltaFrom
      <4> QED
        BY <4>1, <4>2
    <3>2. Split(w, own, base, Len(base))
      <4>0. missing_tool_calls(delta) \subseteq own
        <5>1. delta \in Seq(Message)
          BY <1>1, Zenon DEF DeltaFrom
        <5> QED
          BY <5>1, MissingIs
      <4>1. /\ \A i \in 1..Len(w) : \/ i - s \in 1..Len(delta) /\ w[i] = delta[i - s]
                                    \/ w[i].results = {} /\ w[i].calls \subseteq missing_tool_calls(delta)
            /\ \A i, j \in 1..Len(w) :
                  i - s \notin 1..Len(delta) /\ j - s \notin 1..Len(delta)
                     /\ w[i].calls # {} /\ w[j].calls # {} => i = j
        BY <1>1, Zenon DEF Whole
      <4>2. \A i : i - s \notin 1..Len(delta)
        BY <3>1
      <4>3. \A i \in 1..Len(w) : w[i].results = {} /\ w[i].calls \subseteq own
        BY <4>0, <4>1, <4>2
      <4>4. \A i \in 1..Len(w) : \A f \in holds(w[i]) : f[2] \in own /\ w[i].calls # {}
        BY <4>3, FactOf
      <4>5. \A i, j \in 1..Len(w) : w[i].calls # {} /\ w[j].calls # {} => i = j
        BY <4>1, <4>2
      <4> QED
        BY <4>4, <4>5 DEF Split
    <3> QED
      BY <3>2, <1>2
  <2>2. CASE \E p \in 1..Len(h) : Sourced(h, p, own, base, prompt)
    <3>1. PICK p \in 1..Len(h) : Sourced(h, p, own, base, prompt)
      BY <2>2
    <3> QED
      BY <3>1, <1>1, <1>2, WholeSplit
  <2> QED
    BY <2>1, <2>2, <1>0
<1>4. PICK D : D = turn_delta(answered_call_ids(base))
  OBVIOUS
<1>5. D = Finished(w) /\ Split(D, own, base, k)
  BY <1>1, <1>2, <1>3, <1>4, FinishSplit
<1>6. ASSUME NEW j \in 1..Len(D), NEW f \in holds(D[j])
      PROVE  \/ ~Past(base, 0, f) /\ \A i \in 1..Len(D) : f \in holds(D[i]) => i = j
             \/ /\ \E n \in 1..Len(base) : poses(base[n], prompt) /\ Past(base, n, f)
                /\ Dangling(base) /\ D[1].pieces # <<>>
  <2>1. \/ f[2] \in own /\ \A i \in 1..Len(D) : f \in holds(D[i]) => i = j
        \/ Past(base, k, f)
    BY <1>5, <1>6 DEF Split
  <2>2. CASE f[2] \in own /\ \A i \in 1..Len(D) : f \in holds(D[i]) => i = j
    BY <2>2, OwnIsNew
  <2>3. CASE Past(base, k, f)
    <3>1. k # Len(base)
      BY <2>3, <1>2 DEF Past
    <3>2. /\ k \in 1..Len(base) /\ poses(base[k], prompt) /\ Dangling(base)
          /\ Len(w) # 0 /\ w[1].pieces # <<>>
      BY <3>1, <1>3
    <3>3. D[1].pieces # <<>>
      BY <3>2, <1>2, <1>5, FinishStarts
    <3> QED
      BY <2>3, <3>2, <3>3
  <2> QED
    BY <2>1, <2>2, <2>3
<1> QED
  BY <1>4, <1>6 DEF Explained

-----------------------------------------------------------------------------
(* The log grows by what is explained.                                      *)
Prefixed(b, m) == Len(b) <= Len(m) /\ \A i \in 1..Len(b) : b[i] = m[i]
\* RepeatsNeedMerge of the entries e.
TogetherIn(e, d, s) ==
    /\ d < s /\ e[d].msg.pieces # <<>> /\ e[s].msg.pieces # <<>>
    /\ \A n \in d..s : e[n].msg.role = "user"
MergedBefore(e, j, f) ==
    \E k, i, d, s \in 1..j :
       /\ k < i /\ i < s /\ f \in holds(e[i].msg) /\ poses(e[k].msg, TurnPrompts[e[j].by])
       /\ TogetherIn(e, d, s) /\ e[s].by = e[j].by
RepeatsIn(e) ==
    \A j \in 1..Len(e) : \A f \in holds(e[j].msg) :
       (\E i \in 1..(j - 1) : f \in holds(e[i].msg)) => MergedBefore(e, j, f)

LEMMA RepeatsAre ==
  ASSUME log \in Seq(Entry) PROVE RepeatsNeedMerge <=> RepeatsIn(log)
<1>1. DOMAIN log = 1..Len(log)
  OBVIOUS
<1>2. \A d, s : run_together(d, s) <=> TogetherIn(log, d, s)
  BY DEF run_together, TogetherIn
<1>3. \A j, f : (\E k, i, d, s \in 1..j :
                    /\ k < i /\ i < s /\ f \in holds(log[i].msg)
                    /\ poses(log[k].msg, TurnPrompts[log[j].by])
                    /\ run_together(d, s) /\ log[s].by = log[j].by) <=> MergedBefore(log, j, f)
  BY <1>2 DEF MergedBefore
<1>4. RepeatsNeedMerge <=>
        \A j \in 1..Len(log) : \A f \in holds(log[j].msg) :
          (\E i \in 1..(j - 1) : f \in holds(log[i].msg)) =>
            \E k, i, d, s \in 1..j :
               /\ k < i /\ i < s /\ f \in holds(log[i].msg)
               /\ poses(log[k].msg, TurnPrompts[log[j].by])
               /\ run_together(d, s) /\ log[s].by = log[j].by
  BY <1>1, Zenon DEF RepeatsNeedMerge
<1>5. ASSUME RepeatsNeedMerge, NEW j \in 1..Len(log), NEW f \in holds(log[j].msg),
             \E i \in 1..(j - 1) : f \in holds(log[i].msg)
      PROVE  MergedBefore(log, j, f)
  <2>1. \E k, i, d, s \in 1..j :
           /\ k < i /\ i < s /\ f \in holds(log[i].msg)
           /\ poses(log[k].msg, TurnPrompts[log[j].by])
           /\ run_together(d, s) /\ log[s].by = log[j].by
    BY <1>4, <1>5
  <2> QED
    BY ONLY <2>1, <1>3
<1>6. ASSUME RepeatsIn(log), NEW j \in 1..Len(log), NEW f \in holds(log[j].msg),
             \E i \in 1..(j - 1) : f \in holds(log[i].msg)
      PROVE  \E k, i, d, s \in 1..j :
                /\ k < i /\ i < s /\ f \in holds(log[i].msg)
                /\ poses(log[k].msg, TurnPrompts[log[j].by])
                /\ run_together(d, s) /\ log[s].by = log[j].by
  <2>1. MergedBefore(log, j, f)
    BY <1>6, Zenon DEF RepeatsIn
  <2> QED
    BY ONLY <2>1, <1>3
<1>7. RepeatsNeedMerge => RepeatsIn(log)
  BY <1>5 DEF RepeatsIn
<1>8. RepeatsIn(log) => RepeatsNeedMerge
  BY <1>4, <1>6
<1> QED
  BY <1>7, <1>8

\* e is g and then what the writer added, D.
Extends(e, g, writer, D) ==
    /\ Len(e) = Len(g) + Len(D)
    /\ \A i \in 1..Len(g) : e[i] = g[i]
    /\ \A i \in 1..Len(D) : e[Len(g) + i].msg = D[i] /\ e[Len(g) + i].by = writer

LEMMA RepeatsGrow ==
  ASSUME NEW g \in Seq(Entry), NEW D \in Seq(Message), NEW e, NEW writer, Extends(e, g, writer, D),
         NEW b \in Seq(Message), Len(b) = Len(g), \A i \in 1..Len(g) : b[i] = g[i].msg,
         Explained(D, b, TurnPrompts[writer]), RepeatsIn(g)
  PROVE  RepeatsIn(e)
<1>1. /\ Len(g) \in Nat /\ Len(D) \in Nat /\ Len(e) = Len(g) + Len(D)
      /\ \A i \in 1..Len(g) : e[i] = g[i]
      /\ \A i \in 1..Len(D) : e[Len(g) + i].msg = D[i] /\ e[Len(g) + i].by = writer
  <2>1. Len(g) \in Nat /\ Len(D) \in Nat
    OBVIOUS
  <2> QED
    BY <2>1, Zenon DEF Extends
<1>2. ASSUME NEW j \in 1..Len(e), NEW f \in holds(e[j].msg), NEW n \in 1..(j - 1), f \in holds(e[n].msg)
      PROVE  MergedBefore(e, j, f)
  <2>1. CASE j \in 1..Len(g)
    <3>1. n \in 1..Len(g) /\ e[j] = g[j] /\ e[n] = g[n]
      BY <2>1, <1>1
    <3>2. MergedBefore(g, j, f)
      BY <2>1, <3>1, <1>2 DEF RepeatsIn
    <3>3. PICK k, i, d, s \in 1..j :
             /\ k < i /\ i < s /\ f \in holds(g[i].msg) /\ poses(g[k].msg, TurnPrompts[g[j].by])
             /\ TogetherIn(g, d, s) /\ g[s].by = g[j].by
      BY <3>2 DEF MergedBefore
    <3>4. \A x \in 1..j : e[x] = g[x]
      BY <2>1, <1>1
    <3>5. TogetherIn(e, d, s)
      <4>1. \A x \in d..s : x \in 1..j
        BY <2>1, <1>1
      <4> QED
        BY <3>3, <3>4, <4>1 DEF TogetherIn
    <3> QED
      BY <3>3, <3>4, <3>5, <2>1 DEF MergedBefore
  <2>2. CASE j \notin 1..Len(g)
    <3>1. PICK y : y = j - Len(g)
      OBVIOUS
    <3>2. y \in 1..Len(D) /\ j = Len(g) + y
      BY <2>2, <3>1, <1>1
    <3>3. e[j].msg = D[y] /\ e[j].by = writer /\ f \in holds(D[y])
      BY <3>2, <1>1, <1>2
    <3>4. ASSUME ~Past(b, 0, f), \A i \in 1..Len(D) : f \in holds(D[i]) => i = y PROVE FALSE
      <4>1. CASE n \in 1..Len(g)
        <5>1. f \in holds(b[n]) /\ n \in 1..Len(b) /\ 0 < n
          BY <4>1, <1>1, <1>2
        <5> QED
          BY <5>1, <3>4 DEF Past
      <4>2. CASE n \notin 1..Len(g)
        <5>1. PICK z : z = n - Len(g)
          OBVIOUS
        <5>2. z \in 1..Len(D) /\ n = Len(g) + z /\ z < y
          BY <4>2, <5>1, <3>2, <1>1
        <5>3. f \in holds(D[z])
          BY <5>2, <1>1, <1>2
        <5> QED
          BY <5>2, <5>3, <3>2, <3>4
      <4> QED
        BY <4>1, <4>2
    <3>5. /\ \E k \in 1..Len(b) : poses(b[k], TurnPrompts[writer]) /\ Past(b, k, f)
          /\ Dangling(b) /\ D[1].pieces # <<>>
      BY <3>2, <3>3, <3>4 DEF Explained
    <3>6. PICK k \in 1..Len(g) : poses(b[k], TurnPrompts[writer]) /\ Past(b, k, f)
      BY <3>5
    <3>7. PICK i \in 1..Len(g) : k < i /\ f \in holds(b[i])
      BY <3>6 DEF Past
    <3>8. PICK d \in 1..Len(g) : b[d].pieces # <<>> /\ \A x \in 1..Len(g) : d <= x => b[x].role = "user"
      BY <3>5 DEF Dangling
    <3>9. PICK s : s = Len(g) + 1
      OBVIOUS
    <3>a. 1 \in 1..Len(D) /\ s \in 1..j /\ i < s /\ d < s /\ k \in 1..j /\ i \in 1..j /\ d \in 1..j
      BY <3>2, <3>9, <1>1
    <3>b. e[s].msg = D[1] /\ e[s].by = writer
      BY <3>9, <3>a, <1>1
    <3>c. D[1].role = "user"
      <4>1. D[1] \in Message
        BY <3>a
      <4> QED
        BY <4>1, <3>5, MessageParts
    <3>d. \A x \in d..s : x = s \/ (x \in 1..Len(g) /\ d <= x)
      BY <3>9, <1>1
    <3>e. \A x \in 1..Len(g) : e[x].msg = b[x]
      BY <1>1
    <3>f. TogetherIn(e, d, s)
      BY <3>5, <3>8, <3>a, <3>b, <3>c, <3>d, <3>e DEF TogetherIn
    <3>g. f \in holds(e[i].msg) /\ poses(e[k].msg, TurnPrompts[e[j].by]) /\ e[s].by = e[j].by
      BY <3>3, <3>6, <3>7, <3>b, <3>e
    <3> QED
      BY <3>7, <3>a, <3>f, <3>g DEF MergedBefore
  <2> QED
    BY <2>1, <2>2
<1> QED
  BY <1>2 DEF RepeatsIn

-----------------------------------------------------------------------------
(* The inductive invariant of where the facts of the log come from.         *)
Traced(h) == h = <<>> \/ \E p \in 1..Len(h) : Sourced(h, p, own_calls, run.base, prompt)
\* The run began with what the log holds, and its calls are its own until it saves.
OriginInv ==
    /\ Prefixed(run.base, Msgs(log)) /\ Apart(run.base, own_calls)
    /\ phase = "open" => pre_turn.count <= Len(log)
    /\ phase \in Running \cup {"recover"} => pre_turn.count <= Len(run.base)
    /\ phase \in Running \ {"saved"} => Apart(Msgs(log), own_calls)
AttemptInv ==
    /\ phase \in Running => Attempt(run.committed, own_calls, prompt)
    /\ \A c \in run.open : \A x \in 1..Len(run.committed) : <<"result", c>> \notin holds(run.committed[x])
SourcedInv ==
    /\ phase \in Running => Traced(snapshot)
    /\ phase = "recover" => Traced(stopped.history)
ExplainedInv ==
    phase = "extend" => /\ loaded.keys \subseteq 1..made.key
                        /\ Keys(log) = loaded.keys => Explained(loaded.delta, Msgs(log), prompt)
MergeInv == RepeatsIn(log) /\ OriginInv /\ AttemptInv /\ SourcedInv /\ ExplainedInv

LEMMA MergeParts ==
  ASSUME MergeInv PROVE RepeatsIn(log) /\ OriginInv /\ AttemptInv /\ SourcedInv /\ ExplainedInv
  BY DEF MergeInv

LEMMA NothingApart == \A own : Apart(<<>>, own)
  BY DEF Apart

\* Steps that leave the log and what the run has committed alone.
LEMMA MergeQuiet ==
  ASSUME MergeInv, UNCHANGED log,
         run'.base = run.base, run'.committed = run.committed, run'.open = run.open,
         phase' \in Running \cup {"recover"} => UNCHANGED <<turn, pre_turn>> /\ phase \in Running \cup {"recover"},
         phase' \in Running \ {"saved"} => phase \in Running \ {"saved"},
         phase' \in Running => phase \in Running /\ Traced(snapshot'),
         phase' = "recover" => Traced(stopped'.history),
         phase' \notin {"open", "extend"}
  PROVE  MergeInv'
<1>1. own_calls' = own_calls /\ Msgs(log') = Msgs(log)
  BY DEF own_calls, call_ids
<1>2. phase' \in Running \cup {"recover"} => prompt' = prompt
  BY DEF prompt
<1>3. OriginInv'
  <2>1. Prefixed(run'.base, Msgs(log')) /\ Apart(run'.base, own_calls')
    BY <1>1, MergeParts DEF OriginInv
  <2>2. phase' \in Running \cup {"recover"} => pre_turn'.count <= Len(run'.base)
    BY MergeParts DEF OriginInv
  <2>3. phase' \in Running \ {"saved"} => Apart(Msgs(log'), own_calls')
    BY <1>1, MergeParts DEF OriginInv
  <2> QED
    BY <2>1, <2>2, <2>3 DEF OriginInv
<1>4. AttemptInv'
  <2>1. phase' \in Running => Attempt(run'.committed, own_calls', prompt')
    BY <1>1, <1>2, MergeParts DEF AttemptInv
  <2> QED
    BY <2>1, MergeParts DEF AttemptInv
<1>5. SourcedInv'
  BY <1>1, <1>2 DEF SourcedInv, Traced
<1>6. ExplainedInv'
  BY DEF ExplainedInv
<1> QED
  BY <1>3, <1>4, <1>5, <1>6, MergeParts DEF MergeInv

\* Nothing is left of an attempt that ended.
LEMMA MergeEnd ==
  ASSUME LogTypes, MergeInv, NEW next \in {"idle", "attempt"}, EndAttempt(next), UNCHANGED log
  PROVE  MergeInv'
<1>1. phase' = next /\ run' = NoRun
  BY DEF EndAttempt
<1>2. run'.base = <<>> /\ run'.committed = <<>> /\ run'.open = {}
  BY <1>1 DEF NoRun
<1>3. OriginInv'
  <2>1. Apart(run'.base, own_calls') /\ Prefixed(run'.base, Msgs(log'))
    <3>1. Msgs(log') = Msgs(log) /\ Len(Msgs(log)) \in Nat
      BY TypesOf, MsgsTyped
    <3> QED
      BY <3>1, <1>2, NothingApart DEF Prefixed
  <2> QED
    BY <1>1, <2>1 DEF OriginInv, Running
<1>4. AttemptInv' /\ SourcedInv' /\ ExplainedInv'
  BY <1>1, <1>2 DEF AttemptInv, SourcedInv, ExplainedInv, Running
<1> QED
  BY <1>3, <1>4, MergeParts DEF MergeInv

-----------------------------------------------------------------------------
LEMMA ChatTraced ==
  ASSUME LogTypes, MergeInv, phase \in Running PROVE Traced(chat_history)
<1>1. Attempt(run.committed, own_calls, prompt)
  BY MergeParts DEF AttemptInv
<1>2. PICK h, b, c : h = chat_history /\ b = run.base /\ c = run.committed
  OBVIOUS
<1>3. Joined(h, b, c) /\ b \in Seq(Message) /\ c \in Seq(Message)
  BY <1>2, ChatJoined
<1>4. Len(b) + 1 \in 1..Len(h) /\ Sourced(h, Len(b) + 1, own_calls, b, prompt)
  BY <1>1, <1>2, <1>3, SourcedChat
<1> QED
  BY <1>2, <1>4 DEF Traced

\* What rig makes of a history of the run when it repairs it.
LEMMA CanonicalTraced ==
  ASSUME LogTypes, MergeInv, NEW c \in Seq(Message), NEW h, Joined(h, run.base, c), Ordered(h),
         Attempt(c, own_calls, prompt)
  PROVE  Traced(canonical(h))
<1>1. run.base \in Seq(Message) /\ Apart(run.base, own_calls)
  BY ChatJoined, MergeParts DEF OriginInv
<1>2. \E p \in 1..Len(canonical(h)) : Sourced(canonical(h), p, own_calls, run.base, prompt)
  BY <1>1, SourcedCanonical
<1> QED
  BY <1>2 DEF Traced

LEMMA OwnGiven ==
  ASSUME LogTypes, WorkInv
  PROVE  /\ own_calls \subseteq 1..made.call /\ run.open \subseteq own_calls
         /\ Given(run.committed, made.call) /\ Given(run.base, made.call) /\ Given(Msgs(log), made.call)
<1>1. /\ Given(run.committed, made.call) /\ Given(run.base, made.call) /\ Given(Msgs(log), made.call)
      /\ run.committed \in Seq(Message) /\ run.open \subseteq own_calls
  BY WorkParts, TypesOf, ChatTyped DEF GivenInv, OwnInv
<1>2. own_calls \subseteq 1..made.call
  BY <1>1, CallIdsIs DEF own_calls, Given
<1> QED
  BY <1>1, <1>2

LEMMA ApartMore ==
  ASSUME NEW h, NEW n \in Nat, Given(h, n), NEW own, Apart(h, own), NEW new, \A c \in new : c \notin 1..n
  PROVE  Apart(h, own \cup new)
<1>1. ASSUME NEW i \in 1..Len(h), NEW f \in holds(h[i]) PROVE f[2] \notin own \cup new
  <2>1. f[2] \in 1..n
    BY <1>1, FactGiven
  <2>2. f[2] \notin own
    BY <1>1 DEF Apart
  <2> QED
    BY <2>1, <2>2
<1> QED
  BY <1>1 DEF Apart

\* The run commits a message that answers the open calls or opens new ones.
LEMMA MergeCommit ==
  ASSUME LogTypes, WorkInv, MergeInv, phase \in {"calling", "tools"}, phase' \in {"ready", "tools", "saving"},
         NEW m \in Message, m.pieces = <<>>,
         run'.base = run.base, run'.committed = Append(run.committed, m), run'.open = m.calls,
         UNCHANGED <<log, snapshot, pre_turn, turn>>,
         made'.call \in Nat, made.call <= made'.call, m.calls \subseteq (made.call + 1)..made'.call,
         \A r \in m.results : r.call \in run.open
  PROVE  MergeInv'
<1>0. made.call \in Nat /\ run.committed \in Seq(Message) /\ phase \in Running /\ phase # "saved"
  BY MadeTyped, ChatJoined DEF Running
<1>1. /\ Longer(run'.committed, run.committed, m) /\ own_calls' = own_calls \cup m.calls
  BY Commits
<1>2. Msgs(log') = Msgs(log) /\ prompt' = prompt
  BY DEF prompt
<1>3. /\ own_calls \subseteq 1..made.call /\ run.open \subseteq own_calls
      /\ Given(run.committed, made.call) /\ Given(run.base, made.call) /\ Given(Msgs(log), made.call)
  BY OwnGiven
<1>4. \A c \in m.calls : c \notin 1..made.call
  BY <1>0
<1>5. OriginInv'
  <2>1. /\ Prefixed(run.base, Msgs(log)) /\ Apart(run.base, own_calls) /\ Apart(Msgs(log), own_calls)
        /\ pre_turn.count <= Len(run.base)
    BY <1>0, MergeParts DEF OriginInv
  <2>2. Apart(run.base, own_calls') /\ Apart(Msgs(log), own_calls')
    BY <2>1, <1>0, <1>1, <1>3, <1>4, ApartMore
  <2>3. Apart(run'.base, own_calls') /\ Apart(Msgs(log'), own_calls') /\ Prefixed(run'.base, Msgs(log'))
    BY <2>1, <2>2, <1>2
  <2> QED
    BY <2>1, <2>3 DEF OriginInv
<1>6. Attempt(run'.committed, own_calls', prompt')
  <2>1. Attempt(run.committed, own_calls, prompt)
    BY <1>0, MergeParts DEF AttemptInv
  <2>2. \A f \in holds(m) : f[2] \in own_calls'
    <3> SUFFICES ASSUME NEW f \in holds(m) PROVE f[2] \in own_calls'
      OBVIOUS
    <3>1. f[2] \in m.calls \/ \E r \in m.results : r.call = f[2]
      BY FactOf
    <3> QED
      BY <3>1, <1>1, <1>3
  <2>3. \A x \in 1..Len(run.committed) : holds(run.committed[x]) \cap holds(m) = {}
    <3> SUFFICES ASSUME NEW x \in 1..Len(run.committed), NEW f \in holds(run.committed[x]), f \in holds(m)
                 PROVE  FALSE
      OBVIOUS
    <3>1. f[2] \in 1..made.call
      BY <1>3, FactGiven
    <3>2. f = <<"result", f[2]>> /\ \E r \in m.results : r.call = f[2]
      BY <3>1, <1>4, FactOf
    <3>3. f[2] \in run.open
      BY <3>2
    <3>4. <<"result", f[2]>> \notin holds(run.committed[x])
      BY <3>3, MergeParts DEF AttemptInv
    <3> QED
      BY <3>2, <3>4
  <2>4. own_calls \subseteq own_calls'
    BY <1>1
  <2>5. Attempt(run'.committed, own_calls', prompt)
    BY <2>1, <2>2, <2>3, <2>4, <1>0, <1>1, AttemptGrow
  <2> QED
    BY <2>5, <1>2
<1>7. ASSUME NEW c \in run'.open, NEW x \in 1..Len(run'.committed)
      PROVE  <<"result", c>> \notin holds(run'.committed[x])
  <2> SUFFICES ASSUME <<"result", c>> \in holds(run'.committed[x]) PROVE FALSE
    OBVIOUS
  <2>1. PICK f : f = <<"result", c>>
    OBVIOUS
  <2>2. f[2] = c /\ c \notin 1..made.call /\ f \in holds(run'.committed[x])
    BY <2>1, <1>4, <1>7
  <2>3. CASE x \in 1..Len(run.committed)
    <3>1. f \in holds(run.committed[x])
      BY <2>2, <2>3, <1>1 DEF Longer
    <3> QED
      BY <3>1, <2>2, <2>3, <1>3, FactGiven
  <2>4. CASE x = Len(run.committed) + 1
    <3>1. <<"result", c>> \in holds(m)
      BY <2>4, <1>1 DEF Longer
    <3>2. \E r \in m.results : r.call = c
      BY <3>1, ResultHeld
    <3> QED
      BY <3>2, <2>2, <1>3
  <2> QED
    BY <2>3, <2>4, <1>1 DEF Longer
<1>8. AttemptInv'
  BY <1>6, <1>7 DEF AttemptInv
<1>9. SourcedInv'
  <2>1. Traced(snapshot)
    BY <1>0, MergeParts DEF SourcedInv
  <2>2. CASE snapshot = <<>>
    BY <2>2 DEF SourcedInv, Traced
  <2>3. CASE \E p \in 1..Len(snapshot) : Sourced(snapshot, p, own_calls, run.base, prompt)
    <3>1. PICK p \in 1..Len(snapshot) : Sourced(snapshot, p, own_calls, run.base, prompt)
      BY <2>3
    <3>2. own_calls \subseteq own_calls'
      BY <1>1
    <3>3. Sourced(snapshot, p, own_calls', run.base, prompt)
      BY <3>1, <3>2, SourcedGrow
    <3>4. Sourced(snapshot', p, own_calls', run'.base, prompt') /\ p \in 1..Len(snapshot')
      BY <3>3, <1>2
    <3> QED
      BY <3>4 DEF SourcedInv, Traced
  <2> QED
    BY <2>1, <2>2, <2>3 DEF Traced
<1>a. ExplainedInv' /\ RepeatsIn(log')
  BY MergeParts DEF ExplainedInv
<1> QED
  BY <1>5, <1>8, <1>9, <1>a DEF MergeInv

-----------------------------------------------------------------------------
LEMMA BeginMerge ==
  ASSUME LogTypes, MergeInv, BeginTurn PROVE MergeInv'
<1>1. phase' = "attempt" /\ UNCHANGED <<log, run>>
  BY DEF BeginTurn, savedVars, attemptVars
<1> QED
  BY <1>1, RunSame, MergeQuiet DEF Running

LEMMA PreLoadMerge ==
  ASSUME LogTypes, MergeInv, PreLoad PROVE MergeInv'
<1>1. /\ phase' = "open" /\ run' = NoRun /\ UNCHANGED log
      /\ pre_turn'.count = Len(log) \/ pre_turn'.count = 0
  BY DEF PreLoad, savedVars
<1>2. run'.base = <<>> /\ run'.committed = <<>> /\ run'.open = {}
  BY <1>1 DEF NoRun
<1>3. Len(log) \in Nat /\ Len(Msgs(log)) = Len(log) /\ Msgs(log') = Msgs(log)
  <2>1. log \in Seq(Entry)
    BY TypesOf DEF KeptTypes
  <2> QED
    BY <2>1, <1>1, TypesOf, MsgsTyped
<1>4. OriginInv'
  <2>1. Apart(run'.base, own_calls') /\ Prefixed(run'.base, Msgs(log')) /\ pre_turn'.count <= Len(log')
    BY <1>1, <1>2, <1>3, NothingApart DEF Prefixed
  <2> QED
    BY <1>1, <2>1 DEF OriginInv, Running
<1>5. AttemptInv' /\ SourcedInv' /\ ExplainedInv' /\ RepeatsIn(log')
  BY <1>1, <1>2, MergeParts DEF AttemptInv, SourcedInv, ExplainedInv, Running
<1> QED
  BY <1>4, <1>5 DEF MergeInv

\* The run begins with the log and its prompt.
LEMMA OpenMerge ==
  ASSUME LogTypes, WorkInv, MergeInv, RunOpen PROVE MergeInv'
<1>1. PICK b, m : b = Msgs(log) /\ m = turn_prompt
  OBVIOUS
<1>2. /\ phase = "open" /\ phase' = "ready" /\ UNCHANGED <<log, snapshot, pre_turn, turn>>
      /\ run' = [NoRun EXCEPT !.base = b, !.keys = Keys(log), !.committed = <<m>>]
  BY <1>1 DEF RunOpen, savedVars, turnVars
<1>3. run'.base = b /\ run'.committed = <<m>> /\ run'.open = {} /\ Msgs(log') = b
  BY <1>1, <1>2 DEF NoRun
<1>4. /\ b \in Seq(Message) /\ Len(b) \in Nat /\ Len(b) = Len(log) /\ m \in Message
      /\ m.calls = {} /\ m.results = {} /\ m.role = "user"
      /\ m.pieces = <<[prompt |-> prompt, steered |-> steering]>>
  <2>1. b \in Seq(Message) /\ Len(b) = Len(log) /\ m \in Message
    BY <1>1, <1>2, TypesOf, MsgsTyped, PromptIs
  <2>2. m = User(<<[prompt |-> prompt, steered |-> steering]>>, {})
    BY <1>1 DEF turn_prompt
  <2> QED
    BY <2>1, <2>2 DEF User
<1>5. own_calls' = {} /\ snapshot' = <<>> /\ prompt' = prompt
  <2>1. own_calls' = call_ids(<<m>>) /\ call_ids(<<m>>) = {}
    BY <1>3, <1>4 DEF own_calls, call_ids
  <2> QED
    BY <2>1, <1>2, WorkParts DEF OwnInv, prompt
<1>6. OriginInv'
  <2>1. Prefixed(b, b) /\ Apart(b, {})
    BY <1>4 DEF Prefixed, Apart
  <2>2. pre_turn'.count <= Len(b)
    BY <1>2, <1>4, MergeParts DEF OriginInv
  <2>3. Prefixed(run'.base, Msgs(log')) /\ Apart(run'.base, own_calls') /\ Apart(Msgs(log'), own_calls')
    BY <2>1, <1>3, <1>5
  <2> QED
    BY <2>2, <2>3, <1>2, <1>3 DEF OriginInv
<1>7. Attempt(<<m>>, {}, prompt)
  <2>1. PICK c : c = <<m>>
    OBVIOUS
  <2>2. Len(c) = 1 /\ c[1] = m /\ \A x \in 1..Len(c) : x = 1
    BY <2>1
  <2>3. poses(m, prompt) /\ Len(m.pieces) = 1
    BY <1>4 DEF poses, Last
  <2>4. IsPrompt(m, prompt) /\ holds(m) = {}
    BY <2>3, <1>4, NothingHeld DEF IsPrompt
  <2>5. Attempt(c, {}, prompt)
    BY <2>2, <2>4 DEF Attempt
  <2> QED
    BY <2>1, <2>5
<1>8. AttemptInv'
  BY <1>3, <1>5, <1>7 DEF AttemptInv
<1>9. SourcedInv' /\ ExplainedInv' /\ RepeatsIn(log')
  BY <1>2, <1>5, MergeParts DEF SourcedInv, ExplainedInv, Traced
<1> QED
  BY <1>6, <1>8, <1>9 DEF MergeInv

-----------------------------------------------------------------------------
LEMMA CallMerge ==
  ASSUME LogTypes, MergeInv, on_completion_call PROVE MergeInv'
<1>1. /\ phase = "ready" /\ phase' = "calling" /\ snapshot' = chat_history
      /\ run' = [run EXCEPT !.calls = @ + 1, !.fresh = <<>>]
      /\ UNCHANGED <<log, turn, pre_turn>>
  BY DEF on_completion_call, savedVars, turnVars
<1>2. run'.base = run.base /\ run'.committed = run.committed /\ run'.open = run.open
  BY <1>1, TypesOf, ChatTyped
<1>3. Traced(snapshot')
  BY <1>1, ChatTraced DEF Running
<1> QED
  BY <1>1, <1>2, <1>3, MergeQuiet DEF Running

LEMMA StreamMerge ==
  ASSUME LogTypes, MergeInv, StreamText \/ ModelTurnRetried PROVE MergeInv'
<1>1. /\ phase = "calling" /\ UNCHANGED <<log, phase, snapshot, turn, pre_turn>>
      /\ \/ run' = [run EXCEPT !.chunks = @ + 1, !.fresh = <<run.chunks + 1>>]
         \/ run' = [run EXCEPT !.fresh = <<>>]
  BY DEF StreamText, ModelTurnRetried, savedVars, turnVars
<1>2. run'.base = run.base /\ run'.committed = run.committed /\ run'.open = run.open
  BY <1>1, TypesOf, ChatTyped
<1>3. Traced(snapshot')
  BY <1>1, MergeParts DEF SourcedInv, Running
<1> QED
  BY <1>1, <1>2, <1>3, MergeQuiet DEF Running

LEMMA RecordMerge ==
  ASSUME LogTypes, MergeInv, record_call \/ record_result PROVE MergeInv'
<1>1. phase = "tools" /\ UNCHANGED <<log, phase, run, snapshot, turn, pre_turn>>
  BY DEF record_call, record_result, savedVars, turnVars
<1>2. Traced(snapshot')
  BY <1>1, MergeParts DEF SourcedInv, Running
<1> QED
  BY <1>1, <1>2, RunSame, MergeQuiet DEF Running

LEMMA BatchMerge ==
  ASSUME LogTypes, WorkInv, MergeInv, CommitBatch PROVE MergeInv'
<1>1. PICK n \in 1..Batch :
         /\ phase = "calling" /\ phase' = "tools"
         /\ run' = [run EXCEPT !.committed = Append(@, Assistant((made.call + 1)..(made.call + n), run.fresh)),
                               !.open = (made.call + 1)..(made.call + n)]
         /\ made' = [made EXCEPT !.call = @ + n]
         /\ UNCHANGED <<log, snapshot, pre_turn, turn>>
  BY DEF CommitBatch, savedVars, turnVars
<1>2. PICK batch, m : batch = (made.call + 1)..(made.call + n) /\ m = Assistant(batch, run.fresh)
  OBVIOUS
<1>3. n \in Nat /\ made.call \in Nat /\ batch \in SUBSET Nat
  BY <1>2, MadeTyped, TurnLogAssumption
<1>4. m \in Message /\ m.pieces = <<>> /\ m.calls = batch /\ m.results = {}
  <2>1. m \in Message
    BY <1>2, <1>3, TypesOf, ChatTyped, AssistantMessage
  <2> QED
    BY <2>1, <1>2 DEF Assistant
<1>5. run'.base = run.base /\ run'.committed = Append(run.committed, m) /\ run'.open = m.calls
  BY <1>1, <1>2, <1>4, TypesOf, ChatTyped
<1>6. made'.call \in Nat /\ made.call <= made'.call /\ m.calls \subseteq (made.call + 1)..made'.call
  <2>1. made'.call = made.call + n
    BY <1>1, MadeTyped
  <2> QED
    BY <2>1, <1>2, <1>3, <1>4
<1> QED
  BY <1>1, <1>4, <1>5, <1>6, MergeCommit

LEMMA FinalMerge ==
  ASSUME LogTypes, WorkInv, MergeInv, FinalResponse PROVE MergeInv'
<1>1. PICK m : m = Assistant({}, run.fresh)
  OBVIOUS
<1>2. /\ phase = "calling" /\ phase' = "saving"
      /\ run' = [run EXCEPT !.committed = Append(@, m)]
      /\ UNCHANGED <<log, snapshot, pre_turn, turn, made>>
  BY <1>1 DEF FinalResponse, savedVars, turnVars
<1>3. m \in Message /\ m.pieces = <<>> /\ m.calls = {} /\ m.results = {}
  <2>1. m \in Message
    BY <1>1, TypesOf, ChatTyped, AssistantMessage
  <2> QED
    BY <2>1, <1>1 DEF Assistant
<1>4. run.open = {}
  BY <1>2, WorkParts DEF OwnInv
<1>5. run'.base = run.base /\ run'.committed = Append(run.committed, m) /\ run'.open = m.calls
  BY <1>2, <1>3, <1>4, TypesOf, ChatTyped
<1>6. made'.call \in Nat /\ made.call <= made'.call /\ made' = made
  BY <1>2, MadeTyped
<1> QED
  BY <1>2, <1>3, <1>5, <1>6, MergeCommit

LEMMA AnsweredMerge ==
  ASSUME LogTypes, WorkInv, MergeInv, BatchAnswered PROVE MergeInv'
<1>1. PICK m : m = BatchResults(run.open)
  OBVIOUS
<1>2. /\ phase = "tools" /\ phase' = "ready"
      /\ run' = [run EXCEPT !.committed = Append(@, m), !.open = {}]
      /\ UNCHANGED <<log, snapshot, pre_turn, turn, made>>
  BY <1>1 DEF BatchAnswered, savedVars, turnVars
<1>3. /\ m \in Message /\ m.pieces = <<>> /\ m.calls = {}
      /\ \A r \in m.results : r.call \in run.open
  BY <1>1, ResultsAre
<1>4. run'.base = run.base /\ run'.committed = Append(run.committed, m) /\ run'.open = m.calls
  BY <1>2, <1>3, TypesOf, ChatTyped
<1>5. made'.call \in Nat /\ made.call <= made'.call
  BY <1>2, MadeTyped
<1> QED
  BY <1>2, <1>3, <1>4, <1>5, MergeCommit

-----------------------------------------------------------------------------
LEMMA StopMerge ==
  ASSUME MergeInv, NEW why, NEW history, NEW streamed, Stop(why, history, streamed), UNCHANGED turn,
         phase \in Running, Traced(history)
  PROVE  MergeInv'
<1>1. /\ phase' = "recover" /\ UNCHANGED <<log, run, pre_turn>>
      /\ stopped' = [why |-> why, history |-> history, text |-> streamed]
  BY DEF Stop, savedVars, attemptVars
<1>2. Traced(stopped'.history)
  BY <1>1
<1> QED
  BY <1>1, <1>2, RunSame, MergeQuiet DEF Running

LEMMA RetryMerge ==
  ASSUME MergeInv, NEW kind, NEW otherwise, NEW history, NEW streamed, UNCHANGED turn,
         RetryOr(kind, otherwise, history, streamed), phase \in Running, Traced(history)
  PROVE  MergeInv'
<1>1. \E why, text2 : Stop(why, history, text2)
  BY DEF RetryOr
<1> QED
  BY <1>1, StopMerge

LEMMA CancelledMerge ==
  ASSUME LogTypes, WorkInv, MergeInv, Cancelled PROVE MergeInv'
<1>1. PICK answered : Stop("cancelled", CancelledHistory(answered), text)
  BY DEF Cancelled, CancelledHistory, InFlight
<1>2. phase \in Running /\ UNCHANGED turn
  BY DEF Cancelled, Running, turnVars
<1>3. /\ Joined(chat_history, run.base, run.committed) /\ chat_history \in Seq(Message)
      /\ run.base \in Seq(Message) /\ run.committed \in Seq(Message)
  BY ChatJoined
<1>4. /\ Tells(chat_history, Len(run.base) + 1, own_calls, old_calls)
      /\ Attempt(run.committed, own_calls, prompt)
  BY <1>2, WorkParts, MergeParts DEF RunInv, AttemptInv
<1>5. CASE run.open = {}
  <2>1. chat_history \o <<>> = chat_history
    BY <1>3
  <2>2. CancelledHistory(answered) = canonical(chat_history)
    BY <1>5, <2>1 DEF CancelledHistory, InFlight
  <2>3. Ordered(chat_history)
    BY <1>4 DEF Tells
  <2>4. Traced(canonical(chat_history))
    BY <2>3, <1>3, <1>4, CanonicalTraced
  <2> QED
    BY <2>2, <2>4, <1>1, <1>2, StopMerge
<1>6. CASE run.open # {}
  <2>1. PICK m : m = BatchResults(answered)
    OBVIOUS
  <2>2. /\ m \in Message /\ m.pieces = <<>> /\ m.calls = {}
        /\ \A r \in m.results : r.out \in {"settled", "placeholder"} /\ r.call \in run.open
    BY <2>1, ResultsAre
  <2>3. PICK b, c, d, g : b = run.base /\ c = run.committed /\ d = Append(c, m) /\ g = b \o d
    OBVIOUS
  <2>4. b \in Seq(Message) /\ c \in Seq(Message) /\ d \in Seq(Message) /\ g = Append(chat_history, m)
    <3>1. b \in Seq(Message) /\ c \in Seq(Message)
      BY <2>3, <1>3
    <3>2. d \in Seq(Message)
      BY <3>1, <2>2, <2>3
    <3>3. b \o Append(c, m) = Append(b \o c, m)
      BY <3>1, <2>2, AppendJoins
    <3>4. chat_history = b \o c
      BY <2>3 DEF chat_history
    <3> QED
      BY <3>1, <3>2, <3>3, <3>4, <2>3
  <2>5. CancelledHistory(answered) = canonical(g)
    <3>1. InFlight(answered) = <<m>>
      BY <1>6, <2>1 DEF InFlight
    <3>2. chat_history \o <<m>> = g
      BY <2>2, <2>4, <1>3
    <3> QED
      BY <3>1, <3>2 DEF CancelledHistory
  <2>6. Joined(g, b, d)
    BY <2>3, <2>4, ConcatJoined
  <2>7. run.open \subseteq own_calls
    BY OwnGiven
  <2>8. Ordered(g)
    <3>1. Longer(g, chat_history, m)
      BY <2>2, <2>4, <1>3, AppendLonger
    <3>2. \A r \in m.results : /\ r.out \in {"settled", "placeholder"}
                               /\ \E j \in 1..Len(chat_history) :
                                     Len(run.base) + 1 <= j /\ r.call \in chat_history[j].calls
      BY <2>2, <2>7, OwnPlace
    <3>3. \A x \in m.calls : Unheard(chat_history, x)
      BY <2>2
    <3>4. Tells(g, Len(run.base) + 1, own_calls, old_calls)
      BY <3>1, <3>2, <3>3, <2>2, <1>4, TellsLonger
    <3> QED
      BY <3>4 DEF Tells
  <2>9. Attempt(d, own_calls, prompt)
    <3>1. Longer(d, c, m)
      BY <2>2, <2>3, <2>4, AppendLonger
    <3>2. \A f \in holds(m) : f = <<"result", f[2]>> /\ f[2] \in run.open
      BY <2>2, FactOf
    <3>3. \A x \in 1..Len(c) : holds(c[x]) \cap holds(m) = {}
      <4> SUFFICES ASSUME NEW x \in 1..Len(c), NEW f \in holds(c[x]), f \in holds(m) PROVE FALSE
        OBVIOUS
      <4>1. f = <<"result", f[2]>> /\ f[2] \in run.open
        BY <3>2
      <4>2. <<"result", f[2]>> \notin holds(c[x])
        BY <4>1, <2>3, MergeParts DEF AttemptInv
      <4> QED
        BY <4>1, <4>2
    <3>4. Attempt(c, own_calls, prompt) /\ \A f \in holds(m) : f[2] \in own_calls
      BY <3>2, <2>3, <2>7, <1>4
    <3> QED
      BY <3>1, <3>3, <3>4, <2>2, <2>4, AttemptGrow
  <2>a. Traced(canonical(g))
    BY <2>3, <2>4, <2>6, <2>8, <2>9, CanonicalTraced
  <2> QED
    BY <2>5, <2>a, <1>1, <1>2, StopMerge
<1> QED
  BY <1>5, <1>6

LEMMA StopsMerge ==
  ASSUME LogTypes, WorkInv, MergeInv,
         CompletionFailed \/ MaxTurnsExceeded \/ RepetitionStop \/ UnknownTool \/ ToolExecutionFailed
            \/ GraceExpired
  PROVE  MergeInv'
<1>1. phase \in Running /\ UNCHANGED turn
  BY DEF CompletionFailed, MaxTurnsExceeded, RepetitionStop, UnknownTool, ToolExecutionFailed,
         GraceExpired, Running, turnVars
<1>2. Traced(snapshot) /\ Traced(chat_history)
  BY <1>1, MergeParts, ChatTraced DEF SourcedInv
<1>3. Traced(canonical(chat_history))
  <2>1. Ordered(chat_history) /\ Attempt(run.committed, own_calls, prompt)
    BY <1>1, WorkParts, MergeParts DEF RunInv, Tells, AttemptInv
  <2> QED
    BY <2>1, ChatJoined, CanonicalTraced
<1>4. CASE CompletionFailed
  BY <1>1, <1>2, <1>4, RetryMerge DEF CompletionFailed
<1>5. CASE MaxTurnsExceeded
  BY <1>1, <1>2, <1>5, RetryMerge DEF MaxTurnsExceeded
<1>6. CASE RepetitionStop
  BY <1>1, <1>3, <1>6, RetryMerge DEF RepetitionStop
<1>7. CASE UnknownTool
  BY <1>1, <1>2, <1>7, StopMerge DEF UnknownTool
<1>8. CASE ToolExecutionFailed
  BY <1>1, <1>2, <1>8, StopMerge DEF ToolExecutionFailed
<1>9. CASE GraceExpired
  BY <1>1, <1>2, <1>9, StopMerge DEF GraceExpired
<1> QED
  BY <1>4, <1>5, <1>6, <1>7, <1>8, <1>9

-----------------------------------------------------------------------------
\* The log grows by messages whose facts are explained.
LEMMA MergeGrows ==
  ASSUME LogTypes, MergeInv, NEW writer \in 0..turn, NEW msgs \in Seq(Message), Write(writer, msgs),
         Explained(msgs, Msgs(log), TurnPrompts[writer]),
         UNCHANGED <<attemptVars, stopped, loaded, turn>>,
         phase' \in Running => phase \in Running, phase' = "recover" => phase = "recover",
         phase' = "open" => phase = "open",
         phase' = "extend" => phase = "extend" /\ Len(msgs) # 0,
         phase' \in Running \ {"saved"} =>
            phase \in Running \ {"saved"} /\ \A i \in 1..Len(msgs) : holds(msgs[i]) = {}
  PROVE  MergeInv'
<1>0. UNCHANGED <<run, snapshot, pre_turn>>
  BY DEF attemptVars
<1>1. Joined(Msgs(log'), Msgs(log), msgs)
  BY WrittenMsgs
<1>2. Written(writer, msgs)
  <2>1. writer \in Nat
    BY TypesOf, TurnLogAssumption DEF KeptTypes
  <2> QED
    BY <2>1, TypesOf, WriteIs
<1>3. PICK a, c : a = Msgs(log) /\ c = Msgs(log')
  OBVIOUS
<1>4. /\ a \in Seq(Message) /\ Len(a) = Len(log) /\ Len(a) \in Nat /\ \A i \in 1..Len(log) : a[i] = log[i].msg
      /\ Keys(log) \subseteq 1..made.key
  BY <1>3, TypesOf, MsgsTyped
<1>5. own_calls' = own_calls /\ prompt' = prompt
  BY <1>0 DEF own_calls, call_ids, prompt
<1>6. RepeatsIn(log')
  <2>1. PICK e : e = log'
    OBVIOUS
  <2>2. Extends(e, log, writer, msgs)
    <3>1. \A i \in 1..Len(msgs) : e[Len(log) + i] = [key |-> made.key + i, by |-> writer, msg |-> msgs[i]]
      BY <2>1, <1>2 DEF Written
    <3>2. ASSUME NEW i \in 1..Len(msgs)
          PROVE  e[Len(log) + i].msg = msgs[i] /\ e[Len(log) + i].by = writer
      <4>1. PICK x : x = e[Len(log) + i]
        OBVIOUS
      <4>2. x = [key |-> made.key + i, by |-> writer, msg |-> msgs[i]]
        BY <4>1, <3>1
      <4>3. x.msg = msgs[i] /\ x.by = writer
        BY ONLY <4>2
      <4> QED
        BY <4>1, <4>3
    <3>3. Len(e) = Len(log) + Len(msgs) /\ \A i \in 1..Len(log) : e[i] = log[i]
      BY <2>1, <1>2 DEF Written
    <3> QED
      BY <3>2, <3>3, Zenon DEF Extends
  <2>3. log \in Seq(Entry)
    BY TypesOf DEF KeptTypes
  <2>4. RepeatsIn(e)
    BY <2>2, <2>3, <1>3, <1>4, MergeParts, RepeatsGrow
  <2> QED
    BY <2>1, <2>4
<1>7. Len(msgs) \in Nat /\ Len(log') = Len(log) + Len(msgs) /\ Len(log) \in Nat
  BY <1>2, <1>4 DEF Written
<1>8. OriginInv'
  <2>1. Prefixed(run.base, c) /\ Apart(run.base, own_calls)
    <3>1. Prefixed(run.base, a) /\ Apart(run.base, own_calls)
      BY <1>3, MergeParts DEF OriginInv
    <3>2. /\ Len(c) = Len(a) + Len(msgs)
          /\ \A i \in 1..Len(a) : c[i] = a[i]
      BY <1>1, <1>3 DEF Joined
    <3>3. run.base \in Seq(Message) /\ Len(run.base) \in Nat
      BY ChatJoined
    <3>4. \A i \in 1..Len(run.base) : i \in 1..Len(a)
      BY <3>1, <3>3, <1>4 DEF Prefixed
    <3> QED
      BY <3>1, <3>2, <3>3, <3>4, <1>4, <1>7 DEF Prefixed
  <2>2. phase' \in Running \ {"saved"} => Apart(c, own_calls)
    <3> SUFFICES ASSUME phase' \in Running \ {"saved"} PROVE Apart(c, own_calls)
      OBVIOUS
    <3>1. Apart(a, own_calls) /\ \A i \in 1..Len(msgs) : holds(msgs[i]) = {}
      BY <1>3, MergeParts DEF OriginInv
    <3>2. ASSUME NEW i \in 1..Len(c), NEW f \in holds(c[i]) PROVE f[2] \notin own_calls
      <4>1. CASE i \in 1..Len(a)
        <5>1. c[i] = a[i]
          BY <4>1, <1>1, <1>3 DEF Joined
        <5> QED
          BY <3>1, <3>2, <4>1, <5>1 DEF Apart
      <4>2. CASE i - Len(a) \in 1..Len(msgs) /\ c[i] = msgs[i - Len(a)]
        BY <3>1, <3>2, <4>2
      <4> QED
        BY <4>1, <4>2, <1>1, <1>3 DEF Joined
    <3> QED
      BY <3>2 DEF Apart
  <2>3. phase' = "open" => pre_turn.count <= Len(log')
    <3>1. pre_turn.count \in Nat
      BY TypesOf DEF AttemptTypes
    <3> QED
      BY <3>1, <1>7, MergeParts DEF OriginInv
  <2>4. phase' \in Running \cup {"recover"} => pre_turn.count <= Len(run.base)
    BY MergeParts DEF OriginInv
  <2> QED
    BY <2>1, <2>2, <2>3, <2>4, <1>0, <1>3, <1>5 DEF OriginInv
<1>9. AttemptInv'
  BY <1>0, <1>5, MergeParts DEF AttemptInv
<1>a. SourcedInv'
  BY <1>0, <1>5, MergeParts DEF SourcedInv, Traced
<1>b. ExplainedInv'
  <2> SUFFICES ASSUME phase' = "extend"
               PROVE  loaded'.keys \subseteq 1..made'.key /\ Keys(log') # loaded'.keys
    BY DEF ExplainedInv
  <2>1. loaded.keys \subseteq 1..made.key /\ 1 \in 1..Len(msgs)
    BY <1>7, MergeParts DEF ExplainedInv
  <2>2. made.key \in Nat /\ made'.key = made.key + Len(msgs)
    BY <1>2, MadeTyped DEF Written
  <2>3. made.key + 1 \in Keys(log')
    <3>1. log'[Len(log) + 1] = [key |-> made.key + 1, by |-> writer, msg |-> msgs[1]]
      BY <2>1, <1>2 DEF Written
    <3>2. log'[Len(log) + 1].key = made.key + 1
      BY <3>1
    <3>3. Len(log) + 1 \in DOMAIN log'
      <4>1. DOMAIN log' = 1..Len(log')
        BY <1>2 DEF Written
      <4> QED
        BY <4>1, <2>1, <1>7
    <3> QED
      BY <3>2, <3>3 DEF Keys
  <2> QED
    BY <2>1, <2>2, <2>3, <1>7
<1> QED
  BY <1>6, <1>8, <1>9, <1>a, <1>b DEF MergeInv

-----------------------------------------------------------------------------
\* What the run saves is its own, and new.
LEMMA RunSaveMerge ==
  ASSUME LogTypes, WorkInv, MergeInv, RunSave PROVE MergeInv'
<1>1. phase = "saving" /\ UNCHANGED <<attemptVars, loaded, turn>>
  BY DEF RunSave, turnVars
<1>2. CASE phase' = "saved" /\ Write(turn, run.committed) /\ UNCHANGED stopped
  <2>1. PICK c, a : c = run.committed /\ a = Msgs(log)
    OBVIOUS
  <2>2. c \in Seq(Message) /\ turn \in 0..turn
    BY <2>1, RunTyped
  <2>3. Attempt(c, own_calls, prompt) /\ Apart(a, own_calls)
    BY <1>1, <2>1, MergeParts DEF AttemptInv, OriginInv, Running
  <2>4. Explained(c, a, prompt)
    <3> SUFFICES ASSUME NEW j \in 1..Len(c), NEW f \in holds(c[j])
                 PROVE  ~Past(a, 0, f) /\ \A i \in 1..Len(c) : f \in holds(c[i]) => i = j
      BY DEF Explained
    <3>1. j # 1
      BY <2>3 DEF Attempt
    <3>2. 1 < j
      BY <3>1
    <3>3. f[2] \in own_calls
      BY <2>3, <3>2 DEF Attempt
    <3>4. ~Past(a, 0, f)
      BY <2>3, <3>3, OwnIsNew
    <3>5. ASSUME NEW i \in 1..Len(c), f \in holds(c[i]) PROVE i = j
      <4>1. ~(i < j) /\ ~(j < i)
        BY <2>3, <3>5 DEF Attempt
      <4> QED
        BY <4>1
    <3> QED
      BY <3>4, <3>5
  <2>5. Explained(run.committed, Msgs(log), TurnPrompts[turn])
    BY <2>1, <2>4 DEF prompt
  <2> QED
    BY <1>1, <1>2, <2>1, <2>2, <2>5, MergeGrows DEF Running
<1>3. CASE /\ phase' = "recover" /\ UNCHANGED log
           /\ stopped' = [why |-> "failed", history |-> snapshot, text |-> <<>>]
  <2>1. UNCHANGED <<run, pre_turn>> /\ stopped'.history = snapshot
    BY <1>1, <1>3 DEF attemptVars
  <2>2. Traced(snapshot)
    BY <1>1, MergeParts DEF SourcedInv, Running
  <2>3. Traced(stopped'.history)
    BY <2>1, <2>2
  <2> QED
    BY <1>1, <1>3, <2>1, <2>3, RunSame, MergeQuiet DEF Running
<1> QED
  BY <1>2, <1>3 DEF RunSave

\* A log that is as long as it was before the attempt is the one the run began with.
LEMMA BaseIsLog ==
  ASSUME LogTypes, MergeInv, phase = "recover", Len(log) = pre_turn.count PROVE Msgs(log) = run.base
<1>1. /\ Msgs(log) \in Seq(Message) /\ Len(Msgs(log)) = Len(log)
      /\ run.base \in Seq(Message)
  BY TypesOf, MsgsTyped, ChatJoined
<1>2. /\ Len(run.base) <= Len(Msgs(log)) /\ \A i \in 1..Len(run.base) : run.base[i] = Msgs(log)[i]
      /\ Len(log) <= Len(run.base)
  BY MergeParts DEF OriginInv, Prefixed
<1>3. PICK a, b : a = Msgs(log) /\ b = run.base
  OBVIOUS
<1>4. /\ a \in Seq(Message) /\ b \in Seq(Message) /\ Len(a) \in Nat /\ Len(b) \in Nat
      /\ Len(b) <= Len(a) /\ Len(a) <= Len(b) /\ \A i \in 1..Len(b) : b[i] = a[i]
  BY <1>1, <1>2, <1>3
<1>5. Len(a) = Len(b)
  BY <1>4
<1>6. a = b
  BY ONLY <1>4, <1>5, SeqEqual
<1> QED
  BY <1>3, <1>6

LEMMA RecoverLoadMerge ==
  ASSUME LogTypes, WorkInv, MergeInv, RecoverLoad PROVE MergeInv'
<1>1. phase = "recover" /\ UNCHANGED <<log, made, turn>>
  BY DEF RecoverLoad, turnVars
<1>2. CASE /\ Len(log) = pre_turn.count /\ phase' = "extend" /\ UNCHANGED attemptVars
           /\ loaded' = [keys |-> Keys(log), delta |-> turn_delta(answered_call_ids(Msgs(log)))]
  <2>1. PICK b, D : b = Msgs(log) /\ D = turn_delta(answered_call_ids(b))
    OBVIOUS
  <2>2. UNCHANGED run /\ loaded'.keys = Keys(log) /\ loaded'.delta = D
    BY <1>2, <2>1 DEF attemptVars
  <2>3. /\ stopped.history \in Seq(Message) /\ stopped.text \in Seq(Nat) /\ RecordsTyped
        /\ prompt \in Prompted /\ b \in Seq(Message)
    <3>1. stopped.history \in Seq(Message) /\ stopped.text \in Seq(Nat) /\ RecordsTyped
      BY TypesOf DEF TailTypes, AttemptTypes
    <3> QED
      BY <1>1, <2>1, <3>1, TypesOf, PromptIs, MsgsTyped
  <2>4. b = run.base
    BY <1>1, <1>2, <2>1, BaseIsLog
  <2>5. recorded \subseteq own_calls /\ Closed(b, {}) /\ Apart(b, own_calls)
    BY <2>1, <2>4, WorkParts, MergeParts DEF OwnInv, OriginInv
  <2>6. \/ stopped.history = <<>>
        \/ \E p \in 1..Len(stopped.history) : Sourced(stopped.history, p, own_calls, b, prompt)
    BY <1>1, <2>4, MergeParts DEF SourcedInv, Traced
  <2>7. Explained(D, b, prompt)
    BY <2>1, <2>3, <2>5, <2>6, DeltaExplained
  <2>8. own_calls' = own_calls /\ Msgs(log') = b /\ prompt' = prompt
    BY <1>1, <2>1, <2>2 DEF own_calls, call_ids, prompt
  <2>9. ExplainedInv'
    <3>1. loaded'.keys \subseteq 1..made'.key
      BY <1>1, <2>2, TypesOf, MsgsTyped
    <3>2. Explained(loaded'.delta, Msgs(log'), prompt')
      BY <2>2, <2>7, <2>8
    <3> QED
      BY <3>1, <3>2 DEF ExplainedInv
  <2>a. OriginInv'
    <3>1. Prefixed(run'.base, Msgs(log')) /\ Apart(run'.base, own_calls')
      BY <1>1, <2>2, <2>8, MergeParts DEF OriginInv
    <3> QED
      BY <1>2, <3>1 DEF OriginInv, Running
  <2>b. AttemptInv' /\ SourcedInv'
    BY <1>2, <2>2, MergeParts DEF AttemptInv, SourcedInv, Running
  <2> QED
    BY <1>1, <2>9, <2>a, <2>b, MergeParts DEF MergeInv
<1>3. CASE EndAttempt(AfterStop)
  BY <1>1, <1>3, AfterStopIs, MergeEnd
<1> QED
  BY <1>2, <1>3 DEF RecoverLoad

LEMMA RecoverSaveMerge ==
  ASSUME LogTypes, MergeInv, RecoverSave PROVE MergeInv'
<1>1. phase = "extend" /\ phase' = "facts" /\ UNCHANGED <<attemptVars, stopped, loaded, turn>>
  BY DEF RecoverSave, turnVars
<1>2. CASE Keys(log) = loaded.keys /\ Write(turn, loaded.delta)
  <2>1. loaded.delta \in Seq(Message) /\ turn \in 0..turn
    BY RunTyped
  <2>2. Explained(loaded.delta, Msgs(log), TurnPrompts[turn])
    BY <1>1, <1>2, MergeParts DEF ExplainedInv, prompt
  <2> QED
    BY <1>1, <1>2, <2>1, <2>2, MergeGrows DEF Running
<1>3. CASE UNCHANGED log
  <2>1. UNCHANGED run
    BY <1>1 DEF attemptVars
  <2> QED
    BY <1>1, <1>3, <2>1, RunSame, MergeQuiet DEF Running
<1> QED
  BY <1>2, <1>3 DEF RecoverSave

LEMMA OtherMerge ==
  ASSUME LogTypes, MergeInv, OtherAppend PROVE MergeInv'
<1>1. PICK a, b : a = User(<<>>, {}) /\ b = Assistant({}, <<>>)
  OBVIOUS
<1>2. PICK msgs : msgs = <<a, b>>
  OBVIOUS
<1>3. Write(0, msgs) /\ UNCHANGED <<phase, attemptVars, stopped, loaded, turn>>
  BY <1>1, <1>2 DEF OtherAppend, tailVars, turnVars
<1>4. a \in Message /\ b \in Message /\ holds(a) = {} /\ holds(b) = {}
  <2>1. {} \in SUBSET Result /\ {} \in SUBSET Nat /\ <<>> \in Seq(Nat)
    OBVIOUS
  <2>2. a \in Message /\ b \in Message
    BY <1>1, <2>1, NoPieces, UserMessage, AssistantMessage
  <2>3. a.calls = {} /\ a.results = {} /\ b.calls = {} /\ b.results = {}
    BY <1>1 DEF User, Assistant
  <2> QED
    BY <2>2, <2>3, NothingHeld
<1>5. msgs \in Seq(Message) /\ Len(msgs) # 0 /\ \A i \in 1..Len(msgs) : holds(msgs[i]) = {}
  BY <1>2, <1>4
<1>6. Explained(msgs, Msgs(log), TurnPrompts[0])
  BY <1>5 DEF Explained
<1>7. 0 \in 0..turn
  BY TypesOf, TurnLogAssumption DEF KeptTypes
<1> QED
  BY <1>3, <1>5, <1>6, <1>7, MergeGrows

LEMMA EndsMerge ==
  ASSUME LogTypes, MergeInv, write_state_records \/ settle \/ persist_tool_facts \/ Crash PROVE MergeInv'
<1>1. UNCHANGED log
  BY DEF write_state_records, settle, persist_tool_facts, Crash, savedVars
<1>2. CASE \E next \in {"idle", "attempt"} : EndAttempt(next)
  BY <1>1, <1>2, MergeEnd
<1>3. CASE phase' = "settle" /\ UNCHANGED attemptVars
  <2>1. UNCHANGED run
    BY <1>3 DEF attemptVars
  <2> QED
    BY <1>1, <1>3, <2>1, RunSame, MergeQuiet DEF Running
<1> QED
  BY <1>2, <1>3, AfterStopIs DEF write_state_records, settle, persist_tool_facts, Crash

LEMMA MergeStutters ==
  ASSUME MergeInv, UNCHANGED logVars PROVE MergeInv'
<1>1. UNCHANGED <<log, made, turn, run, snapshot, stopped, loaded, phase, pre_turn>>
  BY DEF logVars
<1>2. own_calls' = own_calls /\ prompt' = prompt /\ Msgs(log') = Msgs(log) /\ Keys(log') = Keys(log)
  BY <1>1 DEF own_calls, call_ids, prompt
<1>3. OriginInv' /\ AttemptInv'
  BY <1>1, <1>2, MergeParts DEF OriginInv, AttemptInv
<1>4. SourcedInv' /\ ExplainedInv'
  BY <1>1, <1>2, MergeParts DEF SourcedInv, ExplainedInv, Traced
<1> QED
  BY <1>1, <1>3, <1>4, MergeParts DEF MergeInv

LEMMA MergeStep ==
  ASSUME LogTypes, WorkInv, MergeInv, [LogNext]_logVars PROVE MergeInv'
<1>1. CASE PreLoad \/ RunOpen \/ on_completion_call \/ StreamText \/ ModelTurnRetried
  BY <1>1, PreLoadMerge, OpenMerge, CallMerge, StreamMerge
<1>2. CASE CommitBatch \/ record_call \/ record_result \/ BatchAnswered \/ FinalResponse
  BY <1>2, BatchMerge, RecordMerge, AnsweredMerge, FinalMerge
<1>3. CASE CompletionFailed \/ MaxTurnsExceeded \/ RepetitionStop \/ UnknownTool
              \/ ToolExecutionFailed \/ Cancelled \/ GraceExpired
  BY <1>3, StopsMerge, CancelledMerge
<1>4. CASE RunSave \/ write_state_records \/ settle \/ RecoverLoad \/ RecoverSave \/ persist_tool_facts
  BY <1>4, RunSaveMerge, RecoverLoadMerge, RecoverSaveMerge, EndsMerge
<1>5. CASE BeginTurn \/ OtherAppend \/ Crash
  BY <1>5, BeginMerge, OtherMerge, EndsMerge
<1>6. CASE UNCHANGED logVars
  BY <1>6, MergeStutters
<1> QED
  BY <1>1, <1>2, <1>3, <1>4, <1>5, <1>6, Zenon DEF LogNext, LogStep

LEMMA LogInitMerge == LogInit => MergeInv
<1> SUFFICES ASSUME LogInit PROVE MergeInv
  OBVIOUS
<1>1. log = <<>> /\ phase = "idle" /\ run = NoRun
  BY DEF LogInit
<1>2. run.base = <<>> /\ run.committed = <<>> /\ run.open = {}
  BY <1>1 DEF NoRun
<1>3. Msgs(log) = <<>> /\ Len(log) = 0
  BY <1>1 DEF Msgs
<1>4. OriginInv
  BY <1>1, <1>2, <1>3, NothingApart DEF OriginInv, Prefixed, Running
<1>5. AttemptInv /\ SourcedInv /\ ExplainedInv
  BY <1>1, <1>2 DEF AttemptInv, SourcedInv, ExplainedInv, Running
<1>6. RepeatsIn(log)
  BY <1>3 DEF RepeatsIn
<1> QED
  BY <1>4, <1>5, <1>6 DEF MergeInv

\* A turn stores a call or a result a second time only when the log ended with a
\* prompt nobody replied to, which the turn's own is merged with, and an earlier
\* message asks the same (persist_turn_delta's anchor in turn_delta); whatever else
\* was retried, cut off, lost or recovered, each is stored once.
THEOREM RepeatsOnlyMerged == LogSpec => []RepeatsNeedMerge
<1>1. LogInit => LogTypes /\ WorkInv /\ MergeInv
  BY LogInitTypes, LogInitWork, LogInitMerge
<1>2. LogTypes /\ WorkInv /\ MergeInv /\ [LogNext]_logVars => (LogTypes /\ WorkInv /\ MergeInv)'
  BY LogTypesStep, WorkStep, MergeStep
<1>3. LogTypes /\ MergeInv => RepeatsNeedMerge
  <2> SUFFICES ASSUME LogTypes, MergeInv PROVE RepeatsNeedMerge
    OBVIOUS
  <2>1. log \in Seq(Entry)
    BY TypesOf DEF KeptTypes
  <2> QED
    BY <2>1, MergeParts, RepeatsAre
<1> QED
  BY <1>1, <1>2, <1>3, PTL DEF LogSpec
=============================================================================
