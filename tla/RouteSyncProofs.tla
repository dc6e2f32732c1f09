-------------------------- MODULE RouteSyncProofs --------------------------
(***************************************************************************)
(* Proofs about module RouteSync.                                          *)
(***************************************************************************)
EXTENDS RouteSync, SequenceTheorems, FiniteSetTheorems, WellFoundedInduction, TLAPS

-----------------------------------------------------------------------------
(***************************************************************************)
(* Induction, for sets of numbers                                          *)
(***************************************************************************)

\* A set that holds 0, and with a number its successor, holds every number.
LEMMA Induction ==
  ASSUME NEW T, 0 \in T, \A n \in Nat : n \in T => n + 1 \in T
  PROVE  \A n \in Nat : n \in T
<1> SUFFICES ASSUME NEW n \in Nat, n \notin T PROVE FALSE
  OBVIOUS
<1> DEFINE U == Nat \ T
<1>1. U \subseteq Nat /\ U # {}
  OBVIOUS
<1>2. PICK m \in U : \A k \in U : ~(<<k, m>> \in OpToRel(<, Nat))
  BY <1>1, NatLessThanWellFounded, WFMin
<1>3. m \in Nat /\ m # 0 /\ m \notin T
  BY <1>2
<1>4. m - 1 \in Nat /\ m - 1 < m /\ (m - 1) + 1 = m
  BY <1>3
<1>5. m - 1 \notin U
  BY <1>2, <1>3, <1>4, Zenon DEF OpToRel
<1> QED
  BY <1>3, <1>4, <1>5

\* A set of places has a last one.
LEMMA LastPlace ==
  ASSUME NEW n \in Nat, NEW P \in SUBSET (1..n), P # {}
  PROVE  Max(P) \in P /\ \A j \in P : j <= Max(P)
<1> DEFINE T == {m \in Nat : \A Q \in SUBSET (1..m) : Q # {} =>
                                \E i \in Q : \A j \in Q : j <= i}
<1>1. 0 \in T
  <2>1. 1..0 = {}
    OBVIOUS
  <2>2. \A Q \in SUBSET (1..0) : Q = {}
    BY <2>1
  <2> QED
    BY <2>2
<1>2. ASSUME NEW m \in Nat, m \in T PROVE m + 1 \in T
  <2> SUFFICES ASSUME NEW Q \in SUBSET (1..(m + 1)), Q # {}
               PROVE  \E i \in Q : \A j \in Q : j <= i
    OBVIOUS
  <2>1. CASE m + 1 \in Q
    BY <2>1
  <2>2. CASE m + 1 \notin Q
    <3>1. Q \in SUBSET (1..m)
      BY <2>2
    <3> QED
      BY <1>2, <3>1
  <2> QED
    BY <2>1, <2>2
<1>3. n \in T
  <2> HIDE DEF T
  <2> QED
    BY <1>1, <1>2, Induction
<1>4. \E i \in P : \A j \in P : i >= j
  <2>1. PICK i \in P : \A j \in P : j <= i
    BY <1>3
  <2>2. \A j \in P : i >= j
    BY <2>1
  <2> QED
    BY <2>2
<1>5. Max(P) \in P /\ \A j \in P : Max(P) >= j
  BY <1>4 DEF Max
<1>6. \A j \in P : j \in Nat
  OBVIOUS
<1> HIDE DEF T
<1> QED
  BY <1>5, <1>6

-----------------------------------------------------------------------------
(***************************************************************************)
(* Slices                                                                  *)
(***************************************************************************)

\* What the loop of Pick has after n elements.
PickStep(s, places, g, n) ==
  IF n = 0 THEN << >>
  ELSE IF n \in places THEN Append(g[n - 1], s[n]) ELSE g[n - 1]

\* The loop of Pick is well defined.
LEMMA PickLoop ==
  ASSUME NEW s, NEW places, NEW m \in Nat
  PROVE  \E g : g = [n \in 0..m |-> PickStep(s, places, g, n)]
<1> DEFINE T == {k \in Nat : \E g : g = [n \in 0..k |-> PickStep(s, places, g, n)]}
<1>1. 0 \in T
  <2> DEFINE g == [n \in 0..0 |-> << >>]
  <2>1. \A n \in 0..0 : n = 0
    OBVIOUS
  <2>2. g = [n \in 0..0 |-> PickStep(s, places, g, n)]
    BY <2>1 DEF PickStep
  <2> QED
    BY <2>2
<1>2. ASSUME NEW k \in Nat, k \in T PROVE k + 1 \in T
  <2>1. PICK g : g = [n \in 0..k |-> PickStep(s, places, g, n)]
    BY <1>2
  <2> DEFINE h == [n \in 0..(k + 1) |-> IF n = k + 1 THEN PickStep(s, places, g, n) ELSE g[n]]
  <2>2. ASSUME NEW n \in 0..(k + 1) PROVE h[n] = PickStep(s, places, h, n)
    <3>1. CASE n = 0
      <4>1. h[n] = g[0] /\ g[0] = PickStep(s, places, g, 0)
        BY <2>1, <3>1
      <4> QED
        BY <3>1, <4>1 DEF PickStep
    <3>2. CASE n # 0
      <4>1. n - 1 \in 0..(k + 1) /\ n - 1 # k + 1 /\ n - 1 \in 0..k
        BY <3>2
      <4>2. h[n - 1] = g[n - 1]
        BY <4>1
      <4>3. h[n] = PickStep(s, places, g, n)
        <5>1. CASE n = k + 1
          BY <5>1
        <5>2. CASE n # k + 1
          <6>1. n \in 0..k
            BY <5>2
          <6>2. h[n] = g[n]
            BY <5>2
          <6> QED
            BY <2>1, <6>1, <6>2
        <5> QED
          BY <5>1, <5>2
      <4>4. PickStep(s, places, h, n) = PickStep(s, places, g, n)
        BY <4>2 DEF PickStep
      <4> QED
        BY <4>3, <4>4
    <3> QED
      BY <3>1, <3>2
  <2>3. h = [n \in 0..(k + 1) |-> PickStep(s, places, h, n)]
    <3>1. h = [n \in 0..(k + 1) |-> h[n]]
      OBVIOUS
    <3> HIDE DEF h
    <3> QED
      BY <2>2, <3>1
  <2>4. \E f : f = [n \in 0..(k + 1) |-> PickStep(s, places, f, n)]
    <3> HIDE DEF h
    <3> QED
      BY <2>3
  <2> HIDE DEF h
  <2> QED
    BY <2>4
<1>3. m \in T
  <2> HIDE DEF T
  <2> QED
    BY <1>1, <1>2, Induction
<1> QED
  BY <1>3

\* The value of Pick is that of a loop.
LEMMA PickValue ==
  ASSUME NEW s, NEW places, Len(s) \in Nat
  PROVE  \E g : /\ g = [n \in 0..Len(s) |-> PickStep(s, places, g, n)]
                /\ Pick(s, places) = g[Len(s)]
<1> DEFINE g == CHOOSE g : g = [n \in 0..Len(s) |-> PickStep(s, places, g, n)]
<1>1. g = [n \in 0..Len(s) |-> PickStep(s, places, g, n)]
  BY PickLoop
<1>2. Pick(s, places) = g[Len(s)]
  BY DEF Pick, PickStep
<1> HIDE DEF g
<1> QED
  BY <1>1, <1>2

\* The slice f has the elements of s at the places, in their order.
PickedFrom(f, s, places) ==
  \E w \in [1..Len(f) -> places] :
    /\ \A p \in 1..Len(f) : f[p] = s[w[p]]
    /\ \A p, q \in 1..Len(f) : p <= q => w[p] <= w[q]
    /\ \A i \in places : \E p \in 1..Len(f) : w[p] = i

LEMMA PickedPlaces ==
  ASSUME NEW S, NEW s \in Seq(S), NEW places \in SUBSET (1..Len(s))
  PROVE  Pick(s, places) \in Seq(S) /\ PickedFrom(Pick(s, places), s, places)
<1>1. Len(s) \in Nat
  OBVIOUS
<1>2. PICK g : /\ g = [n \in 0..Len(s) |-> PickStep(s, places, g, n)]
               /\ Pick(s, places) = g[Len(s)]
  BY <1>1, PickValue
<1> DEFINE Good(f, w, n) ==
             /\ f \in Seq(S)
             /\ w \in [1..Len(f) -> places \cap (1..n)]
             /\ \A p \in 1..Len(f) : f[p] = s[w[p]]
             /\ \A p, q \in 1..Len(f) : p <= q => w[p] <= w[q]
             /\ \A i \in places \cap (1..n) : \E p \in 1..Len(f) : w[p] = i
           T == {n \in Nat : n <= Len(s) => \E w : Good(g[n], w, n)}
<1>3. 0 \in T
  <2>1. g[0] = << >>
    BY <1>1, <1>2 DEF PickStep
  <2>2. Good(<< >>, << >>, 0)
    <3>1. 1..Len(<< >>) = {} /\ 1..0 = {}
      OBVIOUS
    <3>2. << >> \in Seq(S) /\ << >> \in [{} -> places \cap (1..0)]
      OBVIOUS
    <3> QED
      BY <3>1, <3>2
  <2> HIDE DEF Good
  <2> QED
    BY <2>1, <2>2
<1>4. ASSUME NEW n \in Nat, n \in T PROVE n + 1 \in T
  <2> SUFFICES ASSUME n + 1 <= Len(s) PROVE \E w : Good(g[n + 1], w, n + 1)
    OBVIOUS
  <2>1. PICK w : Good(g[n], w, n)
    <3> HIDE DEF Good
    <3> QED
      BY <1>1, <1>4
  <2>2. n + 1 \in 0..Len(s) /\ n + 1 \in 1..Len(s) /\ (n + 1) - 1 = n /\ n + 1 # 0
    BY <1>1
  <2>3. g[n + 1] = IF n + 1 \in places THEN Append(g[n], s[n + 1]) ELSE g[n]
    BY <1>2, <2>2 DEF PickStep
  <2> DEFINE f == g[n]
  <2>4. f \in Seq(S) /\ Len(f) \in Nat
    BY <2>1
  <2>5. CASE n + 1 \notin places
    <3>1. places \cap (1..(n + 1)) = places \cap (1..n)
      BY <2>5
    <3>2. Good(f, w, n + 1)
      BY <2>1, <3>1
    <3> QED
      BY <2>3, <2>5, <3>2
  <2>6. CASE n + 1 \in places
    <3> DEFINE e == Append(f, s[n + 1])
               v == [p \in 1..(Len(f) + 1) |-> IF p = Len(f) + 1 THEN n + 1 ELSE w[p]]
    <3>1. s[n + 1] \in S
      BY <2>2
    <3>2. /\ e \in Seq(S) /\ Len(e) = Len(f) + 1
          /\ \A p \in 1..Len(f) : e[p] = f[p]
          /\ e[Len(f) + 1] = s[n + 1]
      BY <2>4, <3>1, AppendProperties
    <3>3. \A p \in 1..(Len(f) + 1) : p # Len(f) + 1 => p \in 1..Len(f)
      BY <2>4
    <3> HIDE DEF f, e
    <3>4. v \in [1..Len(e) -> places \cap (1..(n + 1))]
      <4>1. \A p \in 1..Len(f) : w[p] \in places \cap (1..(n + 1))
        <5>1. \A p \in 1..Len(f) : w[p] \in places \cap (1..n)
          BY <2>1 DEF f
        <5>2. places \cap (1..n) \subseteq places \cap (1..(n + 1))
          OBVIOUS
        <5> QED
          BY <5>1, <5>2
      <4>2. n + 1 \in places \cap (1..(n + 1))
        BY <2>6
      <4> QED
        BY <3>2, <3>3, <4>1, <4>2
    <3>5. \A p \in 1..Len(f) : v[p] = w[p] /\ p \in 1..Len(e) /\ p # Len(f) + 1
      BY <2>4, <3>2
    <3>6. v[Len(f) + 1] = n + 1 /\ Len(f) + 1 \in 1..Len(e)
      BY <2>4, <3>2
    <3> HIDE DEF v
    <3>7. \A p \in 1..Len(e) : e[p] = s[v[p]]
      BY <2>1, <3>2, <3>3, <3>5, <3>6 DEF f
    <3>8. \A p, q \in 1..Len(e) : p <= q => v[p] <= v[q]
      <4> SUFFICES ASSUME NEW p \in 1..Len(e), NEW q \in 1..Len(e), p <= q
                   PROVE  v[p] <= v[q]
        OBVIOUS
      <4>1. CASE q = Len(f) + 1
        <5>1. v[p] \in 1..(n + 1)
          BY <3>4
        <5> QED
          BY <3>6, <4>1, <5>1
      <4>2. CASE q # Len(f) + 1
        <5>1. q \in 1..Len(f) /\ p \in 1..Len(f)
          BY <2>4, <3>2, <3>3, <4>2
        <5> QED
          BY <2>1, <3>5, <5>1 DEF f
      <4> QED
        BY <4>1, <4>2
    <3>9. ASSUME NEW i \in places \cap (1..(n + 1))
          PROVE  \E p \in 1..Len(e) : v[p] = i
      <4>1. CASE i = n + 1
        BY <3>6, <4>1
      <4>2. CASE i # n + 1
        <5>1. i \in places \cap (1..n)
          BY <4>2
        <5>2. PICK p \in 1..Len(f) : w[p] = i
          BY <2>1, <5>1 DEF f
        <5> QED
          BY <3>5, <5>2
      <4> QED
        BY <4>1, <4>2
    <3>10. Good(e, v, n + 1)
      BY <3>2, <3>4, <3>7, <3>8, <3>9
    <3>11. e = g[n + 1]
      BY <2>3, <2>6 DEF e, f
    <3> HIDE DEF Good
    <3> QED
      BY <3>10, <3>11
  <2> QED
    BY <2>5, <2>6
<1>5. Len(s) \in T
  <2> HIDE DEF T
  <2> QED
    BY <1>1, <1>3, <1>4, Induction
<1>6. PICK w : Good(Pick(s, places), w, Len(s))
  <2> HIDE DEF Good
  <2> QED
    BY <1>1, <1>2, <1>5
<1>7. places \cap (1..Len(s)) = places
  OBVIOUS
<1> QED
  BY <1>6, <1>7 DEF PickedFrom

\* What FlattenSeq has after n sequences.
FlattenStep(q, g, n) == IF n = 1 THEN q[n] ELSE g[n - 1] \o q[n]

\* The recursion of FlattenSeq is well defined.
LEMMA FlattenLoop ==
  ASSUME NEW q, NEW m \in Nat
  PROVE  \E g : g = [n \in 1..m |-> FlattenStep(q, g, n)]
<1> DEFINE T == {k \in Nat : \E g : g = [n \in 1..k |-> FlattenStep(q, g, n)]}
<1>1. 0 \in T
  <2>1. 1..0 = {}
    OBVIOUS
  <2>2. << >> = [n \in 1..0 |-> FlattenStep(q, << >>, n)]
    BY <2>1
  <2> QED
    BY <2>2
<1>2. ASSUME NEW k \in Nat, k \in T PROVE k + 1 \in T
  <2>1. PICK g : g = [n \in 1..k |-> FlattenStep(q, g, n)]
    BY <1>2
  <2> DEFINE h == [n \in 1..(k + 1) |-> IF n = k + 1 THEN FlattenStep(q, g, n) ELSE g[n]]
  <2>2. ASSUME NEW n \in 1..(k + 1) PROVE h[n] = FlattenStep(q, h, n)
    <3>1. h[n] = FlattenStep(q, g, n)
      <4>1. CASE n = k + 1
        BY <4>1
      <4>2. CASE n # k + 1
        <5>1. n \in 1..k
          BY <4>2
        <5>2. h[n] = g[n]
          BY <4>2
        <5> QED
          BY <2>1, <5>1, <5>2
      <4> QED
        BY <4>1, <4>2
    <3>2. n # 1 => h[n - 1] = g[n - 1]
      <4> SUFFICES ASSUME n # 1 PROVE h[n - 1] = g[n - 1]
        OBVIOUS
      <4>1. n - 1 \in 1..(k + 1) /\ n - 1 # k + 1
        OBVIOUS
      <4> QED
        BY <4>1
    <3>3. FlattenStep(q, h, n) = FlattenStep(q, g, n)
      BY <3>2 DEF FlattenStep
    <3> QED
      BY <3>1, <3>3
  <2>3. h = [n \in 1..(k + 1) |-> FlattenStep(q, h, n)]
    <3>1. h = [n \in 1..(k + 1) |-> h[n]]
      OBVIOUS
    <3> HIDE DEF h
    <3> QED
      BY <2>2, <3>1
  <2>4. \E f : f = [n \in 1..(k + 1) |-> FlattenStep(q, f, n)]
    <3> HIDE DEF h
    <3> QED
      BY <2>3
  <2> HIDE DEF h
  <2> QED
    BY <2>4
<1>3. m \in T
  <2> HIDE DEF T
  <2> QED
    BY <1>1, <1>2, Induction
<1> QED
  BY <1>3

LEMMA RangeOfTwo ==
  ASSUME NEW S, NEW a \in Seq(S), NEW b \in Seq(S)
  PROVE  Range(a \o b) = Range(a) \cup Range(b)
<1>1. /\ Len(a) \in Nat /\ Len(b) \in Nat /\ DOMAIN a = 1..Len(a) /\ DOMAIN b = 1..Len(b)
      /\ DOMAIN (a \o b) = 1..(Len(a) + Len(b))
      /\ \A p \in 1..(Len(a) + Len(b)) : (a \o b)[p] = IF p <= Len(a) THEN a[p] ELSE b[p - Len(a)]
  BY ConcatProperties
<1>2. ASSUME NEW p \in 1..(Len(a) + Len(b)) PROVE (a \o b)[p] \in Range(a) \cup Range(b)
  <2>1. CASE p <= Len(a)
    <3>1. p \in 1..Len(a) /\ (a \o b)[p] = a[p]
      BY <1>1, <2>1
    <3> QED
      BY <1>1, <3>1 DEF Range
  <2>2. CASE ~(p <= Len(a))
    <3>1. p - Len(a) \in 1..Len(b) /\ (a \o b)[p] = b[p - Len(a)]
      BY <1>1, <2>2
    <3> QED
      BY <1>1, <3>1 DEF Range
  <2> QED
    BY <2>1, <2>2
<1>3. ASSUME NEW p \in 1..Len(a) PROVE a[p] \in Range(a \o b)
  <2>1. p \in 1..(Len(a) + Len(b)) /\ (a \o b)[p] = a[p]
    BY <1>1
  <2> QED
    BY <1>1, <2>1 DEF Range
<1>4. ASSUME NEW p \in 1..Len(b) PROVE b[p] \in Range(a \o b)
  <2>1. Len(a) + p \in 1..(Len(a) + Len(b)) /\ ~(Len(a) + p <= Len(a)) /\ (Len(a) + p) - Len(a) = p
    BY <1>1
  <2>2. (a \o b)[Len(a) + p] = b[p]
    BY <1>1, <2>1
  <2> QED
    BY <1>1, <2>1, <2>2 DEF Range
<1>5. Range(a \o b) \subseteq Range(a) \cup Range(b)
  BY <1>1, <1>2 DEF Range
<1>6. Range(a) \subseteq Range(a \o b) /\ Range(b) \subseteq Range(a \o b)
  BY <1>1, <1>3, <1>4 DEF Range
<1> QED
  BY <1>5, <1>6

\* The elements of FlattenSeq are those of its sequences.
LEMMA Flattened ==
  ASSUME NEW S, NEW q \in Seq(Seq(S))
  PROVE  /\ FlattenSeq(q) \in Seq(S)
         /\ Range(FlattenSeq(q)) = UNION {Range(q[i]) : i \in 1..Len(q)}
<1>1. Len(q) \in Nat /\ \A i \in 1..Len(q) : q[i] \in Seq(S)
  OBVIOUS
<1>2. CASE Len(q) = 0
  <2>1. FlattenSeq(q) = q
    BY <1>2 DEF FlattenSeq
  <2>2. q = << >>
    BY <1>2, EmptySeq
  <2>3. 1..0 = {} /\ Range(<< >>) = {}
    BY DEF Range
  <2> QED
    BY <1>2, <2>1, <2>2, <2>3
<1>3. CASE Len(q) # 0
  <2> DEFINE g == CHOOSE g : g = [n \in 1..Len(q) |-> FlattenStep(q, g, n)]
  <2>1. g = [n \in 1..Len(q) |-> FlattenStep(q, g, n)]
    BY <1>1, FlattenLoop
  <2>2. FlattenSeq(q) = g[Len(q)]
    BY <1>3 DEF FlattenSeq, FlattenStep
  <2> HIDE DEF g
  <2> DEFINE Good(f, n) == f \in Seq(S) /\ Range(f) = UNION {Range(q[i]) : i \in 1..n}
             T == {n \in Nat : n + 1 <= Len(q) => Good(g[n + 1], n + 1)}
  <2>3. 0 \in T
    <3>1. 1 \in 1..Len(q)
      BY <1>1, <1>3
    <3>2. g[1] = q[1]
      BY <2>1, <3>1 DEF FlattenStep
    <3>3. 1..1 = {1}
      OBVIOUS
    <3>4. Good(g[1], 1)
      BY <1>1, <3>1, <3>2, <3>3
    <3> QED
      BY <3>4
  <2>4. ASSUME NEW n \in Nat, n \in T PROVE n + 1 \in T
    <3> SUFFICES ASSUME (n + 1) + 1 <= Len(q) PROVE Good(g[(n + 1) + 1], (n + 1) + 1)
      OBVIOUS
    <3> DEFINE k == n + 1
    <3>1. k \in Nat /\ k + 1 \in 1..Len(q) /\ k \in 1..Len(q) /\ (k + 1) - 1 = k /\ k + 1 # 1
      BY <1>1
    <3>2. Good(g[k], k)
      BY <1>1, <2>4
    <3>3. g[k + 1] = g[k] \o q[k + 1]
      BY <2>1, <3>1 DEF FlattenStep
    <3>4. \A i : i \in 1..(k + 1) <=> i \in 1..k \/ i = k + 1
      BY <3>1
    <3> HIDE DEF k
    <3> DEFINE f == g[k]
               e == q[k + 1]
    <3>5. f \in Seq(S) /\ e \in Seq(S)
      BY <1>1, <3>1, <3>2
    <3>6. Range(f) = UNION {Range(q[i]) : i \in 1..k}
      BY <3>2
    <3> HIDE DEF f
    <3>7. f \o e \in Seq(S) /\ Range(f \o e) = Range(f) \cup Range(e)
      <4> HIDE DEF e
      <4> QED
        BY <3>5, RangeOfTwo
    <3>8. UNION {Range(q[i]) : i \in 1..(k + 1)} = Range(f) \cup Range(e)
      BY <3>4, <3>6
    <3>9. Good(f \o e, k + 1)
      BY <3>7, <3>8
    <3>10. f \o e = g[k + 1]
      BY <3>3 DEF f
    <3>11. Good(g[k + 1], k + 1)
      BY <3>9, <3>10
    <3> QED
      BY <3>11 DEF k
  <2>5. Len(q) - 1 \in Nat /\ (Len(q) - 1) + 1 = Len(q)
    BY <1>1, <1>3
  <2>6. Len(q) - 1 \in T
    <3> HIDE DEF T
    <3> QED
      BY <2>3, <2>4, <2>5, Induction
  <2>7. Good(g[Len(q)], Len(q))
    BY <2>5, <2>6
  <2> QED
    BY <2>2, <2>7
<1> QED
  BY <1>2, <1>3

-----------------------------------------------------------------------------
(***************************************************************************)
(* Patches: what a list of events, or of batches of events, does to a map  *)
(***************************************************************************)

\* A patch has the last event for each of the keys it is about.
Patched(st, patch) ==
  [k \in {l \in DOMAIN st \cup DOMAIN patch :
            l \in DOMAIN patch => patch[l].type # "delete"} |->
     IF k \in DOMAIN patch THEN patch[k].object ELSE st[k]]

\* The patch that the patches at some places amount to, the last ones first.
About(P, I, k) == {i \in I : k \in DOMAIN P[i]}
Joined(P, I) ==
  [k \in UNION {DOMAIN P[i] : i \in I} |-> P[Max(About(P, I, k))][k]]

\* To apply the patches at some places is to apply all but the last, then that.
LEMMA JoinedLast ==
  ASSUME NEW n \in Nat, NEW P, NEW I \in SUBSET (1..n), I # {}, NEW st
  PROVE  Patched(st, Joined(P, I)) = Patched(Patched(st, Joined(P, I \ {Max(I)})), P[Max(I)])
<1> DEFINE m == Max(I)
           J == I \ {m}
           A == Joined(P, I)
           B == Joined(P, J)
           C == P[m]
<1>1. m \in I /\ \A j \in I : j <= m
  BY LastPlace
<1>2. DOMAIN A = DOMAIN B \cup DOMAIN C
  BY <1>1 DEF Joined
<1>3. ASSUME NEW k \in DOMAIN C PROVE A[k] = C[k]
  <2>1. m \in About(P, I, k) /\ About(P, I, k) \subseteq I
    BY <1>1 DEF About
  <2>2. Max(About(P, I, k)) \in About(P, I, k) /\ m <= Max(About(P, I, k))
    BY <2>1, LastPlace
  <2>3. Max(About(P, I, k)) \in I /\ m \in 1..n /\ Max(About(P, I, k)) \in 1..n
    BY <1>1, <2>1, <2>2
  <2>4. Max(About(P, I, k)) <= m
    BY <1>1, <2>3
  <2>5. Max(About(P, I, k)) = m
    BY <2>2, <2>3, <2>4
  <2>6. k \in DOMAIN A
    BY <1>2
  <2> QED
    BY <2>5, <2>6 DEF Joined
<1>4. ASSUME NEW k \in DOMAIN B, k \notin DOMAIN C PROVE A[k] = B[k]
  <2>1. About(P, I, k) = About(P, J, k)
    BY <1>1, <1>4 DEF About
  <2>2. k \in DOMAIN A
    BY <1>2
  <2> QED
    BY <2>1, <2>2 DEF Joined
<1> HIDE DEF m, J, A, B, C
<1> DEFINE L == Patched(st, A)
           M == Patched(st, B)
           R == Patched(M, C)
<1>5. DOMAIN L = {l \in DOMAIN st \cup DOMAIN A : l \in DOMAIN A => A[l].type # "delete"}
  BY DEF Patched
<1>6. DOMAIN M = {l \in DOMAIN st \cup DOMAIN B : l \in DOMAIN B => B[l].type # "delete"}
  BY DEF Patched
<1>7. DOMAIN R = {l \in DOMAIN M \cup DOMAIN C : l \in DOMAIN C => C[l].type # "delete"}
  BY DEF Patched
<1>8. DOMAIN L = DOMAIN R
  BY <1>2, <1>3, <1>4, <1>5, <1>6, <1>7
<1>9. ASSUME NEW k \in DOMAIN L PROVE L[k] = R[k]
  <2>1. L[k] = IF k \in DOMAIN A THEN A[k].object ELSE st[k]
    BY DEF Patched
  <2>2. R[k] = IF k \in DOMAIN C THEN C[k].object ELSE M[k]
    BY <1>8 DEF Patched
  <2>3. CASE k \in DOMAIN C
    BY <1>2, <1>3, <2>1, <2>2, <2>3
  <2>4. CASE k \notin DOMAIN C
    <3>1. k \in DOMAIN M
      BY <1>7, <1>8, <2>4
    <3>2. M[k] = IF k \in DOMAIN B THEN B[k].object ELSE st[k]
      BY <3>1 DEF Patched
    <3> QED
      BY <1>2, <1>4, <2>1, <2>2, <2>4, <3>2
  <2> QED
    BY <2>3, <2>4
<1>10. L = [k \in DOMAIN L |-> L[k]] /\ R = [k \in DOMAIN R |-> R[k]]
  BY DEF Patched
<1>11. L = R
  <2> HIDE DEF L, R
  <2> QED
    BY <1>8, <1>9, <1>10
<1> QED
  BY <1>11 DEF m, J, A, B, C

IsMap(f) == f = [k \in DOMAIN f |-> f[k]]

LEMMA PatchedIsMap == \A st, patch : IsMap(Patched(st, patch))
BY DEF IsMap, Patched

\* No patches change nothing.
LEMMA JoinedNone ==
  ASSUME NEW P, NEW st, IsMap(st)
  PROVE  Patched(st, Joined(P, {})) = st
<1>1. DOMAIN Joined(P, {}) = {}
  BY DEF Joined
<1> QED
  BY <1>1 DEF Patched, IsMap

\* A recursion over sets of places that applies the last patch last applies the
\* joined patch.
LEMMA FoldedPatches ==
  ASSUME NEW n \in Nat, NEW P, NEW st, IsMap(st), NEW it,
         it[{}] = st,
         \A I \in SUBSET (1..n) :
           I # {} /\ IsMap(it[I \ {Max(I)}]) =>
             it[I] = Patched(it[I \ {Max(I)}], P[Max(I)])
  PROVE  it[1..n] = Patched(st, Joined(P, 1..n))
<1> DEFINE T == {m \in Nat : m <= n =>
                   \A I \in SUBSET (1..m) : it[I] = Patched(st, Joined(P, I))}
<1>1. 0 \in T
  <2>1. 1..0 = {}
    OBVIOUS
  <2>2. \A I \in SUBSET (1..0) : I = {}
    BY <2>1
  <2> QED
    BY <2>2, JoinedNone
<1>2. ASSUME NEW m \in Nat, m \in T PROVE m + 1 \in T
  <2> SUFFICES ASSUME m + 1 <= n, NEW I \in SUBSET (1..(m + 1))
               PROVE  it[I] = Patched(st, Joined(P, I))
    OBVIOUS
  <2>1. \A J \in SUBSET (1..m) : it[J] = Patched(st, Joined(P, J))
    BY <1>2
  <2>2. CASE m + 1 \notin I
    <3>1. I \in SUBSET (1..m)
      BY <2>2
    <3> QED
      BY <2>1, <3>1
  <2>3. CASE m + 1 \in I
    <3>1. Max(I) \in I /\ \A j \in I : j <= Max(I)
      BY <2>3, LastPlace
    <3>2. Max(I) = m + 1
      <4>1. Max(I) \in 1..(m + 1) /\ m + 1 <= Max(I)
        BY <2>3, <3>1
      <4> QED
        BY <4>1
    <3>3. I \ {Max(I)} \in SUBSET (1..m)
      BY <3>2
    <3>4. it[I \ {Max(I)}] = Patched(st, Joined(P, I \ {Max(I)}))
      BY <2>1, <3>3
    <3>5. I \in SUBSET (1..n) /\ I # {}
      BY <2>3
    <3>6. it[I] = Patched(it[I \ {Max(I)}], P[Max(I)])
      BY <3>4, <3>5, PatchedIsMap
    <3> QED
      BY <3>4, <3>5, <3>6, JoinedLast
  <2> QED
    BY <2>2, <2>3
<1>3. n \in T
  <2> HIDE DEF T
  <2> QED
    BY <1>1, <1>2, Induction
<1>4. 1..n \in SUBSET (1..n)
  OBVIOUS
<1> QED
  BY <1>3, <1>4

\* The patch of one event, of a list of events, and of a channel of lists.
Single(e) == [k \in {e.key} |-> e]
PatchOf(events) == Joined([i \in DOMAIN events |-> Single(events[i])], DOMAIN events)
PatchOfAll(ch) == Joined([i \in DOMAIN ch |-> PatchOf(ch[i])], DOMAIN ch)

\* What storeEvents does for one event.
Stored(s, e) ==
  [k \in IF e.type = "delete" THEN DOMAIN s \ {e.key} ELSE DOMAIN s \cup {e.key} |->
     IF k = e.key THEN e.object ELSE s[k]]

LEMMA StoredIsPatched == \A s, e : Stored(s, e) = Patched(s, Single(e))
<1> SUFFICES ASSUME NEW s, NEW e PROVE Stored(s, e) = Patched(s, Single(e))
  OBVIOUS
<1> DEFINE c == Single(e)
<1>1. DOMAIN c = {e.key} /\ c[e.key] = e
  BY DEF Single
<1> HIDE DEF c
<1>2. DOMAIN Stored(s, e) = DOMAIN Patched(s, c)
  <2>1. DOMAIN Stored(s, e)
          = IF e.type = "delete" THEN DOMAIN s \ {e.key} ELSE DOMAIN s \cup {e.key}
    BY DEF Stored
  <2>2. DOMAIN Patched(s, c)
          = {l \in DOMAIN s \cup DOMAIN c : l \in DOMAIN c => c[l].type # "delete"}
    BY DEF Patched
  <2> QED
    BY <1>1, <2>1, <2>2
<1>3. ASSUME NEW k \in DOMAIN Stored(s, e) PROVE Stored(s, e)[k] = Patched(s, c)[k]
  <2>1. Stored(s, e)[k] = IF k = e.key THEN e.object ELSE s[k]
    BY DEF Stored
  <2>2. Patched(s, c)[k] = IF k \in DOMAIN c THEN c[k].object ELSE s[k]
    BY <1>2 DEF Patched
  <2> QED
    BY <1>1, <2>1, <2>2
<1>4. IsMap(Stored(s, e)) /\ IsMap(Patched(s, c))
  BY PatchedIsMap DEF IsMap, Stored
<1> QED
  BY <1>2, <1>3, <1>4 DEF IsMap, c

\* storeEvents applies the patch of the list.
LEMMA Applied ==
  ASSUME NEW S, NEW events \in Seq(S), NEW st, IsMap(st)
  PROVE  ApplyEvents(st, events) = Patched(st, PatchOf(events))
<1> DEFINE n == Len(events)
           P == [i \in DOMAIN events |-> Single(events[i])]
           Step(it, I) == IF I = {} THEN st
                          ELSE Stored(it[I \ {Max(I)}], events[Max(I)])
           it == CHOOSE it : it = [I \in SUBSET DOMAIN events |-> Step(it, I)]
<1>1. ApplyEvents(st, events) = it[DOMAIN events]
  BY DEF ApplyEvents, FoldLeft, MapThenFoldSet, Stored
<1>2. n \in Nat /\ DOMAIN events = 1..n
  OBVIOUS
<1> DEFINE sol == [I \in SUBSET DOMAIN events |-> Patched(st, Joined(P, I))]
<1> HIDE DEF n
<1>3. ASSUME NEW I \in SUBSET DOMAIN events PROVE sol[I] = Step(sol, I)
  <2>1. CASE I = {}
    BY <2>1, JoinedNone
  <2>2. CASE I # {}
    <3>1. Max(I) \in I
      BY <1>2, <2>2, LastPlace
    <3>2. I \ {Max(I)} \in SUBSET DOMAIN events /\ Max(I) \in DOMAIN events
      BY <3>1
    <3>3. P[Max(I)] = Single(events[Max(I)])
      BY <3>2
    <3> HIDE DEF P
    <3>4. sol[I \ {Max(I)}] = Patched(st, Joined(P, I \ {Max(I)}))
      BY <3>2
    <3>5. sol[I] = Patched(Patched(st, Joined(P, I \ {Max(I)})), P[Max(I)])
      BY <1>2, <2>2, JoinedLast
    <3> HIDE DEF sol
    <3> QED
      BY <2>2, <3>3, <3>4, <3>5, StoredIsPatched
  <2> QED
    BY <2>1, <2>2
<1>4. \E f : f = [I \in SUBSET DOMAIN events |-> Step(f, I)]
  <2>1. sol = [I \in SUBSET DOMAIN events |-> sol[I]]
    OBVIOUS
  <2> HIDE DEF sol, Step
  <2>2. sol = [I \in SUBSET DOMAIN events |-> Step(sol, I)]
    BY <1>3, <2>1
  <2> QED
    BY <2>2
<1>5. it = [I \in SUBSET DOMAIN events |-> Step(it, I)]
  <2> HIDE DEF Step
  <2> QED
    BY <1>4
<1> HIDE DEF it, sol
<1>6. it[{}] = st
  BY <1>5
<1>7. ASSUME NEW I \in SUBSET (1..n), I # {}
      PROVE  it[I] = Patched(it[I \ {Max(I)}], P[Max(I)])
  <2>1. Max(I) \in DOMAIN events
    BY <1>2, <1>7, LastPlace
  <2>2. it[I] = Stored(it[I \ {Max(I)}], events[Max(I)])
    BY <1>2, <1>5, <1>7
  <2> QED
    BY <2>1, <2>2, StoredIsPatched
<1> HIDE DEF P
<1>8. it[1..n] = Patched(st, Joined(P, 1..n))
  BY <1>2, <1>6, <1>7, FoldedPatches
<1> QED
  BY <1>1, <1>2, <1>8 DEF PatchOf, P

\* The channel of lists, one after the other, applies the patch of all of them.
LEMMA AppliedAll ==
  ASSUME NEW S, NEW ch \in Seq(Seq(S)), NEW st, IsMap(st)
  PROVE  FoldLeft(ApplyEvents, st, ch) = Patched(st, PatchOfAll(ch))
<1> DEFINE n == Len(ch)
           P == [i \in DOMAIN ch |-> PatchOf(ch[i])]
           Step(it, I) == IF I = {} THEN st
                          ELSE ApplyEvents(it[I \ {Max(I)}], ch[Max(I)])
           it == CHOOSE it : it = [I \in SUBSET DOMAIN ch |-> Step(it, I)]
<1>1. FoldLeft(ApplyEvents, st, ch) = it[DOMAIN ch]
  BY DEF FoldLeft, MapThenFoldSet
<1>2. n \in Nat /\ DOMAIN ch = 1..n /\ \A i \in DOMAIN ch : ch[i] \in Seq(S)
  OBVIOUS
<1> DEFINE sol == [I \in SUBSET DOMAIN ch |-> Patched(st, Joined(P, I))]
<1> HIDE DEF n
<1>3. ASSUME NEW I \in SUBSET DOMAIN ch PROVE sol[I] = Step(sol, I)
  <2>1. CASE I = {}
    BY <2>1, JoinedNone
  <2>2. CASE I # {}
    <3>1. Max(I) \in I
      BY <1>2, <2>2, LastPlace
    <3>2. I \ {Max(I)} \in SUBSET DOMAIN ch /\ Max(I) \in DOMAIN ch
      BY <3>1
    <3>3. P[Max(I)] = PatchOf(ch[Max(I)]) /\ ch[Max(I)] \in Seq(S)
      BY <1>2, <3>2
    <3> HIDE DEF P
    <3>4. sol[I \ {Max(I)}] = Patched(st, Joined(P, I \ {Max(I)}))
      BY <3>2
    <3>5. sol[I] = Patched(Patched(st, Joined(P, I \ {Max(I)})), P[Max(I)])
      BY <1>2, <2>2, JoinedLast
    <3> HIDE DEF sol
    <3>6. IsMap(sol[I \ {Max(I)}])
      BY <3>4, PatchedIsMap
    <3>7. ApplyEvents(sol[I \ {Max(I)}], ch[Max(I)])
            = Patched(sol[I \ {Max(I)}], PatchOf(ch[Max(I)]))
      BY <3>3, <3>6, Applied
    <3> QED
      BY <2>2, <3>3, <3>4, <3>5, <3>7
  <2> QED
    BY <2>1, <2>2
<1>4. \E f : f = [I \in SUBSET DOMAIN ch |-> Step(f, I)]
  <2>1. sol = [I \in SUBSET DOMAIN ch |-> sol[I]]
    OBVIOUS
  <2> HIDE DEF sol, Step
  <2>2. sol = [I \in SUBSET DOMAIN ch |-> Step(sol, I)]
    BY <1>3, <2>1
  <2> QED
    BY <2>2
<1>5. it = [I \in SUBSET DOMAIN ch |-> Step(it, I)]
  <2> HIDE DEF Step
  <2> QED
    BY <1>4
<1> HIDE DEF it, sol
<1>6. it[{}] = st
  BY <1>5
<1>7. ASSUME NEW I \in SUBSET (1..n), I # {}, IsMap(it[I \ {Max(I)}])
      PROVE  it[I] = Patched(it[I \ {Max(I)}], P[Max(I)])
  <2>1. Max(I) \in DOMAIN ch
    BY <1>2, <1>7, LastPlace
  <2>2. it[I] = ApplyEvents(it[I \ {Max(I)}], ch[Max(I)])
    BY <1>2, <1>5, <1>7
  <2>3. ch[Max(I)] \in Seq(S) /\ P[Max(I)] = PatchOf(ch[Max(I)])
    BY <1>2, <2>1
  <2> QED
    BY <1>7, <2>2, <2>3, Applied
<1> HIDE DEF P
<1>8. it[1..n] = Patched(st, Joined(P, 1..n))
  BY <1>2, <1>6, <1>7, FoldedPatches
<1> QED
  BY <1>1, <1>2, <1>8 DEF PatchOfAll, P

\* The patch of a list has the last event for each key.
LastEvents(p, events) ==
  /\ \A i \in 1..Len(events) : events[i].key \in DOMAIN p
  /\ \A k \in DOMAIN p :
       \E i \in 1..Len(events) :
         /\ events[i].key = k /\ p[k] = events[i]
         /\ \A j \in 1..Len(events) : events[j].key = k => j <= i

LEMMA PatchOfList ==
  ASSUME NEW S, NEW events \in Seq(S)
  PROVE  LastEvents(PatchOf(events), events)
<1> DEFINE P == [i \in DOMAIN events |-> Single(events[i])]
<1>1. Len(events) \in Nat /\ DOMAIN events = 1..Len(events)
  OBVIOUS
<1>2. \A i \in DOMAIN events : DOMAIN P[i] = {events[i].key}
  BY DEF Single
<1>3. \A i \in DOMAIN events : P[i][events[i].key] = events[i]
  BY DEF Single
<1> HIDE DEF P
<1>4. DOMAIN PatchOf(events) = UNION {DOMAIN P[i] : i \in DOMAIN events}
  BY DEF PatchOf, Joined, P
<1>5. DOMAIN PatchOf(events) = {events[i].key : i \in DOMAIN events}
  BY <1>2, <1>4
<1>6. ASSUME NEW k \in DOMAIN PatchOf(events)
      PROVE  \E i \in DOMAIN events :
               /\ events[i].key = k /\ PatchOf(events)[k] = events[i]
               /\ \A j \in DOMAIN events : events[j].key = k => j <= i
  <2> DEFINE A == About(P, DOMAIN events, k)
             m == Max(A)
  <2>1. A = {i \in DOMAIN events : events[i].key = k}
    BY <1>2 DEF About
  <2>2. A # {} /\ A \in SUBSET (1..Len(events))
    BY <1>1, <1>5, <2>1
  <2> HIDE DEF A
  <2>3. m \in A /\ \A j \in A : j <= m
    BY <1>1, <2>2, LastPlace
  <2>4. PatchOf(events)[k] = P[m][k]
    BY DEF PatchOf, Joined, P, A
  <2> HIDE DEF m
  <2>5. m \in DOMAIN events /\ events[m].key = k
    BY <2>1, <2>3
  <2>6. PatchOf(events)[k] = events[m]
    BY <1>3, <2>4, <2>5
  <2>7. \A j \in DOMAIN events : events[j].key = k => j <= m
    BY <2>1, <2>3
  <2> QED
    BY <2>5, <2>6, <2>7
<1> HIDE DEF P
<1> QED
  BY <1>1, <1>5, <1>6 DEF LastEvents

-----------------------------------------------------------------------------
(***************************************************************************)
(* The difference of two slices                                            *)
(***************************************************************************)

\* The map entry of an id is the last resource that has it.
LEMMA EntryIsLast ==
  ASSUME NEW R, NEW s \in Seq(R), NEW k \in Ids(s)
  PROVE  \E m \in 1..Len(s) :
           /\ Entry(s, k) = s[m] /\ s[m].id = k /\ s[m] \in R
           /\ \A j \in 1..Len(s) : s[j].id = k => j <= m
<1> DEFINE A == {i \in DOMAIN s : s[i].id = k}
           m == Max(A)
<1>1. Len(s) \in Nat /\ DOMAIN s = 1..Len(s) /\ \A i \in 1..Len(s) : s[i] \in R
  OBVIOUS
<1>2. A # {} /\ A \in SUBSET (1..Len(s))
  BY <1>1 DEF Ids
<1> HIDE DEF A
<1>3. m \in A /\ \A j \in A : j <= m
  BY <1>1, <1>2, LastPlace
<1>4. Entry(s, k) = s[m]
  BY DEF Entry, A
<1> HIDE DEF m
<1> QED
  BY <1>1, <1>3, <1>4 DEF A

\* CompareRoutes: what is added has the last resource of each new id at its
\* end, what is deleted has every id that is gone, and what is updated the map
\* entry of every id whose entry has changed.
IsDifference(c, s1, s2) ==
  /\ \A p \in 1..Len(c.added) : c.added[p].id \in Ids(s2) \ Ids(s1)
  /\ \A k \in Ids(s2) \ Ids(s1) :
       \E p \in 1..Len(c.added) :
         /\ c.added[p].id = k /\ c.added[p] = Entry(s2, k)
         /\ \A q \in 1..Len(c.added) : c.added[q].id = k => q <= p
  /\ \A p \in 1..Len(c.deleted) : c.deleted[p].id \in Ids(s1) \ Ids(s2)
  /\ \A k \in Ids(s1) \ Ids(s2) : \E p \in 1..Len(c.deleted) : c.deleted[p].id = k
  /\ \A p \in 1..Len(c.updated) :
       /\ c.updated[p].id \in Ids(s1) \cap Ids(s2)
       /\ c.updated[p] = Entry(s2, c.updated[p].id)
  /\ \A k \in Ids(s1) \cap Ids(s2) :
       Entry(s1, k) # Entry(s2, k) => \E p \in 1..Len(c.updated) : c.updated[p].id = k

LEMMA Compared ==
  ASSUME NEW R, NEW s1 \in Seq(R), NEW s2 \in Seq(R)
  PROVE  /\ Compare(s1, s2).added \in Seq(R) /\ Compare(s1, s2).deleted \in Seq(R)
         /\ Compare(s1, s2).updated \in Seq(R)
         /\ IsDifference(Compare(s1, s2), s1, s2)
<1> DEFINE c == Compare(s1, s2)
<1>1. /\ Len(s1) \in Nat /\ DOMAIN s1 = 1..Len(s1) /\ \A i \in 1..Len(s1) : s1[i] \in R
      /\ Len(s2) \in Nat /\ DOMAIN s2 = 1..Len(s2) /\ \A i \in 1..Len(s2) : s2[i] \in R
  OBVIOUS
<1>2. /\ \A i \in 1..Len(s1) : s1[i].id \in Ids(s1)
      /\ \A i \in 1..Len(s2) : s2[i].id \in Ids(s2)
  BY <1>1 DEF Ids
<1>3. << >> \in Seq(R) /\ Len(<< >>) = 0 /\ 1..0 = {} /\ Ids(<< >>) = {}
  BY DEF Ids
<1>4. CASE s1 = << >>
  <2>1. c.added = s2 /\ c.deleted = << >> /\ c.updated = << >>
    BY <1>4 DEF Compare
  <2> HIDE DEF c
  <2>2. \A k \in Ids(s2) :
          \E p \in 1..Len(s2) :
            /\ s2[p].id = k /\ s2[p] = Entry(s2, k)
            /\ \A q \in 1..Len(s2) : s2[q].id = k => q <= p
    BY EntryIsLast
  <2>3. Ids(s1) = {}
    BY <1>3, <1>4
  <2> QED
    BY <1>1, <1>2, <1>3, <2>1, <2>2, <2>3 DEF c, IsDifference
<1>5. CASE s1 # << >> /\ s2 = << >>
  <2>1. c.added = << >> /\ c.deleted = s1 /\ c.updated = << >>
    BY <1>5 DEF Compare
  <2>2. Ids(s2) = {}
    BY <1>3, <1>5
  <2>3. \A k \in Ids(s1) : \E p \in 1..Len(s1) : s1[p].id = k
    BY <1>1 DEF Ids
  <2> HIDE DEF c
  <2> QED
    BY <1>1, <1>2, <1>3, <2>1, <2>2, <2>3 DEF c, IsDifference
<1>6. CASE s1 # << >> /\ s2 # << >>
  <2> DEFINE new == Unknown(s2, s1)
             gone == Unknown(s1, s2)
             old == Stale(s1, s2)
             stale == Pick(s1, old)
  <2>1. /\ c.added = Pick(s2, new) /\ c.deleted = Pick(s1, gone)
        /\ c.updated = [i \in DOMAIN stale |-> Entry(s2, stale[i].id)]
    BY <1>6 DEF Compare
  <2>2. /\ new = {i \in 1..Len(s2) : s2[i].id \notin Ids(s1)}
        /\ gone = {i \in 1..Len(s1) : s1[i].id \notin Ids(s2)}
        /\ old = {i \in 1..Len(s1) \ gone : s1[i] # Entry(s2, s1[i].id)}
    BY <1>1 DEF Unknown, Stale
  <2> HIDE DEF new, gone, old, c
  <2>3. /\ new \in SUBSET (1..Len(s2))
        /\ gone \in SUBSET (1..Len(s1)) /\ old \in SUBSET (1..Len(s1))
    BY <2>2
  <2> DEFINE a == Pick(s2, new)
             d == Pick(s1, gone)
             u == c.updated
  <2>4. a \in Seq(R) /\ PickedFrom(a, s2, new)
    BY <2>3, PickedPlaces
  <2>5. d \in Seq(R) /\ PickedFrom(d, s1, gone)
    BY <2>3, PickedPlaces
  <2>6. stale \in Seq(R) /\ PickedFrom(stale, s1, old)
    BY <2>3, PickedPlaces
  <2> HIDE DEF a, d, stale
  <2>7. \A p \in 1..Len(a) : a[p].id \in Ids(s2) \ Ids(s1)
    <3>1. PICK w \in [1..Len(a) -> new] : \A p \in 1..Len(a) : a[p] = s2[w[p]]
      BY <2>4 DEF PickedFrom
    <3> QED
      BY <1>2, <2>2, <3>1
  <2>8. ASSUME NEW k \in Ids(s2) \ Ids(s1)
        PROVE  \E p \in 1..Len(a) :
                 /\ a[p].id = k /\ a[p] = Entry(s2, k)
                 /\ \A q \in 1..Len(a) : a[q].id = k => q <= p
    <3>1. PICK w \in [1..Len(a) -> new] :
             /\ \A p \in 1..Len(a) : a[p] = s2[w[p]]
             /\ \A p, q \in 1..Len(a) : p <= q => w[p] <= w[q]
             /\ \A i \in new : \E p \in 1..Len(a) : w[p] = i
      BY <2>4 DEF PickedFrom
    <3>2. PICK m \in 1..Len(s2) :
             /\ Entry(s2, k) = s2[m] /\ s2[m].id = k
             /\ \A j \in 1..Len(s2) : s2[j].id = k => j <= m
      BY EntryIsLast
    <3>3. m \in new
      BY <2>2, <3>2
    <3> DEFINE Q == {q \in 1..Len(a) : a[q].id = k}
               p == Max(Q)
    <3>4. PICK q \in 1..Len(a) : w[q] = m
      BY <3>1, <3>3
    <3>5. q \in Q /\ Q \in SUBSET (1..Len(a)) /\ Len(a) \in Nat
      BY <2>4, <3>1, <3>2, <3>4
    <3> HIDE DEF Q
    <3>6. p \in Q /\ \A j \in Q : j <= p
      BY <3>5, LastPlace
    <3> HIDE DEF p
    <3>7. p \in 1..Len(a) /\ a[p].id = k /\ \A j \in 1..Len(a) : a[j].id = k => j <= p
      BY <3>6 DEF Q
    <3>8. w[p] \in 1..Len(s2) /\ s2[w[p]].id = k
      BY <2>3, <3>1, <3>7
    <3>9. w[p] <= m
      BY <3>2, <3>8
    <3>10. m <= w[p]
      BY <3>1, <3>4, <3>5, <3>6, <3>7
    <3>11. w[p] = m
      BY <1>1, <3>2, <3>8, <3>9, <3>10
    <3> QED
      BY <3>1, <3>2, <3>7, <3>11
  <2>9. \A p \in 1..Len(d) : d[p].id \in Ids(s1) \ Ids(s2)
    <3>1. PICK w \in [1..Len(d) -> gone] : \A p \in 1..Len(d) : d[p] = s1[w[p]]
      BY <2>5 DEF PickedFrom
    <3> QED
      BY <1>2, <2>2, <3>1
  <2>10. ASSUME NEW k \in Ids(s1) \ Ids(s2) PROVE \E p \in 1..Len(d) : d[p].id = k
    <3>1. PICK w \in [1..Len(d) -> gone] :
             /\ \A p \in 1..Len(d) : d[p] = s1[w[p]]
             /\ \A i \in gone : \E p \in 1..Len(d) : w[p] = i
      BY <2>5 DEF PickedFrom
    <3>2. PICK i \in 1..Len(s1) : s1[i].id = k
      BY <1>1 DEF Ids
    <3>3. i \in gone
      BY <2>2, <3>2
    <3> QED
      BY <3>1, <3>2, <3>3
  <2>11. Len(stale) \in Nat /\ DOMAIN stale = 1..Len(stale)
    BY <2>6
  <2>12. \A p \in 1..Len(stale) : stale[p].id \in Ids(s1) \cap Ids(s2)
    <3>1. PICK w \in [1..Len(stale) -> old] : \A p \in 1..Len(stale) : stale[p] = s1[w[p]]
      BY <2>6 DEF PickedFrom
    <3> QED
      BY <1>2, <2>2, <3>1
  <2>13. ASSUME NEW k \in Ids(s2) PROVE Entry(s2, k) \in R /\ Entry(s2, k).id = k
    BY <1>2, EntryIsLast
  <2>14. /\ u \in Seq(R) /\ Len(u) = Len(stale)
         /\ \A p \in 1..Len(u) : u[p] = Entry(s2, stale[p].id)
    <3>1. u = [i \in 1..Len(stale) |-> Entry(s2, stale[i].id)]
      BY <2>1, <2>11
    <3>2. \A i \in 1..Len(stale) : Entry(s2, stale[i].id) \in R
      BY <2>12, <2>13
    <3> HIDE DEF u
    <3> QED
      BY <2>11, <3>1, <3>2
  <2> HIDE DEF u
  <2>15. \A p \in 1..Len(u) :
           /\ u[p].id \in Ids(s1) \cap Ids(s2)
           /\ u[p] = Entry(s2, u[p].id)
    BY <2>12, <2>13, <2>14
  <2>16. ASSUME NEW k \in Ids(s1) \cap Ids(s2), Entry(s1, k) # Entry(s2, k)
         PROVE  \E p \in 1..Len(u) : u[p].id = k
    <3>1. PICK m \in 1..Len(s1) : Entry(s1, k) = s1[m] /\ s1[m].id = k
      BY EntryIsLast
    <3>2. m \in old
      BY <2>2, <2>16, <3>1
    <3>3. PICK p \in 1..Len(stale) : stale[p] = s1[m]
      BY <2>6, <3>2 DEF PickedFrom
    <3>4. u[p] = Entry(s2, k) /\ p \in 1..Len(u)
      BY <2>14, <3>1, <3>3
    <3> QED
      BY <2>13, <3>4
  <2>17. c.added = a /\ c.deleted = d /\ c.updated = u
    BY <2>1 DEF a, d, u
  <2>18. /\ c.added \in Seq(R) /\ c.deleted \in Seq(R) /\ c.updated \in Seq(R)
    BY <2>4, <2>5, <2>14, <2>17
  <2> QED
    BY <2>7, <2>8, <2>9, <2>10, <2>15, <2>16, <2>17, <2>18 DEF c, IsDifference
<1> QED
  BY <1>4, <1>5, <1>6

-----------------------------------------------------------------------------
(***************************************************************************)
(* The event list of a difference                                          *)
(***************************************************************************)

Types == {"add", "delete", "update"}
EventsOf(R) == {Event(t, r.id, r) : t \in Types, r \in R}
EventList(rs, t) == [i \in 1..Len(rs) |-> Event(t, rs[i].id, rs[i])]

LEMMA EventFields ==
  \A t, k, r : /\ Event(t, k, r).type = t /\ Event(t, k, r).key = k
               /\ Event(t, k, r).object = r
BY DEF Event

EventsAbout(l, rs, t) ==
  /\ Len(l) = Len(rs)
  /\ \A i \in 1..Len(l) : l[i].type = t /\ l[i].key = rs[i].id /\ l[i].object = rs[i]

LEMMA EventListType ==
  ASSUME NEW R, NEW rs \in Seq(R), NEW t \in Types
  PROVE  EventList(rs, t) \in Seq(EventsOf(R)) /\ EventsAbout(EventList(rs, t), rs, t)
<1>1. Len(rs) \in Nat /\ \A i \in 1..Len(rs) : rs[i] \in R
  OBVIOUS
<1>2. \A i \in 1..Len(rs) : Event(t, rs[i].id, rs[i]) \in EventsOf(R)
  BY <1>1 DEF EventsOf
<1>3. EventList(rs, t) \in Seq(EventsOf(R)) /\ Len(EventList(rs, t)) = Len(rs)
  BY <1>1, <1>2 DEF EventList
<1>4. \A i \in 1..Len(rs) : EventList(rs, t)[i] = Event(t, rs[i].id, rs[i])
  BY DEF EventList
<1> QED
  BY <1>3, <1>4, EventFields DEF EventsAbout

\* Manifest.Events for a manifest without upstreams.
LEMMA EventsOfRoutes ==
  ASSUME NEW R, NEW rs \in Seq(R), NEW t \in Types
  PROVE  Events([Routes |-> rs, Upstreams |-> << >>], t) = EventList(rs, t)
<1> DEFINE m == [Routes |-> rs, Upstreams |-> << >>]
           none == {i \in DOMAIN m.Upstreams : t = "delete" \/ m.Upstreams[i].nodes # {}}
           ups == Pick(m.Upstreams, none)
           l == [i \in DOMAIN m.Routes |-> Event(t, m.Routes[i].id, m.Routes[i])]
<1>1. m.Routes = rs /\ m.Upstreams = << >>
  OBVIOUS
<1>2. ups = << >>
  <2>1. << >> \in Seq({}) /\ none \in SUBSET (1..Len(<< >>))
    BY <1>1
  <2> HIDE DEF none, m
  <2>2. ups \in Seq({})
    BY <1>1, <2>1, PickedPlaces
  <2> HIDE DEF ups
  <2> QED
    BY <2>2
<1>3. l = EventList(rs, t)
  BY <1>1 DEF EventList
<1>4. Events(m, t) = l \o [i \in DOMAIN ups |-> Event(t, ups[i].id, ups[i])]
  BY DEF Events
<1> HIDE DEF m, ups, l
<1>5. [i \in DOMAIN ups |-> Event(t, ups[i].id, ups[i])] = << >>
  BY <1>2
<1>6. l \o << >> = l
  BY <1>3, EventListType, ConcatEmptySeq
<1> QED
  BY <1>3, <1>4, <1>5, <1>6 DEF m

\* generateIncrementalEvents for manifests without upstreams.
LEMMA IncrementalList ==
  ASSUME NEW R, NEW old \in Seq(R), NEW new \in Seq(R)
  PROVE  LET c == Compare(old, new) IN
         IncrementalEvents(Manifests(old), Manifests(new))
           = (EventList(c.added, "add") \o EventList(c.deleted, "delete"))
               \o EventList(c.updated, "update")
<1> DEFINE c == Compare(old, new)
           none == Compare(<< >>, << >>)
           diff == DiffFrom(Manifests(old), Manifests(new))
<1>1. none.added = << >> /\ none.deleted = << >> /\ none.updated = << >>
  BY DEF Compare
<1>2. c.added \in Seq(R) /\ c.deleted \in Seq(R) /\ c.updated \in Seq(R)
  BY Compared
<1> HIDE DEF c, none
<1>3. /\ diff.added = [Routes |-> c.added, Upstreams |-> << >>]
      /\ diff.deleted = [Routes |-> c.deleted, Upstreams |-> << >>]
      /\ diff.updated = [Routes |-> c.updated, Upstreams |-> << >>]
  BY <1>1 DEF DiffFrom, Manifests, c, none
<1> HIDE DEF diff
<1>4. /\ Events(diff.added, "add") = EventList(c.added, "add")
      /\ Events(diff.deleted, "delete") = EventList(c.deleted, "delete")
      /\ Events(diff.updated, "update") = EventList(c.updated, "update")
  BY <1>2, <1>3, EventsOfRoutes DEF Types
<1>5. IncrementalEvents(Manifests(old), Manifests(new))
        = (Events(diff.added, "add") \o Events(diff.deleted, "delete"))
            \o Events(diff.updated, "update")
  BY DEF IncrementalEvents, diff
<1> QED
  BY <1>4, <1>5 DEF c

\* Three lists, one after the other.
InARow(e, a, d, u) ==
  /\ \A i \in 1..Len(a) : i \in 1..Len(e) /\ e[i] = a[i]
  /\ \A i \in 1..Len(d) : Len(a) + i \in 1..Len(e) /\ e[Len(a) + i] = d[i]
  /\ \A i \in 1..Len(u) : /\ Len(a) + Len(d) + i \in 1..Len(e)
                          /\ e[Len(a) + Len(d) + i] = u[i]
  /\ \A j \in 1..Len(e) : \/ j \in 1..Len(a)
                          \/ \E i \in 1..Len(d) : j = Len(a) + i
                          \/ \E i \in 1..Len(u) : j = Len(a) + Len(d) + i

LEMMA ThreeLists ==
  ASSUME NEW S, NEW a \in Seq(S), NEW d \in Seq(S), NEW u \in Seq(S)
  PROVE  (a \o d) \o u \in Seq(S) /\ InARow((a \o d) \o u, a, d, u)
<1> DEFINE b == a \o d
           e == b \o u
<1>1. Len(a) \in Nat /\ Len(d) \in Nat /\ Len(u) \in Nat
  OBVIOUS
<1>2. /\ b \in Seq(S) /\ Len(b) = Len(a) + Len(d)
      /\ \A i \in 1..(Len(a) + Len(d)) : b[i] = IF i <= Len(a) THEN a[i] ELSE d[i - Len(a)]
  BY ConcatProperties
<1> HIDE DEF b
<1>3. /\ e \in Seq(S) /\ Len(e) = Len(b) + Len(u)
      /\ \A i \in 1..(Len(b) + Len(u)) : e[i] = IF i <= Len(b) THEN b[i] ELSE u[i - Len(b)]
  <2>1. b \in Seq(S)
    BY <1>2
  <2> QED
    BY <2>1, ConcatProperties
<1> HIDE DEF e
<1>4. Len(e) = Len(a) + Len(d) + Len(u)
  BY <1>1, <1>2, <1>3
<1>5. ASSUME NEW i \in 1..Len(a) PROVE i \in 1..Len(e) /\ e[i] = a[i]
  BY <1>1, <1>2, <1>3
<1>6. ASSUME NEW i \in 1..Len(d) PROVE Len(a) + i \in 1..Len(e) /\ e[Len(a) + i] = d[i]
  <2>1. Len(a) + i \in 1..Len(b) /\ (Len(a) + i) - Len(a) = i /\ ~(Len(a) + i <= Len(a))
    BY <1>1, <1>2
  <2>2. b[Len(a) + i] = d[i]
    BY <1>2, <2>1
  <2> QED
    BY <1>1, <1>2, <1>3, <2>1, <2>2
<1>7. ASSUME NEW i \in 1..Len(u)
      PROVE  Len(a) + Len(d) + i \in 1..Len(e) /\ e[Len(a) + Len(d) + i] = u[i]
  <2> DEFINE j == Len(a) + Len(d) + i
  <2>1. j \in 1..(Len(b) + Len(u)) /\ j - Len(b) = i /\ ~(j <= Len(b)) /\ j \in 1..Len(e)
    BY <1>1, <1>2, <1>4
  <2> HIDE DEF j
  <2>2. e[j] = u[i]
    BY <1>3, <2>1
  <2> QED
    BY <2>1, <2>2 DEF j
<1>8. ASSUME NEW j \in 1..Len(e)
      PROVE  \/ j \in 1..Len(a)
             \/ \E i \in 1..Len(d) : j = Len(a) + i
             \/ \E i \in 1..Len(u) : j = Len(a) + Len(d) + i
  <2>1. CASE j <= Len(a)
    BY <1>1, <2>1
  <2>2. CASE j > Len(a) /\ j <= Len(a) + Len(d)
    <3>1. j - Len(a) \in 1..Len(d) /\ j = Len(a) + (j - Len(a))
      BY <1>1, <2>2
    <3> QED
      BY <3>1
  <2>3. CASE j > Len(a) + Len(d)
    <3>1. j - (Len(a) + Len(d)) \in 1..Len(u) /\ j = Len(a) + Len(d) + (j - (Len(a) + Len(d)))
      BY <1>1, <1>4, <2>3
    <3> QED
      BY <3>1
  <2> QED
    BY <1>1, <1>4, <2>1, <2>2, <2>3
<1> QED
  BY <1>3, <1>5, <1>6, <1>7, <1>8 DEF b, e, InARow

\* The event list of a difference turns the map of the old slice into that of
\* the new one.
LEMMA DifferenceApplied ==
  ASSUME NEW R, NEW old \in Seq(R), NEW new \in Seq(R)
  PROVE  LET e == IncrementalEvents(Manifests(old), Manifests(new)) IN
         e \in Seq(EventsOf(R)) /\ Patched(AsMap(old), PatchOf(e)) = AsMap(new)
<1> DEFINE c == Compare(old, new)
           a == EventList(c.added, "add")
           d == EventList(c.deleted, "delete")
           u == EventList(c.updated, "update")
           e == IncrementalEvents(Manifests(old), Manifests(new))
           M == Patched(AsMap(old), PatchOf(e))
<1>1. e = (a \o d) \o u
  BY IncrementalList
<1>2. /\ c.added \in Seq(R) /\ c.deleted \in Seq(R) /\ c.updated \in Seq(R)
      /\ IsDifference(c, old, new)
  BY Compared
<1> HIDE DEF c
<1>3. "add" \in Types /\ "delete" \in Types /\ "update" \in Types
  BY DEF Types
<1>4. a \in Seq(EventsOf(R)) /\ EventsAbout(a, c.added, "add")
  BY <1>2, <1>3, EventListType
<1>5. d \in Seq(EventsOf(R)) /\ EventsAbout(d, c.deleted, "delete")
  BY <1>2, <1>3, EventListType
<1>6. u \in Seq(EventsOf(R)) /\ EventsAbout(u, c.updated, "update")
  BY <1>2, <1>3, EventListType
<1> HIDE DEF a, d, u, e
<1>7. e \in Seq(EventsOf(R)) /\ InARow(e, a, d, u)
  BY <1>1, <1>4, <1>5, <1>6, ThreeLists
<1>8. LastEvents(PatchOf(e), e)
  BY <1>7, PatchOfList
<1>keys. /\ \A i \in 1..Len(a) : a[i].key \in Ids(new) \ Ids(old)
         /\ \A i \in 1..Len(d) : d[i].key \in Ids(old) \ Ids(new)
         /\ \A i \in 1..Len(u) : u[i].key \in Ids(old) \cap Ids(new)
  <2>1. \A i \in 1..Len(a) : a[i].key \in Ids(new) \ Ids(old)
    <3>1. Len(a) = Len(c.added) /\ \A i \in 1..Len(a) : a[i].key = c.added[i].id
      BY <1>4 DEF EventsAbout
    <3>2. \A i \in 1..Len(c.added) : c.added[i].id \in Ids(new) \ Ids(old)
      BY <1>2 DEF IsDifference
    <3> QED
      BY <3>1, <3>2
  <2>2. \A i \in 1..Len(d) : d[i].key \in Ids(old) \ Ids(new)
    BY <1>2, <1>5 DEF IsDifference, EventsAbout
  <2>3. \A i \in 1..Len(u) : u[i].key \in Ids(old) \cap Ids(new)
    BY <1>2, <1>6 DEF IsDifference, EventsAbout
  <2> QED
    BY <2>1, <2>2, <2>3
<1>deleted. \A k \in Ids(old) \ Ids(new) : \E x \in 1..Len(d) : d[x].key = k
  <2>1. Len(d) = Len(c.deleted) /\ \A i \in 1..Len(d) : d[i].key = c.deleted[i].id
    BY <1>5 DEF EventsAbout
  <2>2. \A k \in Ids(old) \ Ids(new) : \E x \in 1..Len(d) : c.deleted[x].id = k
    BY <1>2, <2>1 DEF IsDifference
  <2> QED
    BY <2>1, <2>2
<1>updated. \A k \in Ids(old) \cap Ids(new) :
              Entry(old, k) # Entry(new, k) => \E x \in 1..Len(u) : u[x].key = k
  <2>1. Len(u) = Len(c.updated) /\ \A i \in 1..Len(u) : u[i].key = c.updated[i].id
    BY <1>6 DEF EventsAbout
  <2>2. \A k \in Ids(old) \cap Ids(new) :
          Entry(old, k) # Entry(new, k) => \E x \in 1..Len(u) : c.updated[x].id = k
    BY <1>2, <2>1 DEF IsDifference
  <2> QED
    BY <2>1, <2>2
<1>where. \A j \in 1..Len(e) :
            \/ j \in 1..Len(a) /\ e[j].key \in Ids(new) \ Ids(old)
            \/ /\ \E i \in 1..Len(d) : j = Len(a) + i
               /\ e[j].key \in Ids(old) \ Ids(new)
            \/ /\ \E i \in 1..Len(u) : j = Len(a) + Len(d) + i
               /\ e[j].key \in Ids(old) \cap Ids(new)
  <2> SUFFICES ASSUME NEW j \in 1..Len(e)
               PROVE  \/ j \in 1..Len(a) /\ e[j].key \in Ids(new) \ Ids(old)
                      \/ /\ \E i \in 1..Len(d) : j = Len(a) + i
                         /\ e[j].key \in Ids(old) \ Ids(new)
                      \/ /\ \E i \in 1..Len(u) : j = Len(a) + Len(d) + i
                         /\ e[j].key \in Ids(old) \cap Ids(new)
    OBVIOUS
  <2>1. CASE j \in 1..Len(a)
    BY <1>7, <1>keys, <2>1 DEF InARow
  <2>2. ASSUME NEW i \in 1..Len(d), j = Len(a) + i PROVE e[j].key \in Ids(old) \ Ids(new)
    <3>1. e[j] = d[i]
      BY <1>7, <2>2 DEF InARow
    <3> QED
      BY <1>keys, <3>1
  <2>3. ASSUME NEW i \in 1..Len(u), j = Len(a) + Len(d) + i
        PROVE  e[j].key \in Ids(old) \cap Ids(new)
    <3>1. e[j] = u[i]
      BY <1>7, <2>3 DEF InARow
    <3> QED
      BY <1>keys, <3>1
  <2> QED
    BY <1>7, <2>1, <2>2, <2>3 DEF InARow
<1> DEFINE p == PatchOf(e)
<1> HIDE DEF p
<1>9. ASSUME NEW k \in Ids(new) \ Ids(old)
      PROVE  k \in DOMAIN p /\ p[k].type = "add" /\ p[k].object = Entry(new, k)
  <2>1. PICK x \in 1..Len(a) :
          /\ c.added[x].id = k /\ c.added[x] = Entry(new, k)
          /\ \A y \in 1..Len(a) : c.added[y].id = k => y <= x
    BY <1>2, <1>4 DEF IsDifference, EventsAbout
  <2>2. x \in 1..Len(e) /\ e[x].key = k
    BY <1>4, <1>7, <2>1 DEF EventsAbout, InARow
  <2>3. PICK i \in 1..Len(e) :
          /\ e[i].key = k /\ p[k] = e[i]
          /\ \A j \in 1..Len(e) : e[j].key = k => j <= i
    BY <1>8, <2>2 DEF p, LastEvents
  <2>4. i \in 1..Len(a)
    BY <1>where, <2>3
  <2>5. c.added[i].id = k
    BY <1>4, <1>7, <2>3, <2>4 DEF EventsAbout, InARow
  <2>6. i <= x /\ x <= i
    BY <2>1, <2>2, <2>3, <2>4, <2>5
  <2>7. i = x
    BY <2>1, <2>4, <2>6
  <2>8. k \in DOMAIN p
    BY <1>8, <2>2 DEF p, LastEvents
  <2> QED
    BY <1>4, <1>7, <2>1, <2>3, <2>4, <2>7, <2>8 DEF EventsAbout, InARow
<1>10. ASSUME NEW k \in Ids(old) \ Ids(new)
       PROVE  k \in DOMAIN p /\ p[k].type = "delete"
  <2>1. PICK x \in 1..Len(d) : d[x].key = k
    BY <1>deleted
  <2>2. Len(a) + x \in 1..Len(e) /\ e[Len(a) + x].key = k
    BY <1>7, <2>1 DEF InARow
  <2>3. PICK i \in 1..Len(e) : e[i].key = k /\ p[k] = e[i]
    BY <1>8, <2>2 DEF p, LastEvents
  <2>4. PICK y \in 1..Len(d) : i = Len(a) + y
    BY <1>where, <2>3
  <2>5. e[i].type = "delete"
    BY <1>5, <1>7, <2>4 DEF EventsAbout, InARow
  <2>6. k \in DOMAIN p
    BY <1>8, <2>2 DEF p, LastEvents
  <2> QED
    BY <2>3, <2>5, <2>6
<1>11. ASSUME NEW k \in Ids(old) \cap Ids(new)
       PROVE  /\ k \in DOMAIN p => p[k].type = "update" /\ p[k].object = Entry(new, k)
              /\ k \notin DOMAIN p => Entry(old, k) = Entry(new, k)
  <2>1. ASSUME k \in DOMAIN p PROVE p[k].type = "update" /\ p[k].object = Entry(new, k)
    <3>1. PICK i \in 1..Len(e) : e[i].key = k /\ p[k] = e[i]
      BY <1>8, <2>1 DEF p, LastEvents
    <3>2. PICK y \in 1..Len(u) : i = Len(a) + Len(d) + y
      BY <1>where, <3>1
    <3>3. p[k] = u[y] /\ u[y].key = k
      BY <1>7, <3>1, <3>2 DEF InARow
    <3> QED
      BY <1>2, <1>6, <3>3 DEF IsDifference, EventsAbout
  <2>2. ASSUME k \notin DOMAIN p PROVE Entry(old, k) = Entry(new, k)
    <3> SUFFICES ASSUME Entry(old, k) # Entry(new, k) PROVE FALSE
      OBVIOUS
    <3>1. PICK x \in 1..Len(u) : u[x].key = k
      BY <1>updated
    <3>2. Len(a) + Len(d) + x \in 1..Len(e) /\ e[Len(a) + Len(d) + x].key = k
      BY <1>7, <3>1 DEF InARow
    <3> QED
      BY <1>8, <2>2, <3>2 DEF p, LastEvents
  <2> QED
    BY <2>1, <2>2
<1>12. DOMAIN p \subseteq Ids(old) \cup Ids(new)
  <2> SUFFICES ASSUME NEW k \in DOMAIN p PROVE k \in Ids(old) \cup Ids(new)
    OBVIOUS
  <2>1. PICK i \in 1..Len(e) : e[i].key = k
    BY <1>8 DEF p, LastEvents
  <2> QED
    BY <1>where, <2>1
<1>13. /\ DOMAIN AsMap(old) = Ids(old) /\ \A k \in Ids(old) : AsMap(old)[k] = Entry(old, k)
       /\ DOMAIN AsMap(new) = Ids(new) /\ \A k \in Ids(new) : AsMap(new)[k] = Entry(new, k)
       /\ IsMap(AsMap(new))
  BY DEF AsMap, IsMap
<1>14. DOMAIN M = {l \in DOMAIN AsMap(old) \cup DOMAIN p :
                     l \in DOMAIN p => p[l].type # "delete"}
  BY DEF Patched, p
<1>15. DOMAIN M = DOMAIN AsMap(new)
  BY <1>9, <1>10, <1>11, <1>12, <1>13, <1>14
<1>16. ASSUME NEW k \in DOMAIN M PROVE M[k] = AsMap(new)[k]
  <2>1. M[k] = IF k \in DOMAIN p THEN p[k].object ELSE AsMap(old)[k]
    BY DEF Patched, p
  <2>2. k \in Ids(new)
    BY <1>13, <1>15
  <2> QED
    BY <1>9, <1>11, <1>13, <2>1, <2>2
<1>17. IsMap(M)
  BY PatchedIsMap
<1>18. M = AsMap(new)
  <2> HIDE DEF M
  <2> QED
    BY <1>13, <1>15, <1>16, <1>17 DEF IsMap
<1> QED
  BY <1>7, <1>18 DEF e

-----------------------------------------------------------------------------
(***************************************************************************)
(* Types                                                                   *)
(***************************************************************************)

\* Taking one of a channel closes the gap.
LEMMA RemovedAt ==
  ASSUME NEW S, NEW s \in Seq(S), NEW i \in 1..Len(s)
  PROVE  /\ RemoveAt(s, i) \in Seq(S)
         /\ Len(RemoveAt(s, i)) = Len(s) - 1
         /\ \A j \in 1..(Len(s) - 1) :
              RemoveAt(s, i)[j] = IF j < i THEN s[j] ELSE s[j + 1]
<1>1. RemoveAt(s, i) = SubSeq(s, 1, i - 1) \o SubSeq(s, i + 1, Len(s))
  BY DEF RemoveAt
<1> DEFINE a == SubSeq(s, 1, i - 1)
           b == SubSeq(s, i + 1, Len(s))
<1>2. Len(s) \in Nat /\ \A j \in 1..Len(s) : s[j] \in S
  OBVIOUS
<1>3. /\ a \in Seq(S) /\ Len(a) = i - 1
      /\ \A j \in 1..(i - 1) : a[j] = s[j]
  <2>1. \A j \in 1..(i - 1) : s[j] \in S
    BY <1>2
  <2>2. /\ a \in Seq(S) /\ Len(a) = IF 1 <= i - 1 THEN (i - 1) - 1 + 1 ELSE 0
        /\ \A j \in 1..((i - 1) - 1 + 1) : a[j] = s[1 + j - 1]
    BY <2>1, SubSeqProperties
  <2> HIDE DEF a
  <2> QED
    BY <1>2, <2>2
<1>4. /\ b \in Seq(S) /\ Len(b) = Len(s) - i
      /\ \A j \in 1..(Len(s) - i) : b[j] = s[i + j]
  <2>1. \A j \in (i + 1)..Len(s) : s[j] \in S
    BY <1>2
  <2>2. /\ b \in Seq(S)
        /\ Len(b) = IF i + 1 <= Len(s) THEN Len(s) - (i + 1) + 1 ELSE 0
        /\ \A j \in 1..(Len(s) - (i + 1) + 1) : b[j] = s[i + 1 + j - 1]
    BY <1>2, <2>1, SubSeqProperties
  <2> HIDE DEF b
  <2> QED
    BY <1>2, <2>2
<1> HIDE DEF a, b
<1>5. /\ a \o b \in Seq(S) /\ Len(a \o b) = Len(a) + Len(b)
      /\ \A j \in 1..(Len(a) + Len(b)) :
           (a \o b)[j] = IF j <= Len(a) THEN a[j] ELSE b[j - Len(a)]
  BY <1>3, <1>4, ConcatProperties
<1>6. RemoveAt(s, i) = a \o b
  BY <1>1 DEF a, b
<1>7. ASSUME NEW j \in 1..(Len(s) - 1)
      PROVE  (a \o b)[j] = IF j < i THEN s[j] ELSE s[j + 1]
  <2>1. CASE j < i
    BY <1>2, <1>3, <1>4, <1>5, <2>1
  <2>2. CASE j >= i
    <3>1. j - (i - 1) \in 1..(Len(s) - i) /\ i + (j - (i - 1)) = j + 1
      BY <1>2, <2>2
    <3>2. (a \o b)[j] = b[j - (i - 1)]
      BY <1>2, <1>3, <1>4, <1>5, <2>2
    <3>3. b[j - (i - 1)] = s[i + (j - (i - 1))]
      BY <1>4, <3>1
    <3>4. ~(j < i)
      BY <1>2, <2>2
    <3> QED
      BY <3>1, <3>2, <3>3, <3>4
  <2>3. j < i \/ j >= i
    BY <1>2
  <2> QED
    BY <2>1, <2>2, <2>3
<1> QED
  BY <1>2, <1>3, <1>4, <1>5, <1>6, <1>7

\* The routes of a virtual host are translations of its routes.
Translations(c) ==
  UNION {{Translate(c, c.vhosts[i], r, << >>) : r \in Range(c.vhosts[i].routes)} :
           i \in DOMAIN c.vhosts}

LEMMA VirtualHostType ==
  ASSUME NEW c \in AllConfigs, NEW i \in DOMAIN c.vhosts
  PROVE  TranslateVirtualHost(c, c.vhosts[i], << >>) \in Seq(Translations(c))
<1> DEFINE v == c.vhosts[i]
           places == {j \in DOMAIN v.routes : ~Ignored(v.routes[j])}
           kept == Pick(v.routes, places)
<1>1. v.routes \in Seq(Range(v.routes))
  BY SlicesAssumption DEF IsSlice
<1>2. places \in SUBSET (1..Len(v.routes))
  BY <1>1
<1> HIDE DEF places
<1>3. kept \in Seq(Range(v.routes))
  BY <1>1, <1>2, PickedPlaces
<1>4. TranslateVirtualHost(c, v, << >>)
        = [j \in DOMAIN kept |-> Translate(c, v, kept[j], << >>)]
  BY DEF TranslateVirtualHost, places
<1> HIDE DEF kept
<1>5. Len(kept) \in Nat /\ DOMAIN kept = 1..Len(kept)
      /\ \A j \in 1..Len(kept) : kept[j] \in Range(v.routes)
  BY <1>3
<1>6. \A j \in 1..Len(kept) : Translate(c, v, kept[j], << >>) \in Translations(c)
  <2> DEFINE W == {Translate(c, c.vhosts[i], r, << >>) : r \in Range(c.vhosts[i].routes)}
  <2>1. W \subseteq Translations(c)
    BY DEF Translations
  <2>2. \A j \in 1..Len(kept) : Translate(c, v, kept[j], << >>) \in W
    BY <1>5
  <2> QED
    BY <2>1, <2>2
<1> HIDE DEF v
<1>7. [j \in 1..Len(kept) |-> Translate(c, v, kept[j], << >>)] \in Seq(Translations(c))
  BY <1>5, <1>6
<1> QED
  BY <1>4, <1>5, <1>7 DEF v

\* A configuration is translated to routes that carry its name.
LEMMA TranslatedType ==
  ASSUME NEW c \in AllConfigs
  PROVE  /\ Translated[c] \in Seq(AllRoutes)
         /\ \A i \in 1..Len(Translated[c]) : Translated[c][i].config = c.name
<1> DEFINE q == [i \in DOMAIN c.vhosts |-> TranslateVirtualHost(c, c.vhosts[i], << >>)]
           S == Translations(c)
<1>1. c.vhosts \in Seq(Range(c.vhosts))
  BY SlicesAssumption DEF IsSlice
<1>2. q \in Seq(Seq(S))
  <2>1. Len(c.vhosts) \in Nat /\ DOMAIN c.vhosts = 1..Len(c.vhosts)
    BY <1>1
  <2>2. \A i \in 1..Len(c.vhosts) : TranslateVirtualHost(c, c.vhosts[i], << >>) \in Seq(S)
    BY <2>1, VirtualHostType
  <2> HIDE DEF S
  <2> QED
    BY <2>1, <2>2
<1>3. Translated[c] = IF Fails(c) THEN << >> ELSE FlattenSeq(q)
  BY DEF Translated, TranslateRouteConfiguration
<1> HIDE DEF q, S
<1>4. Translated[c] \in Seq(S)
  BY <1>2, <1>3, Flattened
<1>5. \A r \in S : r.config = c.name
  BY DEF S, Translations, Translate
<1>6. \A i \in 1..Len(Translated[c]) : Translated[c][i] \in AllRoutes
  BY <1>4 DEF AllRoutes, Range
<1>7. Translated[c] \in Seq(AllRoutes)
  BY <1>4, <1>6
<1> QED
  BY <1>4, <1>5, <1>7

\* The configurations a response is about are ones of its names.
LEMMA ConfigsType ==
  ASSUME NEW m \in Meshes, NEW names
  PROVE  LET x == [mesh |-> m, names |-> names] IN
         /\ Configs(x) \in Seq(AllConfigs)
         /\ \A i \in 1..Len(Configs(x)) : Configs(x)[i].name \in names
<1> DEFINE x == [mesh |-> m, names |-> names]
           cs == Mesh[m].configs
           places == {i \in DOMAIN cs : cs[i].name \in names}
<1>1. CASE x = Missing
  <2>1. Configs(x) = << >>
    BY <1>1 DEF Configs
  <2> HIDE DEF x
  <2> QED
    BY <2>1 DEF x
<1>2. CASE x # Missing
  <2>1. Configs(x) = Pick(cs, places)
    BY <1>2 DEF Configs
  <2>2. cs \in Seq(Range(cs)) /\ Range(cs) \subseteq AllConfigs
    BY SlicesAssumption DEF IsSlice, AllConfigs
  <2>3. cs \in Seq(AllConfigs)
    BY <2>2, SeqMonotonic
  <2>4. places \in SUBSET (1..Len(cs)) /\ \A i \in places : cs[i].name \in names
    BY <2>3
  <2> HIDE DEF cs, places, x
  <2>5. Pick(cs, places) \in Seq(AllConfigs) /\ PickedFrom(Pick(cs, places), cs, places)
    BY <2>3, <2>4, PickedPlaces
  <2>6. \A i \in 1..Len(Configs(x)) : Configs(x)[i].name \in names
    <3> SUFFICES ASSUME NEW i \in 1..Len(Pick(cs, places))
                 PROVE  Pick(cs, places)[i].name \in names
      BY <2>1
    <3>1. \E j \in places : Pick(cs, places)[i] = cs[j]
      BY <2>5 DEF PickedFrom
    <3> QED
      BY <2>4, <3>1
  <2> QED
    BY <2>1, <2>5, <2>6 DEF x
<1> QED
  BY <1>1, <1>2

\* The new routes are those of the configurations.
LEMMA NewRoutesType ==
  ASSUME NEW cs \in Seq(AllConfigs)
  PROVE  /\ NewRoutes(cs) \in Seq(AllRoutes)
         /\ \A p \in 1..Len(NewRoutes(cs)) :
              \E i \in 1..Len(cs) : NewRoutes(cs)[p].config = cs[i].name
<1> DEFINE q == [i \in DOMAIN cs |-> Translated[cs[i]]]
<1>1. Len(cs) \in Nat /\ DOMAIN cs = 1..Len(cs) /\ \A i \in 1..Len(cs) : cs[i] \in AllConfigs
  OBVIOUS
<1>2. \A i \in 1..Len(cs) : Translated[cs[i]] \in Seq(AllRoutes)
  BY <1>1, TranslatedType
<1>3. q \in Seq(Seq(AllRoutes)) /\ Len(q) = Len(cs)
  BY <1>1, <1>2
<1>4. \A i \in 1..Len(cs) : q[i] = Translated[cs[i]]
  BY <1>1
<1>5. NewRoutes(cs) = FlattenSeq(q) \o << >>
  BY DEF NewRoutes, ProcessStaticRouteConfigurations
<1> HIDE DEF q
<1>6. /\ FlattenSeq(q) \in Seq(AllRoutes)
      /\ Range(FlattenSeq(q)) = UNION {Range(q[i]) : i \in 1..Len(q)}
  BY <1>3, Flattened
<1>7. NewRoutes(cs) = FlattenSeq(q)
  BY <1>5, <1>6, ConcatEmptySeq
<1>8. ASSUME NEW p \in 1..Len(FlattenSeq(q))
      PROVE  \E i \in 1..Len(cs) : FlattenSeq(q)[p].config = cs[i].name
  <2>1. PICK i \in 1..Len(cs) : FlattenSeq(q)[p] \in Range(Translated[cs[i]])
    <3>1. FlattenSeq(q)[p] \in Range(FlattenSeq(q))
      BY <1>6 DEF Range
    <3>2. PICK i \in 1..Len(q) : FlattenSeq(q)[p] \in Range(q[i])
      BY <1>6, <3>1
    <3>3. i \in 1..Len(cs) /\ q[i] = Translated[cs[i]]
      BY <1>3, <1>4
    <3> QED
      BY <3>2, <3>3
  <2>2. PICK j \in 1..Len(Translated[cs[i]]) : FlattenSeq(q)[p] = Translated[cs[i]][j]
    <3>1. DOMAIN Translated[cs[i]] = 1..Len(Translated[cs[i]])
      BY <1>2
    <3> QED
      BY <2>1, <3>1 DEF Range
  <2>3. Translated[cs[i]][j].config = cs[i].name
    BY <1>1, <2>2, TranslatedType
  <2> QED
    BY <2>2, <2>3
<1> QED
  BY <1>6, <1>7, <1>8

LdsResponse == [type : {"LDS"}, mesh : Meshes]
RdsResponse == [type : {"RDS"}, mesh : Meshes, names : SUBSET AllNames, last : BOOLEAN]

\* TypeOK, and what it takes to keep it: channels are sequences, and an event
\* has the id of its route as its key.
TypeInv ==
  /\ mesh \in Meshes
  /\ changes \in 0..MaxChanges
  /\ announced \in BOOLEAN
  /\ subscribed \in SUBSET AllNames
  /\ requests \in Seq(SUBSET AllNames)
  /\ ack \in SUBSET (SUBSET AllNames) /\ Cardinality(ack) <= 1
  /\ responses \in Seq(LdsResponse \cup RdsResponse)
  /\ lds \in Meshes \cup {Missing}
  /\ rds \in [mesh : Meshes, names : SUBSET AllNames] \cup {Missing}
  /\ routes \in Seq(AllRoutes)
  /\ evChan \in Seq(Seq(EventsOf(AllRoutes)))
  /\ IsMap(store) /\ \A k \in DOMAIN store : store[k] \in AllRoutes /\ store[k].id = k
  /\ overtaken \in SUBSET {"messages", "batches"}

LEMMA TypeInvImplies == TypeInv => TypeOK
<1> SUFFICES ASSUME TypeInv PROVE TypeOK
  OBVIOUS
<1>1. \A i \in DOMAIN requests : requests[i] \subseteq AllNames
  BY DEF TypeInv
<1>2. Range(routes) \subseteq AllRoutes
  BY DEF TypeInv, Range
<1> QED
  BY <1>1, <1>2 DEF TypeInv, TypeOK

LEMMA TypeInit == Init => TypeInv
<1> SUFFICES ASSUME Init PROVE TypeInv
  OBVIOUS
<1>1. Cardinality({}) = 0
  BY FS_EmptySet
<1>2. IsMap(<< >>) /\ DOMAIN << >> = {}
  BY DEF IsMap
<1>3. 0 \in 0..MaxChanges
  BY BoundsAssumption
<1>4. mesh \in Meshes
  BY MeshAssumption DEF Init, Meshes
<1>5. Cardinality(ack) <= 1
  BY <1>1 DEF Init
<1>6. /\ requests = << >> /\ responses = << >> /\ evChan = << >> /\ routes = << >>
      /\ store = << >> /\ ack = {} /\ overtaken = {} /\ subscribed = {}
      /\ announced = FALSE /\ lds = Missing /\ rds = Missing /\ changes = 0
  BY DEF Init
<1>7. /\ requests \in Seq(SUBSET AllNames) /\ responses \in Seq(LdsResponse \cup RdsResponse)
      /\ routes \in Seq(AllRoutes) /\ evChan \in Seq(Seq(EventsOf(AllRoutes)))
  BY <1>6
<1>8. IsMap(store) /\ \A k \in DOMAIN store : store[k] \in AllRoutes /\ store[k].id = k
  BY <1>2, <1>6
<1> QED
  BY <1>3, <1>4, <1>5, <1>6, <1>7, <1>8 DEF TypeInv

\* The names listeners ask for.
LEMMA NamesType == \A m \in Meshes : RdsNames(Listeners(m)) \in SUBSET AllNames
<1> SUFFICES ASSUME NEW m \in Meshes PROVE RdsNames(Listeners(m)) \subseteq AllNames
  OBVIOUS
<1>1. Listeners(m) = Mesh[m].listeners
  BY MeshAssumption DEF Listeners, Meshes
<1>2. RdsNames(Mesh[m].listeners) \subseteq AllNames
  BY DEF AllNames
<1> QED
  BY <1>1, <1>2

\* Responses that are outdated are the same ones in the same order.
LEMMA OutdatedType ==
  ASSUME TypeInv
  PROVE  /\ Outdated \in Seq(LdsResponse \cup RdsResponse) /\ Len(Outdated) = Len(responses)
         /\ \A i \in 1..Len(responses) :
              /\ Outdated[i].type = responses[i].type
              /\ responses[i].type = "RDS" =>
                   Outdated[i].names = responses[i].names /\ Outdated[i].last = FALSE
<1> DEFINE R == LdsResponse \cup RdsResponse
           out(i) == IF responses[i].type = "RDS" THEN [responses[i] EXCEPT !.last = FALSE]
                     ELSE responses[i]
<1>1. Len(responses) \in Nat /\ DOMAIN responses = 1..Len(responses)
      /\ \A i \in 1..Len(responses) : responses[i] \in R
  BY DEF TypeInv
<1>2. Outdated = [i \in 1..Len(responses) |-> out(i)]
  BY <1>1 DEF Outdated
<1>3. ASSUME NEW i \in 1..Len(responses)
      PROVE  /\ out(i) \in R /\ out(i).type = responses[i].type
             /\ responses[i].type = "RDS" =>
                  out(i).names = responses[i].names /\ out(i).last = FALSE
  <2>1. responses[i] \in R
    BY <1>1
  <2>2. CASE responses[i] \in LdsResponse
    BY <2>2 DEF LdsResponse
  <2>3. CASE responses[i] \in RdsResponse
    BY <2>3 DEF RdsResponse
  <2> QED
    BY <2>1, <2>2, <2>3
<1> HIDE DEF out, R
<1>4. Outdated \in Seq(R) /\ Len(Outdated) = Len(responses)
  <2>1. Outdated \in [1..Len(responses) -> R]
    BY <1>2, <1>3
  <2> QED
    BY <1>1, <2>1
<1>5. \A i \in 1..Len(responses) : Outdated[i] = out(i)
  BY <1>2
<1> QED
  BY <1>3, <1>4, <1>5 DEF R

LEMMA MessageType ==
  ASSUME TypeInv
  PROVE  /\ Lds \in LdsResponse /\ Lds.type = "LDS"
         /\ \A names \in SUBSET AllNames :
              /\ Rds(names) \in RdsResponse /\ Rds(names).type = "RDS"
              /\ Rds(names).names = names /\ Rds(names).last = TRUE
BY DEF TypeInv, Lds, Rds, LdsResponse, RdsResponse

Difference == IncrementalEvents(Manifests(routes), Manifests(routes'))

\* What a response to RDS does.
LEMMA ReceivedRDS ==
  ASSUME TypeInv, NEW i \in DOMAIN responses, ReceiveRDS(i)
  PROVE  /\ responses[i] \in RdsResponse
         /\ rds' = [mesh |-> responses[i].mesh, names |-> responses[i].names]
         /\ rds' \in [mesh : Meshes, names : SUBSET AllNames]
         /\ routes' \in Seq(AllRoutes)
         /\ \A p \in 1..Len(routes') : routes'[p].config \in responses[i].names
         /\ evChan' = IF Difference = << >> THEN evChan ELSE Append(evChan, Difference)
         /\ Difference \in Seq(EventsOf(AllRoutes))
         /\ Patched(AsMap(routes), PatchOf(Difference)) = AsMap(routes')
         /\ \E names \in SUBSET responses[i].names :
              ack' = IF responses[i].last THEN {names} ELSE ack
<1> DEFINE r == responses[i]
           x == [mesh |-> r.mesh, names |-> r.names]
           cs == Configs(x)
<1>1. r \in RdsResponse
  <2>1. r \in LdsResponse \cup RdsResponse /\ r.type = "RDS"
    BY DEF TypeInv, ReceiveRDS
  <2> QED
    BY <2>1 DEF LdsResponse
<1>2. r.mesh \in Meshes /\ r.names \in SUBSET AllNames
  BY <1>1 DEF RdsResponse
<1>3. rds' = x /\ x \in [mesh : Meshes, names : SUBSET AllNames]
  BY <1>2 DEF ReceiveRDS
<1>4. cs \in Seq(AllConfigs) /\ \A j \in 1..Len(cs) : cs[j].name \in r.names
  BY <1>2, ConfigsType
<1>5. routes' = NewRoutes(cs)
  BY <1>3 DEF ReceiveRDS
<1>6. ack' = IF r.last THEN {{c.name : c \in {d \in Range(cs) : ~Fails(d)}}} ELSE ack
  BY <1>3 DEF ReceiveRDS
<1> HIDE DEF cs, x
<1>7. /\ NewRoutes(cs) \in Seq(AllRoutes)
      /\ \A p \in 1..Len(NewRoutes(cs)) :
           \E j \in 1..Len(cs) : NewRoutes(cs)[p].config = cs[j].name
  BY <1>4, NewRoutesType
<1>8. routes' \in Seq(AllRoutes) /\ \A p \in 1..Len(routes') : routes'[p].config \in r.names
  BY <1>4, <1>5, <1>7
<1>9. \A c \in Range(cs) : c.name \in r.names
  BY <1>4 DEF Range
<1>10. {c.name : c \in {d \in Range(cs) : ~Fails(d)}} \in SUBSET r.names
  BY <1>9
<1>11. routes \in Seq(AllRoutes)
  BY DEF TypeInv
<1>12. /\ Difference \in Seq(EventsOf(AllRoutes))
       /\ Patched(AsMap(routes), PatchOf(Difference)) = AsMap(routes')
  <2> DEFINE new == routes'
  <2>1. new \in Seq(AllRoutes)
    BY <1>8
  <2> HIDE DEF new
  <2>2. LET e == IncrementalEvents(Manifests(routes), Manifests(new)) IN
        e \in Seq(EventsOf(AllRoutes)) /\ Patched(AsMap(routes), PatchOf(e)) = AsMap(new)
    BY <1>11, <2>1, DifferenceApplied
  <2> QED
    BY <2>2 DEF Difference, new
<1>13. evChan' = IF Difference = << >> THEN evChan ELSE Append(evChan, Difference)
  BY DEF ReceiveRDS, Difference
<1> QED
  BY <1>1, <1>3, <1>6, <1>8, <1>10, <1>12, <1>13 DEF x

\* A patch of events about routes under their ids keeps the dictionary that way.
LEMMA PatchedType ==
  ASSUME NEW events \in Seq(EventsOf(AllRoutes)), NEW st, IsMap(st),
         \A k \in DOMAIN st : st[k] \in AllRoutes /\ st[k].id = k
  PROVE  LET new == ApplyEvents(st, events) IN
         IsMap(new) /\ \A k \in DOMAIN new : new[k] \in AllRoutes /\ new[k].id = k
<1> DEFINE p == PatchOf(events)
           new == Patched(st, p)
<1>1. ApplyEvents(st, events) = new
  BY Applied
<1>2. LastEvents(p, events)
  BY PatchOfList
<1> HIDE DEF p
<1>3. ASSUME NEW k \in DOMAIN p PROVE p[k].object \in AllRoutes /\ p[k].object.id = k
  <2>1. PICK i \in 1..Len(events) : events[i].key = k /\ p[k] = events[i]
    BY <1>2 DEF LastEvents
  <2>2. PICK t \in Types, r \in AllRoutes : events[i] = Event(t, r.id, r)
    BY <2>1 DEF EventsOf
  <2> QED
    BY <2>1, <2>2, EventFields
<1>4. IsMap(new)
  BY PatchedIsMap
<1>5. \A k \in DOMAIN new : new[k] \in AllRoutes /\ new[k].id = k
  BY <1>3 DEF Patched
<1> QED
  BY <1>1, <1>4, <1>5

\* A goroutine that gets ahead of others.
LEMMA OvertakingType ==
  ASSUME TypeInv, NEW kind \in {"messages", "batches"}, NEW i, Overtaking(kind, i)
  PROVE  /\ overtaken' \in SUBSET {"messages", "batches"} /\ overtaken \subseteq overtaken'
         /\ kind \notin overtaken' => i = 1
BY DEF TypeInv, Overtaking

LEMMA TypeNext == TypeInv /\ [Next]_vars => TypeInv'
<1> SUFFICES ASSUME TypeInv, [Next]_vars PROVE TypeInv'
  OBVIOUS
<1> DEFINE R == LdsResponse \cup RdsResponse
<1>0. /\ Cardinality({}) = 0 /\ \A x : Cardinality({x}) = 1
      /\ "messages" \in {"messages", "batches"} /\ "batches" \in {"messages", "batches"}
  BY FS_EmptySet, FS_Singleton
<1>1. CASE MeshChange
  <2>1. changes' \in 0..MaxChanges
    BY <1>1, BoundsAssumption DEF MeshChange, TypeInv
  <2> QED
    BY <1>1, <2>1 DEF MeshChange, TypeInv, channels, ldsVars, rdsVars
<1>2. CASE Push
  <2>1. responses' \in Seq(R)
    <3>1. Lds \in R /\ Rds(subscribed) \in R
      BY MessageType DEF TypeInv
    <3>2. <<Lds, Rds(subscribed)>> \in Seq(R)
      <4> HIDE DEF R
      <4> QED
        BY <3>1
    <3>3. Outdated \in Seq(R) /\ responses \in Seq(R)
      BY OutdatedType DEF TypeInv
    <3> HIDE DEF R
    <3>4. Outdated \o <<Lds, Rds(subscribed)>> \in Seq(R) /\ Append(responses, Lds) \in Seq(R)
      BY <3>1, <3>2, <3>3
    <3> QED
      BY <1>2, <3>4 DEF Push
  <2>2. ack' \in SUBSET (SUBSET AllNames) /\ Cardinality(ack') <= 1
    <3>1. ack' = {} \/ ack' = ack
      BY <1>2 DEF Push
    <3>2. CASE ack' = {}
      BY <1>0, <3>2
    <3>3. CASE ack' = ack
      BY <3>3 DEF TypeInv
    <3> QED
      BY <3>1, <3>2, <3>3
  <2> QED
    BY <1>2, <2>1, <2>2 DEF Push, TypeInv, ldsVars, rdsVars
<1>3. ASSUME NEW i \in DOMAIN requests, AnswerRequest(i) PROVE TypeInv'
  <2>1. requests \in Seq(SUBSET AllNames) /\ i \in 1..Len(requests)
    BY DEF TypeInv
  <2>2. requests[i] \in SUBSET AllNames
    BY <2>1
  <2>3. requests' \in Seq(SUBSET AllNames)
    BY <1>3, <2>1, RemovedAt DEF AnswerRequest
  <2>4. responses' \in Seq(R)
    <3>1. Outdated \in Seq(R) /\ Rds(requests[i]) \in R
      BY <2>2, OutdatedType, MessageType
    <3> HIDE DEF R
    <3> QED
      BY <1>3, <3>1 DEF AnswerRequest
  <2>5. ack' \in SUBSET (SUBSET AllNames) /\ Cardinality(ack') <= 1
    BY <1>0, <1>3 DEF AnswerRequest
  <2>6. overtaken' \in SUBSET {"messages", "batches"}
    BY <1>0, <1>3, OvertakingType DEF AnswerRequest
  <2>7. subscribed' \in SUBSET AllNames
    BY <1>3, <2>2 DEF AnswerRequest
  <2> QED
    BY <1>3, <2>3, <2>4, <2>5, <2>6, <2>7 DEF AnswerRequest, TypeInv, ldsVars, rdsVars
<1>4. CASE AnswerAck
  <2>1. PICK names \in ack : /\ subscribed' = names
                             /\ responses' = IF names \in {{}, subscribed} THEN responses
                                             ELSE Append(responses, Rds(names))
    BY <1>4 DEF AnswerAck
  <2>2. names \in SUBSET AllNames /\ responses \in Seq(R)
    BY <2>1 DEF TypeInv
  <2>3. responses' \in Seq(R)
    <3>1. Rds(names) \in R
      BY <2>2, MessageType
    <3> HIDE DEF R
    <3> QED
      BY <2>1, <2>2, <3>1
  <2>4. ack' \in SUBSET (SUBSET AllNames) /\ Cardinality(ack') <= 1
    BY <1>0, <1>4 DEF AnswerAck
  <2> QED
    BY <1>4, <2>1, <2>2, <2>3, <2>4 DEF AnswerAck, TypeInv, ldsVars, rdsVars
<1>5. ASSUME NEW i \in DOMAIN responses, ReceiveLDS(i) PROVE TypeInv'
  <2>1. responses \in Seq(R) /\ i \in 1..Len(responses)
    BY DEF TypeInv
  <2>2. responses[i] \in LdsResponse
    BY <1>5, <2>1 DEF ReceiveLDS, RdsResponse
  <2>3. lds' \in Meshes
    BY <1>5, <2>2 DEF ReceiveLDS, LdsResponse
  <2>4. RdsNames(Listeners(lds')) \in SUBSET AllNames
    BY <2>3, NamesType
  <2>5. requests' \in Seq(SUBSET AllNames)
    BY <1>5, <2>4 DEF ReceiveLDS, TypeInv
  <2>6. responses' \in Seq(R)
    <3> HIDE DEF R
    <3> QED
      BY <1>5, <2>1, RemovedAt DEF ReceiveLDS
  <2>7. overtaken' \in SUBSET {"messages", "batches"}
    BY <1>0, <1>5, OvertakingType DEF ReceiveLDS
  <2> QED
    BY <1>5, <2>3, <2>5, <2>6, <2>7 DEF ReceiveLDS, TypeInv, istiodVars, rdsVars
<1>6. ASSUME NEW i \in DOMAIN responses, ReceiveRDS(i) PROVE TypeInv'
  <2>1. responses \in Seq(R) /\ i \in 1..Len(responses)
    BY DEF TypeInv
  <2>2. responses' \in Seq(R)
    <3> HIDE DEF R
    <3> QED
      BY <1>6, <2>1, RemovedAt DEF ReceiveRDS
  <2>3. /\ responses[i] \in RdsResponse
        /\ rds' \in [mesh : Meshes, names : SUBSET AllNames] /\ routes' \in Seq(AllRoutes)
        /\ evChan' = IF Difference = << >> THEN evChan ELSE Append(evChan, Difference)
        /\ Difference \in Seq(EventsOf(AllRoutes))
        /\ \E names \in SUBSET responses[i].names :
             ack' = IF responses[i].last THEN {names} ELSE ack
    BY <1>6, ReceivedRDS
  <2>4. evChan' \in Seq(Seq(EventsOf(AllRoutes)))
    <3>1. evChan \in Seq(Seq(EventsOf(AllRoutes)))
      BY DEF TypeInv
    <3> QED
      BY <2>3, <3>1
  <2>5. ack' \in SUBSET (SUBSET AllNames) /\ Cardinality(ack') <= 1
    <3>1. responses[i].names \in SUBSET AllNames
      BY <2>3 DEF RdsResponse
    <3>2. PICK names \in SUBSET AllNames : ack' = {names} \/ ack' = ack
      BY <2>3, <3>1
    <3>3. CASE ack' = {names}
      BY <1>0, <3>3
    <3>4. CASE ack' = ack
      BY <3>4 DEF TypeInv
    <3> QED
      BY <3>2, <3>3, <3>4
  <2>6. overtaken' \in SUBSET {"messages", "batches"}
    BY <1>0, <1>6, OvertakingType DEF ReceiveRDS
  <2>7. UNCHANGED <<mesh, changes, announced, subscribed, requests, lds, store>>
    BY <1>6 DEF ReceiveRDS, istiodVars, ldsVars
  <2> QED
    BY <2>2, <2>3, <2>4, <2>5, <2>6, <2>7 DEF TypeInv
<1>7. ASSUME NEW i \in DOMAIN evChan, Deliver(i) PROVE TypeInv'
  <2>1. evChan \in Seq(Seq(EventsOf(AllRoutes))) /\ i \in 1..Len(evChan)
    BY DEF TypeInv
  <2>2. evChan' \in Seq(Seq(EventsOf(AllRoutes)))
    BY <1>7, <2>1, RemovedAt DEF Deliver
  <2>3. evChan[i] \in Seq(EventsOf(AllRoutes))
    BY <2>1
  <2>4. store' = ApplyEvents(store, evChan[i])
    BY <1>7 DEF Deliver
  <2>5. IsMap(store') /\ \A k \in DOMAIN store' : store'[k] \in AllRoutes /\ store'[k].id = k
    BY <2>3, <2>4, PatchedType DEF TypeInv
  <2>6. overtaken' \in SUBSET {"messages", "batches"}
    BY <1>0, <1>7, OvertakingType DEF Deliver
  <2>7. UNCHANGED <<mesh, changes, announced, subscribed, requests, ack, responses, lds,
                    rds, routes>>
    BY <1>7 DEF Deliver, istiodVars, channels, ldsVars, rdsVars
  <2>8. (IsMap(store) /\ \A k \in DOMAIN store : store[k] \in AllRoutes /\ store[k].id = k)'
    BY <2>5 DEF IsMap
  <2> QED
    BY <2>2, <2>6, <2>7, <2>8 DEF TypeInv
<1>8. CASE UNCHANGED vars
  BY <1>8 DEF vars, istiodVars, channels, ldsVars, rdsVars, TypeInv, IsMap
<1> QED
  BY <1>1, <1>2, <1>3, <1>4, <1>5, <1>6, <1>7, <1>8 DEF Next, Receive

\* Types hold: what is in flight and in place comes from a state of the mesh,
\* and the dictionary holds a translated route under its own id.
THEOREM TypeCorrect == Spec => []TypeOK
<1>1. Init => TypeInv
  BY TypeInit
<1>2. TypeInv /\ [Next]_vars => TypeInv'
  BY TypeNext
<1>3. TypeInv => TypeOK
  BY TypeInvImplies
<1> QED
  BY <1>1, <1>2, <1>3, PTL DEF Spec

LEMMA TypesHold == Spec => []TypeInv
<1>1. Init => TypeInv
  BY TypeInit
<1>2. TypeInv /\ [Next]_vars => TypeInv'
  BY TypeNext
<1> QED
  BY <1>1, <1>2, PTL DEF Spec

-----------------------------------------------------------------------------
(***************************************************************************)
(* The dictionary                                                          *)
(***************************************************************************)

\* What waits in the channel is what the dictionary lacks.
StoreInv ==
  "batches" \notin overtaken => Patched(store, PatchOfAll(evChan)) = AsMap(routes)

LEMMA StoreInvMeans ==
  ASSUME TypeInv
  PROVE  StoreInv <=> RoutesStored
<1>1. evChan \in Seq(Seq(EventsOf(AllRoutes))) /\ IsMap(store)
  BY DEF TypeInv
<1>2. FoldLeft(ApplyEvents, store, evChan) = Patched(store, PatchOfAll(evChan))
  BY <1>1, AppliedAll
<1> QED
  BY <1>2 DEF StoreInv, RoutesStored

\* An empty channel changes nothing.
LEMMA PatchOfNone ==
  ASSUME NEW st, IsMap(st)
  PROVE  Patched(st, PatchOfAll(<< >>)) = st
<1> DEFINE P == [i \in DOMAIN << >> |-> PatchOf(<< >>[i])]
<1>1. DOMAIN << >> = {}
  OBVIOUS
<1>2. PatchOfAll(<< >>) = Joined(P, {})
  BY <1>1 DEF PatchOfAll
<1> HIDE DEF P
<1> QED
  BY <1>2, JoinedNone

\* Joined patches depend only on the patches at the places.
LEMMA JoinedSame ==
  ASSUME NEW P, NEW Q, NEW I, \A i \in I : P[i] = Q[i],
         NEW n \in Nat, I \in SUBSET (1..n)
  PROVE  Joined(P, I) = Joined(Q, I)
<1>1. UNION {DOMAIN P[i] : i \in I} = UNION {DOMAIN Q[i] : i \in I}
  OBVIOUS
<1>2. ASSUME NEW k \in UNION {DOMAIN P[i] : i \in I}
      PROVE  P[Max(About(P, I, k))][k] = Q[Max(About(Q, I, k))][k]
  <2>1. About(P, I, k) = About(Q, I, k)
    BY DEF About
  <2>2. About(P, I, k) # {} /\ About(P, I, k) \in SUBSET (1..n)
    BY DEF About
  <2>3. Max(About(P, I, k)) \in About(P, I, k)
    BY <2>2, LastPlace
  <2>4. Max(About(P, I, k)) \in I
    BY <2>3 DEF About
  <2> QED
    BY <2>1, <2>4
<1> QED
  BY <1>1, <1>2 DEF Joined

\* A batch at the end of the channel is applied last.
LEMMA PatchOfAppended ==
  ASSUME NEW S, NEW ch \in Seq(Seq(S)), NEW b \in Seq(S), NEW st
  PROVE  Patched(st, PatchOfAll(Append(ch, b))) = Patched(Patched(st, PatchOfAll(ch)), PatchOf(b))
<1> DEFINE n == Len(ch)
           ch2 == Append(ch, b)
           P == [i \in DOMAIN ch |-> PatchOf(ch[i])]
           Q == [i \in DOMAIN ch2 |-> PatchOf(ch2[i])]
<1>1. /\ n \in Nat /\ DOMAIN ch = 1..n /\ DOMAIN ch2 = 1..(n + 1)
      /\ \A i \in 1..n : ch2[i] = ch[i]
      /\ ch2[n + 1] = b
  BY AppendProperties
<1>2. \A i \in 1..n : P[i] = Q[i]
  BY <1>1
<1>3. Q[n + 1] = PatchOf(b)
  BY <1>1
<1>4. PatchOfAll(ch) = Joined(P, 1..n) /\ PatchOfAll(ch2) = Joined(Q, 1..(n + 1))
  BY <1>1 DEF PatchOfAll
<1> HIDE DEF n, P, Q, ch2
<1>5. 1..(n + 1) \in SUBSET (1..(n + 1)) /\ 1..(n + 1) # {} /\ n + 1 \in Nat
  <2>1. n \in Nat
    BY <1>1
  <2>2. n + 1 \in 1..(n + 1) /\ n + 1 \in Nat
    BY <2>1
  <2> QED
    BY <2>2
<1>6. Max(1..(n + 1)) = n + 1
  <2>1. Max(1..(n + 1)) \in 1..(n + 1) /\ \A j \in 1..(n + 1) : j <= Max(1..(n + 1))
    BY <1>5, LastPlace
  <2>2. n + 1 \in 1..(n + 1)
    BY <1>1
  <2> QED
    BY <1>1, <2>1, <2>2
<1>7. (1..(n + 1)) \ {n + 1} = 1..n
  BY <1>1
<1>8. Patched(st, Joined(Q, 1..(n + 1))) = Patched(Patched(st, Joined(Q, 1..n)), Q[n + 1])
  <2> DEFINE I == 1..(n + 1)
  <2>1. Patched(st, Joined(Q, I)) = Patched(Patched(st, Joined(Q, I \ {Max(I)})), Q[Max(I)])
    <3>1. I \in SUBSET (1..(n + 1)) /\ I # {} /\ n + 1 \in Nat
      BY <1>5
    <3> HIDE DEF I
    <3> QED
      BY <3>1, JoinedLast
  <2> QED
    BY <1>6, <1>7, <2>1
<1>9. Joined(P, 1..n) = Joined(Q, 1..n)
  <2>1. n \in Nat
    BY <1>1
  <2>2. 1..n \in SUBSET (1..n)
    OBVIOUS
  <2> QED
    BY <1>2, <2>1, <2>2, JoinedSame
<1> QED
  BY <1>3, <1>4, <1>8, <1>9 DEF ch2

\* The batch at the head of the channel may be applied at once.
LEMMA PatchOfTaken ==
  ASSUME NEW S, NEW ch \in Seq(Seq(S)), 1 \in DOMAIN ch, NEW st
  PROVE  Patched(Patched(st, PatchOf(ch[1])), PatchOfAll(RemoveAt(ch, 1)))
           = Patched(st, PatchOfAll(ch))
<1> DEFINE n == Len(ch)
           ch2 == RemoveAt(ch, 1)
           P == [i \in DOMAIN ch |-> PatchOf(ch[i])]
           Q == [i \in DOMAIN ch2 |-> PatchOf(ch2[i])]
           A == PatchOf(ch[1])
           B == Joined(Q, 1..(n - 1))
           C == Joined(P, 1..n)
<1>1. n \in Nat /\ 1 \in 1..n /\ DOMAIN ch = 1..n
  OBVIOUS
<1>2. /\ DOMAIN ch2 = 1..(n - 1) /\ n - 1 \in Nat
      /\ \A j \in 1..(n - 1) : ch2[j] = ch[j + 1]
  <2>1. /\ ch2 \in Seq(Seq(S)) /\ Len(ch2) = n - 1
        /\ \A j \in 1..(n - 1) : ch2[j] = IF j < 1 THEN ch[j] ELSE ch[j + 1]
    BY <1>1, RemovedAt
  <2> HIDE DEF ch2
  <2> QED
    BY <1>1, <2>1
<1>3. P[1] = A /\ \A j \in 1..(n - 1) : Q[j] = P[j + 1] /\ j + 1 \in 1..n
  BY <1>1, <1>2
<1>4. PatchOfAll(ch) = C /\ PatchOfAll(ch2) = B
  BY <1>1, <1>2 DEF PatchOfAll
<1>5. ASSUME NEW i \in 1..n, i # 1 PROVE i - 1 \in 1..(n - 1) /\ (i - 1) + 1 = i
  BY <1>1, <1>5
<1> HIDE DEF P, Q, ch2, n, A
<1>6. DOMAIN B = UNION {DOMAIN Q[i] : i \in 1..(n - 1)} /\ DOMAIN C = UNION {DOMAIN P[i] : i \in 1..n}
  BY DEF Joined
<1>7. DOMAIN C = DOMAIN A \cup DOMAIN B
  <2>1. \A k : (\E i \in 1..n : k \in DOMAIN P[i])
                 <=> (k \in DOMAIN A \/ \E j \in 1..(n - 1) : k \in DOMAIN Q[j])
    <3> SUFFICES ASSUME NEW k
                 PROVE  (\E i \in 1..n : k \in DOMAIN P[i])
                          <=> (k \in DOMAIN A \/ \E j \in 1..(n - 1) : k \in DOMAIN Q[j])
      OBVIOUS
    <3>1. ASSUME NEW i \in 1..n, k \in DOMAIN P[i]
          PROVE  k \in DOMAIN A \/ \E j \in 1..(n - 1) : k \in DOMAIN Q[j]
      <4>1. CASE i = 1
        BY <1>3, <3>1, <4>1
      <4>2. CASE i # 1
        <5>1. i - 1 \in 1..(n - 1) /\ Q[i - 1] = P[i]
          BY <1>3, <1>5, <4>2
        <5> QED
          BY <3>1, <5>1
      <4> QED
        BY <4>1, <4>2
    <3>2. k \in DOMAIN A => \E i \in 1..n : k \in DOMAIN P[i]
      BY <1>1, <1>3
    <3>3. ASSUME NEW j \in 1..(n - 1), k \in DOMAIN Q[j]
          PROVE  \E i \in 1..n : k \in DOMAIN P[i]
      BY <1>3, <3>3
    <3> QED
      BY <3>1, <3>2, <3>3
  <2>2. \A k : k \in DOMAIN C <=> \E i \in 1..n : k \in DOMAIN P[i]
    BY <1>6
  <2>3. \A k : k \in DOMAIN B <=> \E j \in 1..(n - 1) : k \in DOMAIN Q[j]
    BY <1>6
  <2> HIDE DEF B, C
  <2> QED
    BY <2>1, <2>2, <2>3
<1>8. ASSUME NEW k \in DOMAIN B PROVE C[k] = B[k]
  <2> DEFINE b == About(Q, 1..(n - 1), k)
             c == About(P, 1..n, k)
  <2>1. b # {} /\ b \in SUBSET (1..(n - 1)) /\ c \in SUBSET (1..n)
    BY <1>6 DEF About
  <2>2. Max(b) \in b /\ \A j \in b : j <= Max(b)
    BY <1>2, <2>1, LastPlace
  <2>3. Max(b) + 1 \in c
    BY <1>3, <2>2 DEF About
  <2>4. Max(c) \in c /\ \A j \in c : j <= Max(c)
    BY <1>1, <2>1, <2>3, LastPlace
  <2>5. Max(c) # 1
    <3>1. Max(b) + 1 <= Max(c) /\ Max(b) \in 1..(n - 1)
      BY <2>1, <2>2, <2>3, <2>4
    <3> QED
      BY <1>1, <3>1
  <2>6. Max(c) \in 1..n /\ k \in DOMAIN P[Max(c)]
    BY <2>4 DEF About
  <2>7. Max(c) - 1 \in 1..(n - 1) /\ Q[Max(c) - 1] = P[Max(c)]
    BY <1>3, <1>5, <2>5, <2>6
  <2>8. Max(c) - 1 \in b
    BY <2>6, <2>7 DEF About
  <2>9. Max(c) = Max(b) + 1
    <3>1. Max(c) - 1 <= Max(b) /\ Max(b) + 1 <= Max(c) /\ Max(b) \in 1..(n - 1)
      BY <2>1, <2>2, <2>3, <2>4, <2>8
    <3> QED
      BY <1>1, <2>6, <3>1
  <2>10. C[k] = P[Max(c)][k] /\ B[k] = Q[Max(b)][k]
    <3>1. k \in DOMAIN C
      BY <1>7
    <3> QED
      BY <3>1 DEF Joined
  <2> QED
    BY <1>3, <2>1, <2>2, <2>9, <2>10
<1>9. ASSUME NEW k \in DOMAIN A, k \notin DOMAIN B PROVE C[k] = A[k]
  <2> DEFINE c == About(P, 1..n, k)
  <2>1. c = {1}
    <3>1. 1 \in c
      BY <1>1, <1>3 DEF About
    <3>2. ASSUME NEW i \in c PROVE i = 1
      <4>1. i \in 1..n /\ k \in DOMAIN P[i]
        BY DEF About
      <4>2. CASE i # 1
        <5>1. i - 1 \in 1..(n - 1) /\ Q[i - 1] = P[i]
          BY <1>3, <1>5, <4>1, <4>2
        <5> QED
          BY <1>6, <1>9, <4>1, <5>1
      <4> QED
        BY <4>2
    <3> QED
      BY <3>1, <3>2
  <2>2. Max(c) \in c
    BY <1>1, <2>1, LastPlace
  <2>3. C[k] = P[Max(c)][k]
    <3>1. k \in DOMAIN C
      BY <1>7
    <3> QED
      BY <3>1 DEF Joined
  <2> QED
    BY <1>3, <2>1, <2>2, <2>3
<1> HIDE DEF B, C
<1> DEFINE M == Patched(st, A)
           L == Patched(M, B)
           N == Patched(st, C)
<1>10. DOMAIN M = {l \in DOMAIN st \cup DOMAIN A : l \in DOMAIN A => A[l].type # "delete"}
  BY DEF Patched
<1>11. DOMAIN L = {l \in DOMAIN M \cup DOMAIN B : l \in DOMAIN B => B[l].type # "delete"}
  BY DEF Patched
<1>12. DOMAIN N = {l \in DOMAIN st \cup DOMAIN C : l \in DOMAIN C => C[l].type # "delete"}
  BY DEF Patched
<1>13. DOMAIN L = DOMAIN N
  BY <1>7, <1>8, <1>9, <1>10, <1>11, <1>12
<1>14. ASSUME NEW k \in DOMAIN L PROVE L[k] = N[k]
  <2>1. L[k] = IF k \in DOMAIN B THEN B[k].object ELSE M[k]
    BY DEF Patched
  <2>2. N[k] = IF k \in DOMAIN C THEN C[k].object ELSE st[k]
    BY <1>13 DEF Patched
  <2>3. k \notin DOMAIN B => k \in DOMAIN M /\ M[k] = IF k \in DOMAIN A THEN A[k].object ELSE st[k]
    BY <1>11 DEF Patched
  <2> QED
    BY <1>7, <1>8, <1>9, <2>1, <2>2, <2>3
<1>15. L = N
  <2>1. IsMap(L) /\ IsMap(N)
    BY PatchedIsMap
  <2> HIDE DEF L, N
  <2> QED
    BY <1>13, <1>14, <2>1 DEF IsMap
<1> QED
  BY <1>4, <1>15 DEF A, ch2

LEMMA StoreInit == Init => StoreInv
<1> SUFFICES ASSUME Init PROVE StoreInv
  OBVIOUS
<1>1. store = << >> /\ evChan = << >> /\ routes = << >>
  BY DEF Init
<1>2. IsMap(<< >>)
  BY DEF IsMap
<1>3. Patched(store, PatchOfAll(evChan)) = << >>
  BY <1>1, <1>2, PatchOfNone
<1>4. AsMap(<< >>) = << >>
  <2>1. DOMAIN AsMap(<< >>) = {}
    <3>1. Ids(<< >>) = {}
      BY DEF Ids
    <3> QED
      BY <3>1 DEF AsMap
  <2>2. IsMap(AsMap(<< >>))
    BY DEF AsMap, IsMap
  <2>3. DOMAIN << >> = {}
    OBVIOUS
  <2> QED
    BY <1>2, <2>1, <2>2, <2>3 DEF IsMap
<1> QED
  BY <1>1, <1>3, <1>4 DEF StoreInv

\* A batch with no event is not sent, and would change nothing.
LEMMA PatchOfNoEvent ==
  ASSUME NEW st, IsMap(st)
  PROVE  Patched(st, PatchOf(<< >>)) = st
<1> DEFINE P == [i \in DOMAIN << >> |-> Single(<< >>[i])]
<1>1. DOMAIN << >> = {}
  OBVIOUS
<1>2. PatchOf(<< >>) = Joined(P, {})
  BY <1>1 DEF PatchOf
<1> HIDE DEF P
<1> QED
  BY <1>2, JoinedNone

LEMMA StoreNext == TypeInv /\ StoreInv /\ [Next]_vars => StoreInv'
<1> SUFFICES ASSUME TypeInv, StoreInv, [Next]_vars, "batches" \notin overtaken'
             PROVE  Patched(store', PatchOfAll(evChan')) = AsMap(routes')
  BY DEF StoreInv
<1> DEFINE S == EventsOf(AllRoutes)
<1>0. "messages" \in {"messages", "batches"} /\ "batches" \in {"messages", "batches"}
  OBVIOUS
<1>1. CASE UNCHANGED <<store, evChan, routes>> /\ overtaken \subseteq overtaken'
  <2>1. Patched(store, PatchOfAll(evChan)) = AsMap(routes)
    BY <1>1 DEF StoreInv
  <2> QED
    BY <1>1, <2>1
<1>2. ASSUME NEW i \in DOMAIN responses, ReceiveRDS(i)
      PROVE  Patched(store', PatchOfAll(evChan')) = AsMap(routes')
  <2>1. /\ evChan' = IF Difference = << >> THEN evChan ELSE Append(evChan, Difference)
        /\ Difference \in Seq(S)
        /\ Patched(AsMap(routes), PatchOf(Difference)) = AsMap(routes')
    BY <1>2, ReceivedRDS
  <2>2. overtaken \subseteq overtaken' /\ store' = store
    BY <1>0, <1>2, OvertakingType DEF ReceiveRDS
  <2>3. Patched(store, PatchOfAll(evChan)) = AsMap(routes)
    BY <2>2 DEF StoreInv
  <2>4. evChan \in Seq(Seq(S))
    BY DEF TypeInv
  <2> HIDE DEF S
  <2>5. Patched(store, PatchOfAll(Append(evChan, Difference))) = AsMap(routes')
    BY <2>1, <2>3, <2>4, PatchOfAppended
  <2>6. CASE Difference = << >>
    <3>1. IsMap(AsMap(routes))
      BY DEF AsMap, IsMap
    <3>2. AsMap(routes) = AsMap(routes')
      BY <2>1, <2>6, <3>1, PatchOfNoEvent
    <3>3. Patched(store', PatchOfAll(evChan')) = AsMap(routes')
      BY <2>1, <2>2, <2>3, <2>6, <3>2
    <3> QED
      BY <3>3
  <2>7. CASE Difference # << >>
    <3>1. Patched(store', PatchOfAll(evChan')) = AsMap(routes')
      BY <2>1, <2>2, <2>5, <2>7
    <3> QED
      BY <3>1
  <2> QED
    BY <2>6, <2>7
<1>3. ASSUME NEW i \in DOMAIN evChan, Deliver(i)
      PROVE  Patched(store', PatchOfAll(evChan')) = AsMap(routes')
  <2>1. overtaken \subseteq overtaken' /\ i = 1
    BY <1>0, <1>3, OvertakingType DEF Deliver
  <2>2. Patched(store, PatchOfAll(evChan)) = AsMap(routes)
    BY <2>1 DEF StoreInv
  <2>3. evChan \in Seq(Seq(S)) /\ 1 \in DOMAIN evChan
    BY <2>1 DEF TypeInv
  <2>4. evChan[1] \in Seq(S) /\ IsMap(store)
    BY <2>3 DEF TypeInv
  <2>5. store' = ApplyEvents(store, evChan[1]) /\ evChan' = RemoveAt(evChan, 1) /\ routes' = routes
    BY <1>3, <2>1 DEF Deliver, rdsVars
  <2> HIDE DEF S
  <2>6. ApplyEvents(store, evChan[1]) = Patched(store, PatchOf(evChan[1]))
    BY <2>4, Applied
  <2>7. Patched(Patched(store, PatchOf(evChan[1])), PatchOfAll(RemoveAt(evChan, 1)))
          = Patched(store, PatchOfAll(evChan))
    BY <2>3, PatchOfTaken
  <2>8. Patched(store', PatchOfAll(evChan')) = AsMap(routes')
    BY <2>2, <2>5, <2>6, <2>7
  <2> QED
    BY <2>8
<1>4. CASE MeshChange
  BY <1>1, <1>4 DEF MeshChange, rdsVars
<1>5. CASE Push
  BY <1>1, <1>5 DEF Push, rdsVars
<1>6. ASSUME NEW i \in DOMAIN requests, AnswerRequest(i)
      PROVE  UNCHANGED <<store, evChan, routes>> /\ overtaken \subseteq overtaken'
  BY <1>0, <1>6, OvertakingType DEF AnswerRequest, rdsVars
<1>7. CASE AnswerAck
  BY <1>1, <1>7 DEF AnswerAck, rdsVars
<1>8. ASSUME NEW i \in DOMAIN responses, ReceiveLDS(i)
      PROVE  UNCHANGED <<store, evChan, routes>> /\ overtaken \subseteq overtaken'
  BY <1>0, <1>8, OvertakingType DEF ReceiveLDS, rdsVars
<1>9. CASE UNCHANGED vars
  BY <1>1, <1>9 DEF vars, rdsVars
<1> QED
  BY <1>1, <1>2, <1>3, <1>4, <1>5, <1>6, <1>7, <1>8, <1>9 DEF Next, Receive

\* Differences add up: as long as no batch overtakes another, the dictionary
\* holds exactly the routes of the provisioner once the waiting batches of
\* storeEvents are applied, duplicates and moved routes included.
THEOREM DictionaryHoldsRoutes == Spec => []RoutesStored
<1>1. Init => StoreInv
  BY StoreInit
<1>2. TypeInv /\ StoreInv /\ [Next]_vars => StoreInv'
  BY StoreNext
<1>3. TypeInv /\ StoreInv => RoutesStored
  BY StoreInvMeans
<1>4. Spec => []TypeInv
  BY TypesHold
<1> QED
  BY <1>1, <1>2, <1>3, <1>4, PTL DEF Spec

\* Only a response to RDS changes the routes, and the events it sends, if any,
\* turn the old map into the new one.
LEMMA RoutesChanged ==
  ASSUME TypeInv, [Next]_vars, routes' # routes
  PROVE  (IF evChan' = evChan THEN AsMap(routes) ELSE ApplyEvents(AsMap(routes), Last(evChan')))
           = AsMap(routes')
<1>1. PICK i \in DOMAIN responses : ReceiveRDS(i)
  <2>1. ASSUME NEW i \in DOMAIN responses, ReceiveLDS(i) PROVE FALSE
    BY <2>1 DEF ReceiveLDS, rdsVars
  <2>2. ASSUME NEW i \in DOMAIN requests, AnswerRequest(i) PROVE FALSE
    BY <2>2 DEF AnswerRequest, rdsVars
  <2>3. ASSUME NEW i \in DOMAIN evChan, Deliver(i) PROVE FALSE
    BY <2>3 DEF Deliver, rdsVars
  <2>4. ~MeshChange /\ ~Push /\ ~AnswerAck /\ ~UNCHANGED vars
    BY DEF MeshChange, Push, AnswerAck, vars, rdsVars
  <2> QED
    BY <2>1, <2>2, <2>3, <2>4 DEF Next, Receive
<1>2. /\ evChan' = IF Difference = << >> THEN evChan ELSE Append(evChan, Difference)
      /\ Difference \in Seq(EventsOf(AllRoutes))
      /\ Patched(AsMap(routes), PatchOf(Difference)) = AsMap(routes')
  BY <1>1, ReceivedRDS
<1>3. IsMap(AsMap(routes))
  BY DEF AsMap, IsMap
<1>4. CASE Difference = << >>
  BY <1>2, <1>3, <1>4, PatchOfNoEvent
<1>5. CASE Difference # << >>
  <2>1. evChan \in Seq(Seq(EventsOf(AllRoutes)))
    BY DEF TypeInv
  <2>2. /\ Append(evChan, Difference) # evChan
        /\ Last(Append(evChan, Difference)) = Difference
    BY <1>2, <2>1, AppendProperties DEF Last
  <2>3. ApplyEvents(AsMap(routes), Difference) = AsMap(routes')
    BY <1>2, <1>3, Applied
  <2> QED
    BY <1>2, <1>5, <2>2, <2>3
<1> QED
  BY <1>4, <1>5

\* Whatever the slices, duplicates included, the event list that
\* generateIncrementalEvents makes of them has the effect of the difference of
\* the two maps, by which module UpstreamSync models it.
THEOREM DifferenceOfMaps == Spec => EventsAreTheDifference
<1> DEFINE old == AsMap(routes)
           map == AsMap(routes')
           diff == GenerateIncrementalEvents(old, map, Missing)
           new == IF evChan' = evChan THEN old ELSE ApplyEvents(old, Last(evChan'))
           Same == routes' # routes =>
             \A k \in DOMAIN old \cup DOMAIN map :
               (IF k \in DOMAIN new THEN new[k] ELSE Missing)
                 = (IF k \in DOMAIN diff THEN diff[k] ELSE old[k])
<1>1. TypeInv /\ [Next]_vars => Same
  <2> SUFFICES ASSUME TypeInv, [Next]_vars, routes' # routes,
                      NEW k \in DOMAIN old \cup DOMAIN map
               PROVE  (IF k \in DOMAIN new THEN new[k] ELSE Missing)
                        = (IF k \in DOMAIN diff THEN diff[k] ELSE old[k])
    OBVIOUS
  <2>1. new = map
    BY RoutesChanged
  <2> HIDE DEF old, map, new
  <2> QED
    BY <2>1 DEF GenerateIncrementalEvents, ChangedKeys
<1>2. Spec => []TypeInv
  BY TypesHold
<1>3. TypeInv /\ [Next]_vars => [Same]_vars
  BY <1>1
<1> HIDE DEF Same
<1>4. Spec => [][Same]_vars
  BY <1>2, <1>3, PTL DEF Spec
<1> QED
  BY <1>4 DEF EventsAreTheDifference, Same

-----------------------------------------------------------------------------
(***************************************************************************)
(* The names asked for                                                     *)
(***************************************************************************)

Response == LdsResponse \cup RdsResponse

\* The responses to RDS among others; the last of them is istiod's last one;
\* and istiod's last one is about names of a set.
Answers(rs) == {i \in 1..Len(rs) : rs[i].type = "RDS"}
Closed(rs) == \A i \in Answers(rs) : rs[i].last \/ \E j \in Answers(rs) : j > i
LastWithin(rs, N) == \A i \in Answers(rs) : rs[i].last => rs[i].names \subseteq N

\* A response to RDS arrives.
LEMMA AnswerAdded ==
  ASSUME NEW rs \in Seq(Response), NEW r \in RdsResponse, r.last = TRUE
  PROVE  /\ Closed(Append(rs, r)) /\ Answers(Append(rs, r)) # {}
         /\ \A N : LastWithin(rs, N) /\ r.names \subseteq N => LastWithin(Append(rs, r), N)
<1> DEFINE new == Append(rs, r)
           n == Len(rs)
<1>1. /\ n \in Nat /\ Len(new) = n + 1 /\ new[n + 1] = r
      /\ \A i \in 1..n : new[i] = rs[i]
  BY DEF Response
<1>2. r.type = "RDS"
  BY DEF RdsResponse
<1> HIDE DEF n, new
<1>3. \A i \in 1..(n + 1) : i = n + 1 \/ (i \in 1..n /\ n + 1 > i)
  BY <1>1
<1>4. n + 1 \in Answers(new)
  BY <1>1, <1>2 DEF Answers
<1>5. Closed(new)
  BY <1>1, <1>3, <1>4 DEF Closed, Answers
<1>6. ASSUME NEW N, LastWithin(rs, N), r.names \subseteq N PROVE LastWithin(new, N)
  BY <1>1, <1>3, <1>6 DEF LastWithin, Answers, n
<1> QED
  BY <1>4, <1>5, <1>6 DEF new

\* A response to LDS arrives.
LEMMA ListenersAdded ==
  ASSUME NEW rs \in Seq(Response), NEW r \in LdsResponse
  PROVE  /\ Answers(Append(rs, r)) = Answers(rs)
         /\ Closed(rs) => Closed(Append(rs, r))
         /\ \A N : LastWithin(rs, N) => LastWithin(Append(rs, r), N)
<1> DEFINE new == Append(rs, r)
           n == Len(rs)
<1>1. /\ n \in Nat /\ Len(new) = n + 1 /\ new[n + 1] = r
      /\ \A i \in 1..n : new[i] = rs[i]
  BY DEF Response
<1>2. r.type # "RDS"
  BY DEF LdsResponse
<1> HIDE DEF n, new
<1>3. \A i : i \in 1..(n + 1) <=> (i = n + 1 \/ i \in 1..n)
  BY <1>1
<1>4. Answers(new) = Answers(rs)
  BY <1>1, <1>2, <1>3 DEF Answers, n
<1>5. \A i \in Answers(rs) : new[i] = rs[i]
  BY <1>1 DEF Answers, n
<1>6. Closed(rs) => Closed(new)
  BY <1>4, <1>5 DEF Closed
<1>7. ASSUME NEW N, LastWithin(rs, N) PROVE LastWithin(new, N)
  BY <1>4, <1>5, <1>7 DEF LastWithin
<1> QED
  BY <1>4, <1>6, <1>7 DEF new

\* The first response is taken.  If it was the only one to RDS, it was istiod's
\* last one.
LEMMA FirstTaken ==
  ASSUME NEW rs \in Seq(Response), 1 \in DOMAIN rs
  PROVE  /\ Closed(rs) => Closed(RemoveAt(rs, 1))
         /\ \A N : LastWithin(rs, N) => LastWithin(RemoveAt(rs, 1), N)
         /\ Answers(RemoveAt(rs, 1)) = {} => Answers(rs) \subseteq {1}
         /\ Answers(RemoveAt(rs, 1)) = {} /\ Closed(rs) /\ rs[1].type = "RDS" => rs[1].last
<1> DEFINE new == RemoveAt(rs, 1)
           n == Len(rs)
<1>1. n \in Nat /\ 1 \in 1..n
  OBVIOUS
<1>2. /\ Len(new) = n - 1
      /\ \A j \in 1..(n - 1) : new[j] = rs[j + 1] /\ j + 1 \in 1..n /\ j + 1 > 1
  <2>1. /\ Len(new) = n - 1
        /\ \A j \in 1..(n - 1) : new[j] = IF j < 1 THEN rs[j] ELSE rs[j + 1]
    BY <1>1, RemovedAt
  <2> HIDE DEF new
  <2> QED
    BY <1>1, <2>1
<1> HIDE DEF new, n
<1>3. \A i \in 1..n : i = 1 \/ (i - 1 \in 1..(n - 1) /\ (i - 1) + 1 = i)
  BY <1>1
<1>4. \A j \in 1..(n - 1) : j \in Answers(new) <=> j + 1 \in Answers(rs)
  BY <1>2 DEF Answers, n
<1>5. Answers(new) \subseteq 1..(n - 1) /\ Answers(rs) \subseteq 1..n
  BY <1>2 DEF Answers, n
<1>6. ASSUME NEW i \in Answers(rs) PROVE i = 1 \/ i - 1 \in Answers(new)
  BY <1>3, <1>4, <1>5
<1>7. ASSUME Closed(rs) PROVE Closed(new)
  <2> SUFFICES ASSUME NEW i \in Answers(new), ~new[i].last
               PROVE  \E j \in Answers(new) : j > i
    BY DEF Closed
  <2>1. i \in 1..(n - 1) /\ i + 1 \in Answers(rs) /\ new[i] = rs[i + 1]
    BY <1>2, <1>4, <1>5
  <2>2. PICK k \in Answers(rs) : k > i + 1
    BY <1>7, <2>1 DEF Closed
  <2>3. k \in 1..n /\ k # 1 /\ k - 1 > i
    BY <1>1, <1>5, <2>1, <2>2
  <2> QED
    BY <1>6, <2>3
<1>8. ASSUME NEW N, LastWithin(rs, N) PROVE LastWithin(new, N)
  BY <1>2, <1>4, <1>5, <1>8 DEF LastWithin
<1>9. Answers(new) = {} => Answers(rs) \subseteq {1}
  BY <1>6
<1>10. ASSUME Answers(new) = {}, Closed(rs), rs[1].type = "RDS" PROVE rs[1].last
  <2>1. 1 \in Answers(rs)
    BY <1>1, <1>10 DEF Answers, n
  <2> QED
    BY <1>9, <1>10, <2>1 DEF Closed
<1> QED
  BY <1>7, <1>8, <1>9, <1>10 DEF new

\* The names that the listeners ask for.
Wanted == RdsNames(Listeners(lds))

\* Nothing but the names N is subscribed to or on its way to be: every response
\* that will be acknowledged, and the routes if no response is to replace them,
\* are about these.
Settled(N) ==
  /\ subscribed \subseteq N
  /\ ack \subseteq SUBSET N
  /\ LastWithin(responses, N)
  /\ Answers(responses) = {} => \A p \in 1..Len(routes) : routes[p].config \in N

\* The names of the listeners are the last ones asked for, or have been received.
NamesInv ==
  "messages" \notin overtaken =>
    /\ Closed(responses)
    /\ Wanted # {} => IF requests = << >> THEN Settled(Wanted)
                      ELSE requests[Len(requests)] = Wanted

LEMMA NoNames == RdsNames(<< >>) = {}
<1> DEFINE filters(i) == IF UsableListener(<< >>[i])
                         THEN SelectSeq(<< >>[i].filters, LAMBDA f : f.kind = "rds") ELSE << >>
           q == [i \in {} |-> filters(i)]
<1>1. FiltersOf(<< >>, "rds") = FlattenSeq(q)
  <2>1. DOMAIN << >> = {}
    OBVIOUS
  <2> QED
    BY <2>1, Zenon DEF FiltersOf
<1> HIDE DEF filters
<1>2. q \in Seq({}) /\ Len(q) = 0
  <2>1. DOMAIN << >> = {} /\ DOMAIN q = {} /\ q = [i \in DOMAIN q |-> q[i]]
    OBVIOUS
  <2>2. q = << >>
    BY <2>1
  <2> QED
    BY <2>2
<1>3. FlattenSeq(q) = q
  BY <1>2 DEF FlattenSeq
<1>4. DOMAIN FiltersOf(<< >>, "rds") = {}
  BY <1>1, <1>3
<1> QED
  BY <1>4 DEF RdsNames, Range

LEMMA NamesInit == Init => NamesInv
<1> SUFFICES ASSUME Init PROVE NamesInv
  OBVIOUS
<1>1. responses = << >> /\ lds = Missing
  BY DEF Init
<1>2. Closed(responses)
  BY <1>1 DEF Closed, Answers
<1>3. Wanted = {}
  BY <1>1, NoNames DEF Wanted, Listeners
<1> QED
  BY <1>2, <1>3 DEF NamesInv

\* What is outdated is no answer of istiod's any more.
LEMMA OutdatedWithin ==
  ASSUME TypeInv
  PROVE  Outdated \in Seq(Response) /\ \A N : LastWithin(Outdated, N)
<1>1. /\ Outdated \in Seq(Response) /\ Len(Outdated) = Len(responses)
      /\ \A i \in 1..Len(responses) :
           /\ Outdated[i].type = responses[i].type
           /\ responses[i].type = "RDS" => Outdated[i].last = FALSE
  BY OutdatedType DEF Response
<1> QED
  BY <1>1 DEF LastWithin, Answers

LEMMA NamesPush ==
  ASSUME TypeInv, NamesInv, Push
  PROVE  NamesInv'
<1> SUFFICES ASSUME "messages" \notin overtaken'
             PROVE  (/\ Closed(responses)
                     /\ Wanted # {} => IF requests = << >> THEN Settled(Wanted)
                                       ELSE requests[Len(requests)] = Wanted)'
  BY DEF NamesInv
<1>1. UNCHANGED <<subscribed, requests, lds, routes, overtaken>>
  BY DEF Push, ldsVars, rdsVars
<1>2. /\ Closed(responses)
      /\ Wanted # {} => IF requests = << >> THEN Settled(Wanted)
                        ELSE requests[Len(requests)] = Wanted
  BY <1>1 DEF NamesInv
<1>3. Wanted' = Wanted
  BY <1>1 DEF Wanted
<1>4. Lds \in LdsResponse /\ responses \in Seq(Response)
  BY MessageType DEF TypeInv, Response
<1>5. CASE subscribed = {}
  <2>1. responses' = Append(responses, Lds) /\ ack' = ack
    BY <1>5 DEF Push
  <2>2. /\ Answers(responses') = Answers(responses) /\ Closed(responses')
        /\ \A N : LastWithin(responses, N) => LastWithin(responses', N)
    BY <1>2, <1>4, <2>1, ListenersAdded
  <2> QED
    BY <1>1, <1>2, <1>3, <2>1, <2>2 DEF Settled
<1>6. CASE subscribed # {}
  <2> DEFINE a == Append(Outdated, Lds)
             r == Rds(subscribed)
  <2>1. /\ r \in RdsResponse /\ r.last = TRUE /\ r.names = subscribed
    BY MessageType DEF TypeInv
  <2>2. responses' = Outdated \o <<Lds, r>> /\ ack' = {}
    BY <1>6 DEF Push
  <2>3. Outdated \in Seq(Response) /\ \A N : LastWithin(Outdated, N)
    BY OutdatedWithin
  <2>4. a \in Seq(Response) /\ \A N : LastWithin(a, N)
    BY <1>4, <2>3, ListenersAdded DEF Response
  <2>5. responses' = Append(a, r)
    <3>1. Lds \in Response /\ r \in Response
      BY <1>4, <2>1 DEF Response
    <3> HIDE DEF r
    <3> QED
      BY <2>2, <2>3, <3>1
  <2> HIDE DEF a, r
  <2>6. /\ Closed(responses') /\ Answers(responses') # {}
        /\ \A N : subscribed \subseteq N => LastWithin(responses', N)
    BY <2>1, <2>4, <2>5, AnswerAdded
  <2> QED
    BY <1>1, <1>2, <1>3, <2>2, <2>6 DEF Settled
<1> QED
  BY <1>5, <1>6

LEMMA NamesRequest ==
  ASSUME TypeInv, NamesInv, NEW i \in DOMAIN requests, AnswerRequest(i)
  PROVE  NamesInv'
<1> SUFFICES ASSUME "messages" \notin overtaken'
             PROVE  (/\ Closed(responses)
                     /\ Wanted # {} => IF requests = << >> THEN Settled(Wanted)
                                       ELSE requests[Len(requests)] = Wanted)'
  BY DEF NamesInv
<1>1. i = 1 /\ overtaken \subseteq overtaken'
  BY OvertakingType DEF AnswerRequest
<1>2. Wanted # {} => requests[Len(requests)] = Wanted
  <2>1. requests # << >>
    OBVIOUS
  <2> QED
    BY <1>1, <2>1 DEF NamesInv
<1>3. /\ subscribed' = requests[1] /\ requests' = RemoveAt(requests, 1) /\ ack' = {}
      /\ responses' = Append(Outdated, Rds(requests[1])) /\ lds' = lds
  BY <1>1 DEF AnswerRequest, ldsVars
<1>4. Wanted' = Wanted
  BY <1>3 DEF Wanted
<1>5. requests \in Seq(SUBSET AllNames) /\ 1 \in 1..Len(requests)
  BY <1>1 DEF TypeInv
<1>6. requests[1] \in SUBSET AllNames
  BY <1>5
<1>7. LET r == Rds(requests[1]) IN r \in RdsResponse /\ r.last = TRUE /\ r.names = requests[1]
  BY <1>6, MessageType
<1>8. Outdated \in Seq(Response) /\ \A N : LastWithin(Outdated, N)
  BY OutdatedWithin
<1>9. /\ Closed(responses') /\ Answers(responses') # {}
      /\ \A N : requests[1] \subseteq N => LastWithin(responses', N)
  BY <1>3, <1>7, <1>8, AnswerAdded
<1>10. /\ Len(requests') = Len(requests) - 1
       /\ \A j \in 1..(Len(requests) - 1) : requests'[j] = requests[j + 1]
       /\ requests' \in Seq(SUBSET AllNames)
  <2>1. /\ Len(requests') = Len(requests) - 1 /\ requests' \in Seq(SUBSET AllNames)
        /\ \A j \in 1..(Len(requests) - 1) :
             requests'[j] = IF j < 1 THEN requests[j] ELSE requests[j + 1]
    BY <1>3, <1>5, RemovedAt
  <2> QED
    BY <1>5, <2>1
<1>11. CASE Len(requests) = 1
  <2>1. Wanted # {} => requests[1] = Wanted
    BY <1>2, <1>11
  <2>2. requests' = << >>
    BY <1>10, <1>11
  <2> QED
    BY <1>3, <1>4, <1>9, <2>1, <2>2 DEF Settled
<1>12. CASE Len(requests) # 1
  <2>1. requests'[Len(requests')] = requests[Len(requests)] /\ requests' # << >>
    BY <1>5, <1>10, <1>12
  <2> QED
    BY <1>2, <1>4, <1>9, <2>1
<1> QED
  BY <1>11, <1>12

LEMMA NamesAck ==
  ASSUME TypeInv, NamesInv, AnswerAck
  PROVE  NamesInv'
<1> SUFFICES ASSUME "messages" \notin overtaken'
             PROVE  (/\ Closed(responses)
                     /\ Wanted # {} => IF requests = << >> THEN Settled(Wanted)
                                       ELSE requests[Len(requests)] = Wanted)'
  BY DEF NamesInv
<1>1. UNCHANGED <<requests, lds, routes, overtaken>> /\ ack' = {}
  BY DEF AnswerAck, ldsVars, rdsVars
<1>2. /\ Closed(responses)
      /\ Wanted # {} => IF requests = << >> THEN Settled(Wanted)
                        ELSE requests[Len(requests)] = Wanted
  BY <1>1 DEF NamesInv
<1>3. Wanted' = Wanted
  BY <1>1 DEF Wanted
<1>4. PICK names \in ack : /\ subscribed' = names
                           /\ responses' = IF names \in {{}, subscribed} THEN responses
                                           ELSE Append(responses, Rds(names))
  BY DEF AnswerAck
<1>5. CASE responses' = responses
  <2>1. \A N : Settled(N) => subscribed' \subseteq N
    BY <1>4 DEF Settled
  <2> QED
    BY <1>1, <1>2, <1>3, <1>5, <2>1 DEF Settled
<1>6. CASE responses' = Append(responses, Rds(names))
  <2>1. names \in SUBSET AllNames /\ responses \in Seq(Response)
    BY <1>4 DEF TypeInv, Response
  <2>2. LET r == Rds(names) IN r \in RdsResponse /\ r.last = TRUE /\ r.names = names
    BY <2>1, MessageType
  <2>3. /\ Closed(responses') /\ Answers(responses') # {}
        /\ \A N : LastWithin(responses, N) /\ names \subseteq N => LastWithin(responses', N)
    BY <1>6, <2>1, <2>2, AnswerAdded
  <2>4. \A N : Settled(N) => names \subseteq N /\ LastWithin(responses, N)
    BY <1>4 DEF Settled
  <2> QED
    BY <1>1, <1>2, <1>3, <1>4, <2>3, <2>4 DEF Settled
<1> QED
  BY <1>4, <1>5, <1>6

LEMMA NamesLDS ==
  ASSUME TypeInv, NamesInv, NEW i \in DOMAIN responses, ReceiveLDS(i)
  PROVE  NamesInv'
<1> SUFFICES ASSUME "messages" \notin overtaken'
             PROVE  (/\ Closed(responses)
                     /\ Wanted # {} => IF requests = << >> THEN Settled(Wanted)
                                       ELSE requests[Len(requests)] = Wanted)'
  BY DEF NamesInv
<1>1. i = 1 /\ overtaken \subseteq overtaken'
  BY OvertakingType DEF ReceiveLDS
<1>2. Closed(responses)
  BY <1>1 DEF NamesInv
<1>3. responses \in Seq(Response) /\ 1 \in DOMAIN responses /\ responses' = RemoveAt(responses, 1)
  BY <1>1 DEF TypeInv, ReceiveLDS, Response
<1>4. Closed(responses')
  BY <1>2, <1>3, FirstTaken
<1>5. requests' = IF Wanted' = {} THEN requests ELSE Append(requests, Wanted')
  BY DEF ReceiveLDS, Wanted
<1>6. ASSUME Wanted' # {} PROVE requests' # << >> /\ requests'[Len(requests')] = Wanted'
  <2>1. requests \in Seq(SUBSET AllNames) /\ requests' = Append(requests, Wanted')
    BY <1>5, <1>6 DEF TypeInv
  <2> DEFINE w == Wanted'
  <2>2. requests' = Append(requests, w)
    BY <2>1
  <2> HIDE DEF w
  <2>3. Len(Append(requests, w)) = Len(requests) + 1 /\ Len(requests) \in Nat
    BY <2>1
  <2>4. Append(requests, w)[Len(requests) + 1] = w
    BY <2>1
  <2>5. requests' # << >> /\ requests'[Len(requests')] = w
    BY <2>2, <2>3, <2>4
  <2> QED
    BY <2>5 DEF w
<1> QED
  BY <1>4, <1>6

LEMMA NamesRDS ==
  ASSUME TypeInv, NamesInv, NEW i \in DOMAIN responses, ReceiveRDS(i)
  PROVE  NamesInv'
<1> SUFFICES ASSUME "messages" \notin overtaken'
             PROVE  (/\ Closed(responses)
                     /\ Wanted # {} => IF requests = << >> THEN Settled(Wanted)
                                       ELSE requests[Len(requests)] = Wanted)'
  BY DEF NamesInv
<1>1. i = 1 /\ overtaken \subseteq overtaken'
  BY OvertakingType DEF ReceiveRDS
<1>2. /\ Closed(responses)
      /\ Wanted # {} => IF requests = << >> THEN Settled(Wanted)
                        ELSE requests[Len(requests)] = Wanted
  BY <1>1 DEF NamesInv
<1>3. /\ responses \in Seq(Response) /\ 1 \in DOMAIN responses
      /\ responses' = RemoveAt(responses, 1) /\ responses[1].type = "RDS"
  BY <1>1 DEF TypeInv, ReceiveRDS, Response
<1>4. UNCHANGED <<subscribed, requests, lds>>
  BY DEF ReceiveRDS, istiodVars, ldsVars
<1>5. Wanted' = Wanted
  BY <1>4 DEF Wanted
<1>6. /\ Closed(responses')
      /\ \A N : LastWithin(responses, N) => LastWithin(responses', N)
      /\ Answers(responses') = {} => responses[1].last
  BY <1>2, <1>3, FirstTaken
<1>7. /\ \A p \in 1..Len(routes') : routes'[p].config \in responses[1].names
      /\ \E names \in SUBSET responses[1].names :
           ack' = IF responses[1].last THEN {names} ELSE ack
  BY <1>1, ReceivedRDS
<1>8. ASSUME NEW N, Settled(N) PROVE responses[1].last => responses[1].names \subseteq N
  <2>1. 1 \in Answers(responses) /\ LastWithin(responses, N)
    BY <1>3, <1>8 DEF Settled, Answers
  <2> QED
    BY <2>1 DEF LastWithin
<1>9. ASSUME NEW N, Settled(N)
      PROVE  /\ subscribed' \subseteq N /\ ack' \subseteq SUBSET N /\ LastWithin(responses', N)
             /\ Answers(responses') = {} => \A p \in 1..Len(routes') : routes'[p].config \in N
  <2>1. subscribed' \subseteq N /\ LastWithin(responses', N)
    BY <1>4, <1>6, <1>9 DEF Settled
  <2>2. ack' \subseteq SUBSET N
    BY <1>7, <1>8, <1>9 DEF Settled
  <2>3. Answers(responses') = {} => \A p \in 1..Len(routes') : routes'[p].config \in N
    BY <1>6, <1>7, <1>8, <1>9
  <2> QED
    BY <2>1, <2>2, <2>3
<1> QED
  BY <1>2, <1>4, <1>5, <1>6, <1>9 DEF Settled

LEMMA NamesNext == TypeInv /\ NamesInv /\ [Next]_vars => NamesInv'
<1> SUFFICES ASSUME TypeInv, NamesInv, [Next]_vars PROVE NamesInv'
  OBVIOUS
<1>1. CASE UNCHANGED <<subscribed, requests, ack, responses, lds, routes, overtaken>>
  BY <1>1 DEF NamesInv, Wanted, Settled
<1>2. CASE MeshChange
  BY <1>1, <1>2 DEF MeshChange, channels, ldsVars, rdsVars
<1>3. ASSUME NEW i \in DOMAIN evChan, Deliver(i) PROVE NamesInv'
  <2>1. UNCHANGED <<subscribed, requests, ack, responses, lds, routes>>
    BY <1>3 DEF Deliver, istiodVars, channels, ldsVars, rdsVars
  <2>2. overtaken \subseteq overtaken'
    BY <1>3, OvertakingType DEF Deliver
  <2> QED
    BY <2>1, <2>2 DEF NamesInv, Wanted, Settled
<1>4. CASE UNCHANGED vars
  BY <1>1, <1>4 DEF vars, istiodVars, channels, ldsVars, rdsVars
<1> QED
  BY <1>2, <1>3, <1>4, NamesPush, NamesRequest, NamesAck, NamesLDS, NamesRDS DEF Next, Receive

\* With nothing on its way, every route in the dictionary is one of the
\* provisioner.
LEMMA StoreAtRest ==
  ASSUME TypeInv, StoreInv, "batches" \notin overtaken, evChan = << >>
  PROVE  \A r \in Range(store) : \E p \in 1..Len(routes) : r = routes[p]
<1>1. store = AsMap(routes)
  <2>1. IsMap(store)
    BY DEF TypeInv
  <2> QED
    BY <2>1, PatchOfNone DEF StoreInv
<1>2. routes \in Seq(AllRoutes)
  BY DEF TypeInv
<1>3. ASSUME NEW r \in Range(store) PROVE \E p \in 1..Len(routes) : r = routes[p]
  <2>1. PICK k \in Ids(routes) : r = Entry(routes, k)
    BY <1>1 DEF Range, AsMap
  <2>2. \E m \in 1..Len(routes) : Entry(routes, k) = routes[m]
    BY <1>2, EntryIsLast
  <2> QED
    BY <2>1, <2>2
<1> QED
  BY <1>3

LEMMA NamesInvImplies ==
  ASSUME TypeInv, StoreInv, NamesInv
  PROVE  RoutesOfListeners
<1> SUFFICES ASSUME AtRest, overtaken = {}, Wanted # {}, NEW r \in Range(store)
             PROVE  r.config \in Wanted
  BY DEF RoutesOfListeners, Wanted
<1>1. requests = << >> /\ responses = << >> /\ evChan = << >>
  BY DEF AtRest
<1>2. Settled(Wanted)
  BY <1>1 DEF NamesInv
<1>3. Answers(responses) = {}
  BY <1>1 DEF Answers
<1>4. PICK p \in 1..Len(routes) : r = routes[p]
  BY <1>1, StoreAtRest
<1> QED
  BY <1>2, <1>3, <1>4 DEF Settled

\* With nothing on its way, the dictionary has routes only of configurations
\* that the listeners name: requests, ACKs and pushes that cross each other
\* never leave istiod with a subscription, or the provisioner with routes, that
\* the listeners translated last did not ask for, as long as nothing overtakes.
THEOREM OnlyRoutesOfListeners == Spec => []RoutesOfListeners
<1>1. Init => NamesInv /\ StoreInv
  BY NamesInit, StoreInit
<1>2. TypeInv /\ NamesInv /\ [Next]_vars => NamesInv'
  BY NamesNext
<1>3. TypeInv /\ StoreInv /\ [Next]_vars => StoreInv'
  BY StoreNext
<1>4. TypeInv /\ StoreInv /\ NamesInv => RoutesOfListeners
  BY NamesInvImplies
<1>5. Spec => []TypeInv
  BY TypesHold
<1> QED
  BY <1>1, <1>2, <1>3, <1>4, <1>5, PTL DEF Spec

-----------------------------------------------------------------------------
(***************************************************************************)
(* Matches: a pattern means what the match means                           *)
(***************************************************************************)

\* Two texts have letters of one alphabet.
LEMMA Alphabet ==
  ASSUME NEW t, NEW v, IsSlice(t), IsSlice(v)
  PROVE  \E S : t \in Seq(S) /\ v \in Seq(S)
<1> DEFINE S == Range(t) \cup Range(v)
<1>1. t \in Seq(Range(t)) /\ v \in Seq(Range(v))
  BY DEF IsSlice
<1>2. Range(t) \subseteq S /\ Range(v) \subseteq S
  OBVIOUS
<1> HIDE DEF S
<1>3. t \in Seq(S) /\ v \in Seq(S)
  BY <1>1, <1>2, SeqMonotonic
<1> QED
  BY <1>3

\* A text is found at a place if its letters are.
LEMMA FoundAt ==
  ASSUME NEW S, NEW t \in Seq(S), NEW v \in Seq(S), NEW i \in Nat, i + Len(t) <= Len(v)
  PROVE  SubSeq(v, i + 1, i + Len(t)) = t <=> \A j \in 1..Len(t) : v[i + j] = t[j]
<1> DEFINE n == Len(t)
           sub == SubSeq(v, i + 1, i + n)
<1>1. n \in Nat /\ Len(v) \in Nat /\ i + n <= Len(v) /\ i + n \in Int /\ i + 1 \in Int
  OBVIOUS
<1>2. \A k \in (i + 1)..(i + n) : v[k] \in S
  <2>1. \A k \in (i + 1)..(i + n) : k \in 1..Len(v)
    BY <1>1
  <2> HIDE DEF n
  <2> QED
    BY <2>1, ElementOfSeq
<1> HIDE DEF n
<1>3. /\ sub \in Seq(S) /\ Len(sub) = IF i + 1 <= i + n THEN (i + n) - (i + 1) + 1 ELSE 0
      /\ \A j \in 1..((i + n) - (i + 1) + 1) : sub[j] = v[(i + 1) + j - 1]
  BY <1>1, <1>2, SubSeqProperties
<1> HIDE DEF sub
<1>4. Len(sub) = n
  BY <1>1, <1>3
<1>5. (i + n) - (i + 1) + 1 = n /\ \A j \in 1..n : (i + 1) + j - 1 = i + j
  BY <1>1
<1>6. \A j \in 1..n : sub[j] = v[i + j]
  BY <1>3, <1>5
<1>7. ASSUME \A j \in 1..n : v[i + j] = t[j] PROVE sub = t
  <2>1. Len(sub) = Len(t) /\ \A j \in 1..Len(sub) : sub[j] = t[j]
    BY <1>4, <1>6, <1>7 DEF n
  <2> QED
    BY <1>3, <2>1, SeqEqual
<1> QED
  BY <1>6, <1>7 DEF n, sub

\* "^text$" matches the text, "^text" what starts with it.
LEMMA FoundWhole ==
  ASSUME NEW S, NEW t \in Seq(S), NEW v \in Seq(S), Len(v) = Len(t)
  PROVE  SubSeq(v, 0 + 1, 0 + Len(t)) = t <=> v = t
<1>1. Len(t) \in Nat /\ 0 \in Nat /\ 0 + Len(t) <= Len(v)
  OBVIOUS
<1>2. SubSeq(v, 0 + 1, 0 + Len(t)) = t <=> \A j \in 1..Len(t) : v[0 + j] = t[j]
  BY <1>1, FoundAt
<1>3. \A j \in 1..Len(t) : 0 + j = j
  BY <1>1
<1>4. (\A j \in 1..Len(t) : v[j] = t[j]) => v = t
  BY SeqEqual
<1> QED
  BY <1>2, <1>3, <1>4

LEMMA FoundFirst ==
  ASSUME NEW S, NEW t \in Seq(S), NEW v \in Seq(S), Len(t) <= Len(v)
  PROVE  SubSeq(v, 0 + 1, 0 + Len(t)) = t <=> IsPrefix(t, v)
<1>1. Len(t) \in Nat /\ 0 + 1 = 1 /\ 0 + Len(t) = Len(t)
  OBVIOUS
<1>2. SubSeq(t, 1, Len(t)) = t
  BY SubSeqFull
<1> QED
  BY <1>1, <1>2 DEF IsPrefix

\* "text$" matches what ends with the text.
LEMMA FoundLast ==
  ASSUME NEW S, NEW t \in Seq(S), NEW v \in Seq(S), Len(t) <= Len(v)
  PROVE  LET i == Len(v) - Len(t)
         IN  SubSeq(v, i + 1, i + Len(t)) = t <=> IsSuffix(t, v)
<1> DEFINE n == Len(t)
           m == Len(v)
           i == m - n
           rt == Reverse(t)
           rv == Reverse(v)
<1>1. n \in Nat /\ m \in Nat /\ i \in Nat /\ i + n <= m
  OBVIOUS
<1>2. SubSeq(v, i + 1, i + n) = t <=> \A j \in 1..n : v[i + j] = t[j]
  BY <1>1, FoundAt
<1>3. /\ rt \in Seq(S) /\ Len(rt) = n /\ \A k \in 1..n : rt[k] = t[(n - k) + 1]
      /\ rv \in Seq(S) /\ Len(rv) = m /\ \A k \in 1..m : rv[k] = v[(m - k) + 1]
  <2>1. /\ \A k \in 1..n : (n - k) + 1 \in 1..n
        /\ \A k \in 1..m : (m - k) + 1 \in 1..m
    BY <1>1
  <2>2. /\ \A k \in 1..n : t[(n - k) + 1] \in S
        /\ \A k \in 1..m : v[(m - k) + 1] \in S
    BY <2>1
  <2>3. rt = [k \in 1..n |-> t[(n - k) + 1]] /\ rv = [k \in 1..m |-> v[(m - k) + 1]]
    BY DEF Reverse
  <2> HIDE DEF n, m, rt, rv
  <2> QED
    BY <1>1, <2>2, <2>3
<1> HIDE DEF n, m, rt, rv
<1>4. IsSuffix(t, v) <=> IsPrefix(rt, rv)
  BY DEF IsSuffix, rt, rv
<1>5. IsPrefix(rt, rv) <=> \A k \in 1..n : rv[k] = rt[k]
  <2>1. IsPrefix(rt, rv) <=> SubSeq(rv, 0 + 1, 0 + Len(rt)) = rt
    <3>1. Len(rt) <= Len(rv)
      BY <1>1, <1>3
    <3> QED
      BY <1>3, <3>1, FoundFirst
  <2>2. SubSeq(rv, 0 + 1, 0 + Len(rt)) = rt <=> \A k \in 1..Len(rt) : rv[0 + k] = rt[k]
    <3>1. 0 \in Nat /\ 0 + Len(rt) <= Len(rv)
      BY <1>1, <1>3
    <3> QED
      BY <1>3, <3>1, FoundAt
  <2>3. \A k \in 1..n : 0 + k = k
    BY <1>1
  <2> QED
    BY <1>3, <2>1, <2>2, <2>3
<1>6. ASSUME \A j \in 1..n : v[i + j] = t[j], NEW k \in 1..n PROVE rv[k] = rt[k]
  <2>1. (n - k) + 1 \in 1..n /\ i + ((n - k) + 1) = (m - k) + 1 /\ k \in 1..m
    BY <1>1
  <2>2. rv[k] = v[(m - k) + 1] /\ rt[k] = t[(n - k) + 1]
    BY <1>3, <2>1
  <2>3. v[i + ((n - k) + 1)] = t[(n - k) + 1]
    BY <1>6, <2>1
  <2> HIDE DEF i
  <2> QED
    BY <2>1, <2>2, <2>3
<1>7. ASSUME \A k \in 1..n : rv[k] = rt[k], NEW j \in 1..n PROVE v[i + j] = t[j]
  <2> DEFINE k == (n - j) + 1
  <2>1. k \in 1..n /\ (n - k) + 1 = j /\ (m - k) + 1 = i + j /\ k \in 1..m
    BY <1>1
  <2> HIDE DEF k, i
  <2>2. rv[k] = v[(m - k) + 1] /\ rt[k] = t[(n - k) + 1]
    BY <1>3, <2>1
  <2>3. rv[k] = rt[k]
    BY <1>7, <2>1
  <2> QED
    BY <2>1, <2>2, <2>3
<1> QED
  BY <1>2, <1>4, <1>5, <1>6, <1>7 DEF n, m

\* The kinds of matches that both sides read in the same way.
Plain == {"exact", "prefix", "suffix", "contains", "present"}

Meant(kind, t, v) ==
  CASE kind = "exact"    -> v = t
    [] kind = "prefix"   -> IsPrefix(t, v)
    [] kind = "suffix"   -> IsSuffix(t, v)
    [] kind = "contains" -> HasText(v, t)
    [] OTHER             -> kind = "present"

\* The pattern of a match, with its text in small letters if case does not matter.
PatternOf(kind, t) ==
  [text |-> IF kind = "present" THEN << >> ELSE t,
   start |-> kind \in {"exact", "prefix"}, end |-> kind \in {"exact", "suffix"}]

\* What PatternFound looks for.
FoundLike(v, t, start, end) ==
  \E i \in 0..(Len(v) - Len(t)) :
    FoundAtPlace(t, v, i) /\ (start => i = 0) /\ (end => i = Len(v) - Len(t))

Found(v, t, start, end) ==
  \E i \in 0..(Len(v) - Len(t)) :
    /\ SubSeq(v, i + 1, i + Len(t)) = t
    /\ start => i = 0
    /\ end => i = Len(v) - Len(t)

\* A text without the letter a.
Without(t, a) == \A i \in DOMAIN t : t[i] # a

\* A pattern without dots is a text.
LEMMA FoundIfDotFree ==
  ASSUME NEW t, NEW v, IsSlice(t), IsSlice(v), Without(t, ".")
  PROVE  \A start, end : FoundLike(v, t, start, end) <=> Found(v, t, start, end)
<1>1. PICK S : t \in Seq(S) /\ v \in Seq(S)
  BY Alphabet
<1>2. Len(t) \in Nat /\ Len(v) \in Nat /\ DOMAIN t = 1..Len(t)
  BY <1>1
<1>3. ASSUME NEW i \in 0..(Len(v) - Len(t))
      PROVE  FoundAtPlace(t, v, i) <=> SubSeq(v, i + 1, i + Len(t)) = t
  <2>1. i \in Nat /\ i + Len(t) <= Len(v)
    BY <1>2
  <2>2. \A r \in Seq(S) : r = t =>
          (SubSeq(v, i + 1, i + Len(r)) = r <=> \A j \in 1..Len(r) : v[i + j] = r[j])
    BY <1>1, <2>1, FoundAt
  <2>3. \A j \in 1..Len(t) : t[j] \in {".", v[i + j]} <=> v[i + j] = t[j]
    BY <1>2 DEF Without
  <2> QED
    BY <1>1, <1>2, <2>2, <2>3 DEF FoundAtPlace
<1> QED
  BY <1>3 DEF FoundLike, Found

\* getStringMatchValue: the pattern of a match is found in just the values that
\* the match means.
LEMMA PatternMeans ==
  ASSUME NEW kind \in Plain, NEW t, NEW v, IsSlice(t), IsSlice(v), Without(t, ".")
  PROVE  PatternFound(PatternOf(kind, t), v) <=> Meant(kind, t, v)
<1> DEFINE p == PatternOf(kind, t)
<1>1. PICK S : t \in Seq(S) /\ v \in Seq(S)
  BY Alphabet
<1>2. Len(t) \in Nat /\ Len(v) \in Nat
  BY <1>1
<1>3. CASE kind = "exact"
  <2>1. PatternFound(p, v) <=> Found(v, t, TRUE, TRUE)
    <3>1. PatternFound(p, v) <=> FoundLike(v, t, TRUE, TRUE)
      BY <1>3 DEF PatternOf, PatternFound, FoundLike
    <3> QED
      BY <3>1, FoundIfDotFree
  <2>2. Meant(kind, t, v) <=> v = t
    BY <1>3 DEF Meant
  <2>3. Found(v, t, TRUE, TRUE) <=> Len(v) = Len(t) /\ SubSeq(v, 0 + 1, 0 + Len(t)) = t
    BY <1>2 DEF Found
  <2>4. Len(v) = Len(t) => (SubSeq(v, 0 + 1, 0 + Len(t)) = t <=> v = t)
    BY <1>1, FoundWhole
  <2> QED
    BY <2>1, <2>2, <2>3, <2>4
<1>4. CASE kind = "prefix"
  <2>1. PatternFound(p, v) <=> Found(v, t, TRUE, FALSE)
    <3>1. PatternFound(p, v) <=> FoundLike(v, t, TRUE, FALSE)
      BY <1>4 DEF PatternOf, PatternFound, FoundLike
    <3> QED
      BY <3>1, FoundIfDotFree
  <2>2. Meant(kind, t, v) <=> IsPrefix(t, v)
    BY <1>4 DEF Meant
  <2>3. Found(v, t, TRUE, FALSE) <=> Len(t) <= Len(v) /\ SubSeq(v, 0 + 1, 0 + Len(t)) = t
    BY <1>2 DEF Found
  <2>4. Len(t) <= Len(v) => (SubSeq(v, 0 + 1, 0 + Len(t)) = t <=> IsPrefix(t, v))
    BY <1>1, FoundFirst
  <2>5. IsPrefix(t, v) => Len(t) <= Len(v)
    BY DEF IsPrefix
  <2> QED
    BY <2>1, <2>2, <2>3, <2>4, <2>5
<1>5. CASE kind = "suffix"
  <2> DEFINE i == Len(v) - Len(t)
  <2>1. PatternFound(p, v) <=> Found(v, t, FALSE, TRUE)
    <3>1. PatternFound(p, v) <=> FoundLike(v, t, FALSE, TRUE)
      BY <1>5 DEF PatternOf, PatternFound, FoundLike
    <3> QED
      BY <3>1, FoundIfDotFree
  <2>2. Meant(kind, t, v) <=> IsSuffix(t, v)
    BY <1>5 DEF Meant
  <2>3. Found(v, t, FALSE, TRUE) <=> Len(t) <= Len(v) /\ SubSeq(v, i + 1, i + Len(t)) = t
    <3>1. i \in 0..i <=> Len(t) <= Len(v)
      BY <1>2
    <3>2. Found(v, t, FALSE, TRUE)
            <=> \E k \in 0..i : SubSeq(v, k + 1, k + Len(t)) = t /\ k = i
      BY DEF Found
    <3> HIDE DEF i
    <3> QED
      BY <3>1, <3>2
  <2>4. Len(t) <= Len(v) => (SubSeq(v, i + 1, i + Len(t)) = t <=> IsSuffix(t, v))
    BY <1>1, FoundLast
  <2>5. IsSuffix(t, v) => Len(t) <= Len(v)
    <3>1. Len(Reverse(t)) = Len(t) /\ Len(Reverse(v)) = Len(v)
      BY <1>2 DEF Reverse
    <3> QED
      BY <3>1 DEF IsSuffix, IsPrefix
  <2> QED
    BY <2>1, <2>2, <2>3, <2>4, <2>5
<1>6. CASE kind = "contains"
  <2>1. PatternFound(p, v) <=> Found(v, t, FALSE, FALSE)
    <3>1. PatternFound(p, v) <=> FoundLike(v, t, FALSE, FALSE)
      BY <1>6 DEF PatternOf, PatternFound, FoundLike
    <3> QED
      BY <3>1, FoundIfDotFree
  <2>2. Meant(kind, t, v) <=> HasText(v, t)
    BY <1>6 DEF Meant
  <2>3. Found(v, t, FALSE, FALSE) <=> HasText(v, t)
    BY DEF Found, HasText
  <2> QED
    BY <2>1, <2>2, <2>3
<1>7. CASE kind = "present"
  <2>1. PatternFound(p, v) <=> Found(v, << >>, FALSE, FALSE)
    <3>1. PatternFound(p, v) <=> FoundLike(v, << >>, FALSE, FALSE)
      BY <1>7 DEF PatternOf, PatternFound, FoundLike
    <3>2. IsSlice(<< >>) /\ Without(<< >>, ".")
      BY DEF IsSlice, Without, Range
    <3> QED
      BY <3>1, <3>2, FoundIfDotFree
  <2>2. Meant(kind, t, v)
    BY <1>7 DEF Meant
  <2>3. Len(<< >>) = 0 /\ 0 \in 0..(Len(v) - 0)
    BY <1>2
  <2>4. SubSeq(v, 0 + 1, 0 + 0) = << >>
    BY SubSeqEmpty
  <2>5. Found(v, << >>, FALSE, FALSE)
    BY <2>3, <2>4 DEF Found
  <2> QED
    BY <2>1, <2>2, <2>5
<1> QED
  BY <1>3, <1>4, <1>5, <1>6, <1>7 DEF Plain

\* A function on the places of a slice is a sequence.
LEMMA Mapped ==
  ASSUME NEW s, IsSlice(s), NEW g, IsMap(g), DOMAIN g = DOMAIN s
  PROVE  g \in Seq(Range(g))
<1>1. Len(s) \in Nat /\ DOMAIN s = 1..Len(s)
  BY DEF IsSlice
<1>2. g \in [1..Len(s) -> Range(g)]
  BY <1>1 DEF Range, IsMap
<1> QED
  BY <1>1, <1>2

\* A text in small letters.
LEMMA LowerText ==
  ASSUME NEW t, IsSlice(t)
  PROVE  /\ IsSlice(Lower(t)) /\ DOMAIN Lower(t) = DOMAIN t
         /\ \A a \in {".", "-", "_"} : \A i \in DOMAIN t : Lower(t)[i] = a <=> t[i] = a
<1>1. IsMap(Lower(t)) /\ DOMAIN Lower(t) = DOMAIN t
  BY DEF Lower, IsMap
<1>2. IsSlice(Lower(t))
  BY <1>1, Mapped DEF IsSlice
<1>3. \A a \in {".", "-", "_"} : \A i \in DOMAIN t : Lower(t)[i] = a <=> t[i] = a
  BY LettersAssumption DEF Lower
<1> QED
  BY <1>1, <1>2, <1>3

LEMMA FoldedText ==
  ASSUME NEW t, IsSlice(t), NEW b \in BOOLEAN
  PROVE  IsSlice(Folded(b, t)) /\ (Without(t, ".") => Without(Folded(b, t), "."))
<1>1. IsSlice(Lower(t)) /\ (Without(t, ".") => Without(Lower(t), "."))
  BY LowerText DEF Without
<1> QED
  BY <1>1 DEF Folded

\* An expression that is not negated holds if a value is one that its match means.
LEMMA VarMeans ==
  ASSUME NEW m, NEW q, NEW x, NEW b \in BOOLEAN, NEW vs,
         IsSlice(m.text), Without(m.text, "."), m.kind \in Plain, m.nocase = b,
         VarValues(x.var, q) = vs, x.negated = FALSE, x.nocase = b, x.pattern = Pattern(m),
         \A v \in vs : IsSlice(v)
  PROVE  VarHolds(x, q) <=> EnvoyMatches(m, vs)
<1> DEFINE p == [Pattern(m) EXCEPT !.text = Folded(b, @)]
           t == Folded(b, m.text)
<1>1. VarHolds(x, q) <=> FALSE # (\E v \in vs : PatternFound(p, Folded(b, v)))
  BY DEF VarHolds
<1>2. EnvoyMatches(m, vs) <=> \E v \in vs : Meant(m.kind, t, Folded(b, v))
  BY DEF EnvoyMatches, Meant, Plain
<1>3. ASSUME NEW v \in vs
      PROVE  PatternFound(p, Folded(b, v)) <=> Meant(m.kind, t, Folded(b, v))
  <2>1. IsSlice(t) /\ Without(t, ".") /\ IsSlice(Folded(b, v))
    BY FoldedText
  <2>2. Folded(b, << >>) = << >>
    <3>1. Lower(<< >>) = << >>
      BY DEF Lower
    <3> QED
      BY <3>1 DEF Folded
  <2>3. p = PatternOf(m.kind, t)
    BY <2>2 DEF Pattern, PatternOf
  <2> HIDE DEF p, t
  <2> QED
    BY <2>1, <2>3, PatternMeans
<1> HIDE DEF p, t
<1>4. (FALSE # (\E v \in vs : PatternFound(p, Folded(b, v))))
        <=> \E v \in vs : PatternFound(p, Folded(b, v))
  OBVIOUS
<1> QED
  BY <1>1, <1>2, <1>3, <1>4

\* What QueriesAssumption says of a request.
IsQuery(q) ==
  /\ \A n \in DOMAIN q.headers :
       IsSlice(n) /\ Without(n, "_") /\ \A x \in q.headers[n] : IsSlice(x)
  /\ \A n \in DOMAIN q.params : \A x \in q.params[n] : IsSlice(x)

LEMMA SliceDomain ==
  ASSUME NEW s, IsSlice(s) PROVE Len(s) \in Nat /\ DOMAIN s = 1..Len(s)
  BY DEF IsSlice

LEMMA SameInterval ==
  ASSUME NEW a \in Nat, NEW b \in Nat, 1..a = 1..b PROVE a = b
<1>1. \A i \in Int : i \in 1..a <=> i \in 1..b
  OBVIOUS
<1>2. a >= 1 => a <= b
  BY <1>1
<1>3. b >= 1 => b <= a
  BY <1>1
<1> QED
  BY <1>2, <1>3

\* Names without "_" are told apart with "_" for "-".
LEMMA UnderscoredOnce ==
  ASSUME NEW n, NEW k, IsSlice(n), IsSlice(k), Underscored(n) = Underscored(k),
         Without(n, "_"), Without(k, "_")
  PROVE  n = k
<1>1. PICK S : n \in Seq(S) /\ k \in Seq(S)
  BY Alphabet
<1>2. DOMAIN Underscored(n) = DOMAIN n /\ DOMAIN Underscored(k) = DOMAIN k
  BY DEF Underscored
<1>3. DOMAIN n = DOMAIN k
  BY <1>2
<1>4. ASSUME NEW i \in DOMAIN n PROVE n[i] = k[i]
  <2>1. n[i] # "_" /\ k[i] # "_"
    BY <1>3 DEF Without
  <2>2. /\ Underscored(n)[i] = IF n[i] = "-" THEN "_" ELSE n[i]
        /\ Underscored(k)[i] = IF k[i] = "-" THEN "_" ELSE k[i]
    BY <1>3 DEF Underscored
  <2> QED
    BY <2>1, <2>2
<1>5. DOMAIN n = 1..Len(n) /\ DOMAIN k = 1..Len(k) /\ Len(n) \in Nat /\ Len(k) \in Nat
  BY SliceDomain
<1>6. Len(n) = Len(k)
  BY <1>3, <1>5, SameInterval
<1> QED
  BY <1>1, <1>4, <1>5, <1>6, SeqEqual

\* The names of pseudo headers are small letters.
LEMMA LowerPseudo == Lower(Method) = Method /\ Lower(Authority) = Authority
  BY LettersAssumption DEF Lower, Method, Authority

\* getHeadersMatchVars: the variable for a header has the values of its field.
LEMMA NameMeans ==
  ASSUME NEW q, IsQuery(q), NEW name, IsSlice(name), FaithfulName(name)
  PROVE  VarValues(Variable(name), q) = Values(q.headers, Lower(name))
<1>1. CASE name = Method
  <2>1. Variable(name) = <<"request_method">>
    BY <1>1 DEF Variable, Method, Authority
  <2>2. VarValues(<<"request_method">>, q) = Values(q.headers, Method)
    BY DEF VarValues
  <2> QED
    BY <1>1, <2>1, <2>2, LowerPseudo
<1>2. CASE name = Authority
  <2>1. Variable(name) = <<"http", Host>>
    BY <1>2 DEF Variable, Method, Authority
  <2>2. VarValues(<<"http", Host>>, q) = FieldValues(q, Host)
    BY DEF VarValues
  <2>3. FieldValues(q, Host) = Values(q.headers, Authority)
    BY DEF FieldValues
  <2> QED
    BY <1>2, <2>1, <2>2, <2>3, LowerPseudo
<1>3. CASE name \notin {Method, Authority}
  <2> DEFINE l == Lower(name)
             K == {k \in DOMAIN q.headers \ Pseudo : Underscored(k) = Underscored(l)}
  <2>1. l \notin Pseudo \cup {Host} /\ Without(name, "_")
    BY <1>3 DEF FaithfulName, Without
  <2>2. IsSlice(l) /\ Without(l, "_")
    BY <2>1, LowerText DEF Without
  <2> HIDE DEF l
  <2>3. Variable(name) = <<"http", Underscored(l)>>
    BY <1>3 DEF Variable, l
  <2>4. VarValues(<<"http", Underscored(l)>>, q) = FieldValues(q, Underscored(l))
    BY DEF VarValues
  <2>5. Underscored(l) # Host
    <3>1. IsSlice(Host) /\ Without(Host, "_") /\ Underscored(Host) = Host
      <4>1. Len(Host) = 1 /\ DOMAIN Host = {1} /\ Host[1] = "host" /\ Host \in Seq({"host"})
        BY DEF Host
      <4>2. Range(Host) = {"host"}
        BY <4>1 DEF Range
      <4>3. Underscored(Host) = Host
        <5>1. IsMap(Host)
          BY <4>1 DEF IsMap
        <5>2. IsMap(Underscored(Host)) /\ DOMAIN Underscored(Host) = {1}
          BY <4>1 DEF Underscored, IsMap
        <5>3. Underscored(Host)[1] = "host"
          BY <4>1 DEF Underscored
        <5> QED
          BY <4>1, <5>1, <5>2, <5>3 DEF IsMap
      <4> QED
        BY <4>1, <4>2, <4>3 DEF IsSlice, Without
    <3> QED
      BY <2>1, <2>2, <3>1, UnderscoredOnce
  <2>6. K = DOMAIN q.headers \cap {l}
    BY <2>1, <2>2, UnderscoredOnce DEF IsQuery
  <2>7. FieldValues(q, Underscored(l)) = UNION {q.headers[k] : k \in K}
    BY <2>5 DEF FieldValues
  <2> HIDE DEF K
  <2>8. UNION {q.headers[k] : k \in K} = Values(q.headers, l)
    BY <2>6 DEF Values
  <2> QED
    BY <2>3, <2>4, <2>7, <2>8 DEF l
<1> QED
  BY <1>1, <1>2, <1>3

\* getHeadersMatchVars and getParametersMatchVars: the variable of a match holds
\* for just the requests that the match is about.
LEMMA HeaderMeans ==
  ASSUME NEW m, NEW q, IsQuery(q), IsSlice(m.text), Without(m.text, "."), m.kind \in Plain,
         m.invert = FALSE, m.nocase = FALSE, IsSlice(m.name), FaithfulName(m.name)
  PROVE  VarHolds(HeaderVar(m), q) <=> EnvoyMatches(m, Values(q.headers, Lower(m.name)))
<1> DEFINE x == HeaderVar(m)
           vs == Values(q.headers, Lower(m.name))
<1>1. x.var = Variable(m.name) /\ x.negated = FALSE /\ x.nocase = FALSE /\ x.pattern = Pattern(m)
  BY DEF HeaderVar
<1>2. VarValues(Variable(m.name), q) = vs
  BY NameMeans
<1>3. \A v \in vs : IsSlice(v)
  BY DEF IsQuery, Values
<1> HIDE DEF x, vs
<1>4. VarHolds(x, q) <=> EnvoyMatches(m, vs)
  BY <1>1, <1>2, <1>3, VarMeans
<1> QED
  BY <1>4 DEF x, vs

LEMMA ParamMeans ==
  ASSUME NEW m, NEW q, IsQuery(q), IsSlice(m.text), Without(m.text, "."),
         m.kind \in Plain \ {"present"}, m.nocase \in BOOLEAN
  PROVE  VarHolds(ParamVar(m), q) <=> EnvoyMatches(m, Values(q.params, m.name))
<1> DEFINE x == ParamVar(m)
           vs == Values(q.params, m.name)
<1>1. m.kind \notin {"present", "unset"}
  BY DEF Plain
<1>2. x.var = <<"arg", m.name>> /\ x.negated = FALSE /\ x.pattern = Pattern(m)
  BY <1>1 DEF ParamVar
<1>3. x.nocase = m.nocase
  BY <1>1 DEF ParamVar
<1>4. VarValues(<<"arg", m.name>>, q) = vs
  BY DEF VarValues
<1>5. \A v \in vs : IsSlice(v)
  BY DEF IsQuery, Values
<1> HIDE DEF x, vs
<1>6. VarHolds(x, q) <=> EnvoyMatches(m, vs)
  BY <1>2, <1>3, <1>4, <1>5, VarMeans
<1> QED
  BY <1>6 DEF x, vs

-----------------------------------------------------------------------------
(***************************************************************************)
(* Routes: a translated route is for the requests, and leads to the        *)
(* clusters, of the original                                               *)
(***************************************************************************)

\* A route that is translated.
Usable(r) == WellFormed(r) /\ ~Ignored(r) /\ ~Untranslatable(r)

\* Its matches, if both sides read them in the same way.
LEMMA FaithfulMatches ==
  ASSUME NEW r, Usable(r), Faithful(r)
  PROVE  /\ \A m \in Range(r.headers) :
              /\ IsSlice(m.text) /\ Without(m.text, ".") /\ m.kind \in Plain
              /\ m.invert = FALSE /\ m.nocase = FALSE
              /\ IsSlice(m.name) /\ FaithfulName(m.name)
         /\ \A m \in Range(r.params) :
              /\ IsSlice(m.text) /\ Without(m.text, ".") /\ m.kind \in Plain \ {"present"}
              /\ m.nocase \in BOOLEAN
<1>1. WellFormed(r) /\ ~Ignored(r) /\ ~Untranslatable(r)
  BY DEF Usable
<1>2. /\ \A m \in Range(r.headers) : m.kind \in Supported
      /\ \A m \in Range(r.params) : m.kind \in Supported \cup {"unset"}
  BY <1>1 DEF Untranslatable, Range
<1>3. Supported = Plain \cup {"regex"}
  BY DEF Supported, Plain
<1>4. ASSUME NEW m \in Range(r.headers)
      PROVE  /\ IsSlice(m.text) /\ Without(m.text, ".") /\ m.kind \in Plain
             /\ m.invert = FALSE /\ m.nocase = FALSE
             /\ IsSlice(m.name) /\ FaithfulName(m.name)
  <2>1. IsSlice(m.text) /\ IsSlice(m.name) /\ m.invert \in BOOLEAN /\ m.nocase \in BOOLEAN
    BY <1>1 DEF WellFormed
  <2>2. m.kind # "regex" /\ ~m.invert /\ ~m.nocase /\ FaithfulName(m.name)
    BY DEF Faithful
  <2>3. Without(m.text, ".")
    BY DEF Faithful, Without
  <2>4. m.kind \in Plain
    BY <1>2, <1>3, <2>2
  <2>5. m.invert = FALSE /\ m.nocase = FALSE
    BY <2>1, <2>2
  <2> QED
    BY <2>1, <2>2, <2>3, <2>4, <2>5
<1>5. ASSUME NEW m \in Range(r.params)
      PROVE  /\ IsSlice(m.text) /\ Without(m.text, ".") /\ m.kind \in Plain \ {"present"}
             /\ m.nocase \in BOOLEAN
  <2>1. IsSlice(m.text) /\ m.nocase \in BOOLEAN
    BY <1>1 DEF WellFormed
  <2>2. m.kind \notin {"regex", "present", "unset"}
    BY DEF Faithful
  <2>3. Without(m.text, ".")
    BY DEF Faithful, Without
  <2>4. m.kind \in Plain \ {"present"}
    BY <1>2, <1>3, <2>2
  <2> QED
    BY <2>1, <2>3, <2>4
<1> QED
  BY <1>4, <1>5

\* The conditions of a route.
LEMMA VarsRange ==
  ASSUME NEW r, Usable(r)
  PROVE  Range(Vars(r)) = {HeaderVar(m) : m \in Range(r.headers)}
                            \cup {ParamVar(m) : m \in Range(r.params)}
<1>0. IsSlice(r.headers) /\ IsSlice(r.params)
  BY DEF Usable, WellFormed
<1> DEFINE H == {HeaderVar(m) : m \in Range(r.headers)}
           P == {ParamVar(m) : m \in Range(r.params)}
           a == [i \in DOMAIN r.headers |-> HeaderVar(r.headers[i])]
           b == [i \in DOMAIN r.params |-> ParamVar(r.params[i])]
<1>1. a \in Seq(H) /\ Range(a) = H
  <2>1. Range(a) = H /\ DOMAIN a = DOMAIN r.headers /\ IsMap(a)
    BY DEF Range, IsMap
  <2> HIDE DEF a, H
  <2> QED
    BY <1>0, <2>1, Mapped
<1>2. b \in Seq(P) /\ Range(b) = P
  <2>1. Range(b) = P /\ DOMAIN b = DOMAIN r.params /\ IsMap(b)
    BY DEF Range, IsMap
  <2> HIDE DEF b, P
  <2> QED
    BY <1>0, <2>1, Mapped
<1>3. Vars(r) = a \o b
  BY DEF Vars
<1> HIDE DEF H, P, a, b
<1>4. a \in Seq(H \cup P) /\ b \in Seq(H \cup P)
  BY <1>1, <1>2, SeqMonotonic
<1>5. Range(Vars(r)) = H \cup P
  BY <1>1, <1>2, <1>3, <1>4, RangeOfTwo
<1> QED
  BY <1>5 DEF H, P

LEMMA VarsMean ==
  ASSUME NEW r, NEW q, Usable(r), Faithful(r), IsQuery(q)
  PROVE  (\A x \in Range(Vars(r)) : VarHolds(x, q)) <=>
           /\ \A i \in DOMAIN r.headers :
                EnvoyMatches(r.headers[i], Values(q.headers, Lower(r.headers[i].name)))
           /\ \A i \in DOMAIN r.params :
                EnvoyMatches(r.params[i], Values(q.params, r.params[i].name))
<1>1. \A m \in Range(r.headers) :
        VarHolds(HeaderVar(m), q) <=> EnvoyMatches(m, Values(q.headers, Lower(m.name)))
  BY FaithfulMatches, HeaderMeans
<1>2. \A m \in Range(r.params) :
        VarHolds(ParamVar(m), q) <=> EnvoyMatches(m, Values(q.params, m.name))
  BY FaithfulMatches, ParamMeans
<1>3. (\A x \in Range(Vars(r)) : VarHolds(x, q)) <=>
        /\ \A m \in Range(r.headers) : VarHolds(HeaderVar(m), q)
        /\ \A m \in Range(r.params) : VarHolds(ParamVar(m), q)
  BY VarsRange
<1>4. /\ (\A i \in DOMAIN r.headers :
             EnvoyMatches(r.headers[i], Values(q.headers, Lower(r.headers[i].name))))
           <=> \A m \in Range(r.headers) : EnvoyMatches(m, Values(q.headers, Lower(m.name)))
      /\ (\A i \in DOMAIN r.params :
             EnvoyMatches(r.params[i], Values(q.params, r.params[i].name)))
           <=> \A m \in Range(r.params) : EnvoyMatches(m, Values(q.params, m.name))
  BY DEF Range
<1> QED
  BY <1>1, <1>2, <1>3, <1>4

\* TranslateRouteConfiguration: a translated route is for the requests to its
\* hosts that the original is for.
LEMMA RouteMeans ==
  ASSUME NEW c, NEW v, NEW r, NEW q, Usable(r), IsQuery(q),
         HostsMatch(Hosts(v), q) => Faithful(r)
  PROVE  ApisixRouteMatches(Translate(c, v, r, << >>), q) <=>
           HostsMatch(Hosts(v), q) /\ EnvoyRouteMatches(r, q)
<1> DEFINE t == Translate(c, v, r, << >>)
<1>1. t.hosts = Hosts(v) /\ t.uri = Uri(r.path) /\ t.vars = Vars(r)
  BY DEF Translate
<1>2. t.uri.text = r.path.text /\ t.uri.any = (r.path.kind = "prefix")
  <2>1. Uri(r.path).text = r.path.text
    BY DEF Uri
  <2>2. Uri(r.path).any = (r.path.kind = "prefix")
    BY Zenon DEF Uri
  <2> HIDE DEF t
  <2> QED
    BY <1>1, <2>1, <2>2, Zenon
<1> HIDE DEF t
<1>3. (\A i \in DOMAIN t.vars : VarHolds(t.vars[i], q)) <=> \A x \in Range(Vars(r)) : VarHolds(x, q)
  BY <1>1 DEF Range
<1> DEFINE A == \A i \in DOMAIN t.vars : VarHolds(t.vars[i], q)
           B == /\ \A i \in DOMAIN r.headers :
                     EnvoyMatches(r.headers[i], Values(q.headers, Lower(r.headers[i].name)))
                /\ \A i \in DOMAIN r.params :
                     EnvoyMatches(r.params[i], Values(q.params, r.params[i].name))
<1>4. Faithful(r) => (A <=> B)
  BY <1>3, VarsMean
<1>5. ApisixRouteMatches(t, q) <=>
        /\ HostsMatch(t.hosts, q)
        /\ IF t.uri.any THEN IsPrefix(t.uri.text, q.path) ELSE t.uri.text = q.path
        /\ A
  BY DEF ApisixRouteMatches
<1>6. EnvoyRouteMatches(r, q) <=>
        /\ IF r.path.kind = "prefix" THEN IsPrefix(r.path.text, q.path) ELSE r.path.text = q.path
        /\ B
  BY DEF EnvoyRouteMatches
<1> HIDE DEF A, B
<1> QED
  BY <1>1, <1>2, <1>4, <1>5, <1>6 DEF t

\* getClusterName and translateRouteWeightedClusters: it leads to the clusters,
\* with the weights, that the original leads to.
LEMMA TargetsKept ==
  ASSUME NEW c, NEW v, NEW r, Usable(r)
  PROVE  ApisixTargets(Translate(c, v, r, << >>)) = EnvoyTargets(r)
<1> DEFINE t == Translate(c, v, r, << >>)
           n == Len(r.clusters)
<1>1. t.upstream = ClusterName(r) /\ t.plugins = Plugins(r, << >>)
  BY DEF Translate
<1>2. r.action \in {"cluster", "weighted"} /\ IsSlice(r.clusters)
  BY DEF Usable, Untranslatable, WellFormed
<1>3. n \in Nat /\ DOMAIN r.clusters = 1..n
  BY <1>2 DEF IsSlice
<1>4. DOMAIN FaultPlugin(r) \subseteq {"fault-injection"}
  BY DEF FaultPlugin
<1> DEFINE base == Override(Override(<< >>, FaultPlugin(r)), [k \in {"prometheus"} |-> "prefer_name"])
<1>5. "traffic-split" \notin DOMAIN base
  BY <1>4 DEF Override
<1>6. t.plugins = Override(base, SplitPlugin(r))
  BY <1>1 DEF Plugins
<1> HIDE DEF base, t
<1>7. CASE r.action = "cluster"
  <2>1. n = 1
    BY <1>7 DEF Usable, WellFormed
  <2>2. SplitPlugin(r) = << >>
    BY <1>7 DEF SplitPlugin
  <2>3. DOMAIN << >> = {}
    OBVIOUS
  <2>4. "traffic-split" \notin DOMAIN t.plugins
    BY <1>5, <1>6, <2>2, <2>3 DEF Override
  <2>5. ClusterName(r) = r.clusters[1].name /\ Head(r.clusters) = r.clusters[1]
    BY <1>2, <2>1 DEF ClusterName, Last, IsSlice
  <2>6. ApisixTargets(t) = Shares(<<r.clusters[1].name>>, <<1>>)
    BY <1>1, <2>4, <2>5 DEF ApisixTargets
  <2>7. EnvoyTargets(r) = Shares(<<r.clusters[1].name>>, <<1>>)
    BY <1>7, <2>5 DEF EnvoyTargets
  <2> QED
    BY <2>6, <2>7 DEF t
<1>8. CASE r.action = "weighted"
  <2> DEFINE split == t.plugins["traffic-split"]
             names == [i \in DOMAIN split |-> IF split[i].upstream = << >> THEN t.upstream
                                              ELSE split[i].upstream[1]]
             weights == [i \in DOMAIN split |-> split[i].weight]
  <2>1. SplitPlugin(r) = [k \in {"traffic-split"} |->
          [i \in DOMAIN r.clusters |->
             [upstream |-> IF i = Len(r.clusters) THEN << >> ELSE <<r.clusters[i].name>>,
              weight |-> r.clusters[i].weight]]]
    BY <1>8 DEF SplitPlugin
  <2>2. "traffic-split" \in DOMAIN t.plugins /\ split = SplitPlugin(r)["traffic-split"]
    BY <1>6, <2>1 DEF Override
  <2>3. split = [i \in 1..n |->
                   [upstream |-> IF i = n THEN << >> ELSE <<r.clusters[i].name>>,
                    weight |-> r.clusters[i].weight]]
    BY <1>3, <2>1, <2>2
  <2>4. DOMAIN split = 1..n
    BY <2>3
  <2>5. ASSUME NEW i \in 1..n
        PROVE  /\ split[i].weight = r.clusters[i].weight
               /\ split[i].upstream = IF i = n THEN << >> ELSE <<r.clusters[i].name>>
    BY <2>3
  <2> HIDE DEF split
  <2>6. n # 0 /\ t.upstream = r.clusters[n].name
    BY <1>1, <1>2, <1>3, <1>8 DEF ClusterName, Last, IsSlice, Usable, WellFormed
  <2>7. ASSUME NEW i \in 1..n PROVE names[i] = r.clusters[i].name
    <3>1. CASE i = n
      BY <2>4, <2>5, <2>6, <3>1
    <3>2. CASE i # n
      <4>1. split[i].upstream = <<r.clusters[i].name>>
        BY <2>5, <3>2
      <4>2. <<r.clusters[i].name>> # << >> /\ <<r.clusters[i].name>>[1] = r.clusters[i].name
        OBVIOUS
      <4> QED
        BY <2>4, <4>1, <4>2
    <3> QED
      BY <3>1, <3>2
  <2>8. names = [i \in DOMAIN r.clusters |-> r.clusters[i].name]
    <3>1. IsMap(names) /\ DOMAIN names = 1..n
      BY <2>4 DEF IsMap
    <3> HIDE DEF names
    <3> QED
      BY <1>3, <2>7, <3>1 DEF IsMap
  <2>9. weights = [i \in DOMAIN r.clusters |-> r.clusters[i].weight]
    BY <1>3, <2>4, <2>5
  <2>10. ApisixTargets(t) = Shares(names, weights)
    BY <2>2 DEF ApisixTargets, split
  <2>11. EnvoyTargets(r) = Shares([i \in DOMAIN r.clusters |-> r.clusters[i].name],
                                  [i \in DOMAIN r.clusters |-> r.clusters[i].weight])
    BY <1>8 DEF EnvoyTargets
  <2> QED
    BY <2>8, <2>9, <2>10, <2>11 DEF t
<1> QED
  BY <1>2, <1>7, <1>8

-----------------------------------------------------------------------------
(***************************************************************************)
(* The routes there are                                                    *)
(***************************************************************************)

\* r is a route of the virtual host v of c that is translated.
IsSource(C, c, v, r) ==
  c \in C /\ ~Fails(c) /\ v \in Range(c.vhosts) /\ r \in Range(v.routes) /\ ~Ignored(r)

LEMMA VirtualHostRoutes ==
  ASSUME NEW c \in AllConfigs, NEW v \in Range(c.vhosts)
  PROVE  Range(TranslateVirtualHost(c, v, << >>))
           = {Translate(c, v, r, << >>) : r \in {s \in Range(v.routes) : ~Ignored(s)}}
<1> DEFINE places == {j \in DOMAIN v.routes : ~Ignored(v.routes[j])}
           kept == Pick(v.routes, places)
           R == {s \in Range(v.routes) : ~Ignored(s)}
<1>1. v.routes \in Seq(Range(v.routes))
  <2>1. PICK i \in DOMAIN c.vhosts : v = c.vhosts[i]
    BY DEF Range
  <2> QED
    BY <2>1, SlicesAssumption DEF IsSlice
<1>2. places \in SUBSET (1..Len(v.routes)) /\ DOMAIN v.routes = 1..Len(v.routes)
  BY <1>1
<1>3. R = {v.routes[j] : j \in places}
  BY DEF Range
<1>4. kept \in Seq(Range(v.routes)) /\ PickedFrom(kept, v.routes, places)
  <2> HIDE DEF places
  <2> QED
    BY <1>1, <1>2, PickedPlaces
<1>5. TranslateVirtualHost(c, v, << >>)
        = [j \in DOMAIN kept |-> Translate(c, v, kept[j], << >>)]
  BY DEF TranslateVirtualHost
<1> HIDE DEF kept, places, R
<1>6. DOMAIN kept = 1..Len(kept)
  BY <1>4
<1>7. R = {kept[p] : p \in 1..Len(kept)}
  <2>1. PICK w \in [1..Len(kept) -> places] :
          /\ \A p \in 1..Len(kept) : kept[p] = v.routes[w[p]]
          /\ \A i \in places : \E p \in 1..Len(kept) : w[p] = i
    BY <1>4 DEF PickedFrom
  <2>2. \A p \in 1..Len(kept) : kept[p] \in R
    BY <1>3, <2>1
  <2>3. \A r \in R : \E p \in 1..Len(kept) : r = kept[p]
    BY <1>3, <2>1
  <2> QED
    BY <2>2, <2>3
<1>8. Range(TranslateVirtualHost(c, v, << >>)) = {Translate(c, v, r, << >>) : r \in R}
  BY <1>5, <1>6, <1>7 DEF Range
<1> QED
  BY <1>8 DEF R

LEMMA ConfigRoutes ==
  ASSUME NEW c \in AllConfigs, NEW t
  PROVE  t \in Range(Translated[c]) <=>
           \E v, r : IsSource({c}, c, v, r) /\ t = Translate(c, v, r, << >>)
<1> DEFINE q == [i \in DOMAIN c.vhosts |-> TranslateVirtualHost(c, c.vhosts[i], << >>)]
           S == Translations(c)
<1>1. c.vhosts \in Seq(Range(c.vhosts))
  BY SlicesAssumption DEF IsSlice
<1>2. Len(c.vhosts) \in Nat /\ DOMAIN c.vhosts = 1..Len(c.vhosts)
  BY <1>1
<1>3. q \in Seq(Seq(S)) /\ Len(q) = Len(c.vhosts)
  <2>1. \A i \in 1..Len(c.vhosts) : TranslateVirtualHost(c, c.vhosts[i], << >>) \in Seq(S)
    BY <1>2, VirtualHostType
  <2> HIDE DEF S
  <2> QED
    BY <1>2, <2>1
<1>4. \A i \in 1..Len(c.vhosts) : q[i] = TranslateVirtualHost(c, c.vhosts[i], << >>)
  BY <1>2
<1>5. Translated[c] = IF Fails(c) THEN << >> ELSE FlattenSeq(q)
  BY DEF Translated, TranslateRouteConfiguration
<1> HIDE DEF q, S
<1>6. CASE Fails(c)
  <2>1. Range(Translated[c]) = {}
    BY <1>5, <1>6 DEF Range
  <2> QED
    BY <1>6, <2>1 DEF IsSource
<1>7. CASE ~Fails(c)
  <2>1. Range(Translated[c]) = UNION {Range(q[i]) : i \in 1..Len(q)}
    BY <1>3, <1>5, <1>7, Flattened
  <2>2. t \in Range(Translated[c]) <=> \E i \in 1..Len(q) : t \in Range(q[i])
    BY <2>1
  <2>3. Range(c.vhosts) = {c.vhosts[i] : i \in 1..Len(c.vhosts)}
    BY <1>2 DEF Range
  <2>4. t \in Range(Translated[c])
          <=> \E v \in Range(c.vhosts) : t \in Range(TranslateVirtualHost(c, v, << >>))
    BY <1>3, <1>4, <2>2, <2>3
  <2>5. \A v \in Range(c.vhosts) : t \in Range(TranslateVirtualHost(c, v, << >>))
          <=> \E r : r \in Range(v.routes) /\ ~Ignored(r) /\ t = Translate(c, v, r, << >>)
    BY VirtualHostRoutes
  <2> QED
    BY <1>7, <2>4, <2>5 DEF IsSource
<1> QED
  BY <1>6, <1>7

\* The routes are the translations of the routes of all configurations that can
\* be translated.
LEMMA AllNewRoutes ==
  ASSUME NEW cs \in Seq(AllConfigs), NEW t
  PROVE  t \in Range(NewRoutes(cs)) <=>
           \E c, v, r : IsSource(Range(cs), c, v, r) /\ t = Translate(c, v, r, << >>)
<1> DEFINE q == [i \in DOMAIN cs |-> Translated[cs[i]]]
<1>1. Len(cs) \in Nat /\ DOMAIN cs = 1..Len(cs) /\ \A i \in 1..Len(cs) : cs[i] \in AllConfigs
  OBVIOUS
<1>2. \A i \in 1..Len(cs) : Translated[cs[i]] \in Seq(AllRoutes)
  BY <1>1, TranslatedType
<1>3. q \in Seq(Seq(AllRoutes)) /\ Len(q) = Len(cs)
  BY <1>1, <1>2
<1>4. \A i \in 1..Len(cs) : q[i] = Translated[cs[i]]
  BY <1>1
<1>5. NewRoutes(cs) = FlattenSeq(q) \o << >>
  BY DEF NewRoutes, ProcessStaticRouteConfigurations
<1> HIDE DEF q
<1>6. /\ FlattenSeq(q) \in Seq(AllRoutes)
      /\ Range(FlattenSeq(q)) = UNION {Range(q[i]) : i \in 1..Len(q)}
  BY <1>3, Flattened
<1>7. Range(NewRoutes(cs)) = UNION {Range(q[i]) : i \in 1..Len(q)}
  BY <1>5, <1>6, ConcatEmptySeq
<1>8. t \in Range(NewRoutes(cs)) <=> \E i \in 1..Len(q) : t \in Range(q[i])
  BY <1>7
<1>9. Range(cs) = {cs[i] : i \in 1..Len(cs)}
  BY <1>1 DEF Range
<1>10. t \in Range(NewRoutes(cs)) <=> \E c \in Range(cs) : t \in Range(Translated[c])
  BY <1>3, <1>4, <1>8, <1>9
<1>11. Range(cs) \subseteq AllConfigs
  BY <1>1, <1>9
<1>12. \A c \in Range(cs) : t \in Range(Translated[c])
         <=> \E v, r : IsSource({c}, c, v, r) /\ t = Translate(c, v, r, << >>)
  BY <1>11, ConfigRoutes
<1> QED
  BY <1>10, <1>12 DEF IsSource

-----------------------------------------------------------------------------
(***************************************************************************)
(* Requests                                                                *)
(***************************************************************************)

\* The routes of a slice are those of the configurations C.
Sourced(rs, C) ==
  \A t : t \in Range(rs) <=>
           \E c, v, r : IsSource(C, c, v, r) /\ t = Translate(c, v, r, << >>)

\* A set of configurations as there is in one state of the mesh.
OneState(C) == C \subseteq AllConfigs /\ \A c, d \in C : c.name = d.name => c = d

LEMMA SourceUsable ==
  ASSUME NEW C, OneState(C), NEW c, NEW v, NEW r, IsSource(C, c, v, r)
  PROVE  Usable(r)
<1>1. c \in AllConfigs /\ ~Fails(c) /\ ~Ignored(r)
  BY DEF IsSource, OneState
<1>2. v \in Range(c.vhosts) /\ r \in Range(v.routes)
  BY DEF IsSource
<1>3. PICK i \in DOMAIN c.vhosts : v = c.vhosts[i]
  BY <1>2 DEF Range
<1>4. PICK j \in DOMAIN c.vhosts[i].routes : r = c.vhosts[i].routes[j]
  BY <1>2, <1>3 DEF Range
<1>5. ~Untranslatable(r)
  BY <1>1, <1>3, <1>4 DEF Fails
<1>6. WellFormed(r)
  BY <1>1, <1>2, ConfigsAssumption
<1> QED
  BY <1>1, <1>5, <1>6 DEF Usable

\* RouteId: routes with one id are of one virtual host, and for the same
\* requests with the same priority.
LEMMA SameId ==
  ASSUME NEW C, OneState(C), NEW c, NEW v, NEW r, IsSource(C, c, v, r),
         NEW d, NEW w, NEW s, IsSource(C, d, w, s), NEW q,
         Translate(c, v, r, << >>).id = Translate(d, w, s, << >>).id
  PROVE  /\ c = d /\ v = w
         /\ Translate(c, v, r, << >>).priority = Translate(d, w, s, << >>).priority
         /\ ApisixRouteMatches(Translate(c, v, r, << >>), q)
              <=> ApisixRouteMatches(Translate(d, w, s, << >>), q)
<1> DEFINE t == Translate(c, v, r, << >>)
           u == Translate(d, w, s, << >>)
<1>1. t.id = RouteId(c, v, r) /\ u.id = RouteId(d, w, s)
  BY DEF Translate
<1>2. /\ r.name = s.name /\ v.name = w.name /\ c.name = d.name
      /\ Uri(r.path) = Uri(s.path) /\ Range(Vars(r)) = Range(Vars(s))
  <2>1. RouteId(c, v, r) = RouteId(d, w, s)
    BY <1>1
  <2>2. <<r.name, v.name, c.name, Uri(r.path), r.sensitive, Range(Vars(r))>>
          = <<s.name, w.name, d.name, Uri(s.path), s.sensitive, Range(Vars(s))>>
    BY <2>1 DEF RouteId
  <2> QED
    BY <2>2
<1>3. c = d
  BY <1>2 DEF IsSource, OneState
<1>4. v = w
  BY <1>2, <1>3, ConfigsAssumption DEF IsSource, OneState
<1>5. /\ t.hosts = Hosts(v) /\ t.uri = Uri(r.path) /\ t.vars = Vars(r)
      /\ t.priority = Priority(r, Hosts(v))
      /\ u.hosts = Hosts(w) /\ u.uri = Uri(s.path) /\ u.vars = Vars(s)
      /\ u.priority = Priority(s, Hosts(w))
  BY DEF Translate
<1> HIDE DEF t, u
<1>6. t.priority = u.priority
  BY <1>2, <1>4, <1>5 DEF Priority
<1>7. /\ (\A i \in DOMAIN t.vars : VarHolds(t.vars[i], q)) <=> \A x \in Range(t.vars) : VarHolds(x, q)
      /\ (\A i \in DOMAIN u.vars : VarHolds(u.vars[i], q)) <=> \A x \in Range(u.vars) : VarHolds(x, q)
  BY DEF Range
<1>8. Range(t.vars) = Range(u.vars) /\ t.hosts = u.hosts /\ t.uri = u.uri
  BY <1>2, <1>4, <1>5
<1>9. ApisixRouteMatches(t, q) <=> ApisixRouteMatches(u, q)
  BY <1>7, <1>8 DEF ApisixRouteMatches
<1> QED
  BY <1>3, <1>4, <1>6, <1>9 DEF t, u

\* translateVirtualHost: APISIX takes a virtual host that Envoy takes to be one for
\* the host.
LEMMA HostsMean ==
  ASSUME NEW c, NEW q, NEW v \in EnvoyVirtualHosts(c, q)
  PROVE  v \in Range(c.vhosts) /\ HostsMatch(Hosts(v), q)
<1>1. v \in Range(c.vhosts) /\ \E d \in v.domains : DomainMatches(d, q)
  BY DEF EnvoyVirtualHosts
<1>2. PICK d \in v.domains : DomainMatches(d, q)
  BY <1>1
<1>3. CASE AnyDomain \in v.domains
  BY <1>1, <1>3 DEF Hosts, HostsMatch
<1>4. CASE AnyDomain \notin v.domains
  <2>1. [star |-> d.star, text |-> d.text] \in Hosts(v)
    BY <1>4 DEF Hosts
  <2>2. HostMatches(d, q.host)
    BY <1>2, <1>4 DEF DomainMatches
  <2>3. HostMatches([star |-> d.star, text |-> d.text], q.host)
    BY <2>2 DEF HostMatches
  <2> QED
    BY <1>1, <2>1, <2>3 DEF HostsMatch
<1> QED
  BY <1>3, <1>4

\* The routes of Envoy.
LEMMA EnvoyRoutesMean ==
  ASSUME NEW C, NEW q, NEW r
  PROVE  r \in EnvoyRoutes({c \in C : ~Fails(c)}, q) <=>
           \E c, v : /\ IsSource(C, c, v, r)
                     /\ v \in EnvoyVirtualHosts(c, q) /\ EnvoyRouteMatches(r, q)
<1>1. r \in EnvoyRoutes({c \in C : ~Fails(c)}, q) <=>
        \E c \in {c \in C : ~Fails(c)} : \E v \in EnvoyVirtualHosts(c, q) :
          r \in Range(v.routes) /\ ~Ignored(r) /\ EnvoyRouteMatches(r, q)
  BY DEF EnvoyRoutes, MatchingRoutes
<1> QED
  BY <1>1, HostsMean DEF IsSource

\* The dictionary has, for every route, one with its id.
LEMMA StoredById ==
  ASSUME NEW rt \in Seq(AllRoutes)
  PROVE  /\ Range(AsMap(rt)) \subseteq Range(rt)
         /\ \A t \in Range(rt) : \E s \in Range(AsMap(rt)) : s.id = t.id
<1>1. DOMAIN rt = 1..Len(rt)
  OBVIOUS
<1>2. \A k \in Ids(rt) : \E m \in 1..Len(rt) : Entry(rt, k) = rt[m] /\ rt[m].id = k
  BY EntryIsLast
<1>3. Range(AsMap(rt)) = {Entry(rt, k) : k \in Ids(rt)}
  BY DEF AsMap, Range
<1>4. Range(rt) = {rt[i] : i \in 1..Len(rt)} /\ Ids(rt) = {rt[i].id : i \in 1..Len(rt)}
  BY <1>1 DEF Range, Ids
<1>5. Range(AsMap(rt)) \subseteq Range(rt)
  BY <1>2, <1>3, <1>4
<1>6. ASSUME NEW t \in Range(rt) PROVE \E s \in Range(AsMap(rt)) : s.id = t.id
  <2>1. t.id \in Ids(rt)
    BY <1>4
  <2>2. Entry(rt, t.id).id = t.id
    BY <1>2, <2>1
  <2> QED
    BY <1>3, <2>1, <2>2
<1> QED
  BY <1>5, <1>6

\* Of routes that match, some have the highest priority.
LEMMA SomeAreFirst ==
  ASSUME NEW T, NEW q, NEW t \in T, ApisixRouteMatches(t, q),
         \A s \in T : s.priority \in {0, 999}
  PROVE  ApisixRoutes(T, q) # {}
<1> DEFINE M == {s \in T : ApisixRouteMatches(s, q)}
<1>1. ApisixRoutes(T, q) = {s \in M : \A u \in M : u.priority <= s.priority}
  BY DEF ApisixRoutes
<1>2. t \in M /\ \A s \in M : s.priority \in {0, 999}
  OBVIOUS
<1> HIDE DEF M
<1>3. CASE \E s \in M : s.priority = 999
  BY <1>1, <1>2, <1>3
<1>4. CASE ~\E s \in M : s.priority = 999
  BY <1>1, <1>2, <1>4
<1> QED
  BY <1>3, <1>4

\* ReadAlike and Preferred, for the routes of configurations C.
Alike(C, q) ==
  \A c, v, r : IsSource(C, c, v, r) /\ HostsMatch(Hosts(v), q) => Faithful(r)
Above(C, q) ==
  \A c, v, r, d, w, s :
    /\ IsSource(C, c, v, r) /\ HostsMatch(Hosts(v), q) /\ EnvoyRouteMatches(r, q)
    /\ v \notin EnvoyVirtualHosts(c, q)
    /\ IsSource(C, d, w, s) /\ w \in EnvoyVirtualHosts(d, q) /\ EnvoyRouteMatches(s, q)
    => Priority(r, Hosts(v)) < Priority(s, Hosts(w))

LEMMA RequestFollows ==
  ASSUME NEW C, OneState(C), NEW rt \in Seq(AllRoutes), Sourced(rt, C), NEW q \in Queries,
         NEW S, S = {c \in C : ~Fails(c)}, NEW x, EnvoyRoutes(S, q) = {x},
         Alike(C, q), Above(C, q)
  PROVE  {ApisixTargets(s) : s \in ApisixRoutes(Range(AsMap(rt)), q)} = {EnvoyTargets(x)}
<1>0. IsQuery(q)
  BY QueriesAssumption DEF IsQuery, Without
<1> DEFINE T == Range(AsMap(rt))
           tr(c, v, r) == Translate(c, v, r, << >>)
<1>1. /\ \A t \in T : \E c, v, r : IsSource(C, c, v, r) /\ t = tr(c, v, r)
      /\ \A c, v, r : IsSource(C, c, v, r) => \E s \in T : s.id = tr(c, v, r).id
  BY StoredById DEF Sourced
<1>2. ASSUME NEW c, NEW v, NEW r, IsSource(C, c, v, r)
      PROVE  /\ Usable(r)
             /\ tr(c, v, r).priority = Priority(r, Hosts(v))
             /\ ApisixRouteMatches(tr(c, v, r), q)
                  <=> HostsMatch(Hosts(v), q) /\ EnvoyRouteMatches(r, q)
  <2>1. Usable(r)
    BY <1>2, SourceUsable
  <2>2. tr(c, v, r).priority = Priority(r, Hosts(v))
    BY DEF Translate
  <2>3. HostsMatch(Hosts(v), q) => Faithful(r)
    BY <1>2 DEF Alike
  <2>4. ApisixRouteMatches(tr(c, v, r), q)
          <=> HostsMatch(Hosts(v), q) /\ EnvoyRouteMatches(r, q)
    BY <1>0, <2>1, <2>3, RouteMeans
  <2> QED
    BY <2>1, <2>2, <2>4
<1>3. ASSUME NEW c, NEW v, NEW r, IsSource(C, c, v, r), v \in EnvoyVirtualHosts(c, q),
             EnvoyRouteMatches(r, q)
      PROVE  r = x
  BY <1>3, EnvoyRoutesMean
<1> HIDE DEF T, tr
\* A stored route in the place of another.
<1>4. ASSUME NEW c, NEW v, NEW r, IsSource(C, c, v, r), ApisixRouteMatches(tr(c, v, r), q)
      PROVE  \E s \in T : ApisixRouteMatches(s, q) /\ s.priority = tr(c, v, r).priority
  <2>1. PICK s \in T : s.id = tr(c, v, r).id
    BY <1>1, <1>4
  <2>2. PICK d, w, u : IsSource(C, d, w, u) /\ s = tr(d, w, u)
    BY <1>1
  <2>3. /\ tr(c, v, r).priority = tr(d, w, u).priority
        /\ ApisixRouteMatches(tr(c, v, r), q) <=> ApisixRouteMatches(tr(d, w, u), q)
    BY <1>4, <2>1, <2>2, SameId DEF tr
  <2> QED
    BY <1>4, <2>2, <2>3
\* The route that Envoy takes.
<1>5. PICK d, w : /\ IsSource(C, d, w, x)
                  /\ w \in EnvoyVirtualHosts(d, q) /\ EnvoyRouteMatches(x, q)
  <2>1. x \in EnvoyRoutes(S, q)
    OBVIOUS
  <2> QED
    BY <2>1, EnvoyRoutesMean
<1>6. PICK y \in T : ApisixRouteMatches(y, q) /\ y.priority = Priority(x, Hosts(w))
  <2>1. HostsMatch(Hosts(w), q)
    BY <1>5, HostsMean
  <2>2. ApisixRouteMatches(tr(d, w, x), q) /\ tr(d, w, x).priority = Priority(x, Hosts(w))
    BY <1>2, <1>5, <2>1
  <2> QED
    BY <1>4, <1>5, <2>2
<1>7. ASSUME NEW t \in ApisixRoutes(T, q) PROVE ApisixTargets(t) = EnvoyTargets(x)
  <2>1. /\ t \in T /\ ApisixRouteMatches(t, q)
        /\ \A s \in T : ApisixRouteMatches(s, q) => s.priority <= t.priority
    BY <1>7 DEF ApisixRoutes
  <2>2. PICK c, v, r : IsSource(C, c, v, r) /\ t = tr(c, v, r)
    BY <1>1, <2>1
  <2>3. /\ HostsMatch(Hosts(v), q) /\ EnvoyRouteMatches(r, q)
        /\ t.priority = Priority(r, Hosts(v)) /\ Usable(r)
    BY <1>2, <2>1, <2>2
  <2>4. Priority(x, Hosts(w)) <= Priority(r, Hosts(v))
    BY <1>6, <2>1, <2>3
  <2>5. v \in EnvoyVirtualHosts(c, q)
    <3>1. Priority(x, Hosts(w)) \in Nat /\ Priority(r, Hosts(v)) \in Nat
      BY DEF Priority
    <3>2. v \notin EnvoyVirtualHosts(c, q) => Priority(r, Hosts(v)) < Priority(x, Hosts(w))
      BY <1>5, <2>2, <2>3 DEF Above
    <3> QED
      BY <2>4, <3>1, <3>2
  <2>6. r = x
    BY <1>3, <2>2, <2>3, <2>5
  <2>7. ApisixTargets(tr(c, v, r)) = EnvoyTargets(r)
    BY <2>3, TargetsKept DEF tr
  <2> QED
    BY <2>2, <2>6, <2>7
<1>8. ApisixRoutes(T, q) # {}
  <2>1. \A u \in T : u.priority \in {0, 999}
    <3> SUFFICES ASSUME NEW u \in T PROVE u.priority \in {0, 999}
      OBVIOUS
    <3>1. PICK a, b, e : IsSource(C, a, b, e) /\ u = tr(a, b, e)
      BY <1>1
    <3> QED
      BY <1>2, <3>1 DEF Priority
  <2> QED
    BY <1>6, <2>1, SomeAreFirst
<1>9. {ApisixTargets(s) : s \in ApisixRoutes(T, q)} = {EnvoyTargets(x)}
  BY <1>7, <1>8
<1> QED
  BY <1>9 DEF T

\* The routes are those of the configurations that were received last.
RoutesInv == Sourced(routes, Range(Configs(rds)))

LEMMA RoutesInit == Init => RoutesInv
<1> SUFFICES ASSUME Init PROVE RoutesInv
  OBVIOUS
<1>1. routes = << >> /\ Configs(rds) = << >>
  BY DEF Init, Configs
<1>2. Range(<< >>) = {}
  BY DEF Range
<1> QED
  BY <1>1, <1>2 DEF RoutesInv, Sourced, IsSource

\* The configurations are ones of a state of the mesh.
LEMMA ConfigsRange ==
  ASSUME NEW m \in Meshes, NEW names
  PROVE  Range(Configs([mesh |-> m, names |-> names])) \subseteq Range(Mesh[m].configs)
<1> DEFINE x == [mesh |-> m, names |-> names]
           cs == Mesh[m].configs
           places == {i \in DOMAIN cs : cs[i].name \in names}
<1>1. CASE x = Missing
  <2>1. Configs(x) = << >>
    BY <1>1 DEF Configs
  <2> HIDE DEF x
  <2>2. Range(Configs(x)) = {}
    BY <2>1 DEF Range
  <2> QED
    BY <2>2 DEF x
<1>2. CASE x # Missing
  <2>1. Configs(x) = Pick(cs, places)
    BY <1>2 DEF Configs
  <2>2. cs \in Seq(Range(cs))
    BY SlicesAssumption DEF IsSlice
  <2>3. places \in SUBSET (1..Len(cs))
    BY <2>2
  <2> HIDE DEF cs, places, x
  <2>4. Configs(x) \in Seq(Range(cs))
    BY <2>1, <2>2, <2>3, PickedPlaces
  <2>5. Range(Configs(x)) \subseteq Range(cs)
    <3>1. \A i \in DOMAIN Configs(x) : Configs(x)[i] \in Range(cs)
      BY <2>4
    <3>2. Range(Configs(x)) = {Configs(x)[i] : i \in DOMAIN Configs(x)}
      BY DEF Range
    <3> QED
      BY <3>1, <3>2
  <2> QED
    BY <2>5 DEF x, cs
<1> QED
  BY <1>1, <1>2

LEMMA RoutesNext == TypeInv /\ RoutesInv /\ [Next]_vars => RoutesInv'
<1> SUFFICES ASSUME TypeInv, RoutesInv, [Next]_vars PROVE RoutesInv'
  OBVIOUS
<1>1. CASE UNCHANGED rdsVars
  BY <1>1 DEF rdsVars, RoutesInv
<1>2. ASSUME NEW i \in DOMAIN responses, ReceiveRDS(i) PROVE RoutesInv'
  <2> DEFINE r == responses[i]
             x == [mesh |-> r.mesh, names |-> r.names]
             cs == Configs(x)
  <2>1. r \in RdsResponse /\ rds' = x
    BY <1>2, ReceivedRDS
  <2>2. cs \in Seq(AllConfigs)
    BY <2>1, ConfigsType DEF RdsResponse
  <2>3. routes' = NewRoutes(cs)
    BY <1>2, <2>1 DEF ReceiveRDS
  <2> HIDE DEF cs
  <2>4. Sourced(NewRoutes(cs), Range(cs))
    BY <2>2, AllNewRoutes DEF Sourced
  <2>5. Sourced(routes', Range(Configs(rds')))
    BY <2>1, <2>3, <2>4 DEF cs
  <2> QED
    BY <2>5 DEF RoutesInv
<1>3. ASSUME NEW i \in DOMAIN responses, ReceiveLDS(i) PROVE UNCHANGED rdsVars
  BY <1>3 DEF ReceiveLDS
<1>4. ASSUME NEW i \in DOMAIN requests, AnswerRequest(i) PROVE UNCHANGED rdsVars
  BY <1>4 DEF AnswerRequest
<1>5. ASSUME NEW i \in DOMAIN evChan, Deliver(i) PROVE UNCHANGED rdsVars
  BY <1>5 DEF Deliver
<1>6. MeshChange \/ Push \/ AnswerAck \/ UNCHANGED vars => UNCHANGED rdsVars
  BY DEF MeshChange, Push, AnswerAck, vars
<1> QED
  BY <1>1, <1>2, <1>3, <1>4, <1>5, <1>6 DEF Next, Receive

LEMMA RequestsFollow ==
  ASSUME TypeInv, StoreInv, RoutesInv
  PROVE  RequestsFollowMesh
<1> SUFFICES ASSUME AtRest, "batches" \notin overtaken, NEW q \in Queries,
                    ReadAlike(q), Preferred(q), NEW x, EnvoyRoutes(Served, q) = {x}
             PROVE  {ApisixTargets(s) : s \in ApisixRoutes(Range(store), q)} = {EnvoyTargets(x)}
  BY DEF RequestsFollowMesh
<1> DEFINE C == Range(Configs(rds))
<1>1. Served = {c \in C : ~Fails(c)}
  BY DEF Served
<1>2. store = AsMap(routes) /\ routes \in Seq(AllRoutes)
  <2>1. IsMap(store) /\ evChan = << >> /\ routes \in Seq(AllRoutes)
    BY DEF TypeInv, AtRest
  <2> QED
    BY <2>1, PatchOfNone DEF StoreInv
<1>3. rds # Missing
  <2>1. x \in EnvoyRoutes(Served, q)
    OBVIOUS
  <2>2. Served # {}
    BY <2>1 DEF EnvoyRoutes
  <2>3. CASE rds = Missing
    <3>1. Configs(rds) = << >>
      BY <2>3 DEF Configs
    <3>2. C = {}
      BY <3>1 DEF Range
    <3> QED
      BY <1>1, <2>2, <3>2
  <2> QED
    BY <2>3
<1>4. C \subseteq Range(Mesh[rds.mesh].configs) /\ rds.mesh \in Meshes
  <2>1. rds \in [mesh : Meshes, names : SUBSET AllNames]
    BY <1>3 DEF TypeInv
  <2>2. rds = [mesh |-> rds.mesh, names |-> rds.names] /\ rds.mesh \in Meshes
    BY <2>1
  <2> QED
    BY <2>2, ConfigsRange
<1>5. OneState(C)
  <2>1. C \subseteq AllConfigs
    BY <1>4 DEF AllConfigs
  <2>2. \A c, d \in C : c.name = d.name => c = d
    BY <1>4, ConfigsAssumption
  <2> HIDE DEF C
  <2> QED
    BY <2>1, <2>2 DEF OneState
<1>6. Sourced(routes, C)
  BY DEF RoutesInv
<1>7. Alike(C, q)
  BY <1>1 DEF ReadAlike, Alike, IsSource
<1>8. Above(C, q)
  <2> SUFFICES ASSUME NEW c, NEW v, NEW r, NEW d, NEW w, NEW s,
                      IsSource(C, c, v, r), HostsMatch(Hosts(v), q), EnvoyRouteMatches(r, q),
                      v \notin EnvoyVirtualHosts(c, q),
                      IsSource(C, d, w, s), w \in EnvoyVirtualHosts(d, q), EnvoyRouteMatches(s, q)
               PROVE  Priority(r, Hosts(v)) < Priority(s, Hosts(w))
    BY DEF Above
  <2>1. v \in PassedOver(q) /\ w \in Taken(q)
    BY <1>1 DEF IsSource, PassedOver, Taken
  <2>2. r \in MatchingRoutes(v, q) /\ s \in MatchingRoutes(w, q)
    BY DEF IsSource, MatchingRoutes
  <2>3. /\ Priority(r, Hosts(v)) \in Priorities(PassedOver(q), q)
        /\ Priority(s, Hosts(w)) \in Priorities(Taken(q), q)
    BY <2>1, <2>2 DEF Priorities
  <2> QED
    BY <2>3 DEF Preferred
<1> HIDE DEF C
<1>9. {ApisixTargets(s) : s \in ApisixRoutes(Range(AsMap(routes)), q)} = {EnvoyTargets(x)}
  BY <1>1, <1>2, <1>5, <1>6, <1>7, <1>8, RequestFollows, ZenonT(60)
<1> QED
  BY <1>2, <1>9

\* With nothing on its way, APISIX sends an HTTP request to the clusters, with
\* the weights, that Envoy would choose, for every mesh and every request that
\* Envoy has just one route for, with the exceptions that RequestsFollowMesh
\* names: no route is lost to another one with its id, no condition or cluster
\* is changed in translation, and the priorities do for Envoy's order of hosts.
THEOREM RequestsReachTheirClusters == Spec => []RequestsFollowMesh
<1>1. Init => RoutesInv /\ StoreInv
  BY RoutesInit, StoreInit
<1>2. TypeInv /\ RoutesInv /\ [Next]_vars => RoutesInv'
  BY RoutesNext
<1>3. TypeInv /\ StoreInv /\ [Next]_vars => StoreInv'
  BY StoreNext
<1>4. TypeInv /\ StoreInv /\ RoutesInv => RequestsFollowMesh
  BY RequestsFollow
<1>5. Spec => []TypeInv
  BY TypesHold
<1> QED
  BY <1>1, <1>2, <1>3, <1>4, <1>5, PTL DEF Spec

=============================================================================
