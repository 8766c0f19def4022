----------------------------- MODULE WireProofs -----------------------------
(***************************************************************************)
(* What the operators of module Wire and of Compaction return, preserve    *)
(* and bound, for sequences of any length: picking elements in order,      *)
(* joining texts, and the shape of a compacted history.                    *)
(***************************************************************************)
EXTENDS Wire, Compaction, TLAPS, FiniteSetTheorems, SequenceTheorems, WellFoundedInduction

(***************************************************************************)
(* A finite set of numbers: the places of a sequence that an operator of   *)
(* Wire picks, or the indexes of the blocks an adapter holds.  Rank says   *)
(* the how manyth of them i is.                                            *)
(***************************************************************************)
Numbers(S) == S \subseteq Nat /\ IsFiniteSet(S)
Upto(S, i) == {j \in S : j <= i}
Rank(S, i) == Cardinality(Upto(S, i))

(***************************************************************************)
(* Nth inverts Rank, which grows with its number: Nth(S, k) for k in       *)
(* 1..Cardinality(S) are the numbers S in their order.                     *)
(***************************************************************************)
LEMMA RankBounds ==
  ASSUME NEW S, Numbers(S), NEW i \in S
  PROVE  /\ IsFiniteSet(Upto(S, i))
         /\ Rank(S, i) \in 1..Cardinality(S)
         /\ Cardinality(S) \in Nat
<1>1. Upto(S, i) \in SUBSET S /\ i \in Upto(S, i)
  BY DEF Upto, Numbers
<1>2. IsFiniteSet(Upto(S, i)) /\ Rank(S, i) <= Cardinality(S)
  BY <1>1, FS_Subset DEF Numbers, Rank
<1>3. Cardinality(S) \in Nat /\ Rank(S, i) \in Nat
  BY <1>2, FS_CardinalityType DEF Numbers, Rank
<1>4. Rank(S, i) # 0
  BY <1>1, <1>2, FS_EmptySet DEF Rank
<1> QED BY <1>2, <1>3, <1>4

LEMMA RankGrows ==
  ASSUME NEW S, Numbers(S), NEW i \in S, NEW j \in S, i < j
  PROVE  Rank(S, i) < Rank(S, j)
<1>0. S \subseteq Nat /\ i \in Nat /\ j \in Nat
  BY DEF Numbers
<1>1. Upto(S, i) \in SUBSET Upto(S, j) /\ j \in Upto(S, j) /\ j \notin Upto(S, i)
  <2>1. \A u \in Nat : u <= i => u <= j
    BY <1>0
  <2>2. ~(j <= i) /\ j <= j
    BY <1>0
  <2> QED BY <1>0, <2>1, <2>2 DEF Upto
<1>2. IsFiniteSet(Upto(S, j)) /\ Rank(S, i) \in Nat /\ Rank(S, j) \in Nat
  <2>1. Rank(S, i) \in 1..Cardinality(S) /\ Rank(S, j) \in 1..Cardinality(S)
    BY RankBounds
  <2> QED BY <2>1, RankBounds
<1>3. Rank(S, i) <= Rank(S, j) /\ Rank(S, i) # Rank(S, j)
  BY <1>1, <1>2, FS_Subset DEF Rank
<1> QED BY <1>2, <1>3

LEMMA NthIs ==
  ASSUME NEW S, Numbers(S), NEW i \in S
  PROVE  Nth(S, Rank(S, i)) = i
<1>1. \A j \in S : Rank(S, j) = Rank(S, i) => j = i
  <2> SUFFICES ASSUME NEW j \in S, Rank(S, j) = Rank(S, i), j # i PROVE FALSE
    OBVIOUS
  <2>1. i \in Nat /\ j \in Nat /\ Rank(S, i) \in 1..Cardinality(S)
    BY RankBounds DEF Numbers
  <2>2. i < j \/ j < i
    BY <2>1
  <2> QED BY <2>1, <2>2, RankGrows
<1>2. Nth(S, Rank(S, i)) = CHOOSE j \in S : Rank(S, j) = Rank(S, i)
  BY DEF Nth, Rank, Upto
<1> QED BY <1>1, <1>2

LEMMA NthProperties ==
  ASSUME NEW S, Numbers(S), NEW k \in 1..Cardinality(S)
  PROVE  Nth(S, k) \in S /\ Rank(S, Nth(S, k)) = k
<1> DEFINE r == [i \in S |-> Rank(S, i)]
<1>1. Cardinality(S) \in Nat
  BY FS_CardinalityType DEF Numbers
<1>2. IsFiniteSet(1..Cardinality(S)) /\ Cardinality(1..Cardinality(S)) = Cardinality(S)
  BY <1>1, FS_Interval
<1>3. r \in Injection(S, 1..Cardinality(S))
  <2>1. r \in [S -> 1..Cardinality(S)]
    BY RankBounds
  <2>2. \A i, j \in S : r[i] = r[j] => i = j
    BY NthIs
  <2> QED BY <2>1, <2>2 DEF Injection, IsInjective
<1>4. r \in Surjection(S, 1..Cardinality(S))
  BY <1>2, <1>3, FS_Injection
<1>5. PICK i \in S : r[i] = k
  BY <1>4 DEF Surjection
<1>6. Rank(S, i) = k
  BY <1>5
<1> QED BY <1>6, NthIs

(***************************************************************************)
(* What InOrder(f, S) is made of: the values of f at the numbers S, each   *)
(* at the rank of its number.                                              *)
(***************************************************************************)
LEMMA InOrderProperties ==
  ASSUME NEW f, NEW S, Numbers(S)
  PROVE  /\ Cardinality(S) \in Nat
         /\ DOMAIN InOrder(f, S) = 1..Cardinality(S)
         /\ Len(InOrder(f, S)) = Cardinality(S)
         /\ \A k \in 1..Cardinality(S) : InOrder(f, S)[k] = f[Nth(S, k)]
         /\ \A i \in S : Rank(S, i) \in 1..Cardinality(S) /\ InOrder(f, S)[Rank(S, i)] = f[i]
<1>1. Cardinality(S) \in Nat
  BY FS_CardinalityType DEF Numbers
<1>2. \A i \in S : Rank(S, i) \in 1..Cardinality(S) /\ Nth(S, Rank(S, i)) = i
  BY RankBounds, NthIs
<1> QED BY <1>1, <1>2 DEF InOrder

LEMMA InOrderTyped ==
  ASSUME NEW f, NEW S, Numbers(S), NEW T, \A i \in S : f[i] \in T
  PROVE  InOrder(f, S) \in Seq(T)
<1>1. \A k \in 1..Cardinality(S) : InOrder(f, S)[k] \in T
  BY InOrderProperties, NthProperties
<1> QED BY <1>1, InOrderProperties DEF InOrder

LEMMA InOrderSame ==
  ASSUME NEW f, NEW g, NEW S, Numbers(S), \A i \in S : f[i] = g[i]
  PROVE  InOrder(f, S) = InOrder(g, S)
BY NthProperties DEF InOrder

LEMMA InOrderEmpty ==
  ASSUME NEW f
  PROVE  InOrder(f, {}) = <<>>
BY FS_EmptySet DEF InOrder

LEMMA InOrderRange ==
  ASSUME NEW f, NEW S, Numbers(S)
  PROVE  {InOrder(f, S)[k] : k \in DOMAIN InOrder(f, S)} = {f[i] : i \in S}
<1>1. \A k \in DOMAIN InOrder(f, S) : \E i \in S : InOrder(f, S)[k] = f[i]
  BY InOrderProperties, NthProperties
<1>2. \A i \in S : \E k \in DOMAIN InOrder(f, S) : InOrder(f, S)[k] = f[i]
  BY InOrderProperties
<1> QED BY <1>1, <1>2

LEMMA InOrderEmptyOnly ==
  ASSUME NEW f, NEW S, Numbers(S), InOrder(f, S) = <<>>
  PROVE  S = {}
<1>1. Len(InOrder(f, S)) = Cardinality(S) /\ Len(<<>>) = 0
  BY InOrderProperties
<1> QED BY <1>1, FS_EmptySet DEF Numbers

(***************************************************************************)
(* Numbers moved by an increasing map keep their order, so the values at   *)
(* the moved numbers are the same sequence.                                *)
(***************************************************************************)
LEMMA Moved ==
  ASSUME NEW P, Numbers(P), NEW g, \A p \in P : g[p] \in Nat,
         \A p, q \in P : p < q => g[p] < g[q]
  PROVE  LET Q == {g[p] : p \in P} IN
           /\ Numbers(Q) /\ Cardinality(Q) = Cardinality(P)
           /\ \A k \in 1..Cardinality(P) : Nth(Q, k) = g[Nth(P, k)]
<1> DEFINE Q == {g[p] : p \in P}
           h == [p \in P |-> g[p]]
<1>0. P \subseteq Nat /\ IsFiniteSet(P)
  BY DEF Numbers
<1>1. \A p, q \in P : g[p] = g[q] => p = q
  <2> SUFFICES ASSUME NEW p \in P, NEW q \in P, g[p] = g[q], p # q PROVE FALSE
    OBVIOUS
  <2>1. p < q \/ q < p
    BY <1>0
  <2> QED BY <2>1
<1>2. h \in Bijection(P, Q)
  BY <1>1 DEF Bijection, Injection, Surjection, IsInjective
<1>3. IsFiniteSet(Q) /\ Cardinality(Q) = Cardinality(P)
  <2> HIDE DEF h, Q
  <2> QED BY <1>0, <1>2, FS_Bijection DEF ExistsBijection
<1>4. Numbers(Q)
  BY <1>3 DEF Numbers
<1>5. ASSUME NEW k \in 1..Cardinality(P) PROVE Nth(Q, k) = g[Nth(P, k)]
  <2> DEFINE p == Nth(P, k)
             A == Upto(P, p)
             B == Upto(Q, g[p])
             e == [q \in A |-> g[q]]
  <2>1. p \in P /\ Cardinality(A) = k
    BY NthProperties DEF Rank
  <2>2. IsFiniteSet(A)
    BY <2>1, RankBounds
  <2>3. e \in Bijection(A, B)
    <3>1. \A q \in P : q <= p <=> g[q] <= g[p]
      <4> SUFFICES ASSUME NEW q \in P PROVE q <= p <=> g[q] <= g[p]
        OBVIOUS
      <4>1. q \in Nat /\ p \in Nat /\ g[q] \in Nat /\ g[p] \in Nat
        BY <1>0, <2>1
      <4>2. (q < p => g[q] < g[p]) /\ (p < q => g[p] < g[q])
        BY <2>1
      <4> HIDE DEF p
      <4> QED BY <4>1, <4>2
    <3>2. \A q \in A : g[q] \in B
      BY <3>1 DEF Upto
    <3>3. \A b \in B : \E q \in A : g[q] = b
      BY <3>1 DEF Upto
    <3>4. \A q \in A : q \in P
      BY DEF Upto
    <3> HIDE DEF A, B
    <3> QED BY <1>1, <3>2, <3>3, <3>4 DEF Bijection, Injection, Surjection, IsInjective
  <2>4. Cardinality(B) = k
    <3> HIDE DEF A, B, e
    <3> QED BY <2>1, <2>2, <2>3, FS_Bijection DEF ExistsBijection
  <2>5. g[p] \in Q /\ Rank(Q, g[p]) = k
    BY <2>1, <2>4 DEF Rank
  <2> HIDE DEF Q
  <2> QED BY <1>4, <2>5, NthIs
<1> QED BY <1>3, <1>4, <1>5

(***************************************************************************)
(* g moves the numbers P to the numbers Q and keeps their order; h is f    *)
(* along g.                                                                *)
(***************************************************************************)
Moves(g, P, Q) ==
  /\ Q = {g[p] : p \in P}
  /\ \A p \in P : g[p] \in Nat
  /\ \A p, q \in P : p < q => g[p] < g[q]

Along(h, f, g, P) == \A p \in P : h[p] = f[g[p]]

LEMMA InOrderMoved ==
  ASSUME NEW P, Numbers(P), NEW g, NEW Q, Moves(g, P, Q), NEW f, NEW h, Along(h, f, g, P)
  PROVE  InOrder(f, Q) = InOrder(h, P)
<1>1. /\ Cardinality(Q) = Cardinality(P)
      /\ \A k \in 1..Cardinality(P) : Nth(Q, k) = g[Nth(P, k)]
  BY Moved DEF Moves
<1>2. \A k \in 1..Cardinality(P) : Nth(P, k) \in P
  BY NthProperties
<1> QED BY <1>1, <1>2 DEF InOrder, Along

(***************************************************************************)
(* What is picked from what was picked.                                    *)
(***************************************************************************)
LEMMA InOrderTwice ==
  ASSUME NEW f, NEW S, Numbers(S), NEW P \in SUBSET (1..Cardinality(S))
  PROVE  InOrder(InOrder(f, S), P) = InOrder(f, {Nth(S, p) : p \in P})
<1> DEFINE g == [p \in P |-> Nth(S, p)]
<1>0. Cardinality(S) \in Nat
  BY InOrderProperties
<1>1. Numbers(P)
  <2>1. IsFiniteSet(1..Cardinality(S))
    BY <1>0, FS_Interval
  <2>2. IsFiniteSet(P)
    BY <2>1, FS_Subset
  <2> QED BY <2>2 DEF Numbers
<1>2. \A p \in P : g[p] \in S /\ Rank(S, g[p]) = p
  BY NthProperties
<1>3. \A p \in P : g[p] \in Nat
  BY <1>2 DEF Numbers
<1>4. ASSUME NEW p \in P, NEW q \in P, p < q PROVE g[p] < g[q]
  <2>1. g[p] \in S /\ g[q] \in S /\ Rank(S, g[p]) = p /\ Rank(S, g[q]) = q
    BY <1>2
  <2>2. g[p] \in Nat /\ g[q] \in Nat /\ p \in Nat /\ q \in Nat
    BY <1>3
  <2>3. ~(g[q] < g[p])
    BY <2>1, <2>2, <1>4, RankGrows
  <2>4. g[q] # g[p]
    BY <2>1, <2>2, <1>4
  <2> QED BY <2>2, <2>3, <2>4
<1>5. \A p \in P : InOrder(f, S)[p] = f[g[p]]
  BY InOrderProperties
<1>6. {g[p] : p \in P} = {Nth(S, p) : p \in P}
  OBVIOUS
<1> DEFINE h == InOrder(f, S)
           Q == {g[p] : p \in P}
<1>7. InOrder(f, Q) = InOrder(h, P)
  <2>0. Q = {g[p] : p \in P}
    OBVIOUS
  <2> HIDE DEF g, h, Q
  <2>1. Along(h, f, g, P)
    BY <1>5 DEF h, Along
  <2>2. \A p, q \in P : p < q => g[p] < g[q]
    BY <1>4
  <2>3. Moves(g, P, Q)
    BY <1>3, <2>0, <2>2 DEF Moves
  <2> QED BY <1>1, <2>1, <2>3, InOrderMoved
<1> QED BY <1>6, <1>7

(***************************************************************************)
(* The numbers S in two halves, the first below the second, with one       *)
(* number more, and all of them.                                           *)
(***************************************************************************)
LEMMA SubNumbers ==
  ASSUME NEW S, Numbers(S), NEW P, P \subseteq S
  PROVE  Numbers(P)
BY FS_Subset DEF Numbers

LEMMA IntervalNumbers ==
  ASSUME NEW n \in Nat
  PROVE  Numbers(1..n) /\ Cardinality(1..n) = n
BY FS_Interval DEF Numbers

LEMMA InOrderSplit ==
  ASSUME NEW A, NEW B, Numbers(A), Numbers(B), \A a \in A, b \in B : a < b, NEW f
  PROVE  Numbers(A \cup B) /\ InOrder(f, A \cup B) = InOrder(f, A) \o InOrder(f, B)
<1> DEFINE S == A \cup B
           T == {f[i] : i \in S}
           x == InOrder(f, A)
           y == InOrder(f, B)
           z == InOrder(f, S)
<1>0. A \subseteq Nat /\ B \subseteq Nat /\ IsFiniteSet(A) /\ IsFiniteSet(B)
  BY DEF Numbers
<1>1. A \cap B = {}
  <2> SUFFICES ASSUME NEW i \in A, i \in B PROVE FALSE
    OBVIOUS
  <2>1. i < i /\ i \in Nat
    BY <1>0
  <2> QED BY <2>1
<1>2. Cardinality(A) \in Nat /\ Cardinality(B) \in Nat
  BY <1>0, FS_CardinalityType
<1>3. IsFiniteSet(S) /\ Cardinality(S) = Cardinality(A) + Cardinality(B)
  <2>1. Cardinality(A \cap B) = 0
    BY <1>1, FS_EmptySet
  <2>2. /\ IsFiniteSet(A \cup B)
        /\ Cardinality(A \cup B) = Cardinality(A) + Cardinality(B) - Cardinality(A \cap B)
    BY <1>0, FS_Union
  <2> QED BY <1>2, <2>1, <2>2
<1>4. Numbers(S)
  BY <1>0, <1>3 DEF Numbers
<1>5. x \in Seq(T) /\ y \in Seq(T) /\ z \in Seq(T)
  BY <1>4, InOrderTyped
<1>6. Len(x) = Cardinality(A) /\ Len(y) = Cardinality(B) /\ Len(z) = Len(x) + Len(y)
  BY <1>3, <1>4, InOrderProperties
<1>7. ASSUME NEW a \in A PROVE Rank(S, a) = Rank(A, a)
  <2>1. Upto(S, a) = Upto(A, a)
    <3> SUFFICES ASSUME NEW b \in B PROVE ~(b <= a)
      BY DEF Upto
    <3>1. a < b /\ a \in Nat /\ b \in Nat
      BY <1>0
    <3> QED BY <3>1
  <2> QED BY <2>1 DEF Rank
<1>8. ASSUME NEW b \in B PROVE Rank(S, b) = Cardinality(A) + Rank(B, b)
  <2>1. Upto(S, b) = A \cup Upto(B, b)
    <3>1. \A a \in A : a <= b
      <4> SUFFICES ASSUME NEW a \in A PROVE a <= b
        OBVIOUS
      <4>1. a < b /\ a \in Nat /\ b \in Nat
        BY <1>0
      <4> QED BY <4>1
    <3> QED BY <3>1 DEF Upto
  <2>2. A \cap Upto(B, b) = {}
    BY <1>1 DEF Upto
  <2>3. IsFiniteSet(Upto(B, b)) /\ Rank(B, b) \in 1..Cardinality(B)
    BY RankBounds
  <2>4. Cardinality(A \cup Upto(B, b)) = Cardinality(A) + Cardinality(Upto(B, b)) - Cardinality(A \cap Upto(B, b))
    BY <1>0, <2>3, FS_Union
  <2>5. Cardinality(A \cap Upto(B, b)) = 0
    BY <2>2, FS_EmptySet
  <2>6. Rank(S, b) = Cardinality(A \cup Upto(B, b)) /\ Rank(B, b) = Cardinality(Upto(B, b))
    BY <2>1 DEF Rank
  <2>7. Rank(B, b) \in Nat
    BY <1>2, <2>3
  <2> QED BY <1>2, <2>4, <2>5, <2>6, <2>7
<1>9. ASSUME NEW k \in 1..Len(z) PROVE z[k] = (x \o y)[k]
  <2> DEFINE i == Nth(S, k)
  <2>1. i \in S /\ Rank(S, i) = k /\ z[k] = f[i]
    BY <1>4, <1>6, <1>3, NthProperties, InOrderProperties
  <2>2. CASE i \in A
    <3>0. k = Rank(A, i)
      BY <1>7, <2>1, <2>2
    <3>1. k \in 1..Len(x) /\ x[k] = f[i]
      BY <1>6, <2>2, <3>0, InOrderProperties
    <3> QED BY <1>5, <1>6, <2>1, <3>1, ConcatProperties
  <2>3. CASE i \in B
    <3>1. Rank(B, i) \in 1..Len(y) /\ y[Rank(B, i)] = f[i]
      BY <1>6, <2>3, RankBounds, InOrderProperties
    <3>2. k = Len(x) + Rank(B, i)
      BY <1>6, <1>8, <2>1, <2>3
    <3>3. (x \o y)[k] = y[k - Len(x)]
      BY <1>2, <1>5, <1>6, <3>1, <3>2, ConcatProperties
    <3>4. k - Len(x) = Rank(B, i)
      BY <1>2, <1>6, <3>1, <3>2
    <3> QED BY <2>1, <3>1, <3>3, <3>4
  <2> QED BY <2>1, <2>2, <2>3
<1>10. x \o y \in Seq(T) /\ Len(x \o y) = Len(z)
  BY <1>5, <1>6, ConcatProperties
<1>11. z = x \o y
  <2> HIDE DEF x, y, z, T
  <2> QED BY <1>5, <1>9, <1>10, SeqEqual
<1> QED BY <1>4, <1>11

LEMMA InOrderOne ==
  ASSUME NEW f, NEW i \in Nat
  PROVE  Numbers({i}) /\ InOrder(f, {i}) = <<f[i]>>
<1>1. Numbers({i}) /\ Cardinality({i}) = 1
  BY FS_Singleton DEF Numbers
<1>2. Nth({i}, 1) = i
  BY <1>1, NthProperties
<1> QED BY <1>1, <1>2 DEF InOrder

LEMMA InOrderAdd ==
  ASSUME NEW S, Numbers(S), NEW m \in Nat, \A i \in S : i < m, NEW f,
         NEW T, \A i \in S \cup {m} : f[i] \in T
  PROVE  /\ Numbers(S \cup {m})
         /\ InOrder(f, S \cup {m}) = Append(InOrder(f, S), f[m])
<1>1. Numbers(S \cup {m}) /\ InOrder(f, S \cup {m}) = InOrder(f, S) \o InOrder(f, {m})
  <2>1. PICK M : M = {m}
    OBVIOUS
  <2>2. Numbers(M) /\ \A a \in S, b \in M : a < b
    BY <2>1, InOrderOne
  <2>3. Numbers(S \cup M) /\ InOrder(f, S \cup M) = InOrder(f, S) \o InOrder(f, M)
    BY <2>2, InOrderSplit
  <2> QED BY <2>1, <2>3
<1>2. InOrder(f, {m}) = <<f[m]>>
  BY InOrderOne
<1>3. InOrder(f, S) \in Seq(T) /\ f[m] \in T
  BY InOrderTyped
<1>4. InOrder(f, S) \o <<f[m]>> = Append(InOrder(f, S), f[m])
  BY <1>3, AppendIsConcat
<1> QED BY <1>1, <1>2, <1>4

LEMMA InOrderAll ==
  ASSUME NEW T, NEW s \in Seq(T)
  PROVE  InOrder(s, 1..Len(s)) = s
<1> DEFINE n == Len(s)
<1>0. n \in Nat /\ s \in [1..n -> T]
  OBVIOUS
<1>1. Numbers(1..n) /\ Cardinality(1..n) = n
  BY <1>0, IntervalNumbers
<1>2. ASSUME NEW k \in 1..n PROVE Nth(1..n, k) = k
  <2>1. Upto(1..n, k) = 1..k
    BY <1>0 DEF Upto
  <2>2. Rank(1..n, k) = k
    BY <2>1, IntervalNumbers DEF Rank
  <2> QED BY <1>1, <2>2, NthIs
<1> HIDE DEF n
<1>3. InOrder(s, 1..n) = [k \in 1..n |-> s[k]]
  BY <1>1, <1>2 DEF InOrder
<1> QED BY <1>0, <1>3 DEF n

(***************************************************************************)
(* Of and ConvertBlocks pick by a property of the elements: what they pick *)
(* of InOrder(f, S) is InOrder of f at fewer numbers.                      *)
(***************************************************************************)
LEMMA OfInOrder ==
  ASSUME NEW f, NEW S, Numbers(S), NEW K
  PROVE  Of(InOrder(f, S), K) = InOrder(f, {i \in S : f[i].kind \in K})
<1> DEFINE g == InOrder(f, S)
           P == {k \in DOMAIN g : g[k].kind \in K}
<1>1. DOMAIN g = 1..Cardinality(S) /\ \A k \in 1..Cardinality(S) : g[k] = f[Nth(S, k)]
  BY InOrderProperties
<1>2. P \in SUBSET (1..Cardinality(S))
  BY <1>1
<1>3. {Nth(S, p) : p \in P} = {i \in S : f[i].kind \in K}
  <2>1. \A p \in P : Nth(S, p) \in S /\ f[Nth(S, p)].kind \in K
    BY <1>1, NthProperties
  <2>2. ASSUME NEW i \in S, f[i].kind \in K PROVE \E p \in P : Nth(S, p) = i
    <3>1. Rank(S, i) \in 1..Cardinality(S) /\ Nth(S, Rank(S, i)) = i
      BY RankBounds, NthIs
    <3> QED BY <1>1, <2>2, <3>1
  <2> HIDE DEF P
  <2> QED BY <2>1, <2>2
<1>4. InOrder(g, P) = InOrder(f, {Nth(S, p) : p \in P})
  BY <1>2, InOrderTwice
<1> QED BY <1>3, <1>4 DEF Of

LEMMA ConvertInOrder ==
  ASSUME NEW f, NEW S, Numbers(S)
  PROVE  ConvertBlocks(InOrder(f, S)) = InOrder(f, {i \in S : Signed(f[i])})
<1> DEFINE g == InOrder(f, S)
           P == {k \in DOMAIN g : Signed(g[k])}
<1>1. DOMAIN g = 1..Cardinality(S) /\ \A k \in 1..Cardinality(S) : g[k] = f[Nth(S, k)]
  BY InOrderProperties
<1>2. P \in SUBSET (1..Cardinality(S))
  BY <1>1
<1>3. {Nth(S, p) : p \in P} = {i \in S : Signed(f[i])}
  <2>1. \A p \in P : Nth(S, p) \in S /\ Signed(f[Nth(S, p)])
    BY <1>1, NthProperties
  <2>2. ASSUME NEW i \in S, Signed(f[i]) PROVE \E p \in P : Nth(S, p) = i
    <3>1. Rank(S, i) \in 1..Cardinality(S) /\ Nth(S, Rank(S, i)) = i
      BY RankBounds, NthIs
    <3> QED BY <1>1, <2>2, <3>1
  <2> HIDE DEF P
  <2> QED BY <2>1, <2>2
<1>4. InOrder(g, P) = InOrder(f, {Nth(S, p) : p \in P})
  BY <1>2, InOrderTwice
<1> QED BY <1>3, <1>4 DEF ConvertBlocks

(***************************************************************************)
(* What Of keeps, in which order, and of which sequences it keeps all or   *)
(* nothing; it distributes over concatenation.                             *)
(***************************************************************************)
LEMMA OfProperties ==
  ASSUME NEW T, NEW s \in Seq(T), NEW K
  PROVE  /\ Of(s, K) \in Seq(T)
         /\ \A k \in 1..Len(Of(s, K)) :
              Of(s, K)[k].kind \in K /\ \E i \in 1..Len(s) : Of(s, K)[k] = s[i]
         /\ \A i \in 1..Len(s) : s[i].kind \in K => \E k \in 1..Len(Of(s, K)) : Of(s, K)[k] = s[i]
<1> DEFINE P == {k \in DOMAIN s : s[k].kind \in K}
<1>1. Numbers(P)
  <2>1. Numbers(1..Len(s)) /\ P \subseteq 1..Len(s)
    BY IntervalNumbers
  <2> QED BY <2>1, SubNumbers
<1>2. \A i \in P : i \in 1..Len(s) /\ s[i] \in T /\ s[i].kind \in K
  OBVIOUS
<1>3. Of(s, K) = InOrder(s, P)
  BY DEF Of
<1>4. InOrder(s, P) \in Seq(T)
  BY <1>1, <1>2, InOrderTyped
<1>5. \A k \in 1..Len(InOrder(s, P)) : \E i \in P : InOrder(s, P)[k] = s[i]
  <2> HIDE DEF P
  <2> QED BY <1>1, InOrderProperties, NthProperties
<1>6. \A i \in P : \E k \in 1..Len(InOrder(s, P)) : InOrder(s, P)[k] = s[i]
  <2> HIDE DEF P
  <2>1. \A i \in P : Rank(P, i) \in 1..Len(InOrder(s, P)) /\ InOrder(s, P)[Rank(P, i)] = s[i]
    BY <1>1, InOrderProperties
  <2> QED BY <2>1
<1>7. \A i \in 1..Len(s) : s[i].kind \in K => i \in P
  OBVIOUS
<1> HIDE DEF P
<1> QED BY <1>2, <1>3, <1>4, <1>5, <1>6, <1>7

LEMMA OfAll ==
  ASSUME NEW T, NEW s \in Seq(T), NEW K, \A i \in 1..Len(s) : s[i].kind \in K
  PROVE  Of(s, K) = s
<1>1. {k \in DOMAIN s : s[k].kind \in K} = 1..Len(s)
  OBVIOUS
<1> QED BY <1>1, InOrderAll DEF Of

LEMMA OfNone ==
  ASSUME NEW T, NEW s \in Seq(T), NEW K, \A i \in 1..Len(s) : s[i].kind \notin K
  PROVE  Of(s, K) = <<>>
<1>1. {k \in DOMAIN s : s[k].kind \in K} = {}
  OBVIOUS
<1> QED BY <1>1, InOrderEmpty DEF Of

LEMMA OfEmpty ==
  ASSUME NEW K
  PROVE  Of(<<>>, K) = <<>>
<1>1. {k \in DOMAIN <<>> : <<>>[k].kind \in K} = {}
  OBVIOUS
<1> QED BY <1>1, InOrderEmpty DEF Of

LEMMA OfConcat ==
  ASSUME NEW T, NEW s \in Seq(T), NEW t \in Seq(T), NEW K
  PROVE  Of(s \o t, K) = Of(s, K) \o Of(t, K)
<1> DEFINE u == s \o t
           n == Len(s)
           A == {k \in DOMAIN s : s[k].kind \in K}
           P == {k \in DOMAIN t : t[k].kind \in K}
           g == [p \in P |-> n + p]
           B == {g[p] : p \in P}
<1>1. /\ n \in Nat /\ Len(t) \in Nat /\ u \in Seq(T) /\ Len(u) = n + Len(t)
      /\ \A k \in 1..n : u[k] = s[k]
      /\ \A k \in 1..Len(t) : u[n + k] = t[k]
  BY ConcatProperties
<1>2. DOMAIN s = 1..n /\ DOMAIN t = 1..Len(t) /\ DOMAIN u = 1..(n + Len(t))
  BY <1>1
<1>3. {k \in DOMAIN u : u[k].kind \in K} = A \cup B
  <2>1. \A k \in A : k \in DOMAIN u /\ u[k].kind \in K
    BY <1>1, <1>2
  <2>2. \A p \in P : g[p] \in DOMAIN u /\ u[g[p]].kind \in K
    BY <1>1, <1>2
  <2>3. ASSUME NEW k \in DOMAIN u, u[k].kind \in K, k \notin A PROVE \E p \in P : k = g[p]
    <3>1. k \in 1..(n + Len(t)) /\ k > n
      BY <1>1, <1>2, <2>3
    <3>2. k - n \in 1..Len(t) /\ n + (k - n) = k
      BY <1>1, <3>1
    <3>3. k - n \in P
      BY <1>1, <1>2, <2>3, <3>2
    <3> QED BY <3>2, <3>3
  <2> HIDE DEF u, A, P
  <2> QED BY <2>1, <2>2, <2>3
<1>4. Numbers(A) /\ Numbers(P)
  BY <1>1, <1>2, IntervalNumbers, SubNumbers
<1>5. \A p \in P : g[p] \in Nat
  BY <1>1, <1>2
<1>6. \A p, q \in P : p < q => g[p] < g[q]
  BY <1>1, <1>2
<1>7. Numbers(B)
  <2> HIDE DEF P, g
  <2> QED BY <1>4, <1>5, <1>6, Moved
<1>8. InOrder(u, B) = InOrder(t, P)
  <2>1. \A p \in P : t[p] = u[g[p]]
    BY <1>1, <1>2
  <2>2. B = {g[p] : p \in P}
    OBVIOUS
  <2> HIDE DEF P, g, u, B
  <2>3. Moves(g, P, B) /\ Along(t, u, g, P)
    BY <1>5, <1>6, <2>1, <2>2 DEF Moves, Along
  <2> QED BY <1>4, <2>3, InOrderMoved
<1>9. InOrder(u, A) = InOrder(s, A)
  <2>1. \A k \in A : u[k] = s[k]
    BY <1>1, <1>2
  <2> HIDE DEF u, A
  <2> QED BY <1>4, <2>1, InOrderSame
<1>10. InOrder(u, A \cup B) = InOrder(u, A) \o InOrder(u, B)
  <2>1. \A a \in A, p \in P : a < g[p]
    BY <1>1, <1>2
  <2>2. \A a \in A, b \in B : a < b
    BY <2>1
  <2> HIDE DEF u, A, B
  <2> QED BY <1>4, <1>7, <2>2, InOrderSplit
<1> HIDE DEF A, B, P, u
<1>11. Of(u, K) = InOrder(u, A \cup B) /\ Of(s, K) = InOrder(s, A) /\ Of(t, K) = InOrder(t, P)
  BY <1>3 DEF Of, A, P
<1> QED BY <1>8, <1>9, <1>10, <1>11 DEF u

(***************************************************************************)
(* ConvertBlocks (_convert_content_blocks_to_anthropic) keeps exactly the  *)
(* blocks that are no thought or a signed one.                             *)
(***************************************************************************)
LEMMA ConvertProperties ==
  ASSUME NEW T, NEW s \in Seq(T)
  PROVE  /\ ConvertBlocks(s) \in Seq(T)
         /\ \A k \in 1..Len(ConvertBlocks(s)) :
              Signed(ConvertBlocks(s)[k]) /\ \E i \in 1..Len(s) : ConvertBlocks(s)[k] = s[i]
         /\ ConvertBlocks(s) = <<>> => \A i \in 1..Len(s) : ~Signed(s[i])
<1> DEFINE P == {k \in DOMAIN s : Signed(s[k])}
<1>1. Numbers(P)
  <2>1. Numbers(1..Len(s)) /\ P \subseteq 1..Len(s)
    BY IntervalNumbers
  <2> QED BY <2>1, SubNumbers
<1>2. \A i \in P : i \in 1..Len(s) /\ s[i] \in T /\ Signed(s[i])
  OBVIOUS
<1>3. ConvertBlocks(s) = InOrder(s, P)
  BY DEF ConvertBlocks
<1>4. InOrder(s, P) \in Seq(T)
  BY <1>1, <1>2, InOrderTyped
<1>5. \A k \in 1..Len(InOrder(s, P)) : \E i \in P : InOrder(s, P)[k] = s[i]
  <2> HIDE DEF P
  <2> QED BY <1>1, InOrderProperties, NthProperties
<1>6. InOrder(s, P) = <<>> => P = {}
  BY <1>1, InOrderEmptyOnly
<1>7. \A i \in 1..Len(s) : Signed(s[i]) => i \in P
  OBVIOUS
<1> HIDE DEF P
<1> QED BY <1>2, <1>3, <1>4, <1>5, <1>6, <1>7

LEMMA ConvertAll ==
  ASSUME NEW T, NEW s \in Seq(T), \A i \in 1..Len(s) : Signed(s[i])
  PROVE  ConvertBlocks(s) = s
<1>1. {k \in DOMAIN s : Signed(s[k])} = 1..Len(s)
  OBVIOUS
<1> QED BY <1>1, InOrderAll DEF ConvertBlocks

(***************************************************************************)
(* A run of FlattenSeq over the first n of the sequences ss: the recursive *)
(* function of its definition, which is unique and exists, by well-founded *)
(* induction.                                                              *)
(***************************************************************************)
Flattening(ss, n, f) ==
  f = [i \in 1..n |-> IF i = 1 THEN ss[i] ELSE f[i - 1] \o ss[i]]

Same(f, g, m) == \A i \in 1..m : f[i] = g[i]

LEMMA FlatteningSame ==
  ASSUME NEW ss, NEW tt, NEW m \in Nat, NEW n \in Nat, m <= n, NEW f, NEW g,
         Same(ss, tt, m), Flattening(ss, m, f), Flattening(tt, n, g)
  PROVE  Same(f, g, m)
<1> USE DEF Same
<1> DEFINE Wrong == {i \in 1..m : f[i] # g[i]}
<1> SUFFICES ASSUME Wrong # {} PROVE FALSE
  OBVIOUS
<1>1. Wrong \subseteq Nat
  OBVIOUS
<1>2. PICK i \in Wrong : \A j \in Wrong : ~(<<j, i>> \in OpToRel(<, Nat))
  <2> HIDE DEF Wrong
  <2> QED BY <1>1, NatLessThanWellFounded, WFMin
<1>3. \A j \in Wrong : ~(j < i)
  BY <1>1, <1>2 DEF OpToRel
<1>4. i \in 1..m /\ i \in 1..n /\ f[i] # g[i]
  OBVIOUS
<1>5. CASE i = 1
  BY <1>4, <1>5 DEF Flattening
<1>6. CASE i # 1
  <2>1. i - 1 \in 1..m /\ i - 1 < i
    BY <1>4, <1>6
  <2>2. f[i - 1] = g[i - 1]
    BY <1>3, <2>1
  <2>3. f[i] = f[i - 1] \o ss[i] /\ g[i] = g[i - 1] \o tt[i]
    BY <1>4, <1>6 DEF Flattening
  <2> QED BY <1>4, <2>2, <2>3
<1> QED BY <1>5, <1>6

LEMMA FlatteningExists ==
  ASSUME NEW T, NEW ss \in Seq(Seq(T)), NEW n \in 0..Len(ss)
  PROVE  \E f : Flattening(ss, n, f) /\ \A i \in 1..n : f[i] \in Seq(T)
<1> DEFINE Good(m) == \E f : Flattening(ss, m, f) /\ \A i \in 1..m : f[i] \in Seq(T)
           Bad == {m \in 0..Len(ss) : ~Good(m)}
<1> SUFFICES ASSUME Bad # {} PROVE FALSE
  OBVIOUS
<1>1. Bad \subseteq Nat
  OBVIOUS
<1>2. PICK m \in Bad : \A j \in Bad : ~(<<j, m>> \in OpToRel(<, Nat))
  <2> HIDE DEF Bad
  <2> QED BY <1>1, NatLessThanWellFounded, WFMin
<1>3. \A j \in Bad : ~(j < m)
  BY <1>1, <1>2 DEF OpToRel
<1>4. m \in 0..Len(ss) /\ ~Good(m) /\ Len(ss) \in Nat
  OBVIOUS
<1>5. m # 0
  <2>1. Flattening(ss, 0, <<>>)
    BY DEF Flattening
  <2>2. Good(0)
    BY <2>1
  <2> QED BY <1>4, <2>2
<1>6. m - 1 \in 0..Len(ss) /\ m - 1 < m /\ m \in Nat /\ m \in 1..Len(ss)
  BY <1>4, <1>5
<1>7. Good(m - 1)
  <2> HIDE DEF Good
  <2> QED BY <1>3, <1>6
<1>8. PICK f : Flattening(ss, m - 1, f) /\ \A i \in 1..(m - 1) : f[i] \in Seq(T)
  BY <1>7
<1> DEFINE g == [i \in 1..m |-> IF i = m THEN (IF m = 1 THEN ss[m] ELSE f[m - 1] \o ss[m]) ELSE f[i]]
<1>9. ss[m] \in Seq(T)
  BY <1>6
<1>10. \A i \in 1..(m - 1) : f[i] = IF i = 1 THEN ss[i] ELSE f[i - 1] \o ss[i]
  BY <1>8 DEF Flattening
<1>11. \A i \in 1..m : g[i] = IF i = 1 THEN ss[i] ELSE g[i - 1] \o ss[i]
  <2> SUFFICES ASSUME NEW i \in 1..m PROVE g[i] = IF i = 1 THEN ss[i] ELSE g[i - 1] \o ss[i]
    OBVIOUS
  <2>1. i \in Nat /\ i >= 1 /\ i <= m
    BY <1>6
  <2>2. CASE i = m
    <3>1. CASE m = 1
      BY <2>2, <3>1
    <3>2. CASE m # 1
      <4>1. m - 1 \in 1..m /\ m - 1 # m
        BY <1>6, <3>2
      <4> QED BY <2>2, <3>2, <4>1
    <3> QED BY <3>1, <3>2
  <2>3. CASE i # m
    <3>1. i \in 1..(m - 1) /\ g[i] = f[i]
      BY <1>6, <2>1, <2>3
    <3>2. CASE i = 1
      BY <1>10, <3>1, <3>2
    <3>3. CASE i # 1
      <4>1. i - 1 \in 1..m /\ i - 1 # m
        BY <1>6, <2>1, <3>3
      <4>2. g[i - 1] = f[i - 1]
        BY <4>1
      <4> QED BY <1>10, <3>1, <3>3, <4>2
    <3> QED BY <3>2, <3>3
  <2> QED BY <2>2, <2>3
<1>12. \A i \in 1..m : g[i] \in Seq(T)
  <2>1. \A i \in 1..m : i # m => i \in 1..(m - 1)
    BY <1>6
  <2>2. m # 1 => f[m - 1] \o ss[m] \in Seq(T)
    <3> SUFFICES ASSUME m # 1 PROVE f[m - 1] \o ss[m] \in Seq(T)
      OBVIOUS
    <3>1. m - 1 \in 1..(m - 1)
      BY <1>6
    <3>2. f[m - 1] \in Seq(T)
      BY <1>8, <3>1
    <3> QED BY <1>9, <3>2, ConcatProperties
  <2> QED BY <1>8, <1>9, <2>1, <2>2
<1>13. Flattening(ss, m, g)
  <2>1. g = [i \in 1..m |-> g[i]]
    OBVIOUS
  <2> HIDE DEF g
  <2> QED BY <1>11, <2>1 DEF Flattening
<1>14. Good(m)
  <2> HIDE DEF g
  <2> QED BY <1>12, <1>13
<1> QED BY <1>4, <1>14

(***************************************************************************)
(* FlattenSeq over the whole sequence, an empty one, one with a last       *)
(* element, and a single one.                                              *)
(***************************************************************************)
LEMMA FlattenIs ==
  ASSUME NEW T, NEW ss \in Seq(Seq(T)), NEW f, Flattening(ss, Len(ss), f)
  PROVE  FlattenSeq(ss) = IF Len(ss) = 0 THEN <<>> ELSE f[Len(ss)]
<1>1. CASE Len(ss) = 0
  BY <1>1 DEF FlattenSeq
<1>2. CASE Len(ss) # 0
  <2> DEFINE g == CHOOSE g : g = [i \in 1..Len(ss) |-> IF i = 1 THEN ss[i] ELSE g[i - 1] \o ss[i]]
  <2>1. FlattenSeq(ss) = g[Len(ss)]
    BY <1>2 DEF FlattenSeq
  <2>2. Flattening(ss, Len(ss), g)
    <3>1. \E h : h = [i \in 1..Len(ss) |-> IF i = 1 THEN ss[i] ELSE h[i - 1] \o ss[i]]
      BY DEF Flattening
    <3> QED BY <3>1 DEF Flattening
  <2>3. Len(ss) \in Nat /\ Len(ss) \in 1..Len(ss) /\ Len(ss) <= Len(ss) /\ Same(ss, ss, Len(ss))
    BY <1>2 DEF Same
  <2>4. g[Len(ss)] = f[Len(ss)]
    <3> HIDE DEF g
    <3>1. Same(g, f, Len(ss))
      BY <2>2, <2>3, FlatteningSame
    <3> QED BY <2>3, <3>1 DEF Same
  <2> QED BY <1>2, <2>1, <2>4
<1> QED BY <1>1, <1>2

LEMMA FlattenTyped ==
  ASSUME NEW T, NEW ss \in Seq(Seq(T))
  PROVE  FlattenSeq(ss) \in Seq(T)
<1>1. PICK f : Flattening(ss, Len(ss), f) /\ \A i \in 1..Len(ss) : f[i] \in Seq(T)
  <2>1. Len(ss) \in 0..Len(ss)
    OBVIOUS
  <2> QED BY <2>1, FlatteningExists
<1>2. FlattenSeq(ss) = IF Len(ss) = 0 THEN <<>> ELSE f[Len(ss)]
  BY <1>1, FlattenIs
<1>3. Len(ss) \in Nat
  OBVIOUS
<1> QED BY <1>1, <1>2, <1>3

LEMMA FlattenEmpty == FlattenSeq(<<>>) = <<>>
BY DEF FlattenSeq

LEMMA FlattenAppend ==
  ASSUME NEW T, NEW ss \in Seq(Seq(T)), NEW s \in Seq(T)
  PROVE  FlattenSeq(Append(ss, s)) = FlattenSeq(ss) \o s
<1> DEFINE tt == Append(ss, s)
           n == Len(ss)
<1>1. n \in Nat /\ tt \in Seq(Seq(T)) /\ Len(tt) = n + 1 /\ tt[n + 1] = s
      /\ \A i \in 1..n : tt[i] = ss[i]
  BY AppendProperties
<1>2. PICK f : Flattening(ss, n, f) /\ \A i \in 1..n : f[i] \in Seq(T)
  <2>1. n \in 0..n
    BY <1>1
  <2> QED BY <2>1, FlatteningExists
<1>3. PICK g : Flattening(tt, n + 1, g) /\ \A i \in 1..(n + 1) : g[i] \in Seq(T)
  <2>1. n + 1 \in 0..Len(tt)
    BY <1>1
  <2> HIDE DEF tt
  <2> QED BY <1>1, <2>1, FlatteningExists
<1>4. FlattenSeq(tt) = g[n + 1]
  <2>1. Len(tt) # 0
    BY <1>1
  <2> HIDE DEF tt
  <2> QED BY <1>1, <1>3, <2>1, FlattenIs
<1>5. FlattenSeq(ss) = IF n = 0 THEN <<>> ELSE f[n]
  BY <1>2, FlattenIs
<1>6. g[n + 1] = IF n + 1 = 1 THEN tt[n + 1] ELSE g[(n + 1) - 1] \o tt[n + 1]
  <2>1. n + 1 \in 1..(n + 1)
    BY <1>1
  <2> HIDE DEF tt
  <2> QED BY <1>3, <2>1 DEF Flattening
<1>7. CASE n = 0
  <2>1. <<>> \o s = s
    BY ConcatEmptySeq
  <2> QED BY <1>1, <1>4, <1>5, <1>6, <1>7, <2>1
<1>8. CASE n # 0
  <2>1. n \in 1..n /\ (n + 1) - 1 = n /\ n <= n + 1 /\ n + 1 # 1 /\ n + 1 \in Nat
    BY <1>1, <1>8
  <2>2. f[n] = g[n]
    <3> HIDE DEF tt, n
    <3>0. n \in Nat /\ Same(ss, tt, n)
      BY <1>1 DEF Same
    <3>1. Same(f, g, n)
      BY <1>2, <1>3, <2>1, <3>0, FlatteningSame
    <3> QED BY <2>1, <3>1 DEF Same
  <2> QED BY <1>1, <1>4, <1>5, <1>6, <1>8, <2>1, <2>2
<1> QED BY <1>7, <1>8

LEMMA FlattenOne ==
  ASSUME NEW T, NEW s \in Seq(T)
  PROVE  FlattenSeq(<<s>>) = s
<1>1. <<>> \in Seq(Seq(T)) /\ Append(<<>>, s) = <<s>>
  OBVIOUS
<1>2. FlattenSeq(<<s>>) = <<>> \o s
  BY <1>1, FlattenAppend, FlattenEmpty
<1> QED BY <1>2, ConcatEmptySeq

(***************************************************************************)
(* Joined concatenates the texts of blocks: of none, of one more, of one.  *)
(***************************************************************************)
Texts(T, P) == \A b \in T : b.text \in Seq(P)

LEMMA JoinedTyped ==
  ASSUME NEW T, NEW P, Texts(T, P), NEW s \in Seq(T)
  PROVE  /\ [k \in DOMAIN s |-> s[k].text] \in Seq(Seq(P))
         /\ Joined(s) \in Seq(P)
<1>1. [k \in DOMAIN s |-> s[k].text] \in Seq(Seq(P))
  BY DEF Texts
<1> QED BY <1>1, FlattenTyped DEF Joined

LEMMA JoinedEmpty == Joined(<<>>) = <<>>
<1>1. [k \in DOMAIN <<>> |-> <<>>[k].text] = <<>>
  OBVIOUS
<1> QED BY <1>1, FlattenEmpty DEF Joined

LEMMA JoinedAppend ==
  ASSUME NEW T, NEW P, Texts(T, P), NEW s \in Seq(T), NEW b \in T
  PROVE  Joined(Append(s, b)) = Joined(s) \o b.text
<1> DEFINE ss == [k \in DOMAIN s |-> s[k].text]
           t == Append(s, b)
<1>1. ss \in Seq(Seq(P)) /\ b.text \in Seq(P)
  BY JoinedTyped DEF Texts
<1>2. t \in Seq(T) /\ Len(t) = Len(s) + 1 /\ t[Len(s) + 1] = b
      /\ \A i \in 1..Len(s) : t[i] = s[i]
  BY AppendProperties
<1>3. [k \in DOMAIN t |-> t[k].text] = Append(ss, b.text)
  <2>1. [k \in DOMAIN t |-> t[k].text] \in Seq(Seq(P))
    <3> HIDE DEF t
    <3> QED BY <1>2, JoinedTyped
  <2>2. Append(ss, b.text) \in Seq(Seq(P)) /\ Len(Append(ss, b.text)) = Len(s) + 1
    BY <1>1
  <2>3. \A k \in 1..(Len(s) + 1) : [j \in DOMAIN t |-> t[j].text][k] = Append(ss, b.text)[k]
    BY <1>1, <1>2
  <2>4. Len([k \in DOMAIN t |-> t[k].text]) = Len(s) + 1
    BY <1>2
  <2> HIDE DEF ss, t
  <2> QED BY <2>1, <2>2, <2>3, <2>4, SeqEqual
<1> HIDE DEF ss, t
<1>4. Joined(t) = FlattenSeq(ss) \o b.text
  BY <1>1, <1>3, FlattenAppend DEF Joined
<1>5. Joined(s) = FlattenSeq(ss)
  BY DEF Joined, ss
<1> QED BY <1>4, <1>5 DEF t

LEMMA JoinedOne ==
  ASSUME NEW P, NEW b, b.text \in Seq(P)
  PROVE  Joined(<<b>>) = b.text
<1>1. [k \in DOMAIN <<b>> |-> <<b>>[k].text] = <<b.text>>
  OBVIOUS
<1> QED BY <1>1, FlattenOne DEF Joined

(***************************************************************************)
(* A non-empty set of numbers has a least one.                             *)
(***************************************************************************)
LEMMA Least ==
  ASSUME NEW S, S \subseteq Nat, S # {}
  PROVE  \E m \in S : \A k \in S : m <= k
<1>1. PICK m \in S : \A k \in S : ~(<<k, m>> \in OpToRel(<, Nat))
  BY NatLessThanWellFounded, WFMin
<1>2. S \subseteq Nat
  OBVIOUS
<1>3. \A k \in S : ~(k < m)
  BY <1>1, <1>2 DEF OpToRel
<1> QED BY <1>2, <1>3

(***************************************************************************)
(* No message before a system message is another one.  Compaction puts its *)
(* summary behind the leading system messages, and the engine appends      *)
(* none.                                                                   *)
(***************************************************************************)
SystemsFirst(ms) ==
  \A k \in 1..Len(ms) : ms[k].role = "system" => k = 1 \/ ms[k - 1].role = "system"

(***************************************************************************)
(* Then the leading system messages are all of them.                       *)
(***************************************************************************)
LEMMA SystemsPrefix ==
  ASSUME NEW T, NEW ms \in Seq(T), SystemsFirst(ms)
  PROVE  /\ Leading(ms) \in 0..Len(ms)
         /\ \A k \in 1..Leading(ms) : ms[k].role = "system"
         /\ \A k \in (Leading(ms) + 1)..Len(ms) : ms[k].role # "system"
<1> DEFINE n == Len(ms)
           D == {k \in 1..n : \A j \in 1..k : ms[j].role = "system"}
           N == {k \in 1..n : ms[k].role # "system"}
<1>1. n \in Nat
  OBVIOUS
<1> SUFFICES \E L \in 0..n : /\ D = 1..L /\ \A k \in 1..L : ms[k].role = "system"
                             /\ \A k \in (L + 1)..n : ms[k].role # "system"
  <2>1. PICK L \in 0..n : /\ D = 1..L /\ \A k \in 1..L : ms[k].role = "system"
                         /\ \A k \in (L + 1)..n : ms[k].role # "system"
    OBVIOUS
  <2>2. Leading(ms) = Cardinality(D)
    BY DEF Leading
  <2>3. Cardinality(1..L) = L
    <3>1. L \in Nat
      BY <1>1
    <3> QED BY <3>1, IntervalNumbers
  <2> HIDE DEF D, n
  <2>4. Leading(ms) = L
    BY <2>1, <2>2, <2>3
  <2> QED BY <2>1, <2>4 DEF n
<1>2. CASE N = {}
  <2>1. \A k \in 1..n : ms[k].role = "system"
    BY <1>2
  <2>2. D = 1..n
    BY <1>1, <2>1
  <2> HIDE DEF D
  <2> QED BY <1>1, <2>1, <2>2
<1>3. CASE N # {}
  <2>1. PICK b \in N : \A k \in N : b <= k
    <3>1. N \subseteq Nat
      OBVIOUS
    <3> HIDE DEF N
    <3> QED BY <1>3, <3>1, Least
  <2>2. b \in 1..n /\ ms[b].role # "system" /\ \A k \in 1..(b - 1) : ms[k].role = "system"
    BY <1>1, <2>1
  <2>3. D = 1..(b - 1)
    BY <1>1, <2>2
  <2>4. \A k \in b..n : ms[k].role # "system"
    <3> DEFINE C == {k \in b..n : ms[k].role = "system"}
    <3> SUFFICES ASSUME C # {} PROVE FALSE
      OBVIOUS
    <3>1. C \subseteq Nat
      BY <2>2
    <3>2. PICK c \in C : \A k \in C : c <= k
      <4> HIDE DEF C
      <4> QED BY <3>1, Least
    <3>3. c \in b..n /\ ms[c].role = "system" /\ c # b
      BY <2>2, <3>2
    <3>4. c - 1 \in b..n /\ c - 1 \notin C /\ c \in 1..n /\ c # 1
      BY <1>1, <2>2, <3>2, <3>3
    <3> QED BY <3>3, <3>4 DEF SystemsFirst
  <2> HIDE DEF D, N
  <2>5. PICK L : L = b - 1
    OBVIOUS
  <2>6. L \in 0..n /\ D = 1..L /\ L + 1 = b
    BY <1>1, <2>2, <2>3, <2>5
  <2>7. (\A k \in 1..L : ms[k].role = "system") /\ \A k \in (L + 1)..n : ms[k].role # "system"
    BY <2>2, <2>4, <2>5, <2>6
  <2> QED BY <2>6, <2>7
<1> QED BY <1>2, <1>3

(***************************************************************************)
(* A sequence in three parts, a, s and z: by its elements, and as a        *)
(* concatenation.                                                          *)
(***************************************************************************)
Joins(new, a, s, z) ==
  /\ Len(new) = Len(a) + 1 + Len(z)
  /\ \A k \in 1..Len(a) : new[k] = a[k]
  /\ new[Len(a) + 1] = s
  /\ \A k \in 1..Len(z) : new[Len(a) + 1 + k] = z[k]

Splice(a, s, z) == (a \o <<s>>) \o z

LEMMA Spliced ==
  ASSUME NEW T, NEW a \in Seq(T), NEW s \in T, NEW z \in Seq(T), NEW new, new = Splice(a, s, z)
  PROVE  new \in Seq(T) /\ Joins(new, a, s, z)
<1> DEFINE w == a \o <<s>>
<1>1. /\ w \in Seq(T) /\ Len(w) = Len(a) + 1
      /\ \A k \in 1..Len(a) : w[k] = a[k]
      /\ w[Len(a) + 1] = s
  OBVIOUS
<1>2. new = w \o z /\ Len(a) \in Nat /\ Len(z) \in Nat
  BY DEF Splice
<1> HIDE DEF w
<1>3. /\ new \in Seq(T) /\ Len(new) = Len(w) + Len(z)
      /\ \A k \in 1..(Len(w) + Len(z)) : new[k] = IF k <= Len(w) THEN w[k] ELSE z[k - Len(w)]
  <2>1. /\ w \o z \in Seq(T) /\ Len(w \o z) = Len(w) + Len(z)
        /\ \A k \in 1..(Len(w) + Len(z)) : (w \o z)[k] = IF k <= Len(w) THEN w[k] ELSE z[k - Len(w)]
    BY ONLY <1>1, z \in Seq(T), ConcatProperties
  <2> QED BY ONLY <1>2, <2>1
<1>4. \A k \in 1..Len(w) : new[k] = w[k]
  BY ONLY <1>1, <1>2, <1>3
<1>5. \A k \in 1..Len(z) : new[Len(w) + k] = z[k]
  BY ONLY <1>1, <1>2, <1>3
<1> QED BY <1>1, <1>2, <1>3, <1>4, <1>5 DEF Joins

(***************************************************************************)
(* The history `new` is the first L messages of ms, the summary s, and the *)
(* messages of ms from `from` on.                                          *)
(***************************************************************************)
Cut(new, ms, L, from, s) ==
  /\ from \in (L + 1)..Len(ms)
  /\ Len(new) = L + 2 + Len(ms) - from
  /\ \A k \in 1..L : new[k] = ms[k]
  /\ new[L + 1] = s
  /\ \A k \in (L + 2)..Len(new) : k + from - L - 2 \in from..Len(ms) /\ new[k] = ms[k + from - L - 2]

(***************************************************************************)
(* What Compacted makes of a history that is longer than it keeps          *)
(* (Compactor.compact).                                                    *)
(***************************************************************************)
LEMMA CompactedShape ==
  ASSUME NEW T, NEW ms \in Seq(T), NEW keep \in Nat, NEW s \in T,
         NEW L \in 0..Len(ms), L = Leading(ms), ~(Len(ms) - L <= keep),
         NEW from, from = IF keep = 0 THEN L + 1 ELSE Len(ms) - keep + 1,
         NEW new, new = Compacted(ms, keep, s)
  PROVE  new \in Seq(T) /\ Cut(new, ms, L, from, s)
<1> DEFINE n == Len(ms)
           a == SubSeq(ms, 1, L)
           z == SubSeq(ms, from, n)
<1>1. n \in Nat /\ L \in Nat /\ from \in (L + 1)..n
  OBVIOUS
<1>2. new = Splice(a, s, z)
  BY DEF Compacted, Splice
<1>3. a \in Seq(T) /\ Len(a) = L /\ \A k \in 1..L : a[k] = ms[k]
  BY <1>1
<1> DEFINE l == n - from + 1
<1>4. l \in Nat
  BY <1>1
<1>5. z \in Seq(T) /\ Len(z) = l /\ \A k \in 1..l : z[k] = ms[from + k - 1]
  BY <1>1
<1> HIDE DEF a, z, l, n
<1>6. /\ new \in Seq(T) /\ Len(new) = L + 1 + l
      /\ \A k \in 1..L : new[k] = a[k]
      /\ new[L + 1] = s
      /\ \A k \in 1..l : new[L + 1 + k] = z[k]
  <2>1. new \in Seq(T) /\ Joins(new, a, s, z)
    BY <1>2, <1>3, <1>5, Spliced
  <2> QED BY ONLY <1>3, <1>5, <2>1 DEF Joins
<1>7. ASSUME NEW k \in (L + 2)..Len(new)
      PROVE  k + from - L - 2 \in from..n /\ new[k] = ms[k + from - L - 2]
  <2> DEFINE j == k - L - 1
  <2>1. j \in 1..l /\ k = L + 1 + j /\ from + j - 1 = k + from - L - 2 /\ from + j - 1 \in from..n
    BY ONLY <1>1, <1>4, <1>6, <1>7 DEF l
  <2> HIDE DEF j
  <2>2. new[L + 1 + j] = z[j] /\ z[j] = ms[from + j - 1]
    BY ONLY <1>5, <1>6, <2>1
  <2> QED BY ONLY <2>1, <2>2
<1>8. Len(new) = L + 2 + n - from
  BY ONLY <1>1, <1>6 DEF l
<1> QED BY <1>1, <1>3, <1>6, <1>7, <1>8 DEF n, Cut

=============================================================================
