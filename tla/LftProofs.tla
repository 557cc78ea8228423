----------------------------- MODULE LftProofs -----------------------------
(***************************************************************************)
(* For every set of characters, bots and dungeons: the two indices of      *)
(* offers agree, every open offer is a whole party, groups, role checks    *)
(* and the queue are well formed, and who has accepted keeps his place.    *)
(***************************************************************************)
EXTENDS Lft, FiniteSetTheorems, WellFoundedInduction, TLAPS

-----------------------------------------------------------------------------
(***************************************************************************)
(* Folds                                                                   *)
(*                                                                         *)
(* FoldLeft and FoldAscending are recursive functions over the subsets of  *)
(* a finite set of numbers; the largest element is folded last.  Where the *)
(* step of a fold maps a set A of accumulators into itself, the recursion  *)
(* has a solution and its value is in A.                                   *)
(***************************************************************************)

\* Induction over the natural numbers.
LEMMA SetInduction ==
  ASSUME NEW T \in SUBSET Nat, 0 \in T, \A n \in Nat : n \in T => n + 1 \in T
  PROVE  Nat \subseteq T
<1> SUFFICES ASSUME Nat \ T # {}  PROVE  FALSE
  OBVIOUS
<1>1. PICK x \in Nat \ T : \A y \in Nat \ T : ~ (<<y, x>> \in OpToRel(<, Nat))
  BY NatLessThanWellFounded, WFMin
<1>2. \A y \in Nat \ T : ~(y < x)
  BY <1>1 DEF OpToRel
<1>3. x \in Nat /\ x \notin T
  OBVIOUS
<1>4. x - 1 \in Nat /\ x # 0
  BY <1>3
<1>5. x - 1 \in T
  BY <1>2, <1>4
<1>6. (x - 1) + 1 \in T
  BY <1>4, <1>5
<1> QED  BY <1>3, <1>4, <1>6

\* One element less.
LEMMA SmallerSet ==
  ASSUME NEW S, IsFiniteSet(S), NEW s \in SUBSET S, NEW x \in s
  PROVE  /\ s \ {x} \in SUBSET S /\ Cardinality(s) \in Nat /\ Cardinality(s) > 0
         /\ Cardinality(s \ {x}) = Cardinality(s) - 1
<1>1. IsFiniteSet(s)
  BY FS_Subset
<1>2. Cardinality(s \ {x}) = Cardinality(s) - 1 /\ IsFiniteSet(s \ {x})
  BY <1>1, FS_RemoveElement
<1>3. Cardinality(s) \in Nat /\ Cardinality(s \ {x}) \in Nat
  BY <1>1, <1>2, FS_CardinalityType
<1> QED  BY <1>2, <1>3

\* A finite set of numbers has a largest element.
LEMMA MaxIn ==
  ASSUME NEW S \in SUBSET Nat, IsFiniteSet(S), S # {}
  PROVE  Max(S) \in S /\ \A y \in S : y <= Max(S)
<1> DEFINE Top(s) == \E x \in s : \A y \in s : x >= y
           T == {n \in Nat : \A s \in SUBSET S : Cardinality(s) = n /\ s # {} => Top(s)}
<1>1. 0 \in T
  <2> SUFFICES ASSUME NEW s \in SUBSET S, Cardinality(s) = 0, s # {}  PROVE  FALSE
    OBVIOUS
  <2>1. Cardinality(s) > 0
    BY SmallerSet
  <2> QED  BY <2>1
<1>2. ASSUME NEW n \in Nat, n \in T  PROVE  n + 1 \in T
  <2> SUFFICES ASSUME NEW s \in SUBSET S, Cardinality(s) = n + 1, s # {}  PROVE  Top(s)
    OBVIOUS
  <2>1. PICK x \in s : TRUE
    OBVIOUS
  <2>2. s \ {x} \in SUBSET S /\ Cardinality(s \ {x}) = n
    <3>1. Cardinality(s \ {x}) = Cardinality(s) - 1
      BY SmallerSet
    <3> QED  BY <3>1
  <2>3. CASE s \ {x} = {}
    <3>1. \A y \in s : y = x
      BY <2>3
    <3> QED  BY <3>1
  <2>4. CASE s \ {x} # {}
    <3>1. PICK z \in s \ {x} : \A y \in s \ {x} : z >= y
      BY <1>2, <2>2, <2>4
    <3>2. x \in Nat /\ z \in Nat /\ \A y \in s : y \in Nat
      OBVIOUS
    <3>3. CASE x >= z
      BY <3>1, <3>2, <3>3
    <3>4. CASE z >= x
      BY <3>1, <3>2, <3>4
    <3> QED  BY <3>2, <3>3, <3>4
  <2> QED  BY <2>3, <2>4
<1> HIDE DEF T
<1>3. T \in SUBSET Nat
  BY DEF T
<1>4. Nat \subseteq T
  BY <1>1, <1>2, <1>3, SetInduction
<1>5. Cardinality(S) \in Nat
  BY FS_CardinalityType
<1>6. \E x \in S : \A y \in S : x >= y
  BY <1>4, <1>5 DEF T
<1>7. Max(S) \in S /\ \A y \in S : Max(S) >= y
  BY <1>6 DEF Max
<1> QED  BY <1>7

\* A set of numbers has a smallest element.
LEMMA MinIn ==
  ASSUME NEW S \in SUBSET Nat, S # {}
  PROVE  Min(S) \in S /\ \A y \in S : Min(S) <= y
<1>1. PICK x \in S : \A y \in S : ~ (<<y, x>> \in OpToRel(<, Nat))
  BY NatLessThanWellFounded, WFMin
<1>2. \A y \in S : ~(y < x)
  BY <1>1 DEF OpToRel
<1>3. \A y \in S : x =< y
  BY <1>2
<1>4. Min(S) \in S /\ \A y \in S : Min(S) =< y
  BY <1>3 DEF Min
<1> QED  BY <1>4

\* What holds of the start and is kept by every step holds of the result.
Keeps(f, S, P) ==
    /\ <<{}, f[{}]>> \in P
    /\ \A s \in SUBSET S : s # {} /\ <<s \ {Max(s)}, f[s \ {Max(s)}]>> \in P => <<s, f[s]>> \in P

\* What every step of a fold keeps holds of its result.
LEMMA FoldInvariant ==
  ASSUME NEW S \in SUBSET Nat, IsFiniteSet(S), NEW f, NEW P, Keeps(f, S, P)
  PROVE  <<S, f[S]>> \in P
<1> DEFINE T == {n \in Nat : \A s \in SUBSET S : Cardinality(s) = n => <<s, f[s]>> \in P}
<1>1. 0 \in T
  <2>1. \A s \in SUBSET S : Cardinality(s) = 0 => s = {}
    <3> SUFFICES ASSUME NEW s \in SUBSET S, Cardinality(s) = 0, s # {}  PROVE  FALSE
      OBVIOUS
    <3>1. Cardinality(s) > 0
      BY SmallerSet
    <3> QED  BY <3>1
  <2> QED  BY <2>1 DEF Keeps
<1>2. ASSUME NEW n \in Nat, n \in T  PROVE  n + 1 \in T
  <2> SUFFICES ASSUME NEW s \in SUBSET S, Cardinality(s) = n + 1  PROVE  <<s, f[s]>> \in P
    OBVIOUS
  <2>0. Cardinality({}) = 0
    BY FS_EmptySet
  <2>1. s # {}
    <3> SUFFICES ASSUME s = {}  PROVE  FALSE
      OBVIOUS
    <3>1. Cardinality({}) = n + 1
      BY Zenon
    <3> QED  BY <2>0, <3>1
  <2>2. Max(s) \in s
    <3>1. IsFiniteSet(s) /\ s \in SUBSET Nat
      BY FS_Subset
    <3> QED  BY <2>1, <3>1, MaxIn
  <2>3. s \ {Max(s)} \in SUBSET S /\ Cardinality(s \ {Max(s)}) = n
    <3> DEFINE m == Max(s)
    <3>1. Cardinality(s \ {m}) = Cardinality(s) - 1
      BY <2>2, SmallerSet
    <3> HIDE DEF m
    <3>2. s \ {m} \in SUBSET S
      OBVIOUS
    <3>3. Cardinality(s \ {m}) = n
      BY <3>1
    <3> QED  BY <3>2, <3>3 DEF m
  <2>4. <<s \ {Max(s)}, f[s \ {Max(s)}]>> \in P
    BY <1>2, <2>3
  <2> QED  BY <2>1, <2>4 DEF Keeps
<1> HIDE DEF T
<1>3. T \in SUBSET Nat
  BY DEF T
<1>4. Nat \subseteq T
  BY <1>1, <1>2, <1>3, SetInduction
<1>5. Cardinality(S) \in Nat
  BY FS_CardinalityType
<1> QED  BY <1>4, <1>5 DEF T

\* R is a step of a fold with its accumulator in A; h is the fold of every subset.
Steps(R, A, S) == R \in [A \X S -> A]
Folded(h, A, S, b, R) ==
    /\ h \in [SUBSET S -> A]
    /\ h[{}] = b
    /\ \A s \in SUBSET S : s # {} => h[s] = R[<<h[s \ {Max(s)}], Max(s)>>]

\* The recursion has a solution.
LEMMA FoldExists ==
  ASSUME NEW A, NEW S \in SUBSET Nat, IsFiniteSet(S), NEW b \in A, NEW R, Steps(R, A, S)
  PROVE  \E h : Folded(h, A, S, b, R)
<1> USE DEF Steps
<1> DEFINE D(n) == {s \in SUBSET S : Cardinality(s) <= n}
           Ok(h, n) == /\ h \in [D(n) -> A] /\ h[{}] = b
                       /\ \A s \in D(n) : s # {} => h[s] = R[<<h[s \ {Max(s)}], Max(s)>>]
           T == {n \in Nat : \E h : Ok(h, n)}
<1>0. Cardinality({}) = 0
  BY FS_EmptySet
<1>1. \A n \in Nat : {} \in D(n)
  BY <1>0
<1>2. ASSUME NEW n \in Nat, NEW s \in D(n + 1), s # {}
      PROVE  s \ {Max(s)} \in D(n) /\ Max(s) \in S
  <2>1. IsFiniteSet(s) /\ s \in SUBSET Nat
    BY FS_Subset
  <2>2. Max(s) \in s
    BY <1>2, <2>1, MaxIn
  <2> DEFINE m == Max(s)
  <2>3. Cardinality(s \ {m}) = Cardinality(s) - 1 /\ Cardinality(s) \in Nat
    BY <2>2, SmallerSet
  <2>4. m \in s
    BY <2>2
  <2> HIDE DEF m
  <2>5. s \ {m} \in D(n) /\ m \in S
    BY <2>3, <2>4
  <2> QED  BY <2>5 DEF m
<1>3. 0 \in T
  <2>1. \A s \in D(0) : s = {}
    <3> SUFFICES ASSUME NEW s \in D(0), s # {}  PROVE  FALSE
      OBVIOUS
    <3>1. Cardinality(s) > 0 /\ Cardinality(s) \in Nat
      BY SmallerSet
    <3> QED  BY <3>1
  <2>2. Ok([s \in D(0) |-> b], 0)
    BY <1>1, <2>1
  <2> QED  BY <2>2
<1>4. ASSUME NEW n \in Nat, n \in T  PROVE  n + 1 \in T
  <2>1. PICK h : Ok(h, n)
    BY <1>4
  <2> DEFINE g == [s \in D(n + 1) |-> IF s = {} THEN b ELSE R[<<h[s \ {Max(s)}], Max(s)>>]]
  <2>2. ASSUME NEW s \in D(n + 1)
        PROVE  g[s] \in A
    BY <1>2, <2>1, <2>2
  <2>3. ASSUME NEW s \in D(n)  PROVE  s \in D(n + 1) /\ g[s] = h[s]
    <3>1. s \in D(n + 1)
      <4>1. Cardinality(s) \in Nat
        BY FS_Subset, FS_CardinalityType
      <4> QED  BY <4>1
    <3>2. CASE s = {}
      BY <2>1, <3>1, <3>2
    <3>3. CASE s # {}
      BY <2>1, <3>1, <3>3
    <3> QED  BY <3>1, <3>2, <3>3
  <2>4. ASSUME NEW s \in D(n + 1), s # {}
        PROVE  g[s] = R[<<g[s \ {Max(s)}], Max(s)>>]
    <3>1. s \ {Max(s)} \in D(n)
      BY <1>2, <2>4
    <3>2. g[s \ {Max(s)}] = h[s \ {Max(s)}]
      <4> HIDE DEF D, g
      <4> QED  BY <2>3, <3>1
    <3>3. g[s] = R[<<h[s \ {Max(s)}], Max(s)>>]
      BY <2>4
    <3> QED  BY <3>2, <3>3
  <2>5. g \in [D(n + 1) -> A]
    BY <2>2
  <2>6. g[{}] = b
    <3>1. n + 1 \in Nat
      OBVIOUS
    <3>2. {} \in D(n + 1)
      BY <1>1, <3>1
    <3> QED  BY <3>2
  <2> HIDE DEF g
  <2>7. Ok(g, n + 1)
    BY <2>4, <2>5, <2>6
  <2> HIDE DEF Ok
  <2>8. n + 1 \in Nat
    OBVIOUS
  <2> QED  BY <2>7, <2>8
<1> HIDE DEF Ok
<1>5. T \in SUBSET Nat
  OBVIOUS
<1> HIDE DEF T
<1>6. Nat \subseteq T
  BY <1>3, <1>4, <1>5, SetInduction
<1>7. Cardinality(S) \in Nat
  BY FS_CardinalityType
<1>8. PICK h : Ok(h, Cardinality(S))
  BY <1>6, <1>7 DEF T
<1>9. D(Cardinality(S)) = SUBSET S
  BY FS_Subset
<1> QED  BY <1>8, <1>9 DEF Ok, Folded

\* The largest element of every subset, and folds whose invariant is a set.
LEMMA MaxOfSubset ==
  ASSUME NEW S \in SUBSET Nat, IsFiniteSet(S), NEW s \in SUBSET S, s # {}
  PROVE  Max(s) \in s /\ \A y \in s : y <= Max(s)
<1>1. IsFiniteSet(s) /\ s \in SUBSET Nat
  BY FS_Subset
<1> QED  BY <1>1, MaxIn

KeepsIn(f, S, A) ==
    f[{}] \in A /\ \A s \in SUBSET S : s # {} /\ f[s \ {Max(s)}] \in A => f[s] \in A

\* The result of a fold is in the set its steps stay in.
LEMMA FoldIn ==
  ASSUME NEW S \in SUBSET Nat, IsFiniteSet(S), NEW f, NEW A, KeepsIn(f, S, A)
  PROVE  f[S] \in A
<1> DEFINE P == (SUBSET S) \X A
<1>1. <<{}, f[{}]>> \in P
  BY DEF KeepsIn
<1>2. ASSUME NEW s \in SUBSET S, s # {}, <<s \ {Max(s)}, f[s \ {Max(s)}]>> \in P
      PROVE  <<s, f[s]>> \in P
  BY <1>2 DEF KeepsIn
<1>3. Keeps(f, S, P)
  <2> HIDE DEF P
  <2> QED  BY <1>1, <1>2 DEF Keeps
<1>4. <<S, f[S]>> \in P
  <2> HIDE DEF P
  <2> QED  BY <1>3, FoldInvariant
<1> QED  BY <1>4

\* The numbers of the elements of a list.
LEMMA SeqDomain ==
  ASSUME NEW T, NEW seq \in Seq(T)
  PROVE  DOMAIN seq \in SUBSET Nat /\ IsFiniteSet(DOMAIN seq)
         /\ Cardinality(DOMAIN seq) = Len(seq) /\ \A i \in DOMAIN seq : seq[i] \in T
<1>1. Len(seq) \in Nat /\ DOMAIN seq = 1..Len(seq)
  OBVIOUS
<1>2. IsFiniteSet(1..Len(seq)) /\ Cardinality(1..Len(seq)) = Len(seq)
  BY <1>1, FS_Interval
<1> QED  BY <1>1, <1>2

\* The list r holds the elements of seq with numbers in s that are in S, in
\* their order: m gives the number of each.
Picked(r, seq, S, s) ==
    /\ \E m \in [DOMAIN r -> s] :
        /\ \A j, k \in DOMAIN r : j < k => m[j] < m[k]
        /\ \A k \in DOMAIN r : r[k] = seq[m[k]] /\ seq[m[k]] \in S
    /\ \A i \in s : seq[i] \in S => \E k \in DOMAIN r : r[k] = seq[i]
    /\ Len(r) <= Cardinality(s)

\* One more place of the list is looked at.
LEMMA PickedNext ==
  ASSUME NEW T, NEW seq \in Seq(T), NEW S, NEW s \in SUBSET (DOMAIN seq), NEW x \in s,
         \A y \in s : y <= x, NEW r \in Seq(T), Picked(r, seq, S, s \ {x})
  PROVE  IF seq[x] \in S THEN Picked(Append(r, seq[x]), seq, S, s) ELSE Picked(r, seq, S, s)
<1>0. s \in SUBSET Nat /\ IsFiniteSet(DOMAIN seq)
  BY SeqDomain
<1>1. Cardinality(s) \in Nat /\ Cardinality(s \ {x}) = Cardinality(s) - 1
  BY <1>0, SmallerSet
<1>2. Len(r) \in Nat /\ DOMAIN r = 1..Len(r) /\ Len(r) <= Cardinality(s \ {x})
  BY DEF Picked
<1>3. PICK m \in [DOMAIN r -> s \ {x}] :
        /\ \A j, k \in DOMAIN r : j < k => m[j] < m[k]
        /\ \A k \in DOMAIN r : r[k] = seq[m[k]] /\ seq[m[k]] \in S
  BY DEF Picked
<1>4. \A i \in s \ {x} : seq[i] \in S => \E k \in DOMAIN r : r[k] = seq[i]
  BY DEF Picked
<1>5. \A k \in DOMAIN r : m[k] \in s /\ m[k] < x
  BY <1>0, <1>3
<1>6. CASE seq[x] \in S
  <2> DEFINE q == Append(r, seq[x])
             w == [k \in DOMAIN q |-> IF k \in DOMAIN r THEN m[k] ELSE x]
  <2>1. seq[x] \in T
    BY SeqDomain
  <2>2. /\ q \in Seq(T) /\ Len(q) = Len(r) + 1 /\ DOMAIN q = 1..(Len(r) + 1)
        /\ \A k \in DOMAIN r : q[k] = r[k] /\ k \in DOMAIN q
        /\ q[Len(r) + 1] = seq[x]
    BY <1>2, <2>1
  <2>3. \A k \in DOMAIN q : k \in DOMAIN r \/ (k = Len(r) + 1 /\ k \notin DOMAIN r)
    BY <1>2, <2>2
  <2> HIDE DEF q
  <2>4. w \in [DOMAIN q -> s]
    BY <1>5
  <2>5. ASSUME NEW j \in DOMAIN q, NEW k \in DOMAIN q, j < k
        PROVE  w[j] < w[k]
    <3>1. j \in DOMAIN r
      BY <1>2, <2>2, <2>3, <2>5
    <3>2. CASE k \in DOMAIN r
      BY <1>3, <2>5, <3>1, <3>2
    <3>3. CASE k \notin DOMAIN r
      BY <1>5, <3>1, <3>3
    <3> QED  BY <3>2, <3>3
  <2>6. ASSUME NEW k \in DOMAIN q
        PROVE  q[k] = seq[w[k]] /\ seq[w[k]] \in S
    <3>1. CASE k \in DOMAIN r
      <4>1. w[k] = m[k] /\ q[k] = r[k]
        BY <2>2, <3>1
      <4> QED  BY <1>3, <3>1, <4>1
    <3>2. CASE k \notin DOMAIN r
      <4>1. w[k] = x /\ q[k] = seq[x]
        BY <2>2, <2>3, <3>2
      <4> QED  BY <1>6, <4>1
    <3> QED  BY <3>1, <3>2
  <2>7. ASSUME NEW i \in s, seq[i] \in S
        PROVE  \E k \in DOMAIN q : q[k] = seq[i]
    <3>1. CASE i = x
      <4>1. Len(r) + 1 \in DOMAIN q
        BY <1>2, <2>2
      <4> QED  BY <2>2, <3>1, <4>1
    <3>2. CASE i # x
      <4>1. PICK k \in DOMAIN r : r[k] = seq[i]
        BY <1>4, <2>7, <3>2
      <4> QED  BY <2>2, <4>1
    <3> QED  BY <3>1, <3>2
  <2>8. Len(q) <= Cardinality(s)
    BY <1>1, <1>2, <2>2
  <2> HIDE DEF w
  <2>9. Picked(q, seq, S, s)
    BY <2>4, <2>5, <2>6, <2>7, <2>8 DEF Picked
  <2> QED  BY <1>6, <2>9 DEF q
<1>7. CASE seq[x] \notin S
  <2>1. m \in [DOMAIN r -> s]
    BY <1>3
  <2>2. \A i \in s : seq[i] \in S => \E k \in DOMAIN r : r[k] = seq[i]
    BY <1>4, <1>7
  <2>3. Len(r) <= Cardinality(s)
    BY <1>1, <1>2
  <2>4. Picked(r, seq, S, s)
    BY <1>3, <2>1, <2>2, <2>3 DEF Picked
  <2> QED  BY <1>7, <2>4
<1> QED  BY <1>6, <1>7

\* No place of the list has been looked at.
LEMMA PickedNone ==
  ASSUME NEW r, DOMAIN r = {}, Len(r) = 0, NEW seq, NEW S
  PROVE  Picked(r, seq, S, {})
<1>1. Cardinality({}) = 0
  BY FS_EmptySet
<1>2. Len(r) <= Cardinality({})
  BY <1>1
<1> DEFINE m == [k \in DOMAIN r |-> k]
<1>3. m \in [DOMAIN r -> {}]
  OBVIOUS
<1> HIDE DEF m
<1>4. /\ \A j, k \in DOMAIN r : j < k => m[j] < m[k]
      /\ \A k \in DOMAIN r : r[k] = seq[m[k]] /\ seq[m[k]] \in S
  OBVIOUS
<1> QED  BY <1>2, <1>3, <1>4, Zenon DEF Picked

\* Only keeps the elements of S.
LEMMA OnlyPicked ==
  ASSUME NEW T, NEW seq \in Seq(T), NEW S0
  PROVE  Only(seq, S0) \in Seq(T) /\ Picked(Only(seq, S0), seq, S0, DOMAIN seq)
<1> DEFINE A == Seq(T)
           S == DOMAIN seq
           b == <<>>
           R == [x \in A \X S |-> AppendIf(S0, x[1], seq[x[2]])]
           Eq(it) == it = [s \in SUBSET S |->
                             IF s = {} THEN b
                             ELSE AppendIf(S0, it[s \ {Max(s)}], seq[Max(s)])]
           f == CHOOSE it : Eq(it)
<1>1. b \in A
  OBVIOUS
<1>2. S \in SUBSET Nat /\ IsFiniteSet(S)
  BY SeqDomain
<1>3. \A a \in A, i \in S : AppendIf(S0, a, seq[i]) \in A
  BY SeqDomain DEF AppendIf
<1>4. Only(seq, S0) = f[S]
  BY DEF Only, FoldLeft, MapThenFoldSet, b, S
<1> HIDE DEF A, S, b
<1>5. \A s \in SUBSET S : s # {} => Max(s) \in s
  BY <1>2, MaxOfSubset
<1>6. Steps(R, A, S)
  BY <1>3 DEF Steps
<1>7. PICK h : Folded(h, A, S, b, R)
  <2> HIDE DEF R
  <2> QED  BY <1>1, <1>2, <1>6, FoldExists
<1>8. Eq(h)
  <2> DEFINE F(s) == IF s = {} THEN b ELSE AppendIf(S0, h[s \ {Max(s)}], seq[Max(s)])
  <2>1. ASSUME NEW s \in SUBSET S, s # {}
        PROVE  h[s] = AppendIf(S0, h[s \ {Max(s)}], seq[Max(s)])
    <3>1. h[s \ {Max(s)}] \in A /\ Max(s) \in S
      BY <1>5, <1>7, <2>1 DEF Folded
    <3>2. h[s] = R[<<h[s \ {Max(s)}], Max(s)>>]
      BY <1>7, <2>1 DEF Folded
    <3> QED  BY <3>1, <3>2
  <2>2. \A s \in SUBSET S : h[s] = F(s)
    BY <1>7, <2>1 DEF Folded
  <2> HIDE DEF F
  <2>3. h = [s \in SUBSET S |-> F(s)]
    BY <1>7, <2>2 DEF Folded
  <2> QED  BY <2>3 DEF F
<1>9. Eq(f)
  <2> HIDE DEF Eq
  <2> QED  BY <1>8, Zenon
<1> HIDE DEF f
<1>10. f[{}] = b /\ \A s \in SUBSET S : s # {} => f[s] = AppendIf(S0, f[s \ {Max(s)}], seq[Max(s)])
  BY <1>9
<1> DEFINE P == {x \in (SUBSET S) \X A : Picked(x[2], seq, S0, x[1])}
<1>11. <<{}, f[{}]>> \in P
  <2>1. f[{}] = <<>> /\ DOMAIN <<>> = {} /\ Len(<<>>) = 0
    BY <1>10 DEF b
  <2>4. Picked(<<>>, seq, S0, {})
    BY <2>1, PickedNone
  <2>5. f[{}] \in A
    BY <1>1, <1>10
  <2> QED  BY <2>1, <2>4, <2>5
<1>12. ASSUME NEW s \in SUBSET S, s # {}, <<s \ {Max(s)}, f[s \ {Max(s)}]>> \in P
       PROVE  <<s, f[s]>> \in P
  <2> DEFINE x == Max(s)
             r == f[s \ {x}]
  <2>1. x \in s /\ \A y \in s : y <= x
    BY <1>2, <1>12, MaxOfSubset
  <2>2. r \in A /\ Picked(r, seq, S0, s \ {x})
    BY <1>12
  <2>3. f[s] = IF seq[x] \in S0 THEN Append(r, seq[x]) ELSE r
    BY <1>10, <1>12 DEF AppendIf
  <2>4. f[s] \in A
    BY <1>3, <1>10, <1>12, <2>1, <2>2
  <2> HIDE DEF x, r
  <2>5. Picked(f[s], seq, S0, s)
    <3>1. CASE seq[x] \in S0
      <4>1. Picked(Append(r, seq[x]), seq, S0, s)
        BY <2>1, <2>2, <3>1, PickedNext DEF A, S
      <4> QED  BY <2>3, <3>1, <4>1
    <3>2. CASE seq[x] \notin S0
      <4>1. Picked(r, seq, S0, s)
        BY <2>1, <2>2, <3>2, PickedNext DEF A, S
      <4> QED  BY <2>3, <3>2, <4>1
    <3> QED  BY <3>1, <3>2
  <2> QED  BY <2>4, <2>5
<1>13. <<S, f[S]>> \in P
  <2> HIDE DEF P
  <2>1. Keeps(f, S, P)
    BY <1>11, <1>12 DEF Keeps
  <2> QED  BY <1>2, <2>1, FoldInvariant
<1> QED  BY <1>4, <1>13 DEF A, S

\* Only returns the elements of the list that are in S.
LEMMA OnlyOK ==
  ASSUME NEW T, NEW seq \in Seq(T), NEW S
  PROVE  /\ Only(seq, S) \in Seq(T)
         /\ ToSet(Only(seq, S)) = ToSet(seq) \cap S
         /\ Len(Only(seq, S)) <= Len(seq)
<1> DEFINE r == Only(seq, S)
<1>1. r \in Seq(T) /\ Picked(r, seq, S, DOMAIN seq)
  BY OnlyPicked
<1> HIDE DEF r
<1>2. Len(r) <= Len(seq)
  BY <1>1, SeqDomain DEF Picked
<1>3. \A k \in DOMAIN r : \E i \in DOMAIN seq : r[k] = seq[i] /\ seq[i] \in S
  BY <1>1 DEF Picked
<1>4. \A i \in DOMAIN seq : seq[i] \in S => \E k \in DOMAIN r : r[k] = seq[i]
  BY <1>1 DEF Picked
<1>5. ToSet(r) = ToSet(seq) \cap S
  BY <1>3, <1>4 DEF ToSet
<1> QED  BY <1>1, <1>2, <1>5 DEF r

\* A list without repetition stays one.
LEMMA OnlyDistinct ==
  ASSUME NEW T, NEW seq \in Seq(T), NEW S, NEW j \in DOMAIN Only(seq, S),
         NEW k \in DOMAIN Only(seq, S), j # k
  PROVE  \E x, y \in DOMAIN seq : x # y /\ Only(seq, S)[j] = seq[x] /\ Only(seq, S)[k] = seq[y]
<1> DEFINE r == Only(seq, S)
<1>1. r \in Seq(T) /\ Picked(r, seq, S, DOMAIN seq)
  BY OnlyPicked
<1>2. j \in DOMAIN r /\ k \in DOMAIN r
  OBVIOUS
<1> HIDE DEF r
<1>3. PICK m \in [DOMAIN r -> DOMAIN seq] :
        /\ \A u, v \in DOMAIN r : u < v => m[u] < m[v]
        /\ \A u \in DOMAIN r : r[u] = seq[m[u]] /\ seq[m[u]] \in S
  BY <1>1 DEF Picked
<1>4. DOMAIN r \subseteq Nat /\ DOMAIN seq \subseteq Nat
  BY <1>1, SeqDomain
<1>5. m[j] # m[k] /\ m[j] \in DOMAIN seq /\ m[k] \in DOMAIN seq
  <2>1. j < k \/ k < j
    BY <1>2, <1>4
  <2> QED  BY <1>2, <1>3, <1>4, <2>1
<1>6. r[j] = seq[m[j]] /\ r[k] = seq[m[k]]
  BY <1>2, <1>3
<1> QED  BY <1>5, <1>6 DEF r

-----------------------------------------------------------------------------
(***************************************************************************)
(* Maps                                                                    *)
(***************************************************************************)

\* A map from some of D to R.
PFun(D, R) == UNION {[E -> R] : E \in SUBSET D}

\* A function on a part of D is a map.
LEMMA PFunOf ==
  ASSUME NEW D, NEW R, NEW E \in SUBSET D, NEW f \in [E -> R]
  PROVE  f \in PFun(D, R)
BY DEF PFun

\* A map has its keys in D and its values in R.
LEMMA PFunIs ==
  ASSUME NEW D, NEW R, NEW f \in PFun(D, R)
  PROVE  DOMAIN f \in SUBSET D /\ f \in [DOMAIN f -> R] /\ \A x \in DOMAIN f : f[x] \in R
<1>1. PICK E \in SUBSET D : f \in [E -> R]
  BY DEF PFun
<1> QED  BY <1>1

\* The empty map.
LEMMA PFunEmpty ==
  ASSUME NEW D, NEW R
  PROVE  <<>> \in PFun(D, R) /\ DOMAIN <<>> = {}
<1>1. <<>> \in [{} -> R]
  OBVIOUS
<1> QED  BY <1>1, PFunOf

\* Setting an entry gives a map.
LEMMA PutOK ==
  ASSUME NEW D, NEW R, NEW f \in PFun(D, R), NEW k \in D, NEW v \in R
  PROVE  Put(f, k, v) \in PFun(D, R)
<1>1. DOMAIN f \in SUBSET D /\ f \in [DOMAIN f -> R]
  BY PFunIs
<1>2. DOMAIN f \cup {k} \in SUBSET D /\ Put(f, k, v) \in [DOMAIN f \cup {k} -> R]
  BY <1>1 DEF Put
<1> QED  BY <1>2, PFunOf


\* Erasing entries gives a map.
LEMMA RestrictOK ==
  ASSUME NEW D, NEW R, NEW f \in PFun(D, R), NEW E \in SUBSET (DOMAIN f)
  PROVE  Restrict(f, E) \in PFun(D, R)
<1>1. DOMAIN f \in SUBSET D /\ f \in [DOMAIN f -> R]
  BY PFunIs
<1>2. E \in SUBSET D /\ Restrict(f, E) \in [E -> R]
  BY <1>1 DEF Restrict
<1> QED  BY <1>2, PFunOf


-----------------------------------------------------------------------------
(***************************************************************************)
(* Groups                                                                  *)
(***************************************************************************)

Group == [leader : Player, members : Seq(Player), lft : BOOLEAN]

\* A group is never empty nor too large, its leader is a member and nobody is
\* a member twice.
GroupOK(g) ==
    /\ Len(g.members) \in 1..GroupSize
    /\ g.leader \in ToSet(g.members)
    /\ \A i, j \in DOMAIN g.members : g.members[i] = g.members[j] => i = j

Apart(g, h) == ToSet(g.members) \cap ToSet(h.members) = {}

\* Nobody is in two groups.
Parties == {gs \in SUBSET Group : /\ \A g \in gs : GroupOK(g)
                                  /\ \A g, h \in gs : g = h \/ Apart(g, h)}

\* There is room for a tank, a healer and one more at least.
LEMMA GroupSizeNat ==
  GroupSize \in Nat /\ GroupSize >= 3
BY LftAssumption DEF GroupSize

\* Player::GetGroup returns a group the player is in.
LEMMA GetGroupOK ==
  ASSUME NEW gs \in Parties, NEW p, IsGrouped(gs, p)
  PROVE  /\ GetGroup(gs, p) \in gs /\ GetGroup(gs, p) \in Group /\ GroupOK(GetGroup(gs, p))
         /\ p \in ToSet(GetGroup(gs, p).members)
<1>1. GetGroup(gs, p) \in gs /\ p \in ToSet(GetGroup(gs, p).members)
  BY DEF IsGrouped, GetGroup
<1> HIDE DEF GetGroup
<1> QED  BY <1>1 DEF Parties

\* Disbanding groups leaves the others well formed.
LEMMA FewerParties ==
  ASSUME NEW gs \in Parties, NEW hs \in SUBSET gs
  PROVE  hs \in Parties
BY DEF Parties

\* A well formed group whose members are in no other may be added.
LEMMA OneMoreParty ==
  ASSUME NEW gs \in Parties, NEW h \in Group, GroupOK(h), \A g \in gs : Apart(g, h)
  PROVE  gs \cup {h} \in Parties
<1>1. \A g \in gs : Apart(h, g)
  BY DEF Apart
<1> QED  BY <1>1 DEF Parties

\* The members of a group are characters.
LEMMA MembersOf ==
  ASSUME NEW g \in Group
  PROVE  g.members \in Seq(Player) /\ ToSet(g.members) \subseteq Player
<1>1. g.members \in Seq(Player)
  BY DEF Group
<1> QED  BY <1>1, SeqDomain DEF ToSet

\* Group::Create.
LEMMA CreateOK ==
  ASSUME NEW gs \in Parties, NEW p \in Player, ~IsGrouped(gs, p), NEW l \in BOOLEAN
  PROVE  Create(gs, p, l) \in Parties
<1> DEFINE h == [leader |-> p, members |-> <<p>>, lft |-> l]
<1>1. h \in Group
  BY DEF Group
<1>2. h.members = <<p>> /\ h.leader = p /\ Len(<<p>>) = 1 /\ DOMAIN <<p>> = {1} /\ <<p>>[1] = p
  OBVIOUS
<1>3. Create(gs, p, l) = gs \cup {h}
  BY DEF Create
<1> HIDE DEF h
<1>4. ToSet(h.members) = {p}
  BY <1>2 DEF ToSet
<1>5. GroupOK(h)
  BY <1>2, <1>4, GroupSizeNat DEF GroupOK
<1>6. \A g \in gs : Apart(g, h)
  BY <1>4 DEF Apart, IsGrouped
<1> QED  BY <1>1, <1>3, <1>5, <1>6, OneMoreParty

\* Group::AddMember, when the group has room.
LEMMA AddMemberOK ==
  ASSUME NEW gs \in Parties, NEW g \in gs, ~IsFull(g), NEW p \in Player, ~IsGrouped(gs, p)
  PROVE  AddMember(gs, g, p) \in Parties
<1> DEFINE ms == Append(g.members, p)
           h == [g EXCEPT !.members = ms]
<1>1. g \in Group /\ GroupOK(g) /\ g.members \in Seq(Player)
  BY MembersOf DEF Parties
<1>2. /\ ms \in Seq(Player) /\ Len(ms) = Len(g.members) + 1
      /\ DOMAIN ms = 1..(Len(g.members) + 1) /\ DOMAIN g.members = 1..Len(g.members)
      /\ ms[Len(g.members) + 1] = p
      /\ \A i \in DOMAIN g.members : ms[i] = g.members[i]
  BY <1>1
<1>3. AddMember(gs, g, p) = (gs \ {g}) \cup {h}
  BY DEF AddMember
<1>4. p \notin ToSet(g.members)
  BY DEF IsGrouped
<1> HIDE DEF ms
<1>5. h \in Group /\ h.members = ms /\ h.leader = g.leader
  BY <1>1, <1>2 DEF Group
<1> HIDE DEF h
<1>6. ToSet(ms) = ToSet(g.members) \cup {p}
  <2>1. Len(g.members) \in Nat
    BY <1>1
  <2>2. \A i \in DOMAIN ms : i \in DOMAIN g.members \/ i = Len(g.members) + 1
    BY <1>2, <2>1
  <2>3. Len(g.members) + 1 \in DOMAIN ms /\ \A i \in DOMAIN g.members : i \in DOMAIN ms
    BY <1>2, <2>1
  <2> QED  BY <1>2, <2>2, <2>3 DEF ToSet
<1>7. GroupOK(h)
  <2>1. Len(ms) \in 1..GroupSize
    BY <1>1, <1>2, GroupSizeNat DEF GroupOK, IsFull
  <2>2. ASSUME NEW i \in DOMAIN ms, NEW j \in DOMAIN ms, ms[i] = ms[j]
        PROVE  i = j
    <3>1. \A k \in DOMAIN g.members : g.members[k] # p
      BY <1>4 DEF ToSet
    <3>2. \A k \in DOMAIN ms : k \in DOMAIN g.members \/ k = Len(g.members) + 1
      BY <1>1, <1>2
    <3> QED  BY <1>1, <1>2, <2>2, <3>1, <3>2 DEF GroupOK
  <2> QED  BY <1>1, <1>5, <1>6, <2>1, <2>2 DEF GroupOK
<1>8. gs \ {g} \in Parties
  BY FewerParties
<1>9. ASSUME NEW k \in gs \ {g}  PROVE  Apart(k, h)
  <2>1. Apart(k, g)
    BY DEF Parties
  <2>2. p \notin ToSet(k.members)
    BY DEF IsGrouped
  <2> QED  BY <1>5, <1>6, <2>1, <2>2 DEF Apart
<1> QED  BY <1>3, <1>5, <1>7, <1>8, <1>9, OneMoreParty

\* Group::_chooseLeader chooses one of the members.
LEMMA ChooseLeaderOK ==
  ASSUME NEW members \in Seq(Player), members # <<>>, NEW online
  PROVE  ChooseLeader(members, online) \in ToSet(members)
<1> DEFINE here == Only(members, online)
<1>1. here \in Seq(Player) /\ ToSet(here) = ToSet(members) \cap online
  BY OnlyOK
<1>2. ChooseLeader(members, online) = Head(here \o members)
  BY DEF ChooseLeader
<1> HIDE DEF here
<1>3. CASE here = <<>>
  <2>1. Head(here \o members) = members[1] /\ 1 \in DOMAIN members
    BY <1>3
  <2> QED  BY <1>2, <2>1 DEF ToSet
<1>4. CASE here # <<>>
  <2>1. Head(here \o members) = here[1] /\ 1 \in DOMAIN here
    BY <1>1, <1>4
  <2>2. here[1] \in ToSet(here)
    BY <2>1 DEF ToSet
  <2> QED  BY <1>1, <1>2, <2>1, <2>2
<1> QED  BY <1>3, <1>4

\* Group::RemoveMember: the rest is a group with a leader of its own, or there
\* is none.
LEMMA RemoveMemberOK ==
  ASSUME NEW gs \in Parties, NEW p, IsGrouped(gs, p), NEW online
  PROVE  RemoveMember(gs, p, online) \in Parties
<1> DEFINE g == GetGroup(gs, p)
           rest == Only(g.members, Player \ {p})
           l == IF g.leader = p THEN ChooseLeader(rest, online) ELSE g.leader
           h == [g EXCEPT !.members = rest, !.leader = l]
<1>1. g \in gs /\ g \in Group /\ GroupOK(g)
  BY GetGroupOK
<1>2. g.members \in Seq(Player) /\ ToSet(g.members) \subseteq Player
  BY <1>1, MembersOf
<1>3. /\ rest \in Seq(Player) /\ Len(rest) <= Len(g.members)
      /\ ToSet(rest) = ToSet(g.members) \cap (Player \ {p})
  BY <1>2, OnlyOK
<1>4. gs \ {g} \in Parties
  BY FewerParties
<1>5. RemoveMember(gs, p, online) = (gs \ {g}) \cup IF Len(g.members) > 2 THEN {h} ELSE {}
  BY DEF RemoveMember
<1>6. \A j, k \in DOMAIN rest : j # k => \E x, y \in DOMAIN g.members :
          x # y /\ rest[j] = g.members[x] /\ rest[k] = g.members[y]
  BY <1>2, OnlyDistinct
<1> HIDE DEF rest, g
<1>7. CASE Len(g.members) > 2
  <2>1. 1 \in DOMAIN g.members /\ 2 \in DOMAIN g.members
    BY <1>2, <1>7
  <2>2. g.members[1] # g.members[2]
    BY <1>1, <2>1 DEF GroupOK
  <2>3. g.members[1] \in ToSet(g.members) /\ g.members[2] \in ToSet(g.members)
    BY <2>1 DEF ToSet
  <2>4. ToSet(rest) # {}
    BY <1>2, <1>3, <2>2, <2>3
  <2>5. Len(rest) \in Nat /\ Len(rest) > 0 /\ rest # <<>>
    <3>1. DOMAIN rest # {}
      BY <2>4 DEF ToSet
    <3> QED  BY <1>3, <3>1
  <2>6. ChooseLeader(rest, online) \in ToSet(rest)
    BY <1>3, <2>5, ChooseLeaderOK
  <2>7. l \in ToSet(rest) /\ l \in Player
    <3>1. g.leader \in ToSet(g.members)
      BY <1>1 DEF GroupOK
    <3> QED  BY <1>2, <1>3, <2>6, <3>1
  <2> HIDE DEF l
  <2>8. h \in Group /\ h.members = rest /\ h.leader = l
    BY <1>1, <1>3, <2>7 DEF Group
  <2> HIDE DEF h
  <2>9. Len(rest) \in 1..GroupSize
    BY <1>1, <1>2, <1>3, <2>5, GroupSizeNat DEF GroupOK
  <2>10. \A j, k \in DOMAIN rest : rest[j] = rest[k] => j = k
    BY <1>1, <1>6 DEF GroupOK
  <2>11. GroupOK(h)
    BY <2>7, <2>8, <2>9, <2>10 DEF GroupOK
  <2>12. \A k \in gs \ {g} : Apart(k, h)
    <3>1. \A k \in gs \ {g} : Apart(k, g)
      BY <1>1 DEF Parties
    <3> QED  BY <1>3, <2>8, <3>1 DEF Apart
  <2>13. (gs \ {g}) \cup {h} \in Parties
    BY <1>4, <2>8, <2>11, <2>12, OneMoreParty
  <2> QED  BY <1>5, <1>7, <2>13
<1>8. CASE ~(Len(g.members) > 2)
  BY <1>4, <1>5, <1>8
<1> QED  BY <1>7, <1>8

\* The leader's group becomes the finder's.
LEMMA AdoptGroupOK ==
  ASSUME NEW gs \in Parties, NEW p \in Player
  PROVE  AdoptGroup(gs, p) \in Parties /\ IsGrouped(AdoptGroup(gs, p), p)
<1>1. CASE IsGrouped(gs, p)
  <2> DEFINE g == GetGroup(gs, p)
             h == [g EXCEPT !.lft = TRUE]
  <2>1. g \in gs /\ g \in Group /\ GroupOK(g) /\ p \in ToSet(g.members)
    BY <1>1, GetGroupOK
  <2>2. AdoptGroup(gs, p) = (gs \ {g}) \cup {h}
    BY <1>1 DEF AdoptGroup
  <2> HIDE DEF g
  <2>3. h \in Group /\ h.members = g.members /\ h.leader = g.leader
    BY <2>1 DEF Group
  <2> HIDE DEF h
  <2>4. GroupOK(h)
    BY <2>1, <2>3 DEF GroupOK
  <2>5. gs \ {g} \in Parties
    BY FewerParties
  <2>6. \A k \in gs \ {g} : Apart(k, h)
    BY <2>1, <2>3 DEF Parties, Apart
  <2>7. AdoptGroup(gs, p) \in Parties
    BY <2>2, <2>3, <2>4, <2>5, <2>6, OneMoreParty
  <2>8. IsGrouped((gs \ {g}) \cup {h}, p)
    BY <2>1, <2>3 DEF IsGrouped
  <2> QED  BY <2>2, <2>7, <2>8
<1>2. CASE ~IsGrouped(gs, p)
  <2>1. AdoptGroup(gs, p) = Create(gs, p, TRUE)
    BY <1>2 DEF AdoptGroup
  <2>2. TRUE \in BOOLEAN
    OBVIOUS
  <2>3. Create(gs, p, TRUE) \in Parties
    BY <1>2, <2>2, CreateOK
  <2> DEFINE h == [leader |-> p, members |-> <<p>>, lft |-> TRUE]
  <2>4. h \in Create(gs, p, TRUE) /\ h.members = <<p>> /\ 1 \in DOMAIN <<p>> /\ <<p>>[1] = p
    BY DEF Create
  <2> HIDE DEF h
  <2>5. p \in ToSet(h.members)
    BY <2>4 DEF ToSet
  <2>6. IsGrouped(Create(gs, p, TRUE), p)
    BY <2>4, <2>5 DEF IsGrouped
  <2> QED  BY <2>1, <2>3, <2>6
<1> QED  BY <1>1, <1>2

\* LFTManager::AddPlayerToGroup, over the members of an offer.
Formed == [groups : Parties, ok : BOOLEAN]

\* The accumulator of the walk through an offer's members.
LEMMA FormedIs ==
  ASSUME NEW gs \in Parties, NEW ok \in BOOLEAN
  PROVE  [groups |-> gs, ok |-> ok] \in Formed
BY DEF Formed

\* One member: groups stay well formed, also where he cannot be added.
LEMMA AddPlayerToGroupOK ==
  ASSUME NEW online \in SUBSET Player, NEW leader, NEW acc \in Formed, NEW p
  PROVE  AddPlayerToGroup(online, leader, acc, p) \in Formed
<1> DEFINE gs == AdoptGroup(acc.groups, leader)
           g == GetGroup(gs, leader)
<1>1. acc.groups \in Parties /\ acc.ok \in BOOLEAN
  BY DEF Formed
<1>2. [acc EXCEPT !.ok = FALSE] \in Formed
  BY DEF Formed
<1>3. CASE ~({p, leader} \subseteq online) \/ ~acc.ok
  BY <1>2, <1>3 DEF AddPlayerToGroup
<1>4. CASE {p, leader} \subseteq online /\ acc.ok
  <2>1. p \in Player /\ leader \in Player
    BY <1>4
  <2>2. gs \in Parties /\ IsGrouped(gs, leader)
    BY <1>1, <2>1, AdoptGroupOK
  <2>3. g \in gs
    BY <2>2, GetGroupOK
  <2>4. AddPlayerToGroup(online, leader, acc, p) \in
            {[acc EXCEPT !.groups = gs], [groups |-> gs, ok |-> FALSE]} \cup
            (IF IsGrouped(gs, p) \/ ~CanPlayersGroup(leader, p) \/ IsFull(g) THEN {} ELSE {[groups |-> AddMember(gs, g, p), ok |-> TRUE]})
    BY <1>4 DEF AddPlayerToGroup
  <2> HIDE DEF g, gs
  <2>5. [acc EXCEPT !.groups = gs] \in Formed /\ [groups |-> gs, ok |-> FALSE] \in Formed
    BY <2>2 DEF Formed
  <2>6. ASSUME ~(IsGrouped(gs, p) \/ IsFull(g))
        PROVE  [groups |-> AddMember(gs, g, p), ok |-> TRUE] \in Formed
    <3>1. AddMember(gs, g, p) \in Parties
      BY <2>1, <2>2, <2>3, <2>6, AddMemberOK
    <3> QED  BY <3>1 DEF Formed
  <2> QED  BY <2>4, <2>5, <2>6
<1> QED  BY <1>3, <1>4

\* All members.
LEMMA AddPlayersToGroupOK ==
  ASSUME NEW s, s.groups \in Parties, s.inWorld \in SUBSET Player, NEW leader,
         NEW players \in SUBSET Player
  PROVE  AddPlayersToGroup(s, leader, players) \in Formed
<1> DEFINE A == Formed
           S == players
           b == [groups |-> s.groups, ok |-> TRUE]
           R == [x \in A \X S |-> AddPlayerToGroup(s.inWorld, leader, x[1], x[2])]
           Eq(it) == it = [w \in SUBSET S |->
                             IF w = {} THEN b
                             ELSE AddPlayerToGroup(s.inWorld, leader, it[w \ {Max(w)}], Max(w))]
           f == CHOOSE it : Eq(it)
<1>1. b \in A
  BY FormedIs
<1>2. S \in SUBSET Nat /\ IsFiniteSet(S)
  BY LftAssumption, FS_Subset
<1>3. \A a \in A, i \in S : AddPlayerToGroup(s.inWorld, leader, a, i) \in A
  BY AddPlayerToGroupOK
<1>4. AddPlayersToGroup(s, leader, players) = f[S]
  BY DEF AddPlayersToGroup, FoldAscending, MapThenFoldSet, b, S
<1> HIDE DEF A, S, b
<1>5. \A w \in SUBSET S : w # {} => Max(w) \in w
  BY <1>2, MaxOfSubset
<1>6. Steps(R, A, S)
  BY <1>3 DEF Steps
<1>7. PICK h : Folded(h, A, S, b, R)
  <2> HIDE DEF R
  <2> QED  BY <1>1, <1>2, <1>6, FoldExists
<1>8. Eq(h)
  <2> DEFINE F(w) == IF w = {} THEN b ELSE AddPlayerToGroup(s.inWorld, leader, h[w \ {Max(w)}], Max(w))
  <2>1. ASSUME NEW w \in SUBSET S, w # {}
        PROVE  h[w] = AddPlayerToGroup(s.inWorld, leader, h[w \ {Max(w)}], Max(w))
    <3>1. h[w \ {Max(w)}] \in A /\ Max(w) \in S
      BY <1>5, <1>7, <2>1 DEF Folded
    <3>2. h[w] = R[<<h[w \ {Max(w)}], Max(w)>>]
      BY <1>7, <2>1 DEF Folded
    <3> QED  BY <3>1, <3>2
  <2>2. \A w \in SUBSET S : h[w] = F(w)
    BY <1>7, <2>1 DEF Folded
  <2> HIDE DEF F
  <2>3. h = [w \in SUBSET S |-> F(w)]
    BY <1>7, <2>2 DEF Folded
  <2> QED  BY <2>3 DEF F
<1>9. Eq(f)
  <2> HIDE DEF Eq
  <2> QED  BY <1>8, Zenon
<1> HIDE DEF f
<1>10. f[{}] = b /\ \A w \in SUBSET S : w # {} => f[w] = AddPlayerToGroup(s.inWorld, leader, f[w \ {Max(w)}], Max(w))
  BY <1>9
<1>11. ASSUME NEW w \in SUBSET S, w # {}, f[w \ {Max(w)}] \in A
       PROVE  f[w] \in A
  BY <1>3, <1>5, <1>10, <1>11
<1>12. f[S] \in A
  BY <1>1, <1>2, <1>10, <1>11, FoldIn DEF KeepsIn
<1> QED  BY <1>4, <1>12 DEF A

\* A player who logs out leaves his party.
LEMMA TakeOutOK ==
  ASSUME NEW gs \in Parties, NEW p, NEW online, NEW m
  PROVE  TakeOut(p, online, gs, m) \in Parties
BY RemoveMemberOK DEF TakeOut

\* All of the list leave.
LEMMA TakeOutFold ==
  ASSUME NEW gs \in Parties, NEW p, NEW online, NEW out \in Seq(Player)
  PROVE  TakeAllOut(p, online, gs, out) \in Parties
<1> DEFINE A == Parties
           S == DOMAIN out
           b == gs
           R == [x \in A \X S |-> TakeOut(p, online, x[1], out[x[2]])]
           Eq(it) == it = [w \in SUBSET S |->
                             IF w = {} THEN b
                             ELSE TakeOut(p, online, it[w \ {Max(w)}], out[Max(w)])]
           f == CHOOSE it : Eq(it)
<1>1. b \in A
  OBVIOUS
<1>2. S \in SUBSET Nat /\ IsFiniteSet(S)
  BY SeqDomain
<1>3. \A a \in A, i \in S : TakeOut(p, online, a, out[i]) \in A
  BY TakeOutOK
<1>4. TakeAllOut(p, online, gs, out) = f[S]
  BY DEF TakeAllOut, FoldLeft, MapThenFoldSet, b, S
<1> HIDE DEF A, S, b
<1>5. \A w \in SUBSET S : w # {} => Max(w) \in w
  BY <1>2, MaxOfSubset
<1>6. Steps(R, A, S)
  BY <1>3 DEF Steps
<1>7. PICK h : Folded(h, A, S, b, R)
  <2> HIDE DEF R
  <2> QED  BY <1>1, <1>2, <1>6, FoldExists
<1>8. Eq(h)
  <2> DEFINE F(w) == IF w = {} THEN b ELSE TakeOut(p, online, h[w \ {Max(w)}], out[Max(w)])
  <2>1. ASSUME NEW w \in SUBSET S, w # {}
        PROVE  h[w] = TakeOut(p, online, h[w \ {Max(w)}], out[Max(w)])
    <3>1. h[w \ {Max(w)}] \in A /\ Max(w) \in S
      BY <1>5, <1>7, <2>1 DEF Folded
    <3>2. h[w] = R[<<h[w \ {Max(w)}], Max(w)>>]
      BY <1>7, <2>1 DEF Folded
    <3> QED  BY <3>1, <3>2
  <2>2. \A w \in SUBSET S : h[w] = F(w)
    BY <1>7, <2>1 DEF Folded
  <2> HIDE DEF F
  <2>3. h = [w \in SUBSET S |-> F(w)]
    BY <1>7, <2>2 DEF Folded
  <2> QED  BY <2>3 DEF F
<1>9. Eq(f)
  <2> HIDE DEF Eq
  <2> QED  BY <1>8, Zenon
<1> HIDE DEF f
<1>10. f[{}] = b /\ \A w \in SUBSET S : w # {} => f[w] = TakeOut(p, online, f[w \ {Max(w)}], out[Max(w)])
  BY <1>9
<1>11. ASSUME NEW w \in SUBSET S, w # {}, f[w \ {Max(w)}] \in A
       PROVE  f[w] \in A
  BY <1>3, <1>5, <1>10, <1>11
<1>12. f[S] \in A
  BY <1>1, <1>2, <1>10, <1>11, FoldIn DEF KeepsIn
<1> QED  BY <1>4, <1>12 DEF A

\* WorldSession::LogoutPlayer: bots and the absent first, then the player.
LEMMA LeaveAllOK ==
  ASSUME NEW gs \in Parties, NEW p \in Player, NEW online
  PROVE  LeaveAll(gs, p, online) \in Parties
<1> DEFINE first == (Bots \cup (Player \ online)) \ {p}
           out == Append(Only(GetGroup(gs, p).members, first), p)
<1>a. CASE ~IsGrouped(gs, p)
  BY <1>a DEF LeaveAll
<1>b. CASE IsGrouped(gs, p)
  <2>1. Only(GetGroup(gs, p).members, first) \in Seq(Player)
    BY <1>b, GetGroupOK, MembersOf, OnlyOK
  <2>2. out \in Seq(Player)
    BY <2>1
  <2>3. LeaveAll(gs, p, online) = TakeAllOut(p, online, gs, out)
    BY <1>b DEF LeaveAll
  <2> HIDE DEF out
  <2> QED  BY <2>2, <2>3, TakeOutFold
<1> QED  BY <1>a, <1>b

-----------------------------------------------------------------------------
(***************************************************************************)
(* The state of the manager                                                *)
(***************************************************************************)

\* Nobody asks for a role his class has not.
Entries == {e \in Entry : e.mask \subseteq Allowed[e.guid]}

\* Everybody waits in one place of the queue.
Queues == {q \in Seq(Entries) : \A i, j \in DOMAIN q : q[i].guid = q[j].guid => i = j}

Check == [leader : Player, members : Seq(Player), instances : Requests,
          responses : PFun(Player, SUBSET Role), timer : 1..RolecheckTimeout]

CheckOK(l, c) ==
    /\ l \in ToSet(c.members)
    /\ \A p \in DOMAIN c.responses : p \in ToSet(c.members) /\ c.responses[p] \subseteq Allowed[p]

Checks == {f \in PFun(Player, Check) : \A l \in DOMAIN f : CheckOK(l, f[l])}

OfferId == 1..MaxOffers
Offer == [instance : Instance, roles : PFun(Player, Role), accepted : SUBSET Player,
          timer : 1..OfferTimeout]

\* An open offer: whole, of allowed roles, on one side, and known to each of
\* its members.
OfferOK(o, offer, index) ==
    /\ IsComplete(offer.roles)
    /\ offer.accepted \subseteq DOMAIN offer.roles
    /\ \A p \in DOMAIN offer.roles :
        /\ p \in DOMAIN index /\ index[p] = o
        /\ offer.roles[p] \in Allowed[p]
        /\ \A q \in DOMAIN offer.roles : Side[p] = Side[q]

\* The two indices of offers agree, and the next id is a new one.
OffersOK(open, index, next) ==
    /\ \A p \in DOMAIN index : index[p] \in DOMAIN open /\ p \in DOMAIN open[index[p]].roles
    /\ \A o \in DOMAIN open : o < next /\ OfferOK(o, open[o], index)

State == [queue : Queues, rolechecks : Checks, offers : PFun(OfferId, Offer),
          playerOffers : PFun(Player, OfferId), nextOfferId : 1..(MaxOffers + 1),
          fillBots : SUBSET Bots, botFillTimer : 0..FillPeriod, groups : Parties,
          inWorld : SUBSET Player]

\* The inductive invariant, of the state as a value.
Good == {s \in State : OffersOK(s.offers, s.playerOffers, s.nextOfferId)}

\* The parts of a well formed state.
LEMMA GoodIs ==
  ASSUME NEW s \in Good
  PROVE  /\ s.queue \in Queues /\ s.rolechecks \in Checks
         /\ s.offers \in PFun(OfferId, Offer) /\ s.playerOffers \in PFun(Player, OfferId)
         /\ s.nextOfferId \in 1..(MaxOffers + 1) /\ s.fillBots \in SUBSET Bots
         /\ s.botFillTimer \in 0..FillPeriod /\ s.groups \in Parties /\ s.inWorld \in SUBSET Player
         /\ OffersOK(s.offers, s.playerOffers, s.nextOfferId)
BY DEF Good, State

\* One field of the state is replaced.
LEMMA SetQueue ==
  ASSUME NEW s \in Good, NEW q \in Queues,
         NEW t, t = [s EXCEPT !.queue = q]
  PROVE  /\ t \in Good
         /\ t.queue = q /\ t.rolechecks = s.rolechecks /\ t.offers = s.offers
         /\ t.playerOffers = s.playerOffers /\ t.nextOfferId = s.nextOfferId /\ t.fillBots = s.fillBots
         /\ t.botFillTimer = s.botFillTimer /\ t.groups = s.groups /\ t.inWorld = s.inWorld
<1>1. s \in State /\ OffersOK(s.offers, s.playerOffers, s.nextOfferId)
  BY DEF Good
<1>2. t \in State
  BY <1>1 DEF State
<1>3. /\ t.queue = q /\ t.rolechecks = s.rolechecks /\ t.offers = s.offers
      /\ t.playerOffers = s.playerOffers /\ t.nextOfferId = s.nextOfferId /\ t.fillBots = s.fillBots
      /\ t.botFillTimer = s.botFillTimer /\ t.groups = s.groups /\ t.inWorld = s.inWorld
  BY <1>1 DEF State
<1> QED  BY <1>1, <1>2, <1>3 DEF Good

\* The role checks.
LEMMA SetRolechecks ==
  ASSUME NEW s \in Good, NEW c \in Checks,
         NEW t, t = [s EXCEPT !.rolechecks = c]
  PROVE  /\ t \in Good
         /\ t.rolechecks = c /\ t.queue = s.queue /\ t.offers = s.offers
         /\ t.playerOffers = s.playerOffers /\ t.nextOfferId = s.nextOfferId /\ t.fillBots = s.fillBots
         /\ t.botFillTimer = s.botFillTimer /\ t.groups = s.groups /\ t.inWorld = s.inWorld
<1>1. s \in State /\ OffersOK(s.offers, s.playerOffers, s.nextOfferId)
  BY DEF Good
<1>2. t \in State
  BY <1>1 DEF State
<1>3. /\ t.rolechecks = c /\ t.queue = s.queue /\ t.offers = s.offers
      /\ t.playerOffers = s.playerOffers /\ t.nextOfferId = s.nextOfferId /\ t.fillBots = s.fillBots
      /\ t.botFillTimer = s.botFillTimer /\ t.groups = s.groups /\ t.inWorld = s.inWorld
  BY <1>1 DEF State
<1> QED  BY <1>1, <1>2, <1>3 DEF Good

\* The offers, without their index.
LEMMA SetOffers ==
  ASSUME NEW s \in Good, NEW o \in PFun(OfferId, Offer), OffersOK(o, s.playerOffers, s.nextOfferId),
         NEW t, t = [s EXCEPT !.offers = o]
  PROVE  /\ t \in Good
         /\ t.offers = o /\ t.queue = s.queue /\ t.rolechecks = s.rolechecks
         /\ t.playerOffers = s.playerOffers /\ t.nextOfferId = s.nextOfferId /\ t.fillBots = s.fillBots
         /\ t.botFillTimer = s.botFillTimer /\ t.groups = s.groups /\ t.inWorld = s.inWorld
<1>1. s \in State /\ OffersOK(s.offers, s.playerOffers, s.nextOfferId)
  BY DEF Good
<1>2. t \in State
  BY <1>1 DEF State
<1>3. /\ t.offers = o /\ t.queue = s.queue /\ t.rolechecks = s.rolechecks
      /\ t.playerOffers = s.playerOffers /\ t.nextOfferId = s.nextOfferId /\ t.fillBots = s.fillBots
      /\ t.botFillTimer = s.botFillTimer /\ t.groups = s.groups /\ t.inWorld = s.inWorld
  BY <1>1 DEF State
<1> QED  BY <1>1, <1>2, <1>3 DEF Good

\* The bots that fill the queue.
LEMMA SetFillBots ==
  ASSUME NEW s \in Good, NEW b \in SUBSET Bots,
         NEW t, t = [s EXCEPT !.fillBots = b]
  PROVE  /\ t \in Good
         /\ t.fillBots = b /\ t.queue = s.queue /\ t.rolechecks = s.rolechecks
         /\ t.offers = s.offers /\ t.playerOffers = s.playerOffers /\ t.nextOfferId = s.nextOfferId
         /\ t.botFillTimer = s.botFillTimer /\ t.groups = s.groups /\ t.inWorld = s.inWorld
<1>1. s \in State /\ OffersOK(s.offers, s.playerOffers, s.nextOfferId)
  BY DEF Good
<1>2. t \in State
  BY <1>1 DEF State
<1>3. /\ t.fillBots = b /\ t.queue = s.queue /\ t.rolechecks = s.rolechecks
      /\ t.offers = s.offers /\ t.playerOffers = s.playerOffers /\ t.nextOfferId = s.nextOfferId
      /\ t.botFillTimer = s.botFillTimer /\ t.groups = s.groups /\ t.inWorld = s.inWorld
  BY <1>1 DEF State
<1> QED  BY <1>1, <1>2, <1>3 DEF Good

\* The timer of filling.
LEMMA SetTimer ==
  ASSUME NEW s \in Good, NEW n \in 0..FillPeriod,
         NEW t, t = [s EXCEPT !.botFillTimer = n]
  PROVE  /\ t \in Good
         /\ t.botFillTimer = n /\ t.queue = s.queue /\ t.rolechecks = s.rolechecks
         /\ t.offers = s.offers /\ t.playerOffers = s.playerOffers /\ t.nextOfferId = s.nextOfferId
         /\ t.fillBots = s.fillBots /\ t.groups = s.groups /\ t.inWorld = s.inWorld
<1>1. s \in State /\ OffersOK(s.offers, s.playerOffers, s.nextOfferId)
  BY DEF Good
<1>2. t \in State
  BY <1>1 DEF State
<1>3. /\ t.botFillTimer = n /\ t.queue = s.queue /\ t.rolechecks = s.rolechecks
      /\ t.offers = s.offers /\ t.playerOffers = s.playerOffers /\ t.nextOfferId = s.nextOfferId
      /\ t.fillBots = s.fillBots /\ t.groups = s.groups /\ t.inWorld = s.inWorld
  BY <1>1 DEF State
<1> QED  BY <1>1, <1>2, <1>3 DEF Good

\* The groups.
LEMMA SetGroups ==
  ASSUME NEW s \in Good, NEW g \in Parties,
         NEW t, t = [s EXCEPT !.groups = g]
  PROVE  /\ t \in Good
         /\ t.groups = g /\ t.queue = s.queue /\ t.rolechecks = s.rolechecks
         /\ t.offers = s.offers /\ t.playerOffers = s.playerOffers /\ t.nextOfferId = s.nextOfferId
         /\ t.fillBots = s.fillBots /\ t.botFillTimer = s.botFillTimer /\ t.inWorld = s.inWorld
<1>1. s \in State /\ OffersOK(s.offers, s.playerOffers, s.nextOfferId)
  BY DEF Good
<1>2. t \in State
  BY <1>1 DEF State
<1>3. /\ t.groups = g /\ t.queue = s.queue /\ t.rolechecks = s.rolechecks
      /\ t.offers = s.offers /\ t.playerOffers = s.playerOffers /\ t.nextOfferId = s.nextOfferId
      /\ t.fillBots = s.fillBots /\ t.botFillTimer = s.botFillTimer /\ t.inWorld = s.inWorld
  BY <1>1 DEF State
<1> QED  BY <1>1, <1>2, <1>3 DEF Good

\* Who is in the world.
LEMMA SetWorld ==
  ASSUME NEW s \in Good, NEW w \in SUBSET Player,
         NEW t, t = [s EXCEPT !.inWorld = w]
  PROVE  /\ t \in Good
         /\ t.inWorld = w /\ t.queue = s.queue /\ t.rolechecks = s.rolechecks
         /\ t.offers = s.offers /\ t.playerOffers = s.playerOffers /\ t.nextOfferId = s.nextOfferId
         /\ t.fillBots = s.fillBots /\ t.botFillTimer = s.botFillTimer /\ t.groups = s.groups
<1>1. s \in State /\ OffersOK(s.offers, s.playerOffers, s.nextOfferId)
  BY DEF Good
<1>2. t \in State
  BY <1>1 DEF State
<1>3. /\ t.inWorld = w /\ t.queue = s.queue /\ t.rolechecks = s.rolechecks
      /\ t.offers = s.offers /\ t.playerOffers = s.playerOffers /\ t.nextOfferId = s.nextOfferId
      /\ t.fillBots = s.fillBots /\ t.botFillTimer = s.botFillTimer /\ t.groups = s.groups
  BY <1>1 DEF State
<1> QED  BY <1>1, <1>2, <1>3 DEF Good

-----------------------------------------------------------------------------
(***************************************************************************)
(* The queue                                                               *)
(***************************************************************************)

\* All but the queue.
SameElse(s, t) ==
    /\ t.rolechecks = s.rolechecks /\ t.offers = s.offers /\ t.playerOffers = s.playerOffers
    /\ t.nextOfferId = s.nextOfferId /\ t.fillBots = s.fillBots
    /\ t.botFillTimer = s.botFillTimer /\ t.groups = s.groups /\ t.inWorld = s.inWorld

Queued(s) == {s.queue[i].guid : i \in DOMAIN s.queue}

\* The places of the queue are numbers and hold entries.
LEMMA QueueIs ==
  ASSUME NEW q \in Queues
  PROVE  /\ q \in Seq(Entries) /\ DOMAIN q \in SUBSET Nat /\ IsFiniteSet(DOMAIN q)
         /\ \A i \in DOMAIN q : q[i] \in Entries
<1>1. q \in Seq(Entries)
  BY DEF Queues
<1> QED  BY <1>1, SeqDomain

\* The parts of a queue entry.
LEMMA EntryIs ==
  ASSUME NEW e \in Entries
  PROVE  /\ e \in Entry /\ e.guid \in Player /\ e.leader \in Player \cup {NoGuid}
         /\ e.instances \in Requests /\ e.mask \subseteq Role /\ e.mask \subseteq Allowed[e.guid]
         /\ e.waited \in 0..FillDelay
BY DEF Entries, Entry

\* A request is a list of dungeons.
LEMMA RequestIs ==
  ASSUME NEW d \in Requests
  PROVE  d \in Seq(Instance) /\ ToSet(d) \subseteq Instance
<1>1. d \in Seq(Instance)
  BY LftAssumption
<1> QED  BY <1>1, SeqDomain DEF ToSet

\* Erasing entries leaves nobody queued twice.
LEMMA OnlyQueue ==
  ASSUME NEW q \in Queues, NEW S
  PROVE  Only(q, S) \in Queues
<1>1. q \in Seq(Entries) /\ \A i, j \in DOMAIN q : q[i].guid = q[j].guid => i = j
  BY DEF Queues
<1> DEFINE r == Only(q, S)
<1>2. r \in Seq(Entries)
  BY <1>1, OnlyOK
<1>3. \A j, k \in DOMAIN r : j # k => \E x, y \in DOMAIN q :
          x # y /\ r[j] = q[x] /\ r[k] = q[y]
  BY <1>1, OnlyDistinct
<1> HIDE DEF r
<1>4. \A j, k \in DOMAIN r : r[j].guid = r[k].guid => j = k
  BY <1>1, <1>3
<1>5. r \in Queues
  BY <1>2, <1>4 DEF Queues
<1> QED  BY <1>5 DEF r

\* Erasing the entries of P takes the characters of P out of the queue.
LEMMA DequeueOK ==
  ASSUME NEW s \in Good, NEW P, NEW t, t = Dequeue(s, P)
  PROVE  t \in Good /\ SameElse(s, t) /\ Queued(t) = Queued(s) \ P
<1> DEFINE S == {e \in Entry : e.guid \notin P}
           q == Only(s.queue, S)
<1>1. s.queue \in Queues /\ s.queue \in Seq(Entries)
  BY GoodIs, QueueIs
<1>2. q \in Queues /\ ToSet(q) = ToSet(s.queue) \cap S
  BY <1>1, OnlyQueue, OnlyOK
<1>3. t = [s EXCEPT !.queue = q]
  BY DEF Dequeue
<1> HIDE DEF q
<1>4. t \in Good /\ SameElse(s, t) /\ t.queue = q
  BY <1>2, <1>3, SetQueue DEF SameElse
<1>5. ASSUME NEW u, u \in Queues  PROVE  \A p : p \in {u[i].guid : i \in DOMAIN u} <=> \E e \in ToSet(u) : e.guid = p
  BY DEF ToSet
<1>6. \A e \in ToSet(s.queue) : e \in Entry
  BY <1>1, QueueIs DEF ToSet, Entries
<1>7. ASSUME NEW p  PROVE  p \in Queued(t) <=> p \in Queued(s) /\ p \notin P
  <2>1. p \in Queued(t) <=> \E e \in ToSet(q) : e.guid = p
    BY <1>2, <1>4, <1>5 DEF Queued
  <2>2. p \in Queued(s) <=> \E e \in ToSet(s.queue) : e.guid = p
    BY <1>1, <1>5 DEF Queued
  <2> QED  BY <1>2, <1>6, <2>1, <2>2
<1>8. Queued(t) = Queued(s) \ P
  BY <1>7
<1> QED  BY <1>4, <1>8

\* LFTManager::EnqueuePlayer adds one character and takes nobody out.
LEMMA EnqueueOK ==
  ASSUME NEW s \in Good, NEW p \in Player, NEW leader \in Player \cup {NoGuid},
         NEW instances \in Requests, NEW mask \in SUBSET Role, mask \subseteq Allowed[p],
         NEW t, t = EnqueuePlayer(s, p, leader, instances, mask)
  PROVE  t \in Good /\ SameElse(s, t) /\ Queued(t) = Queued(s) \cup {p}
<1> DEFINE u == Dequeue(s, {p})
           e == [guid |-> p, leader |-> leader, instances |-> instances, mask |-> mask, waited |-> 0]
           q == Append(u.queue, e)
           n == Len(u.queue)
<1>1. u \in Good /\ SameElse(s, u) /\ Queued(u) = Queued(s) \ {p}
  BY DequeueOK
<1>2. t = [u EXCEPT !.queue = q]
  BY DEF EnqueuePlayer
<1> HIDE DEF u
<1>3. u.queue \in Queues /\ u.queue \in Seq(Entries)
  BY <1>1, GoodIs, QueueIs
<1>4. e \in Entries /\ e.guid = p
  <2>1. 0 \in 0..FillDelay
    BY LftAssumption
  <2> QED  BY <2>1 DEF Entries, Entry
<1> HIDE DEF e
<1>5. /\ q \in Seq(Entries) /\ n \in Nat /\ DOMAIN q = 1..(n + 1) /\ DOMAIN u.queue = 1..n
      /\ q[n + 1] = e /\ \A i \in DOMAIN u.queue : q[i] = u.queue[i]
  BY <1>3, <1>4
<1> HIDE DEF q, n
<1>6. \A i \in DOMAIN u.queue : u.queue[i].guid # p /\ i \in DOMAIN q
  <2>1. p \notin Queued(u)
    BY <1>1
  <2>2. \A i \in DOMAIN u.queue : u.queue[i].guid # p
    BY <2>1 DEF Queued
  <2>3. \A i \in DOMAIN u.queue : i \in DOMAIN q
    BY <1>5
  <2> QED  BY <2>2, <2>3
<1>7. \A i \in DOMAIN q : i \in DOMAIN u.queue \/ i = n + 1
  BY <1>5
<1>8. \A i, j \in DOMAIN q : q[i].guid = q[j].guid => i = j
  BY <1>3, <1>4, <1>5, <1>6, <1>7 DEF Queues
<1>9. q \in Queues
  BY <1>5, <1>8 DEF Queues
<1>10. t \in Good /\ SameElse(u, t) /\ t.queue = q
  BY <1>1, <1>2, <1>9, SetQueue DEF SameElse
<1>11. SameElse(s, t)
  BY <1>1, <1>10 DEF SameElse
<1>12. n + 1 \in DOMAIN q
  BY <1>5
<1>13. {q[i].guid : i \in DOMAIN q} = {u.queue[i].guid : i \in DOMAIN u.queue} \cup {p}
  BY <1>4, <1>5, <1>6, <1>7, <1>12
<1>14. Queued(t) = Queued(u) \cup {p}
  BY <1>10, <1>13 DEF Queued
<1> QED  BY <1>1, <1>10, <1>11, <1>14

-----------------------------------------------------------------------------
(***************************************************************************)
(* The matcher                                                             *)
(***************************************************************************)

\* Who may be chosen with the seed: nobody who has an offer, for a role his
\* class has, on the side of the seed.
Chosen(s, seed) ==
    {roles \in PFun(Player, Role) : \A p \in DOMAIN roles :
        p \notin DOMAIN s.playerOffers /\ roles[p] \in Allowed[p] /\ Side[p] = Side[seed]}

\* The matcher starts with nobody.
LEMMA NobodyChosen ==
  ASSUME NEW s, NEW seed
  PROVE  <<>> \in Chosen(s, seed)
<1>1. <<>> \in PFun(Player, Role) /\ DOMAIN <<>> = {}
  BY PFunEmpty
<1> QED  BY <1>1 DEF Chosen

\* A role that is picked is one the character asked for.
LEMMA PickRoleOK ==
  ASSUME NEW mask, NEW roles, PickRole(mask, roles) # ""
  PROVE  PickRole(mask, roles) \in mask
BY DEF PickRole

\* One more character who fits is chosen.
LEMMA ChooseOne ==
  ASSUME NEW s, NEW seed, NEW roles \in Chosen(s, seed), NEW e \in Entries, NEW instance,
         Fits(s, seed, instance, e), NEW role \in e.mask
  PROVE  Put(roles, e.guid, role) \in Chosen(s, seed)
<1>1. roles \in PFun(Player, Role)
  BY DEF Chosen
<1>2. e.guid \in Player /\ role \in Role /\ role \in Allowed[e.guid]
  BY EntryIs
<1>3. e.guid \notin DOMAIN s.playerOffers /\ Side[e.guid] = Side[seed]
  BY DEF Fits, HasOffer, CanQueuedPlayersGroup, CanPlayersGroup
<1> DEFINE f == Put(roles, e.guid, role)
<1>4. /\ f \in PFun(Player, Role) /\ DOMAIN f = DOMAIN roles \cup {e.guid} /\ f[e.guid] = role
      /\ \A x \in DOMAIN roles : x # e.guid => f[x] = roles[x]
  <2>1. f \in PFun(Player, Role)
    BY <1>1, <1>2, PutOK
  <2> QED  BY <2>1 DEF Put
<1> HIDE DEF f
<1>5. ASSUME NEW p \in DOMAIN f
      PROVE  p \notin DOMAIN s.playerOffers /\ f[p] \in Allowed[p] /\ Side[p] = Side[seed]
  <2>1. CASE p = e.guid
    BY <1>2, <1>3, <1>4, <2>1
  <2>2. CASE p # e.guid
    BY <1>4, <2>2 DEF Chosen
  <2> QED  BY <2>1, <2>2
<1>6. f \in Chosen(s, seed)
  BY <1>4, <1>5 DEF Chosen
<1> QED  BY <1>6 DEF f

Matched(s, seed) == [fits : BOOLEAN, roles : Chosen(s, seed)]

\* One of a block that queued together.
LEMMA AddEntryOK ==
  ASSUME NEW s, NEW seed, NEW instance, NEW chosen, NEW acc \in Matched(s, seed), NEW e \in Entries
  PROVE  AddEntry(s, seed, instance, chosen, acc, e) \in Matched(s, seed)
<1> DEFINE role == PickRole(e.mask, acc.roles)
           more == Put(acc.roles, e.guid, role)
<1>1. acc.roles \in Chosen(s, seed)
  BY DEF Matched
<1>2. [acc EXCEPT !.fits = FALSE] \in Matched(s, seed)
  BY DEF Matched
<1>3. ASSUME Fits(s, seed, instance, e), role # ""
      PROVE  [acc EXCEPT !.roles = more] \in Matched(s, seed)
  <2>1. role \in e.mask
    BY <1>3, PickRoleOK
  <2> HIDE DEF role
  <2>2. more \in Chosen(s, seed)
    BY <1>1, <1>3, <2>1, ChooseOne
  <2> HIDE DEF more
  <2> QED  BY <2>2 DEF Matched
<1>4. AddEntry(s, seed, instance, chosen, acc, e) =
        IF acc.fits /\ e.guid \notin DOMAIN chosen /\ Fits(s, seed, instance, e) /\ role # ""
        THEN [acc EXCEPT !.roles = more] ELSE [acc EXCEPT !.fits = FALSE]
  BY DEF AddEntry
<1> HIDE DEF role, more
<1> QED  BY <1>2, <1>3, <1>4

AddEntries(s, seed, instance, chosen, block) ==
    FoldLeft(LAMBDA acc, e : AddEntry(s, seed, instance, chosen, acc, e),
             [fits |-> TRUE, roles |-> chosen], block)

\* All of a block.
LEMMA AddEntriesOK ==
  ASSUME NEW s, NEW seed, NEW instance, NEW chosen \in Chosen(s, seed), NEW block \in Seq(Entries)
  PROVE  AddEntries(s, seed, instance, chosen, block) \in Matched(s, seed)
<1> DEFINE A == Matched(s, seed)
           S == DOMAIN block
           b == [fits |-> TRUE, roles |-> chosen]
           R == [x \in A \X S |-> AddEntry(s, seed, instance, chosen, x[1], block[x[2]])]
           Eq(it) == it = [w \in SUBSET S |->
                             IF w = {} THEN b
                             ELSE AddEntry(s, seed, instance, chosen, it[w \ {Max(w)}], block[Max(w)])]
           f == CHOOSE it : Eq(it)
<1>1. b \in A
  BY DEF Matched
<1>2. S \in SUBSET Nat /\ IsFiniteSet(S)
  BY SeqDomain
<1>3. \A a \in A, i \in S : AddEntry(s, seed, instance, chosen, a, block[i]) \in A
  BY SeqDomain, AddEntryOK
<1>4. AddEntries(s, seed, instance, chosen, block) = f[S]
  BY DEF AddEntries, FoldLeft, MapThenFoldSet, b, S
<1> HIDE DEF A, S, b
<1>5. \A w \in SUBSET S : w # {} => Max(w) \in w
  BY <1>2, MaxOfSubset
<1>6. Steps(R, A, S)
  BY <1>3 DEF Steps
<1>7. PICK h : Folded(h, A, S, b, R)
  <2> HIDE DEF R
  <2> QED  BY <1>1, <1>2, <1>6, FoldExists
<1>8. Eq(h)
  <2> DEFINE F(w) == IF w = {} THEN b ELSE AddEntry(s, seed, instance, chosen, h[w \ {Max(w)}], block[Max(w)])
  <2>1. ASSUME NEW w \in SUBSET S, w # {}
        PROVE  h[w] = AddEntry(s, seed, instance, chosen, h[w \ {Max(w)}], block[Max(w)])
    <3>1. h[w \ {Max(w)}] \in A /\ Max(w) \in S
      BY <1>5, <1>7, <2>1 DEF Folded
    <3>2. h[w] = R[<<h[w \ {Max(w)}], Max(w)>>]
      BY <1>7, <2>1 DEF Folded
    <3> QED  BY <3>1, <3>2
  <2>2. \A w \in SUBSET S : h[w] = F(w)
    BY <1>7, <2>1 DEF Folded
  <2> HIDE DEF F
  <2>3. h = [w \in SUBSET S |-> F(w)]
    BY <1>7, <2>2 DEF Folded
  <2> QED  BY <2>3 DEF F
<1>9. Eq(f)
  <2> HIDE DEF Eq
  <2> QED  BY <1>8, Zenon
<1> HIDE DEF f
<1>10. f[{}] = b /\ \A w \in SUBSET S : w # {} => f[w] = AddEntry(s, seed, instance, chosen, f[w \ {Max(w)}], block[Max(w)])
  BY <1>9
<1>11. ASSUME NEW w \in SUBSET S, w # {}, f[w \ {Max(w)}] \in A
       PROVE  f[w] \in A
  BY <1>3, <1>5, <1>10, <1>11
<1>12. f[S] \in A
  BY <1>1, <1>2, <1>10, <1>11, FoldIn DEF KeepsIn
<1> QED  BY <1>4, <1>12 DEF A

\* A block is added as a whole or not at all; the choice stays sound.
LEMMA AddBlockOK ==
  ASSUME NEW s, NEW seed, NEW instance, NEW chosen \in Chosen(s, seed), NEW block \in Seq(Entries)
  PROVE  AddBlock(s, seed, instance, chosen, block) \in Chosen(s, seed)
<1> DEFINE with == AddEntries(s, seed, instance, chosen, block)
<1>1. with.roles \in Chosen(s, seed)
  BY AddEntriesOK DEF Matched
<1>2. AddBlock(s, seed, instance, chosen, block) =
        IF with.fits /\ Cardinality(DOMAIN with.roles) <= GroupSize THEN with.roles ELSE chosen
  BY DEF AddBlock, AddEntries
<1> HIDE DEF with
<1> QED  BY <1>1, <1>2

\* One place of the queue.
LEMMA AddFirstOK ==
  ASSUME NEW s \in Good, NEW seed, NEW instance, NEW chosen \in Chosen(s, seed), NEW e
  PROVE  AddFirst(s, instance, seed, chosen, e) \in Chosen(s, seed)
<1> DEFINE block == Only(s.queue, {f \in Entry : BlockLeader(f) = BlockLeader(e)})
<1>1. block \in Seq(Entries)
  BY GoodIs, QueueIs, OnlyOK
<1>2. AddFirst(s, instance, seed, chosen, e) \in {chosen, AddBlock(s, seed, instance, chosen, block)}
  BY DEF AddFirst
<1> HIDE DEF block
<1> QED  BY <1>1, <1>2, AddBlockOK

\* TryBuildOfferForInstance, one seed: whoever it finds may be offered his
\* role.
LEMMA MatchOK ==
  ASSUME NEW s \in Good, NEW seed, NEW instance
  PROVE  Match(s, instance, seed) \in Chosen(s, seed)
<1> DEFINE A == Chosen(s, seed)
           S == DOMAIN s.queue
           b == <<>>
           R == [x \in A \X S |-> AddFirst(s, instance, seed, x[1], s.queue[x[2]])]
           Eq(it) == it = [w \in SUBSET S |->
                             IF w = {} THEN b
                             ELSE AddFirst(s, instance, seed, it[w \ {Max(w)}], s.queue[Max(w)])]
           f == CHOOSE it : Eq(it)
<1>1. b \in A
  BY NobodyChosen
<1>2. S \in SUBSET Nat /\ IsFiniteSet(S)
  BY GoodIs, QueueIs
<1>3. \A a \in A, i \in S : AddFirst(s, instance, seed, a, s.queue[i]) \in A
  BY AddFirstOK
<1>4. Match(s, instance, seed) = f[S]
  BY DEF Match, FoldLeft, MapThenFoldSet, b, S
<1> HIDE DEF A, S, b
<1>5. \A w \in SUBSET S : w # {} => Max(w) \in w
  BY <1>2, MaxOfSubset
<1>6. Steps(R, A, S)
  BY <1>3 DEF Steps
<1>7. PICK h : Folded(h, A, S, b, R)
  <2> HIDE DEF R
  <2> QED  BY <1>1, <1>2, <1>6, FoldExists
<1>8. Eq(h)
  <2> DEFINE F(w) == IF w = {} THEN b ELSE AddFirst(s, instance, seed, h[w \ {Max(w)}], s.queue[Max(w)])
  <2>1. ASSUME NEW w \in SUBSET S, w # {}
        PROVE  h[w] = AddFirst(s, instance, seed, h[w \ {Max(w)}], s.queue[Max(w)])
    <3>1. h[w \ {Max(w)}] \in A /\ Max(w) \in S
      BY <1>5, <1>7, <2>1 DEF Folded
    <3>2. h[w] = R[<<h[w \ {Max(w)}], Max(w)>>]
      BY <1>7, <2>1 DEF Folded
    <3> QED  BY <3>1, <3>2
  <2>2. \A w \in SUBSET S : h[w] = F(w)
    BY <1>7, <2>1 DEF Folded
  <2> HIDE DEF F
  <2>3. h = [w \in SUBSET S |-> F(w)]
    BY <1>7, <2>2 DEF Folded
  <2> QED  BY <2>3 DEF F
<1>9. Eq(f)
  <2> HIDE DEF Eq
  <2> QED  BY <1>8, Zenon
<1> HIDE DEF f
<1>10. f[{}] = b /\ \A w \in SUBSET S : w # {} => f[w] = AddFirst(s, instance, seed, f[w \ {Max(w)}], s.queue[Max(w)])
  BY <1>9
<1>11. ASSUME NEW w \in SUBSET S, w # {}, f[w \ {Max(w)}] \in A
       PROVE  f[w] \in A
  BY <1>3, <1>5, <1>10, <1>11
<1>12. f[S] \in A
  BY <1>1, <1>2, <1>10, <1>11, FoldIn DEF KeepsIn
<1> QED  BY <1>4, <1>12 DEF A

\* All but the offers.
SameButOffers(s, t) ==
    /\ t.queue = s.queue /\ t.rolechecks = s.rolechecks /\ t.fillBots = s.fillBots
    /\ t.botFillTimer = s.botFillTimer /\ t.groups = s.groups /\ t.inWorld = s.inWorld

\* The parts of an open offer.
LEMMA OfferIs ==
  ASSUME NEW s \in Good, NEW o \in DOMAIN s.offers
  PROVE  /\ o \in OfferId /\ o < s.nextOfferId
         /\ s.offers[o] \in Offer /\ OfferOK(o, s.offers[o], s.playerOffers)
         /\ s.offers[o].roles \in PFun(Player, Role) /\ s.offers[o].accepted \in SUBSET Player
         /\ DOMAIN s.offers[o].roles \in SUBSET Player
<1>1. s.offers \in PFun(OfferId, Offer) /\ OffersOK(s.offers, s.playerOffers, s.nextOfferId)
  BY GoodIs
<1>2. o \in OfferId /\ s.offers[o] \in Offer
  BY <1>1, PFunIs
<1>3. o < s.nextOfferId /\ OfferOK(o, s.offers[o], s.playerOffers)
  BY <1>1 DEF OffersOK
<1>4. s.offers[o].roles \in PFun(Player, Role) /\ s.offers[o].accepted \in SUBSET Player
  BY <1>2 DEF Offer
<1> QED  BY <1>2, <1>3, <1>4, PFunIs

\* Who is in the index is a member of the offer it names.
LEMMA IndexIs ==
  ASSUME NEW s \in Good, NEW p \in DOMAIN s.playerOffers
  PROVE  /\ p \in Player /\ s.playerOffers[p] \in DOMAIN s.offers
         /\ p \in DOMAIN s.offers[s.playerOffers[p]].roles
<1>1. s.playerOffers \in PFun(Player, OfferId)
      /\ OffersOK(s.offers, s.playerOffers, s.nextOfferId)
  BY GoodIs
<1>2. p \in Player
  BY <1>1, PFunIs
<1> QED  BY <1>1, <1>2 DEF OffersOK

\* A member of an open offer is in the index, under this offer alone.
LEMMA MemberIs ==
  ASSUME NEW s \in Good, NEW o \in DOMAIN s.offers, NEW p \in DOMAIN s.offers[o].roles
  PROVE  p \in DOMAIN s.playerOffers /\ s.playerOffers[p] = o
BY OfferIs DEF OfferOK

\* A new offer has a fresh id, and both indices learn of it.
LEMMA NewOfferOK ==
  ASSUME NEW s \in Good, NEW seed, NEW instance \in Instance, NEW roles \in Chosen(s, seed),
         IsComplete(roles), s.nextOfferId <= MaxOffers, NEW t, t = NewOffer(s, instance, roles)
  PROVE  t \in Good /\ SameButOffers(s, t)
<1> DEFINE id == s.nextOfferId
           offer == [instance |-> instance, roles |-> roles, accepted |-> {}, timer |-> OfferTimeout]
           o == Put(s.offers, id, offer)
           i == [p \in DOMAIN s.playerOffers \cup DOMAIN roles |->
                    IF p \in DOMAIN roles THEN id ELSE s.playerOffers[p]]
<1>1. /\ s.offers \in PFun(OfferId, Offer) /\ s.playerOffers \in PFun(Player, OfferId)
      /\ id \in 1..(MaxOffers + 1)
  BY GoodIs
<1>2. id \in OfferId /\ id + 1 \in 1..(MaxOffers + 1) /\ id < id + 1 /\ id \in Nat
  BY <1>1, LftAssumption DEF OfferId
<1>3. roles \in PFun(Player, Role) /\ DOMAIN roles \in SUBSET Player
  BY PFunIs DEF Chosen
<1>4. offer \in Offer /\ offer.roles = roles /\ offer.accepted = {}
  <2>1. OfferTimeout \in 1..OfferTimeout
    BY LftAssumption
  <2> QED  BY <1>3, <2>1 DEF Offer
<1>5. t = [s EXCEPT !.offers = o, !.playerOffers = i, !.nextOfferId = id + 1]
  BY DEF NewOffer
<1> HIDE DEF id, offer
<1>6. /\ o \in PFun(OfferId, Offer) /\ DOMAIN o = DOMAIN s.offers \cup {id} /\ o[id] = offer
      /\ \A x \in DOMAIN s.offers : x # id => o[x] = s.offers[x]
  <2>1. s.offers \in PFun(OfferId, Offer)
    BY <1>1
  <2>2. id \in OfferId
    BY <1>2
  <2>3. offer \in Offer
    BY <1>4
  <2>4. o \in PFun(OfferId, Offer)
    BY <2>1, <2>2, <2>3, PutOK
  <2> QED  BY <2>4 DEF Put
<1>7. DOMAIN s.playerOffers \in SUBSET Player
      /\ \A p \in DOMAIN s.playerOffers : s.playerOffers[p] \in OfferId
  BY <1>1, PFunIs
<1>8. /\ DOMAIN i = DOMAIN s.playerOffers \cup DOMAIN roles
      /\ \A p \in DOMAIN roles : i[p] = id
      /\ \A p \in DOMAIN s.playerOffers : p \notin DOMAIN roles => i[p] = s.playerOffers[p]
  OBVIOUS
<1>9. i \in PFun(Player, OfferId)
  <2>1. DOMAIN s.playerOffers \cup DOMAIN roles \in SUBSET Player
    BY <1>3, <1>7
  <2>2. i \in [DOMAIN s.playerOffers \cup DOMAIN roles -> OfferId]
    BY <1>2, <1>7
  <2> HIDE DEF i
  <2> QED  BY <2>1, <2>2, PFunOf
<1> HIDE DEF o, i
<1>10. \A x \in DOMAIN s.offers : x < id /\ x # id
  <2>1. \A x \in DOMAIN s.offers : x < id /\ x \in Nat
    BY OfferIs DEF id, OfferId
  <2> QED  BY <1>2, <2>1
<1>11. \A p \in DOMAIN roles : p \notin DOMAIN s.playerOffers /\ roles[p] \in Allowed[p] /\ Side[p] = Side[seed]
  BY DEF Chosen
<1>12. ASSUME NEW p \in DOMAIN i
       PROVE  i[p] \in DOMAIN o /\ p \in DOMAIN o[i[p]].roles
  <2>1. CASE p \in DOMAIN roles
    <3>1. i[p] = id
      BY <1>8, <2>1
    <3> QED  BY <1>4, <1>6, <2>1, <3>1
  <2>2. CASE p \notin DOMAIN roles
    <3>1. p \in DOMAIN s.playerOffers /\ i[p] = s.playerOffers[p]
      BY <1>8, <2>2
    <3>2. i[p] \in DOMAIN s.offers /\ p \in DOMAIN s.offers[i[p]].roles
      BY <3>1, IndexIs
    <3> QED  BY <1>6, <1>10, <3>2
  <2> QED  BY <2>1, <2>2
<1>13. OfferOK(id, o[id], i)
  <2>1. ASSUME NEW p \in DOMAIN roles
        PROVE  /\ p \in DOMAIN i /\ i[p] = id /\ roles[p] \in Allowed[p]
               /\ \A q \in DOMAIN roles : Side[p] = Side[q]
    BY <1>8, <1>11
  <2> QED  BY <1>4, <1>6, <2>1 DEF OfferOK
<1>14. ASSUME NEW x \in DOMAIN s.offers  PROVE  OfferOK(x, o[x], i)
  <2>1. o[x] = s.offers[x] /\ OfferOK(x, s.offers[x], s.playerOffers)
    BY <1>6, <1>10, OfferIs
  <2>2. ASSUME NEW p \in DOMAIN s.offers[x].roles
        PROVE  p \in DOMAIN i /\ i[p] = x
    <3>1. p \in DOMAIN s.playerOffers /\ s.playerOffers[p] = x
      BY MemberIs
    <3> QED  BY <1>8, <1>11, <3>1
  <2> QED  BY <2>1, <2>2 DEF OfferOK
<1>15. ASSUME NEW x \in DOMAIN o  PROVE  x < id + 1
  <2>1. CASE x = id
    BY <1>2, <2>1
  <2>2. CASE x \in DOMAIN s.offers
    <3>1. x \in Nat /\ x < id
      BY <1>10, <2>2, OfferIs DEF OfferId
    <3> QED  BY <1>2, <3>1
  <2> QED  BY <1>6, <2>1, <2>2
<1>16. OffersOK(o, i, id + 1)
  BY <1>6, <1>12, <1>13, <1>14, <1>15 DEF OffersOK
<1>17. t \in Good /\ SameButOffers(s, t)
  <2> DEFINE n == id + 1
  <2>1. n \in 1..(MaxOffers + 1)
    BY <1>2
  <2>2. t = [s EXCEPT !.offers = o, !.playerOffers = i, !.nextOfferId = n]
    BY <1>5
  <2>3. OffersOK(o, i, n)
    BY <1>16
  <2>4. o \in PFun(OfferId, Offer)
    BY <1>6
  <2> HIDE DEF n
  <2>5. s \in State
    BY DEF Good
  <2>6. t \in State /\ t.offers = o /\ t.playerOffers = i /\ t.nextOfferId = n
    BY <1>9, <2>1, <2>2, <2>4, <2>5 DEF State
  <2>7. SameButOffers(s, t)
    BY <2>2, <2>5 DEF State, SameButOffers
  <2> QED  BY <2>3, <2>6, <2>7 DEF Good
<1> QED  BY <1>17

\* TryBuildOfferForInstance makes one offer at most and touches nothing else.
LEMMA TryBuildOK ==
  ASSUME NEW s \in Good, NEW instance \in Instance, NEW t, t = TryBuildOfferForInstance(s, instance)
  PROVE  t \in Good /\ SameButOffers(s, t)
<1> DEFINE seeds == {i \in DOMAIN s.queue :
                        /\ ~HasOffer(s, s.queue[i].guid) /\ instance \in ToSet(s.queue[i].instances)
                        /\ IsComplete(Match(s, instance, s.queue[i].guid))}
           seed == s.queue[Min(seeds)].guid
           roles == Match(s, instance, seed)
<1>1. t = IF s.nextOfferId > MaxOffers \/ seeds = {} THEN s ELSE NewOffer(s, instance, roles)
  BY DEF TryBuildOfferForInstance
<1>2. SameButOffers(s, s)
  BY DEF SameButOffers
<1>3. ASSUME seeds # {}  PROVE  IsComplete(roles)
  <2>1. seeds \in SUBSET Nat
    BY GoodIs, QueueIs
  <2>2. Min(seeds) \in seeds
    <3> HIDE DEF seeds
    <3> QED  BY <1>3, <2>1, MinIn
  <2> QED  BY <2>2
<1>4. roles \in Chosen(s, seed)
  BY MatchOK
<1>5. s.nextOfferId \in 1..(MaxOffers + 1) /\ MaxOffers \in Nat
  BY GoodIs, LftAssumption
<1>6. ~(s.nextOfferId > MaxOffers) => s.nextOfferId <= MaxOffers
  BY <1>5
<1> HIDE DEF seeds, seed, roles
<1>7. CASE s.nextOfferId > MaxOffers \/ seeds = {}
  BY <1>1, <1>2, <1>7
<1>8. CASE ~(s.nextOfferId > MaxOffers \/ seeds = {})
  <2>1. t = NewOffer(s, instance, roles)
    BY <1>1, <1>8
  <2> QED  BY <1>3, <1>4, <1>6, <1>8, <2>1, NewOfferOK
<1> QED  BY <1>7, <1>8

\* What the matcher makes of s.
OfferedFrom(s) == {t \in Good : SameButOffers(s, t)}

\* LFTManager::TryMakeOffers, over all dungeons.
LEMMA TryMakeOffersIn ==
  ASSUME NEW s \in Good
  PROVE  TryMakeOffers(s) \in OfferedFrom(s)
<1>a. \A j \in DOMAIN s.queue : ToSet(s.queue[j].instances) \subseteq Instance
  BY GoodIs, QueueIs, EntryIs, RequestIs
<1> DEFINE A == OfferedFrom(s)
           S == UNION {ToSet(s.queue[j].instances) :
                            j \in {k \in DOMAIN s.queue : ~HasOffer(s, s.queue[k].guid)}}
           b == s
           R == [x \in A \X S |-> TryBuildOfferForInstance(x[1], x[2])]
           Eq(it) == it = [w \in SUBSET S |->
                             IF w = {} THEN b
                             ELSE TryBuildOfferForInstance(it[w \ {Max(w)}], Max(w))]
           f == CHOOSE it : Eq(it)
<1>1. b \in A
  BY DEF OfferedFrom, SameButOffers
<1>2. S \in SUBSET Nat /\ IsFiniteSet(S)
  <2>1. S \subseteq Instance
    BY <1>a
  <2> HIDE DEF S
  <2> QED  BY <2>1, LftAssumption, FS_Subset
<1>3. \A a \in A, i \in S : TryBuildOfferForInstance(a, i) \in A
  <2>1. S \subseteq Instance
    BY <1>a
  <2> HIDE DEF S
  <2> SUFFICES ASSUME NEW a \in A, NEW i \in S  PROVE  TryBuildOfferForInstance(a, i) \in A
    OBVIOUS
  <2>2. a \in Good /\ SameButOffers(s, a) /\ i \in Instance
    BY <2>1 DEF OfferedFrom
  <2> DEFINE c == TryBuildOfferForInstance(a, i)
  <2>3. c \in Good /\ SameButOffers(a, c)
    BY <2>2, TryBuildOK
  <2> HIDE DEF c
  <2>4. SameButOffers(s, c)
    BY <2>2, <2>3 DEF SameButOffers
  <2>5. c \in A
    BY <2>3, <2>4 DEF OfferedFrom
  <2> QED  BY <2>5 DEF c
<1>4. TryMakeOffers(s) = f[S]
  BY DEF TryMakeOffers, FoldAscending, MapThenFoldSet, b, S
<1> HIDE DEF A, S, b
<1>5. \A w \in SUBSET S : w # {} => Max(w) \in w
  BY <1>2, MaxOfSubset
<1>6. Steps(R, A, S)
  BY <1>3 DEF Steps
<1>7. PICK h : Folded(h, A, S, b, R)
  <2> HIDE DEF R
  <2> QED  BY <1>1, <1>2, <1>6, FoldExists
<1>8. Eq(h)
  <2> DEFINE F(w) == IF w = {} THEN b ELSE TryBuildOfferForInstance(h[w \ {Max(w)}], Max(w))
  <2>1. ASSUME NEW w \in SUBSET S, w # {}
        PROVE  h[w] = TryBuildOfferForInstance(h[w \ {Max(w)}], Max(w))
    <3>1. h[w \ {Max(w)}] \in A /\ Max(w) \in S
      BY <1>5, <1>7, <2>1 DEF Folded
    <3>2. h[w] = R[<<h[w \ {Max(w)}], Max(w)>>]
      BY <1>7, <2>1 DEF Folded
    <3> QED  BY <3>1, <3>2
  <2>2. \A w \in SUBSET S : h[w] = F(w)
    BY <1>7, <2>1 DEF Folded
  <2> HIDE DEF F
  <2>3. h = [w \in SUBSET S |-> F(w)]
    BY <1>7, <2>2 DEF Folded
  <2> QED  BY <2>3 DEF F
<1>9. Eq(f)
  <2> HIDE DEF Eq
  <2> QED  BY <1>8, Zenon
<1> HIDE DEF f
<1>10. f[{}] = b /\ \A w \in SUBSET S : w # {} => f[w] = TryBuildOfferForInstance(f[w \ {Max(w)}], Max(w))
  BY <1>9
<1>11. ASSUME NEW w \in SUBSET S, w # {}, f[w \ {Max(w)}] \in A
       PROVE  f[w] \in A
  BY <1>3, <1>5, <1>10, <1>11
<1>12. f[S] \in A
  BY <1>1, <1>2, <1>10, <1>11, FoldIn DEF KeepsIn
<1> QED  BY <1>4, <1>12 DEF A

\* The same, for a state with a name.
LEMMA TryMakeOffersOK ==
  ASSUME NEW s \in Good, NEW t, t = TryMakeOffers(s)
  PROVE  t \in Good /\ SameButOffers(s, t)
BY TryMakeOffersIn DEF OfferedFrom

-----------------------------------------------------------------------------
(***************************************************************************)
(* Offers that end                                                         *)
(***************************************************************************)

\* All but the queue and the offers.
SameRest(s, t) ==
    /\ t.rolechecks = s.rolechecks /\ t.nextOfferId = s.nextOfferId /\ t.fillBots = s.fillBots
    /\ t.botFillTimer = s.botFillTimer /\ t.groups = s.groups /\ t.inWorld = s.inWorld

\* The offer id is gone, the others are as they were.
Without(s, t, id) ==
    /\ DOMAIN t.offers = DOMAIN s.offers \ {id}
    /\ \A x \in DOMAIN t.offers : t.offers[x] = s.offers[x]

\* Both indices forget the offer; no other offer changes.
LEMMA WithdrawOK ==
  ASSUME NEW s \in Good, NEW id \in DOMAIN s.offers, NEW t, t = Withdraw(s, id)
  PROVE  t \in Good /\ SameRest(s, t) /\ t.queue = s.queue /\ Without(s, t, id)
<1> DEFINE roles == s.offers[id].roles
           D == DOMAIN s.playerOffers \ DOMAIN roles
           E == DOMAIN s.offers \ {id}
           i == Restrict(s.playerOffers, D)
           o == Restrict(s.offers, E)
<1>1. s.offers \in PFun(OfferId, Offer) /\ s.playerOffers \in PFun(Player, OfferId)
  BY GoodIs
<1>2. t = [s EXCEPT !.playerOffers = i, !.offers = o]
  BY DEF Withdraw
<1>3. i \in PFun(Player, OfferId) /\ DOMAIN i = D /\ \A p \in D : i[p] = s.playerOffers[p]
  <2>1. D \in SUBSET (DOMAIN s.playerOffers)
    OBVIOUS
  <2> HIDE DEF D
  <2>2. i \in PFun(Player, OfferId)
    BY <1>1, <2>1, RestrictOK
  <2> QED  BY <2>2 DEF Restrict
<1>4. o \in PFun(OfferId, Offer) /\ DOMAIN o = E /\ \A x \in E : o[x] = s.offers[x]
  <2>1. E \in SUBSET (DOMAIN s.offers)
    OBVIOUS
  <2> HIDE DEF E
  <2>2. o \in PFun(OfferId, Offer)
    BY <1>1, <2>1, RestrictOK
  <2> QED  BY <2>2 DEF Restrict
<1> HIDE DEF i, o
<1>5. ASSUME NEW p \in DOMAIN i
      PROVE  i[p] \in DOMAIN o /\ p \in DOMAIN o[i[p]].roles
  <2>1. /\ p \in DOMAIN s.playerOffers /\ p \notin DOMAIN roles /\ i[p] = s.playerOffers[p]
    BY <1>3
  <2>2. i[p] \in DOMAIN s.offers /\ p \in DOMAIN s.offers[i[p]].roles
    BY <2>1, IndexIs
  <2>3. i[p] # id
    BY <2>1, <2>2
  <2> QED  BY <1>4, <2>2, <2>3
<1>6. ASSUME NEW x \in DOMAIN o
      PROVE  x < s.nextOfferId /\ OfferOK(x, o[x], i)
  <2>1. x \in DOMAIN s.offers /\ x # id /\ o[x] = s.offers[x]
    BY <1>4
  <2>2. x < s.nextOfferId /\ OfferOK(x, s.offers[x], s.playerOffers)
    BY <2>1, OfferIs
  <2>3. ASSUME NEW p \in DOMAIN s.offers[x].roles
        PROVE  p \in DOMAIN i /\ i[p] = x
    <3>1. p \in DOMAIN s.playerOffers /\ s.playerOffers[p] = x
      BY <2>1, MemberIs
    <3>2. p \notin DOMAIN roles
      BY <2>1, <3>1, MemberIs
    <3> QED  BY <1>3, <3>1, <3>2
  <2> QED  BY <2>1, <2>2, <2>3 DEF OfferOK
<1>7. OffersOK(o, i, s.nextOfferId)
  BY <1>5, <1>6 DEF OffersOK
<1>8. t \in Good /\ SameRest(s, t) /\ t.queue = s.queue /\ t.offers = o
  <2>1. s \in State
    BY DEF Good
  <2>2. t \in State /\ t.offers = o /\ t.playerOffers = i
    BY <1>2, <1>3, <1>4, <2>1 DEF State
  <2>3. SameRest(s, t) /\ t.queue = s.queue
    BY <1>2, <2>1 DEF State, SameRest
  <2> QED  BY <1>7, <2>2, <2>3 DEF Good, SameRest
<1>9. Without(s, t, id)
  BY <1>4, <1>8 DEF Without
<1> QED  BY <1>8, <1>9

\* Who loses his place with the offer.
Dropped(s, id, rq, rm, ro) ==
    {p \in DOMAIN s.offers[id].roles : ~(rq /\ p # rm /\ (ro \/ p \in s.offers[id].accepted))}

\* LFTManager::CancelOffer drops exactly those it says from the queue.
LEMMA CancelOK ==
  ASSUME NEW s \in Good, NEW id, NEW rq, NEW rm, NEW ro, NEW t, t = CancelOffer(s, id, rq, rm, ro)
  PROVE  /\ t \in Good /\ SameRest(s, t)
         /\ id \notin DOMAIN s.offers => t = s
         /\ id \in DOMAIN s.offers =>
                /\ Without(s, t, id)
                /\ Queued(t) = Queued(s) \ Dropped(s, id, rq, rm, ro)
<1>1. CASE id \notin DOMAIN s.offers
  BY <1>1 DEF CancelOffer, SameRest
<1>2. CASE id \in DOMAIN s.offers
  <2> DEFINE offer == s.offers[id]
             members == DOMAIN offer.roles
             kept == {p \in members : rq /\ p # rm /\ (ro \/ p \in offer.accepted)}
             dropped == Dropped(s, id, rq, rm, ro)
             u == Withdraw(s, id)
  <2>1. t = Dequeue(u, members \ kept)
    BY <1>2 DEF CancelOffer
  <2>2. members \ kept = dropped
    BY DEF Dropped
  <2>3. t = Dequeue(u, dropped)
    BY <2>1, <2>2, Zenon
  <2> HIDE DEF dropped
  <2>4. u \in Good /\ SameRest(s, u) /\ u.queue = s.queue /\ Without(s, u, id)
    BY <1>2, WithdrawOK
  <2> HIDE DEF u
  <2>5. t \in Good /\ SameElse(u, t) /\ Queued(t) = Queued(u) \ dropped
    BY <2>3, <2>4, DequeueOK
  <2>6. SameRest(s, t) /\ Without(s, t, id) /\ Queued(u) = Queued(s)
    BY <2>4, <2>5 DEF SameRest, SameElse, Without, Queued
  <2> QED  BY <1>2, <2>5, <2>6 DEF dropped
<1> QED  BY <1>1, <1>2

\* An offer ends because p leaves, because its time is over, because all have
\* accepted and the party cannot be made.
CancelFor(s, id, p) == CancelOffer(s, id, TRUE, p, TRUE)
Expire(s, id) == CancelOffer(s, id, TRUE, NoGuid, FALSE)
Abandon(s, id) == CancelOffer(s, id, FALSE, NoGuid, FALSE)

\* Somebody who leaves costs nobody else his place.
LEMMA CancelForOK ==
  ASSUME NEW s \in Good, NEW id, NEW p, NEW t, t = CancelFor(s, id, p)
  PROVE  t \in Good /\ SameRest(s, t) /\ Queued(s) \ {p} \subseteq Queued(t)
<1>0. t = CancelOffer(s, id, TRUE, p, TRUE)
  BY DEF CancelFor
<1>1. /\ t \in Good /\ SameRest(s, t)
      /\ id \notin DOMAIN s.offers => t = s
      /\ id \in DOMAIN s.offers => Queued(t) = Queued(s) \ Dropped(s, id, TRUE, p, TRUE)
  BY <1>0, CancelOK, ZenonT(60)
<1>2. Dropped(s, id, TRUE, p, TRUE) \subseteq {p}
  BY DEF Dropped
<1> QED  BY <1>1, <1>2

\* The parts of a role check.
LEMMA CheckIs ==
  ASSUME NEW s \in Good, NEW l \in DOMAIN s.rolechecks
  PROVE  l \in Player /\ s.rolechecks[l] \in Check /\ CheckOK(l, s.rolechecks[l])
<1>1. s.rolechecks \in PFun(Player, Check) /\ \A k \in DOMAIN s.rolechecks : CheckOK(k, s.rolechecks[k])
  BY GoodIs DEF Checks
<1> QED  BY <1>1, PFunIs

\* Erasing role checks leaves the others well formed.
LEMMA RestrictChecks ==
  ASSUME NEW s \in Good, NEW E \in SUBSET (DOMAIN s.rolechecks)
  PROVE  Restrict(s.rolechecks, E) \in Checks
<1>1. s.rolechecks \in PFun(Player, Check) /\ \A l \in DOMAIN s.rolechecks : CheckOK(l, s.rolechecks[l])
  BY GoodIs DEF Checks
<1>2. Restrict(s.rolechecks, E) \in PFun(Player, Check)
  BY <1>1, RestrictOK
<1>3. \A l \in E : Restrict(s.rolechecks, E)[l] = s.rolechecks[l]
  BY DEF Restrict
<1>4. DOMAIN Restrict(s.rolechecks, E) = E
  BY DEF Restrict
<1> QED  BY <1>1, <1>2, <1>3, <1>4 DEF Checks

\* All but the queue, the role checks and the offers.
SameGroups(s, t) ==
    /\ t.fillBots = s.fillBots /\ t.botFillTimer = s.botFillTimer
    /\ t.groups = s.groups /\ t.inWorld = s.inWorld

\* CleanupPlayer takes nobody else out of the queue.
LEMMA CleanupOK ==
  ASSUME NEW s \in Good, NEW p, NEW t, t = CleanupPlayer(s, p)
  PROVE  t \in Good /\ SameGroups(s, t) /\ Queued(s) \ {p} \subseteq Queued(t)
<1> DEFINE gone == Dequeue(s, {p})
           free == IF HasOffer(s, p) THEN CancelFor(gone, s.playerOffers[p], p) ELSE gone
           E == {l \in DOMAIN free.rolechecks : p \notin ToSet(free.rolechecks[l].members)}
           c == Restrict(free.rolechecks, E)
<1>1. t = [free EXCEPT !.rolechecks = c]
  BY DEF CleanupPlayer, CancelFor
<1>2. gone \in Good /\ SameElse(s, gone) /\ Queued(gone) = Queued(s) \ {p}
  BY DequeueOK
<1>3. free \in Good /\ SameRest(s, free) /\ Queued(s) \ {p} \subseteq Queued(free)
  <2> HIDE DEF gone
  <2>1. CASE HasOffer(s, p)
    <3> DEFINE d == CancelFor(gone, s.playerOffers[p], p)
    <3>1. d \in Good /\ SameRest(gone, d) /\ Queued(gone) \ {p} \subseteq Queued(d)
      BY <1>2, CancelForOK
    <3>2. free = d
      BY <2>1
    <3> HIDE DEF d, free
    <3>3. SameRest(s, d)
      BY <1>2, <3>1 DEF SameElse, SameRest
    <3> QED  BY <1>2, <3>1, <3>2, <3>3
  <2>2. CASE ~HasOffer(s, p)
    <3>1. SameRest(s, gone)
      BY <1>2 DEF SameElse, SameRest
    <3> QED  BY <1>2, <2>2, <3>1
  <2> QED  BY <2>1, <2>2
<1> HIDE DEF free
<1>4. c \in Checks
  <2>1. E \in SUBSET (DOMAIN free.rolechecks)
    OBVIOUS
  <2> HIDE DEF E
  <2> QED  BY <1>3, <2>1, RestrictChecks
<1> HIDE DEF c
<1>5. t \in Good /\ t.queue = free.queue /\ t.fillBots = free.fillBots
      /\ t.botFillTimer = free.botFillTimer /\ t.groups = free.groups /\ t.inWorld = free.inWorld
  BY <1>1, <1>3, <1>4, SetRolechecks
<1>6. Queued(t) = Queued(free)
  BY <1>5 DEF Queued
<1> QED  BY <1>3, <1>5, <1>6 DEF SameRest, SameGroups

-----------------------------------------------------------------------------
(***************************************************************************)
(* Role checks                                                             *)
(***************************************************************************)

\* Nobody leaves the queue, and groups and the world are as they were.
GrownFrom(s) == {t \in Good : SameGroups(s, t) /\ Queued(s) \subseteq Queued(t)}

\* Growing twice is growing.
LEMMA GrownOnce ==
  ASSUME NEW s, NEW t \in GrownFrom(s), NEW u \in GrownFrom(t)
  PROVE  u \in GrownFrom(s)
BY DEF GrownFrom, SameGroups

\* Nothing happens.
LEMMA GrownSelf ==
  ASSUME NEW s \in Good
  PROVE  s \in GrownFrom(s)
BY DEF GrownFrom, SameGroups

\* TryMakeOffers takes nobody out of the queue.
LEMMA GrownOffers ==
  ASSUME NEW s \in Good
  PROVE  TryMakeOffers(s) \in GrownFrom(s)
<1> DEFINE t == TryMakeOffers(s)
<1>1. t \in Good /\ SameButOffers(s, t)
  BY TryMakeOffersOK
<1> HIDE DEF t
<1>2. Queued(t) = Queued(s) /\ SameGroups(s, t)
  BY <1>1 DEF SameButOffers, SameGroups, Queued
<1>3. t \in GrownFrom(s)
  BY <1>1, <1>2 DEF GrownFrom
<1> QED  BY <1>3 DEF t

\* A role check whose answers are allowed.
Answered == {c \in Check : \A p \in DOMAIN c.responses : c.responses[p] \subseteq Allowed[p]}

\* The parts of an answered role check.
LEMMA AnsweredIs ==
  ASSUME NEW c \in Answered
  PROVE  /\ c.leader \in Player /\ c.members \in Seq(Player) /\ c.instances \in Requests
         /\ c.responses \in PFun(Player, SUBSET Role)
         /\ \A p \in DOMAIN c.responses : c.responses[p] \in SUBSET Role /\ c.responses[p] \subseteq Allowed[p]
<1>1. /\ c.leader \in Player /\ c.members \in Seq(Player) /\ c.instances \in Requests
      /\ c.responses \in PFun(Player, SUBSET Role)
      /\ \A p \in DOMAIN c.responses : c.responses[p] \subseteq Allowed[p]
  BY DEF Answered, Check
<1> QED  BY <1>1, PFunIs

\* One member who has answered and is in the world is queued.
LEMMA EnqueueMemberOK ==
  ASSUME NEW s \in Good, NEW check \in Answered, NEW p
  PROVE  EnqueueMember(check, s, p) \in GrownFrom(s)
<1> DEFINE t == EnqueuePlayer(s, p, check.leader, check.instances, check.responses[p])
<1>1. CASE p \in s.inWorld /\ p \in DOMAIN check.responses
  <2>1. /\ check.leader \in Player \cup {NoGuid} /\ check.instances \in Requests
        /\ check.responses[p] \in SUBSET Role /\ check.responses[p] \subseteq Allowed[p]
    BY <1>1, AnsweredIs
  <2>2. p \in Player
    BY <1>1, GoodIs
  <2>3. t \in Good /\ SameElse(s, t) /\ Queued(t) = Queued(s) \cup {p}
    BY <2>1, <2>2, EnqueueOK
  <2>4. EnqueueMember(check, s, p) = t
    BY <1>1 DEF EnqueueMember
  <2> HIDE DEF t
  <2>5. t \in GrownFrom(s)
    BY <2>3 DEF GrownFrom, SameElse, SameGroups
  <2> QED  BY <2>4, <2>5
<1>2. CASE ~(p \in s.inWorld /\ p \in DOMAIN check.responses)
  <2>1. EnqueueMember(check, s, p) = s
    BY <1>2 DEF EnqueueMember
  <2> QED  BY <2>1, GrownSelf
<1> QED  BY <1>1, <1>2

\* All members.
LEMMA EnqueueMembersOK ==
  ASSUME NEW s \in Good, NEW check \in Answered
  PROVE  EnqueueMembers(s, check) \in GrownFrom(s)
<1> DEFINE A == GrownFrom(s)
           S == DOMAIN check.members
           b == s
           R == [x \in A \X S |-> EnqueueMember(check, x[1], check.members[x[2]])]
           Eq(it) == it = [w \in SUBSET S |->
                             IF w = {} THEN b
                             ELSE EnqueueMember(check, it[w \ {Max(w)}], check.members[Max(w)])]
           f == CHOOSE it : Eq(it)
<1>1. b \in A
  BY GrownSelf
<1>2. S \in SUBSET Nat /\ IsFiniteSet(S)
  BY AnsweredIs, SeqDomain
<1>3. \A a \in A, i \in S : EnqueueMember(check, a, check.members[i]) \in A
  <2> SUFFICES ASSUME NEW a \in A, NEW i \in S  PROVE  EnqueueMember(check, a, check.members[i]) \in A
    OBVIOUS
  <2>1. a \in Good
    BY DEF GrownFrom
  <2>2. EnqueueMember(check, a, check.members[i]) \in GrownFrom(a)
    BY <2>1, EnqueueMemberOK
  <2> QED  BY <2>2, GrownOnce
<1>4. EnqueueMembers(s, check) = f[S]
  BY DEF EnqueueMembers, FoldLeft, MapThenFoldSet, b, S
<1> HIDE DEF A, S, b
<1>5. \A w \in SUBSET S : w # {} => Max(w) \in w
  BY <1>2, MaxOfSubset
<1>6. Steps(R, A, S)
  BY <1>3 DEF Steps
<1>7. PICK h : Folded(h, A, S, b, R)
  <2> HIDE DEF R
  <2> QED  BY <1>1, <1>2, <1>6, FoldExists
<1>8. Eq(h)
  <2> DEFINE F(w) == IF w = {} THEN b ELSE EnqueueMember(check, h[w \ {Max(w)}], check.members[Max(w)])
  <2>1. ASSUME NEW w \in SUBSET S, w # {}
        PROVE  h[w] = EnqueueMember(check, h[w \ {Max(w)}], check.members[Max(w)])
    <3>1. h[w \ {Max(w)}] \in A /\ Max(w) \in S
      BY <1>5, <1>7, <2>1 DEF Folded
    <3>2. h[w] = R[<<h[w \ {Max(w)}], Max(w)>>]
      BY <1>7, <2>1 DEF Folded
    <3> QED  BY <3>1, <3>2
  <2>2. \A w \in SUBSET S : h[w] = F(w)
    BY <1>7, <2>1 DEF Folded
  <2> HIDE DEF F
  <2>3. h = [w \in SUBSET S |-> F(w)]
    BY <1>7, <2>2 DEF Folded
  <2> QED  BY <2>3 DEF F
<1>9. Eq(f)
  <2> HIDE DEF Eq
  <2> QED  BY <1>8, Zenon
<1> HIDE DEF f
<1>10. f[{}] = b /\ \A w \in SUBSET S : w # {} => f[w] = EnqueueMember(check, f[w \ {Max(w)}], check.members[Max(w)])
  BY <1>9
<1>11. ASSUME NEW w \in SUBSET S, w # {}, f[w \ {Max(w)}] \in A
       PROVE  f[w] \in A
  BY <1>3, <1>5, <1>10, <1>11
<1>12. f[S] \in A
  BY <1>1, <1>2, <1>10, <1>11, FoldIn DEF KeepsIn
<1> QED  BY <1>4, <1>12 DEF A

\* LFTManager::EnqueueRolecheck and the matcher after it.
LEMMA EnqueueRolecheckOK ==
  ASSUME NEW s \in Good, NEW check \in Answered
  PROVE  EnqueueRolecheck(s, check) \in GrownFrom(s)
<1> DEFINE t == EnqueueMembers(s, check)
<1>1. t \in GrownFrom(s)
  BY EnqueueMembersOK
<1>2. EnqueueRolecheck(s, check) = TryMakeOffers(t)
  BY DEF EnqueueRolecheck
<1> HIDE DEF t
<1>3. TryMakeOffers(t) \in GrownFrom(t)
  BY <1>1, GrownOffers DEF GrownFrom
<1> QED  BY <1>1, <1>2, <1>3, GrownOnce

\* New role checks.
LEMMA GrownChecks ==
  ASSUME NEW s \in Good, NEW c \in Checks
  PROVE  [s EXCEPT !.rolechecks = c] \in GrownFrom(s)
<1> DEFINE t == [s EXCEPT !.rolechecks = c]
<1>1. t \in Good /\ t.queue = s.queue /\ t.fillBots = s.fillBots
      /\ t.botFillTimer = s.botFillTimer /\ t.groups = s.groups /\ t.inWorld = s.inWorld
  BY SetRolechecks
<1> HIDE DEF t
<1>2. Queued(t) = Queued(s)
  BY <1>1 DEF Queued
<1>3. t \in GrownFrom(s)
  BY <1>1, <1>2 DEF GrownFrom, SameGroups
<1> QED  BY <1>3 DEF t

\* LFTManager::HandleRolecheckResponse takes nobody out of the queue.
LEMMA ResponseOK ==
  ASSUME NEW s \in Good, NEW p \in Player, NEW mask \in SUBSET Role, mask \subseteq Allowed[p]
  PROVE  HandleRolecheckResponse(s, p, mask) \in GrownFrom(s)
<1> DEFINE l == Min(Asked(s, p))
           old == s.rolechecks[l]
           rs == Put(old.responses, p, mask)
           check == [old EXCEPT !.responses = rs]
           E == DOMAIN s.rolechecks \ {l}
           u == [s EXCEPT !.rolechecks = Restrict(s.rolechecks, E)]
           c == [s.rolechecks EXCEPT ![l] = check]
           v == [s EXCEPT !.rolechecks = c]
<1>1. CASE mask = {} \/ Asked(s, p) = {}
  <2>1. HandleRolecheckResponse(s, p, mask) = s
    BY <1>1 DEF HandleRolecheckResponse
  <2> QED  BY <2>1, GrownSelf
<1>2. CASE ~(mask = {} \/ Asked(s, p) = {})
  <2>1. HandleRolecheckResponse(s, p, mask) \in {EnqueueRolecheck(u, check), v}
    BY <1>2 DEF HandleRolecheckResponse
  <2>2. l \in DOMAIN s.rolechecks /\ p \in ToSet(old.members)
    <3>1. Asked(s, p) \in SUBSET Nat
      BY CheckIs, LftAssumption DEF Asked
    <3>2. l \in Asked(s, p)
      BY <1>2, <3>1, MinIn
    <3> QED  BY <3>2 DEF Asked
  <2> HIDE DEF l
  <2>3. l \in Player /\ old \in Check /\ CheckOK(l, old)
    BY <2>2, CheckIs
  <2>4. old.responses \in PFun(Player, SUBSET Role)
    BY <2>3 DEF Check
  <2>5. rs \in PFun(Player, SUBSET Role)
    BY <2>4, PutOK
  <2>6. /\ DOMAIN rs = DOMAIN old.responses \cup {p} /\ rs[p] = mask
        /\ \A x \in DOMAIN old.responses : x # p => rs[x] = old.responses[x]
    BY DEF Put
  <2> HIDE DEF rs, old
  <2>7. check \in Check /\ check.responses = rs /\ check.members = old.members
    BY <2>3, <2>5 DEF Check
  <2> HIDE DEF check
  <2>8. \A x \in DOMAIN rs : x \in ToSet(old.members) /\ rs[x] \subseteq Allowed[x]
    BY <2>2, <2>3, <2>6 DEF CheckOK
  <2>9. CheckOK(l, check) /\ check \in Answered
    BY <2>3, <2>7, <2>8 DEF CheckOK, Answered
  <2>10. u \in GrownFrom(s)
    <3>1. E \in SUBSET (DOMAIN s.rolechecks)
      OBVIOUS
    <3> HIDE DEF E
    <3>2. Restrict(s.rolechecks, E) \in Checks
      BY <3>1, RestrictChecks
    <3> QED  BY <3>2, GrownChecks
  <2>11. EnqueueRolecheck(u, check) \in GrownFrom(s)
    <3> HIDE DEF u
    <3>1. EnqueueRolecheck(u, check) \in GrownFrom(u)
      BY <2>9, <2>10, EnqueueRolecheckOK DEF GrownFrom
    <3> QED  BY <2>10, <3>1, GrownOnce
  <2>12. c \in Checks
    <3>1. s.rolechecks \in PFun(Player, Check) /\ \A k \in DOMAIN s.rolechecks : CheckOK(k, s.rolechecks[k])
      BY GoodIs DEF Checks
    <3>2. DOMAIN s.rolechecks \in SUBSET Player /\ s.rolechecks \in [DOMAIN s.rolechecks -> Check]
      BY <3>1, PFunIs
    <3>3. c \in [DOMAIN s.rolechecks -> Check]
      BY <2>7, <3>2
    <3>4. c \in PFun(Player, Check)
      BY <3>2, <3>3, PFunOf
    <3>5. \A k \in DOMAIN c : CheckOK(k, c[k])
      BY <2>9, <3>1, <3>2
    <3> HIDE DEF c
    <3> QED  BY <3>4, <3>5 DEF Checks
  <2>13. v \in GrownFrom(s)
    <3> HIDE DEF c
    <3> QED  BY <2>12, GrownChecks
  <2> QED  BY <2>1, <2>11, <2>13
<1> QED  BY <1>1, <1>2

\* A bot answers at once with the roles it can take.
LEMMA AnswerForBotOK ==
  ASSUME NEW s \in Good, NEW p
  PROVE  AnswerForBot(s, p) \in GrownFrom(s)
<1>1. CASE p \in Bots
  <2> DEFINE mask == AiRoles[p] \cap Allowed[p]
  <2>1. p \in Player /\ Allowed[p] \in SUBSET Role
    BY <1>1, LftAssumption
  <2>2. mask \in SUBSET Role /\ mask \subseteq Allowed[p]
    BY <2>1
  <2>3. AnswerForBot(s, p) = HandleRolecheckResponse(s, p, mask)
    BY <1>1 DEF AnswerForBot
  <2> HIDE DEF mask
  <2> QED  BY <2>1, <2>2, <2>3, ResponseOK
<1>2. CASE p \notin Bots
  <2>1. AnswerForBot(s, p) = s
    BY <1>2 DEF AnswerForBot
  <2> QED  BY <2>1, GrownSelf
<1> QED  BY <1>1, <1>2

AnswersForBots(s, members) == FoldLeft(AnswerForBot, s, members)

\* All bots of the party.
LEMMA AnswersForBotsOK ==
  ASSUME NEW s \in Good, NEW members \in Seq(Player)
  PROVE  AnswersForBots(s, members) \in GrownFrom(s)
<1> DEFINE A == GrownFrom(s)
           S == DOMAIN members
           b == s
           R == [x \in A \X S |-> AnswerForBot(x[1], members[x[2]])]
           Eq(it) == it = [w \in SUBSET S |->
                             IF w = {} THEN b
                             ELSE AnswerForBot(it[w \ {Max(w)}], members[Max(w)])]
           f == CHOOSE it : Eq(it)
<1>1. b \in A
  BY GrownSelf
<1>2. S \in SUBSET Nat /\ IsFiniteSet(S)
  BY SeqDomain
<1>3. \A a \in A, i \in S : AnswerForBot(a, members[i]) \in A
  <2> SUFFICES ASSUME NEW a \in A, NEW i \in S  PROVE  AnswerForBot(a, members[i]) \in A
    OBVIOUS
  <2>1. a \in Good
    BY DEF GrownFrom
  <2>2. AnswerForBot(a, members[i]) \in GrownFrom(a)
    BY <2>1, AnswerForBotOK
  <2> QED  BY <2>2, GrownOnce
<1>4. AnswersForBots(s, members) = f[S]
  BY DEF AnswersForBots, FoldLeft, MapThenFoldSet, b, S
<1> HIDE DEF A, S, b
<1>5. \A w \in SUBSET S : w # {} => Max(w) \in w
  BY <1>2, MaxOfSubset
<1>6. Steps(R, A, S)
  BY <1>3 DEF Steps
<1>7. PICK h : Folded(h, A, S, b, R)
  <2> HIDE DEF R
  <2> QED  BY <1>1, <1>2, <1>6, FoldExists
<1>8. Eq(h)
  <2> DEFINE F(w) == IF w = {} THEN b ELSE AnswerForBot(h[w \ {Max(w)}], members[Max(w)])
  <2>1. ASSUME NEW w \in SUBSET S, w # {}
        PROVE  h[w] = AnswerForBot(h[w \ {Max(w)}], members[Max(w)])
    <3>1. h[w \ {Max(w)}] \in A /\ Max(w) \in S
      BY <1>5, <1>7, <2>1 DEF Folded
    <3>2. h[w] = R[<<h[w \ {Max(w)}], Max(w)>>]
      BY <1>7, <2>1 DEF Folded
    <3> QED  BY <3>1, <3>2
  <2>2. \A w \in SUBSET S : h[w] = F(w)
    BY <1>7, <2>1 DEF Folded
  <2> HIDE DEF F
  <2>3. h = [w \in SUBSET S |-> F(w)]
    BY <1>7, <2>2 DEF Folded
  <2> QED  BY <2>3 DEF F
<1>9. Eq(f)
  <2> HIDE DEF Eq
  <2> QED  BY <1>8, Zenon
<1> HIDE DEF f
<1>10. f[{}] = b /\ \A w \in SUBSET S : w # {} => f[w] = AnswerForBot(f[w \ {Max(w)}], members[Max(w)])
  BY <1>9
<1>11. ASSUME NEW w \in SUBSET S, w # {}, f[w \ {Max(w)}] \in A
       PROVE  f[w] \in A
  BY <1>3, <1>5, <1>10, <1>11
<1>12. f[S] \in A
  BY <1>1, <1>2, <1>10, <1>11, FoldIn DEF KeepsIn
<1> QED  BY <1>4, <1>12 DEF A

\* LFTManager::GetPartyMembers includes the one who asks.
LEMMA PartyMembersOK ==
  ASSUME NEW s \in Good, NEW p \in s.inWorld
  PROVE  GetPartyMembers(s, p) \in Seq(Player) /\ p \in ToSet(GetPartyMembers(s, p))
<1>0. p \in Player /\ s.groups \in Parties
  BY GoodIs
<1>1. CASE IsGrouped(s.groups, p)
  <2> DEFINE g == GetGroup(s.groups, p)
  <2>1. g \in Group /\ p \in ToSet(g.members)
    BY <1>0, <1>1, GetGroupOK
  <2>2. GetPartyMembers(s, p) = Only(g.members, s.inWorld)
    BY <1>1 DEF GetPartyMembers
  <2> HIDE DEF g
  <2>3. g.members \in Seq(Player)
    BY <2>1, MembersOf
  <2>4. /\ Only(g.members, s.inWorld) \in Seq(Player)
        /\ ToSet(Only(g.members, s.inWorld)) = ToSet(g.members) \cap s.inWorld
    BY <2>3, OnlyOK
  <2> QED  BY <2>1, <2>2, <2>4
<1>2. CASE ~IsGrouped(s.groups, p)
  <2>1. GetPartyMembers(s, p) = <<p>>
    BY <1>2 DEF GetPartyMembers
  <2>2. <<p>> \in Seq(Player) /\ 1 \in DOMAIN <<p>> /\ <<p>>[1] = p
    BY <1>0
  <2> QED  BY <2>1, <2>2 DEF ToSet
<1> QED  BY <1>1, <1>2

\* LFTManager::StartRolecheck takes nobody out of the queue.
LEMMA StartRolecheckOK ==
  ASSUME NEW s \in Good, NEW leader \in s.inWorld, NEW instances \in Requests
  PROVE  StartRolecheck(s, leader, instances) \in GrownFrom(s)
<1> DEFINE members == GetPartyMembers(s, leader)
           check == [leader |-> leader, members |-> members, instances |-> instances,
                     responses |-> <<>>, timer |-> RolecheckTimeout]
           c == Put(s.rolechecks, leader, check)
           started == [s EXCEPT !.rolechecks = c]
<1>1. members \in Seq(Player) /\ leader \in ToSet(members) /\ leader \in Player
  BY PartyMembersOK, GoodIs
<1>2. StartRolecheck(s, leader, instances) \in {started, AnswersForBots(started, members)}
  BY DEF StartRolecheck, AnswersForBots
<1> HIDE DEF members
<1>3. check \in Check /\ CheckOK(leader, check)
  <2>1. <<>> \in PFun(Player, SUBSET Role) /\ DOMAIN <<>> = {}
    BY PFunEmpty
  <2>2. RolecheckTimeout \in 1..RolecheckTimeout
    BY LftAssumption
  <2>3. check.members = members /\ check.responses = <<>>
    OBVIOUS
  <2>4. check \in Check
    BY <1>1, <2>1, <2>2 DEF Check
  <2> HIDE DEF check
  <2>5. DOMAIN check.responses = {}
    BY <2>1, <2>3
  <2> QED  BY <1>1, <2>3, <2>4, <2>5 DEF CheckOK
<1> HIDE DEF check
<1>4. c \in Checks
  <2>1. s.rolechecks \in PFun(Player, Check) /\ \A k \in DOMAIN s.rolechecks : CheckOK(k, s.rolechecks[k])
    BY GoodIs DEF Checks
  <2>2. c \in PFun(Player, Check)
    BY <1>1, <1>3, <2>1, PutOK
  <2>3. /\ DOMAIN c = DOMAIN s.rolechecks \cup {leader} /\ c[leader] = check
        /\ \A x \in DOMAIN s.rolechecks : x # leader => c[x] = s.rolechecks[x]
    BY DEF Put
  <2> HIDE DEF c
  <2>4. \A k \in DOMAIN c : CheckOK(k, c[k])
    BY <1>3, <2>1, <2>3
  <2> QED  BY <2>2, <2>4 DEF Checks
<1> HIDE DEF c
<1>5. started \in GrownFrom(s)
  BY <1>4, GrownChecks
<1> HIDE DEF started
<1>6. AnswersForBots(started, members) \in GrownFrom(started)
  BY <1>1, <1>5, AnswersForBotsOK DEF GrownFrom
<1>7. AnswersForBots(started, members) \in GrownFrom(s)
  BY <1>5, <1>6, GrownOnce
<1> QED  BY <1>2, <1>5, <1>7

-----------------------------------------------------------------------------
(***************************************************************************)
(* Offers that are accepted                                                *)
(***************************************************************************)

\* All members of the offer lose their place, nobody else does.
LEMMA AbandonOK ==
  ASSUME NEW s \in Good, NEW id \in DOMAIN s.offers, NEW t, t = Abandon(s, id)
  PROVE  /\ t \in Good /\ SameRest(s, t) /\ Without(s, t, id)
         /\ Queued(s) \ DOMAIN s.offers[id].roles \subseteq Queued(t)
<1> DEFINE no == FALSE
<1>0. t = CancelOffer(s, id, no, NoGuid, no)
  BY DEF Abandon
<1>2. Dropped(s, id, no, NoGuid, no) \subseteq DOMAIN s.offers[id].roles
  BY DEF Dropped
<1> HIDE DEF no
<1>1. /\ t \in Good /\ SameRest(s, t) /\ Without(s, t, id)
      /\ Queued(t) = Queued(s) \ Dropped(s, id, no, NoGuid, no)
  BY <1>0, CancelOK
<1> QED  BY <1>1, <1>2

\* The offer is over, with or without a party.
Closed(s, t, id) ==
    /\ t.inWorld \subseteq s.inWorld /\ Without(s, t, id)
    /\ Queued(s) \ DOMAIN s.offers[id].roles \subseteq Queued(t)

\* LFTManager::CompleteOffer, whichever way it ends: only members of the
\* offer lose their place.
LEMMA CompleteOfferOK ==
  ASSUME NEW s \in Good, NEW id \in DOMAIN s.offers, NEW begun, NEW t, t = CompleteOffer(s, id, begun)
  PROVE  t \in Good /\ Closed(s, t, id)
<1> DEFINE offer == s.offers[id]
           members == DOMAIN offer.roles
           formed == AddPlayersToGroup(s, LeaderOf(s, offer), members)
           u == [s EXCEPT !.groups = formed.groups]
           sent == TeleportGroupToInstance(u, offer, begun)
           world == sent.world
           v == [u EXCEPT !.inWorld = world]
           w == Dequeue(Withdraw(u, id), members)
           bots == w.fillBots \ members
           x == [w EXCEPT !.inWorld = world, !.fillBots = bots]
<1>1. t \in {Abandon(u, id), Abandon(v, id), x}
  BY DEF CompleteOffer, Abandon
<1>2. s.groups \in Parties /\ s.inWorld \in SUBSET Player /\ members \in SUBSET Player
  BY GoodIs, OfferIs
<1>3. formed.groups \in Parties
  <2> HIDE DEF members, offer
  <2>1. formed \in Formed
    BY <1>2, AddPlayersToGroupOK
  <2> HIDE DEF formed
  <2> QED  BY <2>1 DEF Formed
<1> HIDE DEF formed
<1>4. /\ u \in Good /\ u.offers = s.offers /\ u.queue = s.queue /\ u.inWorld = s.inWorld
  BY <1>3, SetGroups
<1> HIDE DEF u
<1>5. Queued(u) = Queued(s) /\ id \in DOMAIN u.offers
  BY <1>4 DEF Queued
<1>6. world \in SUBSET Player /\ world \subseteq s.inWorld
  <2>1. world \subseteq u.inWorld
    BY DEF TeleportGroupToInstance
  <2> HIDE DEF world
  <2> QED  BY <1>2, <1>4, <2>1
<1> HIDE DEF world
<1>7. CASE t = Abandon(u, id)
  <2>1. /\ t \in Good /\ SameRest(u, t) /\ Without(u, t, id)
        /\ Queued(u) \ DOMAIN u.offers[id].roles \subseteq Queued(t)
    BY <1>4, <1>5, <1>7, AbandonOK
  <2> QED  BY <1>4, <1>5, <2>1 DEF SameRest, Without, Closed
<1>8. CASE t = Abandon(v, id)
  <2>1. /\ v \in Good /\ v.offers = u.offers /\ v.queue = u.queue /\ v.inWorld = world
    BY <1>4, <1>6, SetWorld
  <2> HIDE DEF v
  <2>2. Queued(v) = Queued(s) /\ id \in DOMAIN v.offers /\ v.offers = s.offers
    BY <1>4, <1>5, <2>1 DEF Queued
  <2>3. /\ t \in Good /\ SameRest(v, t) /\ Without(v, t, id)
        /\ Queued(v) \ DOMAIN v.offers[id].roles \subseteq Queued(t)
    BY <1>8, <2>1, <2>2, AbandonOK
  <2> QED  BY <1>6, <2>1, <2>2, <2>3 DEF SameRest, Without, Closed
<1>9. CASE t = x
  <2> DEFINE y == Withdraw(u, id)
  <2>1. y \in Good /\ SameRest(u, y) /\ y.queue = u.queue /\ Without(u, y, id)
    BY <1>4, <1>5, WithdrawOK
  <2>2. w = Dequeue(y, members)
    OBVIOUS
  <2> HIDE DEF y, members
  <2>3. w \in Good /\ SameElse(y, w) /\ Queued(w) = Queued(y) \ members
    BY <2>1, <2>2, DequeueOK
  <2> HIDE DEF w
  <2>4. Queued(y) = Queued(s)
    BY <1>5, <2>1 DEF Queued
  <2>5. Without(s, w, id)
    BY <1>4, <2>1, <2>3 DEF Without, SameElse
  <2>6. bots \in SUBSET Bots
    BY <2>3, GoodIs
  <2> HIDE DEF bots
  <2>7. x \in Good /\ x.inWorld = world /\ x.queue = w.queue /\ x.offers = w.offers
    <3>1. w \in State /\ OffersOK(w.offers, w.playerOffers, w.nextOfferId)
      BY <2>3 DEF Good
    <3>2. x \in State /\ x.inWorld = world
      BY <1>6, <2>6, <3>1 DEF State
    <3>3. x.queue = w.queue /\ x.offers = w.offers /\ x.playerOffers = w.playerOffers
          /\ x.nextOfferId = w.nextOfferId
      BY <3>1 DEF State
    <3> HIDE DEF x
    <3> QED  BY <3>1, <3>2, <3>3 DEF Good
  <2> HIDE DEF x
  <2>8. Queued(t) = Queued(s) \ members /\ Without(s, t, id) /\ t.inWorld = world /\ t \in Good
    <3>1. Queued(x) = Queued(w) /\ Without(s, x, id)
      BY <2>5, <2>7 DEF Queued, Without
    <3>2. t = x
      BY <1>9
    <3> QED  BY <2>3, <2>4, <2>7, <3>1, <3>2
  <2> QED  BY <1>6, <2>8 DEF Closed, members
<1> QED  BY <1>1, <1>7, <1>8, <1>9

\* An offer that waits for somebody other than p stays open when p accepts, and
\* nobody it is made to loses his place.
StaysOpen(s, t, p) ==
    \A o \in DOMAIN s.offers : \A q \in DOMAIN s.offers[o].roles \ s.offers[o].accepted :
        q # p => /\ o \in DOMAIN t.offers
                 /\ q \in DOMAIN t.offers[o].roles /\ q \notin t.offers[o].accepted
                 /\ s.offers[o].accepted \subseteq t.offers[o].accepted
                 /\ DOMAIN s.offers[o].roles \cap Queued(s) \subseteq Queued(t)

\* What p does with his offer costs nobody else his place.
Elsewhere(s, t, p) ==
    \A o \in DOMAIN s.offers : p \notin DOMAIN s.offers[o].roles =>
        DOMAIN s.offers[o].roles \cap Queued(s) \subseteq Queued(t)

\* LFTManager::HandleOfferAccept.
LEMMA HandleOfferAcceptOK ==
  ASSUME NEW s \in Good, NEW p, NEW begun, NEW t, t = HandleOfferAccept(s, p, begun)
  PROVE  t \in Good /\ t.inWorld \subseteq s.inWorld /\ StaysOpen(s, t, p) /\ Elsewhere(s, t, p)
<1>1. CASE ~HasOffer(s, p) \/ s.playerOffers[p] \notin DOMAIN s.offers
  BY <1>1 DEF HandleOfferAccept, StaysOpen, Elsewhere
<1>2. CASE HasOffer(s, p) /\ s.playerOffers[p] \in DOMAIN s.offers
  <2> DEFINE id == s.playerOffers[p]
             old == s.offers[id]
             yes == old.accepted \cup {p}
             new == [old EXCEPT !.accepted = yes]
             o == [s.offers EXCEPT ![id] = new]
             u == [s EXCEPT !.offers = o]
  <2>1. /\ u.offers[id].accepted # DOMAIN u.offers[id].roles => t = u
        /\ u.offers[id].accepted = DOMAIN u.offers[id].roles => t = CompleteOffer(u, id, begun)
    BY <1>2 DEF HandleOfferAccept
  <2>2. id \in DOMAIN s.offers /\ p \in DOMAIN old.roles /\ p \in Player
    BY <1>2, IndexIs DEF HasOffer
  <2> HIDE DEF id
  <2>3. old \in Offer /\ OfferOK(id, old, s.playerOffers) /\ old.accepted \in SUBSET Player
    BY <2>2, OfferIs
  <2>4. s.offers \in PFun(OfferId, Offer)
    BY GoodIs
  <2>5. DOMAIN s.offers \in SUBSET OfferId /\ s.offers \in [DOMAIN s.offers -> Offer]
    BY <2>4, PFunIs
  <2>6. yes \in SUBSET Player /\ yes \subseteq DOMAIN old.roles
    BY <2>2, <2>3 DEF OfferOK
  <2> HIDE DEF old
  <2>7. new \in Offer /\ new.roles = old.roles /\ new.accepted = yes
    <3> HIDE DEF yes
    <3> QED  BY <2>3, <2>6 DEF Offer
  <2> HIDE DEF new
  <2>8. OfferOK(id, new, s.playerOffers)
    BY <2>3, <2>6, <2>7 DEF OfferOK
  <2>9. /\ DOMAIN o = DOMAIN s.offers /\ o[id] = new
        /\ \A y \in DOMAIN s.offers : y # id => o[y] = s.offers[y]
    BY <2>2, <2>5
  <2>10. o \in PFun(OfferId, Offer)
    <3>1. o \in [DOMAIN s.offers -> Offer]
      BY <2>5, <2>7
    <3> HIDE DEF o
    <3> QED  BY <2>5, <3>1, PFunOf
  <2> HIDE DEF o
  <2>11. OffersOK(o, s.playerOffers, s.nextOfferId)
    <3>1. OffersOK(s.offers, s.playerOffers, s.nextOfferId)
      BY GoodIs
    <3>2. \A y \in DOMAIN s.offers : o[y].roles = s.offers[y].roles
      BY <2>7, <2>9 DEF old
    <3>3. \A y \in DOMAIN o : y < s.nextOfferId /\ OfferOK(y, o[y], s.playerOffers)
      BY <2>8, <2>9, <3>1 DEF OffersOK
    <3> QED  BY <2>9, <3>1, <3>2, <3>3 DEF OffersOK
  <2>12. u \in Good /\ u.offers = o /\ u.queue = s.queue /\ u.inWorld = s.inWorld
    BY <2>10, <2>11, SetOffers
  <2> HIDE DEF u
  <2>13. Queued(u) = Queued(s)
    BY <2>12 DEF Queued
  <2>14. \A y \in DOMAIN s.offers : /\ y \in DOMAIN u.offers /\ u.offers[y].roles = s.offers[y].roles
                                   /\ s.offers[y].accepted \subseteq u.offers[y].accepted
                                   /\ u.offers[y].accepted \subseteq s.offers[y].accepted \cup {p}
    BY <2>7, <2>9, <2>12 DEF old
  <2>15. CASE u.offers[id].accepted # DOMAIN u.offers[id].roles
    <3>1. t = u
      BY <2>1, <2>15
    <3>2. StaysOpen(s, t, p)
      BY <2>13, <2>14, <3>1 DEF StaysOpen
    <3>3. Elsewhere(s, t, p)
      BY <2>13, <3>1 DEF Elsewhere
    <3> QED  BY <2>12, <3>1, <3>2, <3>3
  <2>16. CASE u.offers[id].accepted = DOMAIN u.offers[id].roles
    <3>1. t = CompleteOffer(u, id, begun) /\ id \in DOMAIN u.offers
      BY <2>1, <2>2, <2>14, <2>16
    <3>2. t \in Good /\ Closed(u, t, id)
      BY <2>12, <3>1, CompleteOfferOK
    <3>3. /\ t.inWorld \subseteq s.inWorld /\ Without(u, t, id)
          /\ Queued(s) \ DOMAIN u.offers[id].roles \subseteq Queued(t)
      BY <2>12, <2>13, <3>2 DEF Closed
    <3>4. ASSUME NEW y \in DOMAIN s.offers, NEW q \in DOMAIN s.offers[y].roles \ s.offers[y].accepted, q # p
          PROVE  /\ y \in DOMAIN t.offers
                 /\ q \in DOMAIN t.offers[y].roles /\ q \notin t.offers[y].accepted
                 /\ s.offers[y].accepted \subseteq t.offers[y].accepted
                 /\ DOMAIN s.offers[y].roles \cap Queued(s) \subseteq Queued(t)
      <4>1. q \notin u.offers[y].accepted /\ q \in DOMAIN u.offers[y].roles /\ y \in DOMAIN u.offers
        BY <2>14, <3>4
      <4>2. y # id
        BY <2>16, <4>1
      <4>3. y \in DOMAIN t.offers /\ t.offers[y] = u.offers[y]
        BY <3>3, <4>1, <4>2 DEF Without
      <4>4. ASSUME NEW m \in DOMAIN u.offers[y].roles  PROVE  m \notin DOMAIN u.offers[id].roles
        BY <2>12, <3>1, <4>1, <4>2, MemberIs
      <4>5. DOMAIN s.offers[y].roles \cap Queued(s) \subseteq Queued(t)
        BY <2>14, <3>3, <4>4
      <4> QED  BY <2>14, <4>1, <4>3, <4>5
    <3>5. StaysOpen(s, t, p)
      BY <3>4 DEF StaysOpen
    <3>6. ASSUME NEW y \in DOMAIN s.offers, p \notin DOMAIN s.offers[y].roles
          PROVE  DOMAIN s.offers[y].roles \cap Queued(s) \subseteq Queued(t)
      <4>1. y # id /\ y \in DOMAIN u.offers /\ u.offers[y].roles = s.offers[y].roles
        BY <2>2, <2>14, <3>6 DEF old
      <4>2. ASSUME NEW m \in DOMAIN u.offers[y].roles  PROVE  m \notin DOMAIN u.offers[id].roles
        BY <2>12, <3>1, <4>1, MemberIs
      <4> QED  BY <3>3, <4>1, <4>2
    <3>7. Elsewhere(s, t, p)
      BY <3>6 DEF Elsewhere
    <3> QED  BY <3>2, <3>3, <3>5, <3>7
  <2> QED  BY <2>15, <2>16
<1> QED  BY <1>1, <1>2 DEF HasOffer

-----------------------------------------------------------------------------
(***************************************************************************)
(* Bots that accept and bots that are sent home                            *)
(*                                                                         *)
(* The walks are proved about for a set A of states that each of their     *)
(* steps stays in: once for the states that are well formed, and once for  *)
(* those in which a player keeps his place.                                *)
(***************************************************************************)

\* Bots can be walked through in the order of their guids.
LEMMA BotsFinite ==
  ASSUME NEW S \in SUBSET Bots
  PROVE  S \in SUBSET Nat /\ IsFiniteSet(S) /\ S \in SUBSET Player
BY LftAssumption, FS_Subset

\* Offers can be walked through in the order of their ids.
LEMMA IdsFinite ==
  ASSUME NEW S \in SUBSET OfferId
  PROVE  S \in SUBSET Nat /\ IsFiniteSet(S)
<1>1. IsFiniteSet(OfferId)
  BY LftAssumption, FS_Interval, SMTT(30) DEF OfferId
<1>2. OfferId \subseteq Nat
  BY LftAssumption DEF OfferId
<1>3. IsFiniteSet(S)
  BY <1>1, FS_Subset
<1> QED  BY <1>2, <1>3

AcceptsIn(A, begun) == \A a \in A, id \in OfferId, b \in Bots : AcceptForBot(id, begun, a, b) \in A

\* The bots of one offer.
LEMMA AcceptForBotsIn ==
  ASSUME NEW X, NEW begun, AcceptsIn(X, begun), NEW s \in X, NEW id \in OfferId
  PROVE  AcceptForBots(begun, s, id) \in X
<1> DEFINE A == X
           S == DOMAIN s.offers[id].roles \cap Bots
           b == s
           R == [x \in A \X S |-> AcceptForBot(id, begun, x[1], x[2])]
           Eq(it) == it = [w \in SUBSET S |->
                             IF w = {} THEN b
                             ELSE AcceptForBot(id, begun, it[w \ {Max(w)}], Max(w))]
           f == CHOOSE it : Eq(it)
<1>1. b \in A
  OBVIOUS
<1>2. S \in SUBSET Nat /\ IsFiniteSet(S)
  <2>1. S \in SUBSET Bots
    OBVIOUS
  <2> HIDE DEF S
  <2> QED  BY <2>1, BotsFinite
<1>3. \A a \in A, i \in S : AcceptForBot(id, begun, a, i) \in A
  BY DEF AcceptsIn
<1>4. AcceptForBots(begun, s, id) = f[S]
  BY DEF AcceptForBots, FoldAscending, MapThenFoldSet, b, S
<1> HIDE DEF A, S, b
<1>5. \A w \in SUBSET S : w # {} => Max(w) \in w
  BY <1>2, MaxOfSubset
<1>6. Steps(R, A, S)
  BY <1>3 DEF Steps
<1>7. PICK h : Folded(h, A, S, b, R)
  <2> HIDE DEF R
  <2> QED  BY <1>1, <1>2, <1>6, FoldExists
<1>8. Eq(h)
  <2> DEFINE F(w) == IF w = {} THEN b ELSE AcceptForBot(id, begun, h[w \ {Max(w)}], Max(w))
  <2>1. ASSUME NEW w \in SUBSET S, w # {}
        PROVE  h[w] = AcceptForBot(id, begun, h[w \ {Max(w)}], Max(w))
    <3>1. h[w \ {Max(w)}] \in A /\ Max(w) \in S
      BY <1>5, <1>7, <2>1 DEF Folded
    <3>2. h[w] = R[<<h[w \ {Max(w)}], Max(w)>>]
      BY <1>7, <2>1 DEF Folded
    <3> QED  BY <3>1, <3>2
  <2>2. \A w \in SUBSET S : h[w] = F(w)
    BY <1>7, <2>1 DEF Folded
  <2> HIDE DEF F
  <2>3. h = [w \in SUBSET S |-> F(w)]
    BY <1>7, <2>2 DEF Folded
  <2> QED  BY <2>3 DEF F
<1>9. Eq(f)
  <2> HIDE DEF Eq
  <2> QED  BY <1>8, Zenon
<1> HIDE DEF f
<1>10. f[{}] = b /\ \A w \in SUBSET S : w # {} => f[w] = AcceptForBot(id, begun, f[w \ {Max(w)}], Max(w))
  BY <1>9
<1>11. ASSUME NEW w \in SUBSET S, w # {}, f[w \ {Max(w)}] \in A
       PROVE  f[w] \in A
  BY <1>3, <1>5, <1>10, <1>11
<1>12. f[S] \in A
  BY <1>1, <1>2, <1>10, <1>11, FoldIn DEF KeepsIn
<1> QED  BY <1>4, <1>12 DEF A

\* LFTManager::AcceptOffersForFillBots, over all offers.
LEMMA AcceptOffersIn ==
  ASSUME NEW X, NEW begun, AcceptsIn(X, begun), NEW s \in X, s \in Good
  PROVE  AcceptOffersForFillBots(s, begun) \in X
<1> DEFINE A == X
           S == DOMAIN s.offers
           b == s
           R == [x \in A \X S |-> AcceptForBots(begun, x[1], x[2])]
           Eq(it) == it = [w \in SUBSET S |->
                             IF w = {} THEN b
                             ELSE AcceptForBots(begun, it[w \ {Max(w)}], Max(w))]
           f == CHOOSE it : Eq(it)
<1>1. b \in A
  OBVIOUS
<1>2. S \in SUBSET Nat /\ IsFiniteSet(S)
  <2>1. S \in SUBSET OfferId
    BY OfferIs
  <2> HIDE DEF S
  <2> QED  BY <2>1, IdsFinite
<1>3. \A a \in A, i \in S : AcceptForBots(begun, a, i) \in A
  <2>1. \A i \in S : i \in OfferId
    BY OfferIs
  <2> QED  BY <2>1, AcceptForBotsIn
<1>4. AcceptOffersForFillBots(s, begun) = f[S]
  BY DEF AcceptOffersForFillBots, FoldAscending, MapThenFoldSet, b, S
<1> HIDE DEF A, S, b
<1>5. \A w \in SUBSET S : w # {} => Max(w) \in w
  BY <1>2, MaxOfSubset
<1>6. Steps(R, A, S)
  BY <1>3 DEF Steps
<1>7. PICK h : Folded(h, A, S, b, R)
  <2> HIDE DEF R
  <2> QED  BY <1>1, <1>2, <1>6, FoldExists
<1>8. Eq(h)
  <2> DEFINE F(w) == IF w = {} THEN b ELSE AcceptForBots(begun, h[w \ {Max(w)}], Max(w))
  <2>1. ASSUME NEW w \in SUBSET S, w # {}
        PROVE  h[w] = AcceptForBots(begun, h[w \ {Max(w)}], Max(w))
    <3>1. h[w \ {Max(w)}] \in A /\ Max(w) \in S
      BY <1>5, <1>7, <2>1 DEF Folded
    <3>2. h[w] = R[<<h[w \ {Max(w)}], Max(w)>>]
      BY <1>7, <2>1 DEF Folded
    <3> QED  BY <3>1, <3>2
  <2>2. \A w \in SUBSET S : h[w] = F(w)
    BY <1>7, <2>1 DEF Folded
  <2> HIDE DEF F
  <2>3. h = [w \in SUBSET S |-> F(w)]
    BY <1>7, <2>2 DEF Folded
  <2> QED  BY <2>3 DEF F
<1>9. Eq(f)
  <2> HIDE DEF Eq
  <2> QED  BY <1>8, Zenon
<1> HIDE DEF f
<1>10. f[{}] = b /\ \A w \in SUBSET S : w # {} => f[w] = AcceptForBots(begun, f[w \ {Max(w)}], Max(w))
  BY <1>9
<1>11. ASSUME NEW w \in SUBSET S, w # {}, f[w \ {Max(w)}] \in A
       PROVE  f[w] \in A
  BY <1>3, <1>5, <1>10, <1>11
<1>12. f[S] \in A
  BY <1>1, <1>2, <1>10, <1>11, FoldIn DEF KeepsIn
<1> QED  BY <1>4, <1>12 DEF A

\* One bot accepts, or the offer is gone.
LEMMA AcceptForBotOK ==
  ASSUME NEW s \in Good, NEW id, NEW begun, NEW b, NEW t, t = AcceptForBot(id, begun, s, b)
  PROVE  /\ t \in Good /\ t.inWorld \subseteq s.inWorld /\ StaysOpen(s, t, b)
         /\ b \notin s.inWorld => t = s
<1>1. CASE t = HandleOfferAccept(s, b, begun) /\ b \in s.inWorld
  BY <1>1, HandleOfferAcceptOK
<1>2. CASE t = s
  BY <1>2 DEF StaysOpen
<1> QED  BY <1>1, <1>2 DEF AcceptForBot

DropsIn(A) == \A a \in A, b \in Bots : DropFillBot(a, b) \in A

\* LFTManager::DropUnneededFillBots.
LEMMA DropUnneededIn ==
  ASSUME NEW X, DropsIn(X), NEW s \in X, s \in Good
  PROVE  DropUnneededFillBots(s) \in X
<1> DEFINE A == X
           S == s.fillBots
           b == s
           R == [x \in A \X S |-> DropFillBot(x[1], x[2])]
           Eq(it) == it = [w \in SUBSET S |->
                             IF w = {} THEN b
                             ELSE DropFillBot(it[w \ {Max(w)}], Max(w))]
           f == CHOOSE it : Eq(it)
<1>1. b \in A
  OBVIOUS
<1>2. S \in SUBSET Nat /\ IsFiniteSet(S)
  <2>1. S \in SUBSET Bots
    BY GoodIs
  <2> HIDE DEF S
  <2> QED  BY <2>1, BotsFinite
<1>3. \A a \in A, i \in S : DropFillBot(a, i) \in A
  <2>1. S \in SUBSET Bots
    BY GoodIs
  <2> QED  BY <2>1 DEF DropsIn
<1>4. DropUnneededFillBots(s) = f[S]
  BY DEF DropUnneededFillBots, FoldAscending, MapThenFoldSet, b, S
<1> HIDE DEF A, S, b
<1>5. \A w \in SUBSET S : w # {} => Max(w) \in w
  BY <1>2, MaxOfSubset
<1>6. Steps(R, A, S)
  BY <1>3 DEF Steps
<1>7. PICK h : Folded(h, A, S, b, R)
  <2> HIDE DEF R
  <2> QED  BY <1>1, <1>2, <1>6, FoldExists
<1>8. Eq(h)
  <2> DEFINE F(w) == IF w = {} THEN b ELSE DropFillBot(h[w \ {Max(w)}], Max(w))
  <2>1. ASSUME NEW w \in SUBSET S, w # {}
        PROVE  h[w] = DropFillBot(h[w \ {Max(w)}], Max(w))
    <3>1. h[w \ {Max(w)}] \in A /\ Max(w) \in S
      BY <1>5, <1>7, <2>1 DEF Folded
    <3>2. h[w] = R[<<h[w \ {Max(w)}], Max(w)>>]
      BY <1>7, <2>1 DEF Folded
    <3> QED  BY <3>1, <3>2
  <2>2. \A w \in SUBSET S : h[w] = F(w)
    BY <1>7, <2>1 DEF Folded
  <2> HIDE DEF F
  <2>3. h = [w \in SUBSET S |-> F(w)]
    BY <1>7, <2>2 DEF Folded
  <2> QED  BY <2>3 DEF F
<1>9. Eq(f)
  <2> HIDE DEF Eq
  <2> QED  BY <1>8, Zenon
<1> HIDE DEF f
<1>10. f[{}] = b /\ \A w \in SUBSET S : w # {} => f[w] = DropFillBot(f[w \ {Max(w)}], Max(w))
  BY <1>9
<1>11. ASSUME NEW w \in SUBSET S, w # {}, f[w \ {Max(w)}] \in A
       PROVE  f[w] \in A
  BY <1>3, <1>5, <1>10, <1>11
<1>12. f[S] \in A
  BY <1>1, <1>2, <1>10, <1>11, FoldIn DEF KeepsIn
<1> QED  BY <1>4, <1>12 DEF A

\* A bot that has an offer stays, and so does everybody else.
LEMMA DropFillBotOK ==
  ASSUME NEW s \in Good, NEW b, NEW t, t = DropFillBot(s, b)
  PROVE  /\ t \in Good /\ t.offers = s.offers /\ t.playerOffers = s.playerOffers
         /\ t.inWorld = s.inWorld
         /\ Queued(s) \ {b} \subseteq Queued(t) /\ (HasOffer(s, b) => t = s)
<1> DEFINE u == Dequeue(s, {b})
           bots == u.fillBots \ {b}
           v == [u EXCEPT !.fillBots = bots]
<1>1. t = s \/ (~HasOffer(s, b) /\ t = v)
  BY DEF DropFillBot
<1>2. u \in Good /\ SameElse(s, u) /\ Queued(u) = Queued(s) \ {b}
  BY DequeueOK
<1> HIDE DEF u
<1>3. bots \in SUBSET Bots
  BY <1>2, GoodIs
<1> HIDE DEF bots
<1>4. /\ v \in Good /\ v.queue = u.queue /\ v.offers = u.offers /\ v.playerOffers = u.playerOffers
      /\ v.inWorld = u.inWorld
  BY <1>2, <1>3, SetFillBots
<1> HIDE DEF v
<1>5. Queued(v) = Queued(s) \ {b}
  BY <1>2, <1>4 DEF Queued
<1>6. v.offers = s.offers /\ v.playerOffers = s.playerOffers /\ v.inWorld = s.inWorld
  BY <1>2, <1>4 DEF SameElse
<1>7. CASE t = s
  BY <1>7
<1>8. CASE ~HasOffer(s, b) /\ t = v
  BY <1>4, <1>5, <1>6, <1>8
<1> QED  BY <1>1, <1>7, <1>8

-----------------------------------------------------------------------------
(***************************************************************************)
(* Bots that fill the queue                                                *)
(***************************************************************************)

\* A selection from the pool is a list of the selected.
LEMMA OnlyIn ==
  ASSUME NEW pool \in Seq(Bots), NEW C, NEW S \in SUBSET C
  PROVE  Only(pool, S) \in Seq(C)
<1> DEFINE q == Only(pool, S)
<1>1. q \in Seq(Bots) /\ ToSet(q) = ToSet(pool) \cap S
  BY OnlyOK
<1> HIDE DEF q
<1>2. \A i \in DOMAIN q : q[i] \in C
  BY <1>1 DEF ToSet
<1>3. q \in Seq(C)
  BY <1>1, <1>2
<1> QED  BY <1>3 DEF q

\* Bots that are idle may be taken.
LEMMA ChooseBotOK ==
  ASSUME NEW s, NEW pool \in Seq(Bots), NEW role, NEW waiter, ChooseBot(s, pool, role, waiter) # NoGuid
  PROVE  /\ ChooseBot(s, pool, role, waiter) \in Bots
         /\ role \in Allowed[ChooseBot(s, pool, role, waiter)]
<1> DEFINE candidates == {b \in Bots : /\ b \in s.inWorld /\ ~IsQueued(s, b)
                                       /\ Side[b] = Side[waiter] /\ role \in Allowed[b]
                                       /\ Level[b] + LevelBelow[role] >= Level[waiter]
                                       /\ Level[waiter] + LevelAbove >= Level[b]}
           able == {b \in candidates : role \in AiRoles[b]}
           idle == {b \in candidates : ~IsGrouped(s.groups, b)}
           released == {b \in able \ idle :
               /\ GetGroup(s.groups, b).lft
               /\ \A m \in ToSet(GetGroup(s.groups, b).members) :
                     m \in Bots \cap s.inWorld /\ ~HasOffer(s, m)}
           respec == {b \in idle \ able : Level[b] >= RespecLevel}
           x == able \cap idle
           ranked == Only(pool, x) \o Only(pool, released) \o Only(pool, respec)
<1>1. ChooseBot(s, pool, role, waiter) = IF ranked = <<>> THEN NoGuid ELSE Head(ranked)
  BY DEF ChooseBot
<1>2. x \in SUBSET candidates /\ released \in SUBSET candidates /\ respec \in SUBSET candidates
  OBVIOUS
<1>3. \A b \in candidates : b \in Bots /\ role \in Allowed[b]
  OBVIOUS
<1> HIDE DEF candidates, able, idle, released, respec, x
<1>4. /\ Only(pool, x) \in Seq(candidates) /\ Only(pool, released) \in Seq(candidates)
      /\ Only(pool, respec) \in Seq(candidates)
  <2>1. Only(pool, x) \in Seq(candidates)
    BY <1>2, OnlyIn
  <2>2. Only(pool, released) \in Seq(candidates)
    BY <1>2, OnlyIn
  <2>3. Only(pool, respec) \in Seq(candidates)
    BY <1>2, OnlyIn
  <2> QED  BY <2>1, <2>2, <2>3
<1>5. ranked \in Seq(candidates)
  BY <1>4
<1> HIDE DEF ranked
<1>6. ranked # <<>> => Head(ranked) \in candidates
  BY <1>5
<1> QED  BY <1>1, <1>3, <1>6

\* Groups may lose a bot and bots may join the queue; all else stays.
LEMMA FillRoleOK ==
  ASSUME NEW s \in Good, NEW pool \in Seq(Bots), NEW instance \in Instance, NEW waiter,
         NEW role \in Role, NEW t, t = FillRole(pool, instance, waiter, s, role)
  PROVE  /\ t \in Good /\ t.offers = s.offers /\ t.playerOffers = s.playerOffers
         /\ t.inWorld = s.inWorld /\ Queued(s) \subseteq Queued(t)
<1> DEFINE b == ChooseBot(s, pool, role, waiter)
           free == IF IsGrouped(s.groups, b) THEN RemoveMember(s.groups, b, s.inWorld) ELSE s.groups
           u == EnqueuePlayer(s, b, NoGuid, <<instance>>, {role})
           bots == u.fillBots \cup {b}
           v == [u EXCEPT !.fillBots = bots, !.groups = free]
<1>1. CASE b = NoGuid
  BY <1>1 DEF FillRole
<1>2. CASE b # NoGuid
  <2>1. t = v
    BY <1>2 DEF FillRole
  <2>2. b \in Bots /\ role \in Allowed[b]
    BY <1>2, ChooseBotOK
  <2> HIDE DEF b
  <2>3. free \in Parties
    <3>1. s.groups \in Parties
      BY GoodIs
    <3> QED  BY <3>1, RemoveMemberOK
  <2> HIDE DEF free
  <2>4. u \in Good /\ SameElse(s, u) /\ Queued(u) = Queued(s) \cup {b}
    <3> DEFINE d == <<instance>>
               mask == {role}
    <3>1. d \in Requests /\ mask \in SUBSET Role /\ mask \subseteq Allowed[b] /\ b \in Player
      BY <2>2, LftAssumption
    <3>2. u = EnqueuePlayer(s, b, NoGuid, d, mask) /\ NoGuid \in Player \cup {NoGuid}
      OBVIOUS
    <3> HIDE DEF d, mask, u
    <3> QED  BY <3>1, <3>2, EnqueueOK
  <2> HIDE DEF u
  <2>5. bots \in SUBSET Bots
    BY <2>2, <2>4, GoodIs
  <2> HIDE DEF bots
  <2>6. /\ v \in Good /\ v.queue = u.queue /\ v.offers = u.offers /\ v.playerOffers = u.playerOffers
        /\ v.inWorld = u.inWorld
    <3>1. u \in State /\ OffersOK(u.offers, u.playerOffers, u.nextOfferId)
      BY <2>4 DEF Good
    <3>2. v \in State
      BY <2>3, <2>5, <3>1 DEF State
    <3>3. v.queue = u.queue /\ v.offers = u.offers /\ v.playerOffers = u.playerOffers
          /\ v.nextOfferId = u.nextOfferId /\ v.inWorld = u.inWorld
      BY <3>1 DEF State
    <3> HIDE DEF v
    <3> QED  BY <3>1, <3>2, <3>3 DEF Good
  <2> HIDE DEF v
  <2>7. Queued(v) = Queued(u)
    BY <2>6 DEF Queued
  <2> QED  BY <2>1, <2>4, <2>6, <2>7 DEF SameElse
<1> QED  BY <1>1, <1>2

\* One who waits covers a role.
LEMMA CoverOK ==
  ASSUME NEW s, NEW instance, NEW waiter, NEW roles \in PFun(Player, Role), NEW e \in Entries
  PROVE  Cover(s, instance, waiter, roles, e) \in PFun(Player, Role)
<1> DEFINE r == PickRole(e.mask, roles)
<1>1. Cover(s, instance, waiter, roles, e) = roles
      \/ (r # "" /\ Cover(s, instance, waiter, roles, e) = Put(roles, e.guid, r))
  BY DEF Cover
<1>2. e.guid \in Player /\ (r # "" => r \in Role)
  BY EntryIs, PickRoleOK
<1> HIDE DEF r
<1>3. r # "" => Put(roles, e.guid, r) \in PFun(Player, Role)
  BY <1>2, PutOK
<1> QED  BY <1>1, <1>3

\* All who wait.
LEMMA CoveredOK ==
  ASSUME NEW s \in Good, NEW instance, NEW waiter
  PROVE  Covered(s, instance, waiter) \in PFun(Player, Role)
<1> DEFINE A == PFun(Player, Role)
           S == DOMAIN s.queue
           b == <<>>
           R == [x \in A \X S |-> Cover(s, instance, waiter, x[1], s.queue[x[2]])]
           Eq(it) == it = [w \in SUBSET S |->
                             IF w = {} THEN b
                             ELSE Cover(s, instance, waiter, it[w \ {Max(w)}], s.queue[Max(w)])]
           f == CHOOSE it : Eq(it)
<1>1. b \in A
  BY PFunEmpty
<1>2. S \in SUBSET Nat /\ IsFiniteSet(S)
  BY GoodIs, QueueIs
<1>3. \A a \in A, i \in S : Cover(s, instance, waiter, a, s.queue[i]) \in A
  <2>1. \A i \in S : s.queue[i] \in Entries
    BY GoodIs, QueueIs
  <2> QED  BY <2>1, CoverOK
<1>4. Covered(s, instance, waiter) = f[S]
  BY DEF Covered, FoldLeft, MapThenFoldSet, b, S
<1> HIDE DEF A, S, b
<1>5. \A w \in SUBSET S : w # {} => Max(w) \in w
  BY <1>2, MaxOfSubset
<1>6. Steps(R, A, S)
  BY <1>3 DEF Steps
<1>7. PICK h : Folded(h, A, S, b, R)
  <2> HIDE DEF R
  <2> QED  BY <1>1, <1>2, <1>6, FoldExists
<1>8. Eq(h)
  <2> DEFINE F(w) == IF w = {} THEN b ELSE Cover(s, instance, waiter, h[w \ {Max(w)}], s.queue[Max(w)])
  <2>1. ASSUME NEW w \in SUBSET S, w # {}
        PROVE  h[w] = Cover(s, instance, waiter, h[w \ {Max(w)}], s.queue[Max(w)])
    <3>1. h[w \ {Max(w)}] \in A /\ Max(w) \in S
      BY <1>5, <1>7, <2>1 DEF Folded
    <3>2. h[w] = R[<<h[w \ {Max(w)}], Max(w)>>]
      BY <1>7, <2>1 DEF Folded
    <3> QED  BY <3>1, <3>2
  <2>2. \A w \in SUBSET S : h[w] = F(w)
    BY <1>7, <2>1 DEF Folded
  <2> HIDE DEF F
  <2>3. h = [w \in SUBSET S |-> F(w)]
    BY <1>7, <2>2 DEF Folded
  <2> QED  BY <2>3 DEF F
<1>9. Eq(f)
  <2> HIDE DEF Eq
  <2> QED  BY <1>8, Zenon
<1> HIDE DEF f
<1>10. f[{}] = b /\ \A w \in SUBSET S : w # {} => f[w] = Cover(s, instance, waiter, f[w \ {Max(w)}], s.queue[Max(w)])
  BY <1>9
<1>11. ASSUME NEW w \in SUBSET S, w # {}, f[w \ {Max(w)}] \in A
       PROVE  f[w] \in A
  BY <1>3, <1>5, <1>10, <1>11
<1>12. f[S] \in A
  BY <1>1, <1>2, <1>10, <1>11, FoldIn DEF KeepsIn
<1> QED  BY <1>4, <1>12 DEF A

FillsIn(A, pool) ==
    \A a \in A, instance \in Instance, waiter \in Player, role \in Role :
        FillRole(pool, instance, waiter, a, role) \in A

FillRoles(s, pool, instance, waiter, roles) ==
    FoldLeft(LAMBDA t, role : FillRole(pool, instance, waiter, t, role), s, roles)

\* LFTManager::FillInstanceWithBots, over the missing roles.
LEMMA FillRolesIn ==
  ASSUME NEW X, NEW pool, FillsIn(X, pool), NEW s \in X, NEW instance \in Instance,
         NEW waiter \in Player, NEW roles \in Seq(Role)
  PROVE  FillRoles(s, pool, instance, waiter, roles) \in X
<1> DEFINE A == X
           S == DOMAIN roles
           b == s
           R == [x \in A \X S |-> FillRole(pool, instance, waiter, x[1], roles[x[2]])]
           Eq(it) == it = [w \in SUBSET S |->
                             IF w = {} THEN b
                             ELSE FillRole(pool, instance, waiter, it[w \ {Max(w)}], roles[Max(w)])]
           f == CHOOSE it : Eq(it)
<1>1. b \in A
  OBVIOUS
<1>2. S \in SUBSET Nat /\ IsFiniteSet(S)
  BY SeqDomain
<1>3. \A a \in A, i \in S : FillRole(pool, instance, waiter, a, roles[i]) \in A
  <2>1. \A i \in S : roles[i] \in Role
    OBVIOUS
  <2> QED  BY <2>1 DEF FillsIn
<1>4. FillRoles(s, pool, instance, waiter, roles) = f[S]
  BY DEF FillRoles, FoldLeft, MapThenFoldSet, b, S
<1> HIDE DEF A, S, b
<1>5. \A w \in SUBSET S : w # {} => Max(w) \in w
  BY <1>2, MaxOfSubset
<1>6. Steps(R, A, S)
  BY <1>3 DEF Steps
<1>7. PICK h : Folded(h, A, S, b, R)
  <2> HIDE DEF R
  <2> QED  BY <1>1, <1>2, <1>6, FoldExists
<1>8. Eq(h)
  <2> DEFINE F(w) == IF w = {} THEN b ELSE FillRole(pool, instance, waiter, h[w \ {Max(w)}], roles[Max(w)])
  <2>1. ASSUME NEW w \in SUBSET S, w # {}
        PROVE  h[w] = FillRole(pool, instance, waiter, h[w \ {Max(w)}], roles[Max(w)])
    <3>1. h[w \ {Max(w)}] \in A /\ Max(w) \in S
      BY <1>5, <1>7, <2>1 DEF Folded
    <3>2. h[w] = R[<<h[w \ {Max(w)}], Max(w)>>]
      BY <1>7, <2>1 DEF Folded
    <3> QED  BY <3>1, <3>2
  <2>2. \A w \in SUBSET S : h[w] = F(w)
    BY <1>7, <2>1 DEF Folded
  <2> HIDE DEF F
  <2>3. h = [w \in SUBSET S |-> F(w)]
    BY <1>7, <2>2 DEF Folded
  <2> QED  BY <2>3 DEF F
<1>9. Eq(f)
  <2> HIDE DEF Eq
  <2> QED  BY <1>8, Zenon
<1> HIDE DEF f
<1>10. f[{}] = b /\ \A w \in SUBSET S : w # {} => f[w] = FillRole(pool, instance, waiter, f[w \ {Max(w)}], roles[Max(w)])
  BY <1>9
<1>11. ASSUME NEW w \in SUBSET S, w # {}, f[w \ {Max(w)}] \in A
       PROVE  f[w] \in A
  BY <1>3, <1>5, <1>10, <1>11
<1>12. f[S] \in A
  BY <1>1, <1>2, <1>10, <1>11, FoldIn DEF KeepsIn
<1> QED  BY <1>4, <1>12 DEF A

\* The number of characters with a role.
LEMMA TakenNat ==
  ASSUME NEW roles \in PFun(Player, Role), NEW r
  PROVE  Taken(roles, r) \in Nat
<1> DEFINE S == {p \in DOMAIN roles : roles[p] = r}
<1>1. S \in SUBSET Player
  BY PFunIs
<1>2. Taken(roles, r) = Cardinality(S)
  BY DEF Taken
<1> HIDE DEF S
<1>3. IsFiniteSet(S)
  BY <1>1, LftAssumption, FS_Subset
<1> QED  BY <1>2, <1>3, FS_CardinalityType

\* The missing places of a role are a list, empty if there is none.
LEMMA MissingOK ==
  ASSUME NEW n \in Int, NEW r \in Role
  PROVE  [i \in 1..n |-> r] \in Seq(Role)
<1>1. CASE n \in Nat
  BY <1>1
<1>2. CASE n \notin Nat
  <2>1. 1..n = 1..0
    BY <1>2
  <2>2. [i \in 1..0 |-> r] \in Seq(Role)
    OBVIOUS
  <2> QED  BY <2>1, <2>2
<1> QED  BY <1>1, <1>2

\* LFTManager::FillInstanceWithBots for one dungeon.
LEMMA FillInstanceIn ==
  ASSUME NEW X, NEW pool, FillsIn(X, pool), NEW s \in X, s \in Good, NEW instance \in Instance,
         NEW waiter \in Player
  PROVE  FillInstanceWithBots(s, pool, instance, waiter) \in X
<1> DEFINE covered == Covered(s, instance, waiter)
           Missing(r) == [i \in 1..(Slots[r] - Taken(covered, r)) |-> r]
           roles == Missing("tank") \o Missing("healer") \o Missing("damage")
<1>1. covered \in PFun(Player, Role)
  BY CoveredOK
<1>2. FillInstanceWithBots(s, pool, instance, waiter) = FillRoles(s, pool, instance, waiter, roles)
  BY DEF FillInstanceWithBots, FillRoles
<1> HIDE DEF covered
<1>3. ASSUME NEW r \in Role  PROVE  Missing(r) \in Seq(Role)
  <2> DEFINE n == Slots[r] - Taken(covered, r)
  <2>1. Slots[r] \in Nat
    BY LftAssumption DEF Slots
  <2>2. Taken(covered, r) \in Nat
    BY <1>1, TakenNat
  <2>3. n \in Int
    BY <2>1, <2>2
  <2> HIDE DEF n
  <2>4. [i \in 1..n |-> r] \in Seq(Role)
    BY <2>3, MissingOK
  <2> QED  BY <2>4 DEF n
<1>4. "tank" \in Role /\ "healer" \in Role /\ "damage" \in Role
  BY DEF Role
<1>5. roles \in Seq(Role)
  <2>1. Missing("tank") \in Seq(Role) /\ Missing("healer") \in Seq(Role) /\ Missing("damage") \in Seq(Role)
    BY <1>3, <1>4
  <2> HIDE DEF Missing
  <2> QED  BY <2>1
<1> HIDE DEF roles
<1> QED  BY <1>2, <1>5, FillRolesIn

\* All dungeons one player waits for.
LEMMA FillInstancesIn ==
  ASSUME NEW X, X \subseteq Good, NEW pool, FillsIn(X, pool), NEW s \in X,
         NEW instances \in Seq(Instance), NEW p \in Player
  PROVE  FillInstances(s, pool, instances, p) \in X
<1> DEFINE A == X
           S == DOMAIN instances
           b == s
           R == [x \in A \X S |-> FillInstanceWithBots(x[1], pool, instances[x[2]], p)]
           Eq(it) == it = [w \in SUBSET S |->
                             IF w = {} THEN b
                             ELSE FillInstanceWithBots(it[w \ {Max(w)}], pool, instances[Max(w)], p)]
           f == CHOOSE it : Eq(it)
<1>1. b \in A
  OBVIOUS
<1>2. S \in SUBSET Nat /\ IsFiniteSet(S)
  BY SeqDomain
<1>3. \A a \in A, i \in S : FillInstanceWithBots(a, pool, instances[i], p) \in A
  <2>1. \A i \in S : instances[i] \in Instance
    OBVIOUS
  <2>2. \A a \in A : a \in Good
    OBVIOUS
  <2> QED  BY <2>1, <2>2, FillInstanceIn
<1>4. FillInstances(s, pool, instances, p) = f[S]
  BY DEF FillInstances, FoldLeft, MapThenFoldSet, b, S
<1> HIDE DEF A, S, b
<1>5. \A w \in SUBSET S : w # {} => Max(w) \in w
  BY <1>2, MaxOfSubset
<1>6. Steps(R, A, S)
  BY <1>3 DEF Steps
<1>7. PICK h : Folded(h, A, S, b, R)
  <2> HIDE DEF R
  <2> QED  BY <1>1, <1>2, <1>6, FoldExists
<1>8. Eq(h)
  <2> DEFINE F(w) == IF w = {} THEN b ELSE FillInstanceWithBots(h[w \ {Max(w)}], pool, instances[Max(w)], p)
  <2>1. ASSUME NEW w \in SUBSET S, w # {}
        PROVE  h[w] = FillInstanceWithBots(h[w \ {Max(w)}], pool, instances[Max(w)], p)
    <3>1. h[w \ {Max(w)}] \in A /\ Max(w) \in S
      BY <1>5, <1>7, <2>1 DEF Folded
    <3>2. h[w] = R[<<h[w \ {Max(w)}], Max(w)>>]
      BY <1>7, <2>1 DEF Folded
    <3> QED  BY <3>1, <3>2
  <2>2. \A w \in SUBSET S : h[w] = F(w)
    BY <1>7, <2>1 DEF Folded
  <2> HIDE DEF F
  <2>3. h = [w \in SUBSET S |-> F(w)]
    BY <1>7, <2>2 DEF Folded
  <2> QED  BY <2>3 DEF F
<1>9. Eq(f)
  <2> HIDE DEF Eq
  <2> QED  BY <1>8, Zenon
<1> HIDE DEF f
<1>10. f[{}] = b /\ \A w \in SUBSET S : w # {} => f[w] = FillInstanceWithBots(f[w \ {Max(w)}], pool, instances[Max(w)], p)
  BY <1>9
<1>11. ASSUME NEW w \in SUBSET S, w # {}, f[w \ {Max(w)}] \in A
       PROVE  f[w] \in A
  BY <1>3, <1>5, <1>10, <1>11
<1>12. f[S] \in A
  BY <1>1, <1>2, <1>10, <1>11, FoldIn DEF KeepsIn
<1> QED  BY <1>4, <1>12 DEF A

\* All players who have waited long enough.
LEMMA FillPendingIn ==
  ASSUME NEW X, X \subseteq Good, NEW pool, FillsIn(X, pool), NEW s \in X
  PROVE  FillPending(s, pool) \in X
<1> DEFINE pending == {e \in ToSet(s.queue) :
                           e.guid \notin s.fillBots /\ ~HasOffer(s, e.guid) /\ e.waited >= FillDelay}
           Wanted(p) == (CHOOSE e \in pending : e.guid = p).instances
<1>0. \A e \in pending : e.guid \in Player /\ e.instances \in Seq(Instance)
  <2> SUFFICES ASSUME NEW e \in pending  PROVE  e.guid \in Player /\ e.instances \in Seq(Instance)
    OBVIOUS
  <2>1. PICK i \in DOMAIN s.queue : e = s.queue[i]
    BY DEF ToSet
  <2>2. e \in Entries
    BY <2>1, GoodIs, QueueIs
  <2> QED  BY <2>2, EntryIs, RequestIs
<1> HIDE DEF pending
<1> DEFINE A == X
           S == {e.guid : e \in pending}
           b == s
           R == [x \in A \X S |-> FillInstances(x[1], pool, Wanted(x[2]), x[2])]
           Eq(it) == it = [w \in SUBSET S |->
                             IF w = {} THEN b
                             ELSE FillInstances(it[w \ {Max(w)}], pool, Wanted(Max(w)), Max(w))]
           f == CHOOSE it : Eq(it)
<1>1. b \in A
  OBVIOUS
<1>2. S \in SUBSET Nat /\ IsFiniteSet(S)
  <2>1. S \in SUBSET Player
    BY <1>0 
  <2> HIDE DEF S
  <2> QED  BY <2>1, LftAssumption, FS_Subset
<1>3. \A a \in A, i \in S : FillInstances(a, pool, Wanted(i), i) \in A
  <2> SUFFICES ASSUME NEW a \in A, NEW i \in S  PROVE  FillInstances(a, pool, Wanted(i), i) \in A
    OBVIOUS
  <2>1. i \in Player /\ \E e \in pending : e.guid = i
    BY <1>0
  <2>2. Wanted(i) \in Seq(Instance)
    BY <1>0, <2>1
  <2> HIDE DEF Wanted
  <2> QED  BY <2>1, <2>2, FillInstancesIn
<1> USE DEF pending
<1>4. FillPending(s, pool) = f[S]
  BY DEF FillPending, FoldAscending, MapThenFoldSet, b, S, pending, Wanted
<1> HIDE DEF A, S, b, pending, Wanted
<1>5. \A w \in SUBSET S : w # {} => Max(w) \in w
  BY <1>2, MaxOfSubset
<1>6. Steps(R, A, S)
  BY <1>3 DEF Steps
<1>7. PICK h : Folded(h, A, S, b, R)
  <2> HIDE DEF R
  <2> QED  BY <1>1, <1>2, <1>6, FoldExists
<1>8. Eq(h)
  <2> DEFINE F(w) == IF w = {} THEN b ELSE FillInstances(h[w \ {Max(w)}], pool, Wanted(Max(w)), Max(w))
  <2>1. ASSUME NEW w \in SUBSET S, w # {}
        PROVE  h[w] = FillInstances(h[w \ {Max(w)}], pool, Wanted(Max(w)), Max(w))
    <3>1. h[w \ {Max(w)}] \in A /\ Max(w) \in S
      BY <1>5, <1>7, <2>1 DEF Folded
    <3>2. h[w] = R[<<h[w \ {Max(w)}], Max(w)>>]
      BY <1>7, <2>1 DEF Folded
    <3> QED  BY <3>1, <3>2
  <2>2. \A w \in SUBSET S : h[w] = F(w)
    BY <1>7, <2>1 DEF Folded
  <2> HIDE DEF F
  <2>3. h = [w \in SUBSET S |-> F(w)]
    BY <1>7, <2>2 DEF Folded
  <2> QED  BY <2>3 DEF F
<1>9. Eq(f)
  <2> HIDE DEF Eq
  <2> QED  BY <1>8, Zenon
<1> HIDE DEF f
<1>10. f[{}] = b /\ \A w \in SUBSET S : w # {} => f[w] = FillInstances(f[w \ {Max(w)}], pool, Wanted(Max(w)), Max(w))
  BY <1>9
<1>11. ASSUME NEW w \in SUBSET S, w # {}, f[w \ {Max(w)}] \in A
       PROVE  f[w] \in A
  BY <1>3, <1>5, <1>10, <1>11
<1>12. f[S] \in A
  BY <1>1, <1>2, <1>10, <1>11, FoldIn DEF KeepsIn
<1> QED  BY <1>4, <1>12 DEF A

TimesIn(A) == \A a \in A, n \in 0..FillPeriod : [a EXCEPT !.botFillTimer = n] \in A

\* LFTManager::UpdateBotFill.
LEMMA UpdateBotFillIn ==
  ASSUME NEW X, X \subseteq Good, NEW pool, NEW begun, BotFill => AcceptsIn(X, begun), DropsIn(X),
         FillsIn(X, pool), TimesIn(X), NEW s \in X
  PROVE  UpdateBotFill(s, pool, begun) \in X
<1>1. DropUnneededFillBots(s) \in X
  BY DropUnneededIn
<1> DEFINE u == AcceptOffersForFillBots(s, begun)
<1>2. BotFill => u \in X
  BY AcceptOffersIn
<1>3. UpdateBotFill(s, pool, begun) = IF BotFill THEN FillTimer(u, pool) ELSE DropUnneededFillBots(s)
  BY DEF UpdateBotFill
<1> HIDE DEF u
<1>4. ASSUME BotFill  PROVE  FillTimer(u, pool) \in X
  <2> DEFINE n == u.botFillTimer - 1
             v == [u EXCEPT !.botFillTimer = FillPeriod]
             w == DropUnneededFillBots(v)
  <2>1. u.botFillTimer \in 0..FillPeriod /\ FillPeriod \in Nat
    BY <1>2, <1>4, GoodIs, LftAssumption
  <2>2. CASE u.botFillTimer > 1
    <3>1. n \in 0..FillPeriod
      BY <2>1, <2>2
    <3>2. FillTimer(u, pool) = [u EXCEPT !.botFillTimer = n]
      BY <2>2 DEF FillTimer
    <3> HIDE DEF n
    <3> QED  BY <1>2, <1>4, <3>1, <3>2 DEF TimesIn
  <2>3. CASE ~(u.botFillTimer > 1)
    <3>1. FillTimer(u, pool) = FillPending(w, pool)
      BY <2>3 DEF FillTimer
    <3>2. FillPeriod \in 0..FillPeriod
      BY <2>1
    <3>3. v \in X
      BY <1>2, <1>4, <3>2 DEF TimesIn
    <3> HIDE DEF v
    <3>4. w \in X
      BY <3>3, DropUnneededIn
    <3> HIDE DEF w
    <3> QED  BY <3>1, <3>4, FillPendingIn
  <2> QED  BY <2>2, <2>3
<1> QED  BY <1>1, <1>3, <1>4

-----------------------------------------------------------------------------
(***************************************************************************)
(* LFTManager::Update                                                      *)
(***************************************************************************)

\* LFTManager::Update erases only those who are not in the world.
LEMMA PurgeQueueOK ==
  ASSUME NEW s \in Good, NEW t, t = PurgeQueue(s)
  PROVE  t \in Good /\ SameElse(s, t) /\ Queued(s) \cap s.inWorld \subseteq Queued(t)
<1>1. t = Dequeue(s, Player \ s.inWorld)
  BY DEF PurgeQueue
<1>2. t \in Good /\ SameElse(s, t) /\ Queued(t) = Queued(s) \ (Player \ s.inWorld)
  BY <1>1, DequeueOK
<1> QED  BY <1>2

\* A timer that has not run out is one less.
LEMMA TickIs ==
  ASSUME NEW f
  PROVE  /\ DOMAIN Tick(f) = DOMAIN f
         /\ \A k \in DOMAIN f : Tick(f)[k] = IF f[k].timer <= 1 THEN f[k] ELSE [f[k] EXCEPT !.timer = @ - 1]
BY DEF Tick

\* A timer that is not over stays in its bounds.
LEMMA TimerOK ==
  ASSUME NEW m \in Nat, NEW n \in 1..m, ~(n <= 1)
  PROVE  n - 1 \in 1..m
OBVIOUS

\* Role checks that are over are erased, the others age.
LEMMA PurgeRolechecksOK ==
  ASSUME NEW s \in Good, NEW t, t = PurgeRolechecks(s)
  PROVE  /\ t \in Good /\ t.queue = s.queue /\ t.offers = s.offers
         /\ t.playerOffers = s.playerOffers /\ t.inWorld = s.inWorld
<1> DEFINE E == DOMAIN s.rolechecks \ Expired(s.rolechecks)
           f == Restrict(s.rolechecks, E)
           c == Tick(f)
<1>1. t = [s EXCEPT !.rolechecks = c]
  BY DEF PurgeRolechecks
<1>2. f \in Checks
  <2>1. E \in SUBSET (DOMAIN s.rolechecks)
    OBVIOUS
  <2> HIDE DEF E
  <2> QED  BY <2>1, RestrictChecks
<1> HIDE DEF f
<1>3. /\ DOMAIN f \in SUBSET Player
      /\ \A k \in DOMAIN f : f[k] \in Check /\ CheckOK(k, f[k])
  <2>1. f \in PFun(Player, Check) /\ \A k \in DOMAIN f : CheckOK(k, f[k])
    BY <1>2 DEF Checks
  <2> QED  BY <2>1, PFunIs
<1>4. ASSUME NEW k \in DOMAIN f  PROVE  c[k] \in Check /\ CheckOK(k, c[k])
  <2> DEFINE x == f[k]
             n == x.timer - 1
             y == [x EXCEPT !.timer = n]
  <2>0. x \in Check /\ CheckOK(k, x)
    BY <1>3
  <2>1. CASE x.timer <= 1
    <3>1. c[k] = x
      BY <2>1, TickIs
    <3> QED  BY <2>0, <3>1
  <2>2. CASE ~(x.timer <= 1)
    <3>1. c[k] = y
      BY <2>2, TickIs
    <3> HIDE DEF x
    <3>2. x.timer \in 1..RolecheckTimeout
      BY <2>0 DEF Check
    <3>3. n \in 1..RolecheckTimeout
      BY <2>2, <3>2, LftAssumption, TimerOK
    <3> HIDE DEF n
    <3>4. y \in Check /\ y.members = x.members /\ y.responses = x.responses
      BY <2>0, <3>3 DEF Check
    <3> HIDE DEF y
    <3>5. CheckOK(k, y)
      BY <2>0, <3>4 DEF CheckOK
    <3> QED  BY <3>1, <3>4, <3>5
  <2> QED  BY <2>1, <2>2
<1>5. DOMAIN c = DOMAIN f
  BY TickIs
<1>6. c = [k \in DOMAIN f |-> c[k]]
  BY DEF Tick
<1> HIDE DEF c
<1>7. c \in [DOMAIN f -> Check]
  BY <1>4, <1>6
<1>8. c \in PFun(Player, Check)
  BY <1>3, <1>7, PFunOf
<1>9. c \in Checks
  BY <1>4, <1>5, <1>8 DEF Checks
<1> QED  BY <1>1, <1>9, SetRolechecks

\* Every offer is as it was, but for its timer.
SameOffers(s, t) ==
    /\ DOMAIN t.offers = DOMAIN s.offers
    /\ \A o \in DOMAIN s.offers : /\ t.offers[o].roles = s.offers[o].roles
                                 /\ t.offers[o].accepted = s.offers[o].accepted

Ticked(s) == [s EXCEPT !.offers = Tick(@)]

\* Offers age.
LEMMA TickedOK ==
  ASSUME NEW s \in Good, NEW t, t = Ticked(s)
  PROVE  t \in Good /\ SameOffers(s, t) /\ t.queue = s.queue /\ t.inWorld = s.inWorld
<1> DEFINE f == s.offers
           c == Tick(f)
<1>1. t = [s EXCEPT !.offers = c]
  BY DEF Ticked
<1>2. /\ DOMAIN f \in SUBSET OfferId
      /\ \A k \in DOMAIN f : f[k] \in Offer /\ OfferOK(k, f[k], s.playerOffers) /\ k < s.nextOfferId
  BY OfferIs
<1>3. \A p \in DOMAIN s.playerOffers : s.playerOffers[p] \in DOMAIN f /\ p \in DOMAIN f[s.playerOffers[p]].roles
  BY IndexIs
<1> HIDE DEF f
<1>4. ASSUME NEW k \in DOMAIN f
      PROVE  c[k] \in Offer /\ c[k].roles = f[k].roles /\ c[k].accepted = f[k].accepted
  <2> DEFINE x == f[k]
             n == x.timer - 1
             y == [x EXCEPT !.timer = n]
  <2>0. x \in Offer
    BY <1>2
  <2>1. CASE x.timer <= 1
    <3>1. c[k] = x
      BY <2>1, TickIs
    <3> QED  BY <2>0, <3>1
  <2>2. CASE ~(x.timer <= 1)
    <3>1. c[k] = y
      BY <2>2, TickIs
    <3> HIDE DEF x
    <3>2. x.timer \in 1..OfferTimeout
      BY <2>0 DEF Offer
    <3>3. n \in 1..OfferTimeout
      BY <2>2, <3>2, LftAssumption, TimerOK
    <3> HIDE DEF n
    <3>4. y \in Offer /\ y.roles = x.roles /\ y.accepted = x.accepted
      BY <2>0, <3>3 DEF Offer
    <3> HIDE DEF y
    <3> QED  BY <3>1, <3>4 DEF x
  <2> QED  BY <2>1, <2>2
<1>5. DOMAIN c = DOMAIN f
  BY TickIs
<1>6. c = [k \in DOMAIN f |-> c[k]]
  BY DEF Tick
<1> HIDE DEF c
<1>7. c \in [DOMAIN f -> Offer]
  BY <1>4, <1>6
<1>8. c \in PFun(OfferId, Offer)
  BY <1>2, <1>7, PFunOf
<1>9. ASSUME NEW k \in DOMAIN c  PROVE  OfferOK(k, c[k], s.playerOffers) /\ k < s.nextOfferId
  BY <1>2, <1>4, <1>5 DEF OfferOK
<1>10. OffersOK(c, s.playerOffers, s.nextOfferId)
  BY <1>3, <1>4, <1>5, <1>9 DEF OffersOK
<1>11. t \in Good /\ t.offers = c /\ t.queue = s.queue /\ t.inWorld = s.inWorld
  BY <1>1, <1>8, <1>10, SetOffers
<1> QED  BY <1>4, <1>5, <1>11 DEF SameOffers, f

\* Who had accepted keeps his place.
LEMMA ExpireOK ==
  ASSUME NEW s \in Good, NEW id, NEW t, t = Expire(s, id)
  PROVE  /\ t \in Good /\ t.inWorld = s.inWorld
         /\ id \notin DOMAIN s.offers => t = s
         /\ id \in DOMAIN s.offers =>
                /\ Without(s, t, id)
                /\ Queued(s) \ (DOMAIN s.offers[id].roles \ s.offers[id].accepted) \subseteq Queued(t)
<1> DEFINE yes == TRUE
           no == FALSE
<1>0. t = CancelOffer(s, id, yes, NoGuid, no)
  BY DEF Expire
<1>1. id \in DOMAIN s.offers =>
        Dropped(s, id, yes, NoGuid, no) \subseteq DOMAIN s.offers[id].roles \ s.offers[id].accepted
  <2>1. id \in DOMAIN s.offers => NoGuid \notin DOMAIN s.offers[id].roles
    BY OfferIs, LftAssumption
  <2> QED  BY <2>1 DEF Dropped
<1> HIDE DEF yes, no
<1>2. t \in Good /\ SameRest(s, t) /\ (id \notin DOMAIN s.offers => t = s)
  BY <1>0, CancelOK
<1>3. id \in DOMAIN s.offers =>
        Without(s, t, id) /\ Queued(t) = Queued(s) \ Dropped(s, id, yes, NoGuid, no)
  BY <1>0, CancelOK
<1>4. t.inWorld = s.inWorld
  BY <1>2 DEF SameRest
<1> QED  BY <1>1, <1>2, <1>3, <1>4

ExpiresIn(A) == \A a \in A, id \in OfferId : Expire(a, id) \in A

\* The offers that are over are cancelled one by one.
LEMMA PurgeOffersIn ==
  ASSUME NEW X, ExpiresIn(X), NEW s \in Good, Ticked(s) \in X
  PROVE  PurgeOffers(s) \in X
<1> DEFINE A == X
           S == Expired(s.offers)
           b == Ticked(s)
           R == [x \in A \X S |-> Expire(x[1], x[2])]
           Eq(it) == it = [w \in SUBSET S |->
                             IF w = {} THEN b
                             ELSE Expire(it[w \ {Max(w)}], Max(w))]
           f == CHOOSE it : Eq(it)
<1>1. b \in A
  OBVIOUS
<1>2. S \in SUBSET Nat /\ IsFiniteSet(S)
  <2>1. S \in SUBSET OfferId
    BY OfferIs DEF Expired
  <2> HIDE DEF S
  <2> QED  BY <2>1, IdsFinite
<1>3. \A a \in A, i \in S : Expire(a, i) \in A
  <2>1. S \in SUBSET OfferId
    BY OfferIs DEF Expired
  <2> QED  BY <2>1 DEF ExpiresIn
<1>4. PurgeOffers(s) = f[S]
  BY DEF PurgeOffers, FoldAscending, MapThenFoldSet, b, S, Ticked, Expire
<1> HIDE DEF A, S, b
<1>5. \A w \in SUBSET S : w # {} => Max(w) \in w
  BY <1>2, MaxOfSubset
<1>6. Steps(R, A, S)
  BY <1>3 DEF Steps
<1>7. PICK h : Folded(h, A, S, b, R)
  <2> HIDE DEF R
  <2> QED  BY <1>1, <1>2, <1>6, FoldExists
<1>8. Eq(h)
  <2> DEFINE F(w) == IF w = {} THEN b ELSE Expire(h[w \ {Max(w)}], Max(w))
  <2>1. ASSUME NEW w \in SUBSET S, w # {}
        PROVE  h[w] = Expire(h[w \ {Max(w)}], Max(w))
    <3>1. h[w \ {Max(w)}] \in A /\ Max(w) \in S
      BY <1>5, <1>7, <2>1 DEF Folded
    <3>2. h[w] = R[<<h[w \ {Max(w)}], Max(w)>>]
      BY <1>7, <2>1 DEF Folded
    <3> QED  BY <3>1, <3>2
  <2>2. \A w \in SUBSET S : h[w] = F(w)
    BY <1>7, <2>1 DEF Folded
  <2> HIDE DEF F
  <2>3. h = [w \in SUBSET S |-> F(w)]
    BY <1>7, <2>2 DEF Folded
  <2> QED  BY <2>3 DEF F
<1>9. Eq(f)
  <2> HIDE DEF Eq
  <2> QED  BY <1>8, Zenon
<1> HIDE DEF f
<1>10. f[{}] = b /\ \A w \in SUBSET S : w # {} => f[w] = Expire(f[w \ {Max(w)}], Max(w))
  BY <1>9
<1>11. ASSUME NEW w \in SUBSET S, w # {}, f[w \ {Max(w)}] \in A
       PROVE  f[w] \in A
  BY <1>3, <1>5, <1>10, <1>11
<1>12. f[S] \in A
  BY <1>1, <1>2, <1>10, <1>11, FoldIn DEF KeepsIn
<1> QED  BY <1>4, <1>12 DEF A

\* The wait of everybody in the queue is longer; the queue is the same.
LEMMA AgedOK ==
  ASSUME NEW s \in Good, NEW t, t = Aged(s)
  PROVE  t \in Good /\ t.inWorld = s.inWorld /\ Queued(t) = Queued(s)
<1> DEFINE q == [i \in DOMAIN s.queue |-> Later(s.queue[i])]
<1>1. t = [s EXCEPT !.queue = q]
  BY DEF Aged
<1>2. s.queue \in Queues
  BY GoodIs
<1>3. \A i \in DOMAIN s.queue : s.queue[i] \in Entries
  BY <1>2, QueueIs
<1>4. ASSUME NEW e \in Entries  PROVE  Later(e) \in Entries /\ Later(e).guid = e.guid
  <2> DEFINE n == IF e.waited < FillDelay THEN e.waited + 1 ELSE e.waited
             l == [e EXCEPT !.waited = n]
  <2>1. e \in Entry /\ e.waited \in 0..FillDelay /\ e.mask \subseteq Allowed[e.guid]
    BY EntryIs
  <2>2. n \in 0..FillDelay
    BY <2>1, LftAssumption
  <2>3. Later(e) = l
    BY DEF Later
  <2> HIDE DEF n
  <2>4. l \in Entry /\ l.guid = e.guid /\ l.mask = e.mask
    BY <2>1, <2>2 DEF Entry
  <2> HIDE DEF l
  <2> QED  BY <2>1, <2>3, <2>4 DEF Entries
<1>5. \A i \in DOMAIN s.queue : q[i] \in Entries /\ q[i].guid = s.queue[i].guid
  BY <1>3, <1>4
<1>6. q \in Queues
  <2>1. s.queue \in Seq(Entries) /\ \A i, j \in DOMAIN s.queue : s.queue[i].guid = s.queue[j].guid => i = j
    BY <1>2 DEF Queues
  <2>2. Len(s.queue) \in Nat /\ DOMAIN s.queue = 1..Len(s.queue)
    BY <2>1
  <2>3. q \in [1..Len(s.queue) -> Entries]
    BY <1>5, <2>2
  <2>4. DOMAIN q = DOMAIN s.queue
    OBVIOUS
  <2> HIDE DEF q
  <2>5. q \in Seq(Entries)
    BY <2>2, <2>3
  <2> QED  BY <1>5, <2>1, <2>4, <2>5 DEF Queues
<1>7. DOMAIN q = DOMAIN s.queue
  OBVIOUS
<1> HIDE DEF q
<1>8. t \in Good /\ t.queue = q /\ t.inWorld = s.inWorld
  BY <1>1, <1>6, SetQueue
<1>9. Queued(t) = Queued(s)
  BY <1>5, <1>7, <1>8 DEF Queued
<1> QED  BY <1>8, <1>9

\* Every walk keeps the state well formed.
LEMMA GoodAccepts ==
  ASSUME NEW begun
  PROVE  AcceptsIn(Good, begun)
BY AcceptForBotOK DEF AcceptsIn

\* The same, of the bots that are queued.
LEMMA GoodFills ==
  ASSUME NEW pool \in Seq(Bots)
  PROVE  FillsIn(Good, pool)
BY FillRoleOK DEF FillsIn

\* The same, of the bots that are dropped and of the timer.
LEMMA GoodDrops ==
  DropsIn(Good) /\ TimesIn(Good)
<1>1. DropsIn(Good)
  BY DropFillBotOK DEF DropsIn
<1>2. TimesIn(Good)
  BY SetTimer DEF TimesIn
<1> QED  BY <1>1, <1>2

\* The bots the server finds, in its order.
LEMMA PoolIs ==
  ASSUME NEW pool \in Pools
  PROVE  pool \in Seq(Bots)
<1>1. PICK S \in SUBSET Bots : pool \in SetToSeqs(S)
  BY DEF Pools
<1>2. Cardinality(S) \in Nat
  BY BotsFinite, FS_CardinalityType
<1>3. pool \in [1..Cardinality(S) -> Bots]
  BY <1>1 DEF SetToSeqs
<1> QED  BY <1>2, <1>3

\* UpdateBotFill keeps the state well formed.
LEMMA FilledGood ==
  ASSUME NEW s \in Good, NEW pool \in Seq(Bots), NEW begun
  PROVE  UpdateBotFill(s, pool, begun) \in Good
BY GoodAccepts, GoodFills, GoodDrops, UpdateBotFillIn

\* Where nobody enters or leaves the world.
GoodWith(world) == {t \in Good : t.inWorld = world}

\* Cancelling old offers keeps the state well formed.
LEMMA PurgeOffersOK ==
  ASSUME NEW s \in Good
  PROVE  PurgeOffers(s) \in GoodWith(s.inWorld)
<1> DEFINE X == GoodWith(s.inWorld)
<1>1. ExpiresIn(X)
  BY ExpireOK DEF ExpiresIn, GoodWith
<1>2. Ticked(s) \in X
  BY TickedOK DEF GoodWith
<1> HIDE DEF X
<1>3. PurgeOffers(s) \in X
  BY <1>1, <1>2, PurgeOffersIn
<1> QED  BY <1>3 DEF X

\* LFTManager::Update after the bots: who is in the queue, in the world and
\* in no offer he has not accepted, stays.
Purged(s) == TryMakeOffers(PurgeOffers(PurgeRolechecks(PurgeQueue(s))))

\* The rest of Update keeps it well formed.
LEMMA PurgedOK ==
  ASSUME NEW s \in Good, NEW t, t = Aged(Purged(s))
  PROVE  t \in Good /\ t.inWorld = s.inWorld
<1> DEFINE a == PurgeQueue(s)
           b == PurgeRolechecks(a)
           c == PurgeOffers(b)
           d == TryMakeOffers(c)
<1>0. t = Aged(d)
  BY DEF Purged
<1>1. a \in Good /\ a.inWorld = s.inWorld
  BY PurgeQueueOK DEF SameElse
<1> HIDE DEF a
<1>2. b \in Good /\ b.inWorld = a.inWorld
  BY <1>1, PurgeRolechecksOK
<1> HIDE DEF b
<1>3. c \in Good /\ c.inWorld = b.inWorld
  BY <1>2, PurgeOffersOK DEF GoodWith
<1> HIDE DEF c
<1>4. d \in Good /\ d.inWorld = c.inWorld
  BY <1>3, TryMakeOffersOK DEF SameButOffers
<1> HIDE DEF d
<1>5. t \in Good /\ t.inWorld = d.inWorld
  BY <1>0, <1>4, AgedOK
<1> QED  BY <1>1, <1>2, <1>3, <1>4, <1>5

\* LFTManager::Update keeps it well formed.
LEMMA UpdateOK ==
  ASSUME NEW s \in Good, NEW pool \in Seq(Bots), NEW begun, NEW t, t = LftUpdate(s, pool, begun)
  PROVE  t \in Good /\ t.inWorld = UpdateBotFill(s, pool, begun).inWorld
<1> DEFINE u == UpdateBotFill(s, pool, begun)
<1>1. t = Aged(Purged(u))
  BY DEF LftUpdate, Purged
<1>2. u \in Good
  BY FilledGood
<1> HIDE DEF u
<1>3. t \in Good /\ t.inWorld = u.inWorld
  BY <1>1, <1>2, PurgedOK
<1> QED  BY <1>3 DEF u

-----------------------------------------------------------------------------
(***************************************************************************)
(* The invariant                                                           *)
(***************************************************************************)

IInv == Now \in Good

\* The next state is well formed, and only characters of P have lost their
\* place.
Moves(P) == \E t \in Good : Becomes(t) /\ Queued(Now) \ P \subseteq Queued(t)

\* The fields of the state as a value are the variables.
LEMMA NowIs ==
  /\ Now.queue = queue /\ Now.rolechecks = rolechecks /\ Now.offers = offers
  /\ Now.playerOffers = playerOffers /\ Now.nextOfferId = nextOfferId /\ Now.fillBots = fillBots
  /\ Now.botFillTimer = botFillTimer /\ Now.groups = groups /\ Now.inWorld = inWorld
BY DEF Now

\* The next state is the value a handler returns.
LEMMA BecomesOK ==
  ASSUME NEW t \in Good, Becomes(t)
  PROVE  IInv' /\ Queued(Now)' = Queued(t)
<1>1. t \in State /\ OffersOK(t.offers, t.playerOffers, t.nextOfferId)
  BY DEF Good
<1>2. Now' = [queue |-> t.queue, rolechecks |-> t.rolechecks, offers |-> t.offers,
              playerOffers |-> t.playerOffers, nextOfferId |-> t.nextOfferId, fillBots |-> t.fillBots,
              botFillTimer |-> t.botFillTimer, groups |-> t.groups, inWorld |-> t.inWorld]
  BY DEF Becomes, Now
<1>3. Now' = t
  BY <1>1, <1>2 DEF State
<1> QED  BY <1>3 DEF IInv, Queued

\* What Moves says of the next state.
LEMMA MovesOK ==
  ASSUME NEW P, Moves(P)
  PROVE  IInv' /\ Queued(Now) \ P \subseteq Queued(Now)'
<1>1. PICK t \in Good : Becomes(t) /\ Queued(Now) \ P \subseteq Queued(t)
  BY DEF Moves
<1>2. IInv' /\ Queued(Now)' = Queued(t)
  BY <1>1, BecomesOK
<1> QED  BY <1>1, <1>2

\* At the start everything is empty.
LEMMA InitOK ==
  ASSUME Init
  PROVE  IInv
<1>1. Now = [queue |-> <<>>, rolechecks |-> <<>>, offers |-> <<>>, playerOffers |-> <<>>,
             nextOfferId |-> 1, fillBots |-> {}, botFillTimer |-> 0, groups |-> {}, inWorld |-> Player]
  BY DEF Init, Now
<1>2. <<>> \in PFun(Player, Check) /\ <<>> \in PFun(OfferId, Offer) /\ <<>> \in PFun(Player, OfferId)
  BY PFunEmpty
<1>3. DOMAIN <<>> = {} /\ <<>> \in Seq(Entries)
  OBVIOUS
<1>4. <<>> \in Checks
  BY <1>2, <1>3 DEF Checks
<1>5. <<>> \in Queues
  BY <1>3 DEF Queues
<1>6. {} \in Parties
  BY DEF Parties
<1>7. 1 \in 1..(MaxOffers + 1) /\ 0 \in 0..FillPeriod
  BY LftAssumption
<1>8. Now \in State
  BY <1>1, <1>2, <1>4, <1>5, <1>6, <1>7 DEF State
<1>9. OffersOK(<<>>, <<>>, 1)
  BY <1>3 DEF OffersOK
<1> QED  BY <1>1, <1>8, <1>9 DEF Good, IInv

\* HandleQueueJoin costs at most the one who joins his place.
LEMMA QueueJoinOK ==
  ASSUME IInv, NEW p \in Player, NEW d \in Requests, QueueJoin(p, d)
  PROVE  Moves({p})
<1> DEFINE s == CleanupPlayer(Now, p)
           t == StartRolecheck(s, p, d)
<1>1. Now \in Good /\ Now.inWorld = inWorld /\ p \in inWorld /\ Becomes(t)
  BY NowIs DEF IInv, QueueJoin
<1>2. s \in Good /\ SameGroups(Now, s) /\ Queued(Now) \ {p} \subseteq Queued(s)
  BY <1>1, CleanupOK
<1> HIDE DEF s
<1>3. p \in s.inWorld
  BY <1>1, <1>2 DEF SameGroups
<1>4. t \in GrownFrom(s)
  BY <1>2, <1>3, StartRolecheckOK
<1> HIDE DEF t
<1>5. t \in Good /\ Queued(s) \subseteq Queued(t)
  BY <1>4 DEF GrownFrom
<1> QED  BY <1>1, <1>2, <1>5 DEF Moves

\* Who loses his place waited in the block of the one who leaves.
LEMMA QueueLeaveOK ==
  ASSUME IInv, NEW p \in Player, QueueLeave(p)
  PROVE  \E t \in Good : /\ Becomes(t)
                         /\ \A i \in DOMAIN queue : queue[i].guid \notin Queued(t) =>
                              \E j \in DOMAIN queue : /\ queue[j].guid = p
                                                     /\ BlockLeader(queue[j]) = BlockLeader(queue[i])
<1> DEFINE t == HandleQueueLeave(Now, p)
<1>1. Now \in Good /\ Becomes(t)
  BY DEF IInv, QueueLeave
<1>2. ASSUME NEW i \in DOMAIN queue  PROVE  queue[i].guid \in Queued(Now)
  BY NowIs DEF Queued
<1>3. CASE Asked(Now, p) # {}
  <2> DEFINE E == DOMAIN Now.rolechecks \ {Min(Asked(Now, p))}
             c == Restrict(Now.rolechecks, E)
  <2>1. t = [Now EXCEPT !.rolechecks = c]
    BY <1>3 DEF HandleQueueLeave
  <2>2. c \in Checks
    <3>1. E \in SUBSET (DOMAIN Now.rolechecks)
      OBVIOUS
    <3> HIDE DEF E
    <3> QED  BY <1>1, <3>1, RestrictChecks
  <2> HIDE DEF c
  <2>3. t \in GrownFrom(Now)
    BY <1>1, <2>1, <2>2, GrownChecks
  <2> HIDE DEF t
  <2> QED  BY <1>1, <1>2, <2>3 DEF GrownFrom
<1>4. CASE Asked(Now, p) = {} /\ HasOffer(Now, p)
  <2> DEFINE u == CancelFor(Now, Now.playerOffers[p], p)
  <2>1. t = TryMakeOffers(u)
    BY <1>4 DEF HandleQueueLeave, CancelFor
  <2>2. u \in Good /\ Queued(Now) \ {p} \subseteq Queued(u)
    BY <1>1, CancelForOK
  <2> HIDE DEF u
  <2>3. t \in Good /\ Queued(u) \subseteq Queued(t)
    BY <2>1, <2>2, GrownOffers DEF GrownFrom
  <2> HIDE DEF t
  <2>4. ASSUME NEW i \in DOMAIN queue, queue[i].guid \notin Queued(t)  PROVE  queue[i].guid = p
    BY <1>2, <2>2, <2>3, <2>4
  <2> QED  BY <1>1, <2>3, <2>4
<1>5. CASE Asked(Now, p) = {} /\ ~HasOffer(Now, p)
  <2> DEFINE own == CHOOSE i \in DOMAIN queue : queue[i].guid = p
             others == {e \in Entry : BlockLeader(e) # BlockLeader(queue[own])}
             q == Only(queue, others)
  <2>1. t = [Now EXCEPT !.queue = q]
    BY <1>5, NowIs DEF HandleQueueLeave
  <2>2. own \in DOMAIN queue /\ queue[own].guid = p
    BY <1>5, NowIs DEF QueueLeave, IsQueued
  <2> HIDE DEF own
  <2>3. queue \in Queues /\ queue \in Seq(Entries)
    BY <1>1, GoodIs, NowIs, QueueIs
  <2>4. q \in Queues
    BY <2>3, OnlyQueue
  <2>5. ToSet(q) = ToSet(queue) \cap others
    BY <2>3, OnlyOK
  <2>6. ASSUME NEW i \in DOMAIN queue, BlockLeader(queue[i]) # BlockLeader(queue[own])
        PROVE  \E k \in DOMAIN q : q[k] = queue[i]
    <3>1. queue[i] \in Entry
      BY <2>3, QueueIs, EntryIs
    <3>2. queue[i] \in ToSet(q)
      BY <2>5, <2>6, <3>1 DEF ToSet
    <3> HIDE DEF q
    <3> QED  BY <3>2 DEF ToSet
  <2> HIDE DEF q
  <2>7. t \in Good /\ t.queue = q
    BY <1>1, <2>1, <2>4, SetQueue
  <2> HIDE DEF t
  <2>8. ASSUME NEW i \in DOMAIN queue, queue[i].guid \notin Queued(t)
        PROVE  BlockLeader(queue[own]) = BlockLeader(queue[i])
    BY <2>6, <2>7, <2>8 DEF Queued
  <2> QED  BY <1>1, <2>2, <2>7, <2>8
<1> QED  BY <1>3, <1>4, <1>5

\* An answer to a role check costs nobody his place.
LEMMA RolecheckResponseOK ==
  ASSUME IInv, NEW p \in Player, NEW mask \in SUBSET Allowed[p], RolecheckResponse(p, mask)
  PROVE  Moves({})
<1> DEFINE t == HandleRolecheckResponse(Now, p, mask)
<1>1. Now \in Good /\ Becomes(t)
  BY DEF IInv, RolecheckResponse
<1>2. mask \in SUBSET Role /\ mask \subseteq Allowed[p]
  BY LftAssumption
<1>3. t \in GrownFrom(Now)
  BY <1>1, <1>2, ResponseOK
<1> HIDE DEF t
<1> QED  BY <1>1, <1>3 DEF Moves, GrownFrom

\* Accepting leaves every offer open that waits for somebody else.
LEMMA OfferAcceptOK ==
  ASSUME IInv, NEW p \in Player, NEW begun, OfferAccept(p, begun)
  PROVE  \E t \in Good : Becomes(t) /\ StaysOpen(Now, t, p) /\ Elsewhere(Now, t, p)
<1> DEFINE t == HandleOfferAccept(Now, p, begun)
<1>1. Now \in Good /\ Becomes(t)
  BY DEF IInv, OfferAccept
<1>2. t \in Good /\ StaysOpen(Now, t, p) /\ Elsewhere(Now, t, p)
  BY <1>1, HandleOfferAcceptOK
<1> HIDE DEF t
<1> QED  BY <1>1, <1>2

\* LogoutPlayer costs at most the one who logs out his place.
LEMMA LogoutOK ==
  ASSUME IInv, NEW p \in Player, NEW socket, Logout(p, socket)
  PROVE  Moves({p}) /\ p \notin inWorld'
<1> DEFINE s == CleanupPlayer(Now, p)
           g == IF socket THEN LeaveAll(s.groups, p, s.inWorld) ELSE s.groups
           w == s.inWorld \ {p}
           t == [s EXCEPT !.groups = g, !.inWorld = w]
<1>1. Now \in Good /\ Becomes(t)
  BY DEF IInv, Logout
<1>2. s \in Good /\ Queued(Now) \ {p} \subseteq Queued(s)
  BY <1>1, CleanupOK
<1> HIDE DEF s
<1>3. g \in Parties /\ w \in SUBSET Player /\ p \notin w
  BY <1>2, GoodIs, LeaveAllOK
<1> HIDE DEF g, w
<1>4. t \in Good /\ t.queue = s.queue /\ t.inWorld = w
  <2>1. s \in State /\ OffersOK(s.offers, s.playerOffers, s.nextOfferId)
    BY <1>2 DEF Good
  <2>2. t \in State /\ t.inWorld = w
    BY <1>3, <2>1 DEF State
  <2>3. t.queue = s.queue /\ t.offers = s.offers /\ t.playerOffers = s.playerOffers
        /\ t.nextOfferId = s.nextOfferId
    BY <2>1 DEF State
  <2> HIDE DEF t
  <2> QED  BY <2>1, <2>2, <2>3 DEF Good
<1> HIDE DEF t
<1>5. Queued(t) = Queued(s)
  BY <1>4 DEF Queued
<1>6. Moves({p})
  BY <1>1, <1>2, <1>4, <1>5 DEF Moves
<1> QED  BY <1>1, <1>3, <1>4, <1>6 DEF Becomes

\* Who is in the world.
LEMMA WorldOK ==
  ASSUME IInv, NEW w \in SUBSET Player, inWorld' = w,
         UNCHANGED <<queue, rolechecks, offers, playerOffers, nextOfferId, fillBots, botFillTimer, groups>>
  PROVE  Moves({})
<1> DEFINE t == [Now EXCEPT !.inWorld = w]
<1>1. Now \in Good
  BY DEF IInv
<1>2. /\ t \in Good /\ t.inWorld = w /\ t.queue = queue /\ t.rolechecks = rolechecks
      /\ t.offers = offers /\ t.playerOffers = playerOffers /\ t.nextOfferId = nextOfferId
      /\ t.fillBots = fillBots /\ t.botFillTimer = botFillTimer /\ t.groups = groups
  BY <1>1, SetWorld, NowIs
<1> HIDE DEF t
<1>3. Becomes(t) /\ Queued(t) = Queued(Now)
  BY <1>2, NowIs DEF Becomes, Queued
<1> QED  BY <1>2, <1>3 DEF Moves

\* Who is in which group.
LEMMA GroupsOK ==
  ASSUME IInv, NEW g \in Parties, groups' = g,
         UNCHANGED <<queue, rolechecks, offers, playerOffers, nextOfferId, fillBots, botFillTimer, inWorld>>
  PROVE  Moves({})
<1> DEFINE t == [Now EXCEPT !.groups = g]
<1>1. Now \in Good
  BY DEF IInv
<1>2. /\ t \in Good /\ t.inWorld = inWorld /\ t.queue = queue /\ t.rolechecks = rolechecks
      /\ t.offers = offers /\ t.playerOffers = playerOffers /\ t.nextOfferId = nextOfferId
      /\ t.fillBots = fillBots /\ t.botFillTimer = botFillTimer /\ t.groups = g
  BY <1>1, SetGroups, NowIs
<1> HIDE DEF t
<1>3. Becomes(t) /\ Queued(t) = Queued(Now)
  BY <1>2, NowIs DEF Becomes, Queued
<1> QED  BY <1>2, <1>3 DEF Moves

\* The groups and the world of a well formed state.
LEMMA GroupsNow ==
  ASSUME IInv
  PROVE  groups \in Parties /\ inWorld \in SUBSET Player
BY GoodIs, NowIs DEF IInv

\* Leaving a map.
LEMMA LeaveMapOK ==
  ASSUME IInv, NEW p \in Player, LeaveMap(p)
  PROVE  Moves({})
<1> DEFINE w == inWorld \ {p}
<1>1. inWorld' = w /\ w \in SUBSET Player
      /\ UNCHANGED <<queue, rolechecks, offers, playerOffers, nextOfferId, fillBots, botFillTimer, groups>>
  BY GroupsNow DEF LeaveMap
<1> HIDE DEF w
<1> QED  BY <1>1, WorldOK

\* Entering a map.
LEMMA EnterMapOK ==
  ASSUME IInv, NEW p \in Player, EnterMap(p)
  PROVE  Moves({})
<1> DEFINE w == inWorld \cup {p}
<1>1. inWorld' = w /\ w \in SUBSET Player
      /\ UNCHANGED <<queue, rolechecks, offers, playerOffers, nextOfferId, fillBots, botFillTimer, groups>>
  BY GroupsNow DEF EnterMap
<1> HIDE DEF w
<1> QED  BY <1>1, WorldOK

\* Player::RemoveFromGroup.
LEMMA LeavePartyOK ==
  ASSUME IInv, NEW p \in Player, LeaveParty(p)
  PROVE  Moves({})
<1> DEFINE g == RemoveMember(groups, p, inWorld)
<1>1. groups' = g /\ IsGrouped(groups, p)
      /\ UNCHANGED <<queue, rolechecks, offers, playerOffers, nextOfferId, fillBots, botFillTimer, inWorld>>
  BY DEF LeaveParty
<1>2. g \in Parties
  BY <1>1, GroupsNow, RemoveMemberOK
<1> HIDE DEF g
<1> QED  BY <1>1, <1>2, GroupsOK

\* HandleGroupAcceptOpcode: nobody is invited into two groups or a full one.
LEMMA JoinPartyOK ==
  ASSUME IInv, NEW p \in Player, NEW q \in Player, JoinParty(p, q)
  PROVE  Moves({})
<1> DEFINE gs == IF IsGrouped(groups, p) THEN groups ELSE Create(groups, p, FALSE)
           g == GetGroup(gs, p)
           hs == AddMember(gs, g, q)
<1>1. groups' = hs /\ ~IsFull(g) /\ ~IsGrouped(groups, q) /\ p # q
      /\ UNCHANGED <<queue, rolechecks, offers, playerOffers, nextOfferId, fillBots, botFillTimer, inWorld>>
  BY DEF JoinParty
<1>2. gs \in Parties /\ IsGrouped(gs, p) /\ ~IsGrouped(gs, q)
  <2>1. CASE IsGrouped(groups, p)
    BY <1>1, <2>1, GroupsNow
  <2>2. CASE ~IsGrouped(groups, p)
    <3> DEFINE no == FALSE
               h == [leader |-> p, members |-> <<p>>, lft |-> no]
    <3>1. gs = Create(groups, p, no) /\ no \in BOOLEAN
      BY <2>2
    <3>2. gs = groups \cup {h}
      BY <3>1 DEF Create
    <3>3. ToSet(h.members) = {p}
      BY DEF ToSet
    <3> HIDE DEF no, gs
    <3>4. gs \in Parties
      BY <2>2, <3>1, GroupsNow, CreateOK
    <3> HIDE DEF h
    <3>5. IsGrouped(gs, p) /\ ~IsGrouped(gs, q)
      BY <1>1, <3>2, <3>3 DEF IsGrouped
    <3> QED  BY <3>4, <3>5
  <2> QED  BY <2>1, <2>2
<1> HIDE DEF gs
<1>3. g \in gs
  BY <1>2, GetGroupOK
<1> HIDE DEF g
<1>4. hs \in Parties
  BY <1>1, <1>2, <1>3, AddMemberOK
<1> HIDE DEF hs
<1> QED  BY <1>1, <1>4, GroupsOK

\* A turn of the world loop.
LEMMA UpdateActionOK ==
  ASSUME IInv, NEW pool \in Pools, NEW begun, Update(pool, begun)
  PROVE  \E t \in Good : Becomes(t)
<1> DEFINE t == LftUpdate(Now, pool, begun)
<1>1. Now \in Good /\ Becomes(t) /\ pool \in Seq(Bots)
  BY PoolIs DEF IInv, Update
<1>2. t \in Good
  BY <1>1, UpdateOK
<1> HIDE DEF t
<1> QED  BY <1>1, <1>2

\* Every handler keeps the state well formed.
LEMMA StepKeeps ==
  ASSUME IInv, [Next]_vars
  PROVE  IInv'
<1>1. ASSUME NEW p \in Player, NEW d \in Requests, QueueJoin(p, d)  PROVE  IInv'
  BY <1>1, QueueJoinOK, MovesOK
<1>2. ASSUME NEW p \in Player, QueueLeave(p)  PROVE  IInv'
  BY <1>2, QueueLeaveOK, BecomesOK
<1>3. ASSUME NEW p \in Player, NEW mask \in SUBSET Allowed[p], RolecheckResponse(p, mask)  PROVE  IInv'
  BY <1>3, RolecheckResponseOK, MovesOK
<1>4. ASSUME NEW p \in Player, NEW begun \in Begun, OfferAccept(p, begun)  PROVE  IInv'
  BY <1>4, OfferAcceptOK, BecomesOK
<1>5. ASSUME NEW p \in Player, NEW socket \in BOOLEAN, Logout(p, socket)  PROVE  IInv'
  BY <1>5, LogoutOK, MovesOK
<1>6. ASSUME NEW p \in Player, LeaveMap(p)  PROVE  IInv'
  BY <1>6, LeaveMapOK, MovesOK
<1>7. ASSUME NEW p \in Player, EnterMap(p)  PROVE  IInv'
  BY <1>7, EnterMapOK, MovesOK
<1>8. ASSUME NEW p \in Player, LeaveParty(p)  PROVE  IInv'
  BY <1>8, LeavePartyOK, MovesOK
<1>9. ASSUME NEW p \in Player, NEW q \in Player, JoinParty(p, q)  PROVE  IInv'
  BY <1>9, JoinPartyOK, MovesOK
<1>10. ASSUME NEW pool \in Pools, NEW begun \in Begun, Update(pool, begun)  PROVE  IInv'
  BY <1>10, UpdateActionOK, BecomesOK
<1>11. CASE UNCHANGED vars
  BY <1>11 DEF vars, IInv, Now
<1> QED  BY <1>1, <1>2, <1>3, <1>4, <1>5, <1>6, <1>7, <1>8, <1>9, <1>10, <1>11 DEF Next

\* The state of LFTManager is well formed after every handler: the queue, the
\* role checks, the offers and their index, the fill bots and the groups.
THEOREM InvHolds == Spec => []IInv
<1>1. Init => IInv
  BY InitOK
<1>2. IInv /\ [Next]_vars => IInv'
  BY StepKeeps
<1> QED  BY <1>1, <1>2, PTL DEF Spec

\* The invariant has the type invariant in it.
LEMMA TypeOKNow ==
  ASSUME IInv
  PROVE  TypeOK
<1>0. /\ Now \in Good /\ queue \in Queues /\ rolechecks \in Checks /\ offers \in PFun(OfferId, Offer)
      /\ playerOffers \in PFun(Player, OfferId) /\ nextOfferId \in 1..(MaxOffers + 1)
      /\ fillBots \in SUBSET Bots /\ botFillTimer \in 0..FillPeriod /\ groups \in Parties
      /\ inWorld \in SUBSET Player
  BY GoodIs, NowIs DEF IInv
<1>1. queue \in Seq(Entry)
  <2>1. queue \in Seq(Entries) /\ Entries \in SUBSET Entry
    BY <1>0 DEF Queues, Entries
  <2> QED  BY <2>1
<1>2. \A i, j \in DOMAIN queue : queue[i].guid = queue[j].guid => i = j
  BY <1>0 DEF Queues
<1>3. ASSUME NEW l \in DOMAIN rolechecks
      PROVE  /\ l \in Player /\ l \in ToSet(rolechecks[l].members)
             /\ rolechecks[l].instances \in Requests
             /\ DOMAIN rolechecks[l].responses \subseteq ToSet(rolechecks[l].members)
             /\ rolechecks[l].timer \in 1..RolecheckTimeout
  <2>1. l \in Player /\ rolechecks[l] \in Check /\ CheckOK(l, rolechecks[l])
    BY <1>0, NowIs, CheckIs
  <2>2. rolechecks[l].instances \in Requests /\ rolechecks[l].timer \in 1..RolecheckTimeout
    BY <2>1 DEF Check
  <2> QED  BY <2>1, <2>2 DEF CheckOK
<1>4. ASSUME NEW o \in DOMAIN offers
      PROVE  /\ o \in 1..MaxOffers /\ offers[o].accepted \subseteq DOMAIN offers[o].roles
             /\ offers[o].timer \in 1..OfferTimeout
  <2>1. o \in OfferId /\ offers[o] \in Offer /\ OfferOK(o, offers[o], playerOffers)
    BY <1>0, NowIs, OfferIs
  <2>2. offers[o].timer \in 1..OfferTimeout
    BY <2>1 DEF Offer
  <2> QED  BY <2>1, <2>2 DEF OfferId, OfferOK
<1>5. \A p \in DOMAIN playerOffers : p \in Player /\ playerOffers[p] \in 1..MaxOffers
  BY <1>0, PFunIs DEF OfferId
<1>6. \A g \in groups : Len(g.members) \in 1..GroupSize /\ g.leader \in ToSet(g.members)
  BY <1>0 DEF Parties, GroupOK
<1>7. \A g, h \in groups : g = h \/ ToSet(g.members) \cap ToSet(h.members) = {}
  BY <1>0 DEF Parties, Apart
<1> QED  BY <1>0, <1>1, <1>2, <1>3, <1>4, <1>5, <1>6, <1>7 DEF TypeOK

\* Every container of LFTManager holds what its type and its handlers promise:
\* nobody is queued twice, nobody is in two groups, a group has a leader of its
\* own and is never too large, timers are inside their bounds.
THEOREM TypeSafe == Spec => []TypeOK
<1>1. IInv => TypeOK
  BY TypeOKNow
<1> QED  BY <1>1, InvHolds, PTL

\* The invariant has the agreement of the indices in it.
LEMMA OffersAgreeNow ==
  ASSUME IInv
  PROVE  OffersAgree
<1>0. Now \in Good
  BY DEF IInv
<1>1. ASSUME NEW p \in DOMAIN playerOffers
      PROVE  playerOffers[p] \in DOMAIN offers /\ p \in DOMAIN offers[playerOffers[p]].roles
  BY <1>0, NowIs, IndexIs
<1>2. ASSUME NEW o \in DOMAIN offers
      PROVE  OfferOK(o, offers[o], playerOffers)
  BY <1>0, NowIs, OfferIs
<1> QED  BY <1>1, <1>2 DEF OffersAgree, OfferOK

\* m_offers and m_playerOffers never disagree, whatever the handlers, the
\* timeouts and the bots do, and every open offer is a whole party of roles its
\* members may take, of one faction, all or none in hardcore mode.  Their levels
\* are compared with the seed's alone and may be too far apart for one group.
THEOREM OffersSafe == Spec => []OffersAgree
<1>1. IInv => OffersAgree
  BY OffersAgreeNow
<1> QED  BY <1>1, InvHolds, PTL

-----------------------------------------------------------------------------
(***************************************************************************)
(* Who has accepted keeps his place                                        *)
(***************************************************************************)

\* p waits and has accepted offer id, and no bot completes it: where bots
\* accept, q has not, who is no bot or not in the world.
Held(p, q, id) ==
    {t \in Good : /\ p \in Queued(t) /\ id \in DOMAIN t.offers
                  /\ p \in t.offers[id].accepted
                  /\ BotFill => /\ q \in DOMAIN t.offers[id].roles \ t.offers[id].accepted
                                /\ q \notin Bots \cap t.inWorld}

\* p is in the index under id.
LEMMA HeldIs ==
  ASSUME NEW p, NEW q, NEW id, NEW t \in Held(p, q, id)
  PROVE  /\ t \in Good /\ id \in DOMAIN t.offers /\ p \in DOMAIN t.offers[id].roles
         /\ p \in DOMAIN t.playerOffers /\ t.playerOffers[p] = id
<1>1. t \in Good /\ id \in DOMAIN t.offers /\ p \in t.offers[id].accepted
  BY DEF Held
<1>2. p \in DOMAIN t.offers[id].roles
  BY <1>1, OfferIs DEF OfferOK
<1> QED  BY <1>1, <1>2, MemberIs

\* A bot that accepts is not q, so the offer stays open.
LEMMA HeldAccepts ==
  ASSUME NEW p, NEW q, NEW id, NEW begun, BotFill
  PROVE  AcceptsIn(Held(p, q, id), begun)
<1> SUFFICES ASSUME NEW s \in Held(p, q, id), NEW x \in OfferId, NEW b \in Bots,
                    NEW t, t = AcceptForBot(x, begun, s, b)
             PROVE  t \in Held(p, q, id)
  BY DEF AcceptsIn
<1>1. s \in Good /\ id \in DOMAIN s.offers /\ p \in DOMAIN s.offers[id].roles
  BY HeldIs
<1>2. /\ t \in Good /\ t.inWorld \subseteq s.inWorld /\ StaysOpen(s, t, b)
      /\ b \notin s.inWorld => t = s
  BY <1>1, AcceptForBotOK
<1>3. /\ p \in Queued(s) /\ p \in s.offers[id].accepted
      /\ q \in DOMAIN s.offers[id].roles \ s.offers[id].accepted /\ q \notin Bots \cap s.inWorld
  BY DEF Held
<1>4. CASE b \in s.inWorld
  <2>1. q # b
    BY <1>3, <1>4
  <2>2. /\ id \in DOMAIN t.offers
        /\ q \in DOMAIN t.offers[id].roles /\ q \notin t.offers[id].accepted
        /\ s.offers[id].accepted \subseteq t.offers[id].accepted
        /\ DOMAIN s.offers[id].roles \cap Queued(s) \subseteq Queued(t)
    BY <1>1, <1>2, <1>3, <2>1 DEF StaysOpen
  <2> QED  BY <1>1, <1>2, <1>3, <2>2 DEF Held
<1>5. CASE b \notin s.inWorld
  BY <1>2, <1>5
<1> QED  BY <1>4, <1>5

\* A bot is dropped only if it has no offer: p is not.
LEMMA HeldDrops ==
  ASSUME NEW p, NEW q, NEW id
  PROVE  DropsIn(Held(p, q, id))
<1> SUFFICES ASSUME NEW s \in Held(p, q, id), NEW b \in Bots, NEW t, t = DropFillBot(s, b)
             PROVE  t \in Held(p, q, id)
  BY DEF DropsIn
<1>1. s \in Good /\ HasOffer(s, p)
  BY HeldIs DEF HasOffer
<1>2. /\ t \in Good /\ t.offers = s.offers /\ t.inWorld = s.inWorld
      /\ Queued(s) \ {b} \subseteq Queued(t) /\ (HasOffer(s, b) => t = s)
  BY <1>1, DropFillBotOK
<1>3. CASE b = p
  BY <1>1, <1>2, <1>3
<1>4. CASE b # p
  BY <1>2, <1>4 DEF Held
<1> QED  BY <1>3, <1>4

\* Bots that are queued take nobody's place.
LEMMA HeldFills ==
  ASSUME NEW p, NEW q, NEW id, NEW pool \in Seq(Bots)
  PROVE  FillsIn(Held(p, q, id), pool)
<1> SUFFICES ASSUME NEW s \in Held(p, q, id), NEW instance \in Instance, NEW waiter \in Player,
                    NEW role \in Role, NEW t, t = FillRole(pool, instance, waiter, s, role)
             PROVE  t \in Held(p, q, id)
  BY DEF FillsIn
<1>1. s \in Good
  BY HeldIs
<1>2. t \in Good /\ t.offers = s.offers /\ t.inWorld = s.inWorld /\ Queued(s) \subseteq Queued(t)
  BY <1>1, FillRoleOK
<1> QED  BY <1>2 DEF Held

\* The timer of filling has no part in it.
LEMMA HeldTimes ==
  ASSUME NEW p, NEW q, NEW id
  PROVE  TimesIn(Held(p, q, id))
<1> SUFFICES ASSUME NEW s \in Held(p, q, id), NEW n \in 0..FillPeriod, NEW t, t = [s EXCEPT !.botFillTimer = n]
             PROVE  t \in Held(p, q, id)
  BY DEF TimesIn
<1>1. s \in Good
  BY HeldIs
<1>2. t \in Good /\ t.offers = s.offers /\ t.queue = s.queue /\ t.inWorld = s.inWorld
  BY <1>1, SetTimer
<1> QED  BY <1>2 DEF Held, Queued

\* Bots that accept, leave and come cost p nothing while q has not answered.
LEMMA HeldUpdate ==
  ASSUME NEW p, NEW q, NEW id, NEW s \in Held(p, q, id), NEW pool \in Seq(Bots), NEW begun
  PROVE  UpdateBotFill(s, pool, begun) \in Held(p, q, id)
<1> DEFINE X == Held(p, q, id)
<1>1. X \subseteq Good
  BY DEF Held
<1>2. (BotFill => AcceptsIn(X, begun)) /\ DropsIn(X) /\ FillsIn(X, pool) /\ TimesIn(X)
  BY HeldAccepts, HeldDrops, HeldFills, HeldTimes
<1>3. s \in X
  OBVIOUS
<1> HIDE DEF X
<1>4. UpdateBotFill(s, pool, begun) \in X
  BY <1>1, <1>2, <1>3, UpdateBotFillIn
<1> QED  BY <1>4 DEF X

\* p waits and has accepted the offers he has.
Keeping(p) ==
    {t \in Good : p \in Queued(t)
                  /\ \A x \in DOMAIN t.offers : p \in DOMAIN t.offers[x].roles => p \in t.offers[x].accepted}

\* He is in one offer alone, and he has accepted it.
LEMMA HeldKeeping ==
  ASSUME NEW p, NEW q, NEW id, NEW s \in Held(p, q, id)
  PROVE  s \in Keeping(p)
<1>1. s \in Good /\ s.playerOffers[p] = id
  BY HeldIs
<1>2. p \in Queued(s) /\ p \in s.offers[id].accepted
  BY DEF Held
<1>3. ASSUME NEW x \in DOMAIN s.offers, p \in DOMAIN s.offers[x].roles  PROVE  x = id
  BY <1>1, <1>3, MemberIs
<1> QED  BY <1>1, <1>2, <1>3 DEF Keeping

\* An offer that is over drops only who has not accepted it.
LEMMA KeepingExpires ==
  ASSUME NEW p
  PROVE  ExpiresIn(Keeping(p))
<1> SUFFICES ASSUME NEW s \in Keeping(p), NEW id \in OfferId, NEW t, t = Expire(s, id)
             PROVE  t \in Keeping(p)
  BY DEF ExpiresIn
<1>1. s \in Good /\ p \in Queued(s)
      /\ \A x \in DOMAIN s.offers : p \in DOMAIN s.offers[x].roles => p \in s.offers[x].accepted
  BY DEF Keeping
<1>2. /\ t \in Good /\ (id \notin DOMAIN s.offers => t = s)
      /\ id \in DOMAIN s.offers =>
            /\ Without(s, t, id)
            /\ Queued(s) \ (DOMAIN s.offers[id].roles \ s.offers[id].accepted) \subseteq Queued(t)
  BY <1>1, ExpireOK
<1>3. CASE id \notin DOMAIN s.offers
  BY <1>2, <1>3
<1>4. CASE id \in DOMAIN s.offers
  <2>1. p \in Queued(t)
    BY <1>1, <1>2, <1>4
  <2>2. \A x \in DOMAIN t.offers : x \in DOMAIN s.offers /\ t.offers[x] = s.offers[x]
    BY <1>2, <1>4 DEF Without
  <2> QED  BY <1>1, <1>2, <2>1, <2>2 DEF Keeping
<1> QED  BY <1>3, <1>4

\* The purges of Update keep him.
LEMMA KeepingPurged ==
  ASSUME NEW p, NEW s \in Keeping(p), p \in s.inWorld
  PROVE  p \in Queued(Aged(Purged(s)))
<1> DEFINE a == PurgeQueue(s)
           b == PurgeRolechecks(a)
           c == PurgeOffers(b)
           d == TryMakeOffers(c)
<1>0. Purged(s) = d
  BY DEF Purged
<1>1. a \in Keeping(p)
  <2>1. s \in Good /\ p \in Queued(s)
    BY DEF Keeping
  <2>2. a \in Good /\ a.offers = s.offers /\ Queued(s) \cap s.inWorld \subseteq Queued(a)
    BY <2>1, PurgeQueueOK DEF SameElse
  <2> HIDE DEF a
  <2> QED  BY <2>1, <2>2 DEF Keeping
<1> HIDE DEF a
<1>2. b \in Keeping(p)
  <2>1. b \in Good /\ b.offers = a.offers /\ b.queue = a.queue
    BY <1>1, PurgeRolechecksOK DEF Keeping
  <2> HIDE DEF b
  <2> QED  BY <1>1, <2>1 DEF Keeping, Queued
<1> HIDE DEF b
<1>3. Ticked(b) \in Keeping(p)
  <2> DEFINE e == Ticked(b)
  <2>1. b \in Good
    BY <1>2 DEF Keeping
  <2>2. e \in Good /\ SameOffers(b, e) /\ e.queue = b.queue
    BY <2>1, TickedOK
  <2> HIDE DEF e
  <2>3. e \in Keeping(p)
    BY <1>2, <2>2 DEF Keeping, Queued, SameOffers
  <2> QED  BY <2>3 DEF e
<1>4. c \in Keeping(p)
  <2> DEFINE X == Keeping(p)
  <2>1. ExpiresIn(X) /\ b \in Good /\ Ticked(b) \in X
    BY <1>2, <1>3, KeepingExpires DEF Keeping
  <2> HIDE DEF X
  <2>2. c \in X
    BY <2>1, PurgeOffersIn
  <2> QED  BY <2>2 DEF X
<1> HIDE DEF c
<1>5. d \in Good /\ Queued(c) \subseteq Queued(d)
  BY <1>4, GrownOffers DEF Keeping, GrownFrom
<1> HIDE DEF d
<1>6. Queued(Aged(d)) = Queued(d)
  BY <1>5, AgedOK
<1> QED  BY <1>0, <1>4, <1>5, <1>6 DEF Keeping

\* Update keeps him as long as no bot is the last to answer.
LEMMA UpdateKeeps ==
  ASSUME NEW p, NEW q, NEW id, NEW s \in Held(p, q, id), NEW pool \in Seq(Bots), NEW begun,
         NEW t, t = LftUpdate(s, pool, begun), p \in t.inWorld
  PROVE  p \in Queued(t)
<1> DEFINE u == UpdateBotFill(s, pool, begun)
<1>1. t = Aged(Purged(u))
  BY DEF LftUpdate, Purged
<1>2. u \in Held(p, q, id)
  BY HeldUpdate
<1>3. t.inWorld = u.inWorld
  BY HeldIs, UpdateOK
<1> HIDE DEF u
<1>4. u \in Keeping(p)
  BY <1>2, HeldKeeping
<1> QED  BY <1>1, <1>3, <1>4, KeepingPurged

\* What may cost the character at place i of the queue his place.
MayCost(i, p, roles, missing) ==
    \/ \E j \in DOMAIN queue : /\ BlockLeader(queue[j]) = BlockLeader(queue[i])
                              /\ QueueLeave(queue[j].guid)
    \/ \E d \in Requests : QueueJoin(p, d)
    \/ \E q \in DOMAIN roles, begun \in Begun : missing \subseteq {q} /\ OfferAccept(q, begun)
    \/ /\ BotFill /\ missing \subseteq Bots \cap inWorld
       /\ \E pool \in Pools, begun \in Begun : Update(pool, begun)

\* Every step that costs him his place is one of the four.
LEMMA PlaceKept ==
  ASSUME IInv, [Next]_vars, NEW i \in DOMAIN queue, NEW p, p = queue[i].guid, NEW id,
         id = playerOffers[p], p \in inWorld', HasOffer(Now, p), p \in offers[id].accepted,
         p \notin Queued(Now)'
  PROVE  MayCost(i, p, offers[id].roles, DOMAIN offers[id].roles \ offers[id].accepted)
<1> DEFINE roles == offers[id].roles
           missing == DOMAIN offers[id].roles \ offers[id].accepted
<1> SUFFICES MayCost(i, p, roles, missing)
  OBVIOUS
<1>0. /\ Now \in Good /\ p \in Queued(Now) /\ id \in DOMAIN offers /\ p \in DOMAIN offers[id].roles
      /\ Now.offers = offers
  <2>1. Now \in Good /\ p \in DOMAIN Now.playerOffers /\ id = Now.playerOffers[p]
    BY NowIs DEF IInv, HasOffer
  <2>2. id \in DOMAIN Now.offers /\ p \in DOMAIN Now.offers[id].roles
    BY <2>1, IndexIs
  <2>3. p \in Queued(Now)
    BY NowIs DEF Queued
  <2> QED  BY <2>1, <2>2, <2>3, NowIs
<1>1. ASSUME NEW r \in Player, NEW d \in Requests, QueueJoin(r, d)  PROVE  MayCost(i, p, roles, missing)
  <2>1. Queued(Now) \ {r} \subseteq Queued(Now)'
    BY <1>1, QueueJoinOK, MovesOK
  <2>2. r = p
    BY <1>0, <2>1
  <2> QED  BY <1>1, <2>2 DEF MayCost
<1>2. ASSUME NEW r \in Player, QueueLeave(r)  PROVE  MayCost(i, p, roles, missing)
  <2>1. PICK t \in Good : /\ Becomes(t)
                          /\ \A k \in DOMAIN queue : queue[k].guid \notin Queued(t) =>
                               \E j \in DOMAIN queue : /\ queue[j].guid = r
                                                      /\ BlockLeader(queue[j]) = BlockLeader(queue[k])
    BY <1>2, QueueLeaveOK
  <2>2. p \notin Queued(t)
    BY <2>1, BecomesOK
  <2>3. PICK j \in DOMAIN queue : queue[j].guid = r /\ BlockLeader(queue[j]) = BlockLeader(queue[i])
    BY <2>1, <2>2
  <2>4. QueueLeave(queue[j].guid)
    BY <1>2, <2>3
  <2> QED  BY <2>3, <2>4 DEF MayCost
<1>3. ASSUME Moves({})  PROVE  MayCost(i, p, roles, missing)
  <2>1. Queued(Now) \ {} \subseteq Queued(Now)'
    BY <1>3, MovesOK
  <2> QED  BY <1>0, <2>1
<1>4. ASSUME NEW r \in Player, NEW mask \in SUBSET Allowed[r], RolecheckResponse(r, mask)
      PROVE  MayCost(i, p, roles, missing)
  BY <1>3, <1>4, RolecheckResponseOK
<1>5. ASSUME NEW r \in Player, NEW begun \in Begun, OfferAccept(r, begun)  PROVE  MayCost(i, p, roles, missing)
  <2>1. PICK t \in Good : Becomes(t) /\ StaysOpen(Now, t, r) /\ Elsewhere(Now, t, r)
    BY <1>5, OfferAcceptOK
  <2>2. p \notin Queued(t)
    BY <2>1, BecomesOK
  <2>3. ASSUME NEW q \in missing  PROVE  q = r
    <3> SUFFICES ASSUME q # r  PROVE  FALSE
      OBVIOUS
    <3>1. id \in DOMAIN Now.offers /\ q \in DOMAIN Now.offers[id].roles \ Now.offers[id].accepted
      BY <1>0
    <3>2. DOMAIN Now.offers[id].roles \cap Queued(Now) \subseteq Queued(t)
      BY <2>1, <3>1 DEF StaysOpen
    <3> QED  BY <1>0, <2>2, <3>2
  <2>4. r \in DOMAIN roles
    <3> SUFFICES ASSUME r \notin DOMAIN roles  PROVE  FALSE
      OBVIOUS
    <3>1. DOMAIN Now.offers[id].roles \cap Queued(Now) \subseteq Queued(t)
      BY <1>0, <2>1 DEF Elsewhere
    <3> QED  BY <1>0, <2>2, <3>1
  <2> HIDE DEF missing, roles
  <2>5. missing \subseteq {r}
    BY <2>3
  <2> QED  BY <1>5, <2>4, <2>5 DEF MayCost
<1>6. ASSUME NEW r \in Player, NEW socket \in BOOLEAN, Logout(r, socket)  PROVE  MayCost(i, p, roles, missing)
  <2>1. Queued(Now) \ {r} \subseteq Queued(Now)' /\ r \notin inWorld'
    BY <1>6, LogoutOK, MovesOK
  <2> QED  BY <1>0, <2>1
<1>7. ASSUME NEW r \in Player, LeaveMap(r) \/ EnterMap(r) \/ LeaveParty(r) \/ \E x \in Player : JoinParty(r, x)
      PROVE  MayCost(i, p, roles, missing)
  BY <1>3, <1>7, LeaveMapOK, EnterMapOK, LeavePartyOK, JoinPartyOK
<1>8. ASSUME NEW pool \in Pools, NEW begun \in Begun, Update(pool, begun)  PROVE  MayCost(i, p, roles, missing)
  <2>1. CASE BotFill /\ missing \subseteq Bots \cap inWorld
    BY <1>8, <2>1 DEF MayCost
  <2>2. CASE ~(BotFill /\ missing \subseteq Bots \cap inWorld)
    <3>1. PICK q : BotFill => q \in missing /\ q \notin Bots \cap inWorld
      BY <2>2
    <3>2. Now \in Held(p, q, id)
      BY <1>0, <3>1, NowIs DEF Held
    <3> DEFINE t == LftUpdate(Now, pool, begun)
    <3>3. pool \in Seq(Bots) /\ Becomes(t)
      BY <1>8, PoolIs DEF Update
    <3>4. t.inWorld = inWorld' /\ t.queue = queue'
      BY <3>3 DEF Becomes
    <3>5. p \in Queued(t)
      BY <3>1, <3>2, <3>3, <3>4, UpdateKeeps
    <3> HIDE DEF t
    <3>6. Queued(Now)' = Queued(t)
      BY <3>4 DEF Queued, Now
    <3> QED  BY <3>5, <3>6
  <2> QED  BY <2>1, <2>2
<1>9. CASE UNCHANGED vars
  <2>1. Queued(Now)' = Queued(Now)
    BY <1>9 DEF vars, Queued, Now
  <2> QED  BY <1>0, <2>1
<1> HIDE DEF missing, roles
<1> QED  BY <1>1, <1>2, <1>4, <1>5, <1>6, <1>7, <1>8, <1>9 DEF Next

\* CancelOffer, CompleteOffer, the bots and the purges of Update cost nobody
\* his place who has accepted and stays, unless his own party leaves, he joins
\* anew or the last of the others accepts: on his own, or bots in Update.
THEOREM PlaceSafe == Spec => KeepsPlace
<1> DEFINE Kept(i) ==
      LET p == queue[i].guid
          offer == offers[playerOffers[p]]
          missing == DOMAIN offer.roles \ offer.accepted
      IN  (/\ p \in inWorld \cap inWorld' /\ HasOffer(Now, p) /\ p \in offer.accepted
           /\ \A j \in DOMAIN queue' : queue'[j].guid # p)
          => \/ \E j \in DOMAIN queue : /\ BlockLeader(queue[j]) = BlockLeader(queue[i])
                                       /\ QueueLeave(queue[j].guid)
             \/ \E d \in Requests : QueueJoin(p, d)
             \/ \E q \in DOMAIN offer.roles, begun \in Begun :
                  missing \subseteq {q} /\ OfferAccept(q, begun)
             \/ /\ BotFill /\ missing \subseteq Bots \cap inWorld
                /\ \E pool \in Pools, begun \in Begun : Update(pool, begun)
           AllKept == \A i \in DOMAIN queue : Kept(i)
<1>1. ASSUME IInv, [Next]_vars, NEW i \in DOMAIN queue  PROVE  Kept(i)
  <2> DEFINE p == queue[i].guid
             id == playerOffers[p]
             missing == DOMAIN offers[id].roles \ offers[id].accepted
  <2> SUFFICES ASSUME p \in inWorld', HasOffer(Now, p), p \in offers[id].accepted,
                      \A j \in DOMAIN queue' : queue'[j].guid # p
               PROVE  MayCost(i, p, offers[id].roles, missing)
    BY DEF MayCost
  <2>1. PICK x : x = p
    OBVIOUS
  <2>2. PICK y : y = id
    OBVIOUS
  <2>3. x \notin Queued(Now)'
    BY <2>1 DEF Queued, Now
  <2>4. MayCost(i, x, offers[y].roles, DOMAIN offers[y].roles \ offers[y].accepted)
    BY <1>1, <2>1, <2>2, <2>3, PlaceKept
  <2> QED  BY <2>1, <2>2, <2>4
<1>2. IInv /\ [Next]_vars => [AllKept]_vars
  BY <1>1
<1>3. Spec => [][AllKept]_vars
  <2> HIDE DEF AllKept
  <2> QED  BY <1>2, InvHolds, PTL DEF Spec
<1> QED  BY <1>3 DEF KeepsPlace
=============================================================================
