----------------------- MODULE BattleGroundQueueProofs -----------------------
(***************************************************************************)
(* For every number of players, parties and battlegrounds: the counters of *)
(* invited players, the timers of the invitations and the invitations      *)
(* themselves are kept.                                                    *)
(***************************************************************************)
EXTENDS BattleGroundQueue, FiniteSetTheorems, WellFoundedInduction, TLAPS

-----------------------------------------------------------------------------
(***************************************************************************)
(* Folds                                                                   *)
(*                                                                         *)
(* FoldLeft and FoldSet are recursive functions over the subsets of a      *)
(* finite set.  Where the step of a fold maps a set A of accumulators into *)
(* itself, the recursion has a solution and its value is in A.             *)
(***************************************************************************)

\* Induction over the natural numbers.
LEMMA SetInduction ==
  ASSUME NEW T \in SUBSET Nat, 0 \in T, \A n \in Nat : n \in T => n + 1 \in T
  PROVE  Nat \subseteq T
<1> SUFFICES ASSUME Nat \ T # {}  PROVE  FALSE
  OBVIOUS
<1>1. PICK x \in Nat \ T : \A y \in Nat \ T : ~ (<<y, x>> \in OpToRel(<, Nat))
  BY NatLessThanWellFounded, WFMin
<1>2. \A y \in Nat \ T : ~(y < x)
  BY <1>1 DEF OpToRel
<1>3. x \in Nat /\ x \notin T
  OBVIOUS
<1>4. x - 1 \in Nat /\ x # 0
  BY <1>3
<1>5. x - 1 \in T
  BY <1>2, <1>4
<1>6. (x - 1) + 1 \in T
  BY <1>4, <1>5
<1> QED  BY <1>3, <1>4, <1>6

\* One element less.
LEMMA SmallerSet ==
  ASSUME NEW S, IsFiniteSet(S), NEW s \in SUBSET S, NEW x \in s
  PROVE  /\ s \ {x} \in SUBSET S /\ Cardinality(s) \in Nat /\ Cardinality(s) > 0
         /\ Cardinality(s \ {x}) = Cardinality(s) - 1
<1>1. IsFiniteSet(s)
  BY FS_Subset
<1>2. Cardinality(s \ {x}) = Cardinality(s) - 1 /\ IsFiniteSet(s \ {x})
  BY <1>1, FS_RemoveElement
<1>3. Cardinality(s) \in Nat /\ Cardinality(s \ {x}) \in Nat
  BY <1>1, <1>2, FS_CardinalityType
<1> QED  BY <1>2, <1>3

\* c chooses the element that is folded last.
Chooses(c, S) == \A s \in SUBSET S : s # {} => c[s] \in s

\* R is a step of a fold with its accumulator in A; h is the fold of every subset.
Steps(R, A, S) == R \in [A \X S -> A]
Folded(h, A, S, b, R, c) ==
    /\ h \in [SUBSET S -> A]
    /\ h[{}] = b
    /\ \A s \in SUBSET S : s # {} => h[s] = R[<<h[s \ {c[s]}], c[s]>>]

\* The recursion has a solution.
LEMMA FoldExists ==
  ASSUME NEW A, NEW S, IsFiniteSet(S), NEW b \in A, NEW R, Steps(R, A, S),
         NEW c, Chooses(c, S)
  PROVE  \E h : Folded(h, A, S, b, R, c)
<1> USE DEF Chooses, Steps
<1> DEFINE D(n) == {s \in SUBSET S : Cardinality(s) <= n}
           Ok(h, n) == /\ h \in [D(n) -> A] /\ h[{}] = b
                       /\ \A s \in D(n) : s # {} => h[s] = R[<<h[s \ {c[s]}], c[s]>>]
           T == {n \in Nat : \E h : Ok(h, n)}
<1>0. Cardinality({}) = 0
  BY FS_EmptySet
<1>1. \A n \in Nat : {} \in D(n)
  BY <1>0
<1>2. ASSUME NEW n \in Nat, NEW s \in D(n + 1), s # {}
      PROVE  s \ {c[s]} \in D(n) /\ c[s] \in S
  BY <1>2, SmallerSet
<1>3. 0 \in T
  <2>1. \A s \in D(0) : s = {}
    <3> SUFFICES ASSUME NEW s \in D(0), s # {}  PROVE  FALSE
      OBVIOUS
    <3>1. Cardinality(s) > 0 /\ Cardinality(s) \in Nat
      BY SmallerSet
    <3> QED  BY <3>1
  <2>2. Ok([s \in D(0) |-> b], 0)
    BY <1>1, <2>1
  <2> QED  BY <2>2
<1>4. ASSUME NEW n \in Nat, n \in T  PROVE  n + 1 \in T
  <2>1. PICK h : Ok(h, n)
    BY <1>4
  <2> DEFINE g == [s \in D(n + 1) |-> IF s = {} THEN b ELSE R[<<h[s \ {c[s]}], c[s]>>]]
  <2>2. ASSUME NEW s \in D(n + 1)
        PROVE  g[s] \in A
    BY <1>2, <2>1, <2>2
  <2>3. ASSUME NEW s \in D(n)  PROVE  s \in D(n + 1) /\ g[s] = h[s]
    <3>1. s \in D(n + 1)
      <4>1. Cardinality(s) \in Nat
        BY FS_Subset, FS_CardinalityType
      <4> QED  BY <4>1
    <3>2. CASE s = {}
      BY <2>1, <3>1, <3>2
    <3>3. CASE s # {}
      BY <2>1, <3>1, <3>3
    <3> QED  BY <3>1, <3>2, <3>3
  <2>4. ASSUME NEW s \in D(n + 1), s # {}
        PROVE  g[s] = R[<<g[s \ {c[s]}], c[s]>>]
    <3>1. s \ {c[s]} \in D(n)
      BY <1>2, <2>4
    <3>2. g[s \ {c[s]}] = h[s \ {c[s]}]
      <4> HIDE DEF D, g
      <4> QED  BY <2>3, <3>1
    <3>3. g[s] = R[<<h[s \ {c[s]}], c[s]>>]
      BY <2>4
    <3> QED  BY <3>2, <3>3
  <2>5. g \in [D(n + 1) -> A]
    BY <2>2
  <2>6. g[{}] = b
    <3>1. n + 1 \in Nat
      OBVIOUS
    <3>2. {} \in D(n + 1)
      BY <1>1, <3>1
    <3> QED  BY <3>2
  <2> HIDE DEF g
  <2>7. Ok(g, n + 1)
    BY <2>4, <2>5, <2>6
  <2> HIDE DEF Ok
  <2>8. n + 1 \in Nat
    OBVIOUS
  <2> QED  BY <2>7, <2>8
<1> HIDE DEF Ok
<1>5. T \in SUBSET Nat
  OBVIOUS
<1> HIDE DEF T
<1>6. Nat \subseteq T
  BY <1>3, <1>4, <1>5, SetInduction
<1>7. Cardinality(S) \in Nat
  BY FS_CardinalityType
<1>8. PICK h : Ok(h, Cardinality(S))
  BY <1>6, <1>7 DEF T
<1>9. D(Cardinality(S)) = SUBSET S
  BY FS_Subset
<1> QED  BY <1>8, <1>9 DEF Ok, Folded

\* What holds of the start and is kept by every step holds of the result.
Keeps(f, c, S, P) ==
    /\ <<{}, f[{}]>> \in P
    /\ \A s \in SUBSET S : s # {} /\ <<s \ {c[s]}, f[s \ {c[s]}]>> \in P => <<s, f[s]>> \in P

\* What every step of a fold keeps holds of its result.
LEMMA FoldInvariant ==
  ASSUME NEW S, IsFiniteSet(S), NEW c, Chooses(c, S), NEW f, NEW P, Keeps(f, c, S, P)
  PROVE  <<S, f[S]>> \in P
<1> USE DEF Chooses, Keeps
<1> DEFINE T == {n \in Nat : \A s \in SUBSET S : Cardinality(s) = n => <<s, f[s]>> \in P}
<1>1. 0 \in T
  <2>1. \A s \in SUBSET S : Cardinality(s) = 0 => s = {}
    <3> SUFFICES ASSUME NEW s \in SUBSET S, Cardinality(s) = 0, s # {}  PROVE  FALSE
      OBVIOUS
    <3>1. Cardinality(s) > 0
      BY SmallerSet
    <3> QED  BY <3>1
  <2> QED  BY <2>1
<1>2. ASSUME NEW n \in Nat, n \in T  PROVE  n + 1 \in T
  <2> SUFFICES ASSUME NEW s \in SUBSET S, Cardinality(s) = n + 1  PROVE  <<s, f[s]>> \in P
    OBVIOUS
  <2>0. Cardinality({}) = 0
    BY FS_EmptySet
  <2>1. s # {}
    <3> SUFFICES ASSUME s = {}  PROVE  FALSE
      OBVIOUS
    <3>1. Cardinality({}) = n + 1
      BY Zenon
    <3> QED  BY <2>0, <3>1
  <2>2. s \ {c[s]} \in SUBSET S /\ Cardinality(s \ {c[s]}) = n
    BY <2>1, SmallerSet
  <2>3. <<s \ {c[s]}, f[s \ {c[s]}]>> \in P
    BY <1>2, <2>2
  <2> QED  BY <2>1, <2>3
<1> HIDE DEF T
<1>3. T \in SUBSET Nat
  BY DEF T
<1>4. Nat \subseteq T
  BY <1>1, <1>2, <1>3, SetInduction
<1>5. Cardinality(S) \in Nat
  BY FS_CardinalityType
<1> QED  BY <1>4, <1>5 DEF T

\* The largest place of a queue is one of its places.
LEMMA MaxIn ==
  ASSUME NEW n \in Nat, NEW s \in SUBSET (0 .. n), s # {}
  PROVE  Max(s) \in s /\ \A y \in s : y <= Max(s)
<1> DEFINE B == {n - x : x \in s}
<1>1. B \subseteq Nat /\ B # {}
  <2>1. \A x \in s : n - x \in Nat
    OBVIOUS
  <2>2. PICK x \in s : TRUE
    OBVIOUS
  <2>3. n - x \in B
    OBVIOUS
  <2> QED  BY <2>1, <2>3
<1>2. PICK z \in B : \A y \in B : ~ (<<y, z>> \in OpToRel(<, Nat))
  <2> HIDE DEF B
  <2> QED  BY <1>1, NatLessThanWellFounded, WFMin
<1>3. \A y \in B : ~(y < z)
  BY <1>1, <1>2 DEF OpToRel
<1>4. PICK x \in s : z = n - x
  OBVIOUS
<1>5. \A y \in s : x >= y
  <2> SUFFICES ASSUME NEW y \in s  PROVE  x >= y
    OBVIOUS
  <2>1. n - y \in B
    OBVIOUS
  <2>2. ~(n - y < n - x)
    BY <1>3, <1>4, <2>1
  <2> QED  BY <2>2
<1>6. Max(s) \in s /\ \A y \in s : Max(s) >= y
  BY <1>5 DEF Max
<1> QED  BY <1>6

-----------------------------------------------------------------------------
(***************************************************************************)
(* The inductive invariant                                                 *)
(*                                                                         *)
(* Its parts speak of a queue, slots, events, ... that need not be those   *)
(* of the state: an update of the queue goes through many of them.         *)
(***************************************************************************)

\* What a player's party is invited to, and until when: nothing if he is not
\* in the queue, one invitation (NoBg, perhaps) if he is.
Seats(q, p) == {<<g.bg, g.time>> : g \in GroupsWith(q, p)}

\* A party is of one team, and nobody is in two of them.
QueueOK(q) ==
    /\ q \in [Team -> Seq(Group)]
    /\ \A t \in Team : \A i \in DOMAIN q[t] : \A p \in q[t][i].players : TeamOf[p] = t
    /\ \A t \in Team : \A i, j \in DOMAIN q[t] :
          i # j => q[t][i].players \cap q[t][j].players = {}

\* Who is in the queue and not offline is told of nothing or of the invitation of
\* his party, and then its timer is running.
TimedIn(q, sl, ev) ==
    \A p \in Player : presence[p] # "offline" =>
        \A s \in Seats(q, p) :
            /\ sl[p] \in {NoBg, s[1]}
            /\ sl[p] # NoBg => [bg |-> s[1], time |-> s[2]] \in ev[p]

\* Nobody is in the queue and in a battleground, or on the way to one.
Outside(q) == \A p \in Player : Seats(q, p) # {} => target[p] = NoBg

\* A battleground that was not made has no players.
Unmade(q, inv, st) ==
    \A b \in Bg : st[b] = "none" =>
        /\ \A t \in Team : inv[b][t] = 0
        /\ \A p \in Player : target[p] # b /\ \A s \in Seats(q, p) : s[1] # b

\* The battlegrounds are made one after the other.
MadeInOrder(st) ==
    \E k \in 0 .. MaxBgs : \A c \in Bg : st[c] # "none" <=> c <= k

HoldersIn(q, b, t) ==
    {p \in Player : TeamOf[p] = t /\ (target[p] = b \/ \E s \in Seats(q, p) : s[1] = b)}

CountedIn(q, inv, st, ms) ==
    \A b \in Bg : st[b] \in {"join", "progress", "leave"} /\ b \notin ms =>
        \A t \in Team : /\ inv[b][t] = Cardinality(HoldersIn(q, b, t))
                        /\ inv[b][t] <= MaxPlayers

QueueInv ==
    /\ TypeOK
    /\ QueueOK(queue)
    /\ TimedIn(queue, slot, events)
    /\ Outside(queue)
    /\ Unmade(queue, invited, status)
    /\ MadeInOrder(status)
    /\ CountedIn(queue, invited, status, missed)

-----------------------------------------------------------------------------
(***************************************************************************)
(* The queue                                                               *)
(***************************************************************************)

\* RemoveAt closes the gap.
LEMMA RemoveAtProps ==
  ASSUME NEW S, NEW s \in Seq(S), NEW i \in DOMAIN s
  PROVE  /\ RemoveAt(s, i) \in Seq(S)
         /\ Len(RemoveAt(s, i)) = Len(s) - 1
         /\ \A j \in 1 .. Len(s) - 1 :
               RemoveAt(s, i)[j] = s[IF j < i THEN j ELSE j + 1]
<1> DEFINE u == SubSeq(s, 1, i - 1)
           v == SubSeq(s, i + 1, Len(s))
<1>1. i \in 1 .. Len(s) /\ Len(s) \in Nat
  OBVIOUS
<1>2. u \in Seq(S) /\ Len(u) = i - 1 /\ \A j \in 1 .. i - 1 : u[j] = s[j]
  BY <1>1
<1>3. v \in Seq(S) /\ Len(v) = Len(s) - i
      /\ \A j \in 1 .. Len(s) - i : v[j] = s[i + j]
  BY <1>1
<1>4. RemoveAt(s, i) = u \o v
  BY DEF RemoveAt
<1> HIDE DEF u, v
<1>5. u \o v \in Seq(S) /\ Len(u \o v) = Len(s) - 1
  BY <1>1, <1>2, <1>3
<1>6. ASSUME NEW j \in 1 .. Len(s) - 1
      PROVE  (u \o v)[j] = s[IF j < i THEN j ELSE j + 1]
  <2>1. CASE j < i
    BY <1>1, <1>2, <1>3, <2>1
  <2>2. CASE ~(j < i)
    <3>1. (u \o v)[j] = v[j - (i - 1)]
      BY <1>1, <1>2, <1>3, <2>2, SMTT(30)
    <3>2. j - (i - 1) \in 1 .. Len(s) - i /\ i + (j - (i - 1)) = j + 1
      BY <1>1, <2>2
    <3> QED  BY <1>3, <2>2, <3>1, <3>2
  <2> QED  BY <2>1, <2>2
<1> QED  BY <1>4, <1>5, <1>6

\* A player's groups are the ones his places in the queue belong to.
LEMMA GroupsByPlace ==
  ASSUME NEW q, NEW p, NEW g
  PROVE  g \in GroupsWith(q, p) <=>
            \E i \in DOMAIN q[TeamOf[p]] : g = q[TeamOf[p]][i] /\ p \in g.players
BY DEF GroupsWith, ToSet

\* A player has a place in the queue, at most one.
LEMMA OnePlace ==
  ASSUME NEW q, QueueOK(q), NEW p \in Player
  PROVE  /\ TeamOf[p] \in Team
         /\ \A i, j \in DOMAIN q[TeamOf[p]] :
               p \in q[TeamOf[p]][i].players /\ p \in q[TeamOf[p]][j].players => i = j
         /\ \A s \in Seats(q, p) : Seats(q, p) = {s}
         /\ Seats(q, p) \subseteq (Bg \cup {NoBg}) \X (0 .. MaxTime + InviteTime)
         /\ Seats(q, p) = {} <=> GroupsWith(q, p) = {}
<1>1. TeamOf[p] \in Team
  BY BattleGroundQueueAssumption
<1> DEFINE t == TeamOf[p]
<1>2. ASSUME NEW i \in DOMAIN q[t], NEW j \in DOMAIN q[t],
             p \in q[t][i].players, p \in q[t][j].players
      PROVE  i = j
  BY <1>1, <1>2 DEF QueueOK
<1>3. \A g, h \in GroupsWith(q, p) : g = h
  BY <1>2, GroupsByPlace
<1>4. \A g \in GroupsWith(q, p) : g \in Group
  BY <1>1, GroupsByPlace DEF QueueOK
<1>5. Seats(q, p) \subseteq (Bg \cup {NoBg}) \X (0 .. MaxTime + InviteTime)
  BY <1>4 DEF Seats, Group
<1>6. \A s, u \in Seats(q, p) : s = u
  BY <1>3 DEF Seats
<1>7. Seats(q, p) = {} <=> GroupsWith(q, p) = {}
  BY DEF Seats
<1> QED  BY <1>1, <1>2, <1>5, <1>6, <1>7

\* What the code reads of a player's party in the queue.
LEMMA GroupOfSeat ==
  ASSUME QueueOK(queue), NEW p \in Player
  PROVE  /\ Queued(p) <=> Seats(queue, p) # {}
         /\ Queued(p) => /\ GroupOf(p) \in GroupsWith(queue, p)
                         /\ <<GroupOf(p).bg, GroupOf(p).time>> \in Seats(queue, p)
                         /\ GroupOf(p).bg \in Bg \cup {NoBg}
                         /\ GroupOf(p).time \in 0 .. MaxTime + InviteTime
         /\ \A b : (\E s \in Seats(queue, p) : s[1] = b) <=> Queued(p) /\ GroupOf(p).bg = b
<1>1. Queued(p) <=> Seats(queue, p) # {}
  BY OnePlace DEF Queued
<1>2. Queued(p) => GroupOf(p) \in GroupsWith(queue, p)
  BY DEF Queued, GroupOf
<1>3. Queued(p) => <<GroupOf(p).bg, GroupOf(p).time>> \in Seats(queue, p)
  BY <1>2 DEF Seats
<1>4. Queued(p) => GroupOf(p).bg \in Bg \cup {NoBg}
                   /\ GroupOf(p).time \in 0 .. MaxTime + InviteTime
  BY <1>3, OnePlace
<1>5. ASSUME NEW b
      PROVE  (\E s \in Seats(queue, p) : s[1] = b) <=> Queued(p) /\ GroupOf(p).bg = b
  <2>1. ASSUME NEW s \in Seats(queue, p), s[1] = b
        PROVE  Queued(p) /\ GroupOf(p).bg = b
    <3>1. Queued(p)
      BY <1>1
    <3>2. Seats(queue, p) = {s}
      BY OnePlace
    <3>3. s = <<GroupOf(p).bg, GroupOf(p).time>>
      BY <1>3, <3>1, <3>2
    <3> QED  BY <2>1, <3>1, <3>3
  <2>2. ASSUME Queued(p), GroupOf(p).bg = b
        PROVE  \E s \in Seats(queue, p) : s[1] = b
    <3>1. <<GroupOf(p).bg, GroupOf(p).time>>[1] = b
      BY <2>2
    <3> QED  BY <1>3, <2>2, <3>1
  <2> QED  BY <2>1, <2>2
<1> QED  BY <1>1, <1>2, <1>3, <1>4, <1>5

\* r is q without player p: m is where a party of r stands in q.
SamePlaces(q, p, r, m) ==
    LET t == TeamOf[p]
    IN /\ r \in [Team -> Seq(Group)]
       /\ \A u \in Team : u # t => r[u] = q[u]
       /\ m \in [DOMAIN r[t] -> DOMAIN q[t]]
       /\ \A i, j \in DOMAIN r[t] : i # j => m[i] # m[j]
       /\ \A j \in DOMAIN r[t] : /\ r[t][j].players = q[t][m[j]].players \ {p}
                                 /\ r[t][j].bg = q[t][m[j]].bg
                                 /\ r[t][j].time = q[t][m[j]].time
       /\ \A k \in DOMAIN q[t] : q[t][k].players # {p} => \E j \in DOMAIN r[t] : m[j] = k

\* A player taken out of the queue leaves it well formed.
LEMMA QueueWithout ==
  ASSUME NEW q, QueueOK(q), NEW p \in Player, NEW r, NEW m, SamePlaces(q, p, r, m)
  PROVE  /\ QueueOK(r)
         /\ Seats(r, p) = {}
         /\ \A x \in Player : x # p => Seats(r, x) = Seats(q, x)
<1> USE DEF SamePlaces
<1> DEFINE t == TeamOf[p]
<1>1. t \in Team
  BY OnePlace
<1>2. QueueOK(r)
  <2>1. ASSUME NEW u \in Team, NEW i \in DOMAIN r[u], NEW x \in r[u][i].players
        PROVE  TeamOf[x] = u
    <3>1. CASE u = t
      <4>1. x \in q[t][m[i]].players /\ m[i] \in DOMAIN q[t]
        BY <2>1, <3>1
      <4> QED  BY <1>1, <3>1, <4>1 DEF QueueOK
    <3>2. CASE u # t
      <4>1. r[u] = q[u]
        BY <3>2
      <4> QED  BY <2>1, <4>1 DEF QueueOK
    <3> QED  BY <3>1, <3>2
  <2>2. ASSUME NEW u \in Team, NEW i \in DOMAIN r[u], NEW j \in DOMAIN r[u], i # j
        PROVE  r[u][i].players \cap r[u][j].players = {}
    <3>1. CASE u = t
      <4>1. m[i] \in DOMAIN q[t] /\ m[j] \in DOMAIN q[t] /\ m[i] # m[j]
        BY <2>2, <3>1
      <4>2. q[t][m[i]].players \cap q[t][m[j]].players = {}
        BY <1>1, <4>1 DEF QueueOK
      <4>3. r[t][i].players = q[t][m[i]].players \ {p}
            /\ r[t][j].players = q[t][m[j]].players \ {p}
        BY <2>2, <3>1
      <4> QED  BY <3>1, <4>2, <4>3
    <3>2. CASE u # t
      <4>1. r[u] = q[u]
        BY <3>2
      <4> QED  BY <2>2, <4>1 DEF QueueOK
    <3> QED  BY <3>1, <3>2
  <2> QED  BY <2>1, <2>2 DEF QueueOK
<1>3. Seats(r, p) = {}
  <2>1. GroupsWith(r, p) = {}
    BY GroupsByPlace
  <2> QED  BY <2>1 DEF Seats
<1>4. ASSUME NEW x \in Player, x # p
      PROVE  Seats(r, x) = Seats(q, x)
  <2>1. CASE TeamOf[x] # t
    <3>1. r[TeamOf[x]] = q[TeamOf[x]]
      BY <2>1, OnePlace
    <3> QED  BY <3>1 DEF Seats, GroupsWith
  <2>2. CASE TeamOf[x] = t
    <3>1. ASSUME NEW g \in GroupsWith(r, x)
          PROVE  <<g.bg, g.time>> \in Seats(q, x)
      <4>1. PICK j \in DOMAIN r[t] : g = r[t][j] /\ x \in g.players
        BY <2>2, <3>1, GroupsByPlace
      <4>2. m[j] \in DOMAIN q[t] /\ x \in q[t][m[j]].players
        BY <4>1
      <4>3. q[t][m[j]] \in GroupsWith(q, x)
        BY <2>2, <4>2, GroupsByPlace
      <4>4. g.bg = q[t][m[j]].bg /\ g.time = q[t][m[j]].time
        BY <4>1
      <4> QED  BY <4>3, <4>4 DEF Seats
    <3>2. ASSUME NEW g \in GroupsWith(q, x)
          PROVE  <<g.bg, g.time>> \in Seats(r, x)
      <4>1. PICK k \in DOMAIN q[t] : g = q[t][k] /\ x \in g.players
        BY <2>2, <3>2, GroupsByPlace
      <4>2. PICK j \in DOMAIN r[t] : m[j] = k
        BY <1>4, <4>1
      <4>3. x \in r[t][j].players
        BY <1>4, <4>1, <4>2
      <4>4. r[t][j] \in GroupsWith(r, x)
        BY <2>2, <4>3, GroupsByPlace
      <4>5. g.bg = r[t][j].bg /\ g.time = r[t][j].time
        BY <4>1, <4>2
      <4> QED  BY <4>4, <4>5 DEF Seats
    <3>3. Seats(r, x) \subseteq Seats(q, x)
      <4> SUFFICES ASSUME NEW s \in Seats(r, x)  PROVE  s \in Seats(q, x)
        OBVIOUS
      <4>1. PICK g \in GroupsWith(r, x) : s = <<g.bg, g.time>>
        BY DEF Seats
      <4> QED  BY <3>1, <4>1
    <3>4. Seats(q, x) \subseteq Seats(r, x)
      <4> SUFFICES ASSUME NEW s \in Seats(q, x)  PROVE  s \in Seats(r, x)
        OBVIOUS
      <4>1. PICK g \in GroupsWith(q, x) : s = <<g.bg, g.time>>
        BY DEF Seats
      <4> QED  BY <3>2, <4>1
    <3> QED  BY <3>3, <3>4
  <2> QED  BY <2>1, <2>2
<1> QED  BY <1>2, <1>3, <1>4

\* The two parts of RemovePlayer.
LeftQueue(q, p) ==
    LET t == TeamOf[p]
        i == PlaceOf(q, p)
    IN IF GroupsWith(q, p) = {} THEN q
       ELSE [q EXCEPT ![t] = IF q[t][i].players = {p} THEN RemoveAt(q[t], i)
                             ELSE [q[t] EXCEPT ![i] = Without(q[t][i], p)]]

LeftCounters(q, inv, p, decreaseInvitedCount) ==
    LET t == TeamOf[p]
        b == q[t][PlaceOf(q, p)].bg
    IN IF GroupsWith(q, p) # {} /\ decreaseInvitedCount /\ Exists(b)
       THEN Decreased(inv, b, t) ELSE inv

\* Where a player of the queue stands, his party and the invitation of the party.
LEMMA PlaceOfSeat ==
  ASSUME NEW q, QueueOK(q), NEW p \in Player, GroupsWith(q, p) # {}
  PROVE  /\ TeamOf[p] \in Team
         /\ PlaceOf(q, p) \in DOMAIN q[TeamOf[p]]
         /\ q[TeamOf[p]][PlaceOf(q, p)] \in Group
         /\ p \in q[TeamOf[p]][PlaceOf(q, p)].players
         /\ Seats(q, p) = {<<q[TeamOf[p]][PlaceOf(q, p)].bg, q[TeamOf[p]][PlaceOf(q, p)].time>>}
<1> DEFINE t == TeamOf[p]
           i == PlaceOf(q, p)
<1>1. t \in Team
  BY OnePlace
<1>2. \E j \in DOMAIN q[t] : p \in q[t][j].players
  BY GroupsByPlace
<1>3. i \in DOMAIN q[t] /\ p \in q[t][i].players
  BY <1>2 DEF PlaceOf
<1>4. q[t][i] \in Group
  BY <1>1, <1>3 DEF QueueOK
<1>5. q[t][i] \in GroupsWith(q, p)
  BY <1>3, GroupsByPlace
<1>6. <<q[t][i].bg, q[t][i].time>> \in Seats(q, p)
  BY <1>5 DEF Seats
<1>7. Seats(q, p) = {<<q[t][i].bg, q[t][i].time>>}
  BY <1>6, OnePlace
<1> QED  BY <1>1, <1>3, <1>4, <1>7

\* Who leaves the queue is out of it; nobody else's party or invitation changes.
LEMMA LeftQueueOK ==
  ASSUME NEW q, QueueOK(q), NEW p \in Player
  PROVE  /\ QueueOK(LeftQueue(q, p))
         /\ Seats(LeftQueue(q, p), p) = {}
         /\ \A x \in Player : x # p => Seats(LeftQueue(q, p), x) = Seats(q, x)
<1> DEFINE t == TeamOf[p]
           i == PlaceOf(q, p)
           g == q[t][i]
           r == LeftQueue(q, p)
<1>1. CASE GroupsWith(q, p) = {}
  <2>1. r = q
    BY <1>1 DEF LeftQueue
  <2>2. Seats(q, p) = {}
    BY <1>1 DEF Seats
  <2> QED  BY <2>1, <2>2
<1>2. CASE GroupsWith(q, p) # {}
  <2>1. t \in Team /\ i \in DOMAIN q[t] /\ g \in Group /\ p \in g.players
    BY <1>2, PlaceOfSeat
  <2>2. q \in [Team -> Seq(Group)] /\ q[t] \in Seq(Group)
    BY <2>1 DEF QueueOK
  <2>3. \A j \in DOMAIN q[t] : j # i => p \notin q[t][j].players
    BY <2>1, OnePlace
  <2>4. CASE g.players = {p}
    <3> DEFINE m == [j \in DOMAIN r[t] |-> IF j < i THEN j ELSE j + 1]
               z == RemoveAt(q[t], i)
    <3>1. r = [q EXCEPT ![t] = z]
      BY <1>2, <2>4 DEF LeftQueue
    <3>2. z \in Seq(Group) /\ Len(z) = Len(q[t]) - 1
          /\ \A j \in 1 .. Len(q[t]) - 1 : z[j] = q[t][IF j < i THEN j ELSE j + 1]
      BY <2>1, <2>2, RemoveAtProps
    <3> HIDE DEF z
    <3>3. r[t] = z /\ r \in [Team -> Seq(Group)] /\ \A u \in Team : u # t => r[u] = q[u]
      BY <2>1, <2>2, <3>1, <3>2
    <3> HIDE DEF r
    <3>4. DOMAIN r[t] = 1 .. Len(q[t]) - 1 /\ i \in 1 .. Len(q[t]) /\ Len(q[t]) \in Nat
          /\ DOMAIN q[t] = 1 .. Len(q[t])
      BY <2>1, <2>2, <3>2, <3>3
    <3>5. ASSUME NEW j \in DOMAIN r[t]
          PROVE  /\ m[j] \in DOMAIN q[t] /\ m[j] # i
                 /\ r[t][j] = q[t][m[j]]
                 /\ r[t][j].players = q[t][m[j]].players \ {p}
      <4>1. m[j] \in DOMAIN q[t] /\ m[j] # i
        BY <3>4, <3>5
      <4>2. r[t][j] = q[t][m[j]]
        BY <3>2, <3>3, <3>4, <3>5
      <4>3. p \notin q[t][m[j]].players
        BY <2>3, <4>1
      <4> QED  BY <4>1, <4>2, <4>3
    <3>6. \A j, k \in DOMAIN r[t] : j # k => m[j] # m[k]
      BY <3>4
    <3>7. ASSUME NEW k \in DOMAIN q[t], q[t][k].players # {p}
          PROVE  \E j \in DOMAIN r[t] : m[j] = k
      <4>1. k # i
        BY <2>4, <3>7
      <4>2. CASE k < i
        <5>1. k \in DOMAIN r[t] /\ m[k] = k
          BY <3>4, <4>2
        <5> QED  BY <5>1
      <4>3. CASE i < k
        <5>1. k - 1 \in DOMAIN r[t] /\ m[k - 1] = k
          BY <3>4, <4>3
        <5> QED  BY <5>1
      <4> QED  BY <3>4, <4>1, <4>2, <4>3
    <3>8. m \in [DOMAIN r[t] -> DOMAIN q[t]]
      BY <3>5
    <3> HIDE DEF m
    <3>9. SamePlaces(q, p, r, m)
      BY <3>3, <3>5, <3>6, <3>7, <3>8 DEF SamePlaces
    <3> QED  BY <3>9, QueueWithout DEF r
  <2>5. CASE g.players # {p}
    <3> DEFINE m == [j \in DOMAIN r[t] |-> j]
               h == Without(g, p)
    <3>1. r = [q EXCEPT ![t] = [q[t] EXCEPT ![i] = h]]
      BY <1>2, <2>5 DEF LeftQueue
    <3>2. h \in Group /\ h.players = g.players \ {p} /\ h.bg = g.bg /\ h.time = g.time
      BY <2>1, <2>5 DEF Group, Without
    <3> HIDE DEF h
    <3>3. [q[t] EXCEPT ![i] = h] \in Seq(Group)
          /\ DOMAIN [q[t] EXCEPT ![i] = h] = DOMAIN q[t]
      BY <2>1, <2>2, <3>2
    <3>4. r[t] = [q[t] EXCEPT ![i] = h] /\ r \in [Team -> Seq(Group)]
          /\ \A u \in Team : u # t => r[u] = q[u]
      BY <2>1, <2>2, <3>1, <3>3
    <3> HIDE DEF r
    <3>5. DOMAIN r[t] = DOMAIN q[t]
      BY <3>3, <3>4
    <3>6. r[t][i] = h /\ \A j \in DOMAIN q[t] : j # i => r[t][j] = q[t][j]
      BY <2>1, <2>2, <3>4
    <3>7. ASSUME NEW j \in DOMAIN r[t]
          PROVE  /\ r[t][j].players = q[t][m[j]].players \ {p}
                 /\ r[t][j].bg = q[t][m[j]].bg /\ r[t][j].time = q[t][m[j]].time
      <4>1. CASE j = i
        BY <3>2, <3>5, <3>6, <4>1
      <4>2. CASE j # i
        BY <2>3, <3>5, <3>6, <4>2
      <4> QED  BY <4>1, <4>2
    <3>8. m \in [DOMAIN r[t] -> DOMAIN q[t]] /\ (\A j, k \in DOMAIN r[t] : j # k => m[j] # m[k])
          /\ \A k \in DOMAIN q[t] : \E j \in DOMAIN r[t] : m[j] = k
      BY <3>5
    <3> HIDE DEF m
    <3>9. SamePlaces(q, p, r, m)
      BY <3>4, <3>7, <3>8 DEF SamePlaces
    <3> QED  BY <3>9, QueueWithout DEF r
  <2> QED  BY <2>4, <2>5
<1> QED  BY <1>1, <1>2

-----------------------------------------------------------------------------
(***************************************************************************)
(* The counters                                                            *)
(***************************************************************************)
Counters == [Bg -> [Team -> 0 .. CounterSpace - 1]]
Status == {"none", "join", "progress", "leave", "gone"}

\* The constants in the form the provers use.
LEMMA Sizes ==
  /\ MinPlayers \in Nat /\ MaxPlayers \in Nat /\ MaxPlayers > 0 /\ InviteTime \in Nat
  /\ MaxBgs \in Nat /\ MaxTime \in Nat /\ MaxJoins \in Nat /\ InvitationType \in Nat
  /\ CounterSpace \in Nat /\ CounterSpace > 2 * MaxPlayers /\ CounterSpace > 1
  /\ \A b \in Bg : b # NoBg /\ b # NotQueued /\ b \in Nat
BY BattleGroundQueueAssumption DEF Bg, NoBg, NotQueued

\* One counter is decreased, modulo its width.
LEMMA DecreasedOK ==
  ASSUME NEW inv \in Counters, NEW b \in Bg, NEW t \in Team
  PROVE  /\ Decreased(inv, b, t) \in Counters
         /\ inv[b][t] > 0 => Decreased(inv, b, t)[b][t] = inv[b][t] - 1
         /\ \A c \in Bg, u \in Team : c # b \/ u # t => Decreased(inv, b, t)[c][u] = inv[c][u]
<1> DEFINE n == (inv[b][t] + CounterSpace - 1) % CounterSpace
<1>1. inv[b][t] \in 0 .. CounterSpace - 1 /\ inv[b] \in [Team -> 0 .. CounterSpace - 1]
  BY DEF Counters
<1>2. n \in 0 .. CounterSpace - 1
  BY <1>1, Sizes
<1>3. inv[b][t] > 0 => n = inv[b][t] - 1
  BY <1>1, Sizes
<1>4. Decreased(inv, b, t) = [inv EXCEPT ![b][t] = n]
  BY DEF Decreased
<1> HIDE DEF n
<1>5. [inv EXCEPT ![b][t] = n] = [inv EXCEPT ![b] = [inv[b] EXCEPT ![t] = n]]
  BY DEF Counters
<1>6. [inv[b] EXCEPT ![t] = n] \in [Team -> 0 .. CounterSpace - 1]
  BY <1>1, <1>2
<1>7. [inv EXCEPT ![b] = [inv[b] EXCEPT ![t] = n]] \in Counters
  BY <1>6 DEF Counters
<1>8. [inv EXCEPT ![b] = [inv[b] EXCEPT ![t] = n]][b][t] = n
  BY <1>1 DEF Counters
<1>9. \A c \in Bg, u \in Team : c # b \/ u # t =>
          [inv EXCEPT ![b] = [inv[b] EXCEPT ![t] = n]][c][u] = inv[c][u]
  BY <1>1 DEF Counters
<1> QED  BY <1>3, <1>4, <1>5, <1>7, <1>8, <1>9

\* The invited players of a team can be counted.
LEMMA HoldersFinite ==
  ASSUME NEW q, NEW b, NEW t
  PROVE  IsFiniteSet(HoldersIn(q, b, t)) /\ Cardinality(HoldersIn(q, b, t)) \in Nat
<1>1. IsFiniteSet(Player) /\ HoldersIn(q, b, t) \in SUBSET Player
  BY BattleGroundQueueAssumption DEF HoldersIn
<1>2. IsFiniteSet(HoldersIn(q, b, t))
  BY <1>1, FS_Subset
<1> QED  BY <1>2, FS_CardinalityType

\* A place is given back: the party's battleground has one holder less, and its
\* counter says so.
LEMMA LeftCountersOK ==
  ASSUME NEW q, QueueOK(q), NEW inv \in Counters, NEW ms, NEW p \in Player,
         status \in [Bg -> Status], Outside(q), CountedIn(q, inv, status, ms)
  PROVE  /\ LeftCounters(q, inv, p, TRUE) \in Counters
         /\ CountedIn(LeftQueue(q, p), LeftCounters(q, inv, p, TRUE), status, ms)
         /\ \A b \in Bg : status[b] = "none" => LeftCounters(q, inv, p, TRUE)[b] = inv[b]
<1> DEFINE r == LeftQueue(q, p)
           new == LeftCounters(q, inv, p, TRUE)
           t == TeamOf[p]
           c == q[t][PlaceOf(q, p)].bg
<1>0. \A x \in Player : Seats(r, x) = IF x = p THEN {} ELSE Seats(q, x)
  BY LeftQueueOK
<1> HIDE DEF r
<1>1. CASE GroupsWith(q, p) = {}
  <2>1. new = inv
    BY <1>1 DEF LeftCounters
  <2>2. Seats(q, p) = {}
    BY <1>1, OnePlace
  <2>3. \A x \in Player : Seats(r, x) = Seats(q, x)
    BY <1>0, <2>2
  <2>4. \A b, u : HoldersIn(r, b, u) = HoldersIn(q, b, u)
    BY <2>3 DEF HoldersIn
  <2> QED  BY <2>1, <2>4 DEF r, CountedIn
<1>2. CASE GroupsWith(q, p) # {}
  <2>1. t \in Team /\ Seats(q, p) = {<<c, q[t][PlaceOf(q, p)].time>>}
    BY <1>2, PlaceOfSeat
  <2>2. c \in Bg \cup {NoBg}
    BY <1>2, PlaceOfSeat DEF Group
  <2> HIDE DEF c
  <2>3. target[p] = NoBg
    BY <2>1 DEF Outside
  <2>4. ASSUME NEW b \in Bg, NEW u \in Team, b # c \/ u # t
        PROVE  HoldersIn(r, b, u) = HoldersIn(q, b, u)
    <3>1. \A x \in Player : x # p => Seats(r, x) = Seats(q, x)
      BY <1>0
    <3>2. Seats(r, p) = {}
      BY <1>0
    <3>3. p \notin HoldersIn(q, b, u)
      BY <2>1, <2>3, <2>4, Sizes DEF HoldersIn
    <3>4. p \notin HoldersIn(r, b, u)
      BY <2>3, <3>2, Sizes DEF HoldersIn
    <3> QED  BY <3>1, <3>3, <3>4 DEF HoldersIn
  <2>5. CASE ~Exists(c)
    <3>1. new = inv
      BY <2>5 DEF LeftCounters, c
    <3>2. \A b \in Bg : status[b] \in {"join", "progress", "leave"} => b # c
      BY <2>5, Sizes DEF Exists
    <3> HIDE DEF new
    <3> QED  BY <2>4, <3>1, <3>2 DEF r, new, CountedIn
  <2>6. CASE Exists(c)
    <3>0. c \in Bg /\ status[c] \in {"join", "progress", "leave"}
      BY <2>2, <2>6 DEF Exists
    <3>1. new = Decreased(inv, c, t)
      BY <1>2, <2>6 DEF LeftCounters, c
    <3> HIDE DEF new
    <3>2. new \in Counters /\ (inv[c][t] > 0 => new[c][t] = inv[c][t] - 1)
          /\ \A b \in Bg, u \in Team : b # c \/ u # t => new[b][u] = inv[b][u]
      BY <2>1, <3>0, <3>1, DecreasedOK
    <3>3. HoldersIn(r, c, t) = HoldersIn(q, c, t) \ {p} /\ p \in HoldersIn(q, c, t)
      <4>1. \A x \in Player : x # p => Seats(r, x) = Seats(q, x)
        BY <1>0
      <4>2. Seats(r, p) = {}
        BY <1>0
      <4>3. p \in HoldersIn(q, c, t)
        <5>1. <<c, q[t][PlaceOf(q, p)].time>> \in Seats(q, p)
          BY <2>1
        <5>2. <<c, q[t][PlaceOf(q, p)].time>>[1] = c
          OBVIOUS
        <5>3. \E s \in Seats(q, p) : s[1] = c
          BY <5>1, <5>2
        <5> QED  BY <5>3 DEF HoldersIn
      <4>4. p \notin HoldersIn(r, c, t)
        BY <2>3, <3>0, <4>2, Sizes DEF HoldersIn
      <4>5. \A x \in Player : x # p => (x \in HoldersIn(r, c, t) <=> x \in HoldersIn(q, c, t))
        BY <4>1 DEF HoldersIn
      <4>6. HoldersIn(r, c, t) \subseteq Player /\ HoldersIn(q, c, t) \subseteq Player
        BY DEF HoldersIn
      <4> QED  BY <4>3, <4>4, <4>5, <4>6
    <3>4. Cardinality(HoldersIn(r, c, t)) = Cardinality(HoldersIn(q, c, t)) - 1
          /\ Cardinality(HoldersIn(q, c, t)) > 0 /\ Cardinality(HoldersIn(q, c, t)) \in Nat
      <4> DEFINE Y == HoldersIn(q, c, t)
      <4>1. IsFiniteSet(Y) /\ Y \in SUBSET Y /\ p \in Y
        BY <3>3, HoldersFinite
      <4> HIDE DEF Y
      <4>2. Cardinality(Y) \in Nat /\ Cardinality(Y) > 0 /\ Cardinality(Y \ {p}) = Cardinality(Y) - 1
        BY <4>1, SmallerSet
      <4>3. HoldersIn(r, c, t) = Y \ {p}
        BY <3>3 DEF Y
      <4> QED  BY <4>2, <4>3 DEF Y
    <3>5. ASSUME NEW b \in Bg, status[b] \in {"join", "progress", "leave"}, b \notin ms,
                 NEW u \in Team
          PROVE  new[b][u] = Cardinality(HoldersIn(r, b, u)) /\ new[b][u] <= MaxPlayers
      <4>1. inv[b][u] = Cardinality(HoldersIn(q, b, u)) /\ inv[b][u] <= MaxPlayers
        BY <3>5 DEF CountedIn
      <4>2. CASE b # c \/ u # t
        <5>1. HoldersIn(r, b, u) = HoldersIn(q, b, u)
          BY <2>4, <4>2
        <5>2. new[b][u] = inv[b][u]
          BY <3>2, <4>2
        <5> QED  BY <4>1, <5>1, <5>2
      <4>3. CASE b = c /\ u = t
        <5>1. inv[c][t] = Cardinality(HoldersIn(q, c, t)) /\ inv[c][t] <= MaxPlayers
          BY <4>1, <4>3
        <5>2. inv[c][t] > 0 /\ new[c][t] = inv[c][t] - 1
          BY <3>2, <3>4, <5>1
        <5>3. new[c][t] = Cardinality(HoldersIn(r, c, t)) /\ new[c][t] <= MaxPlayers
          BY <3>4, <5>1, <5>2, Sizes
        <5> QED  BY <4>3, <5>3
      <4> QED  BY <4>2, <4>3
    <3>6. ASSUME NEW b \in Bg, status[b] = "none"  PROVE  new[b] = inv[b]
      <4>1. b # c
        BY <3>0, <3>6
      <4>2. new[b] \in [Team -> 0 .. CounterSpace - 1] /\ inv[b] \in [Team -> 0 .. CounterSpace - 1]
        BY <3>2 DEF Counters
      <4>3. \A u \in Team : new[b][u] = inv[b][u]
        BY <3>2, <4>1
      <4> QED  BY <4>2, <4>3
    <3> QED  BY <3>2, <3>5, <3>6 DEF r, new, CountedIn
  <2> QED  BY <2>5, <2>6
<1> QED  BY <1>1, <1>2

-----------------------------------------------------------------------------
(***************************************************************************)
(* The pools                                                               *)
(***************************************************************************)

\* A player of a party of the pool, once for every time the party is there.
Pairs(pool) == UNION {{i} \X pool[i].players : i \in DOMAIN pool}

\* Parties of H that nobody has invited, with no more than n players.
Uninvited(H) == {g \in H : g.bg = NoBg}
Pools(H, n) == {pool \in Seq(Uninvited(H)) : PlayerCount(pool) <= n}

\* The players of a group can be counted.
LEMMA PlayersFinite ==
  ASSUME NEW g \in Group
  PROVE  g.players \subseteq Player /\ IsFiniteSet(g.players) /\ Cardinality(g.players) \in Nat
<1>1. IsFiniteSet(Player) /\ g.players \in SUBSET Player
  BY BattleGroundQueueAssumption DEF Group
<1>2. IsFiniteSet(g.players)
  BY <1>1, FS_Subset
<1> QED  BY <1>1, <1>2, FS_CardinalityType

\* The players of a selection pool can be counted, place by place.
LEMMA PairsFinite ==
  ASSUME NEW pool \in Seq(Group)
  PROVE  /\ IsFiniteSet(Pairs(pool))
         /\ PlayerCount(pool) = Cardinality(Pairs(pool))
         /\ PlayerCount(pool) \in Nat
         /\ \A x : x \in Pairs(pool) <=>
               \E i \in DOMAIN pool, p \in Player : p \in pool[i].players /\ x = <<i, p>>
<1>1. ASSUME NEW x
      PROVE  x \in Pairs(pool) <=>
               \E i \in DOMAIN pool, p \in Player : p \in pool[i].players /\ x = <<i, p>>
  <2>1. \A i \in DOMAIN pool : pool[i] \in Group
    OBVIOUS
  <2>2. \A i \in DOMAIN pool : pool[i].players \subseteq Player
    BY <2>1, PlayersFinite
  <2> QED  BY <2>2 DEF Pairs
<1>2. IsFiniteSet(DOMAIN pool) /\ IsFiniteSet(Player)
  <2>1. IsFiniteSet(1 .. Len(pool))
    BY FS_Interval
  <2> QED  BY <2>1, BattleGroundQueueAssumption
<1>3. IsFiniteSet((DOMAIN pool) \X Player)
  BY <1>2, FS_Product
<1>4. Pairs(pool) \in SUBSET ((DOMAIN pool) \X Player)
  BY <1>1
<1>5. IsFiniteSet(Pairs(pool))
  BY <1>3, <1>4, FS_Subset
<1>6. PlayerCount(pool) = Cardinality(Pairs(pool))
  BY DEF PlayerCount, Pairs
<1> QED  BY <1>1, <1>5, <1>6, FS_CardinalityType

\* A pool that is reset holds nobody.
LEMMA EmptyCount == PlayerCount(<<>>) = 0
<1>1. Pairs(<<>>) = {}
  BY DEF Pairs
<1>2. PlayerCount(<<>>) = Cardinality(Pairs(<<>>))
  BY DEF PlayerCount, Pairs
<1> QED  BY <1>1, <1>2, FS_EmptySet

\* SelectionPool::AddGroup adds at most the players of the group.
LEMMA AppendCount ==
  ASSUME NEW pool \in Seq(Group), NEW g \in Group
  PROVE  PlayerCount(Append(pool, g)) <= PlayerCount(pool) + Cardinality(g.players)
<1> DEFINE n == Len(pool) + 1
           new == {n} \X g.players
           all == Append(pool, g)
<1>1. all \in Seq(Group) /\ DOMAIN all = 1 .. n /\ all[n] = g
      /\ \A i \in DOMAIN pool : i \in DOMAIN all /\ all[i] = pool[i]
  OBVIOUS
<1>2. DOMAIN all = (DOMAIN pool) \cup {n}
  BY <1>1
<1> HIDE DEF all
<1>3. Pairs(all) = Pairs(pool) \cup new
  BY <1>1, <1>2 DEF Pairs
<1>4. IsFiniteSet({n}) /\ Cardinality({n}) = 1
  BY FS_Singleton
<1>5. IsFiniteSet(new) /\ Cardinality(new) = Cardinality({n}) * Cardinality(g.players)
  BY <1>4, PlayersFinite, FS_Product
<1>6. Cardinality(g.players) \in Nat
  BY PlayersFinite
<1>7. Cardinality(new) = Cardinality(g.players)
  BY <1>4, <1>5, <1>6
<1>8. IsFiniteSet(Pairs(pool)) /\ Cardinality(Pairs(pool)) \in Nat
      /\ PlayerCount(pool) = Cardinality(Pairs(pool)) /\ PlayerCount(all) = Cardinality(Pairs(all))
  BY <1>1, PairsFinite
<1> HIDE DEF new
<1>9. Cardinality(Pairs(pool) \cup new)
        = Cardinality(Pairs(pool)) + Cardinality(new) - Cardinality(Pairs(pool) \cap new)
  BY <1>5, <1>8, FS_Union
<1>10. Cardinality(Pairs(pool) \cap new) \in Nat
  <2>1. IsFiniteSet(Pairs(pool) \cap new)
    BY <1>8, FS_Intersection
  <2> QED  BY <2>1, FS_CardinalityType
<1>11. Cardinality(Pairs(all)) <= Cardinality(Pairs(pool)) + Cardinality(g.players)
  BY <1>3, <1>6, <1>7, <1>8, <1>9, <1>10
<1> QED  BY <1>8, <1>11 DEF all

\* Kicking a party does not make a pool larger.
LEMMA RemoveCount ==
  ASSUME NEW pool \in Seq(Group), NEW k \in DOMAIN pool
  PROVE  PlayerCount(RemoveAt(pool, k)) <= PlayerCount(pool)
<1> DEFINE less == RemoveAt(pool, k)
           to(i) == IF i < k THEN i ELSE i + 1
           f == [x \in Pairs(less) |-> <<to(x[1]), x[2]>>]
<1>1. less \in Seq(Group) /\ Len(less) = Len(pool) - 1
      /\ \A j \in 1 .. Len(pool) - 1 : less[j] = pool[to(j)]
  BY RemoveAtProps
<1> HIDE DEF less
<1>2. DOMAIN less = 1 .. Len(pool) - 1 /\ k \in 1 .. Len(pool) /\ DOMAIN pool = 1 .. Len(pool)
      /\ Len(pool) \in Nat
  BY <1>1
<1>3. ASSUME NEW x \in Pairs(less)
      PROVE  /\ <<to(x[1]), x[2]>> \in Pairs(pool)
             /\ x = <<x[1], x[2]>> /\ x[1] \in DOMAIN less
  <2>1. PICK i \in DOMAIN less, p \in Player : p \in less[i].players /\ x = <<i, p>>
    BY <1>1, <1>3, PairsFinite
  <2>2. less[i] = pool[to(i)] /\ to(i) \in DOMAIN pool
    BY <1>1, <1>2, <2>1
  <2>3. <<to(i), p>> \in Pairs(pool)
    <3> HIDE DEF to
    <3> QED  BY <2>1, <2>2, PairsFinite
  <2> QED  BY <2>1, <2>3
<1>4. \A i, j \in DOMAIN less : to(i) = to(j) => i = j
  BY <1>2
<1> HIDE DEF to
<1>5. f \in [Pairs(less) -> Pairs(pool)]
  BY <1>3
<1>6. ASSUME NEW x \in Pairs(less), NEW y \in Pairs(less), f[x] = f[y]
      PROVE  x = y
  <2>1. to(x[1]) = to(y[1]) /\ x[2] = y[2]
    BY <1>6
  <2>2. x[1] = y[1]
    BY <1>3, <1>4, <2>1
  <2> QED  BY <1>3, <2>1, <2>2
<1> HIDE DEF f
<1>7. f \in Injection(Pairs(less), Pairs(pool))
  BY <1>5, <1>6 DEF Injection, IsInjective
<1>8. IsFiniteSet(Pairs(pool)) /\ PlayerCount(pool) = Cardinality(Pairs(pool))
      /\ PlayerCount(less) = Cardinality(Pairs(less))
  BY <1>1, PairsFinite
<1>9. Cardinality(Pairs(less)) <= Cardinality(Pairs(pool))
  BY <1>7, <1>8, FS_Injection
<1> QED  BY <1>8, <1>9 DEF less

\* The players of the parties of a pool are no more than the pool counts.
LEMMA CalledCount ==
  ASSUME NEW pool \in Seq(Group)
  PROVE  LET called == UNION {g.players : g \in ToSet(pool)}
         IN IsFiniteSet(called) /\ called \subseteq Player /\ Cardinality(called) <= PlayerCount(pool)
<1> DEFINE called == UNION {g.players : g \in ToSet(pool)}
           f == [x \in Pairs(pool) |-> x[2]]
<1>1. \A p : p \in called <=> \E i \in DOMAIN pool : p \in pool[i].players
  BY DEF ToSet
<1>2. called \subseteq Player
  <2>1. \A i \in DOMAIN pool : pool[i] \in Group
    OBVIOUS
  <2>2. \A i \in DOMAIN pool : pool[i].players \subseteq Player
    BY <2>1, PlayersFinite
  <2> HIDE DEF called
  <2> QED  BY <1>1, <2>2
<1> HIDE DEF called
<1>3. ASSUME NEW x \in Pairs(pool)  PROVE  x[2] \in called
  <2>1. PICK i \in DOMAIN pool, p \in Player : p \in pool[i].players /\ x = <<i, p>>
    BY <1>3, PairsFinite
  <2> QED  BY <1>1, <2>1
<1>4. ASSUME NEW p \in called  PROVE  \E x \in Pairs(pool) : f[x] = p
  <2>1. PICK i \in DOMAIN pool : p \in pool[i].players
    BY <1>1, <1>4
  <2>2. <<i, p>> \in Pairs(pool)
    BY <1>2, <2>1, PairsFinite
  <2>3. f[<<i, p>>] = p
    BY <2>2
  <2> QED  BY <2>2, <2>3
<1>5. f \in [Pairs(pool) -> called]
  BY <1>3
<1> HIDE DEF f
<1>6. f \in Surjection(Pairs(pool), called)
  BY <1>4, <1>5 DEF Surjection
<1>7. IsFiniteSet(Pairs(pool)) /\ PlayerCount(pool) = Cardinality(Pairs(pool))
  BY PairsFinite
<1>8. IsFiniteSet(called) /\ Cardinality(called) <= Cardinality(Pairs(pool))
  BY <1>6, <1>7, FS_Surjection
<1> QED  BY <1>2, <1>7, <1>8 DEF called

\* AddGroup adds a party of the queue that nobody has invited, within the size wanted.
LEMMA AddGroupOK ==
  ASSUME NEW H \in SUBSET Group, NEW n \in Nat, NEW desired \in Int, desired <= n,
         NEW pool \in Pools(H, n), NEW g \in H
  PROVE  AddGroup(pool, g, desired) \in Pools(H, n)
<1>1. pool \in Seq(Group) /\ pool \in Seq(Uninvited(H)) /\ g \in Group
  BY DEF Pools, Uninvited
<1>2. CASE Selectable(g) /\ PlayerCount(pool) + Cardinality(g.players) <= desired
  <2>1. AddGroup(pool, g, desired) = Append(pool, g)
    BY <1>2 DEF AddGroup
  <2>2. g \in Uninvited(H)
    BY <1>2 DEF Selectable, Uninvited
  <2>3. Append(pool, g) \in Seq(Uninvited(H)) /\ Append(pool, g) \in Seq(Group)
    BY <1>1, <2>2
  <2>4. PlayerCount(Append(pool, g)) <= PlayerCount(pool) + Cardinality(g.players)
    BY <1>1, AppendCount
  <2>5. PlayerCount(Append(pool, g)) \in Nat /\ PlayerCount(pool) \in Nat
    BY <1>1, <2>3, PairsFinite
  <2>6. Cardinality(g.players) \in Nat
    BY <1>1, PlayersFinite
  <2>7. PlayerCount(Append(pool, g)) <= n
    BY <1>2, <2>4, <2>5, <2>6
  <2> QED  BY <2>1, <2>3, <2>7 DEF Pools
<1>3. CASE ~(Selectable(g) /\ PlayerCount(pool) + Cardinality(g.players) <= desired)
  <2>1. AddGroup(pool, g, desired) = pool
    BY <1>3 DEF AddGroup
  <2> QED  BY <2>1
<1> QED  BY <1>2, <1>3

\* What a sequence needs to be folded over.
LEMMA SeqFolds ==
  ASSUME NEW G, NEW q \in Seq(G)
  PROVE  /\ IsFiniteSet(DOMAIN q)
         /\ \A s \in SUBSET DOMAIN q : s # {} => Max(s) \in s
<1>1. DOMAIN q = 1 .. Len(q) /\ Len(q) \in Nat
  OBVIOUS
<1>2. IsFiniteSet(1 .. Len(q))
  BY <1>1, FS_Interval
<1>3. ASSUME NEW s \in SUBSET DOMAIN q, s # {}  PROVE  Max(s) \in s
  <2>1. s \in SUBSET (0 .. Len(q))
    BY <1>1
  <2> QED  BY <1>1, <1>3, <2>1, MaxIn
<1> QED  BY <1>1, <1>2, <1>3

Filled(H, n) == [pool : Pools(H, n), rest : Seq(H)]

\* AddGroup never lets the pool grow past the free slots.
LEMMA FillStepOK ==
  ASSUME NEW H \in SUBSET Group, NEW n \in Nat, NEW desired \in Int, desired <= n,
         NEW a \in Filled(H, n), NEW g \in H
  PROVE  FillStep(a, g, desired) \in Filled(H, n)
<1>1. a.pool \in Pools(H, n) /\ a.rest \in Seq(H)
  BY DEF Filled
<1>2. AddGroup(a.pool, g, desired) \in Pools(H, n) /\ Append(a.rest, g) \in Seq(H)
  BY <1>1, AddGroupOK
<1> QED  BY <1>2 DEF FillStep, Filled

\* One team of FillPlayersToBG, group by group.
LEMMA FillOK ==
  ASSUME NEW H \in SUBSET Group, NEW n \in Nat, NEW desired \in Int, desired <= n,
         NEW pool \in Pools(H, n), NEW groups \in Seq(H)
  PROVE  Fill(pool, groups, desired) \in Filled(H, n)
<1> DEFINE A == Filled(H, n)
           S == DOMAIN groups
           b == [pool |-> pool, rest |-> <<>>]
           R == [x \in A \X S |-> FillStep(x[1], groups[x[2]], desired)]
           c == [s \in SUBSET S |-> Max(s)]
           Eq(it) == it = [s \in SUBSET S |->
                             IF s = {} THEN b
                             ELSE FillStep(it[s \ {Max(s)}], groups[Max(s)], desired)]
           f == CHOOSE it : Eq(it)
<1>1. b \in A
  BY DEF Filled
<1>2. IsFiniteSet(S) /\ \A s \in SUBSET S : s # {} => c[s] \in s /\ c[s] = Max(s)
  BY SeqFolds
<1>3. \A i \in S : groups[i] \in H
  OBVIOUS
<1>4. \A a \in A, i \in S : FillStep(a, groups[i], desired) \in A
  BY <1>3, FillStepOK
<1> HIDE DEF A, b
<1>5. Steps(R, A, S) /\ Chooses(c, S)
  BY <1>2, <1>4 DEF Steps, Chooses
<1>6. PICK h : Folded(h, A, S, b, R, c)
  <2> HIDE DEF R, c, S
  <2> QED  BY <1>1, <1>2, <1>5, FoldExists
<1>7. Eq(h)
  <2>1. ASSUME NEW s \in SUBSET S, s # {}
        PROVE  h[s] = FillStep(h[s \ {Max(s)}], groups[Max(s)], desired)
    <3>1. h[s \ {Max(s)}] \in A /\ Max(s) \in S /\ c[s] = Max(s)
      BY <1>2, <1>6, <2>1 DEF Folded
    <3>2. h[s] = R[<<h[s \ {Max(s)}], Max(s)>>]
      BY <1>6, <2>1, <3>1 DEF Folded
    <3> QED  BY <3>1, <3>2
  <2> DEFINE F(s) == IF s = {} THEN b ELSE FillStep(h[s \ {Max(s)}], groups[Max(s)], desired)
  <2>2. \A s \in SUBSET S : h[s] = F(s)
    BY <1>6, <2>1 DEF Folded
  <2> HIDE DEF F
  <2>3. h = [s \in SUBSET S |-> F(s)]
    BY <1>6, <2>2 DEF Folded
  <2> QED  BY <2>3 DEF F
<1>8. Eq(f)
  <2> HIDE DEF Eq
  <2> QED  BY <1>7, Zenon
<1>9. Fill(pool, groups, desired) = f[S]
  BY DEF Fill, FoldLeft, MapThenFoldSet, b
<1> HIDE DEF f, c
<1>10. f[{}] = b /\ \A s \in SUBSET S : s # {} =>
          f[s] = FillStep(f[s \ {Max(s)}], groups[Max(s)], desired)
  BY <1>8
<1> DEFINE P == (SUBSET S) \X A
<1>11. <<{}, f[{}]>> \in P
  BY <1>1, <1>10
<1>12. ASSUME NEW s \in SUBSET S, s # {}, <<s \ {c[s]}, f[s \ {c[s]}]>> \in P
       PROVE  <<s, f[s]>> \in P
  <2>1. c[s] = Max(s) /\ Max(s) \in S
    BY <1>2, <1>12
  <2>2. f[s \ {Max(s)}] \in A
    BY <1>12, <2>1
  <2>3. f[s] = FillStep(f[s \ {Max(s)}], groups[Max(s)], desired)
    BY <1>10, <1>12
  <2>4. f[s] \in A
    BY <1>4, <2>1, <2>2, <2>3
  <2> QED  BY <2>4
<1>13. <<S, f[S]>> \in P
  <2> HIDE DEF P, S
  <2>1. Keeps(f, c, S, P)
    BY <1>11, <1>12 DEF Keeps
  <2> QED  BY <1>2, <1>5, <2>1, FoldInvariant
<1> QED  BY <1>9, <1>13 DEF A

Gathered(H, n) == [pool : Pools(H, n), rest : Seq(H), broke : BOOLEAN]

\* CheckNormalMatch takes one more group while there is room.
LEMMA GatherStepOK ==
  ASSUME NEW H \in SUBSET Group, NEW size, NEW a \in Gathered(H, MaxPlayers), NEW g \in H
  PROVE  GatherStep(a, g, size) \in Gathered(H, MaxPlayers)
<1> DEFINE more == AddGroup(a.pool, g, MaxPlayers)
           broke == PlayerCount(more) >= MinPlayers
<1>1. a.pool \in Pools(H, MaxPlayers) /\ a.rest \in Seq(H) /\ a.broke \in BOOLEAN
  BY DEF Gathered
<1>2. more \in Pools(H, MaxPlayers) /\ Append(a.rest, g) \in Seq(H)
  BY <1>1, Sizes, AddGroupOK
<1>3. broke \in BOOLEAN
  OBVIOUS
<1> HIDE DEF more, broke
<1>4. CASE a.broke
  <2>1. GatherStep(a, g, size) = [a EXCEPT !.rest = Append(a.rest, g)]
    BY <1>4 DEF GatherStep
  <2> QED  BY <1>2, <2>1 DEF Gathered
<1>5. CASE ~a.broke /\ g.bg = NoBg /\ Cardinality(g.players) >= size
  <2>1. GatherStep(a, g, size) = [a EXCEPT !.pool = more, !.broke = broke]
    BY <1>5 DEF GatherStep, more, broke
  <2> QED  BY <1>2, <1>3, <2>1 DEF Gathered
<1>6. CASE ~a.broke /\ ~(g.bg = NoBg /\ Cardinality(g.players) >= size)
  <2>1. GatherStep(a, g, size) = a
    BY <1>6 DEF GatherStep
  <2> QED  BY <2>1
<1> QED  BY <1>4, <1>5, <1>6

\* CheckNormalMatch, over the groups of a team.
LEMMA GatherOK ==
  ASSUME NEW H \in SUBSET Group, NEW size,
         NEW pool \in Pools(H, MaxPlayers), NEW groups \in Seq(H)
  PROVE  Gather(pool, groups, size) \in Gathered(H, MaxPlayers)
<1> DEFINE A == Gathered(H, MaxPlayers)
           S == DOMAIN groups
           b == [pool |-> pool, rest |-> <<>>, broke |-> FALSE]
           R == [x \in A \X S |-> GatherStep(x[1], groups[x[2]], size)]
           c == [s \in SUBSET S |-> Max(s)]
           Eq(it) == it = [s \in SUBSET S |->
                             IF s = {} THEN b
                             ELSE GatherStep(it[s \ {Max(s)}], groups[Max(s)], size)]
           f == CHOOSE it : Eq(it)
<1>1. b \in A
  BY DEF Gathered
<1>2. IsFiniteSet(S) /\ \A s \in SUBSET S : s # {} => c[s] \in s /\ c[s] = Max(s)
  BY SeqFolds
<1>3. \A i \in S : groups[i] \in H
  OBVIOUS
<1>4. \A a \in A, i \in S : GatherStep(a, groups[i], size) \in A
  BY <1>3, GatherStepOK
<1> HIDE DEF A, b
<1>5. Steps(R, A, S) /\ Chooses(c, S)
  BY <1>2, <1>4 DEF Steps, Chooses
<1>6. PICK h : Folded(h, A, S, b, R, c)
  <2> HIDE DEF R, c, S
  <2> QED  BY <1>1, <1>2, <1>5, FoldExists
<1>7. Eq(h)
  <2>1. ASSUME NEW s \in SUBSET S, s # {}
        PROVE  h[s] = GatherStep(h[s \ {Max(s)}], groups[Max(s)], size)
    <3>1. h[s \ {Max(s)}] \in A /\ Max(s) \in S /\ c[s] = Max(s)
      BY <1>2, <1>6, <2>1 DEF Folded
    <3>2. h[s] = R[<<h[s \ {Max(s)}], Max(s)>>]
      BY <1>6, <2>1, <3>1 DEF Folded
    <3> QED  BY <3>1, <3>2
  <2> DEFINE F(s) == IF s = {} THEN b ELSE GatherStep(h[s \ {Max(s)}], groups[Max(s)], size)
  <2>2. \A s \in SUBSET S : h[s] = F(s)
    BY <1>6, <2>1 DEF Folded
  <2> HIDE DEF F
  <2>3. h = [s \in SUBSET S |-> F(s)]
    BY <1>6, <2>2 DEF Folded
  <2> QED  BY <2>3 DEF F
<1>8. Eq(f)
  <2> HIDE DEF Eq
  <2> QED  BY <1>7, Zenon
<1>9. Gather(pool, groups, size) = f[S]
  BY DEF Gather, FoldLeft, MapThenFoldSet, b
<1> HIDE DEF f, c
<1>10. f[{}] = b /\ \A s \in SUBSET S : s # {} =>
          f[s] = GatherStep(f[s \ {Max(s)}], groups[Max(s)], size)
  BY <1>8
<1> DEFINE P == (SUBSET S) \X A
<1>11. <<{}, f[{}]>> \in P
  BY <1>1, <1>10
<1>12. ASSUME NEW s \in SUBSET S, s # {}, <<s \ {c[s]}, f[s \ {c[s]}]>> \in P
       PROVE  <<s, f[s]>> \in P
  <2>1. c[s] = Max(s) /\ Max(s) \in S
    BY <1>2, <1>12
  <2>2. f[s \ {Max(s)}] \in A
    BY <1>12, <2>1
  <2>3. f[s] = GatherStep(f[s \ {Max(s)}], groups[Max(s)], size)
    BY <1>10, <1>12
  <2>4. f[s] \in A
    BY <1>4, <2>1, <2>2, <2>3
  <2> QED  BY <2>4
<1>13. <<S, f[S]>> \in P
  <2> HIDE DEF P, S
  <2>1. Keeps(f, c, S, P)
    BY <1>11, <1>12 DEF Keeps
  <2> QED  BY <1>2, <1>5, <2>1, FoldInvariant
<1> QED  BY <1>9, <1>13 DEF A
\* KickGroup takes one party away, if there is one.
LEMMA KickGroupOK ==
  ASSUME NEW H \in SUBSET Group, NEW n \in Nat, NEW size \in Int, NEW pool \in Pools(H, n)
  PROVE  KickGroup(pool, size).pool \in Pools(H, n) /\ KickGroup(pool, size).retry \in BOOLEAN
<1> DEFINE N(i) == Cardinality(pool[i].players)
           near == {i \in DOMAIN pool : N(i) - size \in -1 .. 1}
           largest == {i \in DOMAIN pool : \A j \in DOMAIN pool : N(j) <= N(i)}
           kicked == Max(IF near # {} THEN near ELSE largest)
<1>1. pool \in Seq(Group) /\ pool \in Seq(Uninvited(H)) /\ PlayerCount(pool) <= n
  BY DEF Pools, Uninvited
<1>2. CASE pool = <<>>
  <2>1. KickGroup(pool, size) = [pool |-> pool, retry |-> TRUE]
    BY <1>2 DEF KickGroup
  <2> QED  BY <2>1
<1>3. CASE pool # <<>>
  <2>1. DOMAIN pool = 1 .. Len(pool) /\ Len(pool) \in Nat /\ 1 \in DOMAIN pool
    BY <1>1, <1>3
  <2>2. \A i \in DOMAIN pool : N(i) \in Nat /\ N(i) <= Cardinality(Player)
    <3> SUFFICES ASSUME NEW i \in DOMAIN pool
                 PROVE  N(i) \in Nat /\ N(i) <= Cardinality(Player)
      OBVIOUS
    <3>1. pool[i] \in Group
      BY <1>1
    <3>2. pool[i].players \in SUBSET Player /\ N(i) \in Nat /\ IsFiniteSet(Player)
      BY <3>1, PlayersFinite, BattleGroundQueueAssumption
    <3>3. N(i) <= Cardinality(Player)
      BY <3>2, FS_Subset
    <3> QED  BY <3>2, <3>3
  <2>3. Cardinality(Player) \in Nat
    BY BattleGroundQueueAssumption, FS_CardinalityType
  <2> HIDE DEF N
  <2> DEFINE B == {N(i) : i \in DOMAIN pool}
  <2>4. B \in SUBSET (0 .. Cardinality(Player)) /\ N(1) \in B
    BY <2>1, <2>2, <2>3
  <2>5. Max(B) \in B /\ \A y \in B : y <= Max(B)
    <3> HIDE DEF B
    <3> QED  BY <2>3, <2>4, MaxIn
  <2>6. PICK i \in DOMAIN pool : N(i) = Max(B)
    BY <2>5
  <2>7. i \in largest
    BY <2>5, <2>6
  <2> DEFINE K == IF near # {} THEN near ELSE largest
  <2>8. K \in SUBSET (0 .. Len(pool)) /\ K # {} /\ K \subseteq DOMAIN pool
    BY <2>1, <2>7
  <2> HIDE DEF K
  <2>9. Max(K) \in K
    BY <2>1, <2>8, MaxIn
  <2>10. kicked \in DOMAIN pool
    BY <2>8, <2>9 DEF K
  <2> HIDE DEF near, largest
  <2>11. KickGroup(pool, size) = [pool |-> RemoveAt(pool, kicked), retry |-> N(kicked) > size + 1]
    BY <1>3 DEF KickGroup, N, near, largest
  <2> HIDE DEF kicked
  <2>12. RemoveAt(pool, kicked) \in Seq(Group) /\ RemoveAt(pool, kicked) \in Seq(Uninvited(H))
    BY <1>1, <2>10, RemoveAtProps
  <2>13. PlayerCount(RemoveAt(pool, kicked)) <= PlayerCount(pool)
    BY <1>1, <2>10, RemoveCount
  <2>14. PlayerCount(RemoveAt(pool, kicked)) \in Nat /\ PlayerCount(pool) \in Nat
    BY <1>1, <2>12, PairsFinite
  <2>15. RemoveAt(pool, kicked) \in Pools(H, n)
    BY <1>1, <2>12, <2>13, <2>14 DEF Pools
  <2>16. (N(kicked) > size + 1) \in BOOLEAN
    OBVIOUS
  <2> QED  BY <2>11, <2>15, <2>16
<1> QED  BY <1>2, <1>3

\* After KickGroup the free slots are filled from the groups that were not
\* looked at.
LEMMA RefillOK ==
  ASSUME NEW H \in SUBSET Group, NEW n \in Nat, NEW desired \in Int, desired <= n,
         NEW kick, kick.pool \in Pools(H, n), NEW rest \in Seq(H)
  PROVE  Refill(kick, rest, desired) \in Filled(H, n)
<1>1. Fill(kick.pool, rest, desired) \in Filled(H, n)
  BY FillOK
<1>2. [pool |-> kick.pool, rest |-> rest] \in Filled(H, n)
  BY DEF Filled
<1> QED  BY <1>1, <1>2 DEF Refill

\* The two sides of Balance: the parties of team t come from H[t], and are no more
\* than the n[t] places it has.
Sides(H, n) == [alliance : Filled(H["alliance"], n["alliance"]),
                horde : Filled(H["horde"], n["horde"]), stop : BOOLEAN]

\* One team's pool is replaced, the other's stays.
LEMMA SidesSet ==
  ASSUME NEW H, NEW n, NEW a \in Sides(H, n), NEW t \in Team
  PROVE  /\ a[t] \in Filled(H[t], n[t])
         /\ \A x \in Filled(H[t], n[t]) : [a EXCEPT ![t] = x] \in Sides(H, n)
                                          /\ [a EXCEPT ![t] = x][t] = x
         /\ [a EXCEPT !.stop = TRUE] \in Sides(H, n)
<1>1. t = "alliance" \/ t = "horde"
  BY DEF Team
<1> QED  BY <1>1 DEF Sides

\* KickGroup and the refill after it keep both pools inside the free slots.
LEMMA GiveUpOK ==
  ASSUME NEW H \in [Team -> SUBSET Group], NEW n \in [Team -> Nat], NEW a \in Sides(H, n),
         NEW t \in Team, NEW o \in Team, NEW left \in Int, left >= 0, NEW gap \in Int
  PROVE  GiveUp(a, n, t, o, left, gap) \in Sides(H, n)
<1> DEFINE desired == IF n[t] >= left THEN n[t] - left ELSE 0
           x == Refill(KickGroup(a[t].pool, gap), a[t].rest, desired)
           b == [a EXCEPT ![t] = x]
           y == [b[o] EXCEPT !.pool = KickGroup(b[o].pool, gap).pool]
           c == [b EXCEPT ![o] = y]
<1>1. n[t] \in Nat /\ n[o] \in Nat /\ H[t] \in SUBSET Group /\ H[o] \in SUBSET Group
  OBVIOUS
<1>2. desired \in Int /\ desired <= n[t]
  BY <1>1
<1>3. a[t] \in Filled(H[t], n[t])
  BY SidesSet
<1>4. a[t].pool \in Pools(H[t], n[t]) /\ a[t].rest \in Seq(H[t])
  BY <1>3 DEF Filled
<1>5. KickGroup(a[t].pool, gap).pool \in Pools(H[t], n[t])
  BY <1>1, <1>4, KickGroupOK
<1> HIDE DEF desired
<1>6. x \in Filled(H[t], n[t])
  BY <1>1, <1>2, <1>4, <1>5, RefillOK
<1>7. b = [a EXCEPT ![t] = Refill(KickGroup(@.pool, gap), @.rest, desired)]
  BY Zenon
<1> HIDE DEF x
<1>8. b \in Sides(H, n)
  BY <1>6, SidesSet
<1>9. b[o] \in Filled(H[o], n[o])
  BY <1>8, SidesSet
<1>10. b[o].pool \in Pools(H[o], n[o])
  BY <1>9 DEF Filled
<1>11. KickGroup(b[o].pool, gap).pool \in Pools(H[o], n[o])
  BY <1>1, <1>10, KickGroupOK
<1> HIDE DEF b
<1>12. y \in Filled(H[o], n[o])
  BY <1>9, <1>11 DEF Filled
<1>13. c \in Sides(H, n)
  BY <1>8, <1>12, SidesSet
<1>14. [b EXCEPT !.stop = TRUE] \in Sides(H, n)
  BY <1>8, SidesSet
<1>15. c = [b EXCEPT ![o].pool = KickGroup(@, gap).pool]
  OBVIOUS
<1>16. GiveUp(a, n, t, o, left, gap) \in {b, [b EXCEPT !.stop = TRUE], [b EXCEPT ![o].pool = KickGroup(@, gap).pool]}
  BY <1>7 DEF GiveUp, b, x, desired
<1> QED  BY <1>8, <1>13, <1>14, <1>15, <1>16

\* One turn of the loop that evens out the teams.
LEMMA BalanceTurnOK ==
  ASSUME NEW H \in [Team -> SUBSET Group], NEW n \in [Team -> Nat], NEW a \in Sides(H, n)
  PROVE  BalanceTurn(a, n) \in Sides(H, n)
<1> DEFINE left == [t \in Team |-> n[t] - PlayerCount(a[t].pool)]
           t == IF left["alliance"] < left["horde"] THEN "alliance" ELSE "horde"
           o == Other(t)
<1>1. \A u \in Team : left[u] \in Nat
  <2> SUFFICES ASSUME NEW u \in Team  PROVE  n[u] - PlayerCount(a[u].pool) \in Nat
    OBVIOUS
  <2>1. a[u] \in Filled(H[u], n[u])
    BY SidesSet
  <2>2. a[u].pool \in Seq(Uninvited(H[u])) /\ PlayerCount(a[u].pool) <= n[u]
    BY <2>1 DEF Filled, Pools
  <2>3. a[u].pool \in Seq(Group)
    BY <2>2 DEF Uninvited
  <2>4. PlayerCount(a[u].pool) \in Nat /\ n[u] \in Nat
    BY <2>3, PairsFinite
  <2> QED  BY <2>2, <2>4
<1>2. BalanceTurn(a, n) = BalanceStep(a, n, left)
  BY DEF BalanceTurn
<1> HIDE DEF left
<1>3. t \in Team /\ o \in Team
  BY DEF Team, Other
<1>4. left[o] \in Int /\ left[o] >= 0 /\ left[o] - left[t] \in Int
  BY <1>1, <1>3
<1>5. BalanceStep(a, n, left) \in
         {[a EXCEPT !.stop = TRUE], GiveUp(a, n, t, o, left[o], left[o] - left[t])}
  BY DEF BalanceStep
<1> HIDE DEF t, o
<1>6. GiveUp(a, n, t, o, left[o], left[o] - left[t]) \in Sides(H, n)
  BY <1>3, <1>4, GiveUpOK
<1>7. [a EXCEPT !.stop = TRUE] \in Sides(H, n)
  BY <1>3, SidesSet
<1> QED  BY <1>2, <1>5, <1>6, <1>7

\* The whole loop of FillPlayersToBG.
LEMMA BalanceOK ==
  ASSUME NEW H \in [Team -> SUBSET Group], NEW n \in [Team -> Nat],
         NEW filled, \A t \in Team : filled[t] \in Filled(H[t], n[t])
  PROVE  Balance(filled, n) \in Sides(H, n)
<1> DEFINE A == Sides(H, n)
           turns == [i \in 1 .. 2 * Cardinality(Player) |-> i]
           S == DOMAIN turns
           b == [alliance |-> filled["alliance"], horde |-> filled["horde"], stop |-> FALSE]
           R == [x \in A \X S |-> BalanceTurn(x[1], n)]
           c == [s \in SUBSET S |-> Max(s)]
           Eq(it) == it = [s \in SUBSET S |->
                             IF s = {} THEN b
                             ELSE BalanceTurn(it[s \ {Max(s)}], n)]
           f == CHOOSE it : Eq(it)
<1>0. turns \in Seq(Int)
  <2>1. Cardinality(Player) \in Nat
    BY BattleGroundQueueAssumption, FS_CardinalityType
  <2> QED  BY <2>1
<1>1. b \in A
  BY DEF Sides, Team
<1>2. IsFiniteSet(S) /\ \A s \in SUBSET S : s # {} => c[s] \in s /\ c[s] = Max(s)
  BY <1>0, SeqFolds
<1>4. \A a \in A : BalanceTurn(a, n) \in A
  BY BalanceTurnOK
<1> HIDE DEF A, b
<1>5. Steps(R, A, S) /\ Chooses(c, S)
  BY <1>2, <1>4 DEF Steps, Chooses
<1>6. PICK h : Folded(h, A, S, b, R, c)
  <2> HIDE DEF R, c, S
  <2> QED  BY <1>1, <1>2, <1>5, FoldExists
<1>7. Eq(h)
  <2>1. ASSUME NEW s \in SUBSET S, s # {}
        PROVE  h[s] = BalanceTurn(h[s \ {Max(s)}], n)
    <3>1. h[s \ {Max(s)}] \in A /\ Max(s) \in S /\ c[s] = Max(s)
      BY <1>2, <1>6, <2>1 DEF Folded
    <3>2. h[s] = R[<<h[s \ {Max(s)}], Max(s)>>]
      BY <1>6, <2>1, <3>1 DEF Folded
    <3> QED  BY <3>1, <3>2
  <2> DEFINE F(s) == IF s = {} THEN b ELSE BalanceTurn(h[s \ {Max(s)}], n)
  <2>2. \A s \in SUBSET S : h[s] = F(s)
    BY <1>6, <2>1 DEF Folded
  <2> HIDE DEF F
  <2>3. h = [s \in SUBSET S |-> F(s)]
    BY <1>6, <2>2 DEF Folded
  <2> QED  BY <2>3 DEF F
<1>8. Eq(f)
  <2> HIDE DEF Eq
  <2> QED  BY <1>7, Zenon
<1>9. Balance(filled, n) = f[S]
  BY DEF Balance, FoldLeft, MapThenFoldSet, b
<1> HIDE DEF f, c
<1>10. f[{}] = b /\ \A s \in SUBSET S : s # {} =>
          f[s] = BalanceTurn(f[s \ {Max(s)}], n)
  BY <1>8
<1> DEFINE P == (SUBSET S) \X A
<1>11. <<{}, f[{}]>> \in P
  BY <1>1, <1>10
<1>12. ASSUME NEW s \in SUBSET S, s # {}, <<s \ {c[s]}, f[s \ {c[s]}]>> \in P
       PROVE  <<s, f[s]>> \in P
  <2>1. c[s] = Max(s) /\ Max(s) \in S
    BY <1>2, <1>12
  <2>2. f[s \ {Max(s)}] \in A
    BY <1>12, <2>1
  <2>3. f[s] = BalanceTurn(f[s \ {Max(s)}], n)
    BY <1>10, <1>12
  <2>4. f[s] \in A
    BY <1>4, <2>1, <2>2, <2>3
  <2> QED  BY <2>4
<1>13. <<S, f[S]>> \in P
  <2> HIDE DEF P, S
  <2>1. Keeps(f, c, S, P)
    BY <1>11, <1>12 DEF Keeps
  <2> QED  BY <1>2, <1>5, <2>1, FoldInvariant
<1> QED  BY <1>9, <1>13 DEF A

\* Pools of the parties of a queue, no larger than n.
PoolsOf(pools, q, n) == \A t \in Team : pools[t] \in Pools(ToSet(q[t]), n[t])

\* A pool is a list of groups.
LEMMA PoolSeq ==
  ASSUME NEW H \in SUBSET Group, NEW n, NEW pool \in Pools(H, n)
  PROVE  pool \in Seq(Group)
BY DEF Pools, Uninvited

\* The parties of a queue.
LEMMA QueueSets ==
  ASSUME NEW q, QueueOK(q), NEW t \in Team
  PROVE  ToSet(q[t]) \in SUBSET Group /\ q[t] \in Seq(ToSet(q[t]))
         /\ \A n \in Nat : <<>> \in Pools(ToSet(q[t]), n)
<1>1. q[t] \in Seq(Group)
  BY DEF QueueOK
<1>2. ToSet(q[t]) \in SUBSET Group
  BY <1>1 DEF ToSet
<1>3. q[t] \in Seq(ToSet(q[t]))
  BY <1>1 DEF ToSet
<1>4. <<>> \in Seq(Uninvited(ToSet(q[t])))
  OBVIOUS
<1>5. \A n \in Nat : PlayerCount(<<>>) <= n
  BY EmptyCount
<1> QED  BY <1>2, <1>3, <1>4, <1>5 DEF Pools

\* FillPlayersToBG selects queued groups that fit into the free slots.
LEMMA FillPlayersOK ==
  ASSUME NEW w, QueueOK(w.queue), w.invited \in Counters, NEW b \in Bg
  PROVE  LET n == [t \in Team |-> GetFreeSlotsForTeam(w, b, t)]
         IN n \in [Team -> Nat] /\ PoolsOf(FillPlayersToBG(w, b), w.queue, n)
<1> DEFINE n == [t \in Team |-> GetFreeSlotsForTeam(w, b, t)]
           H == [t \in Team |-> ToSet(w.queue[t])]
           filled == [t \in Team |-> Fill(<<>>, w.queue[t], n[t])]
           even == IF InvitationType = 0 THEN filled ELSE Balance(filled, n)
<1>1. \A t \in Team : w.invited[b][t] \in Nat
  BY DEF Counters
<1>2. \A t \in Team : GetFreeSlotsForTeam(w, b, t) \in Nat
  BY <1>1, Sizes DEF GetFreeSlotsForTeam
<1>3. n \in [Team -> Nat]
  BY <1>2
<1>4. FillPlayersToBG(w, b) = [t \in Team |-> even[t].pool]
  BY DEF FillPlayersToBG
<1> HIDE DEF n
<1>5. H \in [Team -> SUBSET Group] /\ \A t \in Team : H[t] = ToSet(w.queue[t])
  BY QueueSets
<1>6. ASSUME NEW t \in Team  PROVE  filled[t] \in Filled(H[t], n[t])
  <2>1. n[t] \in Nat /\ n[t] \in Int /\ n[t] <= n[t]
    BY <1>3
  <2>2. H[t] \in SUBSET Group /\ w.queue[t] \in Seq(H[t]) /\ <<>> \in Pools(H[t], n[t])
    BY <1>5, <2>1, QueueSets
  <2> HIDE DEF H
  <2>3. Fill(<<>>, w.queue[t], n[t]) \in Filled(H[t], n[t])
    BY <2>1, <2>2, FillOK
  <2> QED  BY <2>3
<1> HIDE DEF filled, H
<1>7. ASSUME NEW t \in Team  PROVE  even[t] \in Filled(H[t], n[t])
  <2>1. CASE InvitationType = 0
    BY <1>6, <2>1
  <2>2. CASE InvitationType # 0
    <3>1. Balance(filled, n) \in Sides(H, n)
      BY <1>3, <1>5, <1>6, BalanceOK
    <3>2. Balance(filled, n)[t] \in Filled(H[t], n[t])
      BY <3>1, SidesSet
    <3> QED  BY <2>2, <3>2
  <2> QED  BY <2>1, <2>2
<1> HIDE DEF even
<1>8. \A t \in Team : FillPlayersToBG(w, b)[t] \in Pools(ToSet(w.queue[t]), n[t])
  BY <1>4, <1>5, <1>7 DEF Filled
<1> QED  BY <1>3, <1>8 DEF n, PoolsOf

Full == [t \in Team |-> MaxPlayers]

\* CheckPremadeMatch selects queued groups that fit into a new battleground.
LEMMA PremadeOK ==
  ASSUME NEW w, QueueOK(w.queue)
  PROVE  PoolsOf(CheckPremadeMatch(w), w.queue, Full)
<1> SUFFICES ASSUME NEW t \in Team
             PROVE  CheckPremadeMatch(w)[t] \in Pools(ToSet(w.queue[t]), MaxPlayers)
  BY DEF PoolsOf, Full
<1> DEFINE H == ToSet(w.queue[t])
<1>1. H \in SUBSET Group /\ w.queue[t] \in Seq(H) /\ <<>> \in Pools(H, MaxPlayers)
  BY Sizes, QueueSets
<1> HIDE DEF H
<1>2. Gather(<<>>, w.queue[t], PremadeMinSize) \in Gathered(H, MaxPlayers)
  BY <1>1, GatherOK
<1>3. CheckPremadeMatch(w)[t] = Gather(<<>>, w.queue[t], PremadeMinSize).pool
  BY DEF CheckPremadeMatch
<1> QED  BY <1>2, <1>3 DEF Gathered, H

\* CheckNormalMatch does.
LEMMA NormalPoolsOK ==
  ASSUME NEW w, QueueOK(w.queue), NEW pools, PoolsOf(pools, w.queue, Full)
  PROVE  PoolsOf(NormalPools(w, pools), w.queue, Full)
<1> DEFINE got == [t \in Team |-> Gather(pools[t], w.queue[t], 1)]
           first == [t \in Team |-> got[t].pool]
           count(t) == PlayerCount(first[t])
           j == IF count("horde") < count("alliance") THEN "horde" ELSE "alliance"
           more == Fill(first[j], got[j].rest, count(Other(j))).pool
<1>1. ASSUME NEW t \in Team
      PROVE  /\ ToSet(w.queue[t]) \in SUBSET Group
             /\ got[t].pool \in Pools(ToSet(w.queue[t]), MaxPlayers)
             /\ got[t].rest \in Seq(ToSet(w.queue[t]))
  <2> DEFINE H == ToSet(w.queue[t])
  <2>1. H \in SUBSET Group /\ w.queue[t] \in Seq(H) /\ pools[t] \in Pools(H, MaxPlayers)
    BY QueueSets DEF PoolsOf, Full
  <2> HIDE DEF H
  <2>2. Gather(pools[t], w.queue[t], 1) \in Gathered(H, MaxPlayers)
    BY <2>1, GatherOK
  <2>3. got[t] = Gather(pools[t], w.queue[t], 1)
    OBVIOUS
  <2> HIDE DEF got
  <2> QED  BY <2>1, <2>2, <2>3 DEF Gathered, H
<1>2. NormalPools(w, pools) = EvenUp(got, first)
  BY DEF NormalPools
<1> HIDE DEF got
<1>3. \A t \in Team : first[t] = got[t].pool
  OBVIOUS
<1>4. j \in Team /\ Other(j) \in Team
  BY DEF Team, Other
<1>5. EvenUp(got, first) \in {first, [first EXCEPT ![j] = more]}
  BY DEF EvenUp
<1>6. first \in [Team -> Seq(Group)]
  <2>1. \A t \in Team : got[t].pool \in Seq(Group)
    BY <1>1, PoolSeq
  <2> QED  BY <2>1
<1> HIDE DEF first, j
<1>7. more \in Pools(ToSet(w.queue[j]), MaxPlayers)
  <2> DEFINE H == ToSet(w.queue[j])
             d == count(Other(j))
  <2>1. H \in SUBSET Group /\ first[j] \in Pools(H, MaxPlayers) /\ got[j].rest \in Seq(H)
    BY <1>1, <1>3, <1>4
  <2>2. first[Other(j)] \in Seq(Group) /\ d <= MaxPlayers
    BY <1>1, <1>3, <1>4, <1>6 DEF Pools
  <2>3. d \in Int /\ d <= MaxPlayers
    <3>1. PlayerCount(first[Other(j)]) \in Nat
      BY <2>2, PairsFinite
    <3> QED  BY <2>2, <3>1
  <2> HIDE DEF H, d
  <2>4. Fill(first[j], got[j].rest, d) \in Filled(H, MaxPlayers)
    BY <2>1, <2>3, Sizes, FillOK
  <2> QED  BY <2>4 DEF Filled, H, d
<1> HIDE DEF more
<1>8. \A t \in Team : [first EXCEPT ![j] = more][t] \in Pools(ToSet(w.queue[t]), MaxPlayers)
  BY <1>1, <1>3, <1>4, <1>6, <1>7
<1>9. \A t \in Team : first[t] \in Pools(ToSet(w.queue[t]), MaxPlayers)
  BY <1>1, <1>3
<1> QED  BY <1>2, <1>5, <1>8, <1>9 DEF PoolsOf, Full

-----------------------------------------------------------------------------
(***************************************************************************)
(* Invitations                                                             *)
(***************************************************************************)
Event == [bg : Bg, time : 0 .. MaxTime + InviteTime]

\* What an update of the queue works on.
Work == [queue : [Team -> Seq(Group)], invited : Counters,
         slot : [Player -> {NotQueued, NoBg} \cup Bg], events : [Player -> SUBSET Event],
         status : [Bg -> Status], free : Seq(Bg), missed : SUBSET Bg, full : BOOLEAN]

Good(w) ==
    /\ w \in Work
    /\ QueueOK(w.queue)
    /\ TimedIn(w.queue, w.slot, w.events)
    /\ Outside(w.queue)
    /\ Unmade(w.queue, w.invited, w.status)
    /\ MadeInOrder(w.status)
    /\ CountedIn(w.queue, w.invited, w.status, w.missed)

\* An invitation is not taken away.
SeatsKept(q, r) ==
    \A p \in Player : \A s \in Seats(q, p) : s[1] # NoBg => s \in Seats(r, p)

\* The parties chosen, their members and those InviteGroupToBG finds.
Chosen(pools) == UNION {ToSet(pools[t]) : t \in Team}
Called(pools) == UNION {g.players : g \in Chosen(pools)}
Told(pools) == {p \in Called(pools) : presence[p] = "ready" /\ target[p] = NoBg}
Marked(q, pools, b) ==
    [t \in Team |-> [i \in DOMAIN q[t] |->
        IF q[t][i] \in Chosen(pools)
        THEN [q[t][i] EXCEPT !.bg = b, !.time = now + InviteTime] ELSE q[t][i]]]

\* Who is called is in one party, which nobody has invited yet; afterwards it is
\* invited to b.
LEMMA MarkedOK ==
  ASSUME NEW q, QueueOK(q), NEW pools, NEW n, PoolsOf(pools, q, n), NEW b \in Bg,
         now \in 0 .. MaxTime
  PROVE  /\ QueueOK(Marked(q, pools, b))
         /\ Called(pools) \subseteq Player
         /\ \A p \in Player :
               /\ p \in Called(pools) =>
                     /\ Seats(Marked(q, pools, b), p) = {<<b, now + InviteTime>>}
                     /\ \E s \in Seats(q, p) : s[1] = NoBg
               /\ p \notin Called(pools) => Seats(Marked(q, pools, b), p) = Seats(q, p)
         /\ \A t \in Team : {p \in Called(pools) : TeamOf[p] = t} =
                               UNION {g.players : g \in ToSet(pools[t])}
<1> DEFINE C == Chosen(pools)
           r == Marked(q, pools, b)
           due == now + InviteTime
<1>1. due \in 0 .. MaxTime + InviteTime /\ b \in Bg \cup {NoBg}
  BY Sizes
<1>2. q \in [Team -> Seq(Group)] /\ \A t \in Team : q[t] \in Seq(Group)
  BY DEF QueueOK
<1>3. ASSUME NEW t \in Team, NEW g \in ToSet(pools[t])
      PROVE  g \in ToSet(q[t]) /\ g.bg = NoBg /\ g \in C /\ g \in Group
             /\ \A p \in g.players : TeamOf[p] = t
  <2>1. pools[t] \in Seq(Uninvited(ToSet(q[t])))
    BY DEF PoolsOf, Pools
  <2>2. g \in Uninvited(ToSet(q[t]))
    BY <1>3, <2>1 DEF ToSet
  <2>3. g \in ToSet(q[t]) /\ g.bg = NoBg
    BY <2>2 DEF Uninvited
  <2>4. PICK i \in DOMAIN q[t] : g = q[t][i]
    BY <2>3 DEF ToSet
  <2>5. g \in Group
    BY <1>2, <2>4
  <2>6. \A p \in g.players : TeamOf[p] = t
    BY <2>4 DEF QueueOK
  <2> QED  BY <1>3, <2>3, <2>5, <2>6 DEF Chosen
<1>4. ASSUME NEW t \in Team, NEW i \in DOMAIN q[t]
      PROVE  /\ r[t][i] \in Group /\ r[t][i].players = q[t][i].players
             /\ q[t][i] \in C => r[t][i].bg = b /\ r[t][i].time = due
             /\ q[t][i] \notin C => r[t][i] = q[t][i]
  <2>1. q[t][i] \in Group
    BY <1>2
  <2>2. r[t][i] = IF q[t][i] \in C THEN [q[t][i] EXCEPT !.bg = b, !.time = due] ELSE q[t][i]
    BY DEF Marked
  <2> HIDE DEF C, r, due
  <2> QED  BY <1>1, <2>1, <2>2 DEF Group
<1>5. ASSUME NEW t \in Team
      PROVE  r[t] \in Seq(Group) /\ DOMAIN r[t] = DOMAIN q[t]
  <2>1. r[t] = [i \in DOMAIN q[t] |-> r[t][i]]
    BY DEF Marked
  <2>2. DOMAIN q[t] = 1 .. Len(q[t]) /\ Len(q[t]) \in Nat
    BY <1>2
  <2> HIDE DEF r
  <2>3. r[t] \in [1 .. Len(q[t]) -> Group]
    BY <1>4, <2>1, <2>2
  <2> QED  BY <2>2, <2>3
<1>6. r \in [Team -> Seq(Group)]
  <2>1. DOMAIN r = Team /\ r = [t \in Team |-> r[t]]
    BY DEF Marked
  <2> HIDE DEF r
  <2> QED  BY <1>5, <2>1
<1> HIDE DEF r, due
<1>7. QueueOK(r)
  <2>1. ASSUME NEW t \in Team, NEW i \in DOMAIN r[t], NEW p \in r[t][i].players
        PROVE  TeamOf[p] = t
    BY <1>4, <1>5, <2>1, SMTT(30) DEF QueueOK
  <2>2. ASSUME NEW t \in Team, NEW i \in DOMAIN r[t], NEW j \in DOMAIN r[t], i # j
        PROVE  r[t][i].players \cap r[t][j].players = {}
    <3>1. i \in DOMAIN q[t] /\ j \in DOMAIN q[t]
      BY <1>5, <2>2
    <3>2. q[t][i].players \cap q[t][j].players = {}
      BY <2>2, <3>1 DEF QueueOK
    <3>3. r[t][i].players = q[t][i].players /\ r[t][j].players = q[t][j].players
      BY <1>4, <3>1
    <3> QED  BY <3>2, <3>3
  <2> QED  BY <1>6, <2>1, <2>2 DEF QueueOK
<1>8. \A p : p \in Called(pools) <=> \E g \in C : p \in g.players
  BY DEF Called
<1>9. \A g \in C : \E t \in Team : g \in ToSet(pools[t])
  BY DEF Chosen
<1> HIDE DEF C
<1>10. Called(pools) \subseteq Player
  <2>1. \A g \in C : g \in Group
    BY <1>3, <1>9
  <2> QED  BY <1>8, <2>1, PlayersFinite
<1>11. ASSUME NEW p \in Player, NEW i \in DOMAIN q[TeamOf[p]], p \in q[TeamOf[p]][i].players
       PROVE  p \in Called(pools) <=> q[TeamOf[p]][i] \in C
  <2>1. ASSUME NEW g \in C, p \in g.players
        PROVE  g = q[TeamOf[p]][i]
    <3>1. PICK t \in Team : g \in ToSet(pools[t])
      BY <1>9, <2>1
    <3>2. g \in ToSet(q[t]) /\ TeamOf[p] = t
      BY <1>3, <2>1, <3>1
    <3>3. PICK j \in DOMAIN q[t] : g = q[t][j]
      BY <3>2 DEF ToSet
    <3>4. j = i
      BY <1>11, <2>1, <3>2, <3>3, OnePlace
    <3> QED  BY <3>2, <3>3, <3>4
  <2> QED  BY <1>8, <1>11, <2>1
<1>12. ASSUME NEW p \in Player, p \in Called(pools)
       PROVE  \E i \in DOMAIN q[TeamOf[p]] : p \in q[TeamOf[p]][i].players /\ q[TeamOf[p]][i].bg = NoBg
  <2>1. PICK g \in C : p \in g.players
    BY <1>8, <1>12
  <2>2. PICK t \in Team : g \in ToSet(pools[t])
    BY <1>9
  <2>3. g \in ToSet(q[t]) /\ TeamOf[p] = t /\ g.bg = NoBg
    BY <1>3, <2>1, <2>2
  <2>4. PICK j \in DOMAIN q[t] : g = q[t][j]
    BY <2>3 DEF ToSet
  <2> QED  BY <2>1, <2>3, <2>4
<1>13. ASSUME NEW p \in Player, p \in Called(pools)
       PROVE  Seats(r, p) = {<<b, due>>} /\ \E s \in Seats(q, p) : s[1] = NoBg
  <2>1. PICK i \in DOMAIN q[TeamOf[p]] :
           p \in q[TeamOf[p]][i].players /\ q[TeamOf[p]][i].bg = NoBg
    BY <1>12, <1>13
  <2>2. TeamOf[p] \in Team
    BY OnePlace
  <2>3. q[TeamOf[p]][i] \in C
    BY <1>11, <1>13, <2>1
  <2> DEFINE g == q[TeamOf[p]][i]
             h == r[TeamOf[p]][i]
  <2>4. g \in GroupsWith(q, p)
    BY <2>1, GroupsByPlace
  <2>5. <<g.bg, g.time>> \in Seats(q, p) /\ <<g.bg, g.time>>[1] = NoBg
    BY <2>1, <2>4 DEF Seats
  <2>6. i \in DOMAIN r[TeamOf[p]] /\ p \in h.players /\ h.bg = b /\ h.time = due
    BY <1>4, <1>5, <2>1, <2>2, <2>3
  <2>7. h \in GroupsWith(r, p)
    BY <2>6, GroupsByPlace
  <2>8. <<b, due>> \in Seats(r, p)
    BY <2>6, <2>7 DEF Seats
  <2>9. Seats(r, p) = {<<b, due>>}
    BY <1>7, <2>8, OnePlace
  <2> HIDE DEF g
  <2> QED  BY <2>5, <2>9
<1>14. ASSUME NEW p \in Player, p \notin Called(pools)
       PROVE  Seats(r, p) = Seats(q, p)
  <2>1. TeamOf[p] \in Team
    BY OnePlace
  <2>2. ASSUME NEW i \in DOMAIN q[TeamOf[p]], p \in q[TeamOf[p]][i].players
        PROVE  r[TeamOf[p]][i] = q[TeamOf[p]][i]
    BY <1>4, <1>11, <1>14, <2>1, <2>2
  <2>3. \A i \in DOMAIN q[TeamOf[p]] : r[TeamOf[p]][i].players = q[TeamOf[p]][i].players
    BY <1>4, <2>1
  <2>4. DOMAIN r[TeamOf[p]] = DOMAIN q[TeamOf[p]]
    BY <1>5, <2>1
  <2>5. \A g : g \in GroupsWith(r, p) <=> g \in GroupsWith(q, p)
    BY <2>2, <2>3, <2>4, GroupsByPlace
  <2>6. GroupsWith(r, p) = GroupsWith(q, p)
    BY <2>5
  <2> QED  BY <2>6 DEF Seats
<1>15. ASSUME NEW t \in Team
       PROVE  {p \in Called(pools) : TeamOf[p] = t} = UNION {g.players : g \in ToSet(pools[t])}
  <2>1. \A p : p \in Called(pools) /\ TeamOf[p] = t => \E g \in ToSet(pools[t]) : p \in g.players
    BY <1>3, <1>8, <1>9
  <2>2. \A g \in ToSet(pools[t]), p \in Player :
           p \in g.players => p \in Called(pools) /\ TeamOf[p] = t
    BY <1>3, <1>8
  <2>3. \A g \in ToSet(pools[t]) : g.players \subseteq Player
    BY <1>3, PlayersFinite
  <2> QED  BY <1>10, <2>1, <2>2, <2>3
<1> QED  BY <1>7, <1>10, <1>13, <1>14, <1>15 DEF r, due

\* The players a pool calls are no more than it counts.
LEMMA CalledBound ==
  ASSUME NEW q, QueueOK(q), NEW pools, NEW n \in [Team -> Nat], PoolsOf(pools, q, n),
         NEW b \in Bg, NEW t \in Team, now \in 0 .. MaxTime
  PROVE  /\ IsFiniteSet({p \in Called(pools) : TeamOf[p] = t})
         /\ Cardinality({p \in Called(pools) : TeamOf[p] = t}) \in Nat
         /\ Cardinality({p \in Called(pools) : TeamOf[p] = t}) <= n[t]
<1> DEFINE mine == {p \in Called(pools) : TeamOf[p] = t}
           called == UNION {g.players : g \in ToSet(pools[t])}
<1>1. mine = called
  BY MarkedOK
<1>2. pools[t] \in Pools(ToSet(q[t]), n[t]) /\ ToSet(q[t]) \in SUBSET Group
  BY QueueSets DEF PoolsOf
<1>3. pools[t] \in Seq(Group) /\ PlayerCount(pools[t]) <= n[t]
  BY <1>2, PoolSeq DEF Pools
<1>4. IsFiniteSet(called) /\ Cardinality(called) <= PlayerCount(pools[t])
  BY <1>3, CalledCount
<1>5. PlayerCount(pools[t]) \in Nat /\ n[t] \in Nat
  BY <1>3, PairsFinite
<1> HIDE DEF mine, called
<1>6. Cardinality(called) \in Nat
  BY <1>4, FS_CardinalityType
<1>7. Cardinality(called) <= n[t]
  BY <1>3, <1>4, <1>5, <1>6
<1> QED  BY <1>1, <1>4, <1>6, <1>7 DEF mine

\* InviteGroupToBG of all selected groups: counters, queue and removal events
\* stay consistent.
LEMMA InviteOK ==
  ASSUME NEW w, Good(w), NEW b \in Bg, w.status[b] # "none",
         NEW pools, NEW n \in [Team -> Nat], PoolsOf(pools, w.queue, n),
         b \notin w.missed => \A t \in Team : w.invited[b][t] + n[t] <= MaxPlayers,
         w.status[b] \in {"join", "progress", "leave"},
         now \in 0 .. MaxTime
  PROVE  /\ Good(Invite(w, pools, b))
         /\ SeatsKept(w.queue, Invite(w, pools, b).queue)
         /\ Invite(w, pools, b).status = w.status
<1> DEFINE v == Invite(w, pools, b)
           q == w.queue
           r == v.queue
           told == Told(pools)
           called == Called(pools)
           due == now + InviteTime
           told_of(t) == {p \in told : TeamOf[p] = t}
<1>1. w \in Work /\ QueueOK(q) /\ TimedIn(q, w.slot, w.events) /\ Outside(q)
      /\ Unmade(q, w.invited, w.status) /\ MadeInOrder(w.status)
      /\ CountedIn(q, w.invited, w.status, w.missed)
  BY DEF Good
<1>2. /\ r = Marked(q, pools, b)
      /\ v.invited = [w.invited EXCEPT ![b] = [t \in Team |->
                        (w.invited[b][t] + Cardinality(told_of(t))) % CounterSpace]]
      /\ v.slot = [p \in Player |-> IF p \in told THEN b ELSE w.slot[p]]
      /\ v.events = [p \in Player |->
            IF p \in told THEN w.events[p] \cup {[bg |-> b, time |-> due]} ELSE w.events[p]]
      /\ v.missed = IF called # told THEN w.missed \cup {b} ELSE w.missed
      /\ v.status = w.status /\ v.free = w.free /\ v.full = w.full
      /\ v = [queue |-> v.queue, invited |-> v.invited, slot |-> v.slot,
              events |-> v.events, status |-> v.status, free |-> v.free,
              missed |-> v.missed, full |-> v.full]
  BY DEF Invite, Marked, Told, Called, Chosen
<1> HIDE DEF v
<1>3. /\ QueueOK(r) /\ called \subseteq Player
      /\ \A p \in Player :
            /\ p \in called => Seats(r, p) = {<<b, due>>} /\ \E s \in Seats(q, p) : s[1] = NoBg
            /\ p \notin called => Seats(r, p) = Seats(q, p)
  BY <1>1, <1>2, MarkedOK
<1>4. told \subseteq called
  BY DEF Told
<1>5. ASSUME NEW t \in Team
      PROVE  IsFiniteSet(told_of(t)) /\ Cardinality(told_of(t)) \in Nat
  <2>1. told_of(t) \in SUBSET Player /\ IsFiniteSet(Player)
    BY <1>3, <1>4, BattleGroundQueueAssumption
  <2>2. IsFiniteSet(told_of(t))
    BY <2>1, FS_Subset
  <2> QED  BY <2>2, FS_CardinalityType
<1>6. ASSUME NEW p \in called  PROVE  \A s \in Seats(q, p) : s[1] = NoBg
  BY <1>1, <1>3, <1>6, OnePlace
<1>7. ASSUME NEW p \in called  PROVE  target[p] = NoBg
  BY <1>1, <1>3, <1>7 DEF Outside
<1> HIDE DEF told, called
<1>8. due \in 0 .. MaxTime + InviteTime
  BY Sizes
<1> HIDE DEF due
<1>9. w.invited \in Counters /\ w.slot \in [Player -> {NotQueued, NoBg} \cup Bg]
      /\ w.events \in [Player -> SUBSET Event] /\ w.status \in [Bg -> Status]
      /\ w.free \in Seq(Bg) /\ w.missed \in SUBSET Bg /\ w.full \in BOOLEAN
  BY <1>1 DEF Work
<1>10. ASSUME NEW t \in Team
       PROVE  w.invited[b][t] \in 0 .. CounterSpace - 1
              /\ (w.invited[b][t] + Cardinality(told_of(t))) % CounterSpace \in 0 .. CounterSpace - 1
  <2>1. w.invited[b][t] \in 0 .. CounterSpace - 1
    BY <1>9 DEF Counters
  <2> DEFINE x == w.invited[b][t] + Cardinality(told_of(t))
  <2>2. x \in Nat
    <3>1. Cardinality(told_of(t)) \in Nat
      BY <1>5
    <3> HIDE DEF told_of
    <3> QED  BY <2>1, <3>1, Sizes
  <2> HIDE DEF x
  <2>3. x % CounterSpace \in 0 .. CounterSpace - 1
    BY <2>2, Sizes
  <2> QED  BY <2>1, <2>3 DEF x
<1> HIDE DEF told_of
<1>11. v.invited \in Counters
  BY <1>2, <1>9, <1>10 DEF Counters
<1>12. v.slot \in [Player -> {NotQueued, NoBg} \cup Bg]
  BY <1>2, <1>9
<1>13. v.events \in [Player -> SUBSET Event]
  <2>1. [bg |-> b, time |-> due] \in Event
    BY <1>8 DEF Event
  <2>2. \A p \in Player : w.events[p] \in SUBSET Event
    BY <1>9
  <2>3. \A p \in Player : (IF p \in told THEN w.events[p] \cup {[bg |-> b, time |-> due]}
                           ELSE w.events[p]) \in SUBSET Event
    BY <2>1, <2>2
  <2> QED  BY <1>2, <2>3
<1>14. v.missed \in SUBSET Bg
  BY <1>2, <1>9
<1>15. v \in Work
  <2>1. v.queue \in [Team -> Seq(Group)]
    BY <1>3 DEF QueueOK
  <2>2. v.status \in [Bg -> Status] /\ v.free \in Seq(Bg) /\ v.full \in BOOLEAN
    BY <1>2, <1>9
  <2> QED  BY <1>2, <1>11, <1>12, <1>13, <1>14, <2>1, <2>2 DEF Work
<1>16. TimedIn(r, v.slot, v.events)
  <2> SUFFICES ASSUME NEW p \in Player, presence[p] # "offline", NEW s \in Seats(r, p)
               PROVE  /\ v.slot[p] \in {NoBg, s[1]}
                      /\ v.slot[p] # NoBg => [bg |-> s[1], time |-> s[2]] \in v.events[p]
    BY DEF TimedIn
  <2>1. CASE p \in told
    <3>1. s = <<b, due>>
      BY <1>3, <1>4, <2>1
    <3>2. v.slot[p] = b /\ [bg |-> b, time |-> due] \in v.events[p]
      BY <1>2, <2>1
    <3> QED  BY <3>1, <3>2
  <2>2. CASE p \in called /\ p \notin told
    <3>1. PICK u \in Seats(q, p) : u[1] = NoBg
      BY <1>3, <2>2
    <3>2. w.slot[p] \in {NoBg, u[1]}
      BY <1>1, <3>1 DEF TimedIn
    <3>3. v.slot[p] = NoBg
      BY <1>2, <2>2, <3>1, <3>2
    <3> QED  BY <3>3
  <2>3. CASE p \notin called
    <3>1. s \in Seats(q, p)
      BY <1>3, <2>3
    <3>2. w.slot[p] \in {NoBg, s[1]} /\ (w.slot[p] # NoBg => [bg |-> s[1], time |-> s[2]] \in w.events[p])
      BY <1>1, <3>1 DEF TimedIn
    <3>3. p \notin told
      BY <1>4, <2>3
    <3>4. v.slot[p] = w.slot[p] /\ v.events[p] = w.events[p]
      BY <1>2, <3>3
    <3> QED  BY <3>2, <3>4
  <2> QED  BY <2>1, <2>2, <2>3
<1>17. Outside(r)
  BY <1>1, <1>3, <1>7 DEF Outside
<1>18. Unmade(r, v.invited, v.status)
  <2> SUFFICES ASSUME NEW c \in Bg, w.status[c] = "none"
               PROVE  /\ \A t \in Team : v.invited[c][t] = 0
                      /\ \A p \in Player : target[p] # c /\ \A s \in Seats(r, p) : s[1] # c
    BY <1>2 DEF Unmade
  <2>1. c # b
    OBVIOUS
  <2>2. v.invited[c] = w.invited[c]
    BY <1>2, <1>9, <2>1 DEF Counters
  <2>3. \A t \in Team : w.invited[c][t] = 0
    BY <1>1 DEF Unmade
  <2>4. ASSUME NEW p \in Player
        PROVE  target[p] # c /\ \A s \in Seats(q, p) : s[1] # c
    BY <1>1 DEF Unmade
  <2>5. ASSUME NEW p \in Player  PROVE  \A s \in Seats(r, p) : s[1] # c
    <3>1. CASE p \in called
      <4>1. Seats(r, p) = {<<b, due>>}
        BY <1>3, <3>1
      <4> QED  BY <2>1, <4>1
    <3>2. CASE p \notin called
      BY <1>3, <2>4, <3>2
    <3> QED  BY <3>1, <3>2
  <2> QED  BY <2>2, <2>3, <2>4, <2>5
<1>19. ASSUME NEW c \in Bg, c # b, NEW t \in Team
       PROVE  HoldersIn(r, c, t) = HoldersIn(q, c, t)
  <2> SUFFICES ASSUME NEW p \in Player
               PROVE  (\E s \in Seats(r, p) : s[1] = c) <=> (\E s \in Seats(q, p) : s[1] = c)
    BY DEF HoldersIn
  <2>1. CASE p \in called
    <3>1. Seats(r, p) = {<<b, due>>}
      BY <1>3, <2>1
    <3>2. \A s \in Seats(r, p) : s[1] # c
      BY <1>19, <3>1
    <3>3. \A s \in Seats(q, p) : s[1] # c
      BY <1>6, <2>1, Sizes
    <3> QED  BY <3>2, <3>3
  <2>2. CASE p \notin called
    BY <1>3, <2>2
  <2> QED  BY <2>1, <2>2
<1>20. ASSUME NEW t \in Team, b \notin v.missed
       PROVE  v.invited[b][t] = Cardinality(HoldersIn(r, b, t)) /\ v.invited[b][t] <= MaxPlayers
  <2>1. called = told /\ b \notin w.missed
    BY <1>2, <1>20
  <2> DEFINE old == HoldersIn(q, b, t)
             new == {p \in called : TeamOf[p] = t}
  <2>2. told_of(t) = new
    BY <2>1 DEF told_of
  <2>3. HoldersIn(r, b, t) = old \cup new
    <3> SUFFICES ASSUME NEW p \in Player, TeamOf[p] = t
                 PROVE  p \in HoldersIn(r, b, t) <=> p \in old \/ p \in called
      BY <1>3 DEF HoldersIn
    <3>1. CASE p \in called
      <4>1. <<b, due>> \in Seats(r, p) /\ <<b, due>>[1] = b
        BY <1>3, <3>1
      <4>2. \E s \in Seats(r, p) : s[1] = b
        BY <4>1
      <4> QED  BY <3>1, <4>2 DEF HoldersIn
    <3>2. CASE p \notin called
      BY <1>3, <3>2 DEF HoldersIn
    <3> QED  BY <3>1, <3>2
  <2>4. old \cap new = {}
    <3> SUFFICES ASSUME NEW p \in old, p \in called  PROVE  FALSE
      OBVIOUS
    <3>1. target[p] = b \/ \E s \in Seats(q, p) : s[1] = b
      BY DEF HoldersIn
    <3>2. target[p] # b /\ \A s \in Seats(q, p) : s[1] # b
      BY <1>6, <1>7, Sizes
    <3> QED  BY <3>1, <3>2
  <2>5. IsFiniteSet(old) /\ Cardinality(old) \in Nat
    BY HoldersFinite
  <2>6. IsFiniteSet(new) /\ Cardinality(new) \in Nat /\ Cardinality(new) <= n[t]
    BY <1>1, CalledBound DEF called
  <2> HIDE DEF old, new
  <2>7. Cardinality(old \cup new) = Cardinality(old) + Cardinality(new) - Cardinality(old \cap new)
    BY <2>5, <2>6, FS_Union
  <2>8. Cardinality(old \cap new) = 0
    BY <2>4, FS_EmptySet, Zenon
  <2>9. Cardinality(old \cup new) = Cardinality(old) + Cardinality(new)
    BY <2>5, <2>6, <2>7, <2>8
  <2>10. w.invited[b][t] = Cardinality(old)
    BY <1>1, <2>1 DEF CountedIn, old
  <2>11. w.invited[b][t] + n[t] <= MaxPlayers /\ n[t] \in Nat
    BY <2>1
  <2>12. v.invited[b][t] = (w.invited[b][t] + Cardinality(told_of(t))) % CounterSpace
    BY <1>2, <1>9 DEF Counters
  <2>13. v.invited[b][t] = (Cardinality(old) + Cardinality(new)) % CounterSpace
    BY <2>2, <2>10, <2>12
  <2>14. Cardinality(old) + Cardinality(new) <= MaxPlayers
    BY <2>5, <2>6, <2>10, <2>11, Sizes
  <2>15. Cardinality(old) + Cardinality(new) \in 0 .. CounterSpace - 1
    BY <2>5, <2>6, <2>14, Sizes
  <2>16. (Cardinality(old) + Cardinality(new)) % CounterSpace = Cardinality(old) + Cardinality(new)
    BY <2>15, Sizes
  <2> QED  BY <2>3, <2>9, <2>13, <2>14, <2>16
<1>21. CountedIn(r, v.invited, v.status, v.missed)
  <2> SUFFICES ASSUME NEW c \in Bg, w.status[c] \in {"join", "progress", "leave"},
                      c \notin v.missed, NEW t \in Team
               PROVE  v.invited[c][t] = Cardinality(HoldersIn(r, c, t)) /\ v.invited[c][t] <= MaxPlayers
    BY <1>2 DEF CountedIn
  <2>1. CASE c = b
    BY <1>20, <2>1
  <2>2. CASE c # b
    <3>1. c \notin w.missed
      BY <1>2
    <3>2. w.invited[c][t] = Cardinality(HoldersIn(q, c, t)) /\ w.invited[c][t] <= MaxPlayers
      BY <1>1, <3>1 DEF CountedIn
    <3>3. v.invited[c] = w.invited[c]
      BY <1>2, <1>9, <2>2 DEF Counters
    <3>4. HoldersIn(r, c, t) = HoldersIn(q, c, t)
      BY <1>19, <2>2
    <3> QED  BY <3>2, <3>3, <3>4
  <2> QED  BY <2>1, <2>2
<1>22. SeatsKept(q, r)
  <2> SUFFICES ASSUME NEW p \in Player, NEW s \in Seats(q, p), s[1] # NoBg
               PROVE  s \in Seats(r, p)
    BY DEF SeatsKept
  <2>1. p \notin called
    BY <1>6
  <2> QED  BY <1>3, <2>1
<1>23. MadeInOrder(v.status)
  BY <1>1, <1>2
<1>24. Good(v)
  BY <1>3, <1>15, <1>16, <1>17, <1>18, <1>21, <1>23 DEF Good
<1> QED  BY <1>2, <1>22, <1>24 DEF v

\* What the records of an update say when one field changes.
LEMMA GoodFields ==
  ASSUME NEW w, Good(w)
  PROVE  /\ \A x \in Seq(Bg) : LET v == [w EXCEPT !.free = x]
                               IN Good(v) /\ v.queue = w.queue /\ v.status = w.status
         /\ LET v == [w EXCEPT !.full = TRUE]
            IN Good(v) /\ v.queue = w.queue /\ v.status = w.status
         /\ w.free \in Seq(Bg)
<1>1. w \in Work
  BY DEF Good
<1>2. ASSUME NEW x \in Seq(Bg)
      PROVE  LET v == [w EXCEPT !.free = x]
             IN Good(v) /\ v.queue = w.queue /\ v.status = w.status
  <2> DEFINE v == [w EXCEPT !.free = x]
  <2>1. v \in Work /\ v.queue = w.queue /\ v.invited = w.invited /\ v.slot = w.slot
        /\ v.events = w.events /\ v.status = w.status /\ v.missed = w.missed
    BY <1>1 DEF Work
  <2> HIDE DEF v
  <2>2. Good(v)
    BY <2>1 DEF Good
  <2> QED  BY <2>1, <2>2 DEF v
<1>3. LET v == [w EXCEPT !.full = TRUE]
      IN Good(v) /\ v.queue = w.queue /\ v.status = w.status
  <2> DEFINE v == [w EXCEPT !.full = TRUE]
  <2>1. v \in Work /\ v.queue = w.queue /\ v.invited = w.invited /\ v.slot = w.slot
        /\ v.events = w.events /\ v.status = w.status /\ v.missed = w.missed
    BY <1>1 DEF Work
  <2> HIDE DEF v
  <2>2. Good(v)
    BY <2>1 DEF Good
  <2> QED  BY <2>1, <2>2 DEF v
<1>4. w.free \in Seq(Bg)
  BY <1>1 DEF Work
<1> QED  BY <1>2, <1>3, <1>4

\* A set of numbers has a least one.
LEMMA MinIn ==
  ASSUME NEW s \in SUBSET Nat, s # {}
  PROVE  Min(s) \in s
<1>1. PICK z \in s : \A y \in s : ~ (<<y, z>> \in OpToRel(<, Nat))
  BY NatLessThanWellFounded, WFMin
<1>2. z \in Nat /\ \A y \in s : y \in Nat /\ ~(y < z)
  BY <1>1 DEF OpToRel
<1>3. \A y \in s : z <= y
  BY <1>2
<1> QED  BY <1>3 DEF Min

\* Erasing a battleground from the list of free slots leaves a list.
LEMMA RemoveFirstOK ==
  ASSUME NEW S, NEW s \in Seq(S), NEW e
  PROVE  RemoveFirst(s, e) \in Seq(S)
<1> DEFINE I == {i \in 1 .. Len(s) : s[i] = e}
<1>1. CASE I = {}
  <2>1. ~ \E i \in 1 .. Len(s) : s[i] = e
    BY <1>1
  <2> QED  BY <2>1 DEF RemoveFirst
<1>2. CASE I # {}
  <2>1. \E i \in 1 .. Len(s) : s[i] = e
    BY <1>2
  <2>2. RemoveFirst(s, e) = RemoveAt(s, Min(I))
    BY <1>2, <2>1 DEF RemoveFirst, SelectInSeq
  <2>3. I \in SUBSET Nat
    OBVIOUS
  <2>4. Min(I) \in I
    <3> HIDE DEF I
    <3> QED  BY <1>2, <2>3, MinIn
  <2>5. Min(I) \in DOMAIN s
    BY <2>4
  <2> HIDE DEF I
  <2> QED  BY <2>2, <2>5, RemoveAtProps
<1> QED  BY <1>1, <1>2

\* Nobody loses his seat in two steps of which neither costs one.
LEMMA SeatsKeptTransitive ==
  ASSUME NEW q, NEW r, NEW u, SeatsKept(q, r), SeatsKept(r, u)
  PROVE  SeatsKept(q, u)
BY DEF SeatsKept

\* What follows from the work w: the places in the queue are kept, and the
\* battlegrounds are as they are.
After(w) == {v \in Work : Good(v) /\ SeatsKept(w.queue, v.queue) /\ v.status = w.status}

\* One battleground with free slots is filled.
LEMMA FillOneOK ==
  ASSUME NEW w, w.status = status, NEW v \in After(w), NEW b \in Bg, now \in 0 .. MaxTime
  PROVE  FillOne(v, b) \in After(w)
<1> DEFINE n == [t \in Team |-> GetFreeSlotsForTeam(v, b, t)]
           u == Invite(v, FillPlayersToBG(v, b), b)
<1>1. v \in Work /\ Good(v) /\ SeatsKept(w.queue, v.queue) /\ v.status = status
  BY DEF After
<1>2. QueueOK(v.queue) /\ v.invited \in Counters /\ CountedIn(v.queue, v.invited, v.status, v.missed)
  BY <1>1 DEF Good, Work
<1>3. CASE ~Open(b)
  <2>1. FillOne(v, b) = v
    BY <1>3 DEF FillOne
  <2> QED  BY <2>1
<1>4. CASE Open(b)
  <2>1. v.status[b] \in {"join", "progress", "leave"} /\ v.status[b] # "none"
    BY <1>1, <1>4 DEF Open
  <2>2. n \in [Team -> Nat] /\ PoolsOf(FillPlayersToBG(v, b), v.queue, n)
    BY <1>2, FillPlayersOK
  <2>3. ASSUME b \notin v.missed, NEW t \in Team
        PROVE  v.invited[b][t] + n[t] <= MaxPlayers
    <3>1. v.invited[b][t] <= MaxPlayers
      BY <1>2, <2>1, <2>3 DEF CountedIn
    <3>2. v.invited[b][t] \in Nat
      BY <1>2 DEF Counters
    <3>3. n[t] = IF v.invited[b][t] < MaxPlayers THEN MaxPlayers - v.invited[b][t] ELSE 0
      BY DEF GetFreeSlotsForTeam
    <3> QED  BY <3>1, <3>2, <3>3, Sizes
  <2> HIDE DEF n
  <2>4. Good(u) /\ SeatsKept(v.queue, u.queue) /\ u.status = v.status
    BY <1>1, <2>1, <2>2, <2>3, InviteOK
  <2>5. FillOne(v, b) \in {u, [u EXCEPT !.free = RemoveFirst(u.free, b)]}
    BY <1>4 DEF FillOne
  <2> HIDE DEF u
  <2>6. SeatsKept(w.queue, u.queue)
    BY <1>1, <2>4, SeatsKeptTransitive
  <2>7. u \in After(w)
    BY <1>1, <2>4, <2>6 DEF After, Good
  <2> DEFINE x == RemoveFirst(u.free, b)
             z == [u EXCEPT !.free = x]
  <2>8. x \in Seq(Bg)
    BY <2>4, GoodFields, RemoveFirstOK
  <2> HIDE DEF x
  <2>9. Good(z) /\ z.queue = u.queue /\ z.status = u.status
    BY <2>4, <2>8, GoodFields
  <2> HIDE DEF z
  <2>10. z \in After(w)
    BY <1>1, <2>4, <2>6, <2>9 DEF After, Good
  <2> QED  BY <2>5, <2>7, <2>10 DEF x, z
<1> QED  BY <1>3, <1>4

\* BattleGroundQueue::Update, first part: all battlegrounds with free slots.
LEMMA FillFreeOK ==
  ASSUME NEW w, Good(w), w.status = status, now \in 0 .. MaxTime
  PROVE  FillFree(w) \in After(w)
<1> DEFINE A == After(w)
           S == DOMAIN w.free
           b == w
           R == [x \in A \X S |-> FillOne(x[1], w.free[x[2]])]
           c == [s \in SUBSET S |-> Max(s)]
           Eq(it) == it = [s \in SUBSET S |->
                             IF s = {} THEN b
                             ELSE FillOne(it[s \ {Max(s)}], w.free[Max(s)])]
           f == CHOOSE it : Eq(it)
<1>0. w.free \in Seq(Bg)
  BY GoodFields
<1>1. b \in A
  BY DEF After, Good, SeatsKept
<1>2. IsFiniteSet(S) /\ \A s \in SUBSET S : s # {} => c[s] \in s /\ c[s] = Max(s)
  BY <1>0, SeqFolds
<1>3. \A i \in S : w.free[i] \in Bg
  BY <1>0
<1>4. \A a \in A, i \in S : FillOne(a, w.free[i]) \in A
  BY <1>3, FillOneOK
<1> HIDE DEF A, b
<1>5. Steps(R, A, S) /\ Chooses(c, S)
  BY <1>2, <1>4 DEF Steps, Chooses
<1>6. PICK h : Folded(h, A, S, b, R, c)
  <2> HIDE DEF R, c, S
  <2> QED  BY <1>1, <1>2, <1>5, FoldExists
<1>7. Eq(h)
  <2>1. ASSUME NEW s \in SUBSET S, s # {}
        PROVE  h[s] = FillOne(h[s \ {Max(s)}], w.free[Max(s)])
    <3>1. h[s \ {Max(s)}] \in A /\ Max(s) \in S /\ c[s] = Max(s)
      BY <1>2, <1>6, <2>1 DEF Folded
    <3>2. h[s] = R[<<h[s \ {Max(s)}], Max(s)>>]
      BY <1>6, <2>1, <3>1 DEF Folded
    <3> QED  BY <3>1, <3>2
  <2> DEFINE F(s) == IF s = {} THEN b ELSE FillOne(h[s \ {Max(s)}], w.free[Max(s)])
  <2>2. \A s \in SUBSET S : h[s] = F(s)
    BY <1>6, <2>1 DEF Folded
  <2> HIDE DEF F
  <2>3. h = [s \in SUBSET S |-> F(s)]
    BY <1>6, <2>2 DEF Folded
  <2> QED  BY <2>3 DEF F
<1>8. Eq(f)
  <2> HIDE DEF Eq
  <2> QED  BY <1>7, Zenon
<1>9. FillFree(w) = f[S]
  BY DEF FillFree, FoldLeft, MapThenFoldSet, b
<1> HIDE DEF f, c
<1>10. f[{}] = b /\ \A s \in SUBSET S : s # {} =>
          f[s] = FillOne(f[s \ {Max(s)}], w.free[Max(s)])
  BY <1>8
<1> DEFINE P == (SUBSET S) \X A
<1>11. <<{}, f[{}]>> \in P
  BY <1>1, <1>10
<1>12. ASSUME NEW s \in SUBSET S, s # {}, <<s \ {c[s]}, f[s \ {c[s]}]>> \in P
       PROVE  <<s, f[s]>> \in P
  <2>1. c[s] = Max(s) /\ Max(s) \in S
    BY <1>2, <1>12
  <2>2. f[s \ {Max(s)}] \in A
    BY <1>12, <2>1
  <2>3. f[s] = FillOne(f[s \ {Max(s)}], w.free[Max(s)])
    BY <1>10, <1>12
  <2>4. f[s] \in A
    BY <1>4, <2>1, <2>2, <2>3
  <2> QED  BY <2>4
<1>13. <<S, f[S]>> \in P
  <2> HIDE DEF P, S
  <2>1. Keeps(f, c, S, P)
    BY <1>11, <1>12 DEF Keeps
  <2> QED  BY <1>2, <1>5, <2>1, FoldInvariant
<1> QED  BY <1>9, <1>13 DEF A

\* A battleground is made: the first whose number was not given yet.
NewBg(w) == Cardinality({c \in Bg : w.status[c] # "none"}) + 1
Made(w, b) == [w EXCEPT !.status[b] = "join"]

\* CreateNewBattleGround.
LEMMA MadeOK ==
  ASSUME NEW w, Good(w), NEW b \in Bg, b = NewBg(w)
  PROVE  /\ Good(Made(w, b)) /\ Made(w, b).queue = w.queue /\ Made(w, b).status[b] = "join"
         /\ \A t \in Team : Made(w, b).invited[b][t] = 0
<1> DEFINE x == [w.status EXCEPT ![b] = "join"]
           v == [w EXCEPT !.status = x]
           q == w.queue
<1>1. w \in Work /\ QueueOK(q) /\ TimedIn(q, w.slot, w.events) /\ Outside(q)
      /\ Unmade(q, w.invited, w.status) /\ MadeInOrder(w.status)
      /\ CountedIn(q, w.invited, w.status, w.missed)
  BY DEF Good
<1>2. w.status \in [Bg -> Status]
  BY <1>1 DEF Work
<1>3. x \in [Bg -> Status] /\ x[b] = "join" /\ \A c \in Bg : c # b => x[c] = w.status[c]
  BY <1>2 DEF Status
<1>4. Made(w, b) = v
  BY <1>1, <1>2 DEF Work, Made
<1> HIDE DEF x
<1>5. v \in Work /\ v.queue = w.queue /\ v.invited = w.invited /\ v.slot = w.slot
      /\ v.events = w.events /\ v.status = x /\ v.missed = w.missed
  BY <1>1, <1>3 DEF Work
<1> HIDE DEF v
<1>6. PICK k \in 0 .. MaxBgs : \A c \in Bg : w.status[c] # "none" <=> c <= k
  BY <1>1 DEF MadeInOrder
<1>7. b = k + 1
  <2>1. {c \in Bg : w.status[c] # "none"} = 1 .. k
    BY <1>6, Sizes DEF Bg
  <2>2. Cardinality(1 .. k) = k
    BY <1>6, FS_Interval
  <2>3. Cardinality({c \in Bg : w.status[c] # "none"}) = k
    BY <2>1, <2>2, Zenon
  <2> QED  BY <2>3 DEF NewBg
<1>8. w.status[b] = "none"
  <2>1. ~(b <= k) /\ b \in Bg
    BY <1>6, <1>7
  <2> QED  BY <1>6, <2>1
<1>9. MadeInOrder(x)
  <2>1. k + 1 \in 0 .. MaxBgs
    BY <1>6, <1>7, Sizes DEF Bg
  <2>2. \A c \in Bg : x[c] # "none" <=> c <= k + 1
    <3> SUFFICES ASSUME NEW c \in Bg  PROVE  x[c] # "none" <=> c <= k + 1
      OBVIOUS
    <3>1. CASE c = b
      BY <1>3, <1>7, <3>1
    <3>2. CASE c # b
      <4>1. x[c] = w.status[c]
        BY <1>3, <3>2
      <4>2. c <= k <=> c <= k + 1
        BY <1>6, <1>7, <3>2, Sizes
      <4> QED  BY <1>6, <4>1, <4>2
    <3> QED  BY <3>1, <3>2
  <2> QED  BY <2>1, <2>2 DEF MadeInOrder
<1>10. Unmade(q, w.invited, x)
  <2>1. \A c \in Bg : x[c] = "none" => w.status[c] = "none"
    BY <1>3
  <2> QED  BY <1>1, <2>1 DEF Unmade
<1>11. \A t \in Team : w.invited[b][t] = 0 /\ HoldersIn(q, b, t) = {}
  BY <1>1, <1>8 DEF Unmade, HoldersIn
<1>12. CountedIn(q, w.invited, x, w.missed)
  <2> SUFFICES ASSUME NEW c \in Bg, x[c] \in {"join", "progress", "leave"}, c \notin w.missed,
                      NEW t \in Team
               PROVE  w.invited[c][t] = Cardinality(HoldersIn(q, c, t)) /\ w.invited[c][t] <= MaxPlayers
    BY DEF CountedIn
  <2>1. CASE c = b
    <3>1. Cardinality(HoldersIn(q, b, t)) = 0
      <4>1. HoldersIn(q, b, t) = {}
        BY <1>11
      <4> QED  BY <4>1, FS_EmptySet, Zenon
    <3> QED  BY <1>11, <2>1, <3>1, Sizes
  <2>2. CASE c # b
    BY <1>1, <1>3, <2>2 DEF CountedIn
  <2> QED  BY <2>1, <2>2
<1>13. Good(v)
  BY <1>1, <1>5, <1>9, <1>10, <1>12 DEF Good
<1> QED  BY <1>3, <1>4, <1>5, <1>11, <1>13

Later(w) == {v \in Work : Good(v) /\ SeatsKept(w.queue, v.queue)}

\* A new battleground with the selected groups invited to it.
LEMMA CreateOK ==
  ASSUME NEW w, Good(w), NEW pools, PoolsOf(pools, w.queue, Full), now \in 0 .. MaxTime
  PROVE  Create(w, pools) \in Later(w)
<1> DEFINE b == NewBg(w)
           v == Made(w, b)
           u == Invite(v, pools, b)
           z == [u EXCEPT !.free = <<b>> \o u.free]
           e == [w EXCEPT !.full = TRUE]
<1>1. CASE b \notin Bg
  <2>1. Create(w, pools) = e
    BY <1>1 DEF Create, NewBg
  <2>2. Good(e) /\ e.queue = w.queue
    BY GoodFields
  <2> HIDE DEF e
  <2> QED  BY <2>1, <2>2 DEF Later, Good, SeatsKept
<1>2. CASE b \in Bg
  <2>1. Create(w, pools) = z
    BY <1>2 DEF Create, NewBg, Made
  <2>2. Good(v) /\ v.queue = w.queue /\ v.status[b] = "join" /\ \A t \in Team : v.invited[b][t] = 0
    BY <1>2, MadeOK
  <2> HIDE DEF v, b
  <2>3. Full \in [Team -> Nat] /\ \A t \in Team : Full[t] = MaxPlayers
    BY Sizes DEF Full
  <2>4. \A t \in Team : v.invited[b][t] + Full[t] <= MaxPlayers
    BY <2>2, <2>3, Sizes
  <2>5. PoolsOf(pools, v.queue, Full)
    BY <2>2
  <2>6. Good(u) /\ SeatsKept(v.queue, u.queue)
    BY <1>2, <2>2, <2>3, <2>4, <2>5, InviteOK
  <2> HIDE DEF u
  <2>7. <<b>> \o u.free \in Seq(Bg)
    <3>1. u.free \in Seq(Bg)
      BY <2>6, GoodFields
    <3>2. <<b>> \in Seq(Bg)
      BY <1>2
    <3> QED  BY <3>1, <3>2
  <2>8. Good(z) /\ z.queue = u.queue
    BY <2>6, <2>7, GoodFields
  <2> HIDE DEF z
  <2>9. SeatsKept(w.queue, z.queue)
    BY <2>2, <2>6, <2>8
  <2> QED  BY <2>1, <2>8, <2>9 DEF Later, Good
<1> QED  BY <1>1, <1>2

\* BattleGroundQueue::Update, last part: a normal match.
LEMMA MakeNormalOK ==
  ASSUME NEW w, Good(w), NEW pools, PoolsOf(pools, w.queue, Full), now \in 0 .. MaxTime
  PROVE  MakeNormal(w, pools) \in Later(w)
<1>1. Create(w, pools) \in Later(w)
  BY CreateOK
<1>2. w \in Later(w)
  BY DEF Later, Good, SeatsKept
<1> QED  BY <1>1, <1>2 DEF MakeNormal

\* A queue update makes at most two battlegrounds and invites only parties nobody
\* has invited.
LEMMA QueueUpdateOK ==
  ASSUME NEW w, Good(w), now \in 0 .. MaxTime
  PROVE  QueueUpdate(w) \in Later(w)
<1> DEFINE premade == CheckPremadeMatch(w)
           none == [t \in Team |-> <<>>]
           v == Create(w, premade)
<1>1. QueueOK(w.queue)
  BY DEF Good
<1>2. PoolsOf(premade, w.queue, Full)
  BY <1>1, PremadeOK
<1>3. QueueUpdate(w) = MakeNew(w, premade)
  BY DEF QueueUpdate
<1> HIDE DEF premade
<1>4. CASE Enough(premade)
  <2>1. MakeNew(w, premade) = MakeNormal(v, NormalPools(v, none))
    BY <1>4 DEF MakeNew
  <2>2. v \in Work /\ Good(v) /\ SeatsKept(w.queue, v.queue)
    BY <1>2, CreateOK DEF Later
  <2> HIDE DEF v
  <2>3. QueueOK(v.queue)
    BY <2>2 DEF Good
  <2>4. \A t \in Team : none[t] = <<>> /\ <<>> \in Pools(ToSet(v.queue[t]), MaxPlayers)
                        /\ Full[t] = MaxPlayers
    BY <2>3, Sizes, QueueSets DEF Full
  <2> HIDE DEF none
  <2>5. PoolsOf(none, v.queue, Full)
    BY <2>4 DEF PoolsOf
  <2>6. PoolsOf(NormalPools(v, none), v.queue, Full)
    BY <2>3, <2>5, NormalPoolsOK
  <2>7. MakeNormal(v, NormalPools(v, none)) \in Later(v)
    BY <2>2, <2>6, MakeNormalOK
  <2>8. Later(v) \subseteq Later(w)
    BY <2>2, SeatsKeptTransitive DEF Later
  <2> QED  BY <1>3, <2>1, <2>7, <2>8
<1>5. CASE ~Enough(premade)
  <2>1. MakeNew(w, premade) = MakeNormal(w, NormalPools(w, premade))
    BY <1>5 DEF MakeNew
  <2>2. PoolsOf(NormalPools(w, premade), w.queue, Full)
    BY <1>1, <1>2, NormalPoolsOK
  <2> QED  BY <1>3, <2>1, <2>2, MakeNormalOK
<1> QED  BY <1>4, <1>5

-----------------------------------------------------------------------------
(***************************************************************************)
(* The players an update takes out of the queue                            *)
(***************************************************************************)
LEMMA RemovePlayerFields ==
  ASSUME NEW w \in Work, NEW p, QueueOK(w.queue)
  PROVE  LET v == RemovePlayer(w, p, TRUE)
         IN /\ v.queue = LeftQueue(w.queue, p)
            /\ v.invited = LeftCounters(w.queue, w.invited, p, TRUE)
            /\ v.slot = w.slot /\ v.events = w.events /\ v.status = w.status
            /\ v.free = w.free /\ v.missed = w.missed /\ v.full = w.full
            /\ v.queue \in [Team -> Seq(Group)] /\ v.invited \in Counters => v \in Work
<1> DEFINE t == TeamOf[p]
           i == PlaceOf(w.queue, p)
           g == w.queue[t][i]
           x == [w.queue EXCEPT ![t] = IF g.players = {p} THEN RemoveAt(w.queue[t], i)
                                       ELSE [w.queue[t] EXCEPT ![i] = Without(g, p)]]
           y == IF Exists(g.bg) THEN Decreased(w.invited, g.bg, t) ELSE w.invited
           v == [w EXCEPT !.queue = x, !.invited = y]
<1>1. CASE GroupsWith(w.queue, p) = {}
  BY <1>1 DEF RemovePlayer, LeftQueue, LeftCounters
<1>2. CASE GroupsWith(w.queue, p) # {}
  <2>1. LeftQueue(w.queue, p) = x
    BY <1>2 DEF LeftQueue
  <2>2. LeftCounters(w.queue, w.invited, p, TRUE) = y
    BY <1>2 DEF LeftCounters
  <2>3. RemovePlayer(w, p, TRUE) = v
    BY <1>2 DEF RemovePlayer, Work
  <2> HIDE DEF x, y
  <2>4. /\ v.queue = x /\ v.invited = y
        /\ v.slot = w.slot /\ v.events = w.events /\ v.status = w.status
        /\ v.free = w.free /\ v.missed = w.missed /\ v.full = w.full
    BY DEF Work
  <2>5. x \in [Team -> Seq(Group)] /\ y \in Counters => v \in Work
    BY DEF Work
  <2> HIDE DEF v
  <2> QED  BY <2>1, <2>2, <2>3, <2>4, <2>5
<1> QED  BY <1>1, <1>2

\* What does not change while players are taken out.
Purging(w) ==
    {v \in Work :
        /\ QueueOK(v.queue) /\ Outside(v.queue)
        /\ CountedIn(v.queue, v.invited, status, v.missed)
        /\ v.slot = w.slot /\ v.events = w.events /\ v.status = w.status
        /\ v.missed = w.missed
        /\ \A b \in Bg : status[b] = "none" => v.invited[b] = w.invited[b]}

Purged(v, p) == RemovePlayer(v, p, TRUE)

\* RemovePlayer of one who has been offline for too long.
LEMMA PurgeOne ==
  ASSUME NEW w, NEW v \in Purging(w), NEW p \in Player, status \in [Bg -> Status]
  PROVE  /\ Purged(v, p) \in Purging(w)
         /\ Seats(Purged(v, p).queue, p) = {}
         /\ \A x \in Player : x # p => Seats(Purged(v, p).queue, x) = Seats(v.queue, x)
<1> DEFINE u == RemovePlayer(v, p, TRUE)
<1>1. /\ v \in Work /\ QueueOK(v.queue) /\ Outside(v.queue)
      /\ CountedIn(v.queue, v.invited, status, v.missed)
      /\ v.slot = w.slot /\ v.events = w.events /\ v.status = w.status /\ v.missed = w.missed
      /\ \A b \in Bg : status[b] = "none" => v.invited[b] = w.invited[b]
  BY DEF Purging
<1>2. v.invited \in Counters
  BY <1>1 DEF Work
<1>3. /\ u.queue = LeftQueue(v.queue, p)
      /\ u.invited = LeftCounters(v.queue, v.invited, p, TRUE)
      /\ u.slot = v.slot /\ u.events = v.events /\ u.status = v.status
      /\ u.missed = v.missed
      /\ u.queue \in [Team -> Seq(Group)] /\ u.invited \in Counters => u \in Work
  BY <1>1, RemovePlayerFields
<1> HIDE DEF u
<1>4. /\ QueueOK(u.queue) /\ Seats(u.queue, p) = {}
      /\ \A x \in Player : x # p => Seats(u.queue, x) = Seats(v.queue, x)
  BY <1>1, <1>3, LeftQueueOK
<1>5. /\ u.invited \in Counters
      /\ CountedIn(u.queue, u.invited, status, v.missed)
      /\ \A b \in Bg : status[b] = "none" => u.invited[b] = v.invited[b]
  <2> DEFINE new == LeftCounters(v.queue, v.invited, p, TRUE)
  <2>1. /\ new \in Counters
        /\ CountedIn(LeftQueue(v.queue, p), new, status, v.missed)
        /\ \A b \in Bg : status[b] = "none" => new[b] = v.invited[b]
    <3>1. QueueOK(v.queue) /\ Outside(v.queue) /\ CountedIn(v.queue, v.invited, status, v.missed)
      BY <1>1
    <3> QED  BY <1>2, <3>1, LeftCountersOK
  <2> HIDE DEF new
  <2>2. u.queue = LeftQueue(v.queue, p) /\ u.invited = new
    BY <1>3 DEF new
  <2> QED  BY <2>1, <2>2
<1>6. Outside(u.queue)
  BY <1>1, <1>4 DEF Outside
<1>7. u \in Work
  BY <1>3, <1>4, <1>5 DEF QueueOK
<1>8. \A b \in Bg : status[b] = "none" => u.invited[b] = w.invited[b]
  BY <1>1, <1>5
<1>9. u \in Purging(w)
  BY <1>1, <1>3, <1>4, <1>5, <1>6, <1>7, <1>8 DEF Purging
<1> QED  BY <1>4, <1>9 DEF u, Purged

AllPurged(w, S) == FoldSet(LAMBDA p, v : RemovePlayer(v, p, TRUE), w, S)

\* RemovePlayer of all of them.
LEMMA PurgeAll ==
  ASSUME NEW w, w \in Purging(w), NEW S \in SUBSET Player, status \in [Bg -> Status]
  PROVE  /\ AllPurged(w, S) \in Purging(w)
         /\ \A p \in Player :
               Seats(AllPurged(w, S).queue, p) = IF p \in S THEN {} ELSE Seats(w.queue, p)
<1> DEFINE A == Purging(w)
           pick(s) == CHOOSE x \in s : TRUE
           R == [x \in A \X S |-> Purged(x[1], x[2])]
           c == [s \in SUBSET S |-> pick(s)]
           Eq(it) == it = [s \in SUBSET S |->
                             IF s = {} THEN w
                             ELSE Purged(it[s \ {CHOOSE x \in s : TRUE}], CHOOSE x \in s : TRUE)]
           f == CHOOSE it : Eq(it)
<1>1. IsFiniteSet(S)
  BY BattleGroundQueueAssumption, FS_Subset
<1>2. ASSUME NEW s \in SUBSET S, s # {}  PROVE  pick(s) \in s /\ c[s] = pick(s)
  BY <1>2
<1>3. ASSUME NEW a \in A, NEW p \in S
      PROVE  /\ Purged(a, p) \in A
             /\ Seats(Purged(a, p).queue, p) = {}
             /\ \A x \in Player : x # p => Seats(Purged(a, p).queue, x) = Seats(a.queue, x)
  BY PurgeOne, SMTT(30)
<1>4. AllPurged(w, S) = f[S]
  BY DEF AllPurged, FoldSet, MapThenFoldSet, Purged
<1> HIDE DEF A
<1>5. Steps(R, A, S) /\ Chooses(c, S)
  BY <1>2, <1>3 DEF Steps, Chooses
<1>6. PICK h : Folded(h, A, S, w, R, c)
  <2>1. w \in A
    BY DEF A
  <2> HIDE DEF R, c
  <2> QED  BY <1>1, <1>5, <2>1, FoldExists
<1>7. Eq(h)
  <2>1. ASSUME NEW s \in SUBSET S, s # {}
        PROVE  h[s] = Purged(h[s \ {pick(s)}], pick(s))
    <3>1. pick(s) \in s /\ c[s] = pick(s)
      BY <1>2, <2>1
    <3> HIDE DEF pick
    <3>2. h[s \ {pick(s)}] \in A /\ pick(s) \in S
      BY <1>6, <3>1 DEF Folded
    <3>3. h[s] = R[<<h[s \ {c[s]}], c[s]>>]
      <4> HIDE DEF R, c
      <4> QED  BY <1>6, <2>1 DEF Folded
    <3> QED  BY <3>1, <3>2, <3>3
  <2> DEFINE F(s) == IF s = {} THEN w ELSE Purged(h[s \ {pick(s)}], pick(s))
  <2>2. \A s \in SUBSET S : h[s] = F(s)
    <3> HIDE DEF pick
    <3> QED  BY <1>6, <2>1 DEF Folded
  <2> HIDE DEF F
  <2>3. h = [s \in SUBSET S |-> F(s)]
    BY <1>6, <2>2 DEF Folded
  <2> QED  BY <2>3 DEF F
<1>8. Eq(f)
  <2> HIDE DEF Eq
  <2> QED  BY <1>7, Zenon
<1> HIDE DEF f, c
<1>9. f[{}] = w /\ \A s \in SUBSET S : s # {} =>
          f[s] = Purged(f[s \ {pick(s)}], pick(s))
  BY <1>8
<1> HIDE DEF pick, Eq
<1> DEFINE P == {x \in (SUBSET S) \X A : \A p \in Player :
                   Seats(x[2].queue, p) = IF p \in x[1] THEN {} ELSE Seats(w.queue, p)}
<1>10. <<{}, f[{}]>> \in P
  BY <1>9 DEF A
<1>11. ASSUME NEW s \in SUBSET S, s # {}, <<s \ {c[s]}, f[s \ {c[s]}]>> \in P
       PROVE  <<s, f[s]>> \in P
  <2> DEFINE p == pick(s)
             a == f[s \ {p}]
  <2>1. c[s] = p /\ p \in s /\ p \in Player
    BY <1>2, <1>11
  <2>2. a \in A /\ \A x \in Player : Seats(a.queue, x) = IF x \in s \ {p} THEN {} ELSE Seats(w.queue, x)
    BY <1>11, <2>1
  <2>3. f[s] = Purged(a, p)
    BY <1>9, <1>11
  <2> HIDE DEF a, p
  <2>4. /\ f[s] \in A
        /\ Seats(f[s].queue, p) = {}
        /\ \A x \in Player : x # p => Seats(f[s].queue, x) = Seats(a.queue, x)
    <3>1. p \in S
      BY <2>1
    <3>2. a \in A
      BY <2>2
    <3>3. /\ Purged(a, p) \in A
          /\ Seats(Purged(a, p).queue, p) = {}
          /\ \A x \in Player : x # p => Seats(Purged(a, p).queue, x) = Seats(a.queue, x)
      BY <1>3, <3>1, <3>2
    <3> QED  BY <2>3, <3>3, Zenon
  <2>5. \A x \in Player : Seats(f[s].queue, x) = IF x \in s THEN {} ELSE Seats(w.queue, x)
    BY <2>1, <2>2, <2>4
  <2> QED  BY <2>4, <2>5
<1>12. <<S, f[S]>> \in P
  <2> HIDE DEF P
  <2>1. Keeps(f, c, S, P)
    BY <1>10, <1>11 DEF Keeps
  <2> QED  BY <1>1, <1>5, <2>1, FoldInvariant
<1>13. f[S] \in Purging(w)
       /\ \A p \in Player : Seats(f[S].queue, p) = IF p \in S THEN {} ELSE Seats(w.queue, p)
  BY <1>12 DEF A
<1> QED  BY <1>4, <1>13

\* What an update starts from.
Started == [queue |-> queue, invited |-> invited, slot |-> slot, events |-> events,
            status |-> status, free |-> free, missed |-> missed, full |-> FALSE]

\* The state Update starts from.
LEMMA StartedOK ==
  ASSUME QueueInv
  PROVE  /\ Good(Started) /\ Started \in Purging(Started) /\ Started.queue = queue
         /\ Started.status = status /\ Started.slot = slot /\ Started.events = events
         /\ Started.invited = invited /\ Started.missed = missed
<1>1. /\ Started.queue = queue /\ Started.invited = invited /\ Started.slot = slot
      /\ Started.events = events /\ Started.status = status /\ Started.free = free
      /\ Started.missed = missed /\ Started.full = FALSE
  BY DEF Started
<1>2. Started \in Work
  BY DEF QueueInv, TypeOK, Started, Work, Counters, Status, Event
<1> HIDE DEF Started
<1>3. Good(Started)
  BY <1>1, <1>2 DEF QueueInv, Good
<1>4. Started \in Purging(Started)
  BY <1>1, <1>2 DEF QueueInv, Purging
<1> QED  BY <1>1, <1>3, <1>4

\* The players whose battleground is over.
Over == {p \in Player : Queued(p) /\ GroupOf(p).bg # NoBg /\ status[GroupOf(p).bg] = "leave"}

\* A purge takes nobody out of the queue but them and the ones who are late.
LEMMA PurgeOK ==
  ASSUME QueueInv, NEW late \in SUBSET Player, \A p \in late : presence[p] = "offline"
  PROVE  /\ Good(Purge(Started, late))
         /\ Purge(Started, late).status = status
         /\ \A p \in Player \ (late \cup Over) :
               Seats(Purge(Started, late).queue, p) = Seats(queue, p)
<1> DEFINE w == Started
           out == AllPurged(w, late \cup Over)
           x == [p \in Player |-> IF p \in Over \ late /\ presence[p] # "offline"
                                  THEN NotQueued ELSE out.slot[p]]
           u == [out EXCEPT !.slot = x]
<1>1. Good(w) /\ w \in Purging(w) /\ w.queue = queue /\ w.status = status /\ w.slot = slot
      /\ w.events = events /\ w.invited = invited /\ w.missed = missed
  BY StartedOK
<1>2. Purge(Started, late) = u
  BY DEF Purge, Over, AllPurged
<1> HIDE DEF w
<1>3. /\ out \in Purging(w)
      /\ \A p \in Player : Seats(out.queue, p) = IF p \in late \cup Over THEN {} ELSE Seats(queue, p)
  <2>1. late \cup Over \in SUBSET Player
    BY DEF Over
  <2>2. status \in [Bg -> Status]
    BY DEF QueueInv, TypeOK, Status
  <2> QED  BY <1>1, <2>1, <2>2, PurgeAll
<1> HIDE DEF out
<1>4. /\ out \in Work /\ QueueOK(out.queue) /\ Outside(out.queue)
      /\ CountedIn(out.queue, out.invited, status, out.missed)
      /\ out.slot = slot /\ out.events = events /\ out.status = status /\ out.missed = missed
      /\ \A b \in Bg : status[b] = "none" => out.invited[b] = invited[b]
  BY <1>1, <1>3 DEF Purging
<1>5. x \in [Player -> {NotQueued, NoBg} \cup Bg]
  BY <1>4 DEF Work
<1>6. \A p \in Player : p \notin Over => x[p] = slot[p]
  BY <1>4
<1> HIDE DEF x
<1>7. /\ u \in Work /\ u.queue = out.queue /\ u.invited = out.invited /\ u.slot = x
      /\ u.events = events /\ u.status = status /\ u.missed = missed
  BY <1>4, <1>5 DEF Work
<1> HIDE DEF u
<1>8. TimedIn(u.queue, u.slot, u.events)
  <2> SUFFICES ASSUME NEW p \in Player, presence[p] # "offline", NEW s \in Seats(out.queue, p)
               PROVE  x[p] \in {NoBg, s[1]}
                      /\ (x[p] # NoBg => [bg |-> s[1], time |-> s[2]] \in events[p])
    BY <1>7 DEF TimedIn
  <2>1. p \notin Over /\ s \in Seats(queue, p)
    BY <1>3
  <2>2. x[p] = slot[p]
    BY <1>6, <2>1
  <2> QED  BY <2>1, <2>2 DEF QueueInv, TimedIn
<1>9. Unmade(u.queue, u.invited, u.status)
  <2>1. \A p \in Player : \A s \in Seats(out.queue, p) : s \in Seats(queue, p)
    BY <1>3
  <2>2. Unmade(queue, invited, status)
    BY DEF QueueInv
  <2> QED  BY <1>4, <1>7, <2>1, <2>2 DEF Unmade
<1>10. MadeInOrder(u.status)
  BY <1>7 DEF QueueInv
<1>11. Good(u)
  BY <1>4, <1>7, <1>8, <1>9, <1>10 DEF Good
<1> QED  BY <1>2, <1>3, <1>7, <1>11

\* An update of the queue: the invitations of those who are neither late nor in a
\* battleground that is over are kept.
LEMMA UpdateWork ==
  ASSUME QueueInv, NEW late \in SUBSET Player, \A p \in late : presence[p] = "offline"
  PROVE  LET w == QueueUpdate(FillFree(Purge(Started, late)))
         IN /\ Good(w)
            /\ \A p \in Player \ (late \cup Over) : \A s \in Seats(queue, p) :
                  s[1] # NoBg => s \in Seats(w.queue, p)
<1> DEFINE u == Purge(Started, late)
           v == FillFree(u)
           w == QueueUpdate(v)
<1>0. now \in 0 .. MaxTime
  BY DEF QueueInv, TypeOK
<1>1. Good(u) /\ u.status = status
      /\ \A p \in Player \ (late \cup Over) : Seats(u.queue, p) = Seats(queue, p)
  BY PurgeOK
<1> HIDE DEF u
<1>2. Good(v) /\ SeatsKept(u.queue, v.queue)
  BY <1>0, <1>1, FillFreeOK DEF After
<1> HIDE DEF v
<1>3. Good(w) /\ SeatsKept(v.queue, w.queue)
  BY <1>0, <1>2, QueueUpdateOK DEF Later
<1> HIDE DEF w
<1>4. SeatsKept(u.queue, w.queue)
  BY <1>2, <1>3, SeatsKeptTransitive
<1>5. Good(w) /\ \A p \in Player \ (late \cup Over) : \A s \in Seats(queue, p) :
         s[1] # NoBg => s \in Seats(w.queue, p)
  BY <1>1, <1>3, <1>4 DEF SeatsKept
<1> QED  BY <1>5 DEF w, v, u

-----------------------------------------------------------------------------
(***************************************************************************)
(* The steps                                                               *)
(***************************************************************************)
LEMMA InitInv == Init => QueueInv
<1> SUFFICES ASSUME Init  PROVE  QueueInv
  OBVIOUS
<1>1. TypeOK
  <2>1. 0 \in 0 .. CounterSpace - 1 /\ 0 \in 0 .. MaxTime /\ 0 \in 0 .. MaxJoins
    BY Sizes
  <2>2. <<>> \in Seq(Group) /\ <<>> \in Seq(Bg)
    OBVIOUS
  <2>3. queue \in [Team -> Seq(Group)] /\ free \in Seq(Bg)
    BY <2>2 DEF Init
  <2>4. invited \in [Bg -> [Team -> 0 .. CounterSpace - 1]]
    BY <2>1 DEF Init
  <2> QED  BY <2>1, <2>3, <2>4 DEF Init, TypeOK, Where
<1>2. \A p \in Player : TeamOf[p] \in Team
  BY BattleGroundQueueAssumption
<1>3. \A p \in Player : Seats(queue, p) = {}
  BY <1>2 DEF Init, Seats, GroupsWith, ToSet
<1>4. QueueOK(queue)
  BY DEF Init, QueueOK
<1>5. TimedIn(queue, slot, events) /\ Outside(queue)
  BY <1>3 DEF TimedIn, Outside
<1>6. Unmade(queue, invited, status)
  BY <1>3, Sizes DEF Init, Unmade
<1>7. MadeInOrder(status)
  <2>1. 0 \in 0 .. MaxBgs /\ \A c \in Bg : status[c] # "none" <=> c <= 0
    BY Sizes DEF Init, Bg
  <2> QED  BY <2>1 DEF MadeInOrder
<1>8. CountedIn(queue, invited, status, missed)
  BY DEF Init, CountedIn
<1> QED  BY <1>1, <1>4, <1>5, <1>6, <1>7, <1>8 DEF QueueInv

\* What the invariant says of the queue and the counters.
LEMMA BooksInv ==
  ASSUME QueueInv, UNCHANGED <<queue, target, status, invited, missed>>
  PROVE  /\ QueueOK(queue)' /\ Outside(queue)' /\ Unmade(queue, invited, status)'
         /\ MadeInOrder(status)' /\ CountedIn(queue, invited, status, missed)'
<1>1. QueueOK(queue)' /\ MadeInOrder(status)'
  BY DEF QueueInv, QueueOK, MadeInOrder
<1>2. Outside(queue)' /\ Unmade(queue, invited, status)'
  BY DEF QueueInv, Outside, Unmade
<1>3. CountedIn(queue, invited, status, missed)'
  BY DEF QueueInv, CountedIn, HoldersIn
<1> QED  BY <1>1, <1>2, <1>3

\* The clock moves.
LEMMA TickInv ==
  ASSUME QueueInv, Tick
  PROVE  QueueInv'
<1>1. TypeOK'
  BY Sizes DEF QueueInv, TypeOK, Tick
<1>2. TimedIn(queue, slot, events)'
  BY DEF QueueInv, TimedIn, Tick
<1>3. UNCHANGED <<queue, target, status, invited, missed>>
  BY DEF Tick
<1> QED  BY <1>1, <1>2, <1>3, BooksInv DEF QueueInv

\* A move within the world, and to it and back.
LEMMA MoveInv ==
  ASSUME QueueInv, NEW p \in Player, NEW from \in Where \ {"offline"},
         NEW to \in Where \ {"offline"}, Move(p, from, to)
  PROVE  QueueInv'
<1>1. TypeOK'
  BY DEF QueueInv, TypeOK, Move
<1>2. TimedIn(queue, slot, events)'
  <2>1. \A x \in Player : presence'[x] # "offline" => presence[x] # "offline"
    BY DEF Move, QueueInv, TypeOK
  <2> QED  BY <2>1 DEF QueueInv, TimedIn, Move
<1>3. UNCHANGED <<queue, target, status, invited, missed>>
  BY DEF Move
<1> QED  BY <1>1, <1>2, <1>3, BooksInv DEF QueueInv

\* RemovePlayer on the books.
LEMMA BooksLeft ==
  ASSUME NEW p \in Player
  PROVE  /\ RemovePlayer(Books, p, TRUE).queue = LeftQueue(queue, p)
         /\ RemovePlayer(Books, p, TRUE).invited = LeftCounters(queue, invited, p, TRUE)
         /\ RemovePlayer(Books, p, FALSE).queue = LeftQueue(queue, p)
         /\ RemovePlayer(Books, p, FALSE).invited = invited
<1> DEFINE t == TeamOf[p]
           i == PlaceOf(queue, p)
           g == queue[t][i]
           x == [queue EXCEPT ![t] = IF g.players = {p} THEN RemoveAt(queue[t], i)
                                     ELSE [queue[t] EXCEPT ![i] = Without(g, p)]]
           y == IF Exists(g.bg) THEN Decreased(invited, g.bg, t) ELSE invited
<1>1. Books = [queue |-> queue, invited |-> invited] /\ Books.queue = queue /\ Books.invited = invited
  BY DEF Books
<1>2. CASE GroupsWith(queue, p) = {}
  BY <1>1, <1>2 DEF RemovePlayer, LeftQueue, LeftCounters
<1>3. CASE GroupsWith(queue, p) # {}
  <2>1. LeftQueue(queue, p) = x
    BY <1>3 DEF LeftQueue
  <2>2. LeftCounters(queue, invited, p, TRUE) = y
    BY <1>3 DEF LeftCounters
  <2>3. RemovePlayer(Books, p, TRUE) = [Books EXCEPT !.queue = x, !.invited = y]
    BY <1>3 DEF RemovePlayer, Books
  <2>4. RemovePlayer(Books, p, FALSE) = [Books EXCEPT !.queue = x, !.invited = invited]
    BY <1>3 DEF RemovePlayer, Books
  <2> HIDE DEF x, y
  <2>5. [Books EXCEPT !.queue = x, !.invited = y].queue = x
        /\ [Books EXCEPT !.queue = x, !.invited = y].invited = y
        /\ [Books EXCEPT !.queue = x, !.invited = invited].queue = x
        /\ [Books EXCEPT !.queue = x, !.invited = invited].invited = invited
    BY <1>1
  <2> QED  BY <2>1, <2>2, <2>3, <2>4, <2>5
<1> QED  BY <1>2, <1>3

\* A battleground goes from one phase to the next.
LEMMA PhaseInv ==
  ASSUME QueueInv, NEW b \in Bg, status[b] \in {"join", "progress"},
         NEW s \in {"progress", "leave"}, status' = [status EXCEPT ![b] = s],
         free' \in Seq(Bg), scheduled' \in BOOLEAN,
         UNCHANGED <<queue, slot, events, presence, target, invited, now, missed, joins>>
  PROVE  QueueInv'
<1>1. TypeOK'
  BY DEF QueueInv, TypeOK
<1>2. \A c \in Bg : /\ status'[c] = "none" <=> status[c] = "none"
                    /\ status'[c] \in {"join", "progress", "leave"} <=>
                       status[c] \in {"join", "progress", "leave"}
  BY DEF QueueInv, TypeOK
<1>3. QueueOK(queue)' /\ TimedIn(queue, slot, events)' /\ Outside(queue)'
  BY DEF QueueInv, QueueOK, TimedIn, Outside
<1>4. Unmade(queue, invited, status)' /\ MadeInOrder(status)'
  BY <1>2 DEF QueueInv, Unmade, MadeInOrder
<1>5. CountedIn(queue, invited, status, missed)'
  <2>1. \A c, t : HoldersIn(queue, c, t)' = HoldersIn(queue, c, t)
    BY DEF HoldersIn
  <2> QED  BY <1>2, <2>1 DEF QueueInv, CountedIn
<1> QED  BY <1>1, <1>3, <1>4, <1>5 DEF QueueInv

\* A battleground begins or ends.
LEMMA StartInv ==
  ASSUME QueueInv, NEW b \in Bg, Start(b) \/ EndBattleGround(b) \/ EndNow(b)
  PROVE  QueueInv'
<1>1. free \in Seq(Bg) /\ scheduled \in BOOLEAN
  BY DEF QueueInv, TypeOK
<1>2. RemoveFirst(free, b) \in Seq(Bg)
  BY <1>1, RemoveFirstOK
<1>3. CASE Start(b)
  BY <1>1, <1>3, PhaseInv DEF Start
<1>4. CASE EndBattleGround(b)
  <2>1. scheduled' \in BOOLEAN
    BY <1>1, <1>4 DEF EndBattleGround
  <2> QED  BY <1>2, <1>4, <2>1, PhaseInv DEF EndBattleGround
<1>5. CASE EndNow(b)
  BY <1>1, <1>2, <1>5, PhaseInv DEF EndNow
<1> QED  BY <1>3, <1>4, <1>5

\* Where the players are changes, and the slots of those who are not in the
\* queue: what the invariant says of one battleground depends on its holders.
LEMMA CountedSame ==
  ASSUME QueueInv, NEW b \in Bg, NEW t \in Team,
         \A p \in Player : Seats(queue, p)' = Seats(queue, p),
         \A p \in Player : target'[p] = b <=> target[p] = b
  PROVE  HoldersIn(queue, b, t)' = HoldersIn(queue, b, t)
BY DEF HoldersIn

\* A battleground is deleted; those inside, if any, are sent home.
LEMMA DeletedInv ==
  ASSUME QueueInv, NEW b \in Bg, Exists(b), Deleted(b), NEW S \in SUBSET Player,
         \A p \in S : target[p] = b,
         slot' = [p \in Player |-> IF p \in S THEN NotQueued ELSE slot[p]],
         target' = [p \in Player |-> IF p \in S THEN NoBg ELSE target[p]],
         presence' = [p \in Player |-> IF p \in S THEN "away" ELSE presence[p]],
         UNCHANGED <<queue, events, scheduled, now, joins>>
  PROVE  QueueInv'
<1>0. TypeOK /\ status[b] \in {"join", "progress", "leave"} /\ free \in Seq(Bg)
  BY DEF QueueInv, TypeOK, Exists
<1>1. TypeOK'
  <2>1. RemoveFirst(free, b) \in Seq(Bg)
    BY <1>0, RemoveFirstOK
  <2>2. [t \in Team |-> 0] \in [Team -> 0 .. CounterSpace - 1]
    BY Sizes
  <2>3. invited' \in [Bg -> [Team -> 0 .. CounterSpace - 1]]
    BY <1>0, <2>2 DEF TypeOK, Deleted
  <2>4. missed' \subseteq Bg /\ status' \in [Bg -> Status] /\ free' \in Seq(Bg)
    BY <1>0, <2>1 DEF TypeOK, Deleted, Status
  <2>5. slot' \in [Player -> {NotQueued, NoBg} \cup Bg] /\ presence' \in [Player -> Where]
        /\ target' \in [Player -> Bg \cup {NoBg}]
    BY <1>0 DEF TypeOK, Where
  <2> QED  BY <1>0, <2>3, <2>4, <2>5 DEF TypeOK, Status
<1>2. \A p \in Player : Seats(queue, p)' = Seats(queue, p)
  BY DEF Seats, GroupsWith
<1>3. \A p \in S : Seats(queue, p) = {}
  BY Sizes DEF QueueInv, Outside
<1>4. \A c \in Bg : /\ status'[c] = "none" <=> status[c] = "none"
                    /\ c # b => status'[c] = status[c] /\ invited'[c] = invited[c]
                    /\ c = b => status'[c] = "gone"
  BY <1>0 DEF Deleted, TypeOK
<1>5. QueueOK(queue)'
  BY DEF QueueInv, QueueOK
<1>6. TimedIn(queue, slot, events)'
  <2> SUFFICES ASSUME NEW p \in Player, presence'[p] # "offline", NEW s \in Seats(queue, p)
               PROVE  slot'[p] \in {NoBg, s[1]}
                      /\ (slot'[p] # NoBg => [bg |-> s[1], time |-> s[2]] \in events'[p])
    BY <1>2 DEF TimedIn
  <2>1. p \notin S
    BY <1>3
  <2> QED  BY <2>1 DEF QueueInv, TimedIn
<1>7. Outside(queue)'
  BY <1>2, <1>3 DEF QueueInv, Outside
<1>8. Unmade(queue, invited, status)'
  <2> SUFFICES ASSUME NEW c \in Bg, status'[c] = "none"
               PROVE  /\ \A t \in Team : invited'[c][t] = 0
                      /\ \A p \in Player : target'[p] # c /\ \A s \in Seats(queue, p) : s[1] # c
    BY <1>2 DEF Unmade
  <2>1. c # b /\ status[c] = "none" /\ c # NoBg
    BY <1>4, Sizes
  <2> QED  BY <1>4, <2>1 DEF QueueInv, Unmade
<1>9. MadeInOrder(status)'
  BY <1>4 DEF QueueInv, MadeInOrder
<1>10. CountedIn(queue, invited, status, missed)'
  <2> SUFFICES ASSUME NEW c \in Bg, status'[c] \in {"join", "progress", "leave"}, c \notin missed',
                      NEW t \in Team
               PROVE  invited'[c][t] = Cardinality(HoldersIn(queue, c, t)') /\ invited'[c][t] <= MaxPlayers
    BY DEF CountedIn
  <2>1. c # b /\ c # NoBg
    BY <1>4, Sizes
  <2>2. c \notin missed
    BY <2>1 DEF Deleted
  <2>3. \A p \in Player : target'[p] = c <=> target[p] = c
    BY <2>1
  <2>4. HoldersIn(queue, c, t)' = HoldersIn(queue, c, t)
    BY <1>2, <2>3, CountedSame
  <2> QED  BY <1>4, <2>1, <2>2, <2>4 DEF QueueInv, CountedIn
<1> QED  BY <1>1, <1>5, <1>6, <1>7, <1>8, <1>9, <1>10 DEF QueueInv

\* Two minutes after the end everyone inside is sent home.
LEMMA FinishInv ==
  ASSUME QueueInv, NEW b \in Bg, Finish(b)
  PROVE  QueueInv'
<1>1. Exists(b)
  BY Sizes DEF Finish, Exists
<1>2. Inside(b) \in SUBSET Player /\ \A p \in Inside(b) : target[p] = b
  BY DEF Inside
<1>3. /\ Deleted(b)
      /\ slot' = [p \in Player |-> IF p \in Inside(b) THEN NotQueued ELSE slot[p]]
      /\ target' = [p \in Player |-> IF p \in Inside(b) THEN NoBg ELSE target[p]]
      /\ presence' = [p \in Player |-> IF p \in Inside(b) THEN "away" ELSE presence[p]]
      /\ UNCHANGED <<queue, events, scheduled, now, joins>>
  BY DEF Finish
<1> QED  BY <1>1, <1>2, <1>3, DeletedInv

\* A battleground nobody is in goes, or asks for an update of the queue.
LEMMA EmptyInv ==
  ASSUME QueueInv, NEW b \in Bg, Empty(b)
  PROVE  QueueInv'
<1>1. CASE Deleted(b) /\ UNCHANGED scheduled
  <2>1. {} \in SUBSET Player /\ \A p \in {} : target[p] = b
    OBVIOUS
  <2>2. /\ slot' = [p \in Player |-> IF p \in {} THEN NotQueued ELSE slot[p]]
        /\ target' = [p \in Player |-> IF p \in {} THEN NoBg ELSE target[p]]
        /\ presence' = [p \in Player |-> IF p \in {} THEN "away" ELSE presence[p]]
    BY DEF Empty, QueueInv, TypeOK
  <2>3. Exists(b) /\ UNCHANGED <<queue, events, scheduled, now, joins>>
    BY <1>1 DEF Empty
  <2> QED  BY <1>1, <2>1, <2>2, <2>3, DeletedInv
<1>2. CASE scheduled' = TRUE /\ UNCHANGED <<status, invited, free, missed>>
  <2>1. TypeOK'
    BY <1>2 DEF Empty, QueueInv, TypeOK
  <2>2. TimedIn(queue, slot, events)'
    BY DEF Empty, QueueInv, TimedIn
  <2>3. UNCHANGED <<queue, target, status, invited, missed>>
    BY <1>2 DEF Empty
  <2> QED  BY <2>1, <2>2, <2>3, BooksInv DEF QueueInv
<1> QED  BY <1>1, <1>2 DEF Empty

\* A player forgets a battleground that does not exist any more.
LEMMA ForgottenInv ==
  ASSUME QueueInv, NEW p \in Player, ~Exists(target[p]),
         target' = [target EXCEPT ![p] = NoBg] \/ target' = target,
         UNCHANGED <<queue, status, invited, missed>>
  PROVE  /\ QueueOK(queue)' /\ Outside(queue)' /\ Unmade(queue, invited, status)'
         /\ MadeInOrder(status)' /\ CountedIn(queue, invited, status, missed)'
<1>0. TypeOK
  BY DEF QueueInv
<1>1. \A x \in Player : Seats(queue, x)' = Seats(queue, x)
  BY DEF Seats, GroupsWith
<1>2. ASSUME NEW x \in Player
      PROVE  target'[x] = target[x] \/ (x = p /\ target'[x] = NoBg)
  <2>1. target \in [Player -> Bg \cup {NoBg}]
    BY <1>0 DEF TypeOK
  <2>2. CASE target' = [target EXCEPT ![p] = NoBg]
    BY <2>1, <2>2
  <2>3. CASE target' = target
    BY <2>3
  <2> QED  BY <2>2, <2>3
<1>3. QueueOK(queue)' /\ MadeInOrder(status)'
  BY DEF QueueInv, QueueOK, MadeInOrder
<1>4. Outside(queue)'
  BY <1>1, <1>2 DEF QueueInv, Outside
<1>5. Unmade(queue, invited, status)'
  <2>1. \A c \in Bg : c # NoBg
    BY Sizes
  <2> QED  BY <1>1, <1>2, <2>1 DEF QueueInv, Unmade
<1>6. CountedIn(queue, invited, status, missed)'
  <2> SUFFICES ASSUME NEW c \in Bg, status[c] \in {"join", "progress", "leave"}, c \notin missed,
                      NEW t \in Team
               PROVE  invited[c][t] = Cardinality(HoldersIn(queue, c, t)') /\ invited[c][t] <= MaxPlayers
    BY DEF CountedIn
  <2>1. c # NoBg /\ target[p] # c
    BY Sizes DEF Exists
  <2>2. \A x \in Player : target'[x] = c <=> target[x] = c
    BY <1>2, <2>1
  <2>3. HoldersIn(queue, c, t)' = HoldersIn(queue, c, t)
    BY <1>1, <2>2, CountedSame
  <2> QED  BY <2>3 DEF QueueInv, CountedIn
<1> QED  BY <1>3, <1>4, <1>5, <1>6

\* A player arrives in the battleground he was invited to.
LEMMA ArriveInv ==
  ASSUME QueueInv, NEW p \in Player, Arrive(p)
  PROVE  QueueInv'
<1>1. TypeOK'
  <2>1. presence' \in [Player -> Where] /\ target' \in [Player -> Bg \cup {NoBg}]
    BY DEF QueueInv, TypeOK, Arrive, Where
  <2> QED  BY <2>1 DEF QueueInv, TypeOK, Arrive
<1>2. TimedIn(queue, slot, events)'
  <2>1. \A x \in Player : presence'[x] # "offline" => presence[x] # "offline"
    BY DEF Arrive, QueueInv, TypeOK
  <2> QED  BY <2>1 DEF QueueInv, TimedIn, Arrive
<1>3. CASE UNCHANGED target
  <2>1. UNCHANGED <<queue, target, status, invited, missed>>
    BY <1>3 DEF Arrive
  <2> QED  BY <1>1, <1>2, <2>1, BooksInv DEF QueueInv
<1>4. CASE ~Exists(target[p]) /\ target' = [target EXCEPT ![p] = NoBg]
  <2>1. UNCHANGED <<queue, status, invited, missed>>
    BY DEF Arrive
  <2>2. /\ QueueOK(queue)' /\ Outside(queue)' /\ Unmade(queue, invited, status)'
        /\ MadeInOrder(status)' /\ CountedIn(queue, invited, status, missed)'
    BY <1>4, <2>1, ForgottenInv
  <2> QED  BY <1>1, <1>2, <2>2 DEF QueueInv
<1> QED  BY <1>3, <1>4 DEF Arrive

\* A player leaves the battleground he is in: one holder less, one counted less.
LEMMA LeavesInv ==
  ASSUME QueueInv, NEW p \in Player, Exists(target[p]), NEW where \in Where,
         LeavesTo(p, target[p], where),
         events' \in [Player -> SUBSET Event], \A x \in Player : x # p => events'[x] = events[x],
         UNCHANGED <<queue, status, now, missed, joins>>
  PROVE  QueueInv'
<1> DEFINE b == target[p]
           t == TeamOf[p]
<1>0. TypeOK /\ b \in Bg /\ status[b] \in {"join", "progress", "leave"} /\ t \in Team
      /\ invited \in Counters
  <2>1. TypeOK /\ b \in Bg /\ status[b] \in {"join", "progress", "leave"}
    BY DEF QueueInv, TypeOK, Exists
  <2>2. t \in Team
    BY BattleGroundQueueAssumption
  <2>3. invited \in Counters
    BY DEF QueueInv, TypeOK, Counters
  <2> QED  BY <2>1, <2>2, <2>3
<1>1. /\ invited' = Decreased(invited, b, t)
      /\ slot' = [slot EXCEPT ![p] = NotQueued]
      /\ target' = [target EXCEPT ![p] = NoBg]
      /\ presence' = [presence EXCEPT ![p] = where]
      /\ free' = IF Open(b) /\ ~Contains(free, b) THEN <<b>> \o free ELSE free
      /\ scheduled' = (scheduled \/ Open(b))
  BY DEF LeavesTo
<1>2. /\ invited' \in Counters
      /\ invited[b][t] > 0 => invited'[b][t] = invited[b][t] - 1
      /\ \A c \in Bg, u \in Team : c # b \/ u # t => invited'[c][u] = invited[c][u]
  BY <1>0, <1>1, DecreasedOK
<1>3. Seats(queue, p) = {}
  BY <1>0, Sizes DEF QueueInv, Outside
<1>4. \A x \in Player : Seats(queue, x)' = Seats(queue, x)
  BY DEF Seats, GroupsWith
<1>5. target'[p] = NoBg /\ \A x \in Player : x # p => /\ target'[x] = target[x] /\ slot'[x] = slot[x]
                                                       /\ presence'[x] = presence[x]
  BY <1>0, <1>1 DEF TypeOK
<1>6. TypeOK'
  <2>1. <<b>> \o free \in Seq(Bg)
    <3>1. <<b>> \in Seq(Bg) /\ free \in Seq(Bg)
      BY <1>0 DEF TypeOK
    <3> QED  BY <3>1
  <2>2. free' \in Seq(Bg)
    BY <1>0, <1>1, <2>1 DEF TypeOK
  <2>3. scheduled' \in BOOLEAN
    BY <1>1
  <2>4. /\ slot' \in [Player -> {NotQueued, NoBg} \cup Bg] /\ presence' \in [Player -> Where]
        /\ target' \in [Player -> Bg \cup {NoBg}]
    BY <1>0, <1>1 DEF TypeOK
  <2> QED  BY <1>0, <1>2, <2>2, <2>3, <2>4 DEF TypeOK, Counters, Event
<1>7. QueueOK(queue)' /\ MadeInOrder(status)'
  BY DEF QueueInv, QueueOK, MadeInOrder
<1>8. TimedIn(queue, slot, events)'
  <2> SUFFICES ASSUME NEW x \in Player, presence'[x] # "offline", NEW s \in Seats(queue, x)
               PROVE  slot'[x] \in {NoBg, s[1]}
                      /\ (slot'[x] # NoBg => [bg |-> s[1], time |-> s[2]] \in events'[x])
    BY <1>4 DEF TimedIn
  <2>1. x # p
    BY <1>3
  <2> QED  BY <1>5, <2>1 DEF QueueInv, TimedIn
<1>9. Outside(queue)'
  BY <1>4, <1>5 DEF QueueInv, Outside
<1>10. Unmade(queue, invited, status)'
  <2> SUFFICES ASSUME NEW c \in Bg, status[c] = "none"
               PROVE  /\ \A u \in Team : invited'[c][u] = 0
                      /\ \A x \in Player : target'[x] # c /\ \A s \in Seats(queue, x) : s[1] # c
    BY <1>4 DEF Unmade
  <2>1. c # b /\ c # NoBg
    BY <1>0, Sizes
  <2> HIDE DEF b, t
  <2> QED  BY <1>2, <1>5, <2>1 DEF QueueInv, Unmade
<1>11. CountedIn(queue, invited, status, missed)'
  <2> SUFFICES ASSUME NEW c \in Bg, status[c] \in {"join", "progress", "leave"}, c \notin missed,
                      NEW u \in Team
               PROVE  invited'[c][u] = Cardinality(HoldersIn(queue, c, u)') /\ invited'[c][u] <= MaxPlayers
    BY DEF CountedIn
  <2>1. invited[c][u] = Cardinality(HoldersIn(queue, c, u)) /\ invited[c][u] <= MaxPlayers
    BY DEF QueueInv, CountedIn
  <2>2. CASE c # b \/ u # t
    <3>1. HoldersIn(queue, c, u)' = HoldersIn(queue, c, u)
      <4>1. \A x \in Player : TeamOf[x] = u => (target'[x] = c <=> target[x] = c)
        BY <1>5, <2>2, Sizes
      <4> QED  BY <1>4, <4>1 DEF HoldersIn
    <3>2. invited'[c][u] = invited[c][u]
      BY <1>2, <2>2
    <3> QED  BY <2>1, <3>1, <3>2
  <2>3. CASE c = b /\ u = t
    <3>1. HoldersIn(queue, c, u)' = HoldersIn(queue, c, u) \ {p}
      <4>1. \A x \in Player : target'[x] = c <=> target[x] = c /\ x # p
        BY <1>5, Sizes
      <4> QED  BY <1>3, <1>4, <4>1 DEF HoldersIn
    <3>2. p \in HoldersIn(queue, c, u)
      BY <2>3 DEF HoldersIn
    <3>3. IsFiniteSet(HoldersIn(queue, c, u)) /\ Cardinality(HoldersIn(queue, c, u)) \in Nat
      BY HoldersFinite
    <3>4. Cardinality(HoldersIn(queue, c, u) \ {p}) = Cardinality(HoldersIn(queue, c, u)) - 1
      BY <3>2, <3>3, FS_RemoveElement
    <3>5. Cardinality(HoldersIn(queue, c, u)) > 0
      <4>1. IsFiniteSet(HoldersIn(queue, c, u) \ {p})
        BY <3>3, FS_Subset
      <4>2. Cardinality(HoldersIn(queue, c, u) \ {p}) \in Nat
        BY <4>1, FS_CardinalityType
      <4> QED  BY <3>3, <3>4, <4>2
    <3>6. invited'[c][u] = invited[c][u] - 1
      BY <1>2, <2>1, <2>3, <3>5
    <3> QED  BY <2>1, <3>1, <3>3, <3>4, <3>6, Sizes
  <2> QED  BY <2>2, <2>3
<1> QED  BY <1>6, <1>7, <1>8, <1>9, <1>10, <1>11 DEF QueueInv

\* BattleGround::RemovePlayerAtLeave.
LEMMA LeaveBattlegroundInv ==
  ASSUME QueueInv, NEW p \in Player, LeaveBattleground(p)
  PROVE  QueueInv'
<1>1. events' \in [Player -> SUBSET Event] /\ \A x \in Player : x # p => events'[x] = events[x]
  BY DEF LeaveBattleground, QueueInv, TypeOK, Event
<1>2. "away" \in Where
  BY DEF Where
<1> QED  BY <1>1, <1>2, LeavesInv DEF LeaveBattleground

\* A player goes offline; his place in the queue stays.
LEMMA LogoutInv ==
  ASSUME QueueInv, NEW p \in Player, Logout(p)
  PROVE  QueueInv'
<1>0. events \in [Player -> SUBSET Event]
  BY DEF QueueInv, TypeOK, Event
<1>1. events' \in [Player -> SUBSET Event] /\ \A x \in Player : x # p => events'[x] = events[x]
  BY <1>0 DEF Logout
<1>2. "offline" \in Where
  BY DEF Where
<1>3. UNCHANGED <<queue, status, now, missed, joins>>
  BY DEF Logout
<1>4. CASE Exists(target[p]) /\ LeavesTo(p, target[p], "offline")
  BY <1>1, <1>2, <1>3, <1>4, LeavesInv
<1>5. CASE /\ ~Exists(target[p])
           /\ slot' = [slot EXCEPT ![p] = NotQueued]
           /\ target' = [target EXCEPT ![p] = NoBg]
           /\ presence' = [presence EXCEPT ![p] = "offline"]
           /\ UNCHANGED <<invited, free, scheduled>>
  <2>1. TypeOK'
    BY <1>1, <1>2, <1>3, <1>5 DEF QueueInv, TypeOK, Event
  <2>2. /\ QueueOK(queue)' /\ Outside(queue)' /\ Unmade(queue, invited, status)'
        /\ MadeInOrder(status)' /\ CountedIn(queue, invited, status, missed)'
    BY <1>3, <1>5, ForgottenInv
  <2>3. TimedIn(queue, slot, events)'
    <3>1. \A x \in Player : presence'[x] # "offline" =>
             presence[x] # "offline" /\ slot'[x] = slot[x] /\ events'[x] = events[x]
      BY <1>1, <1>5 DEF QueueInv, TypeOK
    <3>2. \A x \in Player : Seats(queue, x)' = Seats(queue, x)
      BY <1>3 DEF Seats, GroupsWith
    <3> QED  BY <3>1, <3>2 DEF QueueInv, TimedIn
  <2> QED  BY <2>1, <2>2, <2>3 DEF QueueInv
<1> QED  BY <1>4, <1>5 DEF Logout

\* A player comes back.
LEMMA LoginInv ==
  ASSUME QueueInv, NEW p \in Player, Login(p)
  PROVE  QueueInv'
<1> DEFINE c == GroupOf(p).bg
           d == GroupOf(p).time
<1>0. TypeOK /\ QueueOK(queue)
  BY DEF QueueInv
<1>1. /\ Queued(p) <=> Seats(queue, p) # {}
      /\ Queued(p) => <<c, d>> \in Seats(queue, p) /\ c \in Bg \cup {NoBg}
                      /\ d \in 0 .. MaxTime + InviteTime
  BY <1>0, GroupOfSeat
<1>2. Queued(p) => Seats(queue, p) = {<<c, d>>}
  BY <1>0, <1>1, OnePlace
<1>3. /\ presence' = [presence EXCEPT ![p] = "ready"]
      /\ slot' = IF Queued(p) THEN [slot EXCEPT ![p] = c] ELSE slot
      /\ events' = IF Queued(p) /\ c # NoBg
                   THEN [events EXCEPT ![p] = {[bg |-> c, time |-> d]}] ELSE events
      /\ UNCHANGED <<queue, target, status, invited, free, scheduled, now, missed, joins>>
  BY DEF Login
<1> HIDE DEF c, d
<1>4. TypeOK'
  <2>1. presence' \in [Player -> Where] /\ slot' \in [Player -> {NotQueued, NoBg} \cup Bg]
    BY <1>0, <1>1, <1>3 DEF TypeOK, Where
  <2>2. events' \in [Player -> SUBSET Event]
    <3>1. events \in [Player -> SUBSET Event]
      BY <1>0 DEF TypeOK, Event
    <3>2. Queued(p) /\ c # NoBg => {[bg |-> c, time |-> d]} \in SUBSET Event
      BY <1>1 DEF Event
    <3> QED  BY <1>3, <3>1, <3>2
  <2> QED  BY <1>0, <1>3, <2>1, <2>2 DEF TypeOK, Event
<1>5. /\ QueueOK(queue)' /\ Outside(queue)' /\ Unmade(queue, invited, status)'
      /\ MadeInOrder(status)' /\ CountedIn(queue, invited, status, missed)'
  BY <1>3, BooksInv
<1>7. TimedIn(queue, slot, events)'
  <2>0. \A x \in Player : Seats(queue, x)' = Seats(queue, x)
    BY <1>3 DEF Seats, GroupsWith
  <2> SUFFICES ASSUME NEW x \in Player, presence'[x] # "offline", NEW s \in Seats(queue, x)
               PROVE  slot'[x] \in {NoBg, s[1]}
                      /\ (slot'[x] # NoBg => [bg |-> s[1], time |-> s[2]] \in events'[x])
    BY <2>0 DEF TimedIn
  <2>1. CASE x # p
    <3>1. presence[x] # "offline" /\ slot'[x] = slot[x] /\ events'[x] = events[x]
      BY <1>0, <1>3, <2>1 DEF TypeOK
    <3> QED  BY <3>1 DEF QueueInv, TimedIn
  <2>2. CASE x = p
    <3>1. Queued(p) /\ s = <<c, d>>
      BY <1>1, <1>2, <2>2
    <3>2. slot'[p] = c
      BY <1>0, <1>3, <3>1 DEF TypeOK
    <3>3. c # NoBg => events'[p] = {[bg |-> c, time |-> d]}
      BY <1>0, <1>3, <3>1 DEF TypeOK
    <3> QED  BY <2>2, <3>1, <3>2, <3>3
  <2> QED  BY <2>1, <2>2
<1> QED  BY <1>4, <1>5, <1>7 DEF QueueInv

\* A player's place in the queue is given up.
LEMMA RemovedInv ==
  ASSUME QueueInv, NEW p \in Player, SetBooks(RemovePlayer(Books, p, TRUE)),
         slot' = [slot EXCEPT ![p] = NotQueued], scheduled' \in BOOLEAN,
         events' \in [Player -> SUBSET Event], \A x \in Player : x # p => events'[x] = events[x],
         UNCHANGED <<presence, target, status, free, now, missed, joins>>
  PROVE  QueueInv'
<1> DEFINE r == LeftQueue(queue, p)
           new == LeftCounters(queue, invited, p, TRUE)
<1>0. TypeOK /\ QueueOK(queue) /\ Outside(queue) /\ CountedIn(queue, invited, status, missed)
      /\ invited \in Counters /\ status \in [Bg -> Status]
  BY DEF QueueInv, TypeOK, Counters, Status
<1>1. queue' = r /\ invited' = new
  BY BooksLeft DEF SetBooks
<1>2. /\ QueueOK(r) /\ Seats(r, p) = {}
      /\ \A x \in Player : x # p => Seats(r, x) = Seats(queue, x)
  BY <1>0, LeftQueueOK
<1>3. /\ new \in Counters /\ CountedIn(r, new, status, missed)
      /\ \A b \in Bg : status[b] = "none" => new[b] = invited[b]
  BY <1>0, LeftCountersOK
<1> HIDE DEF r, new
<1>4. /\ Seats(queue, p)' = {}
      /\ \A x \in Player : x # p => Seats(queue, x)' = Seats(queue, x)
  BY <1>1, <1>2 DEF Seats, GroupsWith
<1>5. TypeOK'
  <2>1. queue' \in [Team -> Seq(Group)]
    BY <1>1, <1>2 DEF QueueOK
  <2>2. slot' \in [Player -> {NotQueued, NoBg} \cup Bg]
    BY <1>0 DEF TypeOK
  <2> QED  BY <1>0, <1>1, <1>3, <2>1, <2>2 DEF TypeOK, Counters, Event
<1>6. QueueOK(queue)'
  BY <1>1, <1>2 DEF QueueOK
<1>7. Outside(queue)' /\ MadeInOrder(status)'
  BY <1>4 DEF QueueInv, Outside, MadeInOrder
<1>8. TimedIn(queue, slot, events)'
  <2>1. \A x \in Player : x # p => slot'[x] = slot[x]
    BY <1>0 DEF TypeOK
  <2> QED  BY <1>4, <2>1 DEF QueueInv, TimedIn
<1>9. Unmade(queue, invited, status)'
  BY <1>1, <1>3, <1>4 DEF QueueInv, Unmade
<1>10. CountedIn(queue, invited, status, missed)'
  BY <1>1, <1>3 DEF CountedIn, HoldersIn
<1> QED  BY <1>5, <1>6, <1>7, <1>8, <1>9, <1>10 DEF QueueInv

\* BattleGroundQueue::RemovePlayer of one who leaves the queue.
LEMMA LeaveQueueInv ==
  ASSUME QueueInv, NEW p \in Player, LeaveQueue(p)
  PROVE  QueueInv'
<1>1. /\ events' \in [Player -> SUBSET Event] /\ scheduled' \in BOOLEAN
      /\ \A x \in Player : x # p => events'[x] = events[x]
  BY DEF LeaveQueue, QueueInv, TypeOK, Event
<1>2. /\ SetBooks(RemovePlayer(Books, p, TRUE)) /\ slot' = [slot EXCEPT ![p] = NotQueued]
      /\ UNCHANGED <<presence, target, status, free, now, missed, joins>>
  BY DEF LeaveQueue
<1> QED  BY <1>1, <1>2, RemovedInv

\* BGQueueRemoveEvent::Execute removes only the invitation it was made for.
LEMMA RemoveEventInv ==
  ASSUME QueueInv, NEW p \in Player, NEW e \in events[p], RemoveEvent(p, e)
  PROVE  QueueInv'
<1>0. TypeOK /\ events \in [Player -> SUBSET Event] /\ QueueOK(queue)
  BY DEF QueueInv, TypeOK, Event
<1>1. /\ events' \in [Player -> SUBSET Event] /\ \A x \in Player : x # p => events'[x] = events[x]
      /\ events'[p] = events[p] \ {e}
  BY <1>0 DEF RemoveEvent
<1>2. UNCHANGED <<presence, target, status, free, now, missed, joins>> /\ presence[p] # "offline"
  BY DEF RemoveEvent, InWorld
<1>3. CASE /\ slot' = [slot EXCEPT ![p] = NotQueued]
           /\ SetBooks(RemovePlayer(Books, p, TRUE))
           /\ scheduled' = (scheduled \/ Open(e.bg))
  <2>1. scheduled' \in BOOLEAN
    BY <1>3
  <2> QED  BY <1>1, <1>2, <1>3, <2>1, RemovedInv
<1>4. CASE /\ slot[p] = NotQueued \/ ~IsPlayerInvited(p, e)
           /\ UNCHANGED <<slot, queue, invited, scheduled>>
  <2>1. TypeOK'
    BY <1>0, <1>1, <1>2, <1>4 DEF TypeOK, Event
  <2>2. /\ QueueOK(queue)' /\ Outside(queue)' /\ Unmade(queue, invited, status)'
        /\ MadeInOrder(status)' /\ CountedIn(queue, invited, status, missed)'
    BY <1>2, <1>4, BooksInv
  <2>4. \A x \in Player : Seats(queue, x)' = Seats(queue, x)
    BY <1>4 DEF Seats, GroupsWith
  <2>5. ASSUME NEW s \in Seats(queue, p)  PROVE  [bg |-> s[1], time |-> s[2]] # e
    <3>1. s \in (Bg \cup {NoBg}) \X (0 .. MaxTime + InviteTime)
      BY <1>0, OnePlace
    <3>2. slot[p] \in {NoBg, s[1]}
      BY <1>2 DEF QueueInv, TimedIn
    <3>3. slot[p] # NotQueued
      BY <3>1, <3>2, Sizes DEF NoBg, NotQueued
    <3>4. ~IsPlayerInvited(p, e)
      BY <1>4, <3>3
    <3>5. PICK g \in GroupsWith(queue, p) : s = <<g.bg, g.time>>
      BY DEF Seats
    <3>6. ~(g.bg = e.bg /\ g.time = e.time)
      BY <3>4 DEF IsPlayerInvited
    <3> QED  BY <3>5, <3>6
  <2>6. TimedIn(queue, slot, events)'
    BY <1>1, <1>2, <1>4, <2>4, <2>5 DEF QueueInv, TimedIn
  <2> QED  BY <2>1, <2>2, <2>6 DEF QueueInv
<1> QED  BY <1>3, <1>4 DEF RemoveEvent

\* A player enters: his place in the queue becomes his place in the battleground.
LEMMA PortInv ==
  ASSUME QueueInv, NEW p \in Player, Port(p)
  PROVE  QueueInv'
<1> DEFINE r == LeftQueue(queue, p)
           b == GroupOf(p).bg
<1>0. TypeOK /\ QueueOK(queue) /\ Outside(queue)
  BY DEF QueueInv
<1>1. /\ Queued(p) /\ Open(b)
      /\ target' = [target EXCEPT ![p] = b]
      /\ presence' = [presence EXCEPT ![p] = "porting"]
      /\ presence[p] # "offline"
      /\ UNCHANGED <<slot, events, status, free, scheduled, now, missed, joins>>
  BY DEF Port, InWorld
<1>2. queue' = r /\ invited' = invited
  BY BooksLeft DEF SetBooks, Port
<1>3. /\ QueueOK(r) /\ Seats(r, p) = {}
      /\ \A x \in Player : x # p => Seats(r, x) = Seats(queue, x)
  BY <1>0, LeftQueueOK
<1>4. /\ b \in Bg \cup {NoBg} /\ Seats(queue, p) # {}
      /\ \A c : (\E s \in Seats(queue, p) : s[1] = c) <=> b = c
  BY <1>0, <1>1, GroupOfSeat
<1> HIDE DEF r, b
<1>5. b \in Bg /\ status[b] \in {"join", "progress"} /\ target[p] = NoBg
  BY <1>0, <1>1, <1>4 DEF Open, Outside
<1>6. /\ Seats(queue, p)' = {}
      /\ \A x \in Player : x # p => Seats(queue, x)' = Seats(queue, x)
  BY <1>2, <1>3 DEF Seats, GroupsWith
<1>7. target'[p] = b /\ \A x \in Player : x # p => /\ target'[x] = target[x]
                                                   /\ presence'[x] = presence[x]
  BY <1>0, <1>1 DEF TypeOK
<1>8. TypeOK'
  <2>1. queue' \in [Team -> Seq(Group)]
    BY <1>2, <1>3 DEF QueueOK
  <2>2. target' \in [Player -> Bg \cup {NoBg}] /\ presence' \in [Player -> Where]
    BY <1>0, <1>1, <1>5 DEF TypeOK, Where
  <2> QED  BY <1>0, <1>1, <1>2, <2>1, <2>2 DEF TypeOK
<1>9. QueueOK(queue)'
  BY <1>2, <1>3 DEF QueueOK
<1>10. Outside(queue)' /\ MadeInOrder(status)'
  BY <1>1, <1>6, <1>7 DEF QueueInv, Outside, MadeInOrder
<1>11. TimedIn(queue, slot, events)'
  BY <1>1, <1>6, <1>7 DEF QueueInv, TimedIn
<1>12. Unmade(queue, invited, status)'
  <2> SUFFICES ASSUME NEW c \in Bg, status[c] = "none"
               PROVE  /\ \A t \in Team : invited[c][t] = 0
                      /\ \A x \in Player : target'[x] # c /\ \A s \in Seats(queue, x)' : s[1] # c
    BY <1>1, <1>2 DEF Unmade
  <2>1. c # b
    BY <1>5
  <2> QED  BY <1>6, <1>7, <2>1 DEF QueueInv, Unmade
<1>13. CountedIn(queue, invited, status, missed)'
  <2> SUFFICES ASSUME NEW c \in Bg, status[c] \in {"join", "progress", "leave"}, c \notin missed,
                      NEW t \in Team
               PROVE  invited[c][t] = Cardinality(HoldersIn(queue, c, t)') /\ invited[c][t] <= MaxPlayers
    BY <1>1, <1>2 DEF CountedIn
  <2>1. c # NoBg
    BY Sizes
  <2>2. \A x \in Player :
           (target'[x] = c \/ \E s \in Seats(queue, x)' : s[1] = c) <=>
           (target[x] = c \/ \E s \in Seats(queue, x) : s[1] = c)
    <3> SUFFICES ASSUME NEW x \in Player
                 PROVE  (target'[x] = c \/ \E s \in Seats(queue, x)' : s[1] = c) <=>
                        (target[x] = c \/ \E s \in Seats(queue, x) : s[1] = c)
      OBVIOUS
    <3>1. CASE x # p
      BY <1>6, <1>7, <3>1
    <3>2. CASE x = p
      <4>1. (target'[p] = c \/ \E s \in Seats(queue, p)' : s[1] = c) <=> b = c
        BY <1>6, <1>7
      <4>2. (target[p] = c \/ \E s \in Seats(queue, p) : s[1] = c) <=> b = c
        BY <1>4, <1>5, <2>1
      <4> QED  BY <3>2, <4>1, <4>2
    <3> QED  BY <3>1, <3>2
  <2>3. HoldersIn(queue, c, t)' = HoldersIn(queue, c, t)
    BY <2>2 DEF HoldersIn
  <2> QED  BY <2>3 DEF QueueInv, CountedIn
<1> QED  BY <1>8, <1>9, <1>10, <1>11, <1>12, <1>13 DEF QueueInv

\* A party queues: its players are of one team, and not in the queue.
NewParty(q, t, S) == \A p \in S : TeamOf[p] = t /\ Seats(q, p) = {}
Appended(q, t, S) == [q EXCEPT ![t] = Append(q[t], [players |-> S, bg |-> NoBg, time |-> 0])]

\* BattleGroundQueue::AddGroup of players who are not queued.
LEMMA JoinQueue ==
  ASSUME NEW q, QueueOK(q), NEW t \in Team, NEW S \in SUBSET Player, S # {}, NewParty(q, t, S)
  PROVE  /\ QueueOK(Appended(q, t, S))
         /\ \A p \in Player :
               Seats(Appended(q, t, S), p) = IF p \in S THEN {<<NoBg, 0>>} ELSE Seats(q, p)
<1>0. \A p \in S : TeamOf[p] = t /\ Seats(q, p) = {}
  BY DEF NewParty
<1> DEFINE g == [players |-> S, bg |-> NoBg, time |-> 0]
           r == [q EXCEPT ![t] = Append(q[t], g)]
           n == Len(q[t]) + 1
<1>1. g \in Group /\ g.players = S /\ g.bg = NoBg /\ g.time = 0
  <2>1. 0 \in 0 .. MaxTime + InviteTime
    BY Sizes
  <2> QED  BY <2>1 DEF Group
<1> HIDE DEF g
<1>2. q \in [Team -> Seq(Group)] /\ q[t] \in Seq(Group) /\ Len(q[t]) \in Nat
  BY DEF QueueOK
<1>3. r \in [Team -> Seq(Group)] /\ r[t] = Append(q[t], g) /\ \A u \in Team : u # t => r[u] = q[u]
  BY <1>1, <1>2
<1>4. DOMAIN r[t] = 1 .. n /\ DOMAIN q[t] = 1 .. n - 1 /\ n \in Nat /\ n > 0
      /\ r[t][n] = g /\ \A i \in DOMAIN q[t] : r[t][i] = q[t][i] /\ i \in DOMAIN r[t] /\ i # n
  BY <1>1, <1>2, <1>3
<1>5. \A i \in DOMAIN r[t] : i = n \/ i \in DOMAIN q[t]
  BY <1>4
<1> HIDE DEF r, n
<1>6. ASSUME NEW i \in DOMAIN q[t]  PROVE  q[t][i].players \cap S = {}
  <2> SUFFICES ASSUME NEW p \in S, p \in q[t][i].players  PROVE  FALSE
    OBVIOUS
  <2>1. q[t][i] \in GroupsWith(q, p)
    BY <1>0, GroupsByPlace
  <2>2. Seats(q, p) # {}
    BY <2>1 DEF Seats
  <2> QED  BY <1>0, <2>2
<1>7. \A u \in Team : \A i \in DOMAIN r[u] : \A p \in r[u][i].players : TeamOf[p] = u
  <2> SUFFICES ASSUME NEW u \in Team, NEW i \in DOMAIN r[u], NEW p \in r[u][i].players
               PROVE  TeamOf[p] = u
    OBVIOUS
  <2>1. CASE u # t
    BY <1>3, <2>1 DEF QueueOK
  <2>2. CASE u = t /\ i = n
    BY <1>0, <1>1, <1>4, <2>2
  <2>3. CASE u = t /\ i \in DOMAIN q[t]
    BY <1>4, <2>3 DEF QueueOK
  <2> QED  BY <1>5, <2>1, <2>2, <2>3
<1>8. \A u \in Team : \A i, j \in DOMAIN r[u] : i # j => r[u][i].players \cap r[u][j].players = {}
  <2> SUFFICES ASSUME NEW u \in Team, NEW i \in DOMAIN r[u], NEW j \in DOMAIN r[u], i # j
               PROVE  r[u][i].players \cap r[u][j].players = {}
    OBVIOUS
  <2>1. CASE u # t
    BY <1>3, <2>1 DEF QueueOK
  <2>2. CASE u = t /\ i = n
    <3>1. j \in DOMAIN q[t]
      BY <1>5, <2>2
    <3> QED  BY <1>1, <1>4, <1>6, <2>2, <3>1
  <2>3. CASE u = t /\ j = n
    <3>1. i \in DOMAIN q[t]
      BY <1>5, <2>3
    <3> QED  BY <1>1, <1>4, <1>6, <2>3, <3>1
  <2>4. CASE u = t /\ i # n /\ j # n
    <3>1. i \in DOMAIN q[t] /\ j \in DOMAIN q[t]
      BY <1>5, <2>4
    <3> QED  BY <1>4, <2>4, <3>1 DEF QueueOK
  <2> QED  BY <2>1, <2>2, <2>3, <2>4
<1>9. QueueOK(r)
  BY <1>3, <1>7, <1>8 DEF QueueOK
<1>10. ASSUME NEW p \in Player
       PROVE  Seats(r, p) = IF p \in S THEN {<<NoBg, 0>>} ELSE Seats(q, p)
  <2>1. CASE p \in S
    <3>1. g \in GroupsWith(r, p)
      <4>1. TeamOf[p] = t /\ n \in DOMAIN r[t]
        BY <1>0, <1>4, <2>1
      <4> QED  BY <1>1, <1>4, <2>1, <4>1, GroupsByPlace
    <3>2. <<NoBg, 0>> \in Seats(r, p)
      BY <1>1, <3>1 DEF Seats
    <3> QED  BY <1>9, <2>1, <3>2, OnePlace
  <2>2. CASE p \notin S
    <3>1. TeamOf[p] \in Team
      BY OnePlace
    <3>2. \A h : h \in GroupsWith(r, p) <=> h \in GroupsWith(q, p)
      <4>1. CASE TeamOf[p] # t
        BY <1>3, <3>1, <4>1 DEF GroupsWith
      <4>2. CASE TeamOf[p] = t
        <5>1. ASSUME NEW h, h \in GroupsWith(r, p)  PROVE  h \in GroupsWith(q, p)
          <6>1. PICK i \in DOMAIN r[t] : h = r[t][i] /\ p \in h.players
            BY <4>2, <5>1, GroupsByPlace
          <6>2. i # n
            BY <1>1, <1>4, <2>2, <6>1
          <6>3. i \in DOMAIN q[t] /\ h = q[t][i]
            BY <1>4, <1>5, <6>1, <6>2
          <6> QED  BY <4>2, <6>1, <6>3, GroupsByPlace
        <5>2. ASSUME NEW h, h \in GroupsWith(q, p)  PROVE  h \in GroupsWith(r, p)
          <6>1. PICK i \in DOMAIN q[t] : h = q[t][i] /\ p \in h.players
            BY <4>2, <5>2, GroupsByPlace
          <6>2. i \in DOMAIN r[t] /\ h = r[t][i]
            BY <1>4, <6>1
          <6> QED  BY <4>2, <6>1, <6>2, GroupsByPlace
        <5> QED  BY <5>1, <5>2
      <4> QED  BY <4>1, <4>2
    <3>3. GroupsWith(r, p) = GroupsWith(q, p)
      BY <3>2
    <3> QED  BY <2>2, <3>3 DEF Seats
  <2> QED  BY <2>1, <2>2
<1> QED  BY <1>9, <1>10 DEF r, g, Appended

\* HandleBattlemasterJoinOpcode.
LEMMA JoinInv ==
  ASSUME QueueInv, NEW S \in Parties, Join(S)
  PROVE  QueueInv'
<1> DEFINE t == TeamOf[CHOOSE p \in S : TRUE]
           r == Appended(queue, t, S)
<1>0. TypeOK /\ QueueOK(queue)
  BY DEF QueueInv
<1>1. S \in SUBSET Player /\ S # {} /\ \A p, q \in S : TeamOf[p] = TeamOf[q]
  BY BattleGroundQueueAssumption
<1>2. (CHOOSE p \in S : TRUE) \in S
  BY <1>1
<1>3. t \in Team /\ \A p \in S : TeamOf[p] = t
  BY <1>1, <1>2, OnePlace, <1>0
<1>4. /\ \A p \in S : presence[p] # "offline" /\ slot[p] = NotQueued /\ target[p] = NoBg
      /\ queue' = r
      /\ slot' = [p \in Player |-> IF p \in S THEN NoBg ELSE slot[p]]
      /\ scheduled' = TRUE /\ joins < MaxJoins /\ joins' = joins + 1
      /\ UNCHANGED <<events, presence, target, status, invited, free, now, missed>>
  BY DEF Join, InWorld, Appended
<1>5. \A p \in S : Seats(queue, p) = {}
  <2> SUFFICES ASSUME NEW p \in S, NEW s \in Seats(queue, p)  PROVE  FALSE
    OBVIOUS
  <2>1. p \in Player /\ presence[p] # "offline" /\ slot[p] = NotQueued
    BY <1>1, <1>4
  <2>2. slot[p] \in {NoBg, s[1]}
    BY <2>1 DEF QueueInv, TimedIn
  <2>3. s \in (Bg \cup {NoBg}) \X (0 .. MaxTime + InviteTime)
    BY <1>0, <2>1, OnePlace
  <2>4. s[1] # NotQueued
    BY <2>3, Sizes DEF NoBg, NotQueued
  <2> QED  BY <2>1, <2>2, <2>4 DEF NoBg, NotQueued
<1> HIDE DEF t
<1>6. /\ QueueOK(r)
      /\ \A p \in Player : Seats(r, p) = IF p \in S THEN {<<NoBg, 0>>} ELSE Seats(queue, p)
  <2>1. NewParty(queue, t, S)
    BY <1>3, <1>5 DEF NewParty
  <2> QED  BY <1>0, <1>1, <1>3, <2>1, JoinQueue
<1> HIDE DEF r
<1>7. \A p \in Player : Seats(queue, p)' = IF p \in S THEN {<<NoBg, 0>>} ELSE Seats(queue, p)
  BY <1>4, <1>6 DEF Seats, GroupsWith
<1>8. TypeOK'
  <2>1. queue' \in [Team -> Seq(Group)]
    BY <1>4, <1>6 DEF QueueOK
  <2>2. slot' \in [Player -> {NotQueued, NoBg} \cup Bg]
    BY <1>0, <1>4 DEF TypeOK
  <2>3. joins' \in 0 .. MaxJoins
    BY <1>0, <1>4, Sizes DEF TypeOK
  <2> QED  BY <1>0, <1>4, <2>1, <2>2, <2>3 DEF TypeOK
<1>9. QueueOK(queue)'
  BY <1>4, <1>6 DEF QueueOK
<1>10. TimedIn(queue, slot, events)'
  <2> SUFFICES ASSUME NEW p \in Player, presence[p] # "offline", NEW s \in Seats(queue, p)'
               PROVE  slot'[p] \in {NoBg, s[1]}
                      /\ (slot'[p] # NoBg => [bg |-> s[1], time |-> s[2]] \in events[p])
    BY <1>4 DEF TimedIn
  <2>1. CASE p \in S
    BY <1>4, <2>1
  <2>2. CASE p \notin S
    <3>1. slot'[p] = slot[p] /\ s \in Seats(queue, p)
      BY <1>4, <1>7, <2>2
    <3> QED  BY <3>1 DEF QueueInv, TimedIn
  <2> QED  BY <2>1, <2>2
<1>11. Outside(queue)' /\ MadeInOrder(status)'
  BY <1>4, <1>7 DEF QueueInv, Outside, MadeInOrder
<1>12. Unmade(queue, invited, status)'
  <2>1. \A c \in Bg : c # NoBg
    BY Sizes
  <2>2. \A p \in Player, c \in Bg : (\A s \in Seats(queue, p) : s[1] # c)
                                    => \A s \in Seats(queue, p)' : s[1] # c
    BY <1>7, <2>1
  <2> QED  BY <1>4, <2>2 DEF QueueInv, Unmade
<1>13. CountedIn(queue, invited, status, missed)'
  <2> SUFFICES ASSUME NEW c \in Bg, status[c] \in {"join", "progress", "leave"}, c \notin missed,
                      NEW u \in Team
               PROVE  invited[c][u] = Cardinality(HoldersIn(queue, c, u)') /\ invited[c][u] <= MaxPlayers
    BY <1>4 DEF CountedIn
  <2>1. c # NoBg
    BY Sizes
  <2>2. \A p \in Player : (\E s \in Seats(queue, p)' : s[1] = c) <=> \E s \in Seats(queue, p) : s[1] = c
    BY <1>5, <1>7, <2>1
  <2>3. HoldersIn(queue, c, u)' = HoldersIn(queue, c, u)
    BY <1>4, <2>2 DEF HoldersIn
  <2> QED  BY <2>3 DEF QueueInv, CountedIn
<1> QED  BY <1>8, <1>9, <1>10, <1>11, <1>12, <1>13 DEF QueueInv

\* What an update of the queue leaves behind.
UpdatedBy(late) == QueueUpdate(FillFree(Purge(Started, late)))

\* Update purges players who are offline and then only invites.
LEMMA UpdateStep ==
  ASSUME QueueInv, Update
  PROVE  \E late \in SUBSET Player : /\ \A p \in late : presence[p] = "offline"
                                     /\ Becomes(UpdatedBy(late))
<1>1. PICK late \in SUBSET {p \in Player : Queued(p) /\ presence[p] = "offline"} :
         Becomes(UpdatedBy(late))
  BY DEF Update, UpdatedBy, Started
<1>2. late \in SUBSET Player /\ \A p \in late : presence[p] = "offline"
  OBVIOUS
<1> QED  BY <1>1, <1>2

\* BattleGroundQueue::Update.
LEMMA UpdateInv ==
  ASSUME QueueInv, Update
  PROVE  QueueInv'
<1>1. PICK late \in SUBSET Player : /\ \A p \in late : presence[p] = "offline"
                                    /\ Becomes(UpdatedBy(late))
  BY UpdateStep
<1> DEFINE w == UpdatedBy(late)
<1>2. Good(w)
  BY <1>1, UpdateWork DEF UpdatedBy
<1> HIDE DEF w
<1>3. /\ w \in Work /\ QueueOK(w.queue) /\ TimedIn(w.queue, w.slot, w.events) /\ Outside(w.queue)
      /\ Unmade(w.queue, w.invited, w.status) /\ MadeInOrder(w.status)
      /\ CountedIn(w.queue, w.invited, w.status, w.missed)
  BY <1>2 DEF Good
<1>4. /\ queue' = w.queue /\ invited' = w.invited /\ slot' = w.slot /\ events' = w.events
      /\ status' = w.status /\ free' = w.free /\ missed' = w.missed
  BY <1>1 DEF Becomes, SetBooks, w
<1>5. scheduled' = FALSE /\ UNCHANGED <<presence, target, now, joins>>
  BY DEF Update
<1>6. TypeOK'
  <2>1. /\ w.queue \in [Team -> Seq(Group)] /\ w.invited \in Counters
        /\ w.slot \in [Player -> {NotQueued, NoBg} \cup Bg] /\ w.events \in [Player -> SUBSET Event]
        /\ w.status \in [Bg -> Status] /\ w.free \in Seq(Bg) /\ w.missed \in SUBSET Bg
    BY <1>3 DEF Work
  <2> QED  BY <1>4, <1>5, <2>1 DEF QueueInv, TypeOK, Counters, Status, Event
<1>7. QueueOK(queue)' /\ MadeInOrder(status)'
  BY <1>3, <1>4 DEF QueueOK, MadeInOrder
<1>8. TimedIn(queue, slot, events)'
  BY <1>3, <1>4, <1>5 DEF TimedIn
<1>9. Outside(queue)' /\ Unmade(queue, invited, status)'
  BY <1>3, <1>4, <1>5 DEF Outside, Unmade
<1>10. CountedIn(queue, invited, status, missed)'
  BY <1>3, <1>4, <1>5 DEF CountedIn, HoldersIn
<1> QED  BY <1>6, <1>7, <1>8, <1>9, <1>10 DEF QueueInv

\* Nothing happens.
LEMMA StutterInv ==
  ASSUME QueueInv, UNCHANGED vars
  PROVE  QueueInv'
<1>1. TypeOK'
  BY DEF QueueInv, TypeOK, vars
<1>2. TimedIn(queue, slot, events)'
  BY DEF vars, QueueInv, TimedIn
<1>3. UNCHANGED <<queue, target, status, invited, missed>>
  BY DEF vars
<1> QED  BY <1>1, <1>2, <1>3, BooksInv DEF QueueInv

\* Every step keeps the queue consistent.
LEMMA NextInv == QueueInv /\ [Next]_vars => QueueInv'
<1> SUFFICES ASSUME QueueInv, [Next]_vars  PROVE  QueueInv'
  OBVIOUS
<1>1. ASSUME NEW S \in Parties, Join(S)  PROVE  QueueInv'
  BY <1>1, JoinInv
<1>2. ASSUME NEW p \in Player, Port(p)  PROVE  QueueInv'
  BY <1>2, PortInv
<1>3. ASSUME NEW p \in Player, LeaveQueue(p)  PROVE  QueueInv'
  BY <1>3, LeaveQueueInv
<1>4. ASSUME NEW p \in Player, Arrive(p)  PROVE  QueueInv'
  BY <1>4, ArriveInv
<1>5. ASSUME NEW p \in Player, LeaveBattleground(p)  PROVE  QueueInv'
  BY <1>5, LeaveBattlegroundInv
<1>6. ASSUME NEW p \in Player, NEW e \in events[p], RemoveEvent(p, e)  PROVE  QueueInv'
  BY <1>6, RemoveEventInv
<1>7. ASSUME NEW p \in Player, Back(p) \/ Zone(p) \/ Busy(p)  PROVE  QueueInv'
  <2>1. "ready" \in Where \ {"offline"} /\ "away" \in Where \ {"offline"}
        /\ "busy" \in Where \ {"offline"}
    BY DEF Where
  <2>2. \/ Move(p, "away", "ready")
        \/ Move(p, "ready", "away")
        \/ Move(p, "ready", "busy")
        \/ Move(p, "busy", "ready")
    BY <1>7 DEF Back, Zone, Busy
  <2> QED  BY <2>1, <2>2, MoveInv
<1>8. ASSUME NEW p \in Player, Logout(p)  PROVE  QueueInv'
  BY <1>8, LogoutInv
<1>9. ASSUME NEW p \in Player, Login(p)  PROVE  QueueInv'
  BY <1>9, LoginInv
<1>10. ASSUME NEW b \in Bg, Start(b) \/ EndBattleGround(b) \/ EndNow(b)  PROVE  QueueInv'
  BY <1>10, StartInv
<1>11. ASSUME NEW b \in Bg, Finish(b)  PROVE  QueueInv'
  BY <1>11, FinishInv
<1>12. ASSUME NEW b \in Bg, Empty(b)  PROVE  QueueInv'
  BY <1>12, EmptyInv
<1>13. CASE Update
  BY <1>13, UpdateInv
<1>14. CASE Tick
  BY <1>14, TickInv
<1>15. CASE UNCHANGED vars
  BY <1>15, StutterInv
<1>16. Roamers \subseteq Player
  BY BattleGroundQueueAssumption
<1> QED  BY <1>1, <1>2, <1>3, <1>4, <1>5, <1>6, <1>7, <1>8, <1>9, <1>10, <1>11, <1>12, <1>13,
            <1>14, <1>15, <1>16 DEF Next

\* The invariant all of this is for.
LEMMA QueueInvariant == Spec => []QueueInv
BY InitInv, NextInv, PTL DEF Spec

-----------------------------------------------------------------------------
(***************************************************************************)
(* The theorems                                                            *)
(***************************************************************************)

\* Every state of the queue, the battlegrounds and the players has its type: no
\* party is empty, no counter leaves the range of a uint32.
THEOREM QueueTypeCorrect == Spec => []TypeOK
<1>1. QueueInv => TypeOK
  BY DEF QueueInv
<1> QED  BY <1>1, QueueInvariant, PTL

\* Whatever the order in which players enter, leave, time out, log out and in and
\* are purged, m_InvitedAlliance and m_InvitedHorde are the numbers of the players
\* who hold a place, and no team gets more than MaxPlayersPerTeam, for a battleground
\* whose invitations reached every member of the parties.
THEOREM CountersCountHolders == Spec => []CountKept
<1>1. QueueInv => CountKept
  <2> SUFFICES ASSUME QueueInv, NEW b \in Bg, Exists(b), b \notin missed, NEW t \in Team
               PROVE  invited[b][t] = Cardinality(Holders(b, t)) /\ invited[b][t] <= MaxPlayers
    BY DEF CountKept
  <2>1. QueueOK(queue)
    BY DEF QueueInv
  <2>2. \A p \in Player : (\E s \in Seats(queue, p) : s[1] = b) <=> Queued(p) /\ GroupOf(p).bg = b
    BY <2>1, GroupOfSeat
  <2>3. Holders(b, t) = HoldersIn(queue, b, t)
    BY <2>2 DEF Holders, HoldersIn
  <2>4. status[b] \in {"join", "progress", "leave"}
    BY DEF Exists
  <2>5. invited[b][t] = Cardinality(HoldersIn(queue, b, t)) /\ invited[b][t] <= MaxPlayers
    BY <2>4 DEF QueueInv, CountedIn
  <2> QED  BY <2>3, <2>5
<1> QED  BY <1>1, QueueInvariant, PTL

\* A player in the queue whose slot names a battleground has the BGQueueRemoveEvent
\* of his invitation pending, also after he logged out and in.
THEOREM InvitationsTimed == Spec => []AlwaysTimed
<1>1. QueueInv => AlwaysTimed
  <2> SUFFICES ASSUME QueueInv, NEW p \in Player, presence[p] # "offline", Queued(p),
                      slot[p] \notin {NotQueued, NoBg}
               PROVE  [bg |-> GroupOf(p).bg, time |-> GroupOf(p).time] \in events[p]
    BY DEF AlwaysTimed
  <2> DEFINE s == <<GroupOf(p).bg, GroupOf(p).time>>
  <2>1. QueueOK(queue) /\ TimedIn(queue, slot, events)
    BY DEF QueueInv
  <2>2. s \in Seats(queue, p)
    BY <2>1, GroupOfSeat
  <2>3. s[1] = GroupOf(p).bg /\ s[2] = GroupOf(p).time
    OBVIOUS
  <2> HIDE DEF s
  <2>4. [bg |-> s[1], time |-> s[2]] \in events[p]
    BY <2>1, <2>2 DEF TimedIn
  <2> QED  BY <2>3, <2>4
<1> QED  BY <1>1, QueueInvariant, PTL

\* A step that is none of the player's own keeps an invitation that is still open.
LEMMA StandsStep ==
  ASSUME QueueInv, Next, NEW p \in Player, NEW g \in GroupsWith(queue, p),
         presence[p] # "offline", Open(g.bg), now < g.time
  PROVE  \/ \E h \in GroupsWith(queue', p) : h.bg = g.bg /\ h.time = g.time
         \/ Port(p)
         \/ LeaveQueue(p)
<1> DEFINE s == <<g.bg, g.time>>
           Kept == \E h \in GroupsWith(queue', p) : h.bg = g.bg /\ h.time = g.time
<1>0. TypeOK /\ QueueOK(queue)
  BY DEF QueueInv
<1>1. s \in Seats(queue, p) /\ s[1] = g.bg /\ s[2] = g.time
  BY DEF Seats
<1>2. Seats(queue, p) = {s} /\ g.bg \in Bg \cup {NoBg} /\ g.time \in 0 .. MaxTime + InviteTime
  <2>1. Seats(queue, p) = {s} /\ s \in (Bg \cup {NoBg}) \X (0 .. MaxTime + InviteTime)
    BY <1>0, <1>1, OnePlace
  <2> QED  BY <1>1, <2>1
<1>3. g.bg # NoBg /\ status[g.bg] \in {"join", "progress"}
  BY DEF Open
<1>4. s \in Seats(queue', p) => Kept
  <2> SUFFICES ASSUME s \in Seats(queue', p)  PROVE  Kept
    OBVIOUS
  <2>1. PICK h \in GroupsWith(queue', p) : s = <<h.bg, h.time>>
    BY DEF Seats
  <2>2. h.bg = g.bg /\ h.time = g.time
    BY <2>1
  <2> QED  BY <2>2
<1> HIDE DEF s, Kept
<1>5. UNCHANGED queue => Kept
  BY <1>1, <1>4
<1>6. ASSUME NEW x \in Player, x # p,
             SetBooks(RemovePlayer(Books, x, TRUE)) \/ SetBooks(RemovePlayer(Books, x, FALSE))
      PROVE  Kept
  <2>1. queue' = LeftQueue(queue, x)
    BY <1>6, BooksLeft DEF SetBooks
  <2>2. Seats(LeftQueue(queue, x), p) = Seats(queue, p)
    BY <1>0, <1>6, LeftQueueOK
  <2> QED  BY <1>1, <1>4, <2>1, <2>2
<1>7. ASSUME NEW S \in Parties, Join(S)  PROVE  Kept
  <2> DEFINE t == TeamOf[CHOOSE x \in S : TRUE]
             n == [players |-> S, bg |-> NoBg, time |-> 0]
             u == TeamOf[p]
  <2>1. queue' = [queue EXCEPT ![t] = Append(queue[t], n)]
    BY <1>7 DEF Join
  <2> HIDE DEF t, n
  <2>2. queue \in [Team -> Seq(Group)] /\ u \in Team
    BY <1>0, OnePlace DEF QueueOK
  <2>3. PICK i \in DOMAIN queue[u] : g = queue[u][i] /\ p \in g.players
    BY GroupsByPlace
  <2>4. i \in DOMAIN queue'[u] /\ queue'[u][i] = queue[u][i]
    <3>1. CASE u # t
      BY <2>1, <2>2, <2>3, <3>1
    <3>2. CASE u = t
      <4>1. queue'[u] = Append(queue[u], n) /\ queue[u] \in Seq(Group)
        BY <2>1, <2>2, <3>2
      <4> QED  BY <2>3, <4>1
    <3> QED  BY <3>1, <3>2
  <2>5. g \in GroupsWith(queue', p)
    BY <2>3, <2>4, GroupsByPlace
  <2> QED  BY <2>5 DEF Kept
<1>8. ASSUME NEW x \in Player, Port(x)  PROVE  Kept \/ Port(p)
  BY <1>6, <1>8 DEF Port
<1>9. ASSUME NEW x \in Player, LeaveQueue(x)  PROVE  Kept \/ LeaveQueue(p)
  BY <1>6, <1>9 DEF LeaveQueue
<1>10. ASSUME NEW x \in Player, NEW e \in events[x], RemoveEvent(x, e)  PROVE  Kept
  <2>1. CASE UNCHANGED queue
    BY <1>5, <2>1
  <2>2. CASE IsPlayerInvited(x, e) /\ SetBooks(RemovePlayer(Books, x, TRUE))
    <3>1. CASE x # p
      BY <1>6, <2>2, <3>1
    <3>2. CASE x = p
      <4>1. PICK h \in GroupsWith(queue, p) : h.bg = e.bg /\ h.time = e.time
        BY <2>2, <3>2 DEF IsPlayerInvited
      <4>2. <<h.bg, h.time>> \in Seats(queue, p)
        BY <4>1 DEF Seats
      <4>3. <<h.bg, h.time>> = <<g.bg, g.time>>
        BY <1>2, <4>2 DEF s
      <4>4. e.time = g.time
        BY <4>1, <4>3
      <4>5. e.time <= now /\ now \in Nat /\ g.time \in Nat
        BY <1>0, <1>2, <1>10, Sizes DEF RemoveEvent, TypeOK
      <4> QED  BY <4>4, <4>5
    <3> QED  BY <3>1, <3>2
  <2> QED  BY <1>10, <2>1, <2>2 DEF RemoveEvent
<1>11. ASSUME Update  PROVE  Kept
  <2>1. PICK late \in SUBSET Player : /\ \A x \in late : presence[x] = "offline"
                                      /\ Becomes(UpdatedBy(late))
    BY <1>11, UpdateStep
  <2>2. p \notin late
    BY <2>1
  <2>3. p \notin Over
    <3>1. Queued(p) => GroupOf(p).bg = g.bg
      <4>1. Queued(p) => <<GroupOf(p).bg, GroupOf(p).time>> \in Seats(queue, p)
        BY <1>0, GroupOfSeat
      <4>2. Queued(p) => <<GroupOf(p).bg, GroupOf(p).time>> = <<g.bg, g.time>>
        BY <1>2, <4>1 DEF s
      <4> QED  BY <4>2
    <3> QED  BY <1>3, <3>1 DEF Over
  <2>4. \A x \in Player \ (late \cup Over) : \A y \in Seats(queue, x) :
           y[1] # NoBg => y \in Seats(UpdatedBy(late).queue, x)
    BY <2>1, UpdateWork DEF UpdatedBy
  <2>5. s \in Seats(UpdatedBy(late).queue, p)
    BY <1>1, <1>3, <2>2, <2>3, <2>4
  <2>6. queue' = UpdatedBy(late).queue
    BY <2>1 DEF Becomes, SetBooks
  <2> QED  BY <1>4, <2>5, <2>6
<1>12. ASSUME NEW x \in Player, Arrive(x) \/ LeaveBattleground(x) \/ Back(x) \/ Zone(x) \/ Busy(x)
                                \/ Logout(x) \/ Login(x)
       PROVE  Kept
  BY <1>5, <1>12 DEF Arrive, LeaveBattleground, Back, Zone, Busy, Move, Logout, Login
<1>13. ASSUME NEW b \in Bg, Start(b) \/ EndBattleGround(b) \/ EndNow(b) \/ Finish(b) \/ Empty(b)
       PROVE  Kept
  BY <1>5, <1>13 DEF Start, EndBattleGround, EndNow, Finish, Empty
<1>14. ASSUME Tick  PROVE  Kept
  BY <1>5, <1>14 DEF Tick
<1>15. Kept \/ Port(p) \/ LeaveQueue(p)
  <2>1. Roamers \subseteq Player
    BY BattleGroundQueueAssumption
  <2> QED  BY <1>7, <1>8, <1>9, <1>10, <1>11, <1>12, <1>13, <1>14, <2>1 DEF Next
<1> QED  BY <1>15 DEF Kept

\* No event of an earlier invitation, no member of his party and no update of the
\* queue takes an invitation to an open battleground from a player before its time.
THEOREM InvitationsStand == Spec => InvitationStands
<1>1. QueueInv /\ [Next]_vars =>
         [\A p \in Player :
             \A g \in GroupsWith(queue, p) :
                 presence[p] # "offline" /\ Open(g.bg) /\ Open(g.bg)' /\ now < g.time =>
                     \/ \E h \in GroupsWith(queue', p) : h.bg = g.bg /\ h.time = g.time
                     \/ Port(p)
                     \/ LeaveQueue(p)]_vars
  BY StandsStep
<1> QED  BY <1>1, QueueInvariant, PTL DEF Spec, InvitationStands
=============================================================================
