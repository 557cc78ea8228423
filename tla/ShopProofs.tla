----------------------------- MODULE ShopProofs -----------------------------
(***************************************************************************)
(* Shop for any accounts, characters, purchases and coins: no item for a   *)
(* purchase that was paid back, and what an account can hold.              *)
(*                                                                         *)
(* A purchase is paid back at most twice: once by the death of its buyer   *)
(* and once otherwise (that it can be twice is the assertion that fails in *)
(* RefundPurchase).  The coins are counted against the purchases that are  *)
(* marked, and those that a death is about to mark.                        *)
(***************************************************************************)
EXTENDS Shop, FiniteSetTheorems, TLAPS

Causes == {"death", "deletion", "npc", "task"}

Refunded == {id \in DOMAIN log : log[id].refunded}

\* Purchases whose price is on its way to a, by his death and otherwise.
DueToDeath(a) ==
    {id \in DOMAIN log : \E r \in refunds : r.account = a /\ r.by = "death" /\ id \in r.ids}
DueOtherwise(a) ==
    {id \in DOMAIN log : \E r \in refunds : r.account = a /\ r.by # "death" /\ id \in r.ids}

TypeInv ==
    /\ coins \in [Account -> Nat]
    /\ nextId \in Nat \ {0}
    /\ DOMAIN log \subseteq 1 .. (nextId - 1)
    /\ \A id \in DOMAIN log : log[id] \in [guid : Character, refunded : BOOLEAN]
    /\ pending \in Seq(Request) /\ IsInjective(pending)
    /\ batch \in Seq(Request) /\ IsInjective(batch)
    /\ worker \in [at : {"idle", "read", "paid", "logged", "listed"}, id : Nat, newBalance : Nat]
    /\ tasks \subseteq DOMAIN log
    /\ refunds \subseteq [account : Account, ids : SUBSET DOMAIN log, by : Causes]
    /\ online \in [Account -> Character \cup {None}]
    /\ \A a \in Account : online[a] # None => Owner[online[a]] = a /\ life[online[a]] # "deleted"
    /\ life \in [Character -> {"alive", "dead", "deleted"}]
    /\ dying \subseteq DOMAIN log
    /\ bag \in [Character -> Nat]
    /\ delivered \subseteq DOMAIN log
    /\ aborted \in BOOLEAN

\* Where the worker is: a purchase is new until it is listed, and then the buyer's and
\* without a task; the balance it is about to write is below the one in the database,
\* which only it reduces.
WorkerInv ==
    /\ worker.at = "idle" => worker = Idle
    /\ worker.at # "idle" =>
          batch # << >> /\ Head(batch).guid # None /\ worker.id \in 1 .. (nextId - 1)
    /\ worker.at \in {"read", "paid", "logged"} => worker.id \notin DOMAIN log
    /\ worker.at = "listed" =>
          worker.id \in DOMAIN log \ tasks /\ log[worker.id].guid = Head(batch).guid
    /\ worker.at = "read" => worker.newBalance < coins[Head(batch).account]

\* Ids given out, with those that the waiting purchases may need.
IdsInv == nextId + Waiting <= MaxPurchases + 1

\* What a death refunds belongs to the dead; what is refunded otherwise is marked; and
\* no purchase is in two refunds of one kind.
RefundsInv ==
    /\ \A id \in dying : life[log[id].guid] # "alive"
    /\ \A r \in refunds : \A id \in r.ids :
          /\ r.by = "death" => life[log[id].guid] # "alive"
          /\ r.by # "death" => log[id].refunded
    /\ \A r, s \in refunds :
          r # s /\ (r.by = "death" <=> s.by = "death") => r.ids \cap s.ids = {}

CoinsInv ==
    \A a \in Account :
        coins[a] + Cardinality(DueToDeath(a)) + Cardinality(DueOtherwise(a))
            <= Coins + Cardinality(Refunded \cup dying) + Cardinality(Refunded)

Inv == TypeInv /\ WorkerInv /\ IdsInv /\ RefundsInv /\ CoinsInv /\ NoFreeItem

-----------------------------------------------------------------------------
(***************************************************************************)
(* Sets and queues                                                         *)
(***************************************************************************)
\* Disjoint finite sets add up.
LEMMA CardDisjoint ==
  ASSUME NEW S, NEW T, IsFiniteSet(S), IsFiniteSet(T), S \cap T = {}
  PROVE  /\ IsFiniteSet(S \cup T)
         /\ Cardinality(S \cup T) = Cardinality(S) + Cardinality(T)
         /\ Cardinality(S) \in Nat /\ Cardinality(T) \in Nat
<1>1. Cardinality(S) \in Nat /\ Cardinality(T) \in Nat
  BY FS_CardinalityType
<1>2. Cardinality(S \cup T) = Cardinality(S) + Cardinality(T) - Cardinality(S \cap T)
      /\ IsFiniteSet(S \cup T)
  BY FS_Union
<1>3. Cardinality(S \cap T) = 0
  BY FS_EmptySet
<1> QED  BY <1>1, <1>2, <1>3

\* A part of a finite set is finite and not larger.
LEMMA CardSubset ==
  ASSUME NEW S, IsFiniteSet(S), NEW T, T \subseteq S
  PROVE  /\ IsFiniteSet(T) /\ Cardinality(T) <= Cardinality(S)
         /\ Cardinality(S) \in Nat /\ Cardinality(T) \in Nat
<1>1. T \in SUBSET S
  OBVIOUS
<1>2. IsFiniteSet(T) /\ Cardinality(T) <= Cardinality(S)
  BY <1>1, FS_Subset
<1> QED  BY <1>2, FS_CardinalityType

\* The log is finite, and so are the parts of it that the invariant counts.
LEMMA LogFinite ==
  ASSUME TypeInv  PROVE  \A S \in SUBSET DOMAIN log : IsFiniteSet(S) /\ Cardinality(S) \in Nat
<1>1. IsFiniteSet(1 .. (nextId - 1))
  <2>1. 1 \in Int /\ nextId - 1 \in Int
    BY DEF TypeInv
  <2> QED  BY <2>1, FS_Interval
<1>2. \A S \in SUBSET DOMAIN log : S \subseteq 1 .. (nextId - 1)
  BY DEF TypeInv
<1> QED  BY <1>1, <1>2, CardSubset

\* A queue of requests: its elements are finitely many; one is added at its end and one
\* leaves at its head.
LEMMA QueueElements ==
  ASSUME NEW q \in Seq(Request)
  PROVE  /\ IsFiniteSet(ToSet(q)) /\ ToSet(q) \subseteq Request
         /\ IsFiniteSet(Purchases(q)) /\ Cardinality(Purchases(q)) \in Nat
<1>1. Len(q) \in Nat /\ DOMAIN q = 1 .. Len(q)
  OBVIOUS
<1>2. \A i \in 1 .. Len(q) : q[i] \in Request
  OBVIOUS
<1>3. q \in [1 .. Len(q) -> ToSet(q)]
  BY <1>1 DEF ToSet
<1>4. q \in Surjection(1 .. Len(q), ToSet(q))
  BY <1>1, <1>3 DEF Surjection, ToSet
<1>5. IsFiniteSet(1 .. Len(q))
  <2>1. 1 \in Int /\ Len(q) \in Int
    BY <1>1
  <2> QED  BY <2>1, FS_Interval
<1>6. IsFiniteSet(ToSet(q))
  BY <1>4, <1>5, FS_Surjection
<1>7. Purchases(q) \subseteq ToSet(q)
  BY DEF Purchases
<1> QED  BY <1>1, <1>2, <1>6, <1>7, CardSubset DEF ToSet

\* ShopMgr appends a request nobody else has made.
LEMMA QueueAppend ==
  ASSUME NEW q \in Seq(Request), IsInjective(q), NEW r \in Request, r \notin ToSet(q)
  PROVE  /\ Append(q, r) \in Seq(Request) /\ IsInjective(Append(q, r))
         /\ ToSet(Append(q, r)) = ToSet(q) \cup {r}
<1> DEFINE t == Append(q, r)
<1>1. Len(q) \in Nat /\ DOMAIN q = 1 .. Len(q)
  OBVIOUS
<1>2. /\ t \in Seq(Request) /\ DOMAIN t = 1 .. Len(q) + 1
      /\ \A i \in 1 .. Len(q) : t[i] = q[i]
      /\ t[Len(q) + 1] = r
  OBVIOUS
<1> HIDE DEF t
<1>3. \A i \in DOMAIN t :
         \/ i \in DOMAIN q /\ t[i] = q[i]
         \/ i = Len(q) + 1 /\ t[i] = r
  BY <1>1, <1>2
<1>4. \A i \in DOMAIN q : q[i] # r
  BY DEF ToSet
<1>5. \A i, j \in DOMAIN t : t[i] = t[j] => i = j
  BY <1>3, <1>4 DEF IsInjective
<1>6. ToSet(t) \subseteq ToSet(q) \cup {r}
  BY <1>3 DEF ToSet
<1>7. \A i \in DOMAIN q : i \in DOMAIN t /\ t[i] = q[i]
  BY <1>1, <1>2
<1>8. Len(q) + 1 \in DOMAIN t
  BY <1>1, <1>2
<1>9. ToSet(q) \cup {r} \subseteq ToSet(t)
  BY <1>2, <1>7, <1>8 DEF ToSet
<1> QED  BY <1>2, <1>5, <1>6, <1>9 DEF IsInjective, t

\* ShopMgr takes the first request from its queue.
LEMMA QueueTail ==
  ASSUME NEW q \in Seq(Request), IsInjective(q), q # << >>
  PROVE  /\ Head(q) \in Request /\ Head(q).account \in Account
         /\ Tail(q) \in Seq(Request) /\ IsInjective(Tail(q))
         /\ Head(q) \notin ToSet(Tail(q))
         /\ ToSet(q) = ToSet(Tail(q)) \cup {Head(q)}
<1> DEFINE t == Tail(q)
<1>1. Len(q) \in Nat /\ Len(q) # 0 /\ DOMAIN q = 1 .. Len(q)
  OBVIOUS
<1>2. /\ t \in Seq(Request) /\ DOMAIN t = 1 .. Len(q) - 1
      /\ \A i \in 1 .. Len(q) - 1 : t[i] = q[i + 1]
      /\ Head(q) = q[1] /\ q[1] \in Request
  OBVIOUS
<1> HIDE DEF t
<1>3. \A i \in DOMAIN t : i \in Nat /\ i + 1 # 1 /\ i + 1 \in DOMAIN q /\ t[i] = q[i + 1]
  BY <1>1, <1>2
<1>4. \A i \in DOMAIN q : i = 1 \/ (i - 1 \in DOMAIN t /\ t[i - 1] = q[i])
  BY <1>1, <1>2
<1>5. \A i, j \in DOMAIN t : t[i] = t[j] => i = j
  <2> SUFFICES ASSUME NEW i \in DOMAIN t, NEW j \in DOMAIN t, t[i] = t[j]  PROVE  i = j
    OBVIOUS
  <2>1. i + 1 = j + 1
    BY <1>3 DEF IsInjective
  <2> QED  BY <1>3, <2>1
<1>6. 1 \in DOMAIN q
  BY <1>1
<1>7. q[1] \notin ToSet(t)
  BY <1>3, <1>6 DEF IsInjective, ToSet
<1>8. ToSet(t) \cup {q[1]} \subseteq ToSet(q)
  BY <1>3, <1>6 DEF ToSet
<1>9. ToSet(q) \subseteq ToSet(t) \cup {q[1]}
  BY <1>4 DEF ToSet
<1> QED  BY <1>2, <1>5, <1>7, <1>8, <1>9 DEF IsInjective, Request, t

\* How many purchases wait when a request leaves the head of a queue.
LEMMA PurchasesTail ==
  ASSUME NEW q \in Seq(Request), IsInjective(q), q # << >>
  PROVE  /\ Cardinality(Purchases(q)) \in Nat /\ Cardinality(Purchases(Tail(q))) \in Nat
         /\ Head(q).guid = None => Cardinality(Purchases(Tail(q))) = Cardinality(Purchases(q))
         /\ Head(q).guid # None => Cardinality(Purchases(Tail(q))) + 1 = Cardinality(Purchases(q))
<1>1. /\ IsFiniteSet(Purchases(Tail(q)))
      /\ Cardinality(Purchases(q)) \in Nat /\ Cardinality(Purchases(Tail(q))) \in Nat
  BY QueueTail, QueueElements
<1>2. /\ Head(q).guid = None => Purchases(Tail(q)) = Purchases(q)
      /\ Head(q).guid # None => Purchases(q) = Purchases(Tail(q)) \cup {Head(q)}
      /\ Head(q) \notin Purchases(Tail(q))
  BY QueueTail DEF Purchases
<1>3. Cardinality(Purchases(Tail(q)) \cup {Head(q)}) = Cardinality(Purchases(Tail(q))) + 1
  BY <1>1, <1>2, FS_AddElement
<1> QED  BY <1>1, <1>2, <1>3

-----------------------------------------------------------------------------
(***************************************************************************)
(* What an action leaves alone                                             *)
(***************************************************************************)
LEMMA IdsFrame ==
  ASSUME IdsInv, UNCHANGED <<nextId, pending, batch, worker>>  PROVE  IdsInv'
BY DEF IdsInv, Waiting, Purchases, ToSet

\* The worker does not mind marks in the log, tasks that end, and coins that arrive.
LEMMA WorkerFrame ==
  ASSUME TypeInv, WorkerInv, UNCHANGED <<nextId, batch, worker>>,
         DOMAIN log' = DOMAIN log, \A id \in DOMAIN log : log'[id].guid = log[id].guid,
         tasks' \subseteq tasks,
         coins' \in [Account -> Nat], \A a \in Account : coins[a] <= coins'[a]
  PROVE  WorkerInv'
<1>1. batch # << >> => Head(batch).account \in Account
  BY QueueTail DEF TypeInv
<1>2. worker.newBalance \in Nat
  BY DEF TypeInv
<1>3. ASSUME worker.at = "read"  PROVE  worker.newBalance < coins'[Head(batch).account]
  <2>1. Head(batch).account \in Account
    BY <1>1, <1>3 DEF WorkerInv
  <2>2. worker.newBalance < coins[Head(batch).account]
    BY <1>3 DEF WorkerInv
  <2>3. coins[Head(batch).account] \in Nat /\ coins'[Head(batch).account] \in Nat
        /\ coins[Head(batch).account] <= coins'[Head(batch).account]
    BY <2>1 DEF TypeInv
  <2> QED  BY <1>2, <2>2, <2>3
<1> QED  BY <1>3 DEF WorkerInv

\* A step that leaves refunds alone.
LEMMA RefundsFrame ==
  ASSUME RefundsInv, UNCHANGED <<log, refunds, life, dying>>  PROVE  RefundsInv'
BY DEF RefundsInv

\* A step that leaves coins alone.
LEMMA CoinsFrame ==
  ASSUME CoinsInv, UNCHANGED <<log, refunds, dying, coins>>  PROVE  CoinsInv'
BY DEF CoinsInv, DueToDeath, DueOtherwise, Refunded

\* A step that leaves items, tasks and the log alone.
LEMMA FreeFrame ==
  ASSUME NoFreeItem, UNCHANGED <<bag, tasks, log, worker, batch, life>>  PROVE  NoFreeItem'
BY DEF NoFreeItem, Underway, Unrefunded

\* What is on its way and what is not refunded are finite sets of purchases.
LEMMA CountedSets ==
  ASSUME Inv, NEW c
  PROVE  /\ Underway(c) \subseteq DOMAIN log /\ Unrefunded(c) \subseteq DOMAIN log
         /\ IsFiniteSet(Underway(c)) /\ IsFiniteSet(Unrefunded(c))
         /\ Cardinality(Underway(c)) \in Nat /\ Cardinality(Unrefunded(c)) \in Nat
<1>1. Underway(c) \subseteq DOMAIN log /\ Unrefunded(c) \subseteq DOMAIN log
  BY DEF Inv, TypeInv, WorkerInv, Underway, Unrefunded
<1> QED  BY <1>1, LogFinite DEF Inv

-----------------------------------------------------------------------------
(***************************************************************************)
(* Marks and refunds                                                       *)
(***************************************************************************)
\* One entry of the log.
LEMMA MarkedEntry ==
  ASSUME NEW e \in [guid : Character, refunded : BOOLEAN], NEW b \in BOOLEAN
  PROVE  LET f == [e EXCEPT !.refunded = @ \/ b]
         IN  /\ f \in [guid : Character, refunded : BOOLEAN]
             /\ f.guid = e.guid
             /\ f.refunded = (e.refunded \/ b)
<1>1. e.refunded \in BOOLEAN /\ (e.refunded \/ b) \in BOOLEAN
  OBVIOUS
<1>2. \A v \in BOOLEAN : LET f == [e EXCEPT !.refunded = v]
                        IN  /\ f \in [guid : Character, refunded : BOOLEAN]
                            /\ f.guid = e.guid /\ f.refunded = v
  OBVIOUS
<1> QED  BY <1>1, <1>2, Zenon

\* MarkRefunded changes no more than the marks.
LEMMA Marking ==
  ASSUME TypeInv, NEW ids \in SUBSET DOMAIN log, MarkRefunded(ids)
  PROVE  /\ DOMAIN log' = DOMAIN log
         /\ \A id \in DOMAIN log :
               /\ log'[id] \in [guid : Character, refunded : BOOLEAN]
               /\ log'[id].guid = log[id].guid
               /\ log'[id].refunded <=> log[id].refunded \/ id \in ids
         /\ Refunded' = Refunded \cup ids
         /\ \A c : Unrefunded(c)' = Unrefunded(c) \ ids
<1>1. /\ DOMAIN log' = DOMAIN log
      /\ \A id \in DOMAIN log : log'[id] = [log[id] EXCEPT !.refunded = @ \/ id \in ids]
  BY DEF MarkRefunded
<1>2. \A id \in DOMAIN log :
         /\ log'[id] \in [guid : Character, refunded : BOOLEAN]
         /\ log'[id].guid = log[id].guid
         /\ log'[id].refunded <=> log[id].refunded \/ id \in ids
  <2> SUFFICES ASSUME NEW id \in DOMAIN log
               PROVE  /\ log'[id] \in [guid : Character, refunded : BOOLEAN]
                      /\ log'[id].guid = log[id].guid
                      /\ log'[id].refunded = (log[id].refunded \/ id \in ids)
    OBVIOUS
  <2>1. log[id] \in [guid : Character, refunded : BOOLEAN] /\ (id \in ids) \in BOOLEAN
    BY DEF TypeInv
  <2>2. log'[id] = [log[id] EXCEPT !.refunded = @ \/ id \in ids]
    BY <1>1
  <2> QED  BY <2>1, <2>2, MarkedEntry, ZenonT(30)
<1>3. Refunded' = Refunded \cup ids
  BY <1>1, <1>2 DEF Refunded
<1>4. \A c : Unrefunded(c)' = Unrefunded(c) \ ids
  BY <1>1, <1>2 DEF Unrefunded
<1> QED  BY <1>1, <1>2, <1>3, <1>4

\* What is due after a refund was queued.
LEMMA Queueing ==
  ASSUME TypeInv, NEW a \in Account, NEW ids \in SUBSET DOMAIN log, NEW by \in Causes,
         QueueRefund(a, ids, by), DOMAIN log' = DOMAIN log
  PROVE  /\ refunds' \subseteq [account : Account, ids : SUBSET DOMAIN log, by : Causes]
         /\ refunds' \subseteq refunds \cup {[account |-> a, ids |-> ids, by |-> by]}
         /\ \A b : /\ DueToDeath(b)' \subseteq DueToDeath(b) \cup ids
                   /\ DueOtherwise(b)' \subseteq DueOtherwise(b) \cup ids
                   /\ by # "death" => DueToDeath(b)' = DueToDeath(b)
                   /\ by = "death" => DueOtherwise(b)' = DueOtherwise(b)
<1> DEFINE n == [account |-> a, ids |-> ids, by |-> by]
<1>1. n.account = a /\ n.ids = ids /\ n.by = by
      /\ n \in [account : Account, ids : SUBSET DOMAIN log, by : Causes]
  OBVIOUS
<1>2. refunds' = refunds \/ refunds' = refunds \cup {n}
  BY DEF QueueRefund
<1> HIDE DEF n
<1>3. refunds' \subseteq [account : Account, ids : SUBSET DOMAIN log, by : Causes]
  BY <1>1, <1>2 DEF TypeInv
<1>4. \A r \in refunds' : r \in refunds \/ r = n
  BY <1>2
<1>5. \A r \in refunds : r \in refunds'
  BY <1>2
<1>6. \A b : /\ DueToDeath(b)' \subseteq DueToDeath(b) \cup ids
             /\ DueOtherwise(b)' \subseteq DueOtherwise(b) \cup ids
  BY <1>1, <1>4 DEF DueToDeath, DueOtherwise
<1>7. \A b : /\ by # "death" => DueToDeath(b)' = DueToDeath(b)
             /\ by = "death" => DueOtherwise(b)' = DueOtherwise(b)
  BY <1>1, <1>4, <1>5 DEF DueToDeath, DueOtherwise
<1> QED  BY <1>2, <1>3, <1>6, <1>7 DEF n

\* A refund that marks what it pays back: RefundPurchase, the npc and the deletion.
LEMMA Refunding ==
  ASSUME TypeInv, RefundsInv, CoinsInv,
         NEW a \in Account, NEW ids \in SUBSET DOMAIN log, NEW by \in Causes \ {"death"},
         \A id \in ids : ~log[id].refunded,
         MarkRefunded(ids), QueueRefund(a, ids, by), UNCHANGED <<coins, dying>>,
         \A c \in Character : life'[c] = "alive" => life[c] = "alive"
  PROVE  RefundsInv' /\ CoinsInv'
<1> DEFINE n == [account |-> a, ids |-> ids, by |-> by]
<1>1. n.account = a /\ n.ids = ids /\ n.by = by /\ by # "death"
  OBVIOUS
<1>2. /\ DOMAIN log' = DOMAIN log /\ Refunded' = Refunded \cup ids
      /\ \A id \in DOMAIN log :
            /\ log'[id].guid = log[id].guid /\ log[id].guid \in Character
            /\ log'[id].refunded <=> log[id].refunded \/ id \in ids
  BY Marking DEF TypeInv
<1>3. /\ refunds' \subseteq refunds \cup {n}
      /\ \A b : DueOtherwise(b)' \subseteq DueOtherwise(b) \cup ids
                /\ DueToDeath(b)' = DueToDeath(b)
  <2>1. by \in Causes /\ by # "death"
    OBVIOUS
  <2>2. DOMAIN log' = DOMAIN log
    BY <1>2
  <2>3. /\ refunds' \subseteq refunds \cup {[account |-> a, ids |-> ids, by |-> by]}
        /\ \A b : /\ DueToDeath(b)' \subseteq DueToDeath(b) \cup ids
                  /\ DueOtherwise(b)' \subseteq DueOtherwise(b) \cup ids
                  /\ by # "death" => DueToDeath(b)' = DueToDeath(b)
    BY <2>1, <2>2, Queueing, Zenon
  <2> QED  BY <2>1, <2>3
<1> HIDE DEF n
<1>4. \A r \in refunds : r.ids \subseteq DOMAIN log
  BY DEF TypeInv
<1>5. RefundsInv'
  <2>1. \A id \in dying' : life'[log'[id].guid] # "alive"
    BY <1>2 DEF RefundsInv, TypeInv
  <2>2. \A r \in refunds' : \A id \in r.ids :
           /\ r.by = "death" => life'[log'[id].guid] # "alive"
           /\ r.by # "death" => log'[id].refunded
    <3> SUFFICES ASSUME NEW r \in refunds', NEW id \in r.ids
                 PROVE  /\ r.by = "death" => life'[log'[id].guid] # "alive"
                        /\ r.by # "death" => log'[id].refunded
      OBVIOUS
    <3>1. CASE r \in refunds  BY <1>2, <1>4, <3>1 DEF RefundsInv
    <3>2. CASE r = n  BY <1>1, <1>2, <3>2
    <3> QED  BY <1>3, <3>1, <3>2
  <2>3. \A r \in refunds : r.by # "death" => r.ids \cap ids = {}
    BY DEF RefundsInv
  <2>4. \A r, s \in refunds' :
           r # s /\ (r.by = "death" <=> s.by = "death") => r.ids \cap s.ids = {}
    <3> SUFFICES ASSUME NEW r \in refunds', NEW s \in refunds', r # s,
                        r.by = "death" <=> s.by = "death"
                 PROVE  r.ids \cap s.ids = {}
      OBVIOUS
    <3>1. CASE r \in refunds /\ s \in refunds  BY <3>1 DEF RefundsInv
    <3>2. CASE r \in refunds /\ s = n  BY <1>1, <2>3, <3>2
    <3>3. CASE r = n /\ s \in refunds  BY <1>1, <2>3, <3>3
    <3> QED  BY <1>3, <3>1, <3>2, <3>3
  <2> QED  BY <2>1, <2>2, <2>4 DEF RefundsInv
<1>6. CoinsInv'
  <2> SUFFICES ASSUME NEW b \in Account
               PROVE  coins'[b] + Cardinality(DueToDeath(b)') + Cardinality(DueOtherwise(b)')
                        <= Coins + Cardinality(Refunded' \cup dying') + Cardinality(Refunded')
    BY DEF CoinsInv
  <2>1. /\ DueToDeath(b) \in SUBSET DOMAIN log /\ DueOtherwise(b) \in SUBSET DOMAIN log
        /\ DueOtherwise(b)' \in SUBSET DOMAIN log /\ Refunded \in SUBSET DOMAIN log
        /\ Refunded \cup dying \in SUBSET DOMAIN log /\ Refunded' \cup dying \in SUBSET DOMAIN log
        /\ DueOtherwise(b) \cup ids \in SUBSET DOMAIN log /\ ids \in SUBSET DOMAIN log
        /\ Refunded \cup ids \in SUBSET DOMAIN log
    BY <1>2 DEF DueToDeath, DueOtherwise, Refunded, TypeInv
  <2>2. \A S \in SUBSET DOMAIN log : IsFiniteSet(S) /\ Cardinality(S) \in Nat
    BY LogFinite
  <2>3. Cardinality(DueOtherwise(b)') <= Cardinality(DueOtherwise(b) \cup ids)
    BY <1>3, <2>1, <2>2, CardSubset
  <2>4. Cardinality(DueOtherwise(b) \cup ids) <= Cardinality(DueOtherwise(b)) + Cardinality(ids)
    <3>1. DueOtherwise(b) \cap ids = {}
      BY DEF DueOtherwise, RefundsInv
    <3> QED  BY <2>1, <2>2, <3>1, CardDisjoint
  <2>5. Cardinality(Refunded \cup ids) = Cardinality(Refunded) + Cardinality(ids)
    <3>1. Refunded \cap ids = {}
      BY DEF Refunded
    <3> QED  BY <2>1, <2>2, <3>1, CardDisjoint
  <2>6. Cardinality(Refunded \cup dying) <= Cardinality(Refunded' \cup dying)
    <3>1. Refunded \cup dying \subseteq Refunded' \cup dying
      BY <1>2
    <3> QED  BY <2>1, <2>2, <3>1, CardSubset
  <2>7. coins[b] + Cardinality(DueToDeath(b)) + Cardinality(DueOtherwise(b))
           <= Coins + Cardinality(Refunded \cup dying) + Cardinality(Refunded)
    BY DEF CoinsInv
  <2>8. /\ coins[b] \in Nat /\ Cardinality(DueToDeath(b)) \in Nat
        /\ Cardinality(DueOtherwise(b)) \in Nat /\ Cardinality(DueOtherwise(b)') \in Nat
        /\ Cardinality(DueOtherwise(b) \cup ids) \in Nat /\ Cardinality(ids) \in Nat
        /\ Cardinality(Refunded) \in Nat /\ Cardinality(Refunded \cup dying) \in Nat
        /\ Cardinality(Refunded' \cup dying) \in Nat /\ Coins \in Nat
    BY <2>1, <2>2, ShopAssumption DEF TypeInv
  <2>9. coins'[b] = coins[b] /\ DueToDeath(b)' = DueToDeath(b) /\ dying' = dying
        /\ Cardinality(Refunded') = Cardinality(Refunded) + Cardinality(ids)
    BY <1>2, <1>3, <2>5
  <2> QED  BY <2>3, <2>4, <2>6, <2>7, <2>8, <2>9
<1> QED  BY <1>5, <1>6

-----------------------------------------------------------------------------
(***************************************************************************)
(* The world thread                                                        *)
(***************************************************************************)
\* Requests wait at the end of the queue, each once.
LEMMA RequestKeeps ==
  ASSUME Inv, NEW a \in Account, RequestBalance(a) \/ RequestPurchase(a)
  PROVE  Inv'
<1>1. PICK g \in Character \cup {None} :
         /\ AddRequest([account |-> a, guid |-> g])
         /\ g # None => nextId + Waiting <= MaxPurchases
  BY DEF RequestBalance, RequestPurchase, Inv, TypeInv
<1> DEFINE r == [account |-> a, guid |-> g]
<1>2. r \in Request /\ r.guid = g
  BY DEF Request
<1>3. pending \in Seq(Request) /\ IsInjective(pending) /\ r \notin ToSet(pending)
  BY <1>1 DEF Inv, TypeInv, AddRequest
<1>4. /\ pending' = Append(pending, r)
      /\ UNCHANGED <<coins, log, nextId, batch, worker, tasks, refunds, online, life, dying, bag,
                     delivered, aborted>>
  BY <1>1 DEF AddRequest, workerVars, playerVars
<1> HIDE DEF r
<1>5. /\ pending' \in Seq(Request) /\ IsInjective(pending)'
      /\ ToSet(pending)' = ToSet(pending) \cup {r}
  BY <1>2, <1>3, <1>4, QueueAppend
<1>6. TypeInv'
  BY <1>4, <1>5 DEF Inv, TypeInv
<1>7. IdsInv'
  <2>1. IsFiniteSet(Purchases(pending)) /\ Cardinality(Purchases(pending)) \in Nat
    BY <1>3, QueueElements
  <2>2. CASE g = None
    <3>1. Purchases(pending)' = Purchases(pending)
      BY <1>2, <1>5, <2>2 DEF Purchases
    <3> QED  BY <1>4, <3>1 DEF IdsInv, Waiting, Purchases, ToSet, Inv
  <2>3. CASE g # None
    <3>1. Purchases(pending)' = Purchases(pending) \cup {r} /\ r \notin Purchases(pending)
      BY <1>2, <1>3, <1>5, <2>3 DEF Purchases
    <3>2. Cardinality(Purchases(pending)') = Cardinality(Purchases(pending)) + 1
      BY <2>1, <3>1, FS_AddElement
    <3>3. PICK n : n = Cardinality(Purchases(IF worker = Idle THEN batch ELSE Tail(batch)))
      OBVIOUS
    <3>4. batch \in Seq(Request) /\ (worker # Idle => batch # << >>)
      BY DEF Inv, TypeInv, WorkerInv
    <3>5. (IF worker = Idle THEN batch ELSE Tail(batch)) \in Seq(Request)
      BY <3>4
    <3>6. n \in Nat
      BY <3>3, <3>5, QueueElements
    <3>7. Waiting = Cardinality(Purchases(pending)) + n
      BY <3>3 DEF Waiting
    <3>8. Waiting' = Cardinality(Purchases(pending)') + n
      BY <1>4, <3>3 DEF Waiting, Purchases, ToSet
    <3>9. nextId \in Nat /\ MaxPurchases \in Nat
      BY ShopAssumption DEF Inv, TypeInv
    <3> QED  BY <1>1, <1>4, <2>1, <2>3, <3>2, <3>6, <3>7, <3>8, <3>9 DEF IdsInv
  <2> QED  BY <2>2, <2>3
<1>8. WorkerInv'
  BY <1>4 DEF Inv, WorkerInv
<1> QED  BY <1>4, <1>6, <1>7, <1>8, RefundsFrame, CoinsFrame, FreeFrame DEF Inv

\* Sessions.
LEMMA SessionKeeps ==
  ASSUME Inv,
         \/ \E c \in Character : Login(c)
         \/ \E a \in Account : Logout(a)
  PROVE  Inv'
<1>1. UNCHANGED <<coins, log, pending, nextId, batch, worker, tasks, refunds, life, dying, bag,
                  delivered, aborted>>
  BY DEF Login, Logout, workerVars
<1>2. /\ online' \in [Account -> Character \cup {None}]
      /\ \A a \in Account : online'[a] # None => Owner[online'[a]] = a /\ life[online'[a]] # "deleted"
  <2>1. ASSUME NEW c \in Character, Login(c)
        PROVE  /\ online' \in [Account -> Character \cup {None}]
               /\ \A a \in Account :
                     online'[a] # None => Owner[online'[a]] = a /\ life[online'[a]] # "deleted"
    BY <2>1, ShopAssumption DEF Login, Inv, TypeInv
  <2>2. ASSUME NEW c \in Account, Logout(c)
        PROVE  /\ online' \in [Account -> Character \cup {None}]
               /\ \A a \in Account :
                     online'[a] # None => Owner[online'[a]] = a /\ life[online'[a]] # "deleted"
    BY <2>2 DEF Logout, Inv, TypeInv
  <2> QED  BY <2>1, <2>2
<1>3. TypeInv'
  BY <1>1, <1>2 DEF Inv, TypeInv
<1>4. WorkerInv'
  BY <1>1 DEF Inv, WorkerInv
<1> QED  BY <1>1, <1>3, <1>4, IdsFrame, RefundsFrame, CoinsFrame, FreeFrame DEF Inv

\* A death queues the refund of everything that the log has for the buyer, and marks
\* nothing yet.
LEMMA DeathKeeps ==
  ASSUME Inv, NEW c \in Character, DieHardcore(c)
  PROVE  Inv'
<1> DEFINE ids == Unrefunded(c)
           a == Owner[c]
           n == [account |-> a, ids |-> ids, by |-> "death"]
<1>1. /\ life[c] = "alive" /\ life' = [life EXCEPT ![c] = "dead"]
      /\ dying' = dying \cup ids /\ QueueRefund(a, ids, "death")
      /\ UNCHANGED <<coins, log, pending, nextId, batch, worker, tasks, online, bag, delivered,
                     aborted>>
  BY DEF DieHardcore, workerVars
<1>2. /\ ids \in SUBSET DOMAIN log /\ a \in Account /\ "death" \in Causes
      /\ \A id \in ids : log[id].guid = c /\ ~log[id].refunded
  BY ShopAssumption DEF Unrefunded, Causes
<1> HIDE DEF ids, a
<1>3. DOMAIN log' = DOMAIN log
  BY <1>1
<1>4. /\ refunds' \subseteq [account : Account, ids : SUBSET DOMAIN log, by : Causes]
      /\ refunds' \subseteq refunds \cup {n}
      /\ \A b : /\ DueToDeath(b)' \subseteq DueToDeath(b) \cup ids
                /\ DueOtherwise(b)' = DueOtherwise(b)
  <2>1. TypeInv
    BY DEF Inv
  <2>2. /\ refunds' \subseteq [account : Account, ids : SUBSET DOMAIN log, by : Causes]
        /\ refunds' \subseteq refunds \cup {[account |-> a, ids |-> ids, by |-> "death"]}
        /\ \A b : /\ DueToDeath(b)' \subseteq DueToDeath(b) \cup ids
                  /\ DueOtherwise(b)' \subseteq DueOtherwise(b) \cup ids
                  /\ "death" = "death" => DueOtherwise(b)' = DueOtherwise(b)
    BY <1>1, <1>2, <1>3, <2>1, Queueing, Zenon
  <2> QED  BY <2>2
<1>5. n.by = "death" /\ n.ids = ids
  OBVIOUS
<1> HIDE DEF n
<1>6. /\ life \in [Character -> {"alive", "dead", "deleted"}] /\ life'[c] = "dead"
      /\ \A d \in Character : life'[d] = "alive" => life[d] = "alive"
      /\ \A d \in Character : life'[d] = "deleted" => life[d] = "deleted"
  BY <1>1 DEF Inv, TypeInv
<1>7. TypeInv'
  <2>1. \A b \in Account : online'[b] # None => Owner[online'[b]] = b /\ life'[online'[b]] # "deleted"
    BY <1>1, <1>6 DEF Inv, TypeInv
  <2>2. life' \in [Character -> {"alive", "dead", "deleted"}] /\ dying' \subseteq DOMAIN log
    BY <1>1, <1>2 DEF Inv, TypeInv
  <2> QED  BY <1>1, <1>4, <2>1, <2>2 DEF Inv, TypeInv
<1>8. \A id \in DOMAIN log : log[id].guid \in Character
  BY DEF Inv, TypeInv
<1>9. \A id \in dying : life[log[id].guid] # "alive"
  BY DEF Inv, RefundsInv
<1>10. \A r \in refunds : r.ids \subseteq DOMAIN log
  BY DEF Inv, TypeInv
<1>11. \A r \in refunds : r.by = "death" => r.ids \cap ids = {}
  BY <1>1, <1>2 DEF Inv, RefundsInv
<1>12. RefundsInv'
  <2>1. \A id \in dying' : life'[log'[id].guid] # "alive"
    BY <1>1, <1>2, <1>6, <1>8, <1>9 DEF Inv, TypeInv
  <2>2. \A r \in refunds' : \A id \in r.ids :
           /\ r.by = "death" => life'[log'[id].guid] # "alive"
           /\ r.by # "death" => log'[id].refunded
    <3> SUFFICES ASSUME NEW r \in refunds', NEW id \in r.ids
                 PROVE  /\ r.by = "death" => life'[log'[id].guid] # "alive"
                        /\ r.by # "death" => log'[id].refunded
      OBVIOUS
    <3>1. CASE r \in refunds  BY <1>1, <1>6, <1>8, <1>10, <3>1 DEF Inv, RefundsInv
    <3>2. CASE r = n  BY <1>1, <1>2, <1>5, <1>6, <3>2
    <3> QED  BY <1>4, <3>1, <3>2
  <2>3. \A r, s \in refunds' :
           r # s /\ (r.by = "death" <=> s.by = "death") => r.ids \cap s.ids = {}
    <3> SUFFICES ASSUME NEW r \in refunds', NEW s \in refunds', r # s,
                        r.by = "death" <=> s.by = "death"
                 PROVE  r.ids \cap s.ids = {}
      OBVIOUS
    <3>1. CASE r \in refunds /\ s \in refunds  BY <3>1 DEF Inv, RefundsInv
    <3>2. CASE r \in refunds /\ s = n  BY <1>5, <1>11, <3>2
    <3>3. CASE r = n /\ s \in refunds  BY <1>5, <1>11, <3>3
    <3> QED  BY <1>4, <3>1, <3>2, <3>3
  <2> QED  BY <2>1, <2>2, <2>3 DEF RefundsInv
<1>13. CoinsInv'
  <2>1. Refunded' = Refunded
    BY <1>1 DEF Refunded
  <2> SUFFICES ASSUME NEW b \in Account
               PROVE  coins'[b] + Cardinality(DueToDeath(b)') + Cardinality(DueOtherwise(b)')
                        <= Coins + Cardinality(Refunded \cup dying') + Cardinality(Refunded)
    BY <2>1 DEF CoinsInv
  <2>2. /\ DueToDeath(b) \in SUBSET DOMAIN log /\ DueOtherwise(b) \in SUBSET DOMAIN log
        /\ DueToDeath(b)' \in SUBSET DOMAIN log /\ Refunded \in SUBSET DOMAIN log
        /\ Refunded \cup dying \in SUBSET DOMAIN log
        /\ DueToDeath(b) \cup ids \in SUBSET DOMAIN log
    BY <1>1, <1>2 DEF DueToDeath, DueOtherwise, Refunded, Inv, TypeInv
  <2>3. \A S \in SUBSET DOMAIN log : IsFiniteSet(S) /\ Cardinality(S) \in Nat
    BY LogFinite DEF Inv
  <2>4. Cardinality(DueToDeath(b)') <= Cardinality(DueToDeath(b) \cup ids)
    BY <1>4, <2>2, <2>3, CardSubset
  <2>5. Cardinality(DueToDeath(b) \cup ids) = Cardinality(DueToDeath(b)) + Cardinality(ids)
    <3>1. DueToDeath(b) \cap ids = {}
      BY <1>11 DEF DueToDeath
    <3> QED  BY <1>2, <2>2, <2>3, <3>1, CardDisjoint
  <2>6. Cardinality(Refunded \cup dying') = Cardinality(Refunded \cup dying) + Cardinality(ids)
    <3>1. (Refunded \cup dying) \cap ids = {}
      BY <1>1, <1>2, <1>9 DEF Refunded
    <3>2. Refunded \cup dying' = (Refunded \cup dying) \cup ids
      BY <1>1
    <3> QED  BY <1>2, <2>2, <2>3, <3>1, <3>2, CardDisjoint
  <2>7. coins[b] + Cardinality(DueToDeath(b)) + Cardinality(DueOtherwise(b))
           <= Coins + Cardinality(Refunded \cup dying) + Cardinality(Refunded)
    BY DEF Inv, CoinsInv
  <2>8. /\ coins[b] \in Nat /\ Cardinality(DueToDeath(b)) \in Nat
        /\ Cardinality(DueOtherwise(b)) \in Nat /\ Cardinality(DueToDeath(b)') \in Nat
        /\ Cardinality(ids) \in Nat
        /\ Cardinality(Refunded) \in Nat /\ Cardinality(Refunded \cup dying) \in Nat
        /\ Coins \in Nat
    BY <1>2, <2>2, <2>3, ShopAssumption DEF Inv, TypeInv
  <2>9. coins'[b] = coins[b] /\ DueOtherwise(b)' = DueOtherwise(b)
    BY <1>1, <1>4
  <2> QED  BY <2>4, <2>5, <2>6, <2>7, <2>8, <2>9
<1>14. NoFreeItem'
  <2> SUFFICES ASSUME NEW d \in Character, life'[d] = "alive"
               PROVE  bag'[d] + Cardinality(Underway(d)') <= Cardinality(Unrefunded(d)')
    BY DEF NoFreeItem
  <2>1. Underway(d)' = Underway(d) /\ Unrefunded(d)' = Unrefunded(d) /\ bag' = bag
    BY <1>1 DEF Underway, Unrefunded
  <2> QED  BY <1>6, <2>1 DEF Inv, NoFreeItem
<1>15. WorkerInv'
  BY <1>1 DEF Inv, WorkerInv
<1> QED  BY <1>1, <1>7, <1>12, <1>13, <1>14, <1>15, IdsFrame DEF Inv

\* The death marks what it has refunded, in the dead's part of the log.
LEMMA MarkDeathKeeps ==
  ASSUME Inv, MarkDeath  PROVE  Inv'
<1>1. /\ MarkRefunded(dying) /\ dying' = {}
      /\ UNCHANGED <<coins, pending, nextId, batch, worker, tasks, refunds, online, life, bag,
                     delivered, aborted>>
  BY DEF MarkDeath, workerVars
<1>2. dying \in SUBSET DOMAIN log
  BY DEF Inv, TypeInv
<1>3. /\ DOMAIN log' = DOMAIN log
      /\ \A id \in DOMAIN log :
            /\ log'[id] \in [guid : Character, refunded : BOOLEAN]
            /\ log'[id].guid = log[id].guid
            /\ log'[id].refunded <=> log[id].refunded \/ id \in dying
      /\ Refunded' = Refunded \cup dying
      /\ \A c : Unrefunded(c)' = Unrefunded(c) \ dying
  BY <1>1, <1>2, Marking DEF Inv
<1>4. TypeInv'
  BY <1>1, <1>3 DEF Inv, TypeInv
<1>5. WorkerInv'
  <2>1. coins' \in [Account -> Nat] /\ \A a \in Account : coins[a] <= coins'[a]
    BY <1>1 DEF Inv, TypeInv
  <2> QED  BY <1>1, <1>3, <2>1, WorkerFrame DEF Inv
<1>6. RefundsInv'
  <2>1. \A r \in refunds : r.ids \subseteq DOMAIN log
    BY DEF Inv, TypeInv
  <2> QED  BY <1>1, <1>3, <2>1 DEF Inv, RefundsInv
<1>7. CoinsInv'
  <2> SUFFICES ASSUME NEW b \in Account
               PROVE  coins'[b] + Cardinality(DueToDeath(b)') + Cardinality(DueOtherwise(b)')
                        <= Coins + Cardinality(Refunded' \cup dying') + Cardinality(Refunded')
    BY DEF CoinsInv
  <2>1. /\ DueToDeath(b) \in SUBSET DOMAIN log /\ DueOtherwise(b) \in SUBSET DOMAIN log
        /\ Refunded \in SUBSET DOMAIN log /\ Refunded \cup dying \in SUBSET DOMAIN log
    BY <1>2 DEF DueToDeath, DueOtherwise, Refunded
  <2>2. \A S \in SUBSET DOMAIN log : IsFiniteSet(S) /\ Cardinality(S) \in Nat
    BY LogFinite DEF Inv
  <2>3. Cardinality(Refunded) <= Cardinality(Refunded \cup dying)
    <3>1. Refunded \subseteq Refunded \cup dying
      OBVIOUS
    <3> QED  BY <2>1, <2>2, <3>1, CardSubset
  <2>4. coins[b] + Cardinality(DueToDeath(b)) + Cardinality(DueOtherwise(b))
           <= Coins + Cardinality(Refunded \cup dying) + Cardinality(Refunded)
    BY DEF Inv, CoinsInv
  <2>5. DueToDeath(b)' = DueToDeath(b) /\ DueOtherwise(b)' = DueOtherwise(b) /\ coins' = coins
        /\ Refunded' \cup dying' = Refunded \cup dying /\ Refunded' = Refunded \cup dying
    BY <1>1, <1>3 DEF DueToDeath, DueOtherwise
  <2>6. /\ coins[b] \in Nat /\ Cardinality(DueToDeath(b)) \in Nat
        /\ Cardinality(DueOtherwise(b)) \in Nat /\ Cardinality(Refunded) \in Nat
        /\ Cardinality(Refunded \cup dying) \in Nat /\ Coins \in Nat
    BY <2>1, <2>2, ShopAssumption DEF Inv, TypeInv
  <2>7. /\ coins'[b] = coins[b] /\ Cardinality(DueToDeath(b)') = Cardinality(DueToDeath(b))
        /\ Cardinality(DueOtherwise(b)') = Cardinality(DueOtherwise(b))
        /\ Cardinality(Refunded' \cup dying') = Cardinality(Refunded \cup dying)
        /\ Cardinality(Refunded') = Cardinality(Refunded \cup dying)
    BY <2>5, Zenon
  <2> QED  BY <2>3, <2>4, <2>6, <2>7
<1>8. NoFreeItem'
  <2> SUFFICES ASSUME NEW d \in Character, life'[d] = "alive"
               PROVE  bag'[d] + Cardinality(Underway(d)') <= Cardinality(Unrefunded(d)')
    BY DEF NoFreeItem
  <2>1. tasks \subseteq DOMAIN log
    BY DEF Inv, TypeInv
  <2>2. Underway(d)' = Underway(d) /\ bag' = bag
    BY <1>1, <1>3, <2>1 DEF Underway
  <2>3. \A id \in dying : log[id].guid # d
    BY <1>1 DEF Inv, RefundsInv
  <2>4. Unrefunded(d)' = Unrefunded(d)
    BY <1>3, <2>3 DEF Unrefunded
  <2> QED  BY <1>1, <2>2, <2>4 DEF Inv, NoFreeItem
<1> QED  BY <1>1, <1>4, <1>5, <1>6, <1>7, <1>8, IdsFrame DEF Inv

\* A deletion refunds all that is left, whether or not the items are still there.
LEMMA DeleteKeeps ==
  ASSUME Inv, NEW c \in Character, DeleteFromDB(c)
  PROVE  Inv'
<1> DEFINE ids == Unrefunded(c)
<1>1. /\ MarkRefunded(ids) /\ QueueRefund(Owner[c], ids, "deletion")
      /\ online[Owner[c]] # c
      /\ life' = [life EXCEPT ![c] = "deleted"] /\ bag' = [bag EXCEPT ![c] = 0]
      /\ UNCHANGED <<coins, pending, nextId, batch, worker, tasks, online, dying, delivered,
                     aborted>>
  BY DEF DeleteFromDB, workerVars
<1>2. /\ ids \in SUBSET DOMAIN log /\ Owner[c] \in Account
      /\ \A id \in ids : log[id].guid = c /\ ~log[id].refunded
  BY ShopAssumption DEF Unrefunded
<1> HIDE DEF ids
<1>3. /\ DOMAIN log' = DOMAIN log
      /\ \A id \in DOMAIN log :
            /\ log'[id] \in [guid : Character, refunded : BOOLEAN]
            /\ log'[id].guid = log[id].guid
            /\ log'[id].refunded <=> log[id].refunded \/ id \in ids
      /\ \A d : Unrefunded(d)' = Unrefunded(d) \ ids
  BY <1>1, <1>2, Marking DEF Inv
<1>4. life \in [Character -> {"alive", "dead", "deleted"}] /\ bag \in [Character -> Nat]
  BY DEF Inv, TypeInv
<1>5. TypeInv'
  <2>1. "deletion" \in Causes
    BY DEF Causes
  <2>2. refunds' \subseteq [account : Account, ids : SUBSET DOMAIN log, by : Causes]
    BY <1>1, <1>2, <1>3, <2>1, Queueing DEF Inv
  <2>3. \A a \in Account : online'[a] # None => Owner[online'[a]] = a /\ life'[online'[a]] # "deleted"
    BY <1>1, <1>4 DEF Inv, TypeInv
  <2> QED  BY <1>1, <1>3, <1>4, <2>2, <2>3 DEF Inv, TypeInv
<1>6. WorkerInv'
  <2>1. coins' \in [Account -> Nat] /\ \A a \in Account : coins[a] <= coins'[a]
    BY <1>1 DEF Inv, TypeInv
  <2> QED  BY <1>1, <1>3, <2>1, WorkerFrame DEF Inv
<1>7. RefundsInv' /\ CoinsInv'
  <2>1. "deletion" \in Causes \ {"death"}
    BY DEF Causes
  <2>2. \A d \in Character : life'[d] = "alive" => life[d] = "alive"
    BY <1>1, <1>4
  <2> QED  BY <1>1, <1>2, <2>1, <2>2, Refunding DEF Inv
<1>8. NoFreeItem'
  <2> SUFFICES ASSUME NEW d \in Character, life'[d] = "alive"
               PROVE  bag'[d] + Cardinality(Underway(d)') <= Cardinality(Unrefunded(d)')
    BY DEF NoFreeItem
  <2>1. d # c /\ life[d] = "alive" /\ bag'[d] = bag[d]
    BY <1>1, <1>4
  <2>2. tasks \subseteq DOMAIN log
    BY DEF Inv, TypeInv
  <2>3. Underway(d)' = Underway(d)
    BY <1>1, <1>3, <2>2 DEF Underway
  <2>4. Unrefunded(d)' = Unrefunded(d)
    BY <1>2, <1>3, <2>1 DEF Unrefunded
  <2> QED  BY <2>1, <2>3, <2>4 DEF Inv, NoFreeItem
<1> QED  BY <1>1, <1>5, <1>6, <1>7, <1>8, IdsFrame DEF Inv

\* The npc: one item less for one purchase less.
LEMMA NpcKeeps ==
  ASSUME Inv, NEW c \in Character, NEW id \in DOMAIN log, RefundAtNpc(c, id)
  PROVE  Inv'
<1>1. /\ MarkRefunded({id}) /\ QueueRefund(Owner[c], {id}, "npc")
      /\ bag[c] > 0 /\ bag' = [bag EXCEPT ![c] = @ - 1] /\ id \in Unrefunded(c)
      /\ UNCHANGED <<coins, pending, nextId, batch, worker, tasks, online, life, dying, delivered,
                     aborted>>
  BY DEF RefundAtNpc, workerVars
<1>2. {id} \in SUBSET DOMAIN log /\ Owner[c] \in Account /\ log[id].guid = c /\ ~log[id].refunded
  BY <1>1, ShopAssumption DEF Unrefunded
<1>3. /\ DOMAIN log' = DOMAIN log
      /\ \A i \in DOMAIN log :
            /\ log'[i] \in [guid : Character, refunded : BOOLEAN]
            /\ log'[i].guid = log[i].guid
      /\ \A d : Unrefunded(d)' = Unrefunded(d) \ {id}
  BY <1>1, <1>2, Marking DEF Inv
<1>4. bag \in [Character -> Nat] /\ bag' \in [Character -> Nat]
  BY <1>1 DEF Inv, TypeInv
<1>5. TypeInv'
  <2>1. "npc" \in Causes
    BY DEF Causes
  <2>2. refunds' \subseteq [account : Account, ids : SUBSET DOMAIN log, by : Causes]
    BY <1>1, <1>2, <1>3, <2>1, Queueing DEF Inv
  <2> QED  BY <1>1, <1>3, <1>4, <2>2 DEF Inv, TypeInv
<1>6. WorkerInv'
  <2>1. coins' \in [Account -> Nat] /\ \A a \in Account : coins[a] <= coins'[a]
    BY <1>1 DEF Inv, TypeInv
  <2> QED  BY <1>1, <1>3, <2>1, WorkerFrame DEF Inv
<1>7. RefundsInv' /\ CoinsInv'
  <2>1. "npc" \in Causes \ {"death"}
    BY DEF Causes
  <2>2. \A i \in {id} : ~log[i].refunded
    BY <1>2
  <2>3. \A d \in Character : life'[d] = "alive" => life[d] = "alive"
    BY <1>1
  <2>4. UNCHANGED <<coins, dying>>
    BY <1>1
  <2> QED  BY <1>1, <1>2, <2>1, <2>2, <2>3, <2>4, Refunding DEF Inv
<1>8. NoFreeItem'
  <2> SUFFICES ASSUME NEW d \in Character, life'[d] = "alive"
               PROVE  bag'[d] + Cardinality(Underway(d)') <= Cardinality(Unrefunded(d)')
    BY DEF NoFreeItem
  <2>1. tasks \subseteq DOMAIN log
    BY DEF Inv, TypeInv
  <2>2. Underway(d)' = Underway(d)
    BY <1>1, <1>3, <2>1 DEF Underway
  <2>3. bag[d] + Cardinality(Underway(d)) <= Cardinality(Unrefunded(d))
    BY <1>1 DEF Inv, NoFreeItem
  <2>4. CASE d # c
    <3>1. Unrefunded(d)' = Unrefunded(d) /\ bag'[d] = bag[d]
      BY <1>1, <1>2, <1>3, <1>4, <2>4, SMTT(30) DEF Unrefunded
    <3> QED  BY <2>2, <2>3, <3>1
  <2>5. CASE d = c
    <3>1. bag'[d] = bag[d] - 1 /\ bag[d] \in Nat
      BY <1>1, <1>4, <2>5
    <3>2. Cardinality(Unrefunded(d)') = Cardinality(Unrefunded(d)) - 1
      BY <1>1, <1>3, <2>5, CountedSets, FS_RemoveElement
    <3>3. Cardinality(Unrefunded(d)) \in Nat /\ Cardinality(Underway(d)) \in Nat
      BY CountedSets
    <3> QED  BY <2>2, <2>3, <3>1, <3>2, <3>3
  <2> QED  BY <2>4, <2>5
<1> QED  BY <1>1, <1>5, <1>6, <1>7, <1>8, IdsFrame DEF Inv

\* An item is used up.
LEMMA UseKeeps ==
  ASSUME Inv, NEW c \in Character, UseItem(c)
  PROVE  Inv'
<1>1. /\ bag[c] > 0 /\ bag' = [bag EXCEPT ![c] = @ - 1]
      /\ UNCHANGED <<coins, log, pending, nextId, batch, worker, tasks, refunds, online, life,
                     dying, delivered, aborted>>
  BY DEF UseItem, workerVars
<1>2. bag \in [Character -> Nat] /\ bag' \in [Character -> Nat]
  BY <1>1 DEF Inv, TypeInv
<1>3. TypeInv'
  BY <1>1, <1>2 DEF Inv, TypeInv
<1>4. WorkerInv'
  BY <1>1 DEF Inv, WorkerInv
<1>5. NoFreeItem'
  <2> SUFFICES ASSUME NEW d \in Character, life'[d] = "alive"
               PROVE  bag'[d] + Cardinality(Underway(d)') <= Cardinality(Unrefunded(d)')
    BY DEF NoFreeItem
  <2>1. Underway(d)' = Underway(d) /\ Unrefunded(d)' = Unrefunded(d)
    BY <1>1 DEF Underway, Unrefunded
  <2>2. bag'[d] <= bag[d] /\ bag[d] \in Nat /\ bag'[d] \in Nat
    BY <1>1, <1>2
  <2>3. Cardinality(Unrefunded(d)) \in Nat /\ Cardinality(Underway(d)) \in Nat
    BY CountedSets
  <2>4. bag[d] + Cardinality(Underway(d)) <= Cardinality(Unrefunded(d))
    BY <1>1 DEF Inv, NoFreeItem
  <2> QED  BY <2>1, <2>2, <2>3, <2>4
<1> QED  BY <1>1, <1>3, <1>4, <1>5, IdsFrame, RefundsFrame, CoinsFrame DEF Inv

-----------------------------------------------------------------------------
(***************************************************************************)
(* Tasks and statements                                                    *)
(***************************************************************************)
\* What was on its way arrives.
LEMMA DeliverKeeps ==
  ASSUME Inv, NEW id \in tasks, DeliverItem(id)
  PROVE  Inv'
<1> DEFINE g == log[id].guid
<1>1. /\ bag' = [bag EXCEPT ![g] = @ + 1]
      /\ delivered' = delivered \cup {id} /\ tasks' = tasks \ {id}
      /\ UNCHANGED <<coins, log, pending, nextId, batch, worker, refunds, online, life, dying,
                     aborted>>
  BY DEF DeliverItem, workerVars
<1>2. id \in DOMAIN log /\ g \in Character
  BY DEF Inv, TypeInv
<1> HIDE DEF g
<1>3. bag \in [Character -> Nat] /\ bag' \in [Character -> Nat]
  BY <1>1, <1>2 DEF Inv, TypeInv
<1>4. TypeInv'
  BY <1>1, <1>2, <1>3 DEF Inv, TypeInv
<1>5. WorkerInv'
  BY <1>1 DEF Inv, WorkerInv
<1>6. NoFreeItem'
  <2> SUFFICES ASSUME NEW d \in Character, life'[d] = "alive"
               PROVE  bag'[d] + Cardinality(Underway(d)') <= Cardinality(Unrefunded(d)')
    BY DEF NoFreeItem
  <2>1. Unrefunded(d)' = Unrefunded(d)
    BY <1>1 DEF Unrefunded
  <2>2. worker.at = "listed" => worker.id # id
    BY DEF Inv, WorkerInv
  <2>3. Underway(d)' = Underway(d) \ {id}
    BY <1>1, <2>2 DEF Underway
  <2>4. id \in Underway(d) <=> d = g
    BY <2>2 DEF Underway, g
  <2>5. Cardinality(Underway(d)') = IF d = g THEN Cardinality(Underway(d)) - 1
                                             ELSE Cardinality(Underway(d))
    BY <2>3, <2>4, CountedSets, FS_RemoveElement
  <2>6. bag'[d] = IF d = g THEN bag[d] + 1 ELSE bag[d]
    BY <1>1, <1>3
  <2>7. bag[d] \in Nat /\ Cardinality(Unrefunded(d)) \in Nat /\ Cardinality(Underway(d)) \in Nat
    BY <1>3, CountedSets
  <2>8. bag[d] + Cardinality(Underway(d)) <= Cardinality(Unrefunded(d))
    BY <1>1 DEF Inv, NoFreeItem
  <2> QED  BY <2>1, <2>5, <2>6, <2>7, <2>8
<1> QED  BY <1>1, <1>4, <1>5, <1>6, IdsFrame, RefundsFrame, CoinsFrame DEF Inv

\* What was on its way is paid back instead, unless it was already; then the server
\* stops.
LEMMA RefundKeeps ==
  ASSUME Inv, NEW id \in tasks, RefundPurchase(id)
  PROVE  Inv'
<1> DEFINE g == log[id].guid
<1>1. /\ tasks' = tasks \ {id} /\ aborted' = log[id].refunded
      /\ UNCHANGED <<coins, pending, nextId, batch, worker, online, life, dying, bag, delivered>>
  BY DEF RefundPurchase, workerVars, playerVars
<1>2. /\ id \in DOMAIN log /\ g \in Character /\ Owner[g] \in Account
      /\ aborted' \in BOOLEAN /\ tasks' \subseteq DOMAIN log
  BY <1>1, ShopAssumption DEF Inv, TypeInv
<1>3. coins' \in [Account -> Nat] /\ \A a \in Account : coins[a] <= coins'[a]
  BY <1>1 DEF Inv, TypeInv
<1>4. worker.at = "listed" => worker.id # id
  BY DEF Inv, WorkerInv
<1>5. CASE log[id].refunded
  <2>1. UNCHANGED <<log, refunds>>
    BY <1>5 DEF RefundPurchase
  <2>2. TypeInv'
    BY <1>1, <1>2, <2>1 DEF Inv, TypeInv
  <2>3. NoFreeItem'
    <3> SUFFICES ASSUME NEW d \in Character, life'[d] = "alive"
                 PROVE  bag'[d] + Cardinality(Underway(d)') <= Cardinality(Unrefunded(d)')
      BY DEF NoFreeItem
    <3>1. Unrefunded(d)' = Unrefunded(d) /\ Underway(d)' \subseteq Underway(d)
      BY <1>1, <2>1 DEF Unrefunded, Underway
    <3>2. Cardinality(Underway(d)') <= Cardinality(Underway(d)) /\ Cardinality(Underway(d)') \in Nat
      BY <3>1, CountedSets, CardSubset
    <3>3. bag[d] \in Nat /\ Cardinality(Unrefunded(d)) \in Nat /\ Cardinality(Underway(d)) \in Nat
      BY CountedSets DEF Inv, TypeInv
    <3>4. bag[d] + Cardinality(Underway(d)) <= Cardinality(Unrefunded(d))
      BY <1>1 DEF Inv, NoFreeItem
    <3> QED  BY <1>1, <3>1, <3>2, <3>3, <3>4
  <2>4. WorkerInv'
    BY <1>1, <2>1 DEF Inv, WorkerInv
  <2> QED  BY <1>1, <2>1, <2>2, <2>3, <2>4, IdsFrame, RefundsFrame, CoinsFrame DEF Inv
<1>6. CASE ~log[id].refunded
  <2>1. MarkRefunded({id}) /\ QueueRefund(Owner[g], {id}, "task")
    BY <1>6 DEF RefundPurchase
  <2>2. {id} \in SUBSET DOMAIN log
    BY <1>2
  <2> HIDE DEF g
  <2>3. /\ DOMAIN log' = DOMAIN log
        /\ \A i \in DOMAIN log :
              /\ log'[i] \in [guid : Character, refunded : BOOLEAN]
              /\ log'[i].guid = log[i].guid
        /\ \A d : Unrefunded(d)' = Unrefunded(d) \ {id}
    BY <2>1, <2>2, Marking DEF Inv
  <2>4. TypeInv'
    <3>1. "task" \in Causes
      BY DEF Causes
    <3>2. refunds' \subseteq [account : Account, ids : SUBSET DOMAIN log, by : Causes]
      BY <1>2, <2>1, <2>2, <2>3, <3>1, Queueing DEF Inv
    <3> QED  BY <1>1, <1>2, <2>3, <3>2 DEF Inv, TypeInv
  <2>5. WorkerInv'
    BY <1>1, <1>3, <2>3, WorkerFrame DEF Inv
  <2>6. RefundsInv' /\ CoinsInv'
    <3>1. "task" \in Causes \ {"death"}
      BY DEF Causes
    <3> QED  BY <1>1, <1>2, <1>6, <2>1, <2>2, <3>1, Refunding DEF Inv
  <2>7. NoFreeItem'
    <3> SUFFICES ASSUME NEW d \in Character, life'[d] = "alive"
                 PROVE  bag'[d] + Cardinality(Underway(d)') <= Cardinality(Unrefunded(d)')
      BY DEF NoFreeItem
    <3>1. tasks \subseteq DOMAIN log
      BY DEF Inv, TypeInv
    <3>2. Underway(d)' = Underway(d) \ {id}
      BY <1>1, <1>4, <2>3, <3>1 DEF Underway
    <3>3. (id \in Underway(d) <=> d = g) /\ (id \in Unrefunded(d) <=> d = g)
      BY <1>2, <1>4, <1>6 DEF Underway, Unrefunded, g
    <3>4. Cardinality(Underway(d)') = IF d = g THEN Cardinality(Underway(d)) - 1
                                               ELSE Cardinality(Underway(d))
      BY <3>2, <3>3, CountedSets, FS_RemoveElement
    <3>5. Cardinality(Unrefunded(d)') = IF d = g THEN Cardinality(Unrefunded(d)) - 1
                                                 ELSE Cardinality(Unrefunded(d))
      BY <2>3, <3>3, CountedSets, FS_RemoveElement
    <3>6. bag[d] \in Nat /\ Cardinality(Unrefunded(d)) \in Nat /\ Cardinality(Underway(d)) \in Nat
      BY CountedSets DEF Inv, TypeInv
    <3>7. bag[d] + Cardinality(Underway(d)) <= Cardinality(Unrefunded(d))
      BY <1>1 DEF Inv, NoFreeItem
    <3> QED  BY <1>1, <3>4, <3>5, <3>6, <3>7
  <2> QED  BY <1>1, <2>4, <2>5, <2>6, <2>7, IdsFrame DEF Inv
<1> QED  BY <1>5, <1>6

\* A refund is carried out: what was due is in the purse.
LEMMA ExecuteKeeps ==
  ASSUME Inv, NEW r \in refunds, ExecuteRefund(r)
  PROVE  Inv'
<1> DEFINE n == Cardinality(r.ids)
<1>1. /\ coins' = [coins EXCEPT ![r.account] = @ + n] /\ refunds' = refunds \ {r}
      /\ UNCHANGED <<log, pending, nextId, batch, worker, tasks, online, life, dying, bag, delivered,
                     aborted>>
  <2>1. coins' = [coins EXCEPT ![r.account] = @ + 1 * n]
    BY DEF ExecuteRefund, Price
  <2>2. r.ids \in SUBSET DOMAIN log
    BY DEF Inv, TypeInv
  <2>3. n \in Nat
    BY <2>2, LogFinite DEF Inv
  <2>4. 1 * n = n
    BY <2>3
  <2> QED  BY <2>1, <2>4 DEF ExecuteRefund, workerVars, playerVars
<1>2. r.account \in Account /\ r.ids \in SUBSET DOMAIN log
  BY DEF Inv, TypeInv
<1>3. n \in Nat
  BY <1>2, LogFinite DEF Inv
<1> HIDE DEF n
<1>4. /\ coins \in [Account -> Nat] /\ coins' \in [Account -> Nat]
      /\ \A a \in Account : coins[a] <= coins'[a]
  BY <1>1, <1>2, <1>3 DEF Inv, TypeInv
<1>5. TypeInv'
  BY <1>1, <1>4 DEF Inv, TypeInv
<1>6. WorkerInv'
  BY <1>1, <1>4, WorkerFrame DEF Inv
<1>7. RefundsInv'
  BY <1>1 DEF Inv, RefundsInv
<1>8. CoinsInv'
  <2> SUFFICES ASSUME NEW b \in Account
               PROVE  coins'[b] + Cardinality(DueToDeath(b)') + Cardinality(DueOtherwise(b)')
                        <= Coins + Cardinality(Refunded' \cup dying') + Cardinality(Refunded')
    BY DEF CoinsInv
  <2>0. Refunded' = Refunded /\ dying' = dying
    BY <1>1 DEF Refunded
  <2>1. /\ DueToDeath(b) \in SUBSET DOMAIN log /\ DueOtherwise(b) \in SUBSET DOMAIN log
        /\ DueToDeath(b)' \in SUBSET DOMAIN log /\ DueOtherwise(b)' \in SUBSET DOMAIN log
        /\ Refunded \in SUBSET DOMAIN log /\ Refunded \cup dying \in SUBSET DOMAIN log
    BY <1>1 DEF DueToDeath, DueOtherwise, Refunded, Inv, TypeInv
  <2>2. \A S \in SUBSET DOMAIN log : IsFiniteSet(S) /\ Cardinality(S) \in Nat
    BY LogFinite DEF Inv
  <2>3. coins[b] + Cardinality(DueToDeath(b)) + Cardinality(DueOtherwise(b))
           <= Coins + Cardinality(Refunded \cup dying) + Cardinality(Refunded)
    BY DEF Inv, CoinsInv
  <2>4. /\ coins[b] \in Nat /\ Coins \in Nat
        /\ Cardinality(DueToDeath(b)) \in Nat /\ Cardinality(DueOtherwise(b)) \in Nat
        /\ Cardinality(DueToDeath(b)') \in Nat /\ Cardinality(DueOtherwise(b)') \in Nat
        /\ Cardinality(Refunded) \in Nat /\ Cardinality(Refunded \cup dying) \in Nat
    BY <1>4, <2>1, <2>2, ShopAssumption
  <2>5. DueToDeath(b)' \subseteq DueToDeath(b) /\ DueOtherwise(b)' \subseteq DueOtherwise(b)
    BY <1>1 DEF DueToDeath, DueOtherwise
  <2>6. /\ Cardinality(DueToDeath(b)') <= Cardinality(DueToDeath(b))
        /\ Cardinality(DueOtherwise(b)') <= Cardinality(DueOtherwise(b))
    BY <2>1, <2>2, <2>5, CardSubset
  <2>7. CASE b # r.account
    <3>1. coins'[b] = coins[b]
      BY <1>1, <1>4, <2>7
    <3> QED  BY <2>0, <2>3, <2>4, <2>6, <3>1
  <2>8. CASE b = r.account
    <3>1. coins'[b] = coins[b] + n
      BY <1>1, <1>4, <2>8
    <3>2. CASE r.by = "death"
      <4>1. DueToDeath(b)' = DueToDeath(b) \ r.ids
        <5>1. \A id \in DueToDeath(b)' : id \notin r.ids
          BY <1>1, <3>2 DEF Inv, RefundsInv, DueToDeath
        <5>2. \A id \in DueToDeath(b) : id \notin r.ids => id \in DueToDeath(b)'
          BY <1>1 DEF DueToDeath
        <5> QED  BY <2>5, <5>1, <5>2
      <4>2. r.ids \subseteq DueToDeath(b)
        BY <1>2, <2>8, <3>2 DEF DueToDeath
      <4>3. DueToDeath(b)' \cap r.ids = {} /\ DueToDeath(b) = DueToDeath(b)' \cup r.ids
        BY <4>1, <4>2
      <4>4. Cardinality(DueToDeath(b)) = Cardinality(DueToDeath(b)') + n
        BY <1>2, <2>1, <2>2, <4>3, CardDisjoint DEF n
      <4> QED  BY <1>3, <2>0, <2>3, <2>4, <2>6, <3>1, <4>4
    <3>3. CASE r.by # "death"
      <4>1. DueOtherwise(b)' = DueOtherwise(b) \ r.ids
        <5>1. \A id \in DueOtherwise(b)' : id \notin r.ids
          BY <1>1, <3>3 DEF Inv, RefundsInv, DueOtherwise
        <5>2. \A id \in DueOtherwise(b) : id \notin r.ids => id \in DueOtherwise(b)'
          BY <1>1 DEF DueOtherwise
        <5> QED  BY <2>5, <5>1, <5>2
      <4>2. r.ids \subseteq DueOtherwise(b)
        BY <1>2, <2>8, <3>3 DEF DueOtherwise
      <4>3. DueOtherwise(b)' \cap r.ids = {} /\ DueOtherwise(b) = DueOtherwise(b)' \cup r.ids
        BY <4>1, <4>2
      <4>4. Cardinality(DueOtherwise(b)) = Cardinality(DueOtherwise(b)') + n
        BY <1>2, <2>1, <2>2, <4>3, CardDisjoint DEF n
      <4> QED  BY <1>3, <2>0, <2>3, <2>4, <2>6, <3>1, <4>4
    <3> QED  BY <3>2, <3>3
  <2> QED  BY <2>7, <2>8
<1> QED  BY <1>1, <1>5, <1>6, <1>7, <1>8, IdsFrame, FreeFrame DEF Inv

-----------------------------------------------------------------------------
(***************************************************************************)
(* The shop's thread                                                       *)
(***************************************************************************)
\* The two numbers that Waiting adds.
LEMMA WaitingParts ==
  ASSUME Inv
  PROVE  /\ Cardinality(Purchases(pending)) \in Nat /\ Cardinality(Purchases(batch)) \in Nat
         /\ worker.at = "idle" =>
               Waiting = Cardinality(Purchases(pending)) + Cardinality(Purchases(batch))
         /\ worker.at # "idle" =>
               Waiting = Cardinality(Purchases(pending)) + Cardinality(Purchases(Tail(batch)))
         /\ nextId \in Nat /\ MaxPurchases \in Nat
<1>1. worker.at = "idle" <=> worker = Idle
  BY DEF Inv, TypeInv, WorkerInv, Idle
<1>2. pending \in Seq(Request) /\ batch \in Seq(Request)
  BY DEF Inv, TypeInv
<1> QED  BY <1>1, <1>2, QueueElements, ShopAssumption DEF Waiting, Inv, TypeInv

\* The requests are taken together.
LEMMA TakeKeeps ==
  ASSUME Inv, TakeRequests  PROVE  Inv'
<1>1. /\ batch = << >> /\ batch' = pending /\ pending' = << >>
      /\ UNCHANGED <<coins, log, nextId, worker, tasks, refunds, online, life, dying, bag, delivered,
                     aborted>>
  BY DEF TakeRequests, playerVars
<1>2. worker.at = "idle" /\ worker = Idle
  BY <1>1 DEF Inv, WorkerInv
<1>3. TypeInv'
  <2>1. pending' \in Seq(Request) /\ IsInjective(pending)'
    BY <1>1 DEF IsInjective
  <2>2. batch' \in Seq(Request) /\ IsInjective(batch)'
    BY <1>1 DEF IsInjective, Inv, TypeInv
  <2> QED  BY <1>1, <2>1, <2>2 DEF Inv, TypeInv
<1>4. IdsInv'
  <2>1. Waiting' = Waiting
    <3>1. Waiting = Cardinality(Purchases(pending)) + Cardinality(Purchases(batch))
      BY <1>2 DEF Waiting
    <3>2. Waiting' = Cardinality(Purchases(<< >>)) + Cardinality(Purchases(pending))
      BY <1>1, <1>2 DEF Waiting, Purchases, ToSet
    <3> QED  BY <1>1, <3>1, <3>2, WaitingParts
  <2> QED  BY <1>1, <2>1 DEF Inv, IdsInv
<1>5. WorkerInv'
  BY <1>1, <1>2 DEF Inv, WorkerInv
<1>6. NoFreeItem'
  BY <1>1, <1>2 DEF Inv, NoFreeItem, Underway, Unrefunded
<1> QED  BY <1>1, <1>3, <1>4, <1>5, <1>6, RefundsFrame, CoinsFrame DEF Inv

\* The worker is done with a request that is not listed.
LEMMA NextRequestKeeps ==
  ASSUME Inv, NextRequest, batch # << >>, worker.at # "listed",
         UNCHANGED <<coins, log, nextId, pending, tasks, refunds, online, life, dying, bag, delivered,
                     aborted>>
  PROVE  Inv'
<1>1. batch' = Tail(batch) /\ worker' = Idle
  BY DEF NextRequest
<1>2. /\ batch \in Seq(Request) /\ IsInjective(batch)
      /\ Tail(batch) \in Seq(Request) /\ IsInjective(Tail(batch))
  BY QueueTail DEF Inv, TypeInv
<1>3. TypeInv'
  <2>1. Idle \in [at : {"idle", "read", "paid", "logged", "listed"}, id : Nat, newBalance : Nat]
    BY DEF Idle
  <2>2. batch' \in Seq(Request) /\ IsInjective(batch)'
    BY <1>1, <1>2
  <2> QED  BY <1>1, <2>1, <2>2 DEF Inv, TypeInv
<1>4. Idle.at = "idle"
  BY DEF Idle
<1>5. WorkerInv'
  BY <1>1, <1>4 DEF WorkerInv
<1>6. IdsInv'
  <2>1. Waiting' = Cardinality(Purchases(pending)) + Cardinality(Purchases(Tail(batch)))
    BY <1>1 DEF Waiting, Purchases, ToSet
  <2>2. Cardinality(Purchases(Tail(batch))) <= Cardinality(Purchases(batch))
        /\ Cardinality(Purchases(Tail(batch))) \in Nat
    BY <1>2, PurchasesTail
  <2>3. Waiting' <= Waiting /\ Waiting' \in Nat /\ Waiting \in Nat
    BY <2>1, <2>2, WaitingParts
  <2> QED  BY <2>3, WaitingParts DEF Inv, IdsInv
<1>7. NoFreeItem'
  BY <1>1, <1>4 DEF Inv, NoFreeItem, Underway, Unrefunded
<1> QED  BY <1>3, <1>5, <1>6, <1>7, RefundsFrame, CoinsFrame DEF Inv

\* The balance is read and an id given out.
LEMMA ReadKeeps ==
  ASSUME Inv, ReadBalance  PROVE  Inv'
<1> DEFINE a == Head(batch).account
<1>1. /\ worker.at = "idle" /\ batch # << >> /\ Head(batch).guid # None
      /\ UNCHANGED <<coins, log, pending, tasks, refunds, online, life, dying, bag, delivered,
                     aborted>>
  BY DEF ReadBalance, playerVars
<1>2. /\ batch \in Seq(Request) /\ IsInjective(batch) /\ a \in Account
      /\ coins[a] \in Nat /\ coins \in [Account -> Nat]
  BY <1>1, QueueTail DEF Inv, TypeInv
<1>3. CASE ~CanPay(coins[a])
  <2>1. NextRequest /\ nextId' = nextId
    BY <1>3 DEF ReadBalance
  <2> QED  BY <1>1, <2>1, NextRequestKeeps
<1>4. CASE CanPay(coins[a])
  <2>1. /\ worker' = [at |-> "read", id |-> nextId, newBalance |-> coins[a] - 1]
        /\ nextId' = nextId + 1 /\ batch' = batch
    BY <1>4 DEF ReadBalance, Price
  <2>2. coins[a] - 1 \in Nat /\ coins[a] - 1 < coins[a]
    BY <1>2, <1>4 DEF CanPay
  <2>3. nextId \in Nat \ {0} /\ DOMAIN log \subseteq 1 .. (nextId - 1)
    BY DEF Inv, TypeInv
  <2>4. TypeInv'
    <3>1. worker' \in [at : {"idle", "read", "paid", "logged", "listed"}, id : Nat, newBalance : Nat]
      BY <2>1, <2>2, <2>3
    <3>2. nextId' \in Nat \ {0} /\ DOMAIN log' \subseteq 1 .. (nextId' - 1)
      BY <1>1, <2>1, <2>3
    <3> QED  BY <1>1, <2>1, <3>1, <3>2 DEF Inv, TypeInv
  <2>5. worker'.at = "read" /\ worker'.id = nextId /\ worker'.newBalance = coins[a] - 1
    BY <2>1
  <2>6. WorkerInv'
    <3>1. nextId \notin DOMAIN log /\ nextId \in 1 .. (nextId' - 1)
      BY <2>1, <2>3
    <3> QED  BY <1>1, <2>1, <2>2, <2>5, <3>1 DEF WorkerInv
  <2>7. IdsInv'
    <3>1. worker' # Idle
      BY <2>5 DEF Idle
    <3>2. Waiting' = Cardinality(Purchases(pending)) + Cardinality(Purchases(Tail(batch)))
      BY <1>1, <2>1, <3>1 DEF Waiting, Purchases, ToSet
    <3>3. Cardinality(Purchases(Tail(batch))) + 1 = Cardinality(Purchases(batch))
          /\ Cardinality(Purchases(Tail(batch))) \in Nat
      BY <1>1, <1>2, PurchasesTail
    <3>4. Waiting' + 1 = Waiting /\ Waiting' \in Nat /\ nextId \in Nat
      BY <1>1, <3>2, <3>3, WaitingParts
    <3>5. nextId' + Waiting' = nextId + Waiting
      BY <2>1, <3>4
    <3> QED  BY <3>5 DEF Inv, IdsInv
  <2>8. NoFreeItem'
    BY <1>1, <2>1, <2>5 DEF Inv, NoFreeItem, Underway, Unrefunded
  <2> QED  BY <1>1, <2>4, <2>6, <2>7, <2>8, RefundsFrame, CoinsFrame DEF Inv
<1> QED  BY <1>3, <1>4

\* The balance is written: below what was there, whatever was added since it was read.
\* Then the purchase goes to the database's log.
LEMMA PayKeeps ==
  ASSUME Inv, Pay \/ LogPurchase  PROVE  Inv'
<1> DEFINE a == Head(batch).account
<1>1. PICK next \in {"paid", "logged"} :
      /\ worker.at \in {"read", "paid"} /\ worker' = [worker EXCEPT !.at = next]
      /\ UNCHANGED <<log, nextId, batch, pending, tasks, refunds, online, life, dying, bag, delivered,
                     aborted>>
  BY DEF Pay, LogPurchase, playerVars
<1>2. \/ coins' = coins
      \/ worker.at = "read" /\ coins' = [coins EXCEPT ![a] = worker.newBalance]
  BY DEF Pay, LogPurchase
<1>3. /\ worker.at # "idle" /\ batch # << >> /\ Head(batch).guid # None
      /\ worker.id \in 1 .. (nextId - 1) /\ worker.id \notin DOMAIN log
  BY <1>1 DEF Inv, WorkerInv
<1>4. batch \in Seq(Request) /\ IsInjective(batch) /\ a \in Account
  BY <1>3, QueueTail DEF Inv, TypeInv
<1>5. /\ worker \in [at : {"idle", "read", "paid", "logged", "listed"}, id : Nat, newBalance : Nat]
      /\ coins \in [Account -> Nat]
  BY DEF Inv, TypeInv
<1>6. worker'.at = next /\ worker'.id = worker.id /\ worker'.newBalance = worker.newBalance
      /\ worker' \in [at : {"idle", "read", "paid", "logged", "listed"}, id : Nat, newBalance : Nat]
  BY <1>1, <1>5
<1>7. coins' \in [Account -> Nat] /\ \A b \in Account : coins'[b] <= coins[b]
  BY <1>2, <1>4, <1>5, SMTT(30) DEF Inv, WorkerInv
<1>8. TypeInv'
  BY <1>1, <1>6, <1>7 DEF Inv, TypeInv
<1>9. WorkerInv'
  BY <1>1, <1>3, <1>6 DEF WorkerInv
<1>10. IdsInv'
  <2>1. worker # Idle /\ worker' # Idle
    BY <1>3, <1>6 DEF Idle
  <2> QED  BY <1>1, <2>1 DEF Inv, IdsInv, Waiting, Purchases, ToSet
<1>11. CoinsInv'
  <2> SUFFICES ASSUME NEW b \in Account
               PROVE  coins'[b] + Cardinality(DueToDeath(b)) + Cardinality(DueOtherwise(b))
                        <= Coins + Cardinality(Refunded \cup dying) + Cardinality(Refunded)
    BY <1>1 DEF CoinsInv, DueToDeath, DueOtherwise, Refunded
  <2>1. /\ DueToDeath(b) \in SUBSET DOMAIN log /\ DueOtherwise(b) \in SUBSET DOMAIN log
        /\ Refunded \in SUBSET DOMAIN log /\ Refunded \cup dying \in SUBSET DOMAIN log
    BY DEF DueToDeath, DueOtherwise, Refunded, Inv, TypeInv
  <2>2. /\ Cardinality(DueToDeath(b)) \in Nat /\ Cardinality(DueOtherwise(b)) \in Nat
        /\ Cardinality(Refunded) \in Nat /\ Cardinality(Refunded \cup dying) \in Nat
    BY <2>1, LogFinite DEF Inv
  <2>3. coins[b] + Cardinality(DueToDeath(b)) + Cardinality(DueOtherwise(b))
           <= Coins + Cardinality(Refunded \cup dying) + Cardinality(Refunded)
    BY DEF Inv, CoinsInv
  <2>4. coins'[b] <= coins[b] /\ coins[b] \in Nat /\ coins'[b] \in Nat /\ Coins \in Nat
    BY <1>5, <1>7, ShopAssumption
  <2> QED  BY <2>2, <2>3, <2>4
<1>12. NoFreeItem'
  BY <1>1, <1>6 DEF Inv, NoFreeItem, Underway, Unrefunded
<1> QED  BY <1>1, <1>8, <1>9, <1>10, <1>11, <1>12, RefundsFrame DEF Inv

\* The purchase is listed, with an item on its way for it.
LEMMA CheckKeeps ==
  ASSUME Inv, CheckBalance  PROVE  Inv'
<1>1. /\ worker.at = "logged"
      /\ UNCHANGED <<coins, nextId, pending, tasks, refunds, online, life, dying, bag, delivered,
                     aborted>>
  BY DEF CheckBalance, playerVars
<1>2. /\ batch # << >> /\ Head(batch).guid # None
      /\ worker.id \in 1 .. (nextId - 1) /\ worker.id \notin DOMAIN log
  BY <1>1 DEF Inv, WorkerInv
<1>3. CASE coins[Head(batch).account] # worker.newBalance
  <2>1. NextRequest /\ log' = log
    BY <1>3 DEF CheckBalance
  <2> QED  BY <1>1, <1>2, <2>1, NextRequestKeeps
<1>4. CASE coins[Head(batch).account] = worker.newBalance
  <2> DEFINE g == Head(batch).guid
             w == worker.id
  <2>1. /\ log' = [id \in DOMAIN log \cup {w} |->
                      IF id = w THEN [guid |-> g, refunded |-> FALSE] ELSE log[id]]
        /\ worker' = [worker EXCEPT !.at = "listed"] /\ batch' = batch
    BY <1>4 DEF CheckBalance
  <2>2. /\ DOMAIN log' = DOMAIN log \cup {w}
        /\ log'[w] = [guid |-> g, refunded |-> FALSE]
        /\ \A id \in DOMAIN log : log'[id] = log[id] /\ id # w
    BY <1>2, <2>1
  <2>3. g \in Character
    <3>1. Head(batch) \in Request
      BY <1>2, QueueTail DEF Inv, TypeInv
    <3> QED  BY <1>2, <3>1 DEF Request
  <2>4. worker \in [at : {"idle", "read", "paid", "logged", "listed"}, id : Nat, newBalance : Nat]
    BY DEF Inv, TypeInv
  <2>5. worker'.at = "listed" /\ worker'.id = w
        /\ worker' \in [at : {"idle", "read", "paid", "logged", "listed"}, id : Nat, newBalance : Nat]
    BY <2>1, <2>4
  <2> HIDE DEF g, w
  <2>6. TypeInv'
    <3>1. \A id \in DOMAIN log' : log'[id] \in [guid : Character, refunded : BOOLEAN]
      <4>1. [guid |-> g, refunded |-> FALSE] \in [guid : Character, refunded : BOOLEAN]
        BY <2>3
      <4>2. \A id \in DOMAIN log : log[id] \in [guid : Character, refunded : BOOLEAN]
        BY DEF Inv, TypeInv
      <4> QED  BY <2>2, <4>1, <4>2
    <3>2. DOMAIN log' \subseteq 1 .. (nextId' - 1) /\ DOMAIN log \subseteq DOMAIN log'
      BY <1>1, <1>2, <2>2 DEF Inv, TypeInv, w
    <3>3. refunds' \subseteq [account : Account, ids : SUBSET DOMAIN log', by : Causes]
      <4>1. \A r \in refunds : /\ r \in [account : Account, ids : SUBSET DOMAIN log, by : Causes]
                               /\ r.ids \subseteq DOMAIN log'
        BY <3>2 DEF Inv, TypeInv
      <4> QED  BY <1>1, <4>1
    <3>4. tasks' \subseteq DOMAIN log' /\ dying' \subseteq DOMAIN log' /\ delivered' \subseteq DOMAIN log'
      BY <1>1, <3>2 DEF Inv, TypeInv
    <3> QED  BY <1>1, <2>1, <2>5, <3>1, <3>2, <3>3, <3>4 DEF Inv, TypeInv
  <2>7. WorkerInv'
    <3>1. w \notin tasks
      BY <1>2 DEF Inv, TypeInv, w
    <3>2. log'[w].guid = g
      BY <2>2
    <3> QED  BY <1>1, <1>2, <2>1, <2>2, <2>5, <3>1, <3>2 DEF WorkerInv, g, w
  <2>8. IdsInv'
    <3>1. worker # Idle /\ worker' # Idle
      BY <1>1, <2>5 DEF Idle
    <3> QED  BY <1>1, <2>1, <3>1 DEF Inv, IdsInv, Waiting, Purchases, ToSet
  <2>9. RefundsInv'
    <3>1. \A r \in refunds : r.ids \subseteq DOMAIN log
      BY DEF Inv, TypeInv
    <3>2. dying \subseteq DOMAIN log
      BY DEF Inv, TypeInv
    <3> QED  BY <1>1, <2>2, <3>1, <3>2 DEF Inv, RefundsInv
  <2>10. CoinsInv'
    <3>1. Refunded' = Refunded
      BY <2>2 DEF Refunded
    <3>2. \A r \in refunds : r.ids \subseteq DOMAIN log
      BY DEF Inv, TypeInv
    <3>3. \A a : DueToDeath(a)' = DueToDeath(a) /\ DueOtherwise(a)' = DueOtherwise(a)
      BY <1>1, <2>2, <3>2 DEF DueToDeath, DueOtherwise
    <3> QED  BY <1>1, <3>1, <3>3 DEF Inv, CoinsInv
  <2>11. NoFreeItem'
    <3> SUFFICES ASSUME NEW d \in Character, life'[d] = "alive"
                 PROVE  bag'[d] + Cardinality(Underway(d)') <= Cardinality(Unrefunded(d)')
      BY DEF NoFreeItem
    <3>1. tasks \subseteq DOMAIN log /\ w \notin DOMAIN log
      BY <1>2 DEF Inv, TypeInv, w
    <3>2. Underway(d) = {id \in tasks : log[id].guid = d}
      BY <1>1 DEF Underway
    <3>3. Underway(d)' = Underway(d) \cup (IF g = d THEN {w} ELSE {})
      BY <1>1, <2>1, <2>2, <2>5, <3>1, <3>2 DEF Underway, g
    <3>4. Unrefunded(d)' = Unrefunded(d) \cup (IF g = d THEN {w} ELSE {})
      BY <2>2 DEF Unrefunded
    <3>5. /\ w \notin Underway(d) /\ w \notin Unrefunded(d)
          /\ IsFiniteSet(Underway(d)) /\ IsFiniteSet(Unrefunded(d))
          /\ Cardinality(Underway(d)) \in Nat /\ Cardinality(Unrefunded(d)) \in Nat
      BY <3>1, CountedSets
    <3>6. bag[d] + Cardinality(Underway(d)) <= Cardinality(Unrefunded(d)) /\ bag[d] \in Nat
      BY <1>1 DEF Inv, NoFreeItem, TypeInv
    <3>7. CASE g = d
      <4>1. /\ Cardinality(Underway(d) \cup {w}) = Cardinality(Underway(d)) + 1
            /\ Cardinality(Unrefunded(d) \cup {w}) = Cardinality(Unrefunded(d)) + 1
        BY <3>5, FS_AddElement
      <4>2. Underway(d)' = Underway(d) \cup {w} /\ Unrefunded(d)' = Unrefunded(d) \cup {w}
        BY <3>3, <3>4, <3>7
      <4> QED  BY <1>1, <3>5, <3>6, <4>1, <4>2
    <3>8. CASE g # d
      <4>1. Underway(d)' = Underway(d) /\ Unrefunded(d)' = Unrefunded(d)
        BY <3>3, <3>4, <3>8
      <4> QED  BY <1>1, <3>6, <4>1
    <3> QED  BY <3>7, <3>8
  <2> QED  BY <2>6, <2>7, <2>8, <2>9, <2>10, <2>11 DEF Inv
<1> QED  BY <1>3, <1>4

\* The listed purchase gets its task.
LEMMA AddTaskKeeps ==
  ASSUME Inv, AddTask  PROVE  Inv'
<1>1. /\ worker.at = "listed" /\ tasks' = tasks \cup {worker.id}
      /\ batch' = Tail(batch) /\ worker' = Idle
      /\ UNCHANGED <<coins, log, nextId, pending, refunds, online, life, dying, bag, delivered,
                     aborted>>
  BY DEF AddTask, NextRequest, playerVars
<1>2. /\ batch # << >> /\ worker.id \in DOMAIN log \ tasks
      /\ log[worker.id].guid = Head(batch).guid
  BY <1>1 DEF Inv, WorkerInv
<1>3. /\ batch \in Seq(Request) /\ IsInjective(batch)
      /\ Tail(batch) \in Seq(Request) /\ IsInjective(Tail(batch))
  BY <1>2, QueueTail DEF Inv, TypeInv
<1>4. Idle.at = "idle" /\ Idle \in [at : {"idle", "read", "paid", "logged", "listed"}, id : Nat,
                                    newBalance : Nat]
  BY DEF Idle
<1>5. TypeInv'
  <2>1. batch' \in Seq(Request) /\ IsInjective(batch)' /\ tasks' \subseteq DOMAIN log
    BY <1>1, <1>2, <1>3 DEF Inv, TypeInv
  <2> QED  BY <1>1, <1>4, <2>1 DEF Inv, TypeInv
<1>6. WorkerInv'
  BY <1>1, <1>4 DEF WorkerInv
<1>7. IdsInv'
  <2>1. Waiting' = Cardinality(Purchases(pending)) + Cardinality(Purchases(Tail(batch)))
    BY <1>1 DEF Waiting, Purchases, ToSet
  <2>2. Waiting' = Waiting
    BY <1>1, <2>1, WaitingParts
  <2> QED  BY <1>1, <2>2 DEF Inv, IdsInv
<1>8. NoFreeItem'
  <2> SUFFICES ASSUME NEW d \in Character, life'[d] = "alive"
               PROVE  bag'[d] + Cardinality(Underway(d)') <= Cardinality(Unrefunded(d)')
    BY DEF NoFreeItem
  <2>1. Underway(d)' = Underway(d) /\ Unrefunded(d)' = Unrefunded(d)
    BY <1>1, <1>2, <1>4 DEF Underway, Unrefunded
  <2> QED  BY <1>1, <2>1 DEF Inv, NoFreeItem
<1> QED  BY <1>1, <1>5, <1>6, <1>7, <1>8, RefundsFrame, CoinsFrame DEF Inv

-----------------------------------------------------------------------------

\* Every step keeps the invariant.
LEMMA StepKeeps == Inv /\ [Next]_vars => Inv'
<1> SUFFICES ASSUME Inv, [Next]_vars  PROVE  Inv'
  OBVIOUS
<1>1. CASE UNCHANGED vars
  <2>1. UNCHANGED <<coins, log, nextId, pending, batch, worker, tasks, refunds, online, life, dying,
                    bag, delivered, aborted>>
    BY <1>1 DEF vars
  <2>2. TypeInv'
    BY <2>1 DEF Inv, TypeInv, IsInjective
  <2>3. WorkerInv'
    BY <2>1 DEF Inv, WorkerInv
  <2> QED  BY <2>1, <2>2, <2>3, IdsFrame, RefundsFrame, CoinsFrame, FreeFrame DEF Inv
<1>2. CASE Worker
  <2>1. CASE SendBalance
    <3>1. worker.at # "listed" /\ batch # << >> /\ NextRequest
          /\ UNCHANGED <<coins, log, nextId, pending, tasks, refunds, online, life, dying, bag,
                         delivered, aborted>>
      BY <2>1 DEF SendBalance, playerVars, Inv, WorkerInv
    <3> QED  BY <3>1, NextRequestKeeps
  <2>2. CASE StatementFails
    <3>1. worker.at # "listed" /\ batch # << >> /\ NextRequest
          /\ UNCHANGED <<coins, log, nextId, pending, tasks, refunds, online, life, dying, bag,
                         delivered, aborted>>
      BY <2>2 DEF StatementFails, playerVars, Inv, WorkerInv
    <3> QED  BY <3>1, NextRequestKeeps
  <2> QED
    BY <1>2, <2>1, <2>2, TakeKeeps, ReadKeeps, PayKeeps, CheckKeeps, AddTaskKeeps DEF Worker
<1> QED
  BY <1>1, <1>2, RequestKeeps, SessionKeeps, DeathKeeps, MarkDeathKeeps, DeleteKeeps, NpcKeeps,
     UseKeeps, DeliverKeeps, RefundKeeps, ExecuteKeeps DEF Next

\* The shop opens with nothing bought and nothing owed.
LEMMA Start == Init => Inv
<1> SUFFICES ASSUME Init  PROVE  Inv
  OBVIOUS
<1>1. DOMAIN log = {} /\ nextId = 1 /\ tasks = {} /\ refunds = {} /\ dying = {}
      /\ pending = << >> /\ batch = << >> /\ worker = Idle /\ delivered = {}
      /\ coins = [a \in Account |-> Coins] /\ bag = [c \in Character |-> 0] /\ aborted = FALSE
      /\ online = [a \in Account |-> None] /\ life = [c \in Character |-> "alive"]
  BY DEF Init
<1>2. worker.at = "idle" /\ worker \in [at : {"idle", "read", "paid", "logged", "listed"}, id : Nat,
                                        newBalance : Nat]
  BY <1>1 DEF Idle
<1>3. TypeInv
  <2>1. pending \in Seq(Request) /\ IsInjective(pending) /\ batch \in Seq(Request) /\ IsInjective(batch)
    BY <1>1 DEF IsInjective
  <2>2. coins \in [Account -> Nat] /\ bag \in [Character -> Nat]
    BY <1>1, ShopAssumption
  <2>3. online \in [Account -> Character \cup {None}] /\ \A a \in Account : online[a] = None
    BY <1>1
  <2>4. life \in [Character -> {"alive", "dead", "deleted"}]
    BY <1>1
  <2>5. aborted \in BOOLEAN
    BY <1>1, Zenon
  <2>6. nextId \in Nat \ {0}
    BY <1>1
  <2> QED  BY <1>1, <1>2, <2>1, <2>2, <2>3, <2>4, <2>5, <2>6 DEF TypeInv
<1>4. WorkerInv
  BY <1>1, <1>2 DEF WorkerInv
<1>5. IdsInv
  <2>1. Purchases(<< >>) = {}
    BY DEF Purchases, ToSet
  <2>2. Waiting = Cardinality({}) + Cardinality({})
    BY <1>1, <2>1 DEF Waiting
  <2> QED  BY <1>1, <2>2, FS_EmptySet, ShopAssumption DEF IdsInv
<1>6. RefundsInv
  BY <1>1 DEF RefundsInv
<1>7. CoinsInv
  <2>1. \A a : DueToDeath(a) = {} /\ DueOtherwise(a) = {}
    BY <1>1 DEF DueToDeath, DueOtherwise
  <2>2. Refunded = {} /\ Refunded \cup dying = {}
    BY <1>1 DEF Refunded
  <2>3. Cardinality({}) = 0
    BY FS_EmptySet
  <2> SUFFICES ASSUME NEW a \in Account
               PROVE  coins[a] + Cardinality(DueToDeath(a)) + Cardinality(DueOtherwise(a))
                        <= Coins + Cardinality(Refunded \cup dying) + Cardinality(Refunded)
    BY DEF CoinsInv
  <2>4. coins[a] = Coins /\ Coins \in Nat
    BY <1>1, ShopAssumption
  <2>5. /\ Cardinality(DueToDeath(a)) = 0 /\ Cardinality(DueOtherwise(a)) = 0
        /\ Cardinality(Refunded \cup dying) = 0 /\ Cardinality(Refunded) = 0
    BY <2>1, <2>2, <2>3, Zenon
  <2> QED  BY <2>4, <2>5
<1>8. NoFreeItem
  <2>1. \A c : Underway(c) = {} /\ Unrefunded(c) = {}
    BY <1>1, <1>2 DEF Underway, Unrefunded
  <2>2. Cardinality({}) = 0
    BY FS_EmptySet
  <2>3. \A c : Cardinality(Underway(c)) = 0 /\ Cardinality(Unrefunded(c)) = 0
    BY <2>1, <2>2, Zenon
  <2> QED  BY <1>1, <2>3 DEF NoFreeItem
<1> QED  BY <1>3, <1>4, <1>5, <1>6, <1>7, <1>8 DEF Inv

\* Every step of the shop keeps the invariant.
LEMMA InvHolds == Spec => []Inv
  BY Start, StepKeeps, PTL DEF Spec

\* A living character never has more items, in his bags or on their way, than purchases he
\* was not paid back for: for any number of accounts, characters and purchases, whatever
\* the order of requests, deliveries, deaths, deletions and refunds.
THEOREM NoItemForNothing == Spec => []NoFreeItem
<1>1. Inv => NoFreeItem
  BY DEF Inv
<1> QED  BY <1>1, InvHolds, PTL

\* Every variable keeps its type; in particular no balance falls below zero, although
\* BuyItem writes a difference it computed before, and none rises by more than two
\* prices for each purchase.
THEOREM ShopTypeCorrect == Spec => []TypeOK
<1>1. ASSUME Inv  PROVE  TypeOK
  <2>1. nextId \in 1 .. (MaxPurchases + 1)
    <3>1. Waiting \in Nat
      <4>1. worker.at # "idle" => Cardinality(Purchases(Tail(batch))) \in Nat
        BY <1>1, PurchasesTail DEF Inv, TypeInv, WorkerInv
      <4> QED  BY <1>1, <4>1, WaitingParts
    <3> QED  BY <1>1, <3>1, ShopAssumption DEF Inv, IdsInv, TypeInv
  <2>2. ASSUME NEW a \in Account  PROVE  coins[a] \in 0 .. Coins + 2 * MaxPurchases * Price
    <3>1. /\ DueToDeath(a) \in SUBSET DOMAIN log /\ DueOtherwise(a) \in SUBSET DOMAIN log
          /\ Refunded \in SUBSET DOMAIN log /\ Refunded \cup dying \in SUBSET DOMAIN log
      BY <1>1 DEF DueToDeath, DueOtherwise, Refunded, Inv, TypeInv
    <3>2. Cardinality(DueToDeath(a)) \in Nat /\ Cardinality(DueOtherwise(a)) \in Nat
      BY <1>1, <3>1, LogFinite DEF Inv
    <3>3. DOMAIN log \subseteq 1 .. MaxPurchases
      BY <1>1, <2>1, ShopAssumption DEF Inv, TypeInv
    <3>4. IsFiniteSet(1 .. MaxPurchases) /\ Cardinality(1 .. MaxPurchases) = MaxPurchases
      <4>1. 1 \in Int /\ MaxPurchases \in Int /\ MaxPurchases \in Nat
        BY ShopAssumption
      <4>2. IsFiniteSet(1 .. MaxPurchases)
            /\ Cardinality(1 .. MaxPurchases) = IF 1 > MaxPurchases THEN 0 ELSE MaxPurchases - 1 + 1
        BY <4>1, FS_Interval
      <4> QED  BY <4>1, <4>2
    <3>5. /\ Cardinality(Refunded) <= MaxPurchases /\ Cardinality(Refunded) \in Nat
          /\ Cardinality(Refunded \cup dying) <= MaxPurchases /\ Cardinality(Refunded \cup dying) \in Nat
      <4>1. Refunded \subseteq 1 .. MaxPurchases /\ Refunded \cup dying \subseteq 1 .. MaxPurchases
        BY <3>1, <3>3
      <4> QED  BY <3>4, <4>1, CardSubset
    <3>6. coins[a] + Cardinality(DueToDeath(a)) + Cardinality(DueOtherwise(a))
             <= Coins + Cardinality(Refunded \cup dying) + Cardinality(Refunded)
      BY <1>1 DEF Inv, CoinsInv
    <3>7. coins[a] \in Nat /\ Coins \in Nat /\ MaxPurchases \in Nat
      BY <1>1, ShopAssumption DEF Inv, TypeInv
    <3>8. 2 * MaxPurchases * Price = MaxPurchases + MaxPurchases
      BY <3>7 DEF Price
    <3> QED  BY <3>2, <3>5, <3>6, <3>7, <3>8
  <2>3. coins \in [Account -> 0 .. Coins + 2 * MaxPurchases * Price]
    BY <1>1, <2>2 DEF Inv, TypeInv
  <2>4. worker.at \in {"idle", "read", "paid", "logged", "listed"}
        /\ (worker.at # "idle" => batch # << >> /\ Head(batch).guid # None)
    BY <1>1 DEF Inv, TypeInv, WorkerInv
  <2>5. \A r \in refunds : r.ids \subseteq DOMAIN log /\ r.account \in Account
    BY <1>1 DEF Inv, TypeInv
  <2> QED  BY <1>1, <2>1, <2>3, <2>4, <2>5 DEF Inv, TypeInv, TypeOK
<1> QED  BY <1>1, InvHolds, PTL
=============================================================================
