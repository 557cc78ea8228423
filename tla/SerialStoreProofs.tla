------------------------- MODULE SerialStoreProofs -------------------------
(* The abstract store keeps its promise, whatever is submitted. *)
EXTENDS SerialStore, TLAPS

Entry == [op : Op, ok : BOOLEAN]

\* The inductive invariant: the promise, the types, and that two pending requests
\* never share a number.
StoreInv ==
    /\ nextId \in Nat \ {0}
    /\ pending \in SUBSET Op
    /\ log \in Seq(Entry)
    /\ \A p, q \in pending : p.id = q.id => p = q
    /\ InOrder
    /\ Once

\* Initially nothing is pending or carried out.
LEMMA StoreInit == Init => StoreInv
  BY DEF Init, StoreInv, InOrder, Once, Op, Entry

\* Numbers in use are below the next one.
LEMMA NumbersBelowNext ==
  ASSUME StoreInv
  PROVE  /\ \A i \in DOMAIN log : log[i].op.id \in Nat /\ log[i].op.id < nextId
         /\ \A p \in pending : p.id \in Nat /\ p.id < nextId
<1>1. \A n \in 1 .. nextId - 1 : n \in Nat /\ n < nextId
  BY DEF StoreInv
<1>2. \A i \in DOMAIN log : log[i].op.id \in 1 .. nextId - 1
  BY DEF StoreInv, Once
<1>3. \A p \in pending : p.id \in 1 .. nextId - 1
  BY DEF StoreInv, Once
<1> QED
  BY <1>1, <1>2, <1>3

\* A new request gets a number that is greater than every number in use.
LEMMA SubmitInv ==
  ASSUME StoreInv, NEW s \in Serials, NEW k \in Kinds, Submit(s, k)
  PROVE  StoreInv'
<1> DEFINE op == [id |-> nextId, serial |-> s, kind |-> k]
<1>1. op \in Op /\ nextId' \in Nat \ {0} /\ pending' = pending \cup {op} /\ log' = log
  BY DEF Submit, StoreInv, Op
<1>2. \A p \in pending : p.id \in Nat /\ p.id < nextId
  BY NumbersBelowNext
<1>3. \A i \in DOMAIN log : log[i].op.id \in Nat /\ log[i].op.id < nextId
  BY NumbersBelowNext
<1>4. /\ pending' \in SUBSET Op
      /\ \A p, q \in pending' : p.id = q.id => p = q
  BY <1>1, <1>2 DEF StoreInv
<1>5. InOrder'
  BY <1>1, <1>3 DEF StoreInv, InOrder
<1>6. Once'
  <2>1. \A i \in DOMAIN log', p \in pending' : log'[i].op.id # p.id
    BY <1>1, <1>3 DEF StoreInv, Once
  <2>2. {p.id : p \in pending'} = {p.id : p \in pending} \cup {nextId}
    BY <1>1
  <2>3. 1 .. nextId' - 1 = (1 .. nextId - 1) \cup {nextId}
    BY DEF Submit, StoreInv
  <2> QED
    BY <1>1, <2>1, <2>2, <2>3 DEF StoreInv, Once
<1> QED
  BY <1>1, <1>4, <1>5, <1>6 DEF StoreInv

\* A pending request that is next for its serial id moves to the log.
LEMMA PerformInv ==
  ASSUME StoreInv, NEW op \in pending, Perform(op)
  PROVE  StoreInv'
<1>1. PICK ok \in BOOLEAN : log' = Append(log, [op |-> op, ok |-> ok])
  BY DEF Perform
<1> DEFINE e == [op |-> op, ok |-> ok]
<1>2. /\ op \in Op /\ e \in Entry /\ pending' = pending \ {op} /\ nextId' = nextId
      /\ e.op = op
  BY DEF Perform, StoreInv, Entry
<1>3. /\ log' \in Seq(Entry)
      /\ DOMAIN log' = DOMAIN log \cup {Len(log) + 1}
      /\ Len(log) + 1 \notin DOMAIN log
      /\ \A i \in DOMAIN log : log'[i] = log[i] /\ i < Len(log) + 1
      /\ log'[Len(log) + 1] = e
  BY <1>1, <1>2 DEF StoreInv
<1>4. \A p \in pending' : p.id # op.id
  BY <1>2 DEF StoreInv
<1>5. InOrder'
  <2>1. \A p \in pending' : p.serial = op.serial /\ op.serial # 0 => op.id < p.id
    BY <1>2, <1>4 DEF Perform, IsNext, StoreInv, Op
  <2>2. \A i \in DOMAIN log :
           log[i].op.serial = op.serial /\ op.serial # 0 => log[i].op.id < op.id
    BY DEF StoreInv, InOrder
  <2>3. \A i, j \in DOMAIN log' :
           i < j => i \in DOMAIN log /\ (j \in DOMAIN log \/ j = Len(log) + 1)
    BY <1>3 DEF StoreInv
  <2> QED
    BY <1>2, <1>3, <2>1, <2>2, <2>3 DEF StoreInv, InOrder
<1>6. Once'
  <2>1. \A i \in DOMAIN log : log[i].op.id # op.id
    BY DEF StoreInv, Once
  <2>2. \A i, j \in DOMAIN log' : log'[i].op.id = log'[j].op.id => i = j
    BY <1>2, <1>3, <2>1 DEF StoreInv, Once
  <2>3. \A i \in DOMAIN log', p \in pending' : log'[i].op.id # p.id
    BY <1>2, <1>3, <1>4 DEF StoreInv, Once
  <2>4. {log'[i].op.id : i \in DOMAIN log'} = {log[i].op.id : i \in DOMAIN log} \cup {op.id}
    BY <1>2, <1>3
  <2>5. {p.id : p \in pending} = {p.id : p \in pending'} \cup {op.id}
    BY <1>2
  <2> QED
    BY <1>2, <2>2, <2>3, <2>4, <2>5 DEF StoreInv, Once
<1> QED
  BY <1>2, <1>3, <1>5, <1>6 DEF StoreInv

\* A request that is carried out at once has the greatest number, and no request
\* of its serial id is pending.
LEMMA SubmitAndPerformInv ==
  ASSUME StoreInv, NEW s \in Serials, NEW k \in Kinds, SubmitAndPerform(s, k)
  PROVE  StoreInv'
<1> DEFINE op == [id |-> nextId, serial |-> s, kind |-> k]
<1>1. PICK ok \in BOOLEAN : log' = Append(log, [op |-> op, ok |-> ok])
  BY DEF SubmitAndPerform
<1> DEFINE e == [op |-> op, ok |-> ok]
<1>2. /\ op \in Op /\ e \in Entry /\ pending' = pending /\ nextId' = nextId + 1
      /\ nextId' \in Nat \ {0} /\ e.op = op /\ op.id = nextId
  BY DEF SubmitAndPerform, StoreInv, Entry, Op
<1>3. /\ log' \in Seq(Entry)
      /\ DOMAIN log' = DOMAIN log \cup {Len(log) + 1}
      /\ Len(log) + 1 \notin DOMAIN log
      /\ \A i \in DOMAIN log : log'[i] = log[i] /\ i < Len(log) + 1
      /\ log'[Len(log) + 1] = e
  BY <1>1, <1>2 DEF StoreInv
<1>4. \A p \in pending : p.id \in Nat /\ p.id < nextId
  BY NumbersBelowNext
<1>5. \A i \in DOMAIN log : log[i].op.id \in Nat /\ log[i].op.id < nextId
  BY NumbersBelowNext
<1>6. InOrder'
  <2>1. \A p \in pending' : p.serial = op.serial => op.serial = 0
    BY <1>2, <1>4 DEF SubmitAndPerform, IsNext, StoreInv
  <2> HIDE DEF op, e
  <2>2. \A i, j \in DOMAIN log' :
           i < j => i \in DOMAIN log /\ (j \in DOMAIN log \/ j = Len(log) + 1)
    BY <1>3 DEF StoreInv
  <2>3. \A i, j \in DOMAIN log' :
           i < j /\ log'[i].op.serial = log'[j].op.serial /\ log'[i].op.serial # 0
             => log'[i].op.id < log'[j].op.id
    BY <1>2, <1>3, <1>5, <2>2 DEF StoreInv, InOrder
  <2>4. \A i \in DOMAIN log', p \in pending' :
           log'[i].op.serial = p.serial /\ p.serial # 0 => log'[i].op.id < p.id
    BY <1>2, <1>3, <2>1 DEF StoreInv, InOrder
  <2> QED
    BY <2>3, <2>4 DEF InOrder
<1>7. Once'
  <2>1. \A i, j \in DOMAIN log' : log'[i].op.id = log'[j].op.id => i = j
    BY <1>2, <1>3, <1>5 DEF StoreInv, Once
  <2>2. \A i \in DOMAIN log', p \in pending' : log'[i].op.id # p.id
    BY <1>2, <1>3, <1>4 DEF StoreInv, Once
  <2>3. {log'[i].op.id : i \in DOMAIN log'} = {log[i].op.id : i \in DOMAIN log} \cup {nextId}
    BY <1>2, <1>3
  <2>4. 1 .. nextId' - 1 = (1 .. nextId - 1) \cup {nextId}
    BY <1>2 DEF StoreInv
  <2> QED
    BY <1>2, <2>1, <2>2, <2>3, <2>4 DEF StoreInv, Once
<1> QED
  BY <1>2, <1>3, <1>6, <1>7 DEF StoreInv

\* The store carries out every request at most once and the requests of one
\* serial id in the order they were submitted.
THEOREM StoreKeepsOrder == Spec => [](InOrder /\ Once)
<1>1. StoreInv /\ [Next]_vars => StoreInv'
  <2> SUFFICES ASSUME StoreInv, [Next]_vars PROVE StoreInv'
    OBVIOUS
  <2>1. CASE UNCHANGED vars
    BY <2>1 DEF vars, StoreInv, InOrder, Once
  <2>2. CASE Next
    BY <2>2, SubmitInv, PerformInv, SubmitAndPerformInv DEF Next
  <2> QED
    BY <2>1, <2>2
<1>2. StoreInv => InOrder /\ Once
  BY DEF StoreInv
<1> QED
  BY StoreInit, <1>1, <1>2, PTL DEF Spec
=============================================================================
