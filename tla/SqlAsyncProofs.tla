--------------------------- MODULE SqlAsyncProofs ---------------------------
(***************************************************************************)
(* For every number of workers and threads: the asynchronous database      *)
(* layer implements SerialStore, hence keeps the order of each serial id,  *)
(* loses nothing and repeats nothing, and HaltDelayThread drains it.       *)
(***************************************************************************)
EXTENDS SqlAsync, SequenceTheorems, TLAPS

USE WorkersAssumption, SerialsAssumption, QueryKindsAssumption, BoundsAssumption

-----------------------------------------------------------------------------
(* Sequences, workers and types.                                           *)

\* A serial id other than 0 names a worker.
LEMMA WorkerInRange ==
  ASSUME NEW s \in Serials
  PROVE  s % NumWorkers \in Workers
  BY DEF Workers

\* Head and Tail of a queue that is not empty.
LEMMA Dequeue ==
  ASSUME NEW S, NEW q \in Seq(S), q # << >>
  PROVE  /\ Head(q) \in S /\ Tail(q) \in Seq(S)
         /\ 1 \in DOMAIN q /\ Head(q) = q[1]
         /\ DOMAIN Tail(q) = 1 .. Len(q) - 1
         /\ \A i \in DOMAIN Tail(q) : i + 1 \in DOMAIN q /\ Tail(q)[i] = q[i + 1]
         /\ \A i \in DOMAIN q : i # 1 => i - 1 \in DOMAIN Tail(q) /\ Tail(q)[i - 1] = q[i]
  OBVIOUS

\* Append puts the new element last.
LEMMA Enqueue ==
  ASSUME NEW S, NEW q \in Seq(S), NEW x \in S
  PROVE  /\ Append(q, x) \in Seq(S)
         /\ DOMAIN Append(q, x) = DOMAIN q \cup {Len(q) + 1}
         /\ \A i \in DOMAIN q : Append(q, x)[i] = q[i] /\ i < Len(q) + 1
         /\ Append(q, x)[Len(q) + 1] = x
  OBVIOUS

\* An appended request joins the elements of the queue.
LEMMA ElemsAppend ==
  ASSUME NEW S, NEW q \in Seq(S), NEW x \in S
  PROVE  Elems(Append(q, x)) = Elems(q) \cup {x}
  BY Enqueue DEF Elems

\* The elements of a queue are its first one and those of the rest.
LEMMA ElemsDequeue ==
  ASSUME NEW S, NEW q \in Seq(S), q # << >>
  PROVE  Elems(q) = {Head(q)} \cup Elems(Tail(q))
<1>1. ASSUME NEW x \in Elems(q) PROVE x \in {Head(q)} \cup Elems(Tail(q))
  <2>1. PICK i \in DOMAIN q : x = q[i]
    BY DEF Elems
  <2>2. CASE i = 1
    BY <2>1, <2>2, Dequeue
  <2>3. CASE i # 1
    <3>1. i - 1 \in DOMAIN Tail(q) /\ Tail(q)[i - 1] = x
      BY <2>1, <2>3, Dequeue
    <3> QED
      BY <3>1 DEF Elems
  <2> QED
    BY <2>2, <2>3
<1>2. ASSUME NEW x \in {Head(q)} \cup Elems(Tail(q)) PROVE x \in Elems(q)
  BY Dequeue DEF Elems
<1> QED
  BY <1>1, <1>2

\* Kinds and serial ids of new requests.
LEMMA NewOpType ==
  ASSUME TypeOK, NEW s \in Serials, NEW k \in Kinds
  PROVE  NewOp(s, k) \in Op /\ NewOp(s, k).id = nextId /\ NewOp(s, k).serial = s
  BY DEF TypeOK, NewOp, Op

\* CommitTransaction makes a request of the open transaction's serial id and kind.
LEMMA TransOpType ==
  ASSUME TypeOK, NEW t \in Threads, trans[t] # NoTrans
  PROVE  /\ trans[t].serial \in Serials /\ trans[t].kind \in Kinds
         /\ TransOp(t) = NewOp(trans[t].serial, trans[t].kind)
         /\ TransOp(t) \in Op
<1>1. trans[t] \in Trans
  BY DEF TypeOK
<1> QED
  BY <1>1, NewOpType DEF Trans, Kinds, TransOp

\* Carrying out a request adds one entry for it to the log, with either outcome.
LEMMA EffectType ==
  ASSUME TypeOK, NEW op \in Op, Effect(op)
  PROVE  \E ok \in BOOLEAN : log' = Append(log, [op |-> op, ok |-> ok]) /\ log' \in Seq(Entry)
<1>1. PICK ok \in BOOLEAN : log' = Append(log, [op |-> op, ok |-> ok])
  BY DEF Effect, Outcomes
<1>2. [op |-> op, ok |-> ok] \in Entry
  BY DEF Entry
<1> QED
  BY <1>1, <1>2 DEF TypeOK

\* While threads submit, a request without serial id goes to the shared queue and
\* any other to the serial queue of its worker.
LEMMA SerialEnqueue ==
  ASSUME TypeOK, CanSubmit, NEW op \in Op, AddToSerialDelayQueue(op)
  PROVE  \/ op.serial = 0 /\ AddToDelayQueue(op)
         \/ /\ op.serial # 0 /\ op.serial % NumWorkers \in Workers
            /\ serialDelayQueue' = [serialDelayQueue EXCEPT ![op.serial % NumWorkers]
                                       = Append(serialDelayQueue[op.serial % NumWorkers], op)]
            /\ delayQueue' = delayQueue
<1>1. numAsyncWorkers = NumWorkers /\ NumWorkers # 0
  BY DEF CanSubmit, numAsyncWorkers
<1>2. op.serial \in Serials
  BY DEF Op
<1> QED
  BY <1>1, <1>2, WorkerInRange DEF AddToSerialDelayQueue, WorkerOf

\* AddToDelayQueue keeps the types of the queues.
LEMMA SharedEnqueueType ==
  ASSUME TypeOK, NEW op \in Op, AddToDelayQueue(op)
  PROVE  delayQueue' \in Seq(Op) /\ serialDelayQueue' \in [Workers -> Seq(Op)]
<1>1. delayQueue \in Seq(Op) /\ serialDelayQueue \in [Workers -> Seq(Op)]
  BY DEF TypeOK
<1> QED
  BY <1>1, Enqueue DEF AddToDelayQueue

\* AddToSerialDelayQueue keeps the types of the queues.
LEMMA SerialEnqueueType ==
  ASSUME TypeOK, CanSubmit, NEW op \in Op, AddToSerialDelayQueue(op)
  PROVE  delayQueue' \in Seq(Op) /\ serialDelayQueue' \in [Workers -> Seq(Op)]
<1>1. delayQueue \in Seq(Op) /\ serialDelayQueue \in [Workers -> Seq(Op)]
  BY DEF TypeOK
<1>2. \A w \in Workers : Append(serialDelayQueue[w], op) \in Seq(Op)
  BY <1>1, Enqueue
<1>3. CASE op.serial = 0 /\ AddToDelayQueue(op)
  BY <1>3, SharedEnqueueType
<1>4. ASSUME NEW w \in Workers, delayQueue' = delayQueue,
             serialDelayQueue' = [serialDelayQueue EXCEPT ![w] = Append(serialDelayQueue[w], op)]
      PROVE  delayQueue' \in Seq(Op) /\ serialDelayQueue' \in [Workers -> Seq(Op)]
  BY <1>1, <1>2, <1>4
<1> QED
  BY <1>3, <1>4, SerialEnqueue

-----------------------------------------------------------------------------
(* Type correctness of every step.                                         *)

\* The calls of a thread keep the types.
LEMMA SubmissionType ==
  ASSUME TypeOK, Submission
  PROVE  TypeOK'
<1> PICK t \in Threads :
      \/ Execute(t) \/ ExecuteInTransaction(t)
      \/ \E s \in Serials : BeginTransaction(t, s)
      \/ CommitTransaction(t) \/ CommitTransactionDirect(t)
      \/ RollbackTransaction(t)
      \/ \E k \in QueryKinds : AsyncQuery(t, k)
      \/ \E s \in Serials, k \in QueryKinds : DelayQueryHolder(t, s, k)
  BY DEF Submission
<1> USE DEF queueVars, workerVars, resultVars
<1>0. /\ nextId + 1 \in Nat \ {0}
      /\ 0 \in Serials /\ QueryKinds \subseteq Kinds /\ "write" \in Kinds
  BY DEF TypeOK, Kinds
<1>1. CASE Execute(t)
  <2>1. CASE main = "startup"
    BY <1>0, <1>1, <2>1, NewOpType, EffectType DEF Execute, TypeOK
  <2>2. CASE main # "startup"
    BY <1>0, <1>1, <2>2, NewOpType, SharedEnqueueType DEF Execute, TypeOK
  <2> QED
    BY <2>1, <2>2
<1>2. CASE ExecuteInTransaction(t)
  <2>1. trans[t] \in Trans
    BY <1>2 DEF ExecuteInTransaction, TypeOK
  <2>2. [trans[t] EXCEPT !.kind = "write"] \in Trans
    BY <2>1 DEF Trans
  <2> QED
    BY <1>2, <2>2 DEF ExecuteInTransaction, TypeOK
<1>3. CASE \E s \in Serials : BeginTransaction(t, s)
  <2>1. PICK s \in Serials : BeginTransaction(t, s)
    BY <1>3
  <2>2. [serial |-> s, kind |-> "empty"] \in Trans
    BY DEF Trans
  <2> QED
    BY <2>1, <2>2 DEF BeginTransaction, TypeOK
<1>4. CASE CommitTransaction(t)
  <2>1. TransOp(t) \in Op
    BY <1>4, TransOpType DEF CommitTransaction
  <2>2. CASE main = "startup"
    BY <1>0, <1>4, <2>1, <2>2, EffectType DEF CommitTransaction, TypeOK
  <2>3. CASE main # "startup"
    BY <1>0, <1>4, <2>1, <2>3, SerialEnqueueType DEF CommitTransaction, TypeOK
  <2> QED
    BY <2>2, <2>3
<1>5. CASE CommitTransactionDirect(t)
  <2>1. TransOp(t) \in Op
    BY <1>5, TransOpType DEF CommitTransactionDirect
  <2> QED
    BY <1>0, <1>5, <2>1, EffectType DEF CommitTransactionDirect, TypeOK
<1>6. CASE RollbackTransaction(t)
  BY <1>6 DEF RollbackTransaction, TypeOK
<1>7. CASE \E k \in QueryKinds : AsyncQuery(t, k)
  BY <1>0, <1>7, NewOpType, SharedEnqueueType DEF AsyncQuery, TypeOK
<1>8. CASE \E s \in Serials, k \in QueryKinds : DelayQueryHolder(t, s, k)
  BY <1>0, <1>8, NewOpType, SerialEnqueueType DEF DelayQueryHolder, TypeOK
<1> QED
  BY <1>1, <1>2, <1>3, <1>4, <1>5, <1>6, <1>7, <1>8

\* The workers keep the types.
LEMMA WorkerType ==
  ASSUME TypeOK, BusyHolds, NEW w \in Workers, Worker(w)
  PROVE  TypeOK'
<1> USE DEF queueVars, workerVars, resultVars
<1>1. CASE RunTop(w)
  BY <1>1 DEF RunTop, TypeOK, Loops
<1>2. CASE NextDelayedOperation(w)
  <2>1. CASE delayQueue # << >>
    <3>1. Head(delayQueue) \in Op /\ Tail(delayQueue) \in Seq(Op)
      BY <2>1, Dequeue DEF TypeOK
    <3>2. /\ delayQueue' = Tail(delayQueue) /\ busy' = [busy EXCEPT ![w] = Head(delayQueue)]
          /\ stage' = [stage EXCEPT ![w] = "executing"]
      BY <1>2, <2>1 DEF NextDelayedOperation
    <3>3. /\ delayQueue' \in Seq(Op) /\ busy' \in [Workers -> Op \cup {NoOp}]
          /\ stage' \in [Workers -> Stages]
      BY <3>1, <3>2 DEF TypeOK, Stages
    <3> QED
      BY <1>2, <2>1, <3>3 DEF NextDelayedOperation, TypeOK
  <2>2. CASE delayQueue = << >>
    BY <1>2, <2>2 DEF NextDelayedOperation, TypeOK, Loops
  <2> QED
    BY <2>1, <2>2
<1>3. CASE NextSerialOperation(w)
  <2>1. CASE serialDelayQueue[w] # << >>
    <3>1. /\ Head(serialDelayQueue[w]) \in Op
          /\ Tail(serialDelayQueue[w]) \in Seq(Op)
      BY <2>1, Dequeue DEF TypeOK
    <3>2. serialDelayQueue' \in [Workers -> Seq(Op)]
      BY <1>3, <2>1, <3>1 DEF NextSerialOperation, TypeOK
    <3>3. busy' \in [Workers -> Op \cup {NoOp}] /\ stage' \in [Workers -> Stages]
      <4> DEFINE h == Head(serialDelayQueue[w])
      <4>1. /\ busy' = [busy EXCEPT ![w] = h]
            /\ stage' = [stage EXCEPT ![w] = "executing"]
        BY <1>3, <2>1 DEF NextSerialOperation
      <4>2. h \in Op
        BY <3>1
      <4> HIDE DEF h
      <4> QED
        BY <4>1, <4>2 DEF TypeOK, Stages
    <3> QED
      BY <1>3, <2>1, <3>2, <3>3 DEF NextSerialOperation, TypeOK
  <2>2. CASE serialDelayQueue[w] = << >>
    BY <1>3, <2>2 DEF NextSerialOperation, TypeOK, Loops
  <2> QED
    BY <2>1, <2>2
<1>4. CASE ExecuteOperation(w)
  <2>1. busy[w] \in Op
    BY <1>4 DEF ExecuteOperation, BusyHolds
  <2> QED
    BY <1>4, <2>1, EffectType DEF ExecuteOperation, TypeOK, Stages
<1>5. CASE PostOperation(w)
  <2>1. busy[w] \in Op
    BY <1>5 DEF PostOperation, BusyHolds
  <2>2. resultQueue' \in Seq(Op)
    BY <1>5, <2>1, Enqueue DEF PostOperation, TypeOK
  <2> QED
    BY <1>5, <2>2 DEF PostOperation, TypeOK, Stages
<1> QED
  BY <1>1, <1>2, <1>3, <1>4, <1>5 DEF Worker, ProcessRequests

\* The pump of the result queue keeps the types and touches nothing else.
LEMMA UpdateType ==
  ASSUME TypeOK, Update \/ RunSafeCallback
  PROVE  /\ TypeOK'
         /\ UNCHANGED <<main, trans, nextId, queueVars, workerVars, log, haltMark>>
<1> USE DEF queueVars, workerVars, resultVars
<1>1. CASE UpdateBegin
  BY <1>1 DEF UpdateBegin, TypeOK, Pumps
<1>2. CASE UpdateSort
  <2>1. CASE resultQueue # << >>
    <3>1. Head(resultQueue) \in Op /\ Tail(resultQueue) \in Seq(Op)
      BY <2>1, Dequeue DEF TypeOK
    <3>2. Append(waiting, Head(resultQueue)) \in Seq(Op)
      BY <3>1, Enqueue DEF TypeOK
    <3> QED
      BY <1>2, <2>1, <3>1, <3>2 DEF UpdateSort, TypeOK, Pumps
  <2>2. CASE resultQueue = << >>
    BY <1>2, <2>2 DEF UpdateSort, TypeOK, Pumps
  <2> QED
    BY <2>1, <2>2
<1>3. CASE UpdateRunUnsafe
  <2>1. CASE waiting # << >>
    <3>1. Head(waiting) \in Op /\ Tail(waiting) \in Seq(Op)
      BY <2>1, Dequeue DEF TypeOK
    <3>2. Append(delivered, Head(waiting)) \in Seq(Op)
      BY <3>1, Enqueue DEF TypeOK
    <3> QED
      BY <1>3, <2>1, <3>1, <3>2 DEF UpdateRunUnsafe, TypeOK, Pumps
  <2>2. CASE waiting = << >>
    BY <1>3, <2>2 DEF UpdateRunUnsafe, TypeOK, Pumps
  <2> QED
    BY <2>1, <2>2
<1>4. CASE UpdateEnd
  BY <1>4 DEF UpdateEnd, TypeOK, Pumps
<1>5. CASE RunSafeCallback
  <2>1. PICK cb \in pool : pool' = pool \ {cb} /\ delivered' = Append(delivered, cb)
    BY <1>5 DEF RunSafeCallback
  <2>2. Append(delivered, cb) \in Seq(Op)
    BY Enqueue DEF TypeOK
  <2> QED
    BY <1>5, <2>1, <2>2 DEF RunSafeCallback, TypeOK
<1> QED
  BY <1>1, <1>2, <1>3, <1>4, <1>5 DEF Update

\* Startup and shutdown keep the types.
LEMMA LifecycleType ==
  ASSUME TypeOK, AllowAsyncTransactions \/ StopServer \/ Shutdown
  PROVE  TypeOK'
<1> USE DEF queueVars, workerVars, resultVars
<1>1. CASE AllowAsyncTransactions
  BY <1>1 DEF AllowAsyncTransactions, TypeOK, Mains
<1>2. CASE StopServer
  BY <1>2 DEF StopServer, TypeOK, Mains
<1>3. CASE \E w \in Workers : Stop(w)
  BY <1>3 DEF Stop, TypeOK
<1>4. CASE \E w \in Workers : DestroyBody(w)
  BY <1>4 DEF DestroyBody, TypeOK, Loops
<1>5. CASE JoinThreads
  BY <1>5 DEF JoinThreads, TypeOK, Mains
<1>6. CASE HaltDone
  BY <1>6 DEF HaltDone, TypeOK, Mains
<1>7. CASE CancelAll
  <2>1. Head(resultQueue) \in Op /\ Tail(resultQueue) \in Seq(Op)
    BY <1>7, Dequeue DEF CancelAll, TypeOK
  <2>2. Append(delivered, Head(resultQueue)) \in Seq(Op)
    BY <2>1, Enqueue DEF TypeOK
  <2>3. CASE UNCHANGED <<nextId, queueVars>>
    BY <1>7, <2>1, <2>2, <2>3 DEF CancelAll, TypeOK
  <2>4. CASE AddToDelayQueue(NewOp(0, "write")) /\ nextId' = nextId + 1
    <3>1. NewOp(0, "write") \in Op /\ nextId + 1 \in Nat \ {0}
      BY NewOpType DEF Kinds, TypeOK
    <3> QED
      BY <1>7, <2>1, <2>2, <2>4, <3>1, SharedEnqueueType DEF CancelAll, TypeOK
  <2> QED
    BY <1>7, <2>3, <2>4 DEF CancelAll
<1>8. CASE DeleteConnections
  BY <1>8 DEF DeleteConnections, TypeOK, Mains
<1> QED
  BY <1>1, <1>2, <1>3, <1>4, <1>5, <1>6, <1>7, <1>8 DEF Shutdown

-----------------------------------------------------------------------------
(* The queues: what a submission, a dequeue, an execution do to QueueInv   *)
(* and to the set of pending requests.                                     *)

QueueRest ==
    QueuesSorted /\ BusyHolds /\ BusyFirst /\ StartupUnserialised /\ BodiesDrained

\* Where a pending request can be.
LEMMA PendingWhere ==
  ASSUME NEW x
  PROVE  x \in Pending <=>
           \/ x \in Elems(delayQueue)
           \/ \E w \in Workers : x \in Elems(serialDelayQueue[w])
           \/ \E w \in Workers : stage[w] = "executing" /\ x = busy[w]
<1>1. x \in InSerialQueues <=> \E w \in Workers : x \in Elems(serialDelayQueue[w])
  BY Zenon DEF InSerialQueues
<1>2. x \in InFlight <=> \E w \in Workers : stage[w] = "executing" /\ x = busy[w]
  BY Zenon DEF InFlight
<1>3. x \in Pending <=> x \in Elems(delayQueue) \/ x \in InSerialQueues \/ x \in InFlight
  BY DEF Pending
<1> QED
  BY <1>1, <1>2, <1>3, Zenon

\* The numbers of pending requests are natural numbers.
LEMMA PendingNumbers ==
  ASSUME QueueInv
  PROVE  /\ \A i \in DOMAIN delayQueue : delayQueue[i].id \in Nat
         /\ \A w \in Workers : \A i \in DOMAIN serialDelayQueue[w] :
               serialDelayQueue[w][i].id \in Nat
         /\ \A w \in Workers : stage[w] = "executing" => busy[w].id \in Nat
<1>1. \A op \in Op : op.id \in Nat
  BY DEF Op
<1>2. /\ delayQueue \in Seq(Op)
      /\ \A w \in Workers : serialDelayQueue[w] \in Seq(Op)
      /\ \A w \in Workers : stage[w] = "executing" => busy[w] \in Op
  BY DEF QueueInv, TypeOK, BusyHolds
<1>3. \A q \in Seq(Op) : \A i \in DOMAIN q : q[i] \in Op
  OBVIOUS
<1> QED
  BY <1>1, <1>2, <1>3

\* A request without serial id goes to the end of the shared queue.
LEMMA AddShared ==
  ASSUME QueueInv, NEW op \in Op, op.id = nextId, op.serial = 0,
         AddToDelayQueue(op), nextId' = nextId + 1, main # "clearing",
         UNCHANGED <<main, workerVars, haltMark>>
  PROVE  QueueRest' /\ Pending' = Pending \cup {op}
<1> USE DEF workerVars
<1>1. /\ nextId \in Nat /\ delayQueue \in Seq(Op) /\ delayQueue' = Append(delayQueue, op)
      /\ serialDelayQueue' = serialDelayQueue /\ nextId < nextId'
      /\ nextId' \in Nat /\ haltMark \in Nat
  BY DEF QueueInv, TypeOK, AddToDelayQueue
<1>2. /\ \A i \in DOMAIN delayQueue : delayQueue[i].id \in Nat
      /\ \A w \in Workers : \A i \in DOMAIN serialDelayQueue[w] :
            serialDelayQueue[w][i].id \in Nat
      /\ \A w \in Workers : stage[w] = "executing" => busy[w].id \in Nat
  BY PendingNumbers
<1>3. /\ DOMAIN delayQueue' = DOMAIN delayQueue \cup {Len(delayQueue) + 1}
      /\ \A i \in DOMAIN delayQueue : delayQueue'[i] = delayQueue[i] /\ i < Len(delayQueue) + 1
      /\ delayQueue'[Len(delayQueue) + 1] = op
      /\ Len(delayQueue) \in Nat /\ DOMAIN delayQueue \subseteq Nat
  BY <1>1, Enqueue
<1>4. QueuesSorted'
  <2>1. \A i \in DOMAIN delayQueue' :
           delayQueue'[i].serial = 0 /\ delayQueue'[i].id < nextId'
    BY <1>1, <1>2, <1>3 DEF QueueInv, QueuesSorted
  <2>2. \A i, j \in DOMAIN delayQueue' : i < j => delayQueue'[i].id < delayQueue'[j].id
    <3> SUFFICES ASSUME NEW i \in DOMAIN delayQueue', NEW j \in DOMAIN delayQueue', i < j
                 PROVE  delayQueue'[i].id < delayQueue'[j].id
      OBVIOUS
    <3>1. i \in DOMAIN delayQueue /\ (j \in DOMAIN delayQueue \/ j = Len(delayQueue) + 1)
      BY <1>3
    <3> QED
      BY <1>2, <1>3, <3>1 DEF QueueInv, QueuesSorted
  <2>3. \A w \in Workers : \A i \in DOMAIN serialDelayQueue[w] :
          /\ serialDelayQueue[w][i].serial # 0
          /\ serialDelayQueue[w][i].serial % NumWorkers = w
          /\ serialDelayQueue[w][i].id < nextId'
    BY <1>1, <1>2 DEF QueueInv, QueuesSorted
  <2> QED
    BY <1>1, <2>1, <2>2, <2>3 DEF QueueInv, QueuesSorted
<1>5. BusyHolds' /\ StartupUnserialised'
  BY <1>1 DEF QueueInv, BusyHolds, StartupUnserialised
<1>6. BusyFirst'
  <2> SUFFICES ASSUME NEW w \in Workers, stage[w] = "executing"
               PROVE  /\ busy[w].id < nextId'
                      /\ busy[w].serial = 0 =>
                            \A i \in DOMAIN delayQueue' : busy[w].id < delayQueue'[i].id
    BY <1>1 DEF QueueInv, BusyFirst
  <2> QED
    BY <1>1, <1>2, <1>3 DEF QueueInv, BusyFirst
<1>7. BodiesDrained'
  <2>1. main \in {"halted", "stopped"} => \A i \in DOMAIN delayQueue' : delayQueue'[i].id >= haltMark
    BY <1>1, <1>3 DEF QueueInv, BodiesDrained
  <2> QED
    BY <1>1, <2>1 DEF QueueInv, BodiesDrained
<1>8. Pending' = Pending \cup {op}
  <2>1. Elems(delayQueue') = Elems(delayQueue) \cup {op}
    BY <1>1, ElemsAppend
  <2> QED
    BY <1>1, <2>1 DEF Pending, InSerialQueues, InFlight
<1> QED
  BY <1>4, <1>5, <1>6, <1>7, <1>8 DEF QueueRest

\* A request with a serial id goes to the end of the queue of its worker.
LEMMA AddSerial ==
  ASSUME QueueInv, NEW op \in Op, op.id = nextId, op.serial # 0,
         NEW u \in Workers, u = op.serial % NumWorkers,
         serialDelayQueue' = [serialDelayQueue EXCEPT ![u] = Append(serialDelayQueue[u], op)],
         delayQueue' = delayQueue, nextId' = nextId + 1, main \in {"running", "stopping"},
         UNCHANGED <<main, workerVars, haltMark>>
  PROVE  QueueRest' /\ Pending' = Pending \cup {op}
<1> USE DEF workerVars
<1> DEFINE q == serialDelayQueue[u]
           r == serialDelayQueue'[u]
<1>1. /\ nextId \in Nat /\ q \in Seq(Op) /\ r = Append(q, op) /\ nextId < nextId'
      /\ nextId' \in Nat
      /\ \A w \in Workers : w # u => serialDelayQueue'[w] = serialDelayQueue[w]
  BY DEF QueueInv, TypeOK
<1>2. /\ \A i \in DOMAIN delayQueue : delayQueue[i].id \in Nat
      /\ \A w \in Workers : \A i \in DOMAIN serialDelayQueue[w] :
            serialDelayQueue[w][i].id \in Nat
      /\ \A w \in Workers : stage[w] = "executing" => busy[w].id \in Nat
  BY PendingNumbers
<1>3. /\ DOMAIN r = DOMAIN q \cup {Len(q) + 1}
      /\ \A i \in DOMAIN q : r[i] = q[i] /\ i < Len(q) + 1
      /\ r[Len(q) + 1] = op
      /\ Len(q) \in Nat /\ DOMAIN q \subseteq Nat
  BY <1>1, Enqueue
<1>4. QueuesSorted'
  <2>1. \A i \in DOMAIN delayQueue' :
           delayQueue'[i].serial = 0 /\ delayQueue'[i].id < nextId'
    BY <1>1, <1>2 DEF QueueInv, QueuesSorted
  <2>2. \A i, j \in DOMAIN r : i < j => r[i].id < r[j].id
    <3> SUFFICES ASSUME NEW i \in DOMAIN r, NEW j \in DOMAIN r, i < j
                 PROVE  r[i].id < r[j].id
      OBVIOUS
    <3>1. i \in DOMAIN q /\ (j \in DOMAIN q \/ j = Len(q) + 1)
      BY <1>3
    <3> QED
      BY <1>2, <1>3, <3>1 DEF QueueInv, QueuesSorted
  <2>3. \A i \in DOMAIN r :
           r[i].serial # 0 /\ r[i].serial % NumWorkers = u /\ r[i].id < nextId'
    BY <1>1, <1>2, <1>3 DEF QueueInv, QueuesSorted
  <2>4. ASSUME NEW w \in Workers, w # u
        PROVE  \A i \in DOMAIN serialDelayQueue'[w] :
          /\ serialDelayQueue'[w][i].serial # 0
          /\ serialDelayQueue'[w][i].serial % NumWorkers = w
          /\ serialDelayQueue'[w][i].id < nextId'
    BY <1>1, <1>2, <2>4 DEF QueueInv, QueuesSorted
  <2>5. ASSUME NEW w \in Workers, w # u
        PROVE  \A i, j \in DOMAIN serialDelayQueue'[w] :
                 i < j => serialDelayQueue'[w][i].id < serialDelayQueue'[w][j].id
    BY <1>1, <2>5 DEF QueueInv, QueuesSorted
  <2>6. \A i, j \in DOMAIN delayQueue' : i < j => delayQueue'[i].id < delayQueue'[j].id
    BY DEF QueueInv, QueuesSorted
  <2> HIDE DEF r
  <2>7. \A w \in Workers : \A i \in DOMAIN serialDelayQueue'[w] :
          /\ serialDelayQueue'[w][i].serial # 0
          /\ serialDelayQueue'[w][i].serial % NumWorkers = w
          /\ serialDelayQueue'[w][i].id < nextId'
    BY <2>3, <2>4 DEF r
  <2>8. \A w \in Workers : \A i, j \in DOMAIN serialDelayQueue'[w] :
          i < j => serialDelayQueue'[w][i].id < serialDelayQueue'[w][j].id
    BY <2>2, <2>5 DEF r
  <2> QED
    BY <2>1, <2>6, <2>7, <2>8 DEF QueuesSorted
<1>5. BusyHolds' /\ StartupUnserialised'
  BY DEF QueueInv, BusyHolds, StartupUnserialised
<1>6. BusyFirst'
  <2>1. ASSUME NEW w \in Workers, stage[w] = "executing"
        PROVE  /\ busy[w].id < nextId'
               /\ busy[w].serial # 0 =>
                     \A i \in DOMAIN serialDelayQueue'[w] :
                         busy[w].id < serialDelayQueue'[w][i].id
    <3>1. CASE w = u
      BY <1>1, <1>2, <1>3, <2>1, <3>1 DEF QueueInv, BusyFirst
    <3>2. CASE w # u
      BY <1>1, <1>2, <2>1, <3>2 DEF QueueInv, BusyFirst
    <3> QED
      BY <3>1, <3>2
  <2> QED
    BY <2>1 DEF QueueInv, BusyFirst
<1>7. BodiesDrained'
  <2>1. \A w \in Workers : loop[w] # "destroyed"
    BY DEF QueueInv, BodiesDrained
  <2> QED
    BY <2>1 DEF QueueInv, BodiesDrained
<1>8. Pending' = Pending \cup {op}
  <2>1. Elems(r) = Elems(q) \cup {op}
    BY <1>1, ElemsAppend
  <2>2. \A w \in Workers : w # u => Elems(serialDelayQueue'[w]) = Elems(serialDelayQueue[w])
    BY <1>1
  <2>3. ASSUME NEW x PROVE x \in Pending' <=> x \in Pending \cup {op}
    <3>1. (\E w \in Workers : x \in Elems(serialDelayQueue'[w])) <=>
            (x = op \/ \E w \in Workers : x \in Elems(serialDelayQueue[w]))
      BY <2>1, <2>2
    <3> QED
      BY <3>1 DEF Pending, InSerialQueues, InFlight
  <2> QED
    BY <2>3
<1> QED
  BY <1>4, <1>5, <1>6, <1>7, <1>8 DEF QueueRest

\* The first number of a sorted queue is smaller than the others, and the rest is
\* sorted.
LEMMA SortedTail ==
  ASSUME NEW q \in Seq(Op), q # << >>,
         \A i, j \in DOMAIN q : i < j => q[i].id < q[j].id
  PROVE  /\ \A i \in DOMAIN Tail(q) : Head(q).id < Tail(q)[i].id
         /\ \A i, j \in DOMAIN Tail(q) : i < j => Tail(q)[i].id < Tail(q)[j].id
<1>1. ASSUME NEW i \in DOMAIN Tail(q) PROVE Head(q).id < Tail(q)[i].id
  <2>1. i + 1 \in DOMAIN q /\ Tail(q)[i] = q[i + 1] /\ 1 \in DOMAIN q /\ Head(q) = q[1] /\ 1 < i + 1
    BY Dequeue
  <2> QED
    BY <2>1
<1>2. ASSUME NEW i \in DOMAIN Tail(q), NEW j \in DOMAIN Tail(q), i < j
      PROVE  Tail(q)[i].id < Tail(q)[j].id
  <2>1. /\ i + 1 \in DOMAIN q /\ j + 1 \in DOMAIN q /\ i + 1 < j + 1
        /\ Tail(q)[i] = q[i + 1] /\ Tail(q)[j] = q[j + 1]
    BY <1>2, Dequeue
  <2> QED
    BY <2>1
<1> QED
  BY <1>1, <1>2

\* A worker takes the first request of the shared queue; what is pending stays.
LEMMA TakeShared ==
  ASSUME QueueInv, NEW w \in Workers, NextDelayedOperation(w), delayQueue # << >>
  PROVE  QueueRest' /\ Pending' = Pending
<1> DEFINE h == Head(delayQueue)
           q == Tail(delayQueue)
<1>1. /\ delayQueue' = q /\ busy' = [busy EXCEPT ![w] = h] /\ loop[w] = "shared"
      /\ stage' = [stage EXCEPT ![w] = "executing"] /\ loop' = loop /\ stage[w] = "idle"
      /\ serialDelayQueue' = serialDelayQueue /\ main' = main /\ nextId' = nextId
      /\ haltMark' = haltMark
  BY DEF NextDelayedOperation
<1>2. /\ delayQueue \in Seq(Op) /\ busy \in [Workers -> Op \cup {NoOp}]
      /\ stage \in [Workers -> Stages] /\ nextId \in Nat /\ h \in Op /\ q \in Seq(Op)
  BY Dequeue DEF QueueInv, TypeOK
<1>3. /\ h.serial = 0 /\ h.id < nextId /\ h \in Elems(delayQueue)
      /\ \A i \in DOMAIN q : q[i].serial = 0 /\ q[i].id < nextId /\ h.id < q[i].id
      /\ \A i, j \in DOMAIN q : i < j => q[i].id < q[j].id
      /\ \E i \in DOMAIN delayQueue : h = delayQueue[i]
  BY <1>2, Dequeue, SortedTail DEF QueueInv, QueuesSorted, Elems
<1>4. \A v \in Workers : v # w => busy'[v] = busy[v] /\ stage'[v] = stage[v]
  BY <1>1, <1>2
<1>5. busy'[w] = h /\ stage'[w] = "executing"
  BY <1>1, <1>2
<1>6. \A v \in Workers : stage[v] = "executing" => v # w
  BY <1>1
<1> HIDE DEF h, q
<1>7. QueuesSorted'
  BY <1>1, <1>3 DEF QueueInv, QueuesSorted
<1>8. BusyHolds' /\ StartupUnserialised'
  BY <1>1, <1>2, <1>3, <1>4, <1>5 DEF QueueInv, BusyHolds, StartupUnserialised
<1>9. BusyFirst'
  <2>1. ASSUME NEW v \in Workers, v # w, stage[v] = "executing"
        PROVE  /\ busy[v] # h
               /\ busy[v].serial = 0 => \A i \in DOMAIN q : busy[v].id < q[i].id
    <3>1. busy[v].serial = 0 =>
             \A i \in DOMAIN delayQueue : busy[v].id < delayQueue[i].id
      BY <2>1 DEF QueueInv, BusyFirst
    <3>2. \A i \in DOMAIN q : i + 1 \in DOMAIN delayQueue /\ q[i] = delayQueue[i + 1]
      BY <1>2, Dequeue DEF q
    <3>3. h.id \in Nat
      BY <1>2 DEF Op
    <3> QED
      BY <1>3, <3>1, <3>2, <3>3
  <2>2. ASSUME NEW v \in Workers, v # w, stage[v] = "executing"
        PROVE  /\ busy[v].id < nextId
               /\ busy[v].serial # 0 =>
                    /\ busy[v].serial % NumWorkers = v
                    /\ \A i \in DOMAIN serialDelayQueue[v] :
                          busy[v].id < serialDelayQueue[v][i].id
               /\ \A u \in Workers : stage[u] = "executing" /\ u # v => busy[u] # busy[v]
    BY <2>2 DEF QueueInv, BusyFirst
  <2>3. ASSUME NEW v \in Workers, stage'[v] = "executing"
        PROVE  /\ busy'[v].id < nextId'
               /\ busy'[v].serial = 0 =>
                     \A i \in DOMAIN delayQueue' : busy'[v].id < delayQueue'[i].id
               /\ busy'[v].serial # 0 =>
                    /\ busy'[v].serial % NumWorkers = v
                    /\ \A i \in DOMAIN serialDelayQueue'[v] :
                          busy'[v].id < serialDelayQueue'[v][i].id
               /\ \A u \in Workers : stage'[u] = "executing" /\ u # v => busy'[u] # busy'[v]
    <3>1. CASE v = w
      BY <1>1, <1>3, <1>4, <1>5, <2>1, <3>1
    <3>2. CASE v # w
      BY <1>1, <1>4, <1>5, <2>1, <2>2, <2>3, <3>2
    <3> QED
      BY <3>1, <3>2
  <2> QED
    BY <2>3 DEF BusyFirst
<1>10. BodiesDrained'
  <2>1. main \notin {"halted", "stopped"}
    BY <1>1 DEF QueueInv, BodiesDrained
  <2>2. main = "clearing" => \A v \in Workers : loop[v] \notin {"serial", "destroyed"}
    BY DEF QueueInv, BodiesDrained
  <2> QED
    BY <1>1, <1>4, <2>1, <2>2 DEF QueueInv, BodiesDrained
<1>11. Pending' = Pending
  <2>1. Elems(delayQueue) = {h} \cup Elems(q)
    BY <1>2, ElemsDequeue DEF h, q
  <2>2. ASSUME NEW x
        PROVE  (\E v \in Workers : stage'[v] = "executing" /\ x = busy'[v]) <=>
                 (x = h \/ \E v \in Workers : stage[v] = "executing" /\ x = busy[v])
    BY <1>4, <1>5, <1>6
  <2>3. InFlight' = InFlight \cup {h}
    BY <2>2 DEF InFlight
  <2>4. InSerialQueues' = InSerialQueues
    BY <1>1 DEF InSerialQueues
  <2> QED
    BY <1>1, <2>1, <2>3, <2>4 DEF Pending
<1> QED
  BY <1>7, <1>8, <1>9, <1>10, <1>11 DEF QueueRest

\* A worker takes the first request of its serial queue; what is pending stays.
LEMMA TakeSerial ==
  ASSUME QueueInv, NEW w \in Workers, NextSerialOperation(w), serialDelayQueue[w] # << >>
  PROVE  QueueRest' /\ Pending' = Pending
<1> DEFINE s == serialDelayQueue[w]
           h == Head(s)
           q == Tail(s)
<1>1. /\ serialDelayQueue' = [serialDelayQueue EXCEPT ![w] = q] /\ loop[w] = "serial"
      /\ busy' = [busy EXCEPT ![w] = h] /\ stage[w] = "idle"
      /\ stage' = [stage EXCEPT ![w] = "executing"] /\ loop' = loop
      /\ delayQueue' = delayQueue /\ main' = main /\ nextId' = nextId
      /\ haltMark' = haltMark
  BY DEF NextSerialOperation
<1>2. /\ serialDelayQueue \in [Workers -> Seq(Op)] /\ busy \in [Workers -> Op \cup {NoOp}]
      /\ stage \in [Workers -> Stages] /\ nextId \in Nat
      /\ s \in Seq(Op) /\ s # << >>
  BY DEF QueueInv, TypeOK
<1>3. h \in Op /\ q \in Seq(Op)
  BY <1>2, Dequeue
<1>4. /\ \A i \in DOMAIN s :
            s[i].serial # 0 /\ s[i].serial % NumWorkers = w /\ s[i].id < nextId
      /\ \A i, j \in DOMAIN s : i < j => s[i].id < s[j].id
  BY DEF QueueInv, QueuesSorted
<1> HIDE DEF s
<1>5. /\ h.serial # 0 /\ h.serial % NumWorkers = w /\ h.id < nextId
      /\ \A i \in DOMAIN q : /\ q[i].serial # 0 /\ q[i].serial % NumWorkers = w
                             /\ q[i].id < nextId /\ h.id < q[i].id
      /\ \A i, j \in DOMAIN q : i < j => q[i].id < q[j].id
  <2>1. 1 \in DOMAIN s /\ h = s[1] /\ \A i \in DOMAIN q : i + 1 \in DOMAIN s /\ q[i] = s[i + 1]
    BY <1>2, Dequeue
  <2>2. /\ \A i \in DOMAIN q : h.id < q[i].id
        /\ \A i, j \in DOMAIN q : i < j => q[i].id < q[j].id
    BY <1>2, <1>4, SortedTail
  <2> HIDE DEF h, q
  <2> QED
    BY <1>4, <2>1, <2>2
<1>6. \A v \in Workers : v # w =>
         busy'[v] = busy[v] /\ stage'[v] = stage[v] /\ serialDelayQueue'[v] = serialDelayQueue[v]
  BY <1>1, <1>2
<1>7. busy'[w] = h /\ stage'[w] = "executing" /\ serialDelayQueue'[w] = q
  BY <1>1, <1>2
<1>8. \A v \in Workers : stage[v] = "executing" => v # w
  BY <1>1
<1>9. main # "startup"
  BY <1>2 DEF QueueInv, StartupUnserialised, s
<1>10. Elems(s) = {h} \cup Elems(q)
  BY <1>2, ElemsDequeue
<1> HIDE DEF h, q
<1>11. QueuesSorted'
  <2>1. \A v \in Workers : \A i \in DOMAIN serialDelayQueue'[v] :
          /\ serialDelayQueue'[v][i].serial # 0
          /\ serialDelayQueue'[v][i].serial % NumWorkers = v
          /\ serialDelayQueue'[v][i].id < nextId'
    BY <1>1, <1>5, <1>6, <1>7 DEF QueueInv, QueuesSorted
  <2>2. \A v \in Workers : \A i, j \in DOMAIN serialDelayQueue'[v] :
          i < j => serialDelayQueue'[v][i].id < serialDelayQueue'[v][j].id
    BY <1>5, <1>6, <1>7 DEF QueueInv, QueuesSorted
  <2> QED
    BY <1>1, <2>1, <2>2 DEF QueueInv, QueuesSorted
<1>12. BusyHolds' /\ StartupUnserialised'
  BY <1>1, <1>3, <1>6, <1>7, <1>9 DEF QueueInv, BusyHolds, StartupUnserialised
<1>13. BusyFirst'
  <2>1. ASSUME NEW v \in Workers, v # w, stage[v] = "executing"
        PROVE  /\ busy[v].id < nextId
               /\ busy[v].serial = 0 =>
                     \A i \in DOMAIN delayQueue : busy[v].id < delayQueue[i].id
               /\ busy[v].serial # 0 =>
                    /\ busy[v].serial % NumWorkers = v
                    /\ \A i \in DOMAIN serialDelayQueue[v] :
                          busy[v].id < serialDelayQueue[v][i].id
               /\ \A u \in Workers : stage[u] = "executing" /\ u # v => busy[u] # busy[v]
    BY <2>1 DEF QueueInv, BusyFirst
  <2>2. ASSUME NEW v \in Workers, v # w, stage[v] = "executing" PROVE busy[v] # h
    BY <1>5, <2>1, <2>2
  <2>3. ASSUME NEW v \in Workers, stage'[v] = "executing"
        PROVE  /\ busy'[v].id < nextId'
               /\ busy'[v].serial = 0 =>
                     \A i \in DOMAIN delayQueue' : busy'[v].id < delayQueue'[i].id
               /\ busy'[v].serial # 0 =>
                    /\ busy'[v].serial % NumWorkers = v
                    /\ \A i \in DOMAIN serialDelayQueue'[v] :
                          busy'[v].id < serialDelayQueue'[v][i].id
               /\ \A u \in Workers : stage'[u] = "executing" /\ u # v => busy'[u] # busy'[v]
    <3>1. CASE v = w
      BY <1>1, <1>5, <1>6, <1>7, <2>2, <3>1
    <3>2. CASE v # w
      BY <1>1, <1>6, <1>7, <2>1, <2>2, <2>3, <3>2
    <3> QED
      BY <3>1, <3>2
  <2> QED
    BY <2>3 DEF BusyFirst
<1>14. BodiesDrained'
  <2>1. main \notin {"halted", "stopped"}
    BY <1>1 DEF QueueInv, BodiesDrained
  <2> QED
    BY <1>1, <1>6, <2>1 DEF QueueInv, BodiesDrained
<1>15. Pending' = Pending
  <2>1. ASSUME NEW x
        PROVE  (\E v \in Workers : stage'[v] = "executing" /\ x = busy'[v]) <=>
                 (x = h \/ \E v \in Workers : stage[v] = "executing" /\ x = busy[v])
    BY <1>6, <1>7, <1>8
  <2>2. InFlight' = InFlight \cup {h}
    BY <2>1 DEF InFlight
  <2>3. ASSUME NEW x
        PROVE  (x = h \/ \E v \in Workers : x \in Elems(serialDelayQueue'[v])) <=>
                 \E v \in Workers : x \in Elems(serialDelayQueue[v])
    BY <1>6, <1>7, <1>10 DEF s
  <2>4. InSerialQueues = InSerialQueues' \cup {h}
    BY <2>3 DEF InSerialQueues
  <2> QED
    BY <1>1, <2>2, <2>4 DEF Pending
<1> QED
  BY <1>11, <1>12, <1>13, <1>14, <1>15 DEF QueueRest

\* A worker finds a queue empty, or starts its loop again, or leaves it.
LEMMA MoveOn ==
  ASSUME QueueInv, NEW w \in Workers,
         \/ NextDelayedOperation(w) /\ delayQueue = << >>
         \/ NextSerialOperation(w) /\ serialDelayQueue[w] = << >>
         \/ RunTop(w)
  PROVE  QueueRest' /\ Pending' = Pending
<1>1. /\ UNCHANGED <<main, nextId, delayQueue, serialDelayQueue, busy, stage, haltMark>>
      /\ stage[w] = "idle"
      /\ \/ loop[w] = "shared" /\ loop' = [loop EXCEPT ![w] = "serial"] /\ delayQueue = << >>
         \/ /\ loop[w] = "serial" /\ serialDelayQueue[w] = << >>
            /\ loop' = [loop EXCEPT ![w] = IF main = "clearing" THEN "destroyed" ELSE "top"]
         \/ loop[w] = "top" /\ loop' = [loop EXCEPT ![w] = IF running[w] THEN "shared" ELSE "exited"]
  BY DEF NextDelayedOperation, NextSerialOperation, RunTop, queueVars, QueueInv, BodiesDrained
<1>2. QueuesSorted' /\ BusyHolds' /\ BusyFirst' /\ StartupUnserialised'
  BY <1>1 DEF QueueInv, QueuesSorted, BusyHolds, BusyFirst, StartupUnserialised
<1>3. BodiesDrained'
  <2>1. loop \in [Workers -> Loops]
    BY DEF QueueInv, TypeOK
  <2>2. \A v \in Workers : v # w => loop'[v] = loop[v]
    BY <1>1, <2>1
  <2>3. main \notin {"halted", "stopped"}
    BY <1>1 DEF QueueInv, BodiesDrained
  <2>4. CASE loop[w] = "shared"
    BY <1>1, <2>1, <2>2, <2>3, <2>4 DEF QueueInv, BodiesDrained
  <2>5. CASE loop[w] = "serial"
    BY <1>1, <2>1, <2>2, <2>3, <2>5 DEF QueueInv, BodiesDrained
  <2>6. CASE loop[w] = "top"
    BY <1>1, <2>1, <2>2, <2>3, <2>6 DEF QueueInv, BodiesDrained
  <2> QED
    BY <1>1, <2>4, <2>5, <2>6
<1>4. Pending' = Pending
  BY <1>1 DEF Pending, InSerialQueues, InFlight
<1> QED
  BY <1>2, <1>3, <1>4 DEF QueueRest

\* The request a worker carries out is in no queue and in no other worker's hands,
\* and the pending requests of its serial id come after it.
LEMMA BusyIsNext ==
  ASSUME QueueInv, NEW w \in Workers, stage[w] = "executing"
  PROVE  /\ busy[w] \in Op /\ busy[w] \in Pending
         /\ busy[w] \notin Elems(delayQueue) /\ busy[w] \notin InSerialQueues
         /\ \A v \in Workers : stage[v] = "executing" /\ v # w => busy[v] # busy[w]
         /\ busy[w].serial # 0 =>
               \A p \in Pending : p.serial = busy[w].serial => busy[w].id <= p.id
<1>1. busy[w] \in Op /\ busy[w].id \in Nat
  BY DEF QueueInv, BusyHolds, Op
<1>2. busy[w] \in Pending
  BY PendingWhere
<1>3. \A x \in Elems(delayQueue) : x.serial = 0 /\ (busy[w].serial = 0 => busy[w].id < x.id)
  BY DEF QueueInv, QueuesSorted, BusyFirst, Elems
<1>4. ASSUME NEW v \in Workers, NEW x \in Elems(serialDelayQueue[v])
      PROVE  /\ x.serial # 0 /\ x.serial % NumWorkers = v
             /\ v = w /\ busy[w].serial # 0 => busy[w].id < x.id
  BY <1>4 DEF QueueInv, QueuesSorted, BusyFirst, Elems
<1>5. busy[w].serial # 0 => busy[w].serial % NumWorkers = w
  BY DEF QueueInv, BusyFirst
<1>6. \A v \in Workers : stage[v] = "executing" /\ v # w =>
         busy[v] # busy[w] /\ (busy[v].serial # 0 => busy[v].serial % NumWorkers = v)
  BY DEF QueueInv, BusyFirst
<1>7. busy[w] \notin Elems(delayQueue)
  BY <1>1, <1>3
<1>8. ASSUME NEW v \in Workers PROVE busy[w] \notin Elems(serialDelayQueue[v])
  BY <1>1, <1>4, <1>5
<1>9. busy[w] \notin InSerialQueues
  BY <1>8, Zenon DEF InSerialQueues
<1>10. ASSUME busy[w].serial # 0, NEW p \in Pending, p.serial = busy[w].serial
       PROVE  busy[w].id <= p.id
  <2>1. CASE p \in Elems(delayQueue)
    BY <1>3, <1>10, <2>1
  <2>2. CASE \E v \in Workers : p \in Elems(serialDelayQueue[v])
    <3>1. PICK v \in Workers : p \in Elems(serialDelayQueue[v])
      BY <2>2
    <3>2. v = w
      BY <1>4, <1>5, <1>10, <3>1
    <3>3. p \in Op /\ p.id \in Nat
      <4>1. serialDelayQueue[v] \in Seq(Op)
        BY DEF QueueInv, TypeOK
      <4>2. p \in Op
        BY <3>1, <4>1 DEF Elems
      <4> QED
        BY <4>2 DEF Op
    <3> QED
      BY <1>1, <1>4, <1>10, <3>1, <3>2, <3>3
  <2>3. CASE \E v \in Workers : stage[v] = "executing" /\ p = busy[v]
    BY <1>1, <1>5, <1>6, <1>10, <2>3
  <2> QED
    BY <2>1, <2>2, <2>3, PendingWhere
<1> QED
  BY <1>1, <1>2, <1>6, <1>7, <1>9, <1>10

\* A request takes effect and is pending no more.
LEMMA Carry ==
  ASSUME QueueInv, NEW w \in Workers, ExecuteOperation(w)
  PROVE  QueueRest' /\ Pending' = Pending \ {busy[w]}
<1>1. /\ UNCHANGED <<main, nextId, delayQueue, serialDelayQueue, busy, loop, haltMark>>
      /\ stage' = [stage EXCEPT ![w] = "executed"] /\ stage[w] = "executing"
      /\ stage \in [Workers -> Stages]
  BY DEF ExecuteOperation, queueVars, QueueInv, TypeOK
<1>2. /\ \A v \in Workers : v # w => stage'[v] = stage[v]
      /\ stage'[w] = "executed"
  BY <1>1
<1>3. QueuesSorted' /\ BusyHolds' /\ BusyFirst' /\ StartupUnserialised'
  BY <1>1, <1>2 DEF QueueInv, QueuesSorted, BusyHolds, BusyFirst, StartupUnserialised
<1>4. BodiesDrained'
  BY <1>1, <1>2 DEF QueueInv, BodiesDrained
<1>5. Pending' = Pending \ {busy[w]}
  <2>1. Elems(delayQueue') = Elems(delayQueue) /\ InSerialQueues' = InSerialQueues
    BY <1>1 DEF InSerialQueues
  <2>2. /\ busy[w] \notin Elems(delayQueue) /\ busy[w] \notin InSerialQueues
        /\ \A v \in Workers : stage[v] = "executing" /\ v # w => busy[v] # busy[w]
    BY <1>1, BusyIsNext
  <2>3. ASSUME NEW x
        PROVE  (\E v \in Workers : stage'[v] = "executing" /\ x = busy'[v]) <=>
                 /\ x # busy[w]
                 /\ \E v \in Workers : stage[v] = "executing" /\ x = busy[v]
    BY <1>1, <1>2, <2>2
  <2>4. InFlight' = InFlight \ {busy[w]}
    BY <2>3 DEF InFlight
  <2> QED
    BY <2>1, <2>2, <2>4 DEF Pending
<1> QED
  BY <1>3, <1>4, <1>5 DEF QueueRest

\* A worker posts the callback of a query and deletes the request.
LEMMA Post ==
  ASSUME QueueInv, NEW w \in Workers, PostOperation(w)
  PROVE  QueueRest' /\ Pending' = Pending
<1>1. /\ UNCHANGED <<main, nextId, delayQueue, serialDelayQueue, loop, haltMark>>
      /\ stage' = [stage EXCEPT ![w] = "idle"] /\ stage[w] = "executed"
      /\ busy' = [busy EXCEPT ![w] = NoOp]
      /\ stage \in [Workers -> Stages] /\ busy \in [Workers -> Op \cup {NoOp}]
  BY DEF PostOperation, queueVars, QueueInv, TypeOK
<1>2. /\ \A v \in Workers : v # w => stage'[v] = stage[v] /\ busy'[v] = busy[v]
      /\ stage'[w] = "idle"
  BY <1>1
<1>3. QueuesSorted' /\ BusyHolds' /\ StartupUnserialised'
  BY <1>1, <1>2 DEF QueueInv, QueuesSorted, BusyHolds, StartupUnserialised
<1>4. BusyFirst'
  BY <1>1, <1>2 DEF QueueInv, BusyFirst
<1>5. BodiesDrained'
  BY <1>1, <1>2 DEF QueueInv, BodiesDrained
<1>6. Pending' = Pending
  <2>1. ASSUME NEW x
        PROVE  (\E v \in Workers : stage'[v] = "executing" /\ x = busy'[v]) <=>
                 \E v \in Workers : stage[v] = "executing" /\ x = busy[v]
    BY <1>1, <1>2
  <2>2. InFlight' = InFlight
    BY <2>1 DEF InFlight
  <2> QED
    BY <1>1, <2>2 DEF Pending, InSerialQueues
<1> QED
  BY <1>3, <1>4, <1>5, <1>6 DEF QueueRest

\* A request that is carried out by its caller takes a number and nothing else.
LEMMA Direct ==
  ASSUME QueueInv, nextId' \in {nextId, nextId + 1},
         UNCHANGED <<main, queueVars, workerVars, haltMark>>
  PROVE  QueueRest' /\ Pending' = Pending
<1> USE DEF queueVars, workerVars
<1>1. nextId \in Nat /\ haltMark \in Nat /\ nextId <= nextId'
  BY DEF QueueInv, TypeOK
<1>2. /\ \A i \in DOMAIN delayQueue : delayQueue[i].id \in Nat
      /\ \A w \in Workers : \A i \in DOMAIN serialDelayQueue[w] :
            serialDelayQueue[w][i].id \in Nat
      /\ \A w \in Workers : stage[w] = "executing" => busy[w].id \in Nat
  BY PendingNumbers
<1>3. QueuesSorted'
  BY <1>1, <1>2 DEF QueueInv, QueuesSorted
<1>4. BusyHolds' /\ StartupUnserialised'
  BY DEF QueueInv, BusyHolds, StartupUnserialised
<1>5. BusyFirst'
  BY <1>1, <1>2 DEF QueueInv, BusyFirst
<1>6. BodiesDrained'
  BY <1>1 DEF QueueInv, BodiesDrained
<1>7. Pending' = Pending
  BY DEF Pending, InSerialQueues, InFlight
<1> QED
  BY <1>3, <1>4, <1>5, <1>6, <1>7 DEF QueueRest

\* The flags and phases of startup and shutdown.  When the last body is destroyed
\* every queue is empty.
LEMMA Phase ==
  ASSUME QueueInv,
         \/ AllowAsyncTransactions \/ StopServer \/ JoinThreads \/ HaltDone
         \/ DeleteConnections \/ \E w \in Workers : Stop(w) \/ DestroyBody(w)
  PROVE  QueueRest' /\ Pending' = Pending
<1>1. UNCHANGED <<nextId, delayQueue, serialDelayQueue, busy, stage>>
  BY DEF AllowAsyncTransactions, StopServer, JoinThreads, HaltDone, DeleteConnections,
         Stop, DestroyBody, queueVars, workerVars
<1>2. QueuesSorted' /\ BusyHolds' /\ BusyFirst'
  BY <1>1 DEF QueueInv, QueuesSorted, BusyHolds, BusyFirst
<1>3. StartupUnserialised'
  <2>1. main' = "startup" => main = "startup"
    BY DEF AllowAsyncTransactions, StopServer, JoinThreads, HaltDone, DeleteConnections,
           Stop, DestroyBody
  <2> QED
    BY <1>1, <2>1 DEF QueueInv, StartupUnserialised
<1>4. BodiesDrained'
  <2> USE DEF queueVars, workerVars
  <2>1. CASE AllowAsyncTransactions
    BY <2>1 DEF AllowAsyncTransactions, QueueInv, BodiesDrained
  <2>2. CASE StopServer
    BY <2>2 DEF StopServer, QueueInv, BodiesDrained
  <2>3. CASE JoinThreads
    BY <2>3 DEF JoinThreads, QueueInv, BodiesDrained
  <2>4. CASE HaltDone
    <3>1. Workers # {}
      BY DEF Workers
    <3>2. delayQueue = << >> /\ \A w \in Workers : loop[w] = "destroyed"
      BY <2>4, <3>1 DEF HaltDone, QueueInv, BodiesDrained
    <3>3. nextId \in Nat
      BY DEF QueueInv, TypeOK
    <3> QED
      BY <2>4, <3>2, <3>3 DEF HaltDone, QueueInv, BodiesDrained
  <2>5. CASE DeleteConnections
    BY <2>5 DEF DeleteConnections, QueueInv, BodiesDrained
  <2>6. CASE \E w \in Workers : Stop(w)
    BY <2>6 DEF Stop, QueueInv, BodiesDrained
  <2>7. CASE \E w \in Workers : DestroyBody(w)
    <3>1. PICK w \in Workers : DestroyBody(w)
      BY <2>7
    <3>2. /\ loop' = [loop EXCEPT ![w] = "shared"] /\ loop \in [Workers -> Loops]
          /\ main = "clearing" /\ main' = main
      BY <3>1 DEF DestroyBody, QueueInv, TypeOK
    <3> QED
      BY <1>1, <3>2 DEF QueueInv, BodiesDrained
  <2> QED
    BY <2>1, <2>2, <2>3, <2>4, <2>5, <2>6, <2>7
<1>5. Pending' = Pending
  BY <1>1 DEF Pending, InSerialQueues, InFlight
<1> QED
  BY <1>2, <1>3, <1>4, <1>5 DEF QueueRest

-----------------------------------------------------------------------------
(* Every step keeps QueueInv and is a step of the store or leaves it alone. *)

\* An effect on the calling thread is a request carried out at once, provided that
\* it has no serial id or nothing with its serial id is pending.
LEMMA DirectEffect ==
  ASSUME QueueInv, NEW s \in Serials, NEW k \in Kinds, Effect(NewOp(s, k)),
         s = 0 \/ main = "startup",
         nextId' = nextId + 1, UNCHANGED <<main, queueVars, workerVars, haltMark>>
  PROVE  QueueRest' /\ Store!SubmitAndPerform(s, k)
<1>1. QueueRest' /\ Pending' = Pending
  BY Direct
<1>2. NewOp(s, k) \in Op /\ NewOp(s, k).serial = s
  BY NewOpType DEF QueueInv
<1>3. \E ok \in BOOLEAN : log' = Append(log, [op |-> NewOp(s, k), ok |-> ok])
  BY <1>2, EffectType DEF QueueInv
<1>4. main = "startup" => \A p \in Pending : p.serial = 0
  <2> SUFFICES ASSUME main = "startup", NEW p \in Pending PROVE p.serial = 0
    OBVIOUS
  <2>1. CASE p \in Elems(delayQueue)
    BY <2>1 DEF QueueInv, QueuesSorted, Elems
  <2>2. CASE \E w \in Workers : p \in Elems(serialDelayQueue[w])
    BY <2>2 DEF QueueInv, StartupUnserialised, Elems
  <2>3. CASE \E w \in Workers : stage[w] = "executing" /\ p = busy[w]
    BY <2>3 DEF QueueInv, StartupUnserialised
  <2> QED
    BY <2>1, <2>2, <2>3, PendingWhere
<1>5. Store!IsNext(NewOp(s, k))
  BY <1>2, <1>4 DEF Store!IsNext
<1> QED
  BY <1>1, <1>3, <1>5 DEF Store!SubmitAndPerform, NewOp

\* A request that goes to a queue is a submission.
LEMMA QueuedShared ==
  ASSUME QueueInv, NEW k \in Kinds, AddToDelayQueue(NewOp(0, k)), main # "clearing",
         nextId' = nextId + 1, UNCHANGED <<main, workerVars, log, haltMark>>
  PROVE  QueueRest' /\ Store!Submit(0, k)
<1>1. NewOp(0, k) \in Op /\ NewOp(0, k).serial = 0 /\ NewOp(0, k).id = nextId
  BY NewOpType DEF QueueInv
<1>2. QueueRest' /\ Pending' = Pending \cup {NewOp(0, k)}
  BY <1>1, AddShared
<1> QED
  BY <1>2 DEF Store!Submit, NewOp

\* AddToSerialDelayQueue is a submission to the abstract store, whichever of the queues
\* the request goes to, and keeps the queues sorted.
LEMMA QueuedSerial ==
  ASSUME QueueInv, CanSubmit, NEW s \in Serials, NEW k \in Kinds,
         AddToSerialDelayQueue(NewOp(s, k)), s # 0 => main # "startup",
         nextId' = nextId + 1, UNCHANGED <<main, workerVars, log, haltMark>>
  PROVE  QueueRest' /\ Store!Submit(s, k)
<1> DEFINE op == NewOp(s, k)
<1>1. op \in Op /\ op.serial = s /\ op.id = nextId
  BY NewOpType DEF QueueInv
<1>2. main \in {"startup", "running", "stopping"}
  BY DEF CanSubmit
<1>3. QueueRest' /\ Pending' = Pending \cup {op}
  <2> HIDE DEF op
  <2>0. AddToSerialDelayQueue(op)
    BY DEF op
  <2>1. CASE s = 0
    <3>1. AddToDelayQueue(op)
      BY <1>1, <2>0, <2>1, SerialEnqueue DEF QueueInv
    <3> QED
      BY <1>1, <1>2, <2>1, <3>1, AddShared
  <2>2. CASE s # 0
    <3>1. /\ s % NumWorkers \in Workers /\ delayQueue' = delayQueue
          /\ serialDelayQueue' = [serialDelayQueue EXCEPT ![s % NumWorkers]
                                     = Append(serialDelayQueue[s % NumWorkers], op)]
      BY <1>1, <2>0, <2>2, SerialEnqueue DEF QueueInv
    <3>2. main \in {"running", "stopping"}
      BY <1>2, <2>2
    <3> QED
      BY <1>1, <2>2, <3>1, <3>2, AddSerial
  <2> QED
    BY <2>1, <2>2
<1> QED
  BY <1>3 DEF Store!Submit, NewOp

\* Every call of a thread.
LEMMA SubmissionStep ==
  ASSUME QueueInv, Submission
  PROVE  QueueRest' /\ (Store!Next \/ UNCHANGED Store!vars)
<1> PICK t \in Threads :
      \/ Execute(t) \/ ExecuteInTransaction(t)
      \/ \E s \in Serials : BeginTransaction(t, s)
      \/ CommitTransaction(t) \/ CommitTransactionDirect(t)
      \/ RollbackTransaction(t)
      \/ \E k \in QueryKinds : AsyncQuery(t, k)
      \/ \E s \in Serials, k \in QueryKinds : DelayQueryHolder(t, s, k)
  BY DEF Submission
<1>0. 0 \in Serials /\ "write" \in Kinds /\ QueryKinds \subseteq Kinds /\ TypeOK
  BY DEF Kinds, QueueInv
<1>1. CASE Execute(t)
  <2>1. CASE main = "startup"
    BY <1>0, <1>1, <2>1, DirectEffect DEF Execute, Store!Next
  <2>2. CASE main # "startup"
    BY <1>0, <1>1, <2>2, QueuedShared DEF Execute, CanSubmit, Store!Next
  <2> QED
    BY <2>1, <2>2
<1>2. CASE \/ ExecuteInTransaction(t) \/ RollbackTransaction(t)
           \/ \E s \in Serials : BeginTransaction(t, s)
  <2>1. UNCHANGED <<main, nextId, queueVars, workerVars, log, haltMark>>
    BY <1>2 DEF ExecuteInTransaction, RollbackTransaction, BeginTransaction
  <2> QED
    BY <2>1, Direct DEF Store!vars
<1>3. CASE CommitTransaction(t)
  <2>1. /\ trans[t].serial \in Serials /\ trans[t].kind \in Kinds
        /\ TransOp(t) = NewOp(trans[t].serial, trans[t].kind)
    BY <1>0, <1>3, TransOpType DEF CommitTransaction
  <2>2. CASE main = "startup"
    BY <1>3, <2>1, <2>2, DirectEffect DEF CommitTransaction, Store!Next
  <2>3. CASE main # "startup"
    BY <1>3, <2>1, <2>3, QueuedSerial DEF CommitTransaction, Store!Next
  <2> QED
    BY <2>2, <2>3
<1>4. CASE CommitTransactionDirect(t)
  <2>1. /\ trans[t].serial \in Serials /\ trans[t].kind \in Kinds
        /\ TransOp(t) = NewOp(trans[t].serial, trans[t].kind)
    BY <1>0, <1>4, TransOpType DEF CommitTransactionDirect
  <2> QED
    BY <1>4, <2>1, DirectEffect DEF CommitTransactionDirect, Store!Next
<1>5. CASE \E k \in QueryKinds : AsyncQuery(t, k)
  BY <1>0, <1>5, QueuedShared DEF AsyncQuery, CanSubmit, Store!Next
<1>6. CASE \E s \in Serials, k \in QueryKinds : DelayQueryHolder(t, s, k)
  BY <1>0, <1>6, QueuedSerial DEF DelayQueryHolder, Store!Next
<1> QED
  BY <1>1, <1>2, <1>3, <1>4, <1>5, <1>6

\* Every step of a worker: only the execution of a request is visible.
LEMMA WorkerStep ==
  ASSUME QueueInv, NEW w \in Workers, Worker(w)
  PROVE  QueueRest' /\ (Store!Next \/ UNCHANGED Store!vars)
<1>1. CASE RunTop(w) \/ NextDelayedOperation(w) \/ NextSerialOperation(w) \/ PostOperation(w)
  <2>1. QueueRest' /\ Pending' = Pending
    BY <1>1, MoveOn, TakeShared, TakeSerial, Post
  <2>2. nextId' = nextId /\ log' = log
    BY <1>1 DEF RunTop, NextDelayedOperation, NextSerialOperation, PostOperation
  <2> QED
    BY <2>1, <2>2 DEF Store!vars
<1>2. CASE ExecuteOperation(w)
  <2>1. QueueRest' /\ Pending' = Pending \ {busy[w]}
    BY <1>2, Carry
  <2>2. /\ busy[w] \in Op /\ busy[w] \in Pending
        /\ busy[w].serial # 0 =>
              \A p \in Pending : p.serial = busy[w].serial => busy[w].id <= p.id
    BY <1>2, BusyIsNext DEF ExecuteOperation
  <2>3. \E ok \in BOOLEAN : log' = Append(log, [op |-> busy[w], ok |-> ok])
    BY <1>2, <2>2, EffectType DEF ExecuteOperation, QueueInv
  <2>4. Store!Perform(busy[w])
    BY <1>2, <2>1, <2>2, <2>3 DEF ExecuteOperation, Store!Perform, Store!IsNext
  <2> QED
    BY <2>1, <2>2, <2>4 DEF Store!Next
<1> QED
  BY <1>1, <1>2 DEF Worker, ProcessRequests

\* The world thread, startup and shutdown: a callback cancelled by StopServer may
\* submit, nothing else is visible.
LEMMA OtherStep ==
  ASSUME QueueInv,
         \/ Update \/ RunSafeCallback \/ AllowAsyncTransactions \/ StopServer
         \/ Shutdown \/ UNCHANGED vars
  PROVE  QueueRest' /\ (Store!Next \/ UNCHANGED Store!vars)
<1>1. CASE Update \/ RunSafeCallback
  <2>1. UNCHANGED <<main, nextId, queueVars, workerVars, log, haltMark>>
    BY <1>1, UpdateType DEF QueueInv
  <2> QED
    BY <2>1, Direct DEF Store!vars
<1>2. CASE UNCHANGED vars
  BY <1>2, Direct DEF vars, Store!vars
<1>3. CASE CancelAll
  <2>1. CASE UNCHANGED <<nextId, queueVars>>
    BY <1>3, <2>1, Direct DEF CancelAll, Store!vars
  <2>2. CASE AddToDelayQueue(NewOp(0, "write")) /\ nextId' = nextId + 1
    <3>1. 0 \in Serials /\ "write" \in Kinds
      BY DEF Kinds
    <3> QED
      BY <1>3, <2>2, <3>1, QueuedShared DEF CancelAll, Store!Next
  <2> QED
    BY <1>3, <2>1, <2>2 DEF CancelAll
<1>4. CASE \/ AllowAsyncTransactions \/ StopServer \/ JoinThreads \/ HaltDone
           \/ DeleteConnections \/ \E w \in Workers : Stop(w) \/ DestroyBody(w)
  <2>1. nextId' = nextId /\ log' = log
    BY <1>4 DEF AllowAsyncTransactions, StopServer, JoinThreads, HaltDone,
                DeleteConnections, Stop, DestroyBody
  <2> QED
    BY <1>4, <2>1, Phase DEF Store!vars
<1> QED
  BY <1>1, <1>2, <1>3, <1>4 DEF Shutdown

\* QueueInv is inductive and every step is a step of the store.
LEMMA Step ==
  ASSUME QueueInv, [Next]_vars
  PROVE  QueueInv' /\ [Store!Next]_(Store!vars)
<1>1. TypeOK /\ BusyHolds
  BY DEF QueueInv
<1>2. CASE Submission
  BY <1>1, <1>2, SubmissionType, SubmissionStep DEF QueueInv, QueueRest
<1>3. CASE \E w \in Workers : Worker(w)
  BY <1>1, <1>3, WorkerType, WorkerStep DEF QueueInv, QueueRest
<1>4. CASE Update \/ RunSafeCallback
  BY <1>1, <1>4, UpdateType, OtherStep DEF QueueInv, QueueRest
<1>5. CASE AllowAsyncTransactions \/ StopServer \/ Shutdown
  BY <1>1, <1>5, LifecycleType, OtherStep DEF QueueInv, QueueRest
<1>6. CASE UNCHANGED vars
  <2>1. TypeOK'
    BY <1>1, <1>6 DEF vars, queueVars, workerVars, resultVars, TypeOK
  <2> QED
    BY <1>6, <2>1, OtherStep DEF QueueInv, QueueRest
<1> QED
  BY <1>2, <1>3, <1>4, <1>5, <1>6 DEF Next, Terminated

\* Initially the queues are empty.
LEMMA Start == Init => QueueInv /\ Store!Init
<1> SUFFICES ASSUME Init PROVE QueueInv /\ Store!Init
  OBVIOUS
<1>1. TypeOK
  BY DEF Init, TypeOK, Mains, Loops, Stages, Pumps
<1>2. QueuesSorted /\ BusyHolds /\ BusyFirst /\ StartupUnserialised /\ BodiesDrained
  BY DEF Init, QueuesSorted, BusyHolds, BusyFirst, StartupUnserialised, BodiesDrained
<1>3. Pending = {}
  <2>1. \A w \in Workers : serialDelayQueue[w] = << >> /\ stage[w] = "idle"
    BY DEF Init
  <2>2. Elems(<< >>) = {}
    BY DEF Elems
  <2>3. ASSUME NEW x PROVE x \notin Pending
    BY <2>1, <2>2, PendingWhere DEF Init
  <2> QED
    BY <2>3
<1> QED
  BY <1>1, <1>2, <1>3 DEF QueueInv, Store!Init, Init

-----------------------------------------------------------------------------

\* The inductive invariant of the queues and workers holds for every number of
\* workers, threads and requests; in particular the layer is type correct.
THEOREM QueuesStaySorted == Spec => []QueueInv
  BY Start, Step, PTL DEF Spec

\* Every variable keeps its type.
THEOREM TypeCorrect == Spec => []TypeOK
<1>1. QueueInv => TypeOK
  BY DEF QueueInv
<1> QED
  BY QueuesStaySorted, <1>1, PTL

\* The shared queue, the serial queues and the workers of SqlDelayThread implement
\* the abstract store, whatever the interleaving of calls, workers and shutdown.
THEOREM LayerImplementsStore == Spec => ImplementsStore
  BY Start, Step, PTL DEF Spec, ImplementsStore, Store!Spec

\* When HaltDelayThread has returned, everything submitted before has been carried
\* out: the destructors drain what was queued while the threads were stopping.
THEOREM HaltDrains == Spec => []DrainedOnHalt
<1>1. QueueInv => DrainedOnHalt
  <2> SUFFICES ASSUME QueueInv, main \in {"halted", "stopped"}, NEW op \in Pending
               PROVE  op.id >= haltMark
    BY DEF DrainedOnHalt
  <2>1. \A w \in Workers : serialDelayQueue[w] = << >> /\ stage[w] = "idle"
    BY DEF QueueInv, BodiesDrained
  <2>2. op \in Elems(delayQueue)
    BY <2>1, PendingWhere DEF Elems
  <2> QED
    BY <2>2 DEF QueueInv, BodiesDrained, Elems
<1> QED
  BY QueuesStaySorted, <1>1, PTL

StoreProofs == INSTANCE SerialStoreProofs WITH pending <- Pending

\* Requests of one serial id take effect in the order of their submission, none is
\* lost and none is carried out twice: what SerialStore promises carries over.
THEOREM LayerKeepsOrder == Spec => [](SerialOrder /\ ExactlyOnce)
<1>1. Store!Spec => StoreProofs!Spec
  <2>1. Store!Init => StoreProofs!Init
    BY DEF Store!Init, StoreProofs!Init
  <2>2. [Store!Next]_(Store!vars) => [StoreProofs!Next]_(StoreProofs!vars)
    BY DEF Store!Next, StoreProofs!Next, Store!vars, StoreProofs!vars,
           Store!Submit, StoreProofs!Submit, Store!Perform, StoreProofs!Perform,
           Store!SubmitAndPerform, StoreProofs!SubmitAndPerform,
           Store!IsNext, StoreProofs!IsNext
  <2> QED
    BY <2>1, <2>2, PTL DEF Store!Spec, StoreProofs!Spec
<1>2. StoreProofs!Spec => [](StoreProofs!InOrder /\ StoreProofs!Once)
  BY StoreProofs!StoreKeepsOrder
<1>3. StoreProofs!InOrder /\ StoreProofs!Once => SerialOrder /\ ExactlyOnce
  BY DEF StoreProofs!InOrder, StoreProofs!Once, SerialOrder, ExactlyOnce
<1> QED
  BY LayerImplementsStore, <1>1, <1>2, <1>3, PTL DEF ImplementsStore

\* Requests of one serial id take effect in the order in which they were submitted,
\* although several workers carry requests out at the same time.
THEOREM EffectsInOrder == Spec => []SerialOrder
  BY LayerKeepsOrder, PTL

\* No request is lost and none is carried out twice on its way through the shared and
\* the serial queues, shutdown included.
THEOREM EffectsOnce == Spec => []ExactlyOnce
  BY LayerKeepsOrder, PTL

-----------------------------------------------------------------------------
(***************************************************************************)
(* Callbacks                                                               *)
(*                                                                         *)
(* A query that took effect travels from its worker through the result     *)
(* queue to the waiting queries or the callback pool and then to its       *)
(* caller.  On the whole way, what is further on belongs to an older       *)
(* request, as far as unsafe queries of one serial id are concerned.       *)
(***************************************************************************)

\* The callback a may run before b: they are different requests, and a is the older one
\* where the order matters.
Precedes(a, b) ==
    /\ a.id # b.id
    /\ ( /\ a.serial = b.serial /\ a.serial # 0
         /\ a.kind = "unsafeQuery" /\ b.kind = "unsafeQuery" ) => a.id < b.id

Ahead(A, B) == \A a \in A, b \in B : Precedes(a, b)
InOrder(q) == \A i, j \in DOMAIN q : i < j => Precedes(q[i], q[j])

Logged == {log[i].op : i \in DOMAIN log}
Executed == {busy[w] : w \in {v \in Workers : stage[v] = "executed"}}
Posted == Elems(delivered) \cup Elems(waiting) \cup Elems(resultQueue)

\* The three queues are in order, one after the other.  CancelAll passes by the waiting
\* callbacks, but then they never run: after StopServer there is no Update.
Halted == main \in {"halted", "stopped"}

QueuesInOrder ==
    /\ InOrder(delivered) /\ InOrder(waiting) /\ InOrder(resultQueue)
    /\ Ahead(Elems(delivered), Elems(resultQueue))
    /\ ~Halted => /\ Ahead(Elems(delivered), Elems(waiting))
                  /\ Ahead(Elems(waiting), Elems(resultQueue))
    /\ pump # "idle" => main = "running"

\* The callbacks of the pool may run at any time.
PoolInOrder ==
    /\ \A cb \in pool : cb.kind # "unsafeQuery"
    /\ \A a, b \in pool : a # b => Precedes(a, b)
    /\ Ahead(pool, Posted) /\ Ahead(Posted, pool)

\* What the workers have executed and not yet posted comes last; two workers do not
\* serve the same serial id.
ExecutedInOrder ==
    /\ Ahead(Posted \cup pool, Executed)
    /\ \A w \in Workers : stage[w] = "executed" /\ busy[w].serial # 0 =>
          busy[w].serial % NumWorkers = w
    /\ \A v, w \in Workers : stage[v] = "executed" /\ stage[w] = "executed" /\ v # w =>
          Precedes(busy[v], busy[w])

CallbackInv ==
    /\ QueuesInOrder /\ PoolInOrder /\ ExecutedInOrder
    /\ Posted \cup pool \cup Executed \subseteq Logged

\* Queues in order stay so when the first one leaves or a later one is added.
LEMMA InOrderTail ==
  ASSUME NEW q \in Seq(Op), q # << >>, InOrder(q)
  PROVE  /\ InOrder(Tail(q)) /\ Ahead({Head(q)}, Elems(Tail(q)))
         /\ Elems(q) = {Head(q)} \cup Elems(Tail(q))
<1>1. /\ 1 \in DOMAIN q /\ Head(q) = q[1] /\ DOMAIN q = 1 .. Len(q)
      /\ \A i \in DOMAIN Tail(q) : i \in Nat /\ i >= 1 /\ i + 1 \in DOMAIN q /\ Tail(q)[i] = q[i + 1]
  OBVIOUS
<1>2. InOrder(Tail(q))
  <2> SUFFICES ASSUME NEW i \in DOMAIN Tail(q), NEW j \in DOMAIN Tail(q), i < j
               PROVE  Precedes(Tail(q)[i], Tail(q)[j])
    BY DEF InOrder
  <2>1. i + 1 < j + 1 /\ i + 1 \in DOMAIN q /\ j + 1 \in DOMAIN q
    BY <1>1
  <2>2. Precedes(q[i + 1], q[j + 1])
    BY <2>1 DEF InOrder
  <2> QED
    BY <1>1, <2>2
<1>3. ASSUME NEW i \in DOMAIN Tail(q)  PROVE  Precedes(Head(q), Tail(q)[i])
  <2>1. 1 < i + 1 /\ i + 1 \in DOMAIN q
    BY <1>1
  <2>2. Precedes(q[1], q[i + 1])
    BY <1>1, <2>1 DEF InOrder
  <2> QED
    BY <1>1, <2>2
<1> QED
  BY <1>2, <1>3, ElemsDequeue DEF Ahead, Elems

\* An operation with the next serial id is queued last.
LEMMA InOrderAppend ==
  ASSUME NEW q \in Seq(Op), NEW x \in Op, InOrder(q), Ahead(Elems(q), {x})
  PROVE  InOrder(Append(q, x)) /\ Elems(Append(q, x)) = Elems(q) \cup {x}
<1>1. /\ DOMAIN Append(q, x) = DOMAIN q \cup {Len(q) + 1}
      /\ \A i \in DOMAIN q : Append(q, x)[i] = q[i] /\ i < Len(q) + 1
      /\ Append(q, x)[Len(q) + 1] = x
  BY Enqueue
<1>2. ASSUME NEW i \in DOMAIN Append(q, x), NEW j \in DOMAIN Append(q, x), i < j
      PROVE  Precedes(Append(q, x)[i], Append(q, x)[j])
  <2>1. i \in DOMAIN q
    <3>1. Len(q) + 1 \in Nat /\ \A k \in DOMAIN q : k \in Nat
      OBVIOUS
    <3> QED  BY <1>1, <1>2, <3>1
  <2>2. CASE j \in DOMAIN q
    <3>1. Precedes(q[i], q[j])
      BY <1>2, <2>1, <2>2 DEF InOrder
    <3> QED  BY <1>1, <2>1, <2>2, <3>1
  <2>3. CASE j = Len(q) + 1
    <3>1. Precedes(q[i], x)
      BY <2>1 DEF Ahead, Elems
    <3> QED  BY <1>1, <2>1, <2>3, <3>1
  <2> QED
    BY <1>1, <2>2, <2>3
<1>3. InOrder(Append(q, x))
  BY <1>2 DEF InOrder
<1> QED
  BY <1>3, ElemsAppend

\* A callback that is not unsafe may change places.
LEMMA SafeEitherWay ==
  ASSUME NEW a, NEW b, a.kind # "unsafeQuery" \/ b.kind # "unsafeQuery", Precedes(a, b)
  PROVE  Precedes(b, a)
BY DEF Precedes

\* The log only grows.
LEMMA LoggedGrows ==
  ASSUME TypeOK, NEW op \in Op, NEW ok \in BOOLEAN, log' = Append(log, [op |-> op, ok |-> ok])
  PROVE  Logged' = Logged \cup {op}
<1>1. log \in Seq(Entry) /\ [op |-> op, ok |-> ok] \in Entry
  BY DEF TypeOK, Entry
<1>2. /\ DOMAIN log' = DOMAIN log \cup {Len(log) + 1}
      /\ \A i \in DOMAIN log : log'[i] = log[i]
      /\ log'[Len(log) + 1] = [op |-> op, ok |-> ok]
  BY <1>1, Enqueue
<1>3. log'[Len(log) + 1].op = op
  BY <1>2
<1>4. \A i \in DOMAIN log : log'[i].op = log[i].op
  BY <1>2
<1>5. Logged' = {log'[i].op : i \in DOMAIN log \cup {Len(log) + 1}}
  BY <1>2 DEF Logged
<1> QED
  BY <1>3, <1>4, <1>5 DEF Logged

\* A step that moves no callback.
LEMMA NothingMoves ==
  ASSUME CallbackInv, UNCHANGED resultVars, Logged \subseteq Logged',
         Halted => Halted', main = "running" => main' = "running" \/ pump = "idle",
         \A w \in Workers : /\ stage'[w] = "executed" <=> stage[w] = "executed"
                            /\ stage[w] = "executed" => busy'[w] = busy[w]
  PROVE  CallbackInv'
<1>1. Executed' = Executed
  <2>1. ASSUME NEW x  PROVE  x \in Executed' <=> x \in Executed
    BY DEF Executed
  <2> QED  BY <2>1
<1>2. UNCHANGED <<resultQueue, waiting, pool, delivered, pump>>
  BY DEF resultVars
<1>3. Posted' = Posted
  BY <1>2 DEF Posted
<1>4. QueuesInOrder' /\ PoolInOrder'
  BY <1>2, <1>3 DEF CallbackInv, QueuesInOrder, PoolInOrder
<1>5. ExecutedInOrder'
  BY <1>1, <1>2, <1>3 DEF CallbackInv, ExecutedInOrder
<1> QED
  BY <1>1, <1>2, <1>3, <1>4, <1>5 DEF CallbackInv

\* A query that takes effect is younger than what took effect before.
LEMMA ExecuteKeepsOrder ==
  ASSUME QueueInv, SerialOrder, ExactlyOnce, CallbackInv, NEW w \in Workers, ExecuteOperation(w)
  PROVE  CallbackInv'
<1>1. /\ stage[w] = "executing" /\ stage' = [stage EXCEPT ![w] = "executed"]
      /\ UNCHANGED <<main, busy, resultQueue, waiting, pool, delivered, pump>>
      /\ stage \in [Workers -> Stages]
  BY DEF ExecuteOperation, resultVars, QueueInv, TypeOK
<1>2. stage'[w] = "executed" /\ \A v \in Workers : v # w => stage'[v] = stage[v]
  BY <1>1
<1>3. busy[w] \in Op /\ busy[w] \in Pending
  BY <1>1, BusyIsNext
<1>4. Logged' = Logged \cup {busy[w]}
  <2>1. PICK ok \in BOOLEAN : log' = Append(log, [op |-> busy[w], ok |-> ok])
    BY <1>3, EffectType DEF ExecuteOperation, QueueInv
  <2> QED  BY <1>3, <2>1, LoggedGrows DEF QueueInv
<1>5. ASSUME NEW a \in Logged  PROVE  Precedes(a, busy[w])
  <2>1. PICK i \in DOMAIN log : a = log[i].op
    BY DEF Logged
  <2>2. a.id # busy[w].id
    BY <1>3, <2>1 DEF ExactlyOnce
  <2>3. a.serial = busy[w].serial /\ busy[w].serial # 0 => a.id < busy[w].id
    BY <1>3, <2>1 DEF SerialOrder
  <2> QED  BY <2>2, <2>3 DEF Precedes
<1>6. Executed' = Executed \cup {busy[w]}
  <2>1. ASSUME NEW x  PROVE  x \in Executed' <=> x \in Executed \cup {busy[w]}
    BY <1>1, <1>2 DEF Executed
  <2> QED  BY <2>1
<1>7. Posted' = Posted /\ pool' = pool
  BY <1>1 DEF Posted
<1>8. QueuesInOrder' /\ PoolInOrder'
  BY <1>1, <1>7 DEF CallbackInv, QueuesInOrder, PoolInOrder, Halted
<1>9. Ahead(Posted \cup pool, Executed \cup {busy[w]})
  BY <1>5 DEF CallbackInv, ExecutedInOrder, Ahead
<1>10. busy[w].serial # 0 => busy[w].serial % NumWorkers = w
  BY <1>1 DEF QueueInv, BusyFirst
<1>11. ASSUME NEW v \in Workers, stage[v] = "executed", v # w
       PROVE  Precedes(busy[v], busy[w]) /\ Precedes(busy[w], busy[v])
  <2>1. busy[v] \in Logged
    BY <1>11 DEF CallbackInv, Executed
  <2>2. Precedes(busy[v], busy[w])
    BY <1>5, <2>1
  <2>3. ~(busy[v].serial = busy[w].serial /\ busy[w].serial # 0)
    BY <1>10, <1>11 DEF CallbackInv, ExecutedInOrder
  <2> QED  BY <2>2, <2>3 DEF Precedes
<1>12. ExecutedInOrder'
  BY <1>1, <1>2, <1>6, <1>7, <1>9, <1>10, <1>11 DEF CallbackInv, ExecutedInOrder
<1> QED
  BY <1>4, <1>6, <1>7, <1>8, <1>12 DEF CallbackInv

\* A worker that posts its callback puts it behind those posted before it.
LEMMA PostKeepsOrder ==
  ASSUME QueueInv, CallbackInv, NEW w \in Workers, PostOperation(w)
  PROVE  CallbackInv'
<1>1. /\ stage[w] = "executed" /\ stage' = [stage EXCEPT ![w] = "idle"]
      /\ busy' = [busy EXCEPT ![w] = NoOp]
      /\ UNCHANGED <<main, log, waiting, pool, delivered, pump>>
      /\ stage \in [Workers -> Stages] /\ busy \in [Workers -> Op \cup {NoOp}]
  BY DEF PostOperation, QueueInv, TypeOK
<1>2. /\ stage'[w] = "idle"
      /\ \A v \in Workers : v # w => stage'[v] = stage[v] /\ busy'[v] = busy[v]
  BY <1>1
<1>3. busy[w] \in Op /\ resultQueue \in Seq(Op)
  BY <1>1 DEF QueueInv, BusyHolds, TypeOK
<1>4. Executed' \subseteq Executed /\ busy[w] \in Executed /\ Ahead({busy[w]}, Executed')
  <2>1. ASSUME NEW x \in Executed'
        PROVE  x \in Executed /\ Precedes(busy[w], x)
    <3>1. PICK v \in Workers : stage'[v] = "executed" /\ x = busy'[v]
      BY DEF Executed
    <3>2. v # w /\ stage[v] = "executed" /\ x = busy[v]
      BY <1>2, <3>1
    <3> QED  BY <1>1, <3>2 DEF Executed, CallbackInv, ExecutedInOrder
  <2>2. busy[w] \in Executed
    BY <1>1 DEF Executed
  <2> QED  BY <2>1, <2>2 DEF Ahead
<1>5. /\ InOrder(resultQueue') /\ Elems(resultQueue') \subseteq Elems(resultQueue) \cup {busy[w]}
  <2>1. Ahead(Elems(resultQueue), {busy[w]})
    BY <1>4 DEF CallbackInv, ExecutedInOrder, Ahead, Posted
  <2>2. CASE resultQueue' = Append(resultQueue, busy[w])
    BY <1>3, <2>1, <2>2, InOrderAppend DEF CallbackInv, QueuesInOrder
  <2>3. CASE resultQueue' = resultQueue
    BY <2>3 DEF CallbackInv, QueuesInOrder
  <2> QED  BY <2>2, <2>3 DEF PostOperation
<1>6. Posted' \subseteq Posted \cup {busy[w]}
  BY <1>1, <1>5 DEF Posted
<1>7. QueuesInOrder'
  <2>1. Ahead(Elems(delivered), {busy[w]}) /\ Ahead(Elems(waiting), {busy[w]})
    BY <1>4 DEF CallbackInv, ExecutedInOrder, Ahead, Posted
  <2> QED  BY <1>1, <1>5, <2>1 DEF CallbackInv, QueuesInOrder, Ahead, Halted
<1>8. PoolInOrder'
  <2>1. \A cb \in pool : Precedes(cb, busy[w]) /\ Precedes(busy[w], cb)
    BY <1>4, SafeEitherWay DEF CallbackInv, ExecutedInOrder, PoolInOrder, Ahead
  <2> QED  BY <1>1, <1>6, <2>1 DEF CallbackInv, PoolInOrder, Ahead
<1>9. ExecutedInOrder'
  <2>1. Ahead(Posted' \cup pool', Executed')
    BY <1>1, <1>4, <1>6 DEF CallbackInv, ExecutedInOrder, Ahead
  <2> QED  BY <1>2, <2>1 DEF CallbackInv, ExecutedInOrder
<1>10. Logged' = Logged
  BY <1>1 DEF Logged
<1> QED
  BY <1>1, <1>4, <1>6, <1>7, <1>8, <1>9, <1>10 DEF CallbackInv

\* A step of the world thread or of the pool that leaves the workers and the log alone.
\* A callback that is further on than before keeps its place among the others.
LEMMA WorkersApart ==
  ASSUME CallbackInv, UNCHANGED <<log, workerVars>>,
         Posted' \cup pool' \subseteq Posted \cup pool, QueuesInOrder', PoolInOrder'
  PROVE  CallbackInv'
<1>1. Executed' = Executed /\ Logged' = Logged
  BY DEF Executed, Logged, workerVars
<1>2. ExecutedInOrder'
  BY <1>1 DEF CallbackInv, ExecutedInOrder, Ahead, workerVars
<1> QED
  BY <1>1, <1>2 DEF CallbackInv

\* Update sorts the results: the unsafe ones wait, the others go to the pool.
LEMMA SortKeepsOrder ==
  ASSUME QueueInv, CallbackInv, UpdateSort, resultQueue # << >>
  PROVE  CallbackInv'
<1> DEFINE cb == Head(resultQueue)
<1>1. /\ resultQueue \in Seq(Op) /\ waiting \in Seq(Op) /\ cb \in Op
      /\ UNCHANGED <<main, log, workerVars, delivered, pump>>
      /\ resultQueue' = Tail(resultQueue)
      /\ main = "running" /\ ~Halted /\ ~Halted'
  BY Dequeue DEF QueueInv, TypeOK, UpdateSort, CallbackInv, QueuesInOrder, Halted
<1>2. /\ InOrder(resultQueue') /\ Ahead({cb}, Elems(resultQueue'))
      /\ Elems(resultQueue) = {cb} \cup Elems(resultQueue')
  BY <1>1, InOrderTail DEF CallbackInv, QueuesInOrder
<1>3. CASE cb.kind = "unsafeQuery"
  <2>1. waiting' = Append(waiting, cb) /\ pool' = pool
    BY <1>3 DEF UpdateSort
  <2>2. Ahead(Elems(waiting), {cb}) /\ Ahead(Elems(delivered), {cb})
    BY <1>1, <1>2 DEF CallbackInv, QueuesInOrder, Ahead
  <2>3. InOrder(waiting') /\ Elems(waiting') = Elems(waiting) \cup {cb}
    BY <1>1, <2>1, <2>2, InOrderAppend DEF CallbackInv, QueuesInOrder
  <2> HIDE DEF cb
  <2>4. Posted' = Posted
    BY <1>1, <1>2, <2>3 DEF Posted
  <2>5. QueuesInOrder'
    BY <1>1, <1>2, <2>2, <2>3 DEF CallbackInv, QueuesInOrder, Ahead
  <2>6. PoolInOrder'
    BY <2>1, <2>4 DEF CallbackInv, PoolInOrder
  <2> QED  BY <1>1, <2>1, <2>4, <2>5, <2>6, WorkersApart
<1>4. CASE cb.kind # "unsafeQuery"
  <2>1. waiting' = waiting /\ pool' = pool \cup {cb}
    BY <1>4 DEF UpdateSort
  <2> HIDE DEF cb
  <2>2. Posted' = Elems(delivered) \cup Elems(waiting) \cup Elems(resultQueue')
    BY <1>1, <2>1 DEF Posted
  <2>3. Posted = Posted' \cup {cb}
    BY <1>2, <2>2 DEF Posted
  <2>4. ASSUME NEW x \in Posted'  PROVE  Precedes(x, cb) /\ Precedes(cb, x)
    <3>1. Precedes(x, cb) \/ Precedes(cb, x)
      BY <1>1, <1>2, <2>2 DEF CallbackInv, QueuesInOrder, Ahead
    <3> QED  BY <1>4, <3>1, SafeEitherWay
  <2>5. ASSUME NEW x \in pool  PROVE  Precedes(x, cb) /\ Precedes(cb, x)
    BY <2>3 DEF CallbackInv, PoolInOrder, Ahead
  <2>6. QueuesInOrder'
    BY <1>1, <1>2, <2>1 DEF CallbackInv, QueuesInOrder, Ahead
  <2>7. PoolInOrder'
    BY <1>4, <2>1, <2>3, <2>4, <2>5 DEF CallbackInv, PoolInOrder, Ahead
  <2> QED  BY <1>1, <2>1, <2>3, <2>6, <2>7, WorkersApart
<1> QED
  BY <1>3, <1>4

\* The oldest waiting callback runs.
LEMMA RunKeepsOrder ==
  ASSUME QueueInv, CallbackInv, UpdateRunUnsafe, waiting # << >>
  PROVE  CallbackInv'
<1> DEFINE cb == Head(waiting)
<1>1. /\ delivered \in Seq(Op) /\ waiting \in Seq(Op) /\ cb \in Op
      /\ UNCHANGED <<main, log, workerVars, resultQueue, pool>>
      /\ waiting' = Tail(waiting) /\ delivered' = Append(delivered, cb)
      /\ main = "running" /\ ~Halted /\ ~Halted'
  BY Dequeue DEF QueueInv, TypeOK, UpdateRunUnsafe, CallbackInv, QueuesInOrder, Halted
<1>2. /\ InOrder(waiting') /\ Ahead({cb}, Elems(waiting'))
      /\ Elems(waiting) = {cb} \cup Elems(waiting')
  BY <1>1, InOrderTail DEF CallbackInv, QueuesInOrder
<1>3. Ahead(Elems(delivered), {cb}) /\ Ahead({cb}, Elems(resultQueue))
  BY <1>1, <1>2 DEF CallbackInv, QueuesInOrder, Ahead
<1>4. InOrder(delivered') /\ Elems(delivered') = Elems(delivered) \cup {cb}
  BY <1>1, <1>3, InOrderAppend DEF CallbackInv, QueuesInOrder
<1> HIDE DEF cb
<1>5. Posted' = Posted
  BY <1>1, <1>2, <1>4 DEF Posted
<1>6. QueuesInOrder'
  BY <1>1, <1>2, <1>3, <1>4 DEF CallbackInv, QueuesInOrder, Ahead
<1>7. PoolInOrder'
  BY <1>1, <1>5 DEF CallbackInv, PoolInOrder
<1> QED
  BY <1>1, <1>5, <1>6, <1>7, WorkersApart

\* A callback of the pool runs.
LEMMA PoolKeepsOrder ==
  ASSUME QueueInv, CallbackInv, RunSafeCallback
  PROVE  CallbackInv'
<1>1. PICK cb \in pool : pool' = pool \ {cb} /\ delivered' = Append(delivered, cb)
  BY DEF RunSafeCallback
<1>2. /\ UNCHANGED <<main, log, workerVars, resultQueue, waiting, pump>>
      /\ cb \in Op /\ delivered \in Seq(Op)
      /\ main = "running" /\ ~Halted /\ ~Halted'
  BY DEF RunSafeCallback, QueueInv, TypeOK, CallbackInv, QueuesInOrder, Halted
<1>3. Ahead(Posted, {cb}) /\ Ahead({cb}, Posted)
  BY DEF CallbackInv, PoolInOrder, Ahead
<1>4. InOrder(delivered') /\ Elems(delivered') = Elems(delivered) \cup {cb}
  <2>1. Ahead(Elems(delivered), {cb})
    BY <1>3 DEF Ahead, Posted
  <2> QED  BY <1>1, <1>2, <2>1, InOrderAppend DEF CallbackInv, QueuesInOrder
<1>5. Posted' = Posted \cup {cb}
  BY <1>2, <1>4 DEF Posted
<1>6. QueuesInOrder'
  BY <1>2, <1>3, <1>4 DEF CallbackInv, QueuesInOrder, Ahead, Posted
<1>7. PoolInOrder'
  BY <1>1, <1>3, <1>5 DEF CallbackInv, PoolInOrder, Ahead
<1> QED
  BY <1>1, <1>2, <1>5, <1>6, <1>7, WorkersApart

\* StopServer cancels the callbacks of the result queue, the oldest first, and leaves
\* those that wait.
LEMMA CancelKeepsOrder ==
  ASSUME QueueInv, CallbackInv, CancelAll
  PROVE  CallbackInv'
<1> DEFINE cb == Head(resultQueue)
<1>1. /\ delivered \in Seq(Op) /\ resultQueue \in Seq(Op) /\ cb \in Op /\ resultQueue # << >>
      /\ UNCHANGED <<main, log, workerVars, waiting, pool, pump>>
      /\ resultQueue' = Tail(resultQueue) /\ delivered' = Append(delivered, cb)
      /\ main = "halted" /\ Halted'
  BY Dequeue DEF QueueInv, TypeOK, CancelAll, Halted
<1>2. /\ InOrder(resultQueue') /\ Ahead({cb}, Elems(resultQueue'))
      /\ Elems(resultQueue) = {cb} \cup Elems(resultQueue')
  BY <1>1, InOrderTail DEF CallbackInv, QueuesInOrder
<1>3. Ahead(Elems(delivered), {cb})
  BY <1>2 DEF CallbackInv, QueuesInOrder, Ahead
<1>4. InOrder(delivered') /\ Elems(delivered') = Elems(delivered) \cup {cb}
  BY <1>1, <1>3, InOrderAppend DEF CallbackInv, QueuesInOrder
<1> HIDE DEF cb
<1>5. Posted' = Posted
  BY <1>1, <1>2, <1>4 DEF Posted
<1>6. QueuesInOrder'
  BY <1>1, <1>2, <1>4 DEF CallbackInv, QueuesInOrder, Ahead
<1>7. PoolInOrder'
  BY <1>1, <1>5 DEF CallbackInv, PoolInOrder
<1> QED
  BY <1>1, <1>5, <1>6, <1>7, WorkersApart

\* Every step of the layer.
LEMMA CallbackStep ==
  ASSUME QueueInv, SerialOrder, ExactlyOnce, CallbackInv, [Next]_vars
  PROVE  CallbackInv'
<1>0. TypeOK
  BY DEF QueueInv
<1>1. CASE Submission
  <2>1. UNCHANGED <<main, workerVars, resultVars>>
    BY <1>1 DEF Submission, Execute, ExecuteInTransaction, BeginTransaction, CommitTransaction,
       CommitTransactionDirect, RollbackTransaction, AsyncQuery, DelayQueryHolder
  <2>2. Logged \subseteq Logged'
    <3>1. CASE log' = log
      BY <3>1 DEF Logged
    <3>2. CASE \E op \in Op : Effect(op)
      BY <1>0, <3>2, EffectType, LoggedGrows
    <3>3. 0 \in Serials /\ "write" \in Kinds
      BY DEF Kinds
    <3>4. NewOp(0, "write") \in Op
      BY <1>0, <3>3, NewOpType
    <3>5. \A t \in Threads : trans[t] # NoTrans => TransOp(t) \in Op
      BY <1>0, TransOpType
    <3> QED
      BY <1>1, <3>1, <3>2, <3>4, <3>5 DEF Submission, Execute, ExecuteInTransaction,
         BeginTransaction, CommitTransaction, CommitTransactionDirect, RollbackTransaction,
         AsyncQuery, DelayQueryHolder
  <2> QED  BY <2>1, <2>2, NothingMoves DEF workerVars, Halted
<1>2. ASSUME UNCHANGED <<log, stage, busy, resultVars>>, Halted => Halted',
             main = "running" => main' = "running" \/ pump = "idle"
      PROVE  CallbackInv'
  BY <1>2, NothingMoves DEF Logged
<1>3. ASSUME NEW w \in Workers, Worker(w)  PROVE  CallbackInv'
  <2>1. CASE ExecuteOperation(w)
    BY <2>1, ExecuteKeepsOrder
  <2>2. CASE PostOperation(w)
    BY <2>2, PostKeepsOrder
  <2>3. CASE RunTop(w)
    BY <1>2, <2>3 DEF RunTop, Halted
  <2>4. CASE NextDelayedOperation(w) \/ NextSerialOperation(w)
    <3>1. UNCHANGED <<main, log, resultVars>> /\ stage[w] = "idle"
      BY <2>4 DEF NextDelayedOperation, NextSerialOperation
    <3>2. CASE UNCHANGED <<stage, busy>>
      BY <1>2, <3>1, <3>2 DEF Halted
    <3>3. CASE \E op : /\ stage' = [stage EXCEPT ![w] = "executing"]
                       /\ busy' = [busy EXCEPT ![w] = op]
      <4>1. stage \in [Workers -> Stages] /\ busy \in [Workers -> Op \cup {NoOp}]
        BY <1>0 DEF TypeOK
      <4>2. \A v \in Workers : /\ stage'[v] = "executed" <=> stage[v] = "executed"
                               /\ stage[v] = "executed" => busy'[v] = busy[v]
        BY <3>1, <3>3, <4>1
      <4>3. Logged \subseteq Logged' /\ (Halted => Halted')
        BY <3>1 DEF Logged, Halted
      <4> QED  BY <3>1, <4>2, <4>3, NothingMoves
    <3> QED
      BY <2>4, <3>2, <3>3 DEF NextDelayedOperation, NextSerialOperation
  <2> QED  BY <1>3, <2>1, <2>2, <2>3, <2>4 DEF Worker, ProcessRequests
<1>4. ASSUME UNCHANGED <<main, log, workerVars, delivered, waiting, resultQueue, pool>>,
             pump' # "idle" => main = "running"
      PROVE  CallbackInv'
  <2>1. QueuesInOrder' /\ PoolInOrder' /\ Posted' = Posted
    BY <1>4 DEF CallbackInv, QueuesInOrder, PoolInOrder, Posted, Halted
  <2> QED  BY <1>4, <2>1, WorkersApart
<1>5. CASE Update \/ RunSafeCallback
  <2>1. CASE UpdateBegin
    BY <1>4, <2>1 DEF UpdateBegin
  <2>2. CASE UpdateSort /\ resultQueue = << >>
    BY <1>4, <2>2 DEF UpdateSort, CallbackInv, QueuesInOrder
  <2>3. CASE UpdateSort /\ resultQueue # << >>
    BY <2>3, SortKeepsOrder
  <2>4. CASE UpdateRunUnsafe /\ waiting = << >>
    BY <1>4, <2>4 DEF UpdateRunUnsafe, CallbackInv, QueuesInOrder
  <2>5. CASE UpdateRunUnsafe /\ waiting # << >>
    BY <2>5, RunKeepsOrder
  <2>6. CASE UpdateEnd
    BY <1>4, <2>6 DEF UpdateEnd
  <2>7. CASE RunSafeCallback
    BY <2>7, PoolKeepsOrder
  <2> QED  BY <1>5, <2>1, <2>2, <2>3, <2>4, <2>5, <2>6, <2>7 DEF Update
<1>6. CASE \/ AllowAsyncTransactions \/ StopServer \/ JoinThreads \/ HaltDone
           \/ DeleteConnections \/ \E w \in Workers : Stop(w) \/ DestroyBody(w)
  BY <1>2, <1>6 DEF AllowAsyncTransactions, StopServer, JoinThreads, HaltDone,
     DeleteConnections, Stop, DestroyBody, workerVars, Halted
<1>7. CASE CancelAll
  BY <1>7, CancelKeepsOrder
<1>8. CASE UNCHANGED vars
  BY <1>2, <1>8 DEF vars, workerVars, Halted
<1> QED
  BY <1>1, <1>3, <1>5, <1>6, <1>7, <1>8 DEF Next, Terminated, Shutdown

\* A callback runs once at most and after its query took effect, and the unsafe callbacks
\* of one serial id run in the order of their requests: on whichever worker, through the
\* result queue, the time budget of Update and CancelAll.
THEOREM CallbacksInOrder == Spec => []CallbacksOnceInOrder
<1>1. Init => CallbackInv
  <2> SUFFICES ASSUME Init  PROVE  CallbackInv
    OBVIOUS
  <2>1. /\ Elems(delivered) = {} /\ Elems(waiting) = {} /\ Elems(resultQueue) = {} /\ pool = {}
        /\ InOrder(delivered) /\ InOrder(waiting) /\ InOrder(resultQueue)
        /\ \A w \in Workers : stage[w] = "idle"
    BY DEF Init, Elems, InOrder
  <2>2. Executed = {} /\ Posted = {}
    BY <2>1 DEF Executed, Posted
  <2> QED
    BY <2>1, <2>2 DEF Init, CallbackInv, QueuesInOrder, PoolInOrder, ExecutedInOrder, Ahead
<1>2. QueueInv /\ SerialOrder /\ ExactlyOnce /\ CallbackInv /\ [Next]_vars => CallbackInv'
  BY CallbackStep
<1>3. QueueInv /\ CallbackInv => CallbacksOnceInOrder
  <2> SUFFICES ASSUME QueueInv, CallbackInv  PROVE  CallbacksOnceInOrder
    OBVIOUS
  <2>1. \A i, j \in DOMAIN delivered : i < j => Precedes(delivered[i], delivered[j])
    BY DEF CallbackInv, QueuesInOrder, InOrder
  <2>2. \A i \in DOMAIN delivered : i \in Nat
    BY DEF QueueInv, TypeOK
  <2>3. \A i, j \in DOMAIN delivered : delivered[i].id = delivered[j].id => i = j
    BY <2>1, <2>2 DEF Precedes
  <2>4. \A i \in DOMAIN delivered : \E j \in DOMAIN log : log[j].op = delivered[i]
    <3>1. Elems(delivered) \subseteq Logged
      BY DEF CallbackInv, Posted
    <3> QED  BY <3>1 DEF Elems, Logged
  <2> QED  BY <2>1, <2>3, <2>4 DEF CallbacksOnceInOrder, Precedes
<1> QED
  BY <1>1, <1>2, <1>3, QueuesStaySorted, LayerKeepsOrder, PTL DEF Spec
=============================================================================
