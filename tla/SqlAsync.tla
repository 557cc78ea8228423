------------------------------ MODULE SqlAsync ------------------------------
(***************************************************************************)
(* The asynchronous database layer (src/shared/Database).  Game threads    *)
(* hand statements, transactions and queries to a Database; NumWorkers     *)
(* delay threads carry them out on connections of their own.  There is one *)
(* queue shared by all the workers and one serial queue per worker: a      *)
(* request with serial id s > 0 goes to worker s % NumWorkers.  Queries    *)
(* answer through a result queue that the world thread pumps.              *)
(*                                                                         *)
(* Requests are numbered in the order they are handed over; SQL text and   *)
(* result rows are abstracted away.  log is the database's own view: the   *)
(* order in which the requests took effect, and whether they succeeded.    *)
(***************************************************************************)
EXTENDS Naturals, Sequences, FiniteSets

CONSTANTS Threads,      \* threads that use the Database
          NumWorkers,   \* m_numAsyncWorkers after Initialize
          Serials,      \* serial ids: 0 and low guids of characters
          QueryKinds,   \* the queries callers make: thread-safe, unsafe or both
          MaxOps,       \* bound: requests submitted in a behaviour
          MaxFailures   \* bound: requests the server rejects

ASSUME WorkersAssumption == NumWorkers \in Nat \ {0}
ASSUME SerialsAssumption == Serials \subseteq Nat /\ 0 \in Serials
ASSUME QueryKindsAssumption == QueryKinds \subseteq {"safeQuery", "unsafeQuery"}
ASSUME BoundsAssumption == MaxOps \in Nat /\ MaxFailures \in Nat

VARIABLES
    main,               \* how far the process is, from Initialize to StopServer
    trans,              \* m_TransStorage: each thread's open transaction
    nextId,             \* the number of the next request
    delayQueue,         \* m_delayQueue, shared by the workers
    serialDelayQueue,   \* each SqlDelayThread's m_serialDelayQueue
    running,            \* each SqlDelayThread's m_running
    loop,               \* where each worker is in run() and ProcessRequests()
    stage,              \* where it is in the body of the loop it is in
    busy,               \* the request it has dequeued and not yet deleted
    log,                \* requests that took effect, in that order
    resultQueue,        \* SqlResultQueue: callbacks of executed queries
    waiting,            \* _threadUnsafeWaitingQueries
    pool,               \* callbacks handed to m_callbackThreads
    pump,               \* where the world thread is in SqlResultQueue::Update
    delivered,          \* callbacks run, in that order
    haltMark            \* nextId when HaltDelayThread returned (history)

queueVars == <<delayQueue, serialDelayQueue>>
workerVars == <<running, loop, stage, busy>>
resultVars == <<resultQueue, waiting, pool, pump, delivered>>
vars == <<main, trans, nextId, queueVars, workerVars, log, resultVars, haltMark>>

-----------------------------------------------------------------------------

Workers == 0 .. NumWorkers - 1

\* A "write" is a statement or a transaction with statements, an "empty" one a
\* transaction without any; queries differ in callback->IsThreadSafe().
Kinds == {"write", "empty", "safeQuery", "unsafeQuery"}
Queries == {"safeQuery", "unsafeQuery"}

Op == [id : Nat, serial : Serials, kind : Kinds]
Entry == [op : Op, ok : BOOLEAN]
Trans == [serial : Serials, kind : {"empty", "write"}]

NoOp == [id |-> 0, serial |-> 0, kind |-> "none"]
NoTrans == [serial |-> 0, kind |-> "none"]

Mains == {"startup", "running", "stopping", "clearing", "halted", "stopped"}
Loops == {"top", "shared", "serial", "exited", "destroyed"}
Stages == {"idle", "executing", "executed"}
Pumps == {"idle", "sort", "run", "wait"}

\* m_numAsyncWorkers, which HaltDelayThread resets.
numAsyncWorkers == IF main \in {"halted", "stopped"} THEN 0 ELSE NumWorkers

NewOp(s, k) == [id |-> nextId, serial |-> s, kind |-> k]

\* Threads submit while the workers live.  (Master joins the world thread before
\* StopServer, so nothing is submitted while the thread bodies are destroyed.)
CanSubmit ==
    /\ main \in {"startup", "running", "stopping"}
    /\ nextId <= MaxOps

-----------------------------------------------------------------------------
(* Queues.                                                                 *)

AddToDelayQueue(op) ==
    /\ delayQueue' = Append(delayQueue, op)
    /\ UNCHANGED serialDelayQueue

\* Mutant: the load balancing a TODO in AddToSerialDelayQueue asks for, done wrong.
WorkerOf_RoundRobin(op) == op.id % numAsyncWorkers

WorkerOf(op) == op.serial % numAsyncWorkers

AddToSerialDelayQueue(op) ==
    IF op.serial = 0 \/ numAsyncWorkers = 0
    THEN AddToDelayQueue(op)
    ELSE /\ serialDelayQueue' =
                [serialDelayQueue EXCEPT ![WorkerOf(op)] = Append(@, op)]
         /\ UNCHANGED delayQueue

\* A request with statements may fail, and then leaves nothing behind: a failed
\* SqlTransaction is rolled back and is not retried.
Outcomes(op) ==
    IF op.kind = "write" /\ Cardinality({i \in DOMAIN log : ~log[i].ok}) < MaxFailures
    THEN BOOLEAN
    ELSE {TRUE}

\* op->Execute(connection): the point where the request takes effect.
Effect(op) ==
    \E ok \in Outcomes(op) : log' = Append(log, [op |-> op, ok |-> ok])

-----------------------------------------------------------------------------
(* Calls of the game threads.                                              *)

\* Execute, ExecuteStmt outside a transaction: direct until async is allowed.
Execute(t) ==
    /\ CanSubmit
    /\ trans[t] = NoTrans
    /\ IF main = "startup"
       THEN Effect(NewOp(0, "write")) /\ UNCHANGED queueVars
       ELSE AddToDelayQueue(NewOp(0, "write")) /\ UNCHANGED log
    /\ nextId' = nextId + 1
    /\ UNCHANGED <<main, trans, workerVars, resultVars, haltMark>>

\* Execute, ExecuteStmt inside a transaction: DelayExecute.
ExecuteInTransaction(t) ==
    /\ CanSubmit
    /\ trans[t] # NoTrans
    /\ trans' = [trans EXCEPT ![t].kind = "write"]
    /\ UNCHANGED <<main, nextId, queueVars, workerVars, log, resultVars, haltMark>>

BeginTransaction(t, s) ==
    /\ CanSubmit
    /\ trans[t] = NoTrans
    /\ trans' = [trans EXCEPT ![t] = [serial |-> s, kind |-> "empty"]]
    /\ UNCHANGED <<main, nextId, queueVars, workerVars, log, resultVars, haltMark>>

TransOp(t) == NewOp(trans[t].serial, trans[t].kind)

\* Mutant: no test that the thread has a transaction open.
CommitTransaction_Unchecked(t) ==
    /\ CanSubmit
    /\ trans' = [trans EXCEPT ![t] = NoTrans]
    /\ IF main = "startup"
       THEN Effect(TransOp(t)) /\ UNCHANGED queueVars
       ELSE AddToSerialDelayQueue(TransOp(t)) /\ UNCHANGED log
    /\ nextId' = nextId + 1
    /\ UNCHANGED <<main, workerVars, resultVars, haltMark>>

CommitTransaction(t) ==
    /\ CanSubmit
    /\ trans[t] # NoTrans
    /\ trans' = [trans EXCEPT ![t] = NoTrans]
    /\ IF main = "startup"
       THEN Effect(TransOp(t)) /\ UNCHANGED queueVars
       ELSE AddToSerialDelayQueue(TransOp(t)) /\ UNCHANGED log
    /\ nextId' = nextId + 1
    /\ UNCHANGED <<main, workerVars, resultVars, haltMark>>

\* Runs the transaction on m_pAsyncConn and so overtakes everything queued.  Its
\* callers at run time (MailDraft::SendReturnToSender, AutoUpdater) begin their
\* transactions without a serial id; Player::SaveToDB is never called as direct.
CommitTransactionDirect(t) ==
    /\ CanSubmit
    /\ trans[t] # NoTrans /\ trans[t].serial = 0
    /\ trans' = [trans EXCEPT ![t] = NoTrans]
    /\ Effect(TransOp(t))
    /\ nextId' = nextId + 1
    /\ UNCHANGED <<main, queueVars, workerVars, resultVars, haltMark>>

RollbackTransaction(t) ==
    /\ CanSubmit
    /\ trans[t] # NoTrans
    /\ trans' = [trans EXCEPT ![t] = NoTrans]
    /\ UNCHANGED <<main, nextId, queueVars, workerVars, log, resultVars, haltMark>>

\* AsyncQuery and AsyncQueryUnsafe, also during startup and inside a transaction.
AsyncQuery(t, k) ==
    /\ CanSubmit
    /\ AddToDelayQueue(NewOp(0, k))
    /\ nextId' = nextId + 1
    /\ UNCHANGED <<main, trans, workerVars, log, resultVars, haltMark>>

\* DelayQueryHolder and its Unsafe form.  A holder with a serial id belongs to a
\* character that logs in, which happens in the running server only.
DelayQueryHolder(t, s, k) ==
    /\ CanSubmit
    /\ s # 0 => main # "startup"
    /\ AddToSerialDelayQueue(NewOp(s, k))
    /\ nextId' = nextId + 1
    /\ UNCHANGED <<main, trans, workerVars, log, resultVars, haltMark>>

AllowAsyncTransactions ==
    /\ main = "startup"
    /\ main' = "running"
    /\ UNCHANGED <<trans, nextId, queueVars, workerVars, log, resultVars, haltMark>>

-----------------------------------------------------------------------------
(* SqlDelayThread.  The same code runs in the thread (run) and, after the  *)
(* join, in the destructor of the thread's body.                           *)

\* Mutant: the loop does not look at m_running.
RunTop_IgnoreStop(w) ==
    /\ loop[w] = "top"
    /\ loop' = [loop EXCEPT ![w] = "shared"]
    /\ UNCHANGED <<main, trans, nextId, queueVars, running, stage, busy, log,
                   resultVars, haltMark>>

\* while (m_running): the flag is read before the sleep, so a worker stopped in
\* its sleep processes the queues once more.
RunTop(w) ==
    /\ loop[w] = "top"
    /\ loop' = [loop EXCEPT ![w] = IF running[w] THEN "shared" ELSE "exited"]
    /\ UNCHANGED <<main, trans, nextId, queueVars, running, stage, busy, log,
                   resultVars, haltMark>>

\* Mutant: the front of the queue is read and popped without one lock around both,
\* so that two workers may take the same request.
NextDelayedOperation_PeekOnly(w) ==
    /\ loop[w] = "shared" /\ stage[w] = "idle"
    /\ IF delayQueue # << >>
       THEN /\ busy' = [busy EXCEPT ![w] = Head(delayQueue)]
            /\ stage' = [stage EXCEPT ![w] = "executing"]
            /\ delayQueue' \in {delayQueue, Tail(delayQueue)}
            /\ UNCHANGED loop
       ELSE /\ loop' = [loop EXCEPT ![w] = "serial"]
            /\ UNCHANGED <<busy, stage, delayQueue>>
    /\ UNCHANGED <<main, trans, nextId, serialDelayQueue, running, log,
                   resultVars, haltMark>>

NextDelayedOperation(w) ==
    /\ loop[w] = "shared" /\ stage[w] = "idle"
    /\ IF delayQueue # << >>
       THEN /\ busy' = [busy EXCEPT ![w] = Head(delayQueue)]
            /\ stage' = [stage EXCEPT ![w] = "executing"]
            /\ delayQueue' = Tail(delayQueue)
            /\ UNCHANGED loop
       ELSE /\ loop' = [loop EXCEPT ![w] = "serial"]
            /\ UNCHANGED <<busy, stage, delayQueue>>
    /\ UNCHANGED <<main, trans, nextId, serialDelayQueue, running, log,
                   resultVars, haltMark>>

NextSerialOperation(w) ==
    /\ loop[w] = "serial" /\ stage[w] = "idle"
    /\ IF serialDelayQueue[w] # << >>
       THEN /\ busy' = [busy EXCEPT ![w] = Head(serialDelayQueue[w])]
            /\ stage' = [stage EXCEPT ![w] = "executing"]
            /\ serialDelayQueue' = [serialDelayQueue EXCEPT ![w] = Tail(@)]
            /\ UNCHANGED loop
       ELSE /\ loop' = [loop EXCEPT ![w] =
                            IF main = "clearing" THEN "destroyed" ELSE "top"]
            /\ UNCHANGED <<busy, stage, serialDelayQueue>>
    /\ UNCHANGED <<main, trans, nextId, delayQueue, running, log, resultVars, haltMark>>

ExecuteOperation(w) ==
    /\ stage[w] = "executing"
    /\ Effect(busy[w])
    /\ stage' = [stage EXCEPT ![w] = "executed"]
    /\ UNCHANGED <<main, trans, nextId, queueVars, running, loop, busy,
                   resultVars, haltMark>>

\* A query posts its callback after the server has answered, another worker may
\* post in between; then the request is deleted.
PostOperation(w) ==
    /\ stage[w] = "executed"
    /\ resultQueue' = IF busy[w].kind \in Queries
                      THEN Append(resultQueue, busy[w]) ELSE resultQueue
    /\ stage' = [stage EXCEPT ![w] = "idle"]
    /\ busy' = [busy EXCEPT ![w] = NoOp]
    /\ UNCHANGED <<main, trans, nextId, queueVars, running, loop, log,
                   waiting, pool, pump, delivered, haltMark>>

ProcessRequests(w) ==
    \/ NextDelayedOperation(w)
    \/ NextSerialOperation(w)
    \/ ExecuteOperation(w)
    \/ PostOperation(w)

-----------------------------------------------------------------------------
(* SqlResultQueue::Update, called by the world thread in every World::Update. *)

UpdateBegin ==
    /\ main = "running" /\ pump = "idle"
    /\ pump' = "sort"
    /\ UNCHANGED <<main, trans, nextId, queueVars, workerVars, log,
                   resultQueue, waiting, pool, delivered, haltMark>>

\* Mutant: the thread-unsafe callbacks are kept on a stack.
UpdateSort_Stack ==
    /\ pump = "sort"
    /\ IF resultQueue # << >>
       THEN LET cb == Head(resultQueue)
            IN  /\ resultQueue' = Tail(resultQueue)
                /\ IF cb.kind = "unsafeQuery"
                   THEN waiting' = <<cb>> \o waiting /\ UNCHANGED pool
                   ELSE pool' = pool \cup {cb} /\ UNCHANGED waiting
                /\ UNCHANGED pump
       ELSE pump' = "run" /\ UNCHANGED <<resultQueue, waiting, pool>>
    /\ UNCHANGED <<main, trans, nextId, queueVars, workerVars, log, delivered, haltMark>>

UpdateSort ==
    /\ pump = "sort"
    /\ IF resultQueue # << >>
       THEN LET cb == Head(resultQueue)
            IN  /\ resultQueue' = Tail(resultQueue)
                /\ IF cb.kind = "unsafeQuery"
                   THEN waiting' = Append(waiting, cb) /\ UNCHANGED pool
                   ELSE pool' = pool \cup {cb} /\ UNCHANGED waiting
                /\ UNCHANGED pump
       ELSE pump' = "run" /\ UNCHANGED <<resultQueue, waiting, pool>>
    /\ UNCHANGED <<main, trans, nextId, queueVars, workerVars, log, delivered, haltMark>>

\* Mutant: the time budget is tested before the first callback instead of after it.
UpdateRunUnsafe_BudgetFirst ==
    /\ pump = "run"
    /\ \/ /\ waiting # << >>
          /\ delivered' = Append(delivered, Head(waiting))
          /\ waiting' = Tail(waiting)
          /\ UNCHANGED pump
       \/ pump' = "wait" /\ UNCHANGED <<waiting, delivered>>
    /\ UNCHANGED <<main, trans, nextId, queueVars, workerVars, log,
                   resultQueue, pool, haltMark>>

\* One callback, then the loop goes on or the time budget is spent.
UpdateRunUnsafe ==
    /\ pump = "run"
    /\ IF waiting # << >>
       THEN /\ delivered' = Append(delivered, Head(waiting))
            /\ waiting' = Tail(waiting)
            /\ pump' \in {"run", "wait"}
       ELSE pump' = "wait" /\ UNCHANGED <<waiting, delivered>>
    /\ UNCHANGED <<main, trans, nextId, queueVars, workerVars, log,
                   resultQueue, pool, haltMark>>

\* The callback pool, working while the world thread runs the unsafe callbacks.
RunSafeCallback ==
    /\ pump \in {"run", "wait"}
    /\ \E cb \in pool :
          /\ pool' = pool \ {cb}
          /\ delivered' = Append(delivered, cb)
    /\ UNCHANGED <<main, trans, nextId, queueVars, workerVars, log,
                   resultQueue, waiting, pump, haltMark>>

\* job.wait()
UpdateEnd ==
    /\ pump = "wait" /\ pool = {}
    /\ pump' = "idle"
    /\ UNCHANGED <<main, trans, nextId, queueVars, workerVars, log,
                   resultQueue, waiting, pool, delivered, haltMark>>

-----------------------------------------------------------------------------
(* StopServer: HaltDelayThread, then CancelAll.                            *)

\* World's loop has ended and its thread is joined.
StopServer ==
    /\ main = "running" /\ pump = "idle"
    /\ main' = "stopping"
    /\ UNCHANGED <<trans, nextId, queueVars, workerVars, log, resultVars, haltMark>>

Stop(w) ==
    /\ main = "stopping" /\ running[w]
    /\ running' = [running EXCEPT ![w] = FALSE]
    /\ UNCHANGED <<main, trans, nextId, queueVars, loop, stage, busy, log,
                   resultVars, haltMark>>

\* join() of every thread, then m_threadsBodies.clear()
JoinThreads ==
    /\ main = "stopping"
    /\ \A w \in Workers : loop[w] = "exited"
    /\ main' = "clearing"
    /\ UNCHANGED <<trans, nextId, queueVars, workerVars, log, resultVars, haltMark>>

\* Mutant: the destructor does not process what was queued while stopping.
DestroyBody_NoDrain(w) ==
    /\ main = "clearing" /\ loop[w] = "exited"
    /\ \A v \in Workers : loop[v] \in {"exited", "destroyed"}
    /\ loop' = [loop EXCEPT ![w] = "destroyed"]
    /\ UNCHANGED <<main, trans, nextId, queueVars, running, stage, busy, log,
                   resultVars, haltMark>>

\* ~SqlDelayThread: ProcessRequests of one body at a time.
DestroyBody(w) ==
    /\ main = "clearing" /\ loop[w] = "exited"
    /\ \A v \in Workers : loop[v] \in {"exited", "destroyed"}
    /\ loop' = [loop EXCEPT ![w] = "shared"]
    /\ UNCHANGED <<main, trans, nextId, queueVars, running, stage, busy, log,
                   resultVars, haltMark>>

HaltDone ==
    /\ main = "clearing"
    /\ \A w \in Workers : loop[w] = "destroyed"
    /\ main' = "halted"
    /\ haltMark' = nextId
    /\ UNCHANGED <<trans, nextId, queueVars, workerVars, log, resultVars>>

\* Callbacks get a null result; one that writes to the database queues a
\* statement that no worker is left to run.
CancelAll ==
    /\ main = "halted" /\ resultQueue # << >>
    /\ delivered' = Append(delivered, Head(resultQueue))
    /\ resultQueue' = Tail(resultQueue)
    /\ \/ UNCHANGED <<nextId, queueVars>>
       \/ /\ nextId <= MaxOps
          /\ AddToDelayQueue(NewOp(0, "write"))
          /\ nextId' = nextId + 1
    /\ UNCHANGED <<main, trans, workerVars, log, waiting, pool, pump, haltMark>>

DeleteConnections ==
    /\ main = "halted" /\ resultQueue = << >>
    /\ main' = "stopped"
    /\ UNCHANGED <<trans, nextId, queueVars, workerVars, log, resultVars, haltMark>>

\* The process has ended.
Terminated == main = "stopped" /\ UNCHANGED vars

-----------------------------------------------------------------------------

Init ==
    /\ main = "startup"
    /\ trans = [t \in Threads |-> NoTrans]
    /\ nextId = 1
    /\ delayQueue = << >>
    /\ serialDelayQueue = [w \in Workers |-> << >>]
    /\ running = [w \in Workers |-> TRUE]
    /\ loop = [w \in Workers |-> "top"]
    /\ stage = [w \in Workers |-> "idle"]
    /\ busy = [w \in Workers |-> NoOp]
    /\ log = << >>
    /\ resultQueue = << >> /\ waiting = << >> /\ pool = {}
    /\ pump = "idle"
    /\ delivered = << >>
    /\ haltMark = 0

Submission ==
    \E t \in Threads :
        \/ Execute(t) \/ ExecuteInTransaction(t)
        \/ \E s \in Serials : BeginTransaction(t, s)
        \/ CommitTransaction(t) \/ CommitTransactionDirect(t)
        \/ RollbackTransaction(t)
        \/ \E k \in QueryKinds : AsyncQuery(t, k)
        \/ \E s \in Serials, k \in QueryKinds : DelayQueryHolder(t, s, k)

Worker(w) == RunTop(w) \/ ProcessRequests(w)

Update == UpdateBegin \/ UpdateSort \/ UpdateRunUnsafe \/ UpdateEnd

\* What the main thread does by itself once StopServer has been called.
Shutdown ==
    \/ \E w \in Workers : Stop(w) \/ DestroyBody(w)
    \/ JoinThreads \/ HaltDone \/ CancelAll \/ DeleteConnections

Next ==
    \/ Submission
    \/ AllowAsyncTransactions
    \/ \E w \in Workers : Worker(w)
    \/ Update \/ RunSafeCallback
    \/ StopServer \/ Shutdown
    \/ Terminated

Spec == Init /\ [][Next]_vars

\* The operating system schedules the workers, the callback pool and the main
\* thread; the world thread calls Update in its loop until StopServer.  Callers
\* are free to submit nothing, and the server may run for ever.
Fairness ==
    /\ \A w \in Workers : WF_vars(Worker(w))
    /\ WF_vars(Update) /\ WF_vars(RunSafeCallback)
    /\ WF_vars(Shutdown)

FairSpec == Spec /\ Fairness

-----------------------------------------------------------------------------
(* Properties.                                                             *)

TypeOK ==
    /\ main \in Mains
    /\ trans \in [Threads -> Trans \cup {NoTrans}]
    /\ nextId \in Nat \ {0}
    /\ delayQueue \in Seq(Op)
    /\ serialDelayQueue \in [Workers -> Seq(Op)]
    /\ running \in [Workers -> BOOLEAN]
    /\ loop \in [Workers -> Loops]
    /\ stage \in [Workers -> Stages]
    /\ busy \in [Workers -> Op \cup {NoOp}]
    /\ log \in Seq(Entry)
    /\ resultQueue \in Seq(Op)
    /\ waiting \in Seq(Op)
    /\ pool \in SUBSET Op
    /\ pump \in Pumps
    /\ delivered \in Seq(Op)
    /\ haltMark \in Nat

Elems(q) == {q[i] : i \in DOMAIN q}

\* Requests handed over and not yet carried out.
InSerialQueues == UNION {Elems(serialDelayQueue[w]) : w \in Workers}
InFlight == {busy[w] : w \in {v \in Workers : stage[v] = "executing"}}
Pending == Elems(delayQueue) \cup InSerialQueues \cup InFlight

\* Requests of one serial id take effect in the order they were submitted, and
\* none takes effect while an earlier one is still queued or in flight: a
\* character that logs in again reads its own last save.  (Player.cpp, comment
\* on SaveInventoryAndGoldToDB; LoginQueryHolder's serial id.)
SerialOrder ==
    /\ \A i, j \in DOMAIN log :
          i < j /\ log[i].op.serial = log[j].op.serial /\ log[i].op.serial # 0
            => log[i].op.id < log[j].op.id
    /\ \A i \in DOMAIN log, op \in Pending :
          log[i].op.serial = op.serial /\ op.serial # 0 => log[i].op.id < op.id

\* No request is lost and none is carried out twice: whatever the workers, the
\* join and the destructors interleave, a request is either still pending or
\* took effect once.
ExactlyOnce ==
    /\ \A i, j \in DOMAIN log : log[i].op.id = log[j].op.id => i = j
    /\ \A i \in DOMAIN log, op \in Pending : log[i].op.id # op.id
    /\ 1 .. nextId - 1 = {log[i].op.id : i \in DOMAIN log} \cup {op.id : op \in Pending}

\* "process all requests which might have been queued while thread was stopping"
\* (~SqlDelayThread): when HaltDelayThread returns, everything submitted until
\* then has been carried out.
DrainedOnHalt ==
    main \in {"halted", "stopped"} => \A op \in Pending : op.id >= haltMark

\* A callback is run at most once and only after its query was executed, and the
\* thread-unsafe callbacks of one serial id (two logins of one character) run in
\* the order of their requests.
CallbacksOnceInOrder ==
    /\ \A i, j \in DOMAIN delivered : delivered[i].id = delivered[j].id => i = j
    /\ \A i \in DOMAIN delivered : \E j \in DOMAIN log : log[j].op = delivered[i]
    /\ \A i, j \in DOMAIN delivered :
          ( /\ i < j
            /\ delivered[i].serial = delivered[j].serial /\ delivered[i].serial # 0
            /\ delivered[i].kind = "unsafeQuery" /\ delivered[j].kind = "unsafeQuery" )
            => delivered[i].id < delivered[j].id

\* Why the order is kept.  The shared queue holds requests without serial id, the
\* serial queue of a worker those of its own serial ids, both sorted by number.
QueuesSorted ==
    /\ \A i \in DOMAIN delayQueue :
          delayQueue[i].serial = 0 /\ delayQueue[i].id < nextId
    /\ \A i, j \in DOMAIN delayQueue : i < j => delayQueue[i].id < delayQueue[j].id
    /\ \A w \in Workers : \A i \in DOMAIN serialDelayQueue[w] :
          /\ serialDelayQueue[w][i].serial # 0
          /\ serialDelayQueue[w][i].serial % NumWorkers = w
          /\ serialDelayQueue[w][i].id < nextId
    /\ \A w \in Workers : \A i, j \in DOMAIN serialDelayQueue[w] :
          i < j => serialDelayQueue[w][i].id < serialDelayQueue[w][j].id

\* A worker in the body of a loop holds a request.
BusyHolds == \A w \in Workers : stage[w] # "idle" => busy[w] \in Op

\* The request a worker is about to carry out precedes what is left in the queue it
\* came from, and no other worker is about to carry out the same one.
BusyFirst ==
    \A w \in Workers : stage[w] = "executing" =>
        /\ busy[w].id < nextId
        /\ busy[w].serial = 0 =>
              \A i \in DOMAIN delayQueue : busy[w].id < delayQueue[i].id
        /\ busy[w].serial # 0 =>
              /\ busy[w].serial % NumWorkers = w
              /\ \A i \in DOMAIN serialDelayQueue[w] :
                    busy[w].id < serialDelayQueue[w][i].id
        /\ \A v \in Workers : stage[v] = "executing" /\ v # w => busy[v] # busy[w]

\* During startup nothing with a serial id is queued, so a transaction that is
\* committed directly overtakes none of its own.
StartupUnserialised ==
    main = "startup" =>
        /\ \A w \in Workers : serialDelayQueue[w] = << >>
        /\ \A w \in Workers : stage[w] = "executing" => busy[w].serial = 0

\* When a body has been destroyed its queue is empty, and so is the shared queue:
\* nothing is submitted once the bodies are being destroyed.
BodiesDrained ==
    /\ \A w \in Workers :
          /\ loop[w] \in {"top", "exited", "destroyed"} => stage[w] = "idle"
          /\ loop[w] = "destroyed" =>
                main \in {"clearing", "halted", "stopped"} /\ serialDelayQueue[w] = << >>
          /\ main = "clearing" /\ loop[w] \in {"serial", "destroyed"} => delayQueue = << >>
    /\ main \in {"halted", "stopped"} =>
          /\ \A w \in Workers : loop[w] = "destroyed"
          /\ \A i \in DOMAIN delayQueue : delayQueue[i].id >= haltMark
          /\ haltMark <= nextId

QueueInv ==
    /\ TypeOK /\ QueuesSorted /\ BusyHolds /\ BusyFirst
    /\ StartupUnserialised /\ BodiesDrained

\* The queues implement the abstract store.
Store == INSTANCE SerialStore WITH pending <- Pending

ImplementsStore == Store!Spec

IsLogged(i) == \E j \in DOMAIN log : log[j].op.id = i
IsDelivered(i) == \E j \in DOMAIN delivered : delivered[j].id = i
IsQueryLogged(i) == \E j \in DOMAIN log : log[j].op.id = i /\ log[j].op.kind \in Queries

\* Every request submitted while the workers live is carried out, whether or not
\* the server is stopped meanwhile.
EventuallyExecuted ==
    \A i \in 1 .. MaxOps :
        (nextId > i /\ main \in {"startup", "running", "stopping"}) ~> IsLogged(i)

\* As long as the server runs, every executed query's callback is run, even when
\* each Update has time for one thread-unsafe callback only.
EventuallyAnswered ==
    \A i \in 1 .. MaxOps :
        (IsQueryLogged(i) /\ main = "running") ~> (IsDelivered(i) \/ main # "running")

\* StopServer returns: the workers leave their loops and can be joined.
EventuallyStopped == main = "stopping" ~> main = "stopped"
=============================================================================
