---------------------------- MODULE SerialStore ----------------------------
(***************************************************************************)
(* What the asynchronous database layer promises to its callers, without   *)
(* threads and queues: requests are numbered as they are submitted, every  *)
(* request is carried out at most once, and two requests with the same     *)
(* non-zero serial id are carried out in the order of their submission.    *)
(* Requests with serial id 0 may be carried out in any order.              *)
(* SqlAsync is shown to implement this specification.                      *)
(***************************************************************************)
EXTENDS Naturals, Sequences

CONSTANTS Serials,      \* serial ids (0, or the low guid of a character)
          Kinds         \* what a request does (see SqlAsync)

VARIABLES nextId,       \* the number of the next request
          pending,      \* requests submitted and not yet carried out
          log           \* requests carried out, in the order of their effect

vars == <<nextId, pending, log>>

Op == [id : Nat, serial : Serials, kind : Kinds]

\* No request of op's serial id that was submitted before op is pending.
IsNext(op) ==
    op.serial # 0 => \A q \in pending : q.serial = op.serial => op.id <= q.id

Init == nextId = 1 /\ pending = {} /\ log = << >>

\* A caller hands over a request and goes on.
Submit(s, k) ==
    /\ pending' = pending \cup {[id |-> nextId, serial |-> s, kind |-> k]}
    /\ nextId' = nextId + 1
    /\ UNCHANGED log

\* A request takes effect, or fails and leaves no effect.
Perform(op) ==
    /\ IsNext(op)
    /\ pending' = pending \ {op}
    /\ \E ok \in BOOLEAN : log' = Append(log, [op |-> op, ok |-> ok])
    /\ UNCHANGED nextId

\* A caller has its request carried out before the call returns.
SubmitAndPerform(s, k) ==
    LET op == [id |-> nextId, serial |-> s, kind |-> k]
    IN  /\ IsNext(op)
        /\ \E ok \in BOOLEAN : log' = Append(log, [op |-> op, ok |-> ok])
        /\ nextId' = nextId + 1
        /\ UNCHANGED pending

Next ==
    \/ \E s \in Serials, k \in Kinds : Submit(s, k) \/ SubmitAndPerform(s, k)
    \/ \E op \in pending : Perform(op)

Spec == Init /\ [][Next]_vars

-----------------------------------------------------------------------------

\* The order of two entries of the log with the same serial id, and of an entry
\* and a request that is still pending, is the order of submission.
InOrder ==
    /\ \A i, j \in DOMAIN log :
          i < j /\ log[i].op.serial = log[j].op.serial /\ log[i].op.serial # 0
            => log[i].op.id < log[j].op.id
    /\ \A i \in DOMAIN log, op \in pending :
          log[i].op.serial = op.serial /\ op.serial # 0 => log[i].op.id < op.id

\* Every request is pending or carried out, never both and never twice.
Once ==
    /\ \A i, j \in DOMAIN log : log[i].op.id = log[j].op.id => i = j
    /\ \A i \in DOMAIN log, op \in pending : log[i].op.id # op.id
    /\ 1 .. nextId - 1 = {log[i].op.id : i \in DOMAIN log} \cup {op.id : op \in pending}
=============================================================================
