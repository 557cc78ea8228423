-------------------------------- MODULE Shop --------------------------------
(***************************************************************************)
(* The shop: items for coins (ShopMgr).  A thread of its own takes the     *)
(* requests, charges the account in the login database and hands the item  *)
(* over to a task of the world.  A purchase is refunded by that task when  *)
(* the item cannot be stored, by an npc, when a hardcore character dies    *)
(* and when it is deleted; refunds are queued statements that other        *)
(* threads carry out.                                                      *)
(*                                                                         *)
(* Every item has the same entry and price 1.  Left out: accounts without  *)
(* a row in shop_coins, which have nothing to spend; eggs, which are       *)
(* refunded in part; the command that marks a purchase as refunded.        *)
(***************************************************************************)
EXTENDS Integers, FiniteSets, SequencesExt

CONSTANTS
    Account,
    Character,
    Owner,          \* the account of a character
    Hardcore,       \* the characters in hardcore mode
    Coins,          \* what every account begins with
    MaxPurchases    \* bound on the ids NextShopLogEntry gives out

ASSUME ShopAssumption ==
    /\ Owner \in [Character -> Account]
    /\ Hardcore \subseteq Character
    /\ Coins \in Nat /\ MaxPurchases \in Nat

Price == 1
None == "none"
Ids == 1..MaxPurchases
\* guid None asks for the balance.
Request == [account: Account, guid: Character \cup {None}]

VARIABLES
    coins,      \* shop_coins in the login database
    log,        \* m_shopLogs: the purchases by id
    nextId,     \* m_maxShopEntry
    pending,    \* m_pendingRequests
    batch,      \* the requests the worker has taken and not yet dealt with
    worker,     \* where it is in BuyItem and what it remembers
    tasks,      \* purchases with a ShopSendItemTask
    refunds,    \* queued statements and transactions that give coins back
    online,     \* the character each account plays
    life,       \* "alive", "dead", "deleted"
    dying,      \* purchases a death has refunded and not yet marked
    bag,        \* the number of shop items a character has
    delivered,  \* history: the purchases whose item was handed over
    aborted     \* an assertion has failed

vars == <<coins, log, nextId, pending, batch, worker, tasks, refunds, online, life, dying,
          bag, delivered, aborted>>
playerVars == <<online, life, dying, bag, delivered>>
workerVars == <<nextId, batch, worker>>

Idle == [at |-> "idle", id |-> 0, newBalance |-> 0]

TypeOK ==
    /\ coins \in [Account -> 0..Coins + 2 * MaxPurchases * Price]
    /\ DOMAIN log \subseteq 1..(nextId - 1)
    /\ \A id \in DOMAIN log : log[id] \in [guid: Character, refunded: BOOLEAN]
    /\ nextId \in 1..(MaxPurchases + 1)
    /\ pending \in Seq(Request) /\ IsInjective(pending)
    /\ batch \in Seq(Request) /\ IsInjective(batch)
    /\ worker.at \in {"idle", "read", "paid", "logged", "listed"}
    /\ worker.at # "idle" => batch # <<>> /\ Head(batch).guid # None
    /\ tasks \subseteq DOMAIN log
    /\ \A r \in refunds : r.ids \subseteq DOMAIN log /\ r.account \in Account
    /\ \A a \in Account : online[a] # None => Owner[online[a]] = a /\ life[online[a]] # "deleted"
    /\ life \in [Character -> {"alive", "dead", "deleted"}]
    /\ dying \subseteq DOMAIN log
    /\ bag \in [Character -> Nat]
    /\ delivered \subseteq DOMAIN log
    /\ aborted \in BOOLEAN

Init ==
    /\ coins = [a \in Account |-> Coins]
    /\ log = <<>> /\ nextId = 1
    /\ pending = <<>> /\ batch = <<>> /\ worker = Idle
    /\ tasks = {} /\ refunds = {}
    /\ online = [a \in Account |-> None]
    /\ life = [c \in Character |-> "alive"]
    /\ dying = {} /\ bag = [c \in Character |-> 0] /\ delivered = {}
    /\ aborted = FALSE
-----------------------------------------------------------------------------
(* The world thread.                                                       *)

\* A request like one that waits already is refused.
AddRequest(r) ==
    /\ r \notin ToSet(pending)
    /\ pending' = Append(pending, r)
    /\ UNCHANGED <<coins, log, workerVars, tasks, refunds, playerVars, aborted>>

RequestBalance(a) == online[a] # None /\ AddRequest([account |-> a, guid |-> None])

\* Purchases that wait for their id.
Purchases(q) == {r \in ToSet(q) : r.guid # None}
Waiting == Cardinality(Purchases(pending)) +
           Cardinality(Purchases(IF worker = Idle THEN batch ELSE Tail(batch)))

RequestPurchase(a) ==
    /\ online[a] # None
    /\ nextId + Waiting <= MaxPurchases
    /\ AddRequest([account |-> a, guid |-> online[a]])

\* Sessions are updated when no map is: a death is over by then.
Login(c) ==
    /\ dying = {}
    /\ life[c] # "deleted" /\ online[Owner[c]] = None
    /\ online' = [online EXCEPT ![Owner[c]] = c]
    /\ UNCHANGED <<coins, log, pending, workerVars, tasks, refunds, life, dying, bag, delivered, aborted>>

Logout(a) ==
    /\ dying = {}
    /\ online[a] # None
    /\ online' = [online EXCEPT ![a] = None]
    /\ UNCHANGED <<coins, log, pending, workerVars, tasks, refunds, life, dying, bag, delivered, aborted>>

\* Purchases of a character that memory does not know as refunded.
Unrefunded(c) == {id \in DOMAIN log : log[id].guid = c /\ ~log[id].refunded}
MarkRefunded(ids) ==
    log' = [id \in DOMAIN log |-> [log[id] EXCEPT !.refunded = @ \/ id \in ids]]

\* Statements that give back the price of the purchases.
QueueRefund(a, ids, by) ==
    refunds' = IF ids = {} THEN refunds ELSE refunds \cup {[account |-> a, ids |-> ids, by |-> by]}

\* Death runs in a map's update, in parallel with tasks: it reads the log and
\* queues the transaction, and marks the purchases when that was accepted.
DieHardcore(c) ==
    /\ c \in Hardcore /\ online[Owner[c]] = c /\ life[c] = "alive"
    /\ life' = [life EXCEPT ![c] = "dead"]
    /\ dying' = dying \cup Unrefunded(c)
    /\ QueueRefund(Owner[c], Unrefunded(c), "death")
    /\ UNCHANGED <<coins, log, pending, workerVars, tasks, online, bag, delivered, aborted>>

MarkDeath ==
    /\ dying # {}
    /\ MarkRefunded(dying)
    /\ dying' = {}
    /\ UNCHANGED <<coins, pending, workerVars, tasks, refunds, online, life, bag, delivered, aborted>>

DeleteFromDB(c) ==
    /\ dying = {}
    /\ c \in Hardcore /\ online[Owner[c]] # c /\ life[c] # "deleted"
    /\ life' = [life EXCEPT ![c] = "deleted"]
    /\ bag' = [bag EXCEPT ![c] = 0]
    /\ MarkRefunded(Unrefunded(c))
    /\ QueueRefund(Owner[c], Unrefunded(c), "deletion")
    /\ UNCHANGED <<coins, pending, workerVars, tasks, online, dying, delivered, aborted>>

\* Mutant: the item is not taken.
RefundAtNpc_KeepsItem(c, id) ==
    /\ online[Owner[c]] = c /\ life[c] = "alive"
    /\ id \in Unrefunded(c) /\ bag[c] > 0
    /\ MarkRefunded({id})
    /\ QueueRefund(Owner[c], {id}, "npc")
    /\ UNCHANGED <<coins, pending, workerVars, tasks, playerVars, aborted>>

\* The npc takes any item of the purchase's entry.
RefundAtNpc(c, id) ==
    /\ online[Owner[c]] = c /\ life[c] = "alive"
    /\ id \in Unrefunded(c) /\ bag[c] > 0
    /\ bag' = [bag EXCEPT ![c] = @ - 1]
    /\ MarkRefunded({id})
    /\ QueueRefund(Owner[c], {id}, "npc")
    /\ UNCHANGED <<coins, pending, workerVars, tasks, online, life, dying, delivered, aborted>>

UseItem(c) ==
    /\ online[Owner[c]] = c /\ bag[c] > 0
    /\ bag' = [bag EXCEPT ![c] = @ - 1]
    /\ UNCHANGED <<coins, log, pending, workerVars, tasks, refunds, online, life, dying, delivered, aborted>>
-----------------------------------------------------------------------------
(* ShopSendItemTask, in a thread of the world's pool.                      *)

\* The account plays the buyer and he has a place for the item.
DeliverItem(id) ==
    /\ id \in tasks
    /\ online[Owner[log[id].guid]] = log[id].guid
    /\ bag' = [bag EXCEPT ![log[id].guid] = @ + 1]
    /\ delivered' = delivered \cup {id}
    /\ tasks' = tasks \ {id}
    /\ UNCHANGED <<coins, log, pending, workerVars, refunds, online, life, dying, aborted>>

\* He does not, or has not; a purchase that was refunded fails an assertion.
RefundPurchase(id) ==
    /\ id \in tasks
    /\ tasks' = tasks \ {id}
    /\ aborted' = log[id].refunded
    /\ IF log[id].refunded THEN UNCHANGED <<log, refunds>>
       ELSE MarkRefunded({id}) /\ QueueRefund(Owner[log[id].guid], {id}, "task")
    /\ UNCHANGED <<coins, pending, workerVars, playerVars>>
-----------------------------------------------------------------------------
(* The threads of the login database.                                      *)

ExecuteRefund(r) ==
    /\ r \in refunds
    /\ coins' = [coins EXCEPT ![r.account] = @ + Price * Cardinality(r.ids)]
    /\ refunds' = refunds \ {r}
    /\ UNCHANGED <<log, pending, workerVars, tasks, playerVars, aborted>>
-----------------------------------------------------------------------------
(* The shop's thread.                                                      *)

TakeRequests ==
    /\ batch = <<>> /\ pending # <<>>
    /\ batch' = pending /\ pending' = <<>>
    /\ UNCHANGED <<coins, log, nextId, worker, tasks, refunds, playerVars, aborted>>

\* Done with a request, with or without success.
NextRequest == batch' = Tail(batch) /\ worker' = Idle

SendBalance ==
    /\ batch # <<>> /\ Head(batch).guid = None
    /\ NextRequest
    /\ UNCHANGED <<coins, log, nextId, pending, tasks, refunds, playerVars, aborted>>

\* Mutant: off by one.
CanPay_Overdraws(balance) == balance - Price >= -Price
CanPay(balance) == balance > 0 /\ balance - Price >= 0

\* GetBalance; "notenoughtokens" if it is too small.
ReadBalance ==
    /\ worker.at = "idle" /\ batch # <<>> /\ Head(batch).guid # None
    /\ LET balance == coins[Head(batch).account]
       IN  IF CanPay(balance)
           THEN /\ worker' = [at |-> "read", id |-> nextId, newBalance |-> balance - Price]
                /\ nextId' = nextId + 1
                /\ batch' = batch
           ELSE NextRequest /\ nextId' = nextId
    /\ UNCHANGED <<coins, log, pending, tasks, refunds, playerVars, aborted>>

\* UPDATE shop_coins with the new balance.
Pay ==
    /\ worker.at = "read"
    /\ coins' = [coins EXCEPT ![Head(batch).account] = worker.newBalance]
    /\ worker' = [worker EXCEPT !.at = "paid"]
    /\ UNCHANGED <<log, nextId, batch, pending, tasks, refunds, playerVars, aborted>>

\* INSERT INTO shop_logs.
LogPurchase ==
    /\ worker.at = "paid"
    /\ worker' = [worker EXCEPT !.at = "logged"]
    /\ UNCHANGED <<coins, log, nextId, batch, pending, tasks, refunds, playerVars, aborted>>

\* One of the two statements fails, "dberrorcantprocess".
StatementFails ==
    /\ worker.at \in {"read", "paid"}
    /\ NextRequest
    /\ UNCHANGED <<coins, log, nextId, pending, tasks, refunds, playerVars, aborted>>

\* The balance is read again; another one than was written is taken for an error.
CheckBalance ==
    /\ worker.at = "logged"
    /\ IF coins[Head(batch).account] = worker.newBalance
       THEN /\ log' = [id \in DOMAIN log \cup {worker.id} |->
                         IF id = worker.id THEN [guid |-> Head(batch).guid, refunded |-> FALSE]
                         ELSE log[id]]
            /\ worker' = [worker EXCEPT !.at = "listed"]
            /\ batch' = batch
       ELSE NextRequest /\ log' = log
    /\ UNCHANGED <<coins, nextId, pending, tasks, refunds, playerVars, aborted>>

\* Mutant: nothing to do for a buyer who has gone.
AddTask_OnlineOnly ==
    /\ worker.at = "listed"
    /\ tasks' = IF online[Head(batch).account] = Head(batch).guid THEN tasks \cup {worker.id} ELSE tasks
    /\ NextRequest
    /\ UNCHANGED <<coins, log, nextId, pending, refunds, playerVars, aborted>>

AddTask ==
    /\ worker.at = "listed"
    /\ tasks' = tasks \cup {worker.id}
    /\ NextRequest
    /\ UNCHANGED <<coins, log, nextId, pending, refunds, playerVars, aborted>>

Worker == \/ TakeRequests \/ SendBalance \/ ReadBalance \/ Pay \/ LogPurchase
          \/ StatementFails \/ CheckBalance \/ AddTask

Next ==
    /\ ~aborted
    /\ \/ \E a \in Account : RequestBalance(a) \/ RequestPurchase(a) \/ Logout(a)
       \/ \E c \in Character : Login(c) \/ DieHardcore(c) \/ DeleteFromDB(c) \/ UseItem(c)
       \/ \E c \in Character, id \in DOMAIN log : RefundAtNpc(c, id)
       \/ MarkDeath
       \/ \E id \in tasks : DeliverItem(id) \/ RefundPurchase(id)
       \/ \E r \in refunds : ExecuteRefund(r)
       \/ Worker

Spec == Init /\ [][Next]_vars

\* The three kinds of threads run on, and a death comes to its end.
FairSpec ==
    /\ Spec
    /\ WF_vars(~aborted /\ Worker)
    /\ WF_vars(~aborted /\ MarkDeath)
    /\ \A id \in Ids : WF_vars(~aborted /\ (DeliverItem(id) \/ RefundPurchase(id)))
    /\ WF_vars(~aborted /\ \E r \in refunds : ExecuteRefund(r))
-----------------------------------------------------------------------------
(* Correctness.                                                            *)

\* Purchases of c whose item is on its way.
Underway(c) ==
    {id \in tasks : log[id].guid = c} \cup
        IF worker.at = "listed" /\ Head(batch).guid = c THEN {worker.id} ELSE {}

\* A living character never has more items, or items to come, than purchases
\* for which he did not get his coins back.
NoFreeItem ==
    \A c \in Character :
        life[c] = "alive" => bag[c] + Cardinality(Underway(c)) <= Cardinality(Unrefunded(c))

\* A purchase that was logged is delivered or refunded, and every refund is
\* carried out, unless the server aborts.
PurchasesSettled ==
    /\ \A id \in Ids : id \in DOMAIN log ~> aborted \/ id \in delivered \/ (id \in DOMAIN log /\ log[id].refunded)
    /\ refunds # {} ~> aborted \/ refunds = {}

\* A purchase is refunded once: RefundPurchase asserts that its entry is not
\* refunded yet.
RefundedOnce == ~aborted
=============================================================================
