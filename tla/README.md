# Verification of the Tortoise-WoW server

TLA+ models of the parts of this server that decide whether characters keep their gold and
their items, and whether those who wait in a queue get what they wait for: the asynchronous
database layer, saves and logins, trading, the auction house, the shop, the dungeon finder and the
queue of the battlegrounds. TLC checks the models on small instances, TLAPS proves the central results for all values of
the constants. `PROJECT.json` lists the components, the runs, the source lines behind every
definition, the hazards, the findings and the theorems.

## 1. The system

The server is a C++ process (`src/src/mangosd`) that a realm server (`src/src/realmd`) sends
players to. One world thread runs the loop of `World::Update`; maps are updated by a pool of
threads while the world thread waits; database requests are carried out by delay threads.

| Component | State | Operations | What makes it correct |
|---|---|---|---|
| Database layer (`shared/Database`) | shared and serial queues, open transaction of each thread, result queue | Execute, Begin/Commit/Rollback, AsyncQuery, DelayQueryHolder, Update, StopServer | requests of one character keep their order; nothing lost or done twice, also at shutdown; every query is answered |
| Player trading (`Handlers/TradeHandler.cpp`) | a `TradeData` for each player in a trade | initiate, set gold / item / spell, accept, unaccept, cancel | nobody accepts what he has not seen; a trade swaps exactly the offers; gold is kept |
| Auction house (`AuctionHouse`, `Handlers/AuctionHouseHandler.cpp`) | auctions, items held by the house, letters | sell, bid, buy out, cancel, expire, take gold / item from a letter | an item is in one place; losers get their gold back; every auction ends and is settled once |
| Mail (`Mail`, `Handlers/MailHandler.cpp`) | letters, items in them | send, COD, take, return, delete, expire | an item is in one letter; COD pays the sender once |
| Character save and login (`Player::SaveToDB`, `CharacterHandler.cpp`) | character in memory and in the database | periodic save, fast save, logout, login by a query holder | a login reads the last save |
| Login queue (`World.cpp`) | active, queued and disconnected sessions | add, replace, queue, admit, remove | the limit is kept, nobody waits for ever |
| Groups and loot rolls (`Group/Group.cpp`) | members, rolls and votes | roll, vote, leave, timeout | a roll ends once and awards to a member |
| Guild bank (`GuildBank`) | tabs, items, gold, withdrawals | deposit, withdraw, move, split, save | nothing is duplicated between bank and player |
| Battleground queue (`BattleGroundMgr.cpp`) | groups waiting, invitations | join, invite, remind, time out, enter | one invitation counts once; stale events do nothing |
| Looking for turtles (`LFT`) | queue, role checks, offers | join, leave, role check, offer, accept, time out | a player is in at most one offer; a complete offer makes one group |
| Shop (`Shop/ShopMgr.cpp`) | coins in the database, pending requests | balance, buy, deliver, refund | who pays gets the item or the coins back |
| Realm server (`realmd`) | state of an authentication | challenge, proof, reconnect, realm list | no realm list without a proof |

Spells, AI, movement, maps, scripts, bots, chat and commands are content or geometry; they are
listed in `PROJECT.json` with the reason why they are left out.

How the components interact. Handlers change characters in memory and queue statements in the
database layer. `CharacterDatabase.BeginTransaction(guid)` makes the low guid of a character the
*serial id* of a transaction; requests with the same serial id take effect in order, all others
in any order. Trade, the auction house and the mail rely on that for their saves; the login of a
character reads it back with the same serial id. The auction house delivers through letters, and
a character that enters hardcore mode loses auctions and letters by an asynchronous query.

What is hard: the interleaving of submitting threads, workers and the pump of results; a server
that stops while requests are queued; offers that name items and gold their owner may lose
meanwhile; acceptances that cross a change of the offer; auctions that are outbid, bought,
cancelled, closed and purged in any order; purchases that are refunded before they are delivered;
offers and invitations that run out while they are answered, by players who log off, change maps
or leave their party; clients that lose the connection in the middle of it; and unsigned
arithmetic at the limits.

## 2. Modules

| Module | What it is |
|---|---|
| `SerialStore` | abstract specification: numbered requests, done once, in order for each serial id |
| `SqlAsync` | the database layer: queues, workers, transactions, result queue, shutdown |
| `Trade` | trading between players |
| `Auction` | the auction house with its letters and hardcore mode |
| `CharacterSave` | characters between memory and the database: saves, sessions, logins |
| `Lft` | looking for turtles: queue, role checks, offers, the fill with bots |
| `Shop` | coins, purchases, delivery and refunds |
| `BattleGroundQueue` | the queue of a battleground, invitations and their timers |
| `MC...` | model values and sets for TLC, one module for each of these |
| `SerialStoreProofs`, `SqlAsyncProofs`, `TradeProofs`, `AuctionProofs`, `LftProofs`, `ShopProofs`, `BattleGroundQueueProofs`, `CharacterSaveProofs` | theorems and proofs, one module for each of these |

Definitions commented "Mutant" or "A mutant of" are faulty variants of the definition after them; no
specification uses them. Each shows that a property can fail if the code is changed that way.

### SqlAsync

`delayQueue` is `m_delayQueue`, `serialDelayQueue[w]` the `m_serialDelayQueue` of a delay
thread, `trans[t]` the `TransHelper` in thread-local storage, `resultQueue`, `waiting` and `pool`
the three places a callback can be in, `loop`, `stage` and `busy` the position of a worker in
`SqlDelayThread::run` and `ProcessRequests`. `log` is the database's own history. A request is a
number, a serial id and a kind; SQL text and rows are abstracted. Taking a request from a queue,
its effect in the database and the posting of the callback are separate steps, as other threads
may run in between. A transaction takes effect or fails as a whole (`SqlTransaction::Execute`
rolls back). The time budget of `SqlResultQueue::Update` is a choice: each call runs at least one
waiting callback and may then stop. Shutdown follows `StopServer`: stop flags, joins, the
destructors that drain the queues one after the other, `CancelAll`. Taken from the callers:
`CommitTransactionDirect` is used without a serial id, and nothing is submitted while the bodies
are destroyed because `Master` has joined the world thread.

`Store == INSTANCE SerialStore WITH pending <- Pending` maps requests in the queues, and those
dequeued but not yet carried out, to the pending requests of the abstract store.

### Trade

`trade[p]` is `Player::m_trade`. Setting gold, an item or a spell withdraws both acceptances;
gold and items also restart the scam-prevention delay on both sides. `HandleAcceptTrade` follows
the handler from its checks to `moveItems`: refusals before and after the side is marked, spells
that fail, missing space, and the exchange. Players spend and earn gold and lose and gain items
at any time, as everything else in the game does. An inventory is a set of items with `Capacity`
places; of an entry a player may own `MaxCount`, what he wears or has in the bank (`Stored`)
counted. `CanStoreItems` tests this limit for each item alone (`Player.cpp:11722`) and the places for
all together, so `moveItems` can meet an item that no longer may be stored: then both items of the
slot come back, or are lost, or a copy is made (`MoveSlot`, `TakeBack`). Distance, death, bound
items and whether a spell can be cast are choices. Stacks are left out, and with them the case in
which a place marked as used by an item takes a stack as well (`Player.cpp:11745`, `11827`), a second way into
that branch. Three fields (`seen`, `acceptedAt`, `changed`) are history
variables used by properties only.

### Auction

`auctions` is the union of the `AuctionsMap` of all houses, `AItems` is `mAitems`, `mails` the
letters with something in them. One action for each handler, for `AuctionHouseObject::Update`,
for taking gold and items from letters, for `Player::SetupHardcoreMode` and for the answer of its
query for letters. Gold is a `uint32` and `ModifyMoney` takes an `int32`: `UInt` stands for 2^32,
so that small constants reach the same boundaries; `Hundred` stands for 100. The deposit, which
depends on the item's price, is a choice from `Deposits`. Letters to characters that do not exist
are not modelled, all characters exist. Characters are finitely many, so that their gold has a sum.

### CharacterSave

One queue of requests for each character stands for what `SerialStore` promises: in order for one
character, in any order between two. A save carries the purse as a value and the items received
since the last save; carrying it out writes `money` and moves the rows in `owner`. `Trade` is the
end of `HandleAcceptTradeOpcode`, with one item or one gold given. `session`, `inWorld` and the
queues follow `World::AddSession_`, `WorldSession::Update`, `ForcePlayerLogoutDelay`,
`UpdateDisconnected`, `LogoutPlayer` and the two halves of a login; a character without a client
stays in the world until he is taken over or his time is up. `left` and the field `stale` are
history. A save that fails, a crash, bots, and characters between two maps at a login are left out.

### Lft

`queue`, `rolechecks`, `offers`, `playerOffers` and `fillBots` are the maps of `LFTManager`; `queue`
is kept in the order of `queueOrder`, which decides who is matched. `LftUpdate` is the whole of `Update`, from the
role checks that run out to the fill with bots, and every handler ends in `TryMakeOffers` where the
code does. Groups are those of `Group.cpp` as far as parties go: the finder's players can be
invited, leave, log off and change maps (`GetPlayer` does not find them then) at any time. A party
is a tank, a healer and `DamageSlots` fighters. A handler is an operator from one state of the
manager to the next (a record, `Now` for the variables), because handlers call one another half way;
a loop over a list is a `FoldLeft`, one over a `std::map` a `FoldAscending`, each with its body as an
operator of its own. Who may be in a group with whom is `CanPlayersGroup`: the same faction and mode
(`Side`) and, for hardcore characters, at most five levels apart. The matcher compares each candidate
with the seed alone, and by faction and mode alone while one of the two is between maps
(`CanQueuedPlayersGroup`); `AddPlayerToGroup` compares each member with the leader again. Bots are
chosen from the level windows of the role, idle ones first, then from a party of bots, then by a respec.
Levels and hardcore mode do not change, and every bot is a candidate for the finder. Who logs out with a socket leaves his party,
after the bots and the absent in it; without one he stays. `MaxOffers` bounds the offers of a behaviour, so that no id is used twice:
`m_nextOfferId` wraps after 2^32 offers, and an offer lives for at most 90 seconds.

### Shop

Three threads: the world thread (requests, deaths, deletion, the refund npc, delivery tasks), the
shop thread (`BuyItem`, one action for each statement, so that others run in between) and a
worker that carries out queued refunds. `coins` is the row in the database, `log` the entries of
`m_shopLogs`, `tasks` the deliveries that wait, `bag` the shop items a character has. Statements may
fail, and `aborted` says that the assertion in `RefundPurchase` ended the server.

### BattleGroundQueue

`queue` is `m_QueuedGroups`, `status`, `invited` and `free` the battlegrounds, their counters of
invited players and the list of those with room, `events` the removal events in a player's queue of
events, `slot` what he is told of. The update of the queue is `BattleGroundQueue::Update`: fill up what runs, then make a match. A player logs
off and on, changes maps, flies, answers late or not at all. The unsigned counters wrap at `CounterSpace`. The list of a team's parties is a sequence; a
party is found by its place in it, as the code finds it by a pointer, and `PlayerCount` counts the
players of a pool as pairs of a place and a player, so that it is the sum of the parties' sizes. `missed` and `joins` are history.

## 3. Runs

| Run | Instance | Shows |
|---|---|---|
| `sql` | 2 threads, 2 workers, serial ids 0 and 1, 2 requests, both kinds of query, 1 failure | order, exactly once, drained at halt, callbacks once and in order, the invariant of the proofs; `SqlAsync` implements `SerialStore` |
| `sql_live` | 1 thread, 2 workers, 2 requests, both kinds of query | requests are executed, queries answered, the server stops |
| `trade` | 3 players, 2 items of an entry limited to 2, bags of 2, gold to 1, a spell | trades are paired, acceptances match what was seen and came in a later second, gold is kept, items exist once, a trade takes nothing else than the offers and delivers them within the limits |
| `auction_bids` | 3 characters, 2 houses, prices 1-3, deposits | bids in range, no gold made, losers keep their gold, auctions end |
| `auction_items` | 3 characters, 2 items, 2 auctions, limit of 1 for each account | items in one place, each auction settled by exactly the letters and amounts due |
| `lft` | 3 players of 2 factions and a bot, hardcore levels 20, 25 and 30, parties of 3 | offers are whole parties of one faction and mode and both indices agree, who accepted keeps his place, offers end, bots are released |
| `shop` | an account with two characters, up to 3 purchases, statements that fail | coins never below zero, nothing kept that was paid back, every logged purchase delivered or refunded |
| `shop_refund` | violation | the assertion in `RefundPurchase` fails |
| `bg` | 3 players, alone or in pairs, 1 to 2 a side, one who moves and logs off | counters equal the places held, every invitation is timed and stands until its time |
| `bg_count` | violation | a member who changes maps when his party is invited is given back without having been counted |
| `saves` | 2 characters, 1 item, gold to 1, 2 waiting requests or results each | a login gives the purse the character left with |
| `saves_relog` | 3 waiting requests or results each, violation | an item that was traded is loaded again by the giver |

Why the bounds are enough to be interesting. Two workers are the least that can reorder; with two
requests a serial request can be overtaken, the shared queue can be drained by the wrong worker,
and one request can arrive between the last pass of a worker and its join. (With three requests of
one thread all seven properties hold as well: 4,267,374 states, too slow to keep.) Two seconds let an
acceptance fall into and after the second of a change; three players let a third one interfere
with a pair. Two items of one entry and a limit of two: the third player has one in the bank, so he
may take one more and both items pass `CanStoreItems`; the second then fails in `moveItems` and comes
back. The second player has two in the bank and can take none.
In `auction_bids` prices 1 to 3 give a first bid, an overbid, an own raise and a buyout, and gold
meets its limit of 5; in `auction_items` two auctions can close in one `Update` and a character can
own one while he wins the other. In `lft` a party of three needs the bot, which
can take either role that the first player can, so that two characters compete for one role while another stays
open. The tank (level 25) may be grouped with both others, they (20 and 30) not with each other: when the
tank leads a party, an offer completes; when all queue alone, the first one is the leader and the completion
fails half way. The fourth character, a tank of the other faction, is what the test of the sides keeps out,
also while the other tank is between two maps. Role checks have one step and offers two, so that a deadline
falls before, between and after the answers, and a completion can teleport none, some or all of the party;
two offers let one be cancelled and made again. In `shop` three purchases let
one be paid, one be delivered and one be refunded at a time. In `bg` a battleground for one to two a
side can be started, filled up and left, and two steps of time let an invitation be renewed before
the first one's removal runs (three players with four joins and four players with three joins hold
too, 1.2 and 1.7 million states). In `saves` two waiting requests are the save of a logout and the
query of the login that follows it; with three, which adds the query of a session that was dropped,
the property holds as well (8,309,893 states, too slow to keep).
Named bounds: `MaxOps`, `MaxFailures`, `MaxTime`, `MaxAuctions`,
`MaxGold`, `MaxQueue`, `MaxOffers`, `MaxBgs`, `MaxJoins` and `MaxPurchases`.

Symmetry: the threads are interchangeable in `SqlAsync`, items in `Trade`, players and items in `Auction`
(each character has an account of his own and all have the same home). It is used for safety only.

Deadlock is checked except in the auction and the shop runs: when the clock has reached its bound
and no auction is open, a house at which nobody does anything rests; and the server of `Shop` stops
when the assertion fails.

Fairness. `SqlAsync`: weak fairness of each worker, of the pump, of the callback pool and of the
shutdown, which the operating system's scheduler and the world loop give; callers owe nothing,
and nothing forces `StopServer`. `Auction`: weak fairness of the clock and of `Update`, which
`World::Update` calls by a timer. `Lft`: weak fairness of the steps of `Update` that move the timer of
the fill with bots, as the world loop calls it for ever. `Shop`: weak fairness of the shop thread, the
second half of a death, each delivery task and the queued refunds, as long as the server runs. `Trade`, `BattleGroundQueue` and `CharacterSave` have no liveness:
players owe nothing.

## 4. Proofs

All theorems are proved by TLAPS from the named assumptions on the constants (at least one
worker, serial ids are natural numbers with 0, sizes are natural numbers, guid 0 is nobody,
`MAX_MONEY_AMOUNT` is below 2^31, items and players are finitely many, a party is of one team and no
larger than a side, and a counter can count two full sides). They hold for any number of threads, characters, items, requests and steps.

**Database layer** (`SqlAsyncProofs`, `SerialStoreProofs`)

* `LayerImplementsStore`, `LayerKeepsOrder`, `HaltDrains`, `TypeCorrect`. The order in the log is
  not inductive. `QueueInv` adds why it is kept: each queue is sorted by request number, a serial
  queue holds only serial ids of its own worker, the request in a worker's hands precedes what is
  left in its queue and is in nobody else's, nothing serial is queued during startup, and a
  destroyed body has an empty queue. `QueuesStaySorted` proves it. With it each step is a step or
  a stutter of `SerialStore`, whose own theorem `StoreKeepsOrder` then carries over.
* `EffectsInOrder` (`SerialOrder`) and `EffectsOnce` (`ExactlyOnce`) follow from the refinement and `QueueInv`.
* `CallbacksInOrder` (`CallbacksOnceInOrder`). `CallbackInv` follows an answer from the worker that
  executed it through result queue, waiting list and pool: everything there was logged, no answer
  is there twice, and those of one serial id are in order, queue after queue, what a worker has
  still to post last. The order between what was delivered and what waits holds only until the
  server halts: `CancelAll` passes the waiting list by, which then never runs.

**Trade** (`TradeProofs`)

* `WindowsSafe`, `TradesArePairs` (`Mutual`), `LookedBeforeAccepting` (`AcceptedAfterLook`), `TradeTypeCorrect`. `Inv`
  says of each pair of players in a trade that they name each other, that an acceptance was given
  for the present offers, and that it came after the last change by the clock of both sides. A
  lemma shows that any change of two records that fit keeps all other pairs; the actions are
  instances of it.
* `NoItemTwice` (`ItemsOnce`) and `OffersDelivered` (`DeliversTheOffers`). `SlotsInv`: an item is in at most one
  slot of an offer. `moveItems` is a recursion over slots; an explicit solution is given and
  shown to be the only one, by a least counterexample in the natural numbers instead of the
  induction theorem the provers cannot apply. `BagsOK` holds before each slot, whichever branch
  the slots before took: what was not given is still there, nothing is in two bags, and the bags
  hold no more than their places. That the offers arrive is proved for trades after which
  neither side has more of an entry than it may own (`WithinLimits`): then the count of places in
  `CanStoreItems` covers every slot. Beyond the limits items can come back, be lost or be copied (section 5).
* `GoldIsKept` is an action property: two exchanges of gold through `ModifyMoney`.

**Auction house** (`AuctionProofs`)

* `HouseKeepsItems`, `HouseTypeCorrect`, `BidsStayInRange`. `TypeOK`, `ItemsOnce` and `BidsInRange` are
  inductive together: that a bid is below the buyout is needed for the price of a buyout, ids
  below `nextId` for a new auction's id. Each handler either opens an auction or closes some and
  delivers letters; `Delivery` is the lemma for the second.
* `AuctionsSettledOnce` (`Settled`), under `SmallPrices` (below). `Settled` names the letters a step sends about an
  auction it closes and what it takes from a purse: sold to the highest bidder for his bid, bought out by
  somebody for the buyout (less his own bid, and the bid of another goes back to him), expired without a bid, or
  taken back for the cut; nothing else and nobody else. `LettersInv`: no open auction has a letter that says "sold", "won",
  "expired" or "returned", and nobody holds the bid on his own auction; `GoldInv` adds that a refund
  due is not among the letters already sent and that no amount wraps. So the letters of a step that closes an auction are
  new, and `LettersAbout` separates them from those of the others that close in the same `Update`.
* `HouseMakesNoGold` (`NoGoldMade`) and `HouseKeepsBids` (`BiddersKeepTheirGold`), under the hypothesis
  `SmallPrices`: a price and a deposit together are at most `MaxMoney` (both runs satisfy it; beyond
  it gold can be made, see section 5). The properties add gold up by folds over sets of letters and auctions. A
  sum is therefore defined a second time, as the number of coins: the cardinality of the set of pairs of an
  element and a number up to its weight. `FoldIsSum` shows by induction over finite subsets (a least
  counterexample of a well-founded order) that the fold computes it, whatever order it takes;
  `SumSplit`, `SumParts` and `SumTogether` then follow from the library's facts on cardinality. The
  inductive invariant `GoldInv` says that no purse, letter, or bid or buyout with its deposit exceeds
  `MaxMoney` (so that `ModifyMoney` never takes an amount for a negative one), that a letter holds gold or an item, and
  that a letter due for an open auction is not among those already sent (letters are a set: one sent twice would
  lose its gold). Each handler moves gold between purses, letters, bids and deposits; what it pays
  out is bounded by what it closes.

**Dungeon finder** (`LftProofs`)

* `TypeSafe` (`TypeOK`), `OffersSafe` (`OffersAgree`), `PlaceSafe` (`KeepsPlace`), from `InvHolds`. The inductive
  invariant is `Now \in Good`, a set of states rather than a formula on the variables, because an `Update` passes
  through many states that no behaviour shows and each handler has to keep `Good` from any of them.
  `Good` adds to the two invariants what they need: entries, answers and roles are ones the
  character's class allows (else an offer could hold a role its member may not take), ids
  in use are below `nextOfferId` (else a new offer could overwrite an open one), members of
  offers are of one faction and mode (each as the seed, whatever the levels), and the parties of `Group.cpp` are disjoint. That the state stays in a set `A` through a walk is
  stated once for each walk (`FoldIn`, `AcceptOffersIn`, `DropUnneededIn`, `FillPendingIn`, `PurgeOffersIn`) for any `A`
  that each step of the walk maps into itself.
* `KeepsPlace` uses the same lemmas with other sets: `Held` (somebody's offer is open, he has accepted and
  somebody has not who is no bot, or is a bot between two maps) is kept by the fill with bots, whose acceptances cannot complete the offer;
  `Keeping` (he is queued, and in no offer that he has not accepted) by the purges and the cancellations that follow.

**Saves and logins** (`CharacterSaveProofs`)

* `LoginGivesPurse` (`LoginAsLeft`). For a character out of the world the newest save that waits carries
  the gold he left with; if none waits the database has it; and every login query behind that
  save, unless it is marked stale, reads it, as does every answer already given.

**Shop** (`ShopProofs`)

* `NoItemForNothing` (`NoFreeItem`) and `ShopTypeCorrect` (with the balance never below zero). The invariant states
  for each position of `BuyItem` what holds there (the purchase is not in the log until it is listed;
  the balance about to be written is below the one in the database, which only this thread
  reduces), that a refund by death is of a dead character's purchase and any other of one marked
  refunded, that no purchase is in two refunds of a kind, and that the coins of an account and those on
  their way to it are bounded by what it began with and the purchases paid back. A purchase can be
  paid back twice, which is why the bound counts by cause (finding 1).

**Battleground queue** (`BattleGroundQueueProofs`)

* `QueueTypeCorrect`, `CountersCountHolders` (`CountKept`), `InvitationsTimed` (`AlwaysTimed`), `InvitationsStand`
  (`InvitationStands`), from one invariant `QueueInv`: parties are of one team and disjoint; who is in the
  queue and not offline is told of nothing or of his party's invitation, and then its timer runs; nobody who holds a place
  is on his way into a battleground; a battleground that does not exist holds no places, and
  they are made in order; and each counter is the number of those who hold a place there. Its
  parts are stated of any queue, counters, slots and events, because an update passes through many
  that no state shows. The folds of the update are handled by `FoldExists` and `FoldInvariant`; the removal of
  late players, the filling of what runs and the making of a match each keep the parts (`Good`),
  and `SeatsKept` says that none of them moves a place that stands.

Checked by TLC only:

* Liveness (`sql_live`, `AuctionsEnd`, `OffersEnd`, `FillBotsReleased`, `PurchasesSettled`): out of the prover's reach.

The three properties of the runs that expect a violation are false of the code and have no theorem. All
other properties the runs check are theorems.

## 5. Findings

With a run:

1. `RefundPurchase` asserts that the purchase was not refunded, but death, deletion and the refund
   npc can refund it while its delivery task waits: the server ends (`shop_refund`).
2. `InviteGroupToBG` does not count a member who is not in the world, `RemovePlayer` gives his
   place back: an unsigned counter falls below zero (`bg_count`).
3. The row of a traded item is moved by the receiver's save only, in another serial queue than the
   giver's relog: both may hold the item (`saves_relog`).

Without a run (the models behave this way, their properties make room for it, or the code was
read only):

* `SqlResultQueue::CancelAll` (`SqlOperations.cpp:171`) does not look at
  `_threadUnsafeWaitingQueries`: callbacks left by the time budget of the last `Update` are neither
  run nor deleted at shutdown.
* `HandleAcceptTradeOpcode` returns from three of its checks (`TradeHandler.cpp:325`, `346`, `354`)
  without the undo that its comment announces ("set before checks to properly undo at problems"):
  the refused side stays accepted.
* `CanStoreItems` tests the limit of an entry for each item alone (`Player.cpp:11722`), `moveItems` again for
  each item after the ones before it are stored. Two items for somebody who may take one pass the
  first test; the second comes back to the giver while the gold and the other items
  have changed hands. If the giver cannot store it either it is neither
  in a bag nor deleted, and as one vector of places serves both tests (`TradeHandler.cpp:222-246`), the place found for the item
  that did not come may receive a copy of the one that comes back.
* The seller's letter holds a `uint32`, taking it passes an `int32` (`MailHandler.cpp:855`): bid and
  deposit of 2^31 or more together are taken from the seller instead of given. It needs a bid at
  the very limit of gold, an auction without buyout, and a cut below the deposit. At exactly 2^31-1,
  one more than `MAX_MONEY_AMOUNT`, the limit in `ModifyMoney` (`Player.cpp:16465`) wraps and lets the purse grow
  beyond it; a bid above 2^31 from such a purse is then no longer a negative `int32`, and gold is
  made. `NoGoldMade` fails in an instance whose prices reach that far.
* `GetAuctionCut` (`AuctionHouseMgr.cpp:981`) multiplies two `uint32` before it divides. The shipped
  `Rate.Auction.Cut = 0` hides it; the default in `World.cpp` is 1.
* When a seller enters hardcore mode his auctions disappear with the bids in them, and their rows
  stay in the database.
* `LFTManager::CompleteOffer` (`LFTQeueue.cpp:649`) takes as leader the one named in the queue entry
  of any matched player, who may have left queue and party long ago: he becomes a member without
  an offer, although "真人仍须自己确认" (`docs/integration/lft-bot-fill.md:3`).
* The matcher compares a hardcore candidate's level with the seed's only (`LFTQeueue.cpp:446`), and a limit of
  five levels (`Player.cpp:25166`) is not transitive; nor need the seed be in the offer. Characters of levels
  20, 25 and 30 get an offer; if the leader is not the one in the middle, `AddPlayerToGroup` refuses a
  member when all have accepted, the group begun stays and all lose their place in the queue. While one of two is between
  maps the levels are not compared at all.
* `ShopMgr::BuyItem` writes the balance as an absolute value (`ShopMgr.cpp:259`): a refund between
  reading and writing is lost. When the log's statement fails or the balance read again
  differs (`269`), the coins are gone and no log knows of them. `m_shopLogs` is used by both threads
  without a lock (`ObjectMgr.h:1479`).
* Battleground queue: with premade queues switched on, `CheckNormalMatch` increments an end
  iterator and `CheckPremadeMatch` leaves the selection pools filled, so that a party may count
  twice; a member between two maps when the queue pops stays invited without an invitation;
  a slot stays when the battleground is deleted during the port; `IsAllQueuesEmpty` reads past the
  array; `RemovePlayerAtLeave` changes counters from a map thread without the lock.
* A character without a client who expires between a login query and its answer is loaded as he
  was before his last save (`CharacterHandler.cpp:734`); `stale` in `CharacterSave` marks these. An item
  that is traded away and back may have its row moved in the wrong order by the two queues. A crash
  between the two saves of a trade makes or loses gold.

## 6. Not modelled

Everything with status `not_modelled` in `PROJECT.json`; loot rolls, the login queue, the guild
bank and letters between players are the parts with the most protocol among them. Most of the
repository is content (scripts, spells, AI, commands), bots and vendored libraries.

Within the modelled parts: SQL text, synchronous queries, ping, the completion callback a statement
may carry (run by the worker right after it); stacks, bags in bags and bound items; lists and
searches of the auction house, the account's IP lock (used in lists only), `LoadAuctions`, deleted
characters, letters between players, database rows of auctions; listings of the finder,
`SeedBotOnlyQueue`, `TeleportBotGroupToInstance`, raids, lasting respecs, levels gained while queued; accounts without a row in the
shop, eggs, learned items, refund window and categories, refunds by game masters; premade queues,
Alterac Valley, several battleground types at once, choice of an instance, deserters, arenas, and
the time between the deletion of a battleground and of its map; crashes and database errors at
saves, saves delayed by teleports.

## 7. Plan

Done, in this order: the models `SerialStore` and `SqlAsync`; `Trade`; `Auction`; `Lft`; `Shop`;
`BattleGroundQueue`; `CharacterSave`. Then the proofs of all their safety properties. What would come next
are components: the guild bank, loot rolls, the login queue and letters between players (section 6), each with
its model, its run and its theorems.
