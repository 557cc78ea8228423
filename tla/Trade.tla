------------------------------- MODULE Trade -------------------------------
(***************************************************************************)
(* Trading between two players: the handlers of game/Handlers/             *)
(* TradeHandler.cpp, class TradeData and Player::TradeCancel.  Each player *)
(* in a trade owns a TradeData with what he offers; all the handlers run   *)
(* on the thread of the map, one at a time.                                *)
(*                                                                         *)
(* An inventory is a set of items with Capacity places (stacks and kinds   *)
(* of bags are abstracted); of some entries a player may own only so many. *)
(* Where a check depends on something outside the trade (distance, being   *)
(* alive, whether an item is bound, whether a spell can be cast) either    *)
(* outcome is possible.                                                    *)
(***************************************************************************)
EXTENDS Naturals, FiniteSets

CONSTANTS Player,       \* the players of the map
          Item,         \* item guids
          NoItem,       \* the empty guid
          Spells,       \* spells that can be cast on an item
          TradedCount,  \* TRADE_SLOT_TRADED_COUNT
          Capacity,     \* places of an inventory
          Entry,        \* ItemId: what each item is one of
          MaxCount,     \* how many of an entry a player may own; 0: any number
          Stored,       \* how many a player has worn or in the bank
          MaxMoney,     \* MAX_MONEY_AMOUNT
          MaxTime       \* bound: the last second of a behaviour

ASSUME ItemAssumption == NoItem \notin Item \cup Player /\ IsFiniteSet(Item)
ASSUME SpellsAssumption == Spells \subseteq Nat \ {0}
ASSUME SizesAssumption ==
    TradedCount \in Nat /\ Capacity \in Nat /\ MaxMoney \in Nat /\ MaxTime \in Nat
Entries == {Entry[i] : i \in Item}
ASSUME EntryAssumption ==
    MaxCount \in [Entries -> Nat] /\ Stored \in [Player -> [Entries -> Nat]]

VARIABLES
    now,        \* time(nullptr), in seconds
    money,      \* each player's gold
    inv,        \* each player's inventory
    trade       \* m_trade: each player's TradeData or NoTrade

vars == <<now, money, inv, trade>>

-----------------------------------------------------------------------------

\* Slots TRADE_SLOT_TRADED_COUNT of traded items and, last, TRADE_SLOT_NONTRADED.
Traded == 0 .. TradedCount - 1
NonTraded == TradedCount
Slots == 0 .. TradedCount

SlotItems == [Slots -> Item \cup {NoItem}]
SpellIds == Spells \cup {0}
Offers == (0 .. MaxMoney) \X SlotItems \X SpellIds

\* The last three fields are history: what the player's window showed when he accepted
\* and when that was, and when the gold or the items of either side last changed.
TradeData == [trader : Player, accepted : BOOLEAN, money : 0 .. MaxMoney,
              items : SlotItems, spell : SpellIds, lastModificationTime : Nat,
              seen : (Offers \X Offers) \cup {<< >>}, acceptedAt : Nat, changed : Nat]

NoTrade == [trader |-> NoItem]

NewTradeData(q) ==
    [trader |-> q, accepted |-> FALSE, money |-> 0, items |-> [s \in Slots |-> NoItem],
     spell |-> 0, lastModificationTime |-> 0, seen |-> << >>, acceptedAt |-> 0,
     changed |-> 0]

InTrade(p) == trade[p] # NoTrade
Partner(p) == trade[p].trader

\* Mutant: the item is kept by pointer instead of being looked up.
GetItem_Kept(p, s) == trade[p].items[s]

\* TradeData::GetItem: the guid is looked up in what the owner has now.
GetItem(p, s) == IF trade[p].items[s] \in inv[p] THEN trade[p].items[s] ELSE NoItem

Given(p) == {GetItem(p, s) : s \in Traded} \ {NoItem}

\* The gold, the items and the spell that player p offers, and what his window shows.
Offer(p) == <<trade[p].money, trade[p].items, trade[p].spell>>
Window(p) == <<Offer(p), Offer(Partner(p))>>

\* SetAccepted(false) and SetLastModificationTime.
Unaccepted(d) == [d EXCEPT !.accepted = FALSE, !.seen = << >>, !.acceptedAt = 0]
ModifiedAt(d, t) == [d EXCEPT !.lastModificationTime = t]

\* Mutant: only the other side is no longer accepted.
SetMoney_OtherOnly(mine, his, gold) ==
    IF mine.money = gold THEN <<mine, his>>
    ELSE <<[mine EXCEPT !.money = gold, !.changed = now],
           Unaccepted([his EXCEPT !.changed = now])>>

\* TradeData::SetMoney, SetSpell and SetItem: no effect when nothing changes, else both
\* sides are no longer accepted.  Each takes both records and gives both.
SetMoney(mine, his, gold) ==
    IF mine.money = gold THEN <<mine, his>>
    ELSE <<Unaccepted([mine EXCEPT !.money = gold, !.changed = now]),
           Unaccepted([his EXCEPT !.changed = now])>>

SetSpell(mine, his, spell) ==
    IF mine.spell = spell THEN <<mine, his>>
    ELSE <<Unaccepted([mine EXCEPT !.spell = spell]), Unaccepted(his)>>

SetItem(mine, his, s, item) ==
    IF mine.items[s] = item THEN <<mine, his>>
    ELSE <<Unaccepted([mine EXCEPT !.items[s] = item, !.spell = 0, !.changed = now]),
           Unaccepted([his EXCEPT !.spell = IF s = NonTraded THEN 0 ELSE @,
                                  !.changed = now])>>

\* The records of p and of his partner become both[1] and both[2].
SetBoth(p, both) ==
    trade' = [trade EXCEPT ![p] = both[1], ![Partner(p)] = both[2]]

-----------------------------------------------------------------------------
(* Opening and closing.                                                    *)

HandleInitiateTrade(p, q) ==
    /\ ~InTrade(p)
    /\ q # p /\ ~InTrade(q)
    /\ trade' = [trade EXCEPT ![p] = NewTradeData(q), ![q] = NewTradeData(p)]
    /\ UNCHANGED <<now, money, inv>>

\* Mutant: the partner's TradeData is forgotten.
TradeCancel_OneSide(p) ==
    /\ InTrade(p)
    /\ trade' = [trade EXCEPT ![p] = NoTrade]
    /\ UNCHANGED <<now, money, inv>>

\* Player::TradeCancel, which HandleIgnoreTrade, HandleBusyTrade, HandleCancelTrade,
\* logout, teleport, a taxi and moving away call.
TradeCancel(p) ==
    /\ InTrade(p)
    /\ trade' = [trade EXCEPT ![p] = NoTrade, ![Partner(p)] = NoTrade]
    /\ UNCHANGED <<now, money, inv>>

-----------------------------------------------------------------------------
(* Changing the offers.                                                    *)

\* Mutant: the partner's time of modification is not set.
HisTouched_NoTime(p) == Unaccepted(trade[Partner(p)])

\* What the three handlers do before they change their own side.
HisTouched(p) == ModifiedAt(Unaccepted(trade[Partner(p)]), now)
MineTouched(p) == ModifiedAt(trade[p], now)

HandleSetTradeGold(p, gold) ==
    /\ InTrade(p)
    /\ gold <= money[p]
    /\ SetBoth(p, SetMoney(MineTouched(p), HisTouched(p), gold))
    /\ UNCHANGED <<now, money, inv>>

HasItem(p, item) == \E s \in Slots : trade[p].items[s] = item

HandleSetTradeItem(p, s, item) ==
    /\ InTrade(p)
    /\ item \in inv[p]
    /\ ~HasItem(p, item)
    /\ SetBoth(p, SetItem(MineTouched(p), HisTouched(p), s, item))
    /\ UNCHANGED <<now, money, inv>>

HandleClearTradeItem(p, s) ==
    /\ InTrade(p)
    /\ SetBoth(p, SetItem(MineTouched(p), HisTouched(p), s, NoItem))
    /\ UNCHANGED <<now, money, inv>>

\* Spell::CheckCast of a spell whose target is the other side's last slot: the trade
\* remembers it.  The times of modification are not touched.
CastOnTradeItem(p, spell) ==
    /\ InTrade(p)
    /\ SetBoth(p, SetSpell(trade[p], trade[Partner(p)], spell))
    /\ UNCHANGED <<now, money, inv>>

HandleUnacceptTrade(p) ==
    /\ InTrade(p)
    /\ trade' = [trade EXCEPT ![p] = Unaccepted(@)]
    /\ UNCHANGED <<now, money, inv>>

-----------------------------------------------------------------------------
(* HandleAcceptTradeOpcode.                                                *)

\* difftime counts whole seconds, so the delay of 200 ms is over in the next second.
ScamPreventionDelay == 200
DelayOver(p) == (now - trade[p].lastModificationTime) * 1000 >= ScamPreventionDelay

\* The player's record once the handler has marked it as accepted.
Accepted(p) ==
    [ModifiedAt(trade[p], now) EXCEPT !.accepted = TRUE, !.seen = Window(p), !.acceptedAt = now]

\* Mutant: the gold is checked only when it is offered.
PaysFor_Unchecked(p) == TRUE

PaysFor(p) == trade[p].money <= money[p]

\* What every branch of the handler has in common.
BeginAccept(p) ==
    /\ InTrade(p)
    /\ DelayOver(p)

\* Too far away, a game master, or an item that can no longer be traded: the handler
\* returns and the side stays accepted.
AcceptRefused(p) ==
    /\ BeginAccept(p)
    /\ trade' = [trade EXCEPT ![p] = Accepted(p)]
    /\ UNCHANGED <<now, money, inv>>

\* The player's own gold does not suffice, or a script (OnTradeAccept) forbids the trade.
AcceptWithdrawn(p) ==
    /\ BeginAccept(p)
    /\ ~PaysFor(p) \/ PaysFor(Partner(p))
    /\ trade' = [trade EXCEPT ![p] = Unaccepted(Accepted(p))]
    /\ UNCHANGED <<now, money, inv>>

AcceptPartnerShort(p) ==
    /\ BeginAccept(p)
    /\ PaysFor(p) /\ ~PaysFor(Partner(p))
    /\ trade' = [trade EXCEPT ![p] = Accepted(p), ![Partner(p)] = Unaccepted(@)]
    /\ UNCHANGED <<now, money, inv>>

AcceptFirst(p) ==
    /\ BeginAccept(p)
    /\ PaysFor(p) /\ PaysFor(Partner(p))
    /\ ~trade[Partner(p)].accepted
    /\ trade' = [trade EXCEPT ![p] = Accepted(p)]
    /\ UNCHANGED <<now, money, inv>>

BothAccept(p) ==
    /\ BeginAccept(p)
    /\ PaysFor(p) /\ PaysFor(Partner(p))
    /\ trade[Partner(p)].accepted

\* A spell needs the item in the other side's last slot; CheckCast may fail as well.
\* The player's own spell is tested first.
SpellTargetGone(p) == trade[p].spell # 0 /\ GetItem(Partner(p), NonTraded) = NoItem

AcceptSpellFails(p) ==
    /\ BothAccept(p)
    /\ LET q == Partner(p)
       IN  \/ /\ trade[p].spell # 0
              /\ SetBoth(p, SetSpell(Accepted(p), trade[q], 0))
           \/ /\ ~SpellTargetGone(p)
              /\ trade[q].spell # 0
              /\ LET both == SetSpell(trade[q], Accepted(p), 0)
                 IN  SetBoth(p, <<both[2], both[1]>>)
    /\ UNCHANGED <<now, money, inv>>

SpellsCanBeCast(p) == ~SpellTargetGone(p) /\ ~SpellTargetGone(Partner(p))

\* Player::GetItemCount of an entry, the bank included, when the bags hold `bag`.
GetItemCount(p, bag, entry) == Cardinality({i \in bag : Entry[i] = entry}) + Stored[p][entry]

CanTakeMoreSimilarItems(p, bag, item) ==
    LET max == MaxCount[Entry[item]] IN max = 0 \/ GetItemCount(p, bag, Entry[item]) + 1 <= max

\* Player::CanStoreItems while the items of both sides are marked as in trade: the
\* places of the items that p gives away count as free.  The limit of an entry is tested
\* for each item alone, against all that p still has.
CanStoreItems(p) ==
    /\ \A item \in Given(Partner(p)) : CanTakeMoreSimilarItems(p, inv[p], item)
    /\ Cardinality(inv[p] \ Given(p)) + Cardinality(Given(Partner(p))) <= Capacity

AcceptNoSpace(p) ==
    /\ BothAccept(p)
    /\ SpellsCanBeCast(p)
    /\ ~CanStoreItems(p) \/ ~CanStoreItems(Partner(p))
    /\ trade' = [trade EXCEPT ![p] = Unaccepted(Accepted(p)),
                              ![Partner(p)] = ModifiedAt(Unaccepted(@), now)]
    /\ UNCHANGED <<now, money, inv>>

\* Mutant: the last free place is not used.
CanStoreItem_LastPlace(p, bag, item, taken) ==
    item = NoItem \/ (CanTakeMoreSimilarItems(p, bag, item) /\ Cardinality(bag) + taken + 1 < Capacity)

\* Player::CanStoreItem of one item, when `taken` free places are already spoken for.
CanStoreItem(p, bag, item, taken) ==
    item = NoItem \/ (CanTakeMoreSimilarItems(p, bag, item) /\ Cardinality(bag) + taken < Capacity)

Store(bag, item) == bag \cup ({item} \ {NoItem})

\* Item::CloneItem: a guid that nobody has, as long as Item has one.
Clone(item, used) ==
    LET free == {i \in Item \ used : Entry[i] = Entry[item]}
    IN  IF free = {} THEN {} ELSE {CHOOSE i \in free : TRUE}

\* The item that comes back; it is lost if it cannot be stored.  The vector of places
\* may still hold the one that was found for the item `instead` of it: that one stays
\* spoken for, and StoreItem puts a copy there.
TakeBack(p, bag, item, instead, used) ==
    LET found == instead # NoItem /\ CanStoreItem(p, bag, instead, 0)
    IN  IF item = NoItem \/ ~CanStoreItem(p, bag, item, IF found THEN 1 ELSE 0) THEN bag
        ELSE Store(bag, item) \cup (IF found THEN Clone(item, used) ELSE {})

Owned == UNION {inv[r] : r \in Player}

\* One slot of moveItems, for the inventories of p and of his partner: both items change
\* sides or both come back.
MoveSlot(p, bags, s) ==
    LET q == Partner(p)
        give == GetItem(p, s)
        get == GetItem(q, s)
        used == Owned \cup bags.mine \cup bags.his
        back == TakeBack(p, bags.mine, give, get, used)
    IN  IF CanStoreItem(q, bags.his, give, 0) /\ CanStoreItem(p, bags.mine, get, 0)
        THEN [mine |-> Store(bags.mine, get), his |-> Store(bags.his, give)]
        ELSE [mine |-> back, his |-> TakeBack(q, bags.his, get, give, used \cup back)]

\* moveItems: the inventories after the first n slots.
MoveItems(p) ==
    LET moved[n \in 0 .. TradedCount] ==
            IF n = 0 THEN [mine |-> inv[p] \ Given(p), his |-> inv[Partner(p)] \ Given(Partner(p))]
            ELSE MoveSlot(p, moved[n - 1], n - 1)
    IN  moved[TradedCount]

\* Mutant: gold is added without a bound.
Receive_Unbounded(gold, d) == gold + d

\* Player::ModifyMoney: stops at 0 and at MAX_MONEY_AMOUNT.
Pay(gold, d) == IF gold > d THEN gold - d ELSE 0
Receive(gold, d) == IF gold + d < MaxMoney THEN gold + d ELSE MaxMoney

AcceptComplete(p) ==
    /\ BothAccept(p)
    /\ SpellsCanBeCast(p)
    /\ CanStoreItems(p) /\ CanStoreItems(Partner(p))
    /\ LET q == Partner(p)
           bags == MoveItems(p)
       IN  /\ inv' = [inv EXCEPT ![p] = bags.mine, ![q] = bags.his]
           /\ money' = [money EXCEPT
                          ![p] = Receive(Pay(@, trade[p].money), trade[q].money),
                          ![q] = Receive(Pay(@, trade[q].money), trade[p].money)]
           /\ trade' = [trade EXCEPT ![p] = NoTrade, ![q] = NoTrade]
    /\ UNCHANGED now

HandleAcceptTrade(p) ==
    \/ AcceptRefused(p) \/ AcceptWithdrawn(p) \/ AcceptPartnerShort(p)
    \/ AcceptFirst(p) \/ AcceptSpellFails(p) \/ AcceptNoSpace(p) \/ AcceptComplete(p)

-----------------------------------------------------------------------------
(* What else happens to the players: nothing is reserved by a trade.       *)

SpendMoney(p, d) ==
    /\ d <= money[p]
    /\ money' = [money EXCEPT ![p] = Pay(@, d)]
    /\ UNCHANGED <<now, inv, trade>>

EarnMoney(p, d) ==
    /\ money' = [money EXCEPT ![p] = Receive(@, d)]
    /\ UNCHANGED <<now, inv, trade>>

\* Sold, mailed, destroyed or used up; and looted, bought or fetched from the mailbox.
LoseItem(p, item) ==
    /\ item \in inv[p]
    /\ inv' = [inv EXCEPT ![p] = @ \ {item}]
    /\ UNCHANGED <<now, money, trade>>

GainItem(p, item) ==
    /\ \A q \in Player : item \notin inv[q]
    /\ CanStoreItem(p, inv[p], item, 0)
    /\ inv' = [inv EXCEPT ![p] = @ \cup {item}]
    /\ UNCHANGED <<now, money, trade>>

Tick ==
    /\ now < MaxTime
    /\ now' = now + 1
    /\ UNCHANGED <<money, inv, trade>>

-----------------------------------------------------------------------------

\* No more of an entry than a player may own.
WithinLimits(p, bag) ==
    \A item \in bag : MaxCount[Entry[item]] # 0 =>
        GetItemCount(p, bag, Entry[item]) <= MaxCount[Entry[item]]

Disjoint(f) == \A p, q \in Player : p # q => f[p] \cap f[q] = {}

\* Players enter with what they own; time(nullptr) is far from 0, when no trade is open.
Init ==
    /\ now = 1
    /\ money \in [Player -> 0 .. MaxMoney]
    /\ inv \in [Player -> SUBSET Item]
    /\ Disjoint(inv)
    /\ \A p \in Player : Cardinality(inv[p]) <= Capacity /\ WithinLimits(p, inv[p])
    /\ trade = [p \in Player |-> NoTrade]

Windows ==
    \E p \in Player :
        \/ \E q \in Player : HandleInitiateTrade(p, q)
        \/ TradeCancel(p)
        \/ \E gold \in 0 .. MaxMoney : HandleSetTradeGold(p, gold)
        \/ \E s \in Slots, item \in Item : HandleSetTradeItem(p, s, item)
        \/ \E s \in Slots : HandleClearTradeItem(p, s)
        \/ \E spell \in Spells : CastOnTradeItem(p, spell)
        \/ HandleUnacceptTrade(p)
        \/ HandleAcceptTrade(p)

World ==
    \/ \E p \in Player, d \in 1 .. MaxMoney : SpendMoney(p, d) \/ EarnMoney(p, d)
    \/ \E p \in Player, item \in Item : LoseItem(p, item) \/ GainItem(p, item)
    \/ Tick

Next == Windows \/ World

Spec == Init /\ [][Next]_vars

-----------------------------------------------------------------------------
(* Properties.                                                             *)

TypeOK ==
    /\ now \in Nat
    /\ money \in [Player -> 0 .. MaxMoney]
    /\ inv \in [Player -> SUBSET Item]
    /\ trade \in [Player -> TradeData \cup {NoTrade}]

\* Trades come in pairs: the partner of a player in a trade is in a trade with him.
\* TradeCancel and TradeData::SetItem, SetMoney and SetSpell follow m_trader->m_trade
\* without a test; a side without its counterpart would be a dangling pointer.
Mutual ==
    \A p \in Player : InTrade(p) =>
        /\ Partner(p) \in Player \ {p}
        /\ InTrade(Partner(p)) /\ Partner(Partner(p)) = p

\* What a player has accepted is what both sides offer now: every change of gold, items
\* or spell, by either side, takes both acceptances back.
AcceptedIsShown ==
    \A p \in Player : InTrade(p) /\ trade[p].accepted => trade[p].seen = Window(p)

\* "to prevent scam (change gold before the other validates)" (m_lastModificationTime):
\* a side counts as accepted only if that was in a later second than the last change of
\* the gold or the items of either side.
AcceptedAfterLook ==
    \A p \in Player :
        InTrade(p) /\ trade[p].accepted => trade[p].changed < trade[p].acceptedAt

\* The three together, with what they rest on: no time stamp is in the future, both
\* sides agree on the last change, and it is not later than the time that the delay is
\* counted from.
WindowsInv ==
    /\ Mutual /\ AcceptedIsShown /\ AcceptedAfterLook
    /\ \A p \in Player : InTrade(p) =>
          /\ trade[p].changed <= trade[p].lastModificationTime
          /\ trade[p].lastModificationTime <= now
          /\ trade[p].changed = trade[Partner(p)].changed

\* A trade that completes takes from nobody what he did not offer, and gives each side
\* the items the other one offered and still has, if no side then has more of an entry
\* than it may own.  Only otherwise can the branch of moveItems be reached in which items come
\* back or are lost ("player can't take item back"): CanStoreItems tests the limit of an
\* entry for one item at a time.
DeliversTheOffers ==
    [][\A p \in Player : trade'[p] = NoTrade /\ AcceptComplete(p) =>
          LET q == Partner(p)
              mine == (inv[p] \ Given(p)) \cup Given(q)
              his == (inv[q] \ Given(q)) \cup Given(p)
          IN  /\ inv[p] \ Given(p) \subseteq inv'[p] /\ inv[q] \ Given(q) \subseteq inv'[q]
              /\ WithinLimits(p, mine) /\ WithinLimits(q, his) =>
                    inv'[p] = mine /\ inv'[q] = his]_vars

\* No item is ever in two inventories, and none holds more than it has places.
ItemsOnce == Disjoint(inv) /\ \A p \in Player : Cardinality(inv[p]) <= Capacity

\* Accepting a trade makes no gold and loses none, unless the receiver is rich enough
\* to reach MAX_MONEY_AMOUNT (ModifyMoney stops there, and at 0).
GoldKept ==
    [][\A p \in Player : money' # money /\ trade' # trade /\ HandleAcceptTrade(p) =>
          LET q == Partner(p)
              before == money[p] + money[q]
              after == money'[p] + money'[q]
          IN  /\ after <= before
              /\ after < before => MaxMoney \in {money'[p], money'[q]}]_vars
=============================================================================
