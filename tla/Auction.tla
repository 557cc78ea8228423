------------------------------ MODULE Auction ------------------------------
(***************************************************************************)
(* The auction house: the handlers of game/Handlers/AuctionHouseHandler.cpp, *)
(* AuctionHouseObject and AuctionHouseMgr of game/AuctionHouse, the letters  *)
(* they send (game/Mail) and what the receivers take out of them.  The       *)
(* handlers and Update run on the world thread, SetupHardcoreMode on the     *)
(* thread of a map while the world thread waits: one step at a time.         *)
(*                                                                           *)
(* An inventory is a set of items with Capacity places.  The numbers keep    *)
(* the arithmetic of the code: prices are products of uint32 and wrap at     *)
(* UInt (2^32), percentages are taken of Hundred (100).  Both are constants  *)
(* so that small numbers reach the same boundaries.                          *)
(***************************************************************************)
EXTENDS Naturals, FiniteSets, FiniteSetsExt

CONSTANTS Player,         \* characters
          NoOne,          \* guid 0
          Account,        \* the account of each character
          Item,           \* item guids
          NoItem,
          House,          \* AuctionHouse.dbc
          CutPercent,     \* cutPercent of each house, times Rate.Auction.Cut
          HomeHouse,      \* the house GetAuctionHouseEntry gives for a character
          AuctionLimit,   \* Auction.AccountConcurrentLimit, 0 for none
          Prices,         \* prices that clients name
          Deposits,       \* what GetAuctionDeposit may ask for
          Durations,      \* seconds an auction lasts
          StartMoney,     \* gold of each character in the first state
          Capacity,       \* places of an inventory
          MaxPrice,       \* 2000000000, the client's limit
          MaxMoney,       \* MAX_MONEY_AMOUNT
          UInt,           \* 2^32
          Hundred,        \* 100
          MaxAuctions,    \* bound: auctions of a behaviour
          MaxTime         \* bound: the last second of a behaviour

ASSUME GuidAssumption ==
    NoOne \notin Player /\ NoItem \notin Item /\ IsFiniteSet(Player)
ASSUME HouseAssumption ==
    /\ CutPercent \in [House -> Nat] /\ HomeHouse \in [Player -> House]
    /\ \A h \in House : CutPercent[h] <= Hundred
ASSUME NumbersAssumption ==
    /\ Prices \subseteq Nat /\ Deposits \subseteq Nat /\ Durations \subseteq Nat
    /\ {StartMoney, Capacity, MaxPrice, MaxMoney, AuctionLimit} \subseteq Nat
    /\ {MaxAuctions, MaxTime} \subseteq Nat /\ {UInt, Hundred} \subseteq Nat \ {0}
    /\ StartMoney <= MaxMoney /\ MaxMoney < UInt \div 2

VARIABLES
    now,        \* World's game time, in seconds
    money,      \* each character's gold
    inv,        \* each character's inventory
    hardcore,   \* "no", "asked" (the query for his letters is under way) or "yes"
    auctions,   \* AuctionsMap of all houses
    AItems,     \* mAitems: items that AuctionHouseMgr holds
    mails,      \* letters with gold or an item in them
    nextId      \* m_NextAuctionId

vars == <<now, money, inv, hardcore, auctions, AItems, mails, nextId>>

-----------------------------------------------------------------------------

AuctionEntry ==
    [Id : Nat, house : House, item : Item, owner : Player, startbid : Nat, bid : Nat,
     buyout : Nat, bidder : Player \cup {NoOne}, deposit : Nat, expireTime : Nat]

\* A letter of an auction: its subject, the receiver and what is attached.  No auction
\* sends the same letter twice, so a set holds them all.
Subjects == {"outbid", "won", "sold", "expired", "cancelled", "returned"}
Letter(a, subject, to, gold, item) ==
    [Id |-> a.Id, subject |-> subject, to |-> to, money |-> gold, item |-> item]

IsHardcore(p) == hardcore[p] # "no"

\* Player::ModifyMoney(int32 d): an amount from UInt \div 2 on is negative.  Gold stops at 0
\* and, unless MAX_MONEY_AMOUNT - d wraps, at MAX_MONEY_AMOUNT.
Pay(gold, d) == IF gold > d THEN gold - d ELSE 0
Receive(gold, d) ==
    IF gold < (MaxMoney - d) % UInt THEN (gold + d) % UInt ELSE MaxMoney
ModifyMoney(gold, d) ==
    LET amount == d % UInt
    IN  IF amount < UInt \div 2 THEN Receive(gold, amount) ELSE Pay(gold, UInt - amount)

\* -int32(d)
Minus(d) == (UInt - d) % UInt

GetAuctionCut(a) == ((CutPercent[a.house] * a.bid) % UInt) \div Hundred

GetAuctionOutBid(a) ==
    LET outbid == (a.bid \div Hundred) * 5 IN IF outbid = 0 THEN 1 ELSE outbid

AccountAuctions(h, account) ==
    {a \in auctions : a.house = h /\ Account[a.owner] = account}

-----------------------------------------------------------------------------
(* Letters.  A character in hardcore mode gets no gold and no items from the *)
(* house, only what he takes back himself.                                   *)

\* SendAuctionOutbiddedMail
OutbidMail(a) ==
    IF IsHardcore(a.bidder) THEN {} ELSE {Letter(a, "outbid", a.bidder, a.bid, NoItem)}

\* SendAuctionCancelledToBidderMail
CancelledMail(a) ==
    IF IsHardcore(a.bidder) THEN {} ELSE {Letter(a, "cancelled", a.bidder, a.bid, NoItem)}

\* Mutant: the owner does not get his deposit back.
SuccessfulMail_NoDeposit(a) ==
    IF IsHardcore(a.owner) THEN {}
    ELSE {Letter(a, "sold", a.owner, (a.bid - GetAuctionCut(a)) % UInt, NoItem)}

\* SendAuctionSuccessfulMail
SuccessfulMail(a) ==
    IF IsHardcore(a.owner) THEN {}
    ELSE {Letter(a, "sold", a.owner, (a.bid + a.deposit - GetAuctionCut(a)) % UInt, NoItem)}

\* SendAuctionWonMail, SendAuctionExpiredMail: the item is destroyed if nobody may get it.
WonMail(a) ==
    IF a.item \notin AItems \/ IsHardcore(a.bidder) THEN {}
    ELSE {Letter(a, "won", a.bidder, 0, a.item)}

ExpiredMail(a) ==
    IF a.item \notin AItems \/ IsHardcore(a.owner) THEN {}
    ELSE {Letter(a, "expired", a.owner, 0, a.item)}

-----------------------------------------------------------------------------
(* Handlers.                                                               *)

HandleAuctionSellItem(p, h, item, bid, buyout, deposit, etime) ==
    /\ nextId <= MaxAuctions /\ now + etime < MaxTime          \* bounds
    /\ bid # 0 /\ bid <= MaxPrice /\ buyout <= MaxPrice
    /\ buyout # 0 => bid <= buyout
    /\ AuctionLimit # 0 => Cardinality(AccountAuctions(h, Account[p])) < AuctionLimit
    /\ item \in inv[p] \ AItems
    /\ money[p] >= deposit
    /\ money' = [money EXCEPT ![p] = ModifyMoney(@, Minus(deposit))]
    /\ auctions' = auctions \cup
          {[Id |-> nextId, house |-> h, item |-> item, owner |-> p, startbid |-> bid,
            bid |-> 0, buyout |-> buyout, bidder |-> NoOne, deposit |-> deposit,
            expireTime |-> now + etime]}
    /\ nextId' = nextId + 1
    /\ AItems' = AItems \cup {item}
    /\ inv' = [inv EXCEPT ![p] = @ \ {item}]
    /\ UNCHANGED <<now, hardcore, mails>>

\* Mutant: the price must exceed the buyout.
IsBuyout_Strict(a, price) == a.buyout # 0 /\ price > a.buyout

\* The price is a buyout.
IsBuyout(a, price) == a.buyout # 0 /\ price >= a.buyout

\* The checks of HandleAuctionPlaceBid.  The owner's other characters are not online
\* while p is, so the test of the account refuses them all.
CanBid(p, a, price) ==
    /\ Account[a.owner] # Account[p]
    /\ price # 0 /\ price >= a.startbid /\ price > a.bid
    /\ IsBuyout(a, price) \/ price >= a.bid + GetAuctionOutBid(a)
    /\ price <= money[p]

\* Mutant: whoever bids pays the whole price.
BidPrice_Full(p, a, price) == price

\* What p pays: the difference if the highest bid is his own.
BidPrice(p, a, price) == IF p = a.bidder THEN price - a.bid ELSE price

\* Mutant: the letter goes out to whoever was the highest bidder.
Refund_Own(p, a) == IF a.bidder = NoOne THEN {} ELSE OutbidMail(a)

\* Mutant: without the test for an earlier bidder.
Refund_NoOne(p, a) ==
    IF a.bidder = p THEN {} ELSE {Letter(a, "outbid", a.bidder, a.bid, NoItem)}

\* What the bid gives back to the one before.
Refund(p, a) == IF a.bidder \in {p, NoOne} THEN {} ELSE OutbidMail(a)

PlaceBid(p, a, price) ==
    /\ CanBid(p, a, price)
    /\ ~IsBuyout(a, price)
    /\ money' = [money EXCEPT ![p] = ModifyMoney(@, Minus(BidPrice(p, a, price)))]
    /\ mails' = mails \cup Refund(p, a)
    /\ auctions' = (auctions \ {a}) \cup {[a EXCEPT !.bidder = p, !.bid = price]}
    /\ UNCHANGED <<now, inv, hardcore, AItems, nextId>>

\* Mutant: the house keeps the item in its list.
Buyout_KeepsItem(p, a, price) ==
    /\ CanBid(p, a, price)
    /\ IsBuyout(a, price)
    /\ money' = [money EXCEPT ![p] = ModifyMoney(@, Minus(BidPrice(p, a, a.buyout)))]
    /\ LET b == [a EXCEPT !.bidder = p, !.bid = a.buyout]
       IN  mails' = mails \cup Refund(p, a) \cup SuccessfulMail(b) \cup WonMail(b)
    /\ auctions' = auctions \ {a}
    /\ UNCHANGED <<now, inv, hardcore, AItems, nextId>>

Buyout(p, a, price) ==
    /\ CanBid(p, a, price)
    /\ IsBuyout(a, price)
    /\ money' = [money EXCEPT ![p] = ModifyMoney(@, Minus(BidPrice(p, a, a.buyout)))]
    /\ LET b == [a EXCEPT !.bidder = p, !.bid = a.buyout]
       IN  mails' = mails \cup Refund(p, a) \cup SuccessfulMail(b) \cup WonMail(b)
    /\ AItems' = AItems \ {a.item}
    /\ auctions' = auctions \ {a}
    /\ UNCHANGED <<now, inv, hardcore, nextId>>

HandleAuctionPlaceBid(p, a, price) == PlaceBid(p, a, price) \/ Buyout(p, a, price)

\* The owner pays the cut if there is a bid; the deposit is gone.
HandleAuctionRemoveItem(p, a) ==
    /\ a.owner = p
    /\ a.item \in AItems
    /\ IF a.bidder = NoOne
       THEN /\ mails' = mails \cup {Letter(a, "returned", p, 0, a.item)}
            /\ UNCHANGED money
       ELSE /\ money[p] >= GetAuctionCut(a)
            /\ mails' = mails \cup CancelledMail(a) \cup {Letter(a, "returned", p, 0, a.item)}
            /\ money' = [money EXCEPT ![p] = ModifyMoney(@, Minus(GetAuctionCut(a)))]
    /\ AItems' = AItems \ {a.item}
    /\ auctions' = auctions \ {a}
    /\ UNCHANGED <<now, inv, hardcore, nextId>>

\* Mutant: only sold auctions are closed.
Expired_SoldOnly == {a \in auctions : now > a.expireTime /\ a.bidder # NoOne}

\* AuctionHouseObject::Update of every house, for all the auctions that are over.
Expired == {a \in auctions : now > a.expireTime}

ClosingMails(a) ==
    IF a.bidder = NoOne THEN ExpiredMail(a) ELSE SuccessfulMail(a) \cup WonMail(a)

Update ==
    /\ Expired # {}
    /\ mails' = mails \cup UNION {ClosingMails(a) : a \in Expired}
    /\ AItems' = AItems \ {a.item : a \in Expired}
    /\ auctions' = auctions \ Expired
    /\ UNCHANGED <<now, money, inv, hardcore, nextId>>

-----------------------------------------------------------------------------
(* The mailbox.                                                            *)

HandleMailTakeMoney(m) ==
    /\ m.money > 0
    /\ money' = [money EXCEPT ![m.to] = ModifyMoney(@, m.money)]
    /\ mails' = mails \ {m}
    /\ UNCHANGED <<now, inv, hardcore, auctions, AItems, nextId>>

HandleMailTakeItem(m) ==
    /\ m.item # NoItem
    /\ Cardinality(inv[m.to]) < Capacity
    /\ inv' = [inv EXCEPT ![m.to] = @ \cup {m.item}]
    /\ mails' = mails \ {m}
    /\ UNCHANGED <<now, money, hardcore, auctions, AItems, nextId>>

-----------------------------------------------------------------------------
(* Hardcore mode.                                                          *)

\* Gold and items are destroyed, save a few, and the auctions of the character's own
\* house leave the map: their items stay in mAitems and the bids are not returned.  A
\* query for the letters is queued.
SetupHardcoreMode(p) ==
    /\ ~IsHardcore(p)
    /\ hardcore' = [hardcore EXCEPT ![p] = "asked"]
    /\ money' = [money EXCEPT ![p] = 0]
    /\ \E kept \in SUBSET inv[p] : inv' = [inv EXCEPT ![p] = kept]
    /\ auctions' = {a \in auctions : a.owner # p \/ a.house # HomeHouse[p]}
    /\ UNCHANGED <<now, AItems, mails, nextId>>

\* The answer: the letters to p that the query saw are deleted, if p is still online.  A
\* letter that he sent himself meanwhile, by taking back an item, may have been missed.
HandleHardcoreMailQuery(p) ==
    /\ hardcore[p] = "asked"
    /\ hardcore' = [hardcore EXCEPT ![p] = "yes"]
    /\ \/ UNCHANGED mails
       \/ \E missed \in SUBSET {m \in mails : m.to = p /\ m.subject = "returned"} :
             mails' = {m \in mails : m.to # p} \cup missed
    /\ UNCHANGED <<now, money, inv, auctions, AItems, nextId>>

Tick ==
    /\ now < MaxTime
    /\ now' = now + 1
    /\ UNCHANGED <<money, inv, hardcore, auctions, AItems, mails, nextId>>

-----------------------------------------------------------------------------

Disjoint(f) == \A p, q \in Player : p # q => f[p] \cap f[q] = {}

\* No auction is open; the characters have some items.
Init ==
    /\ now = 0
    /\ money = [p \in Player |-> StartMoney]
    /\ inv \in [Player -> SUBSET Item]
    /\ Disjoint(inv) /\ \A p \in Player : Cardinality(inv[p]) <= Capacity
    /\ hardcore = [p \in Player |-> "no"]
    /\ auctions = {} /\ AItems = {} /\ mails = {}
    /\ nextId = 1

Sell ==
    \E p \in Player, h \in House, item \in Item, bid \in Prices, buyout \in Prices \cup {0},
       deposit \in Deposits, etime \in Durations :
        HandleAuctionSellItem(p, h, item, bid, buyout, deposit, etime)

Bid == \E p \in Player, a \in auctions, price \in Prices : HandleAuctionPlaceBid(p, a, price)

Cancel == \E p \in Player, a \in auctions : HandleAuctionRemoveItem(p, a)

Post == \E m \in mails : HandleMailTakeMoney(m) \/ HandleMailTakeItem(m)

Hardcore == \E p \in Player : SetupHardcoreMode(p) \/ HandleHardcoreMailQuery(p)

Next == Sell \/ Bid \/ Cancel \/ Update \/ Post \/ Hardcore \/ Tick

Spec == Init /\ [][Next]_vars

\* Time passes and World::Update runs AuctionHouseMgr::Update once a minute.
FairSpec == Spec /\ WF_vars(Tick) /\ WF_vars(Update)
-----------------------------------------------------------------------------
(* Properties.                                                             *)

TypeOK ==
    /\ now \in Nat /\ nextId \in Nat
    /\ money \in [Player -> 0 .. UInt - 1]
    /\ inv \in [Player -> SUBSET Item]
    /\ hardcore \in [Player -> {"no", "asked", "yes"}]
    /\ auctions \subseteq AuctionEntry
    /\ AItems \subseteq Item
    /\ mails \subseteq [Id : Nat, subject : Subjects, to : Player, money : Nat,
                        item : Item \cup {NoItem}]

MailedItems == {m.item : m \in mails} \ {NoItem}

\* An item is in one inventory, in one letter or with the house, never in two places,
\* and what is on sale is there, under an id of its own: AddAItem's assertion holds, and
\* neither "FAILED to get an item" (SendAuctionWonMail) nor "not found, and lost"
\* (SendAuctionExpiredMail) occurs.
ItemsOnce ==
    /\ Disjoint(inv)
    /\ \A p \in Player : inv[p] \cap (AItems \cup MailedItems) = {}
    /\ AItems \cap MailedItems = {}
    /\ \A m, n \in mails : m.item = n.item /\ m.item # NoItem => m = n
    /\ \A a \in auctions : a.item \in AItems
    /\ \A a, b \in auctions : a.Id = b.Id \/ a.item = b.item => a = b
    /\ \A a \in auctions : a.Id < nextId

\* A bid lies between the start price and the buyout, so that neither the difference
\* that the highest bidder pays nor what is left to a buyout wraps below zero.
BidsInRange ==
    \A a \in auctions :
        /\ a.bidder = NoOne <=> a.bid = 0
        /\ a.bid # 0 => a.startbid <= a.bid
        /\ a.buyout # 0 => a.bid < a.buyout

\* Gold that p has, that waits in his letters and that his bids hold.
Claim(p) ==
    money[p] + MapThenSumSet(LAMBDA m : m.money, {m \in mails : m.to = p})
             + MapThenSumSet(LAMBDA a : a.bid, {a \in auctions : a.bidder = p})

AllGold ==
    MapThenSumSet(Claim, Player) + MapThenSumSet(LAMBDA a : a.deposit, auctions)

\* Whatever is sold, bid, outbid, bought, cancelled, expired and taken from the mailbox,
\* no step makes gold, while a price and a deposit together stay within MaxMoney.
NoGoldMade == [][AllGold' <= AllGold]_vars

ClosedAuctions == {a \in auctions : \A b \in auctions' : a.Id # b.Id}
TurnsHardcore(p) == ~IsHardcore(p) /\ IsHardcore(p)'
NewMail(subject, p) == \E m \in mails' \ mails : m.subject = subject /\ m.to = p

\* A character who is outbid, whose auction is cancelled or who raises his own bid gets
\* every coin back: his claim falls only when he wins an item, pays a deposit, takes
\* his own item back, is as rich as can be, or the seller enters hardcore mode.
BiddersKeepTheirGold ==
    [][\A p \in Player :
          \/ Claim(p)' >= Claim(p)
          \/ IsHardcore(p) \/ TurnsHardcore(p)
          \/ NewMail("won", p) \/ NewMail("returned", p)
          \/ \E a \in auctions' : a.Id = nextId /\ a.owner = p
          \/ money'[p] = MaxMoney
          \/ \E a \in ClosedAuctions : a.bidder = p /\ TurnsHardcore(a.owner)]_vars

\* The letters that sell auction a to p at a price: the price and the deposit without the
\* cut go to the owner, the item to p and the highest bid back to whoever else made it.
SaleLetters(a, p, price) ==
    {Letter(a, "sold", a.owner,
            price + a.deposit - GetAuctionCut([a EXCEPT !.bid = price]), NoItem),
     Letter(a, "won", p, 0, a.item)}
    \cup (IF a.bidder \in {p, NoOne} THEN {} ELSE {Letter(a, "outbid", a.bidder, a.bid, NoItem)})

\* The letters that end auction a without a sale: the item goes back to the owner and the
\* highest bid to the bidder.
ReturnLetters(a, subject) ==
    {Letter(a, subject, a.owner, 0, a.item)}
    \cup (IF a.bidder = NoOne THEN {} ELSE {Letter(a, "cancelled", a.bidder, a.bid, NoItem)})

\* A step that sends these letters about auction a settles it: it is over and sold to the
\* highest bidder for his bid; or somebody else than the owner pays the buyout, or what
\* is left to it if the highest bid is his, and gets the item; or it is over without a
\* bid and the item goes back; or the owner takes the item back and pays the cut of
\* the bid, if there is one.
SettledBy(a, letters) ==
    \/ /\ now > a.expireTime /\ a.bidder \in Player \ {a.owner}
       /\ letters = SaleLetters(a, a.bidder, a.bid)
       /\ money' = money
    \/ \E p \in Player \ {a.owner} :
          /\ a.buyout # 0
          /\ letters = SaleLetters(a, p, a.buyout)
          /\ money'[p] = money[p] - (IF p = a.bidder THEN a.buyout - a.bid ELSE a.buyout)
    \/ /\ now > a.expireTime /\ a.bidder = NoOne
       /\ letters = ReturnLetters(a, "expired")
       /\ money' = money
    \/ /\ letters = ReturnLetters(a, "returned")
       /\ money'[a.owner] = money[a.owner] - (IF a.bidder = NoOne THEN 0 ELSE GetAuctionCut(a))

\* When an auction closes while nobody is in hardcore mode, it is settled: the letters
\* that the step sends about it are those of a sale or of a return and no others, each new
\* to the mailbox, and none of the amounts wraps.
Settled ==
    [][\A a \in ClosedAuctions :
          (\A p \in Player : ~IsHardcore(p) /\ ~TurnsHardcore(p))
              => SettledBy(a, {m \in mails' \ mails : m.Id = a.Id})]_vars

\* Every auction ends: it is bought, cancelled, removed or closed by Update.
AuctionsEnd ==
    \A i \in 1 .. MaxAuctions :
        (\E a \in auctions : a.Id = i) ~> (\A a \in auctions : a.Id # i)
=============================================================================
