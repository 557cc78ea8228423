--------------------------- MODULE AuctionProofs ---------------------------
(***************************************************************************)
(* Proofs about the auction house: items are never in two places, bids     *)
(* stay where the arithmetic of the handlers does not wrap, every auction  *)
(* is settled once, no gold is made and no bidder loses any.               *)
(***************************************************************************)
EXTENDS Auction, FiniteSetTheorems, TLAPS

Inv == TypeOK /\ ItemsOnce /\ BidsInRange

MailType == [Id : Nat, subject : Subjects, to : Player, money : Nat, item : Item \cup {NoItem}]

\* A remainder and a quotient of natural numbers are natural numbers.
LEMMA ModDivNat ==
    ASSUME NEW x \in Int, NEW y \in Nat, NEW d \in Nat \ {0}
    PROVE  x % d \in Nat /\ y \div d \in Nat
  OBVIOUS

\* GetAuctionCut is a natural number, whatever wraps in it.
LEMMA CutNat ==
    ASSUME NEW a \in AuctionEntry
    PROVE  GetAuctionCut(a) \in Nat
<1>1. CutPercent[a.house] \in Nat /\ a.bid \in Nat BY HouseAssumption DEF AuctionEntry
<1>2. CutPercent[a.house] * a.bid \in Int BY <1>1
<1>3. (CutPercent[a.house] * a.bid) % UInt \in Nat
  BY <1>2, ModDivNat, NumbersAssumption
<1> QED BY <1>3, ModDivNat, NumbersAssumption DEF GetAuctionCut

\* ModifyMoney keeps gold a uint32, for positive and for negative amounts.
LEMMA MoneyBounds ==
    ASSUME NEW gold \in 0 .. UInt - 1, NEW d \in Nat
    PROVE  /\ ModifyMoney(gold, d) \in 0 .. UInt - 1
           /\ ModifyMoney(gold, Minus(d)) \in 0 .. UInt - 1
<1>1. UInt \in Nat /\ UInt > 0 /\ MaxMoney \in Nat /\ MaxMoney < UInt
  <2>1. UInt \in Nat /\ UInt > 0 /\ MaxMoney \in Nat /\ MaxMoney < UInt \div 2
    BY NumbersAssumption
  <2> QED BY <2>1
<1>2. ASSUME NEW x \in Int PROVE x % UInt \in 0 .. UInt - 1
  BY <1>1
<1>3. ASSUME NEW n \in Nat PROVE ModifyMoney(gold, n) \in 0 .. UInt - 1
  <2> DEFINE amount == n % UInt
  <2>1. amount \in 0 .. UInt - 1 BY <1>2
  <2>2. Receive(gold, amount) \in 0 .. UInt - 1
    <3>1. gold + amount \in Int BY <1>1, <2>1
    <3>2. (gold + amount) % UInt \in 0 .. UInt - 1 BY <1>2, <3>1
    <3> HIDE DEF amount
    <3> QED BY <1>1, <3>2 DEF Receive
  <2>3. Pay(gold, UInt - amount) \in 0 .. UInt - 1
    <3> HIDE DEF amount
    <3> QED BY <1>1, <2>1 DEF Pay
  <2> QED BY <2>2, <2>3 DEF ModifyMoney
<1>4. Minus(d) \in Nat
  <2>1. UInt - d \in Int BY <1>1
  <2> QED BY <1>1, <1>2, <2>1 DEF Minus
<1> QED BY <1>3, <1>4

\* The amount in the letter to the seller is a natural number.
LEMMA ProfitNat ==
    ASSUME NEW a \in AuctionEntry
    PROVE  (a.bid + a.deposit - GetAuctionCut(a)) % UInt \in Nat
<1>1. a.bid + a.deposit - GetAuctionCut(a) \in Int BY CutNat DEF AuctionEntry
<1> QED BY <1>1, ModDivNat, NumbersAssumption

-----------------------------------------------------------------------------
(* Letters.                                                                *)

\* What a set of letters of auction a holds: nothing but gold and a's item, and the item
\* at most once.
LettersOf(a, new) ==
    /\ new \subseteq MailType
    /\ \A m \in new : m.item \in {NoItem, a.item}
    /\ \A m, n \in new : m.item = n.item /\ m.item # NoItem => m = n

\* Letters that refund a bid hold gold only.
LEMMA RefundLetters ==
    ASSUME NEW a \in AuctionEntry, NEW p \in Player
    PROVE  /\ a.bidder # NoOne => CancelledMail(a) \subseteq MailType
           /\ a.bidder # NoOne => \A m \in CancelledMail(a) : m.item = NoItem
           /\ Refund(p, a) \subseteq MailType
           /\ \A m \in Refund(p, a) : m.item = NoItem
  BY DEF CancelledMail, Refund, OutbidMail, Letter, MailType, AuctionEntry, Subjects

\* The letters that close a sold auction.
LEMMA SoldLetters ==
    ASSUME NEW a \in AuctionEntry, a.bidder \in Player
    PROVE  LettersOf(a, SuccessfulMail(a) \cup WonMail(a))
<1>1. (a.bid + a.deposit - GetAuctionCut(a)) % UInt \in Nat BY ProfitNat
<1>2. SuccessfulMail(a) \subseteq MailType /\ \A m \in SuccessfulMail(a) : m.item = NoItem
  BY <1>1 DEF SuccessfulMail, Letter, MailType, AuctionEntry, Subjects
<1>3. /\ WonMail(a) \subseteq MailType
      /\ \A m \in WonMail(a) : m.item = a.item
      /\ \A m, n \in WonMail(a) : m = n
  BY DEF WonMail, Letter, MailType, AuctionEntry, Subjects
<1> QED BY <1>2, <1>3 DEF LettersOf

\* The letters that Update sends for an auction.
LEMMA ClosingLetters ==
    ASSUME NEW a \in AuctionEntry
    PROVE  LettersOf(a, ClosingMails(a))
<1>1. CASE a.bidder = NoOne
  BY <1>1 DEF ClosingMails, ExpiredMail, LettersOf, Letter, MailType, AuctionEntry, Subjects
<1>2. CASE a.bidder # NoOne
  <2>1. a.bidder \in Player BY <1>2 DEF AuctionEntry
  <2> QED BY <1>2, <2>1, SoldLetters DEF ClosingMails
<1> QED BY <1>1, <1>2

\* A step that closes auctions and sends letters with their items, each once.
Closes(closed, new) ==
    /\ closed \subseteq auctions /\ new \subseteq MailType
    /\ \A m \in new : m.item = NoItem \/ \E a \in closed : m.item = a.item
    /\ \A m, n \in new : m.item = n.item /\ m.item # NoItem => m = n
    /\ mails' = mails \cup new
    /\ AItems' = AItems \ {a.item : a \in closed}
    /\ auctions' = auctions \ closed
    /\ inv' = inv /\ nextId' = nextId

\* Closing auctions and mailing their items keeps every item in one place.
LEMMA Delivery ==
    ASSUME TypeOK, ItemsOnce, NEW closed, NEW new, Closes(closed, new)
    PROVE  ItemsOnce'
<1> USE DEF Closes
<1> DEFINE gone == {a.item : a \in closed}
<1>1. \A m \in new : m.item = NoItem \/ m.item \in gone
  OBVIOUS
<1>2. gone \subseteq AItems BY DEF ItemsOnce
<1>3. MailedItems' \subseteq MailedItems \cup gone
  BY <1>1 DEF MailedItems
<1>4. \A p \in Player : inv'[p] \cap (AItems' \cup MailedItems') = {}
  BY <1>2, <1>3 DEF ItemsOnce
<1>5. AItems' \cap MailedItems' = {}
  BY <1>3 DEF ItemsOnce
<1>6. \A m, n \in mails' : m.item = n.item /\ m.item # NoItem => m = n
  <2> SUFFICES ASSUME NEW m \in mails', NEW n \in mails', m.item = n.item, m.item # NoItem
               PROVE  m = n
    OBVIOUS
  <2>1. CASE m \in mails /\ n \in mails BY <2>1 DEF ItemsOnce
  <2>2. CASE m \in new /\ n \in new BY <2>2
  <2>3. CASE m \in mails /\ n \in new
    BY <1>1, <1>2, <2>3 DEF ItemsOnce, MailedItems
  <2>4. CASE m \in new /\ n \in mails
    BY <1>1, <1>2, <2>4 DEF ItemsOnce, MailedItems
  <2> QED BY <2>1, <2>2, <2>3, <2>4
<1>7. \A a \in auctions' : a.item \in AItems'
  <2> SUFFICES ASSUME NEW a \in auctions', a.item \in gone PROVE FALSE
    BY DEF ItemsOnce
  <2> PICK b \in closed : b.item = a.item OBVIOUS
  <2> QED BY DEF ItemsOnce
<1>8. \A a, b \in auctions' : a.Id = b.Id \/ a.item = b.item => a = b
  BY DEF ItemsOnce
<1>9. \A a \in auctions' : a.Id < nextId' BY DEF ItemsOnce
<1>10. Disjoint(inv)' BY DEF ItemsOnce, Disjoint
<1> QED BY <1>4, <1>5, <1>6, <1>7, <1>8, <1>9, <1>10 DEF ItemsOnce

-----------------------------------------------------------------------------
(* The handlers, one lemma each.                                           *)

\* The initial states satisfy the invariant.
LEMMA InitInv == Init => Inv
  BY NumbersAssumption
  DEF Init, Inv, TypeOK, ItemsOnce, BidsInRange, MailedItems, MailType

\* Listing an item.
LEMMA SellInv ==
    ASSUME Inv, NEW p \in Player, NEW h \in House, NEW item \in Item, NEW bid \in Nat,
           NEW buyout \in Nat, NEW deposit \in Nat, NEW etime \in Nat,
           HandleAuctionSellItem(p, h, item, bid, buyout, deposit, etime)
    PROVE  Inv'
<1> DEFINE a == [Id |-> nextId, house |-> h, item |-> item, owner |-> p, startbid |-> bid,
                 bid |-> 0, buyout |-> buyout, bidder |-> NoOne, deposit |-> deposit,
                 expireTime |-> now + etime]
<1>1. /\ auctions' = auctions \cup {a} /\ nextId' = nextId + 1
      /\ AItems' = AItems \cup {item} /\ inv' = [inv EXCEPT ![p] = @ \ {item}]
      /\ item \in inv[p] /\ item \notin AItems /\ bid # 0 /\ (buyout # 0 => bid <= buyout)
      /\ money' = [money EXCEPT ![p] = ModifyMoney(@, Minus(deposit))]
      /\ UNCHANGED <<now, hardcore, mails>>
  BY DEF HandleAuctionSellItem
<1>2. a \in AuctionEntry BY DEF Inv, TypeOK, AuctionEntry
<1>3. TypeOK'
  <2>1. money[p] \in 0 .. UInt - 1 BY DEF Inv, TypeOK
  <2>2. money' \in [Player -> 0 .. UInt - 1] BY <1>1, <2>1, MoneyBounds DEF Inv, TypeOK
  <2>3. inv' \in [Player -> SUBSET Item] BY <1>1 DEF Inv, TypeOK
  <2> QED BY <1>1, <1>2, <2>2, <2>3 DEF Inv, TypeOK
<1>4. BidsInRange'
  <2>1. \A b \in auctions' : b \in auctions \/ b = a BY <1>1
  <2>2. a.bid = 0 /\ a.bidder = NoOne /\ a.buyout = buyout OBVIOUS
  <2> QED BY <2>1, <2>2 DEF Inv, BidsInRange
<1>5. ItemsOnce'
  <2>1. MailedItems' = MailedItems BY <1>1 DEF MailedItems
  <2>2. /\ \A q \in Player : q # p => inv'[q] = inv[q]
        /\ inv'[p] = inv[p] \ {item}
    BY <1>1 DEF Inv, TypeOK
  <2>3. Disjoint(inv)' BY <2>2 DEF Inv, ItemsOnce, Disjoint
  <2>4. \A q \in Player : inv'[q] \cap (AItems' \cup MailedItems') = {}
    BY <1>1, <2>1, <2>2 DEF Inv, ItemsOnce, Disjoint
  <2>5. AItems' \cap MailedItems' = {} BY <1>1, <2>1 DEF Inv, ItemsOnce
  <2>6. a.item = item /\ a.Id = nextId OBVIOUS
  <2>7. \A b \in auctions' : b.item \in AItems' BY <1>1, <2>6 DEF Inv, ItemsOnce
  <2>8. \A b \in auctions : b.Id < nextId /\ b.item # item /\ b.Id \in Nat
    BY <1>1 DEF Inv, ItemsOnce, TypeOK, AuctionEntry
  <2>9. nextId \in Nat BY DEF Inv, TypeOK
  <2>10. \A b, c \in auctions' : b.Id = c.Id \/ b.item = c.item => b = c
    <3>1. \A b, c \in auctions : b.Id = c.Id \/ b.item = c.item => b = c
      BY DEF Inv, ItemsOnce
    <3>2. \A b \in auctions' : b \in auctions \/ b = a BY <1>1
    <3>3. \A b \in auctions : b.Id # a.Id /\ b.item # a.item BY <2>6, <2>8, <2>9
    <3> HIDE DEF a
    <3> QED BY <3>1, <3>2, <3>3
  <2>11. \A b \in auctions' : b.Id < nextId' BY <1>1, <2>6, <2>8, <2>9
  <2> QED BY <1>1, <2>3, <2>4, <2>5, <2>7, <2>10, <2>11 DEF Inv, ItemsOnce
<1> QED BY <1>3, <1>4, <1>5 DEF Inv

\* A bid below the buyout.
LEMMA PlaceBidInv ==
    ASSUME Inv, NEW p \in Player, NEW a \in auctions, NEW price \in Nat, PlaceBid(p, a, price)
    PROVE  Inv'
<1> DEFINE b == [a EXCEPT !.bidder = p, !.bid = price]
<1>1. /\ auctions' = (auctions \ {a}) \cup {b}
      /\ mails' = mails \cup Refund(p, a)
      /\ money' = [money EXCEPT ![p] = ModifyMoney(@, Minus(BidPrice(p, a, price)))]
      /\ UNCHANGED <<now, inv, hardcore, AItems, nextId>>
  BY DEF PlaceBid
<1>2. a \in AuctionEntry BY DEF Inv, TypeOK
<1>3. /\ b \in AuctionEntry /\ b.Id = a.Id /\ b.item = a.item /\ b.bid = price
      /\ b.bidder = p /\ b.startbid = a.startbid /\ b.buyout = a.buyout
  BY <1>2 DEF AuctionEntry
<1>4. Refund(p, a) \subseteq MailType /\ \A m \in Refund(p, a) : m.item = NoItem
  BY <1>2, RefundLetters
<1>5. BidPrice(p, a, price) \in Nat
  BY <1>2 DEF BidPrice, PlaceBid, CanBid, AuctionEntry
<1>6. money' \in [Player -> 0 .. UInt - 1]
  <2>1. money[p] \in 0 .. UInt - 1 BY DEF Inv, TypeOK
  <2> QED BY <1>1, <1>5, <2>1, MoneyBounds DEF Inv, TypeOK
<1>7. TypeOK' BY <1>1, <1>3, <1>4, <1>6 DEF Inv, TypeOK, MailType
<1>8. BidsInRange'
  <2>1. /\ price # 0 /\ a.startbid <= price
        /\ (a.buyout # 0 => price < a.buyout)
    BY <1>2 DEF PlaceBid, CanBid, IsBuyout, AuctionEntry
  <2>2. p # NoOne BY GuidAssumption
  <2>3. \A c \in auctions' : c \in auctions \/ c = b BY <1>1
  <2> QED BY <1>3, <2>1, <2>2, <2>3 DEF Inv, BidsInRange
<1>9. ItemsOnce'
  <2>1. MailedItems' = MailedItems BY <1>1, <1>4 DEF MailedItems
  <2>2. \A m, n \in mails' : m.item = n.item /\ m.item # NoItem => m = n
    BY <1>1, <1>4 DEF Inv, ItemsOnce
  <2>3. \A c, d \in auctions' : c.Id = d.Id \/ c.item = d.item => c = d
    <3>1. \A c \in auctions \ {a} : c.Id # b.Id /\ c.item # b.item
      BY <1>3 DEF Inv, ItemsOnce
    <3>2. \A c, d \in auctions \ {a} : c.Id = d.Id \/ c.item = d.item => c = d
      BY DEF Inv, ItemsOnce
    <3>3. \A c \in auctions' : c \in auctions \ {a} \/ c = b BY <1>1
    <3> HIDE DEF b
    <3> QED BY <3>1, <3>2, <3>3
  <2>4. \A c \in auctions' : c.item \in AItems' /\ c.Id < nextId'
    BY <1>1, <1>3 DEF Inv, ItemsOnce
  <2> QED BY <1>1, <2>1, <2>2, <2>3, <2>4 DEF Inv, ItemsOnce, Disjoint
<1> QED BY <1>7, <1>8, <1>9 DEF Inv

\* A buyout.
LEMMA BuyoutInv ==
    ASSUME Inv, NEW p \in Player, NEW a \in auctions, NEW price \in Nat, Buyout(p, a, price)
    PROVE  Inv'
<1> DEFINE b == [a EXCEPT !.bidder = p, !.bid = a.buyout]
           new == Refund(p, a) \cup (SuccessfulMail(b) \cup WonMail(b))
<1>1. /\ mails' = mails \cup new
      /\ money' = [money EXCEPT ![p] = ModifyMoney(@, Minus(BidPrice(p, a, a.buyout)))]
      /\ AItems' = AItems \ {a.item} /\ auctions' = auctions \ {a}
      /\ UNCHANGED <<now, inv, hardcore, nextId>>
  BY DEF Buyout
<1>2. a \in AuctionEntry BY DEF Inv, TypeOK
<1>3. b \in AuctionEntry /\ b.bidder = p /\ b.item = a.item BY <1>2 DEF AuctionEntry
<1>4. LettersOf(b, SuccessfulMail(b) \cup WonMail(b)) BY <1>3, SoldLetters
<1>5. Refund(p, a) \subseteq MailType /\ \A m \in Refund(p, a) : m.item = NoItem
  BY <1>2, RefundLetters
<1>6. /\ new \subseteq MailType
      /\ \A m \in new : m.item \in {NoItem, a.item}
      /\ \A m, n \in new : m.item = n.item /\ m.item # NoItem => m = n
  BY <1>3, <1>4, <1>5 DEF LettersOf
<1>7. BidPrice(p, a, a.buyout) \in Nat
  <2>1. a.buyout # 0 /\ a.bid < a.buyout BY DEF Buyout, IsBuyout, Inv, BidsInRange
  <2> QED BY <1>2, <2>1 DEF BidPrice, AuctionEntry
<1>8. money' \in [Player -> 0 .. UInt - 1]
  <2>1. money[p] \in 0 .. UInt - 1 BY DEF Inv, TypeOK
  <2> QED BY <1>1, <1>7, <2>1, MoneyBounds DEF Inv, TypeOK
<1>9. TypeOK' BY <1>1, <1>6, <1>8 DEF Inv, TypeOK, MailType
<1>10. BidsInRange' BY <1>1 DEF Inv, BidsInRange
<1>11. ItemsOnce'
  <2>1. AItems' = AItems \ {c.item : c \in {a}} BY <1>1
  <2>2. \A m \in new : m.item = NoItem \/ \E c \in {a} : m.item = c.item BY <1>6
  <2>3. TypeOK /\ ItemsOnce BY DEF Inv
  <2> HIDE DEF new
  <2>4. Closes({a}, new) BY <1>1, <1>6, <2>1, <2>2 DEF Closes
  <2> QED BY <2>3, <2>4, Delivery
<1> QED BY <1>9, <1>10, <1>11 DEF Inv

\* The owner takes his item back.
LEMMA RemoveItemInv ==
    ASSUME Inv, NEW p \in Player, NEW a \in auctions, HandleAuctionRemoveItem(p, a)
    PROVE  Inv'
<1> DEFINE back == Letter(a, "returned", p, 0, a.item)
           refund == IF a.bidder = NoOne THEN {} ELSE CancelledMail(a)
           new == refund \cup {back}
<1>1. a \in AuctionEntry BY DEF Inv, TypeOK
<1>2. /\ mails' = mails \cup new
      /\ AItems' = AItems \ {a.item} /\ auctions' = auctions \ {a}
      /\ UNCHANGED <<now, inv, hardcore, nextId>>
  BY DEF HandleAuctionRemoveItem
<1>3. money' = money \/ money' = [money EXCEPT ![p] = ModifyMoney(@, Minus(GetAuctionCut(a)))]
  BY DEF HandleAuctionRemoveItem
<1>4. money' \in [Player -> 0 .. UInt - 1]
  <2>1. money[p] \in 0 .. UInt - 1 BY DEF Inv, TypeOK
  <2> QED BY <1>1, <1>3, <2>1, CutNat, MoneyBounds DEF Inv, TypeOK
<1>5. back \in MailType /\ back.item = a.item
  BY <1>1 DEF Letter, MailType, Subjects, AuctionEntry
<1>6. refund \subseteq MailType /\ \A m \in refund : m.item = NoItem
  BY <1>1, RefundLetters
<1>7. /\ new \subseteq MailType
      /\ \A m \in new : m.item = NoItem \/ \E c \in {a} : m.item = c.item
      /\ \A m, n \in new : m.item = n.item /\ m.item # NoItem => m = n
  <2> HIDE DEF back, refund
  <2> QED BY <1>5, <1>6
<1> HIDE DEF new
<1>8. TypeOK' BY <1>2, <1>4, <1>7 DEF Inv, TypeOK, MailType
<1>9. BidsInRange' BY <1>2 DEF Inv, BidsInRange
<1>10. ItemsOnce'
  <2>1. AItems' = AItems \ {c.item : c \in {a}} BY <1>2
  <2>2. TypeOK /\ ItemsOnce BY DEF Inv
  <2>3. Closes({a}, new) BY <1>2, <1>7, <2>1 DEF Closes
  <2> QED BY <2>2, <2>3, Delivery
<1> QED BY <1>8, <1>9, <1>10 DEF Inv

\* Update closes all the auctions that are over.
LEMMA UpdateInv ==
    ASSUME Inv, Update
    PROVE  Inv'
<1> DEFINE new == UNION {ClosingMails(a) : a \in Expired}
<1>1. /\ mails' = mails \cup new
      /\ AItems' = AItems \ {a.item : a \in Expired} /\ auctions' = auctions \ Expired
      /\ UNCHANGED <<now, money, inv, hardcore, nextId>>
  BY DEF Update
<1>2. Expired \subseteq auctions /\ \A a \in Expired : a \in AuctionEntry
  BY DEF Expired, Inv, TypeOK
<1>3. \A a \in Expired : LettersOf(a, ClosingMails(a)) BY <1>2, ClosingLetters
<1>4. \A m \in new : \E a \in Expired : m \in ClosingMails(a) OBVIOUS
<1>5. new \subseteq MailType BY <1>3, <1>4 DEF LettersOf
<1>6. \A m \in new : m.item = NoItem \/ \E a \in Expired : m.item = a.item
  BY <1>3, <1>4 DEF LettersOf
<1>7. \A m, n \in new : m.item = n.item /\ m.item # NoItem => m = n
  <2> SUFFICES ASSUME NEW m \in new, NEW n \in new, m.item = n.item, m.item # NoItem
               PROVE  m = n
    OBVIOUS
  <2>1. PICK a \in Expired : m \in ClosingMails(a) BY <1>4
  <2>2. PICK b \in Expired : n \in ClosingMails(b) BY <1>4
  <2>3. m.item = a.item /\ n.item = b.item BY <1>3, <2>1, <2>2 DEF LettersOf
  <2>4. a = b BY <1>2, <2>3 DEF Inv, ItemsOnce
  <2> QED BY <1>3, <2>1, <2>2, <2>4 DEF LettersOf
<1> HIDE DEF new
<1>8. TypeOK' BY <1>1, <1>5 DEF Inv, TypeOK, MailType
<1>9. BidsInRange' BY <1>1 DEF Inv, BidsInRange
<1>10. ItemsOnce'
  <2>1. TypeOK /\ ItemsOnce BY DEF Inv
  <2>2. Closes(Expired, new) BY <1>1, <1>2, <1>5, <1>6, <1>7 DEF Closes
  <2> QED BY <2>1, <2>2, Delivery
<1> QED BY <1>8, <1>9, <1>10 DEF Inv

\* Gold and items leave the mailbox.
LEMMA MailboxInv ==
    ASSUME Inv, NEW m \in mails, HandleMailTakeMoney(m) \/ HandleMailTakeItem(m)
    PROVE  Inv'
<1>1. m \in MailType BY DEF Inv, TypeOK, MailType
<1>2. mails' = mails \ {m} /\ UNCHANGED <<now, hardcore, auctions, AItems, nextId>>
  BY DEF HandleMailTakeMoney, HandleMailTakeItem
<1>3. BidsInRange' BY <1>2 DEF Inv, BidsInRange
<1>4. MailedItems' \subseteq MailedItems BY <1>2 DEF MailedItems
<1>5. CASE HandleMailTakeMoney(m)
  <2>1. inv' = inv /\ money' = [money EXCEPT ![m.to] = ModifyMoney(@, m.money)]
    BY <1>5 DEF HandleMailTakeMoney
  <2>2. m.to \in Player /\ m.money \in Nat BY <1>1 DEF MailType
  <2>3. money[m.to] \in 0 .. UInt - 1 BY <2>2 DEF Inv, TypeOK
  <2>4. money' \in [Player -> 0 .. UInt - 1] BY <2>1, <2>2, <2>3, MoneyBounds DEF Inv, TypeOK
  <2>5. TypeOK' BY <1>2, <2>1, <2>4 DEF Inv, TypeOK
  <2>6. ItemsOnce' BY <1>2, <1>4, <2>1 DEF Inv, ItemsOnce, Disjoint
  <2> QED BY <1>3, <2>5, <2>6 DEF Inv
<1>6. CASE HandleMailTakeItem(m)
  <2>1. /\ inv' = [inv EXCEPT ![m.to] = @ \cup {m.item}] /\ money' = money
        /\ m.item # NoItem
    BY <1>6 DEF HandleMailTakeItem
  <2>2. m.to \in Player /\ m.item \in Item BY <1>1, <2>1 DEF MailType
  <2>3. /\ \A q \in Player : q # m.to => inv'[q] = inv[q]
        /\ inv'[m.to] = inv[m.to] \cup {m.item}
    BY <2>1, <2>2 DEF Inv, TypeOK
  <2>4. inv' \in [Player -> SUBSET Item] BY <2>1, <2>2 DEF Inv, TypeOK
  <2>5. TypeOK' BY <1>2, <2>1, <2>4 DEF Inv, TypeOK
  <2>6. m.item \in MailedItems BY <2>1 DEF MailedItems
  <2>7. m.item \notin MailedItems'
    BY <1>2, <2>1 DEF Inv, ItemsOnce, MailedItems
  <2>8. \A q \in Player : m.item \notin inv[q] BY <2>6 DEF Inv, ItemsOnce
  <2>9. m.item \notin AItems BY <2>6 DEF Inv, ItemsOnce
  <2>10. Disjoint(inv)' BY <2>3, <2>8 DEF Inv, ItemsOnce, Disjoint
  <2>11. \A q \in Player : inv'[q] \cap (AItems' \cup MailedItems') = {}
    BY <1>2, <1>4, <2>3, <2>7, <2>9 DEF Inv, ItemsOnce
  <2>12. ItemsOnce' BY <1>2, <1>4, <2>10, <2>11 DEF Inv, ItemsOnce
  <2> QED BY <1>3, <2>5, <2>12 DEF Inv
<1> QED BY <1>5, <1>6

\* Entering hardcore mode, and the answer to the query for the letters.
LEMMA HardcoreInv ==
    ASSUME Inv, NEW p \in Player, SetupHardcoreMode(p) \/ HandleHardcoreMailQuery(p)
    PROVE  Inv'
<1>1. CASE SetupHardcoreMode(p)
  <2>1. PICK kept \in SUBSET inv[p] : inv' = [inv EXCEPT ![p] = kept]
    BY <1>1 DEF SetupHardcoreMode
  <2>2. /\ auctions' \subseteq auctions /\ UNCHANGED <<now, AItems, mails, nextId>>
        /\ hardcore' = [hardcore EXCEPT ![p] = "asked"] /\ money' = [money EXCEPT ![p] = 0]
    BY <1>1 DEF SetupHardcoreMode
  <2>3. /\ \A q \in Player : inv'[q] \subseteq inv[q]
        /\ inv' \in [Player -> SUBSET Item]
    BY <2>1 DEF Inv, TypeOK
  <2>4. money' \in [Player -> 0 .. UInt - 1] BY <2>2, NumbersAssumption DEF Inv, TypeOK
  <2>5. TypeOK' BY <2>2, <2>3, <2>4 DEF Inv, TypeOK
  <2>6. MailedItems' = MailedItems BY <2>2 DEF MailedItems
  <2>7. ItemsOnce' BY <2>2, <2>3, <2>6 DEF Inv, ItemsOnce, Disjoint
  <2>8. BidsInRange' BY <2>2 DEF Inv, BidsInRange
  <2> QED BY <2>5, <2>7, <2>8 DEF Inv
<1>2. CASE HandleHardcoreMailQuery(p)
  <2>1. /\ mails' \subseteq mails /\ UNCHANGED <<now, money, inv, auctions, AItems, nextId>>
        /\ hardcore' = [hardcore EXCEPT ![p] = "yes"]
    BY <1>2 DEF HandleHardcoreMailQuery
  <2>2. MailedItems' \subseteq MailedItems BY <2>1 DEF MailedItems
  <2>3. TypeOK' BY <2>1 DEF Inv, TypeOK
  <2>4. ItemsOnce' BY <2>1, <2>2 DEF Inv, ItemsOnce, Disjoint
  <2>5. BidsInRange' BY <2>1 DEF Inv, BidsInRange
  <2> QED BY <2>3, <2>4, <2>5 DEF Inv
<1> QED BY <1>1, <1>2

-----------------------------------------------------------------------------

\* Every step keeps the invariant.
LEMMA NextInv == Inv /\ [Next]_vars => Inv'
<1> SUFFICES ASSUME Inv, [Next]_vars PROVE Inv'
  OBVIOUS
<1>1. CASE Sell
  <2>1. PICK p \in Player, h \in House, item \in Item, bid \in Prices,
             buyout \in Prices \cup {0}, deposit \in Deposits, etime \in Durations :
             HandleAuctionSellItem(p, h, item, bid, buyout, deposit, etime)
    BY <1>1 DEF Sell
  <2>2. bid \in Nat /\ buyout \in Nat /\ deposit \in Nat /\ etime \in Nat
    BY NumbersAssumption
  <2> QED BY <2>1, <2>2, SellInv
<1>2. CASE Bid
  <2>1. PICK p \in Player, a \in auctions, price \in Prices : HandleAuctionPlaceBid(p, a, price)
    BY <1>2 DEF Bid
  <2>2. price \in Nat BY NumbersAssumption
  <2> QED BY <2>1, <2>2, PlaceBidInv, BuyoutInv DEF HandleAuctionPlaceBid
<1>3. CASE Cancel BY <1>3, RemoveItemInv DEF Cancel
<1>4. CASE Update BY <1>4, UpdateInv
<1>5. CASE Post BY <1>5, MailboxInv DEF Post
<1>6. CASE Hardcore BY <1>6, HardcoreInv DEF Hardcore
<1>7. CASE Tick
  <2>1. now' \in Nat /\ UNCHANGED <<money, inv, hardcore, auctions, AItems, mails, nextId>>
    BY <1>7 DEF Tick, Inv, TypeOK
  <2> QED BY <2>1 DEF Inv, TypeOK, ItemsOnce, BidsInRange, MailedItems, Disjoint
<1>8. CASE UNCHANGED vars
  BY <1>8 DEF vars, Inv, TypeOK, ItemsOnce, BidsInRange, MailedItems, Disjoint
<1> QED BY <1>1, <1>2, <1>3, <1>4, <1>5, <1>6, <1>7, <1>8 DEF Next

\* An item is never in two places, with its owner, in a letter and with the house, however
\* handlers, expiry, hardcore mode and mailbox follow each other; and no bid leaves its
\* range, so the differences that HandleAuctionPlaceBid subtracts do not wrap.
THEOREM HouseKeepsItems == Spec => [](TypeOK /\ ItemsOnce /\ BidsInRange)
<1>1. Init => Inv BY InitInv
<1>2. Inv /\ [Next]_vars => Inv' BY NextInv
<1>3. Inv => TypeOK /\ ItemsOnce /\ BidsInRange BY DEF Inv
<1> QED BY <1>1, <1>2, <1>3, PTL DEF Spec

\* Every variable of the house keeps its type; purses never go below zero.
THEOREM HouseTypeCorrect == Spec => []TypeOK
  BY HouseKeepsItems, PTL

\* No bid is above its buyout price and none is below the start bid, whoever bids in
\* which order: the unsigned differences in HandleAuctionPlaceBid do not wrap.
THEOREM BidsStayInRange == Spec => []BidsInRange
  BY HouseKeepsItems, PTL

-----------------------------------------------------------------------------
(* Final letters.                                                          *)

\* A letter with one of these subjects is the last word about its auction.
Final == {"sold", "won", "expired", "returned"}

\* The final letters are about auctions that are closed, and nobody bids on his own.
LettersInv ==
    /\ \A m \in mails : m.Id < nextId
    /\ \A m \in mails, a \in auctions : m.subject \in Final => m.Id # a.Id
    /\ \A a \in auctions : a.bidder # a.owner

\* Letters of auction a that say nothing final: those that give a bid back.
Refunds(a, R) == \A m \in R : m.Id = a.Id /\ m.subject \notin Final

\* What the letters of an auction say: its id, and who is told what.
LEMMA LetterFields ==
    ASSUME NEW a, NEW subject, NEW to, NEW gold, NEW item
    PROVE  /\ Letter(a, subject, to, gold, item).Id = a.Id
           /\ Letter(a, subject, to, gold, item).subject = subject
           /\ Letter(a, subject, to, gold, item).to = to
           /\ Letter(a, subject, to, gold, item).money = gold
           /\ Letter(a, subject, to, gold, item).item = item
  BY DEF Letter

\* A step that adds letters and closes auctions keeps LettersInv.
LEMMA LettersKept ==
    ASSUME TypeOK, ItemsOnce, LettersInv, NEW closed, NEW new, closed \subseteq auctions,
           mails' \subseteq mails \cup new, auctions' \subseteq auctions \ closed,
           nextId' = nextId, \A m \in new : \E a \in closed : m.Id = a.Id
    PROVE  LettersInv'
<1>1. \A a, b \in auctions : a.Id = b.Id => a = b BY DEF ItemsOnce
<1>2. \A m \in new : m.Id < nextId BY DEF ItemsOnce
<1>3. \A m \in mails' : m.Id < nextId' BY <1>2 DEF LettersInv
<1>4. \A m \in mails', a \in auctions' : m.subject \in Final => m.Id # a.Id
  <2> SUFFICES ASSUME NEW m \in mails', NEW a \in auctions', m.subject \in Final, m.Id = a.Id
               PROVE  FALSE
    OBVIOUS
  <2>1. m \in new BY DEF LettersInv
  <2>2. PICK c \in closed : m.Id = c.Id BY <2>1
  <2> QED BY <1>1, <2>2
<1>5. \A a \in auctions' : a.bidder # a.owner BY DEF LettersInv
<1> QED BY <1>3, <1>4, <1>5 DEF LettersInv

\* The letters of the house are about their auction, and a refund is never final.
LEMMA HouseLetters ==
    ASSUME NEW a, NEW p
    PROVE  /\ Refunds(a, Refund(p, a)) /\ Refunds(a, CancelledMail(a))
           /\ \A m \in SuccessfulMail(a) \cup WonMail(a) \cup ExpiredMail(a) : m.Id = a.Id
<1>1. Refunds(a, Refund(p, a)) /\ Refunds(a, CancelledMail(a))
  BY LetterFields DEF Refunds, Refund, OutbidMail, CancelledMail, Final
<1>2. \A m \in SuccessfulMail(a) \cup WonMail(a) \cup ExpiredMail(a) : m.Id = a.Id
  BY LetterFields DEF SuccessfulMail, WonMail, ExpiredMail
<1> QED BY <1>1, <1>2

\* Listing an item.
LEMMA SellLetters ==
    ASSUME Inv, LettersInv, NEW p \in Player, NEW h \in House, NEW item \in Item,
           NEW bid \in Nat, NEW buyout \in Nat, NEW deposit \in Nat, NEW etime \in Nat,
           HandleAuctionSellItem(p, h, item, bid, buyout, deposit, etime)
    PROVE  LettersInv'
<1> DEFINE a == [Id |-> nextId, house |-> h, item |-> item, owner |-> p, startbid |-> bid,
                 bid |-> 0, buyout |-> buyout, bidder |-> NoOne, deposit |-> deposit,
                 expireTime |-> now + etime]
<1>1. auctions' = auctions \cup {a} /\ nextId' = nextId + 1 /\ mails' = mails
  BY DEF HandleAuctionSellItem
<1>2. a.Id = nextId /\ a.bidder # a.owner BY GuidAssumption
<1> HIDE DEF a
<1>3. nextId \in Nat /\ \A m \in mails : m.Id \in Nat BY DEF Inv, TypeOK
<1> QED BY <1>1, <1>2, <1>3 DEF LettersInv

\* A bid below the buyout.
LEMMA PlaceBidLetters ==
    ASSUME Inv, LettersInv, NEW p \in Player, NEW a \in auctions, NEW price \in Nat,
           PlaceBid(p, a, price)
    PROVE  LettersInv'
<1> DEFINE b == [a EXCEPT !.bidder = p, !.bid = price]
<1>1. /\ auctions' = (auctions \ {a}) \cup {b} /\ mails' = mails \cup Refund(p, a)
      /\ nextId' = nextId /\ Account[a.owner] # Account[p]
  BY DEF PlaceBid, CanBid
<1>2. a \in AuctionEntry BY DEF Inv, TypeOK
<1>3. b.Id = a.Id /\ b.bidder = p /\ b.owner = a.owner BY <1>2 DEF AuctionEntry
<1> HIDE DEF b
<1>4. Refunds(a, Refund(p, a)) BY HouseLetters
<1>5. a.Id < nextId BY DEF Inv, ItemsOnce
<1>6. \A m \in mails' : m.Id < nextId' BY <1>1, <1>4, <1>5 DEF LettersInv, Refunds
<1>7. \A m \in mails', c \in auctions' : m.subject \in Final => m.Id # c.Id
  BY <1>1, <1>3, <1>4 DEF LettersInv, Refunds
<1>8. \A c \in auctions' : c.bidder # c.owner BY <1>1, <1>3 DEF LettersInv
<1> QED BY <1>6, <1>7, <1>8 DEF LettersInv

\* A buyout.
LEMMA BuyoutLetters ==
    ASSUME Inv, LettersInv, NEW p \in Player, NEW a \in auctions, NEW price \in Nat,
           Buyout(p, a, price)
    PROVE  LettersInv'
<1> DEFINE b == [a EXCEPT !.bidder = p, !.bid = a.buyout]
           new == Refund(p, a) \cup SuccessfulMail(b) \cup WonMail(b)
<1>1. /\ mails' = mails \cup new /\ auctions' = auctions \ {a} /\ nextId' = nextId
      /\ Account[a.owner] # Account[p]
  BY DEF Buyout, CanBid
<1>2. a \in AuctionEntry BY DEF Inv, TypeOK
<1>3. /\ b \in AuctionEntry /\ b.Id = a.Id /\ b.bidder = p /\ b.owner = a.owner
      /\ b.item = a.item
  BY <1>2 DEF AuctionEntry
<1> HIDE DEF b
<1>4. Refunds(a, Refund(p, a)) BY HouseLetters
<1>5. \A m \in new : m.Id = a.Id
  <2>1. \A m \in SuccessfulMail(b) \cup WonMail(b) : m.Id = b.Id BY HouseLetters
  <2> QED BY <1>3, <1>4, <2>1 DEF Refunds
<1>6. LettersInv'
  <2> HIDE DEF new
  <2>1. \A m \in new : \E c \in {a} : m.Id = c.Id BY <1>5
  <2>2. TypeOK /\ ItemsOnce BY DEF Inv
  <2>3. {a} \subseteq auctions /\ auctions' \subseteq auctions \ {a} BY <1>1
  <2>4. mails' \subseteq mails \cup new BY <1>1
  <2> QED BY <1>1, <2>1, <2>2, <2>3, <2>4, LettersKept
<1> QED BY <1>6

\* The owner takes his item back.
LEMMA RemoveItemLetters ==
    ASSUME Inv, LettersInv, NEW p \in Player, NEW a \in auctions, HandleAuctionRemoveItem(p, a)
    PROVE  LettersInv'
<1> DEFINE back == Letter(a, "returned", p, 0, a.item)
           refund == IF a.bidder = NoOne THEN {} ELSE CancelledMail(a)
           new == refund \cup {back}
<1>1. mails' = mails \cup new /\ auctions' = auctions \ {a} /\ nextId' = nextId /\ a.owner = p
  BY DEF HandleAuctionRemoveItem
<1>2. Refunds(a, refund)
  <2>1. Refunds(a, CancelledMail(a)) BY HouseLetters
  <2> QED BY <2>1 DEF Refunds
<1>3. back.Id = a.Id /\ back.subject = "returned" /\ back.to = p /\ back.item = a.item
  BY LetterFields
<1> HIDE DEF back, refund
<1>4. \A m \in new : m.Id = a.Id BY <1>2, <1>3 DEF Refunds
<1>5. LettersInv'
  <2> HIDE DEF new
  <2>1. \A m \in new : \E c \in {a} : m.Id = c.Id BY <1>4
  <2>2. TypeOK /\ ItemsOnce BY DEF Inv
  <2>3. {a} \subseteq auctions /\ auctions' \subseteq auctions \ {a} BY <1>1
  <2>4. mails' \subseteq mails \cup new BY <1>1
  <2> QED BY <1>1, <2>1, <2>2, <2>3, <2>4, LettersKept
<1> QED BY <1>5

\* Update closes all the auctions that are over.
LEMMA UpdateLetters ==
    ASSUME Inv, LettersInv, Update
    PROVE  LettersInv'
<1> DEFINE new == UNION {ClosingMails(a) : a \in Expired}
<1>1. mails' = mails \cup new /\ auctions' = auctions \ Expired /\ nextId' = nextId
  BY DEF Update
<1>2. Expired \subseteq auctions /\ \A a \in Expired : a \in AuctionEntry
  BY DEF Expired, Inv, TypeOK
<1>3. \A a \in Expired : \A m \in ClosingMails(a) : m.Id = a.Id
  <2> SUFFICES ASSUME NEW a \in Expired PROVE \A m \in ClosingMails(a) : m.Id = a.Id
    OBVIOUS
  <2>1. \A m \in SuccessfulMail(a) \cup WonMail(a) \cup ExpiredMail(a) : m.Id = a.Id
    BY HouseLetters
  <2> QED BY <2>1 DEF ClosingMails
<1>4. \A m \in new : \E a \in Expired : m \in ClosingMails(a) OBVIOUS
<1>5. \A a \in Expired : ClosingMails(a) \subseteq new OBVIOUS
<1>6. \A a, b \in auctions : a.Id = b.Id => a = b BY DEF Inv, ItemsOnce
<1> HIDE DEF new
<1>7. LettersInv'
  <2>1. \A m \in new : \E c \in Expired : m.Id = c.Id BY <1>3, <1>4
  <2>2. TypeOK /\ ItemsOnce BY DEF Inv
  <2> QED BY <1>1, <1>2, <2>1, <2>2, LettersKept
<1> QED BY <1>7

\* Every step keeps LettersInv.
LEMMA NextLetters ==
    ASSUME Inv, LettersInv, [Next]_vars
    PROVE  LettersInv'
<1>1. CASE Sell
  <2>1. PICK p \in Player, h \in House, item \in Item, bid \in Prices,
             buyout \in Prices \cup {0}, deposit \in Deposits, etime \in Durations :
             HandleAuctionSellItem(p, h, item, bid, buyout, deposit, etime)
    BY <1>1 DEF Sell
  <2>2. bid \in Nat /\ buyout \in Nat /\ deposit \in Nat /\ etime \in Nat
    BY NumbersAssumption
  <2> QED BY <2>1, <2>2, SellLetters
<1>2. CASE Bid
  <2>1. PICK p \in Player, a \in auctions, price \in Prices : HandleAuctionPlaceBid(p, a, price)
    BY <1>2 DEF Bid
  <2>2. price \in Nat BY NumbersAssumption
  <2> QED BY <2>1, <2>2, PlaceBidLetters, BuyoutLetters DEF HandleAuctionPlaceBid
<1>3. CASE Cancel BY <1>3, RemoveItemLetters DEF Cancel
<1>4. CASE Update BY <1>4, UpdateLetters
<1>5. ASSUME NEW p \in Player, SetupHardcoreMode(p) PROVE LettersInv'
  BY <1>5 DEF SetupHardcoreMode, LettersInv
<1>6. ASSUME mails' \subseteq mails, auctions' = auctions, nextId' = nextId
      PROVE  LettersInv'
  BY <1>6 DEF LettersInv
<1>7. ASSUME NEW p \in Player, HandleHardcoreMailQuery(p)
      PROVE  mails' \subseteq mails /\ auctions' = auctions /\ nextId' = nextId
  BY <1>7 DEF HandleHardcoreMailQuery
<1>8. CASE Hardcore BY <1>5, <1>6, <1>7, <1>8 DEF Hardcore
<1>9. CASE Post
  <2>1. mails' \subseteq mails /\ auctions' = auctions /\ nextId' = nextId
    BY <1>9 DEF Post, HandleMailTakeMoney, HandleMailTakeItem
  <2> QED BY <2>1, <1>6
<1>10. CASE Tick \/ UNCHANGED vars
  <2>1. mails' \subseteq mails /\ auctions' = auctions /\ nextId' = nextId
    BY <1>10 DEF Tick, vars
  <2> QED BY <2>1, <1>6
<1> QED BY <1>1, <1>2, <1>3, <1>4, <1>8, <1>9, <1>10 DEF Next

-----------------------------------------------------------------------------
(* Sums over finite sets.  The sum of the weights g[x] of the elements of S  *)
(* is the number of pairs of an element and a number below its weight; that  *)
(* no order of summation matters is a fact about cardinalities.              *)

Coins(S, g) == {c \in S \X Nat : c[2] < g[c[1]]}
Sum(S, g) == Cardinality(Coins(S, g))

\* Every element of S weighs a natural number.
Weighs(S, g) == IsFiniteSet(S) /\ \A x \in S : g[x] \in Nat

\* Induction over the subsets of a finite set: one element at a time.
LEMMA SubsetInduction ==
    ASSUME NEW S, IsFiniteSet(S), NEW P, {} \in P,
           \A w \in SUBSET S : \A x \in S \ w : w \in P => w \cup {x} \in P
    PROVE  S \in P
<1> DEFINE bad == (SUBSET S) \ P
<1> SUFFICES ASSUME bad # {} PROVE FALSE
  OBVIOUS
<1>1. bad \subseteq FiniteSubsetsOf(S) BY FS_FiniteSubsetsOfFinite
<1>2. PICK w \in bad : \A v \in bad : ~(<<v, w>> \in StrictSubsetOrdering(S))
  <2> HIDE DEF bad
  <2> QED BY <1>1, FS_StrictSubsetOrderingWellFounded, WFMin
<1>3. PICK x \in w : TRUE OBVIOUS
<1>4. w \ {x} \in P
  <2>1. <<w \ {x}, w>> \in StrictSubsetOrdering(S) BY <1>3 DEF StrictSubsetOrdering
  <2> QED BY <1>2, <2>1
<1>5. (w \ {x}) \cup {x} = w BY <1>3
<1> QED BY <1>3, <1>4, <1>5

\* Two parts of a set.
LEMMA CoinsSplit ==
    ASSUME NEW S, NEW T, NEW g
    PROVE  /\ Coins(S \cup T, g) = Coins(S, g) \cup Coins(T, g)
           /\ S \cap T = {} => Coins(S, g) \cap Coins(T, g) = {}
  BY DEF Coins

\* The coins of one element.
LEMMA CoinsOne ==
    ASSUME NEW x, NEW g, g[x] \in Nat
    PROVE  IsFiniteSet(Coins({x}, g)) /\ Sum({x}, g) = g[x]
<1> DEFINE T == 0 .. (g[x] - 1)
<1>1. Coins({x}, g) = {x} \X T BY DEF Coins
<1>2. IsFiniteSet(T) /\ Cardinality(T) = g[x]
  <2>1. g[x] - 1 \in Int /\ 0 \in Int OBVIOUS
  <2>2. IsFiniteSet(T) /\ Cardinality(T) = IF 0 > g[x] - 1 THEN 0 ELSE g[x] - 1 - 0 + 1
    BY <2>1, FS_Interval
  <2> HIDE DEF T
  <2> QED BY <2>2
<1>3. IsFiniteSet({x}) /\ Cardinality({x}) = 1 BY FS_Singleton
<1> HIDE DEF T
<1>4. IsFiniteSet({x} \X T) /\ Cardinality({x} \X T) = Cardinality({x}) * Cardinality(T)
  BY <1>2, <1>3, FS_Product
<1>5. Cardinality({x}) * Cardinality(T) = g[x]
  <2>1. Cardinality({x}) * Cardinality(T) = 1 * g[x] BY <1>2, <1>3
  <2> QED BY <2>1
<1> QED BY <1>1, <1>4, <1>5 DEF Sum

\* Finitely many weights have finitely many coins.
LEMMA CoinsFinite ==
    ASSUME NEW S, NEW g, Weighs(S, g)
    PROVE  IsFiniteSet(Coins(S, g)) /\ Sum(S, g) \in Nat
<1> DEFINE P == {w \in SUBSET S : IsFiniteSet(Coins(w, g))}
<1>1. {} \in P
  <2>1. Coins({}, g) = {} BY DEF Coins
  <2> QED BY <2>1, FS_EmptySet
<1>2. ASSUME NEW w \in SUBSET S, NEW x \in S \ w, w \in P PROVE w \cup {x} \in P
  <2>1. IsFiniteSet(Coins(w, g)) BY <1>2
  <2>2. IsFiniteSet(Coins({x}, g)) BY CoinsOne DEF Weighs
  <2>3. IsFiniteSet(Coins(w, g) \cup Coins({x}, g)) BY <2>1, <2>2, FS_Union
  <2> QED BY <2>3, CoinsSplit
<1>3. S \in P
  <2> HIDE DEF P
  <2> QED BY <1>1, <1>2, SubsetInduction DEF Weighs
<1>4. IsFiniteSet(Coins(S, g)) BY <1>3
<1> QED BY <1>4, FS_CardinalityType DEF Sum

\* Nothing weighs nothing.
LEMMA SumNone ==
    ASSUME NEW g
    PROVE  Sum({}, g) = 0
<1>1. Coins({}, g) = {} BY DEF Coins
<1> QED BY <1>1, FS_EmptySet DEF Sum

\* The sum over two disjoint sets.
LEMMA SumSplit ==
    ASSUME NEW S, NEW T, NEW g, Weighs(S, g), Weighs(T, g), S \cap T = {}
    PROVE  Sum(S \cup T, g) = Sum(S, g) + Sum(T, g)
<1>1. /\ IsFiniteSet(Coins(S, g)) /\ IsFiniteSet(Coins(T, g))
      /\ Sum(S, g) \in Nat /\ Sum(T, g) \in Nat
  BY CoinsFinite
<1>2. Cardinality(Coins(S, g) \cup Coins(T, g))
        = Cardinality(Coins(S, g)) + Cardinality(Coins(T, g))
              - Cardinality(Coins(S, g) \cap Coins(T, g))
  BY <1>1, FS_Union
<1>3. Coins(S, g) \cap Coins(T, g) = {} /\ Cardinality({}) = 0 BY CoinsSplit, FS_EmptySet
<1>4. Cardinality(Coins(S, g) \cup Coins(T, g)) = Sum(S, g) + Sum(T, g) - 0
  BY <1>2, <1>3 DEF Sum
<1>5. Sum(S \cup T, g) = Cardinality(Coins(S, g) \cup Coins(T, g)) BY CoinsSplit DEF Sum
<1> QED BY <1>1, <1>4, <1>5

\* The sum depends on the weights of the elements only.
LEMMA SumSame ==
    ASSUME NEW S, NEW g, NEW h, \A x \in S : g[x] = h[x]
    PROVE  Sum(S, g) = Sum(S, h)
<1>1. Coins(S, g) = Coins(S, h) BY DEF Coins
<1> QED BY <1>1 DEF Sum

\* One element more.
LEMMA SumAdd ==
    ASSUME NEW S, NEW g, Weighs(S, g), NEW x, x \notin S, g[x] \in Nat
    PROVE  Sum(S \cup {x}, g) = Sum(S, g) + g[x]
<1>1. Weighs({x}, g) BY FS_Singleton DEF Weighs
<1>2. S \cap {x} = {} OBVIOUS
<1> QED BY <1>1, <1>2, SumSplit, CoinsOne

\* One element less.
LEMMA SumRemove ==
    ASSUME NEW S, NEW g, Weighs(S, g), NEW x \in S
    PROVE  Weighs(S \ {x}, g) /\ Sum(S, g) = Sum(S \ {x}, g) + g[x]
<1>1. Weighs(S \ {x}, g) BY FS_RemoveElement DEF Weighs
<1>2. (S \ {x}) \cup {x} = S /\ g[x] \in Nat BY DEF Weighs
<1>3. x \notin S \ {x} OBVIOUS
<1>4. Sum((S \ {x}) \cup {x}, g) = Sum(S \ {x}, g) + g[x] BY <1>1, <1>2, <1>3, SumAdd
<1> QED BY <1>1, <1>2, <1>4

\* Fewer elements weigh less.
LEMMA SumPart ==
    ASSUME NEW S, NEW T \in SUBSET S, NEW g, Weighs(S, g)
    PROVE  Weighs(T, g) /\ Sum(T, g) <= Sum(S, g)
<1>1. Weighs(T, g) BY FS_Subset DEF Weighs
<1>2. Coins(T, g) \subseteq Coins(S, g) BY DEF Coins
<1>3. IsFiniteSet(Coins(S, g)) BY CoinsFinite
<1>4. Cardinality(Coins(T, g)) <= Cardinality(Coins(S, g)) BY <1>2, <1>3, FS_Subset
<1> QED BY <1>1, <1>4 DEF Sum

\* Two sets together weigh at most what they weigh apart.
LEMMA SumUnion ==
    ASSUME NEW S, NEW T, NEW g, Weighs(S, g), Weighs(T, g)
    PROVE  Weighs(S \cup T, g) /\ Sum(S \cup T, g) <= Sum(S, g) + Sum(T, g)
<1>1. Weighs(S \cup T, g)
  <2>1. IsFiniteSet(S \cup T) BY FS_Union DEF Weighs
  <2> QED BY <2>1 DEF Weighs
<1>2. Weighs(T \ S, g) /\ Sum(T \ S, g) <= Sum(T, g) BY SumPart
<1>3. S \cup T = S \cup (T \ S) /\ S \cap (T \ S) = {} OBVIOUS
<1>4. Sum(S \cup (T \ S), g) = Sum(S, g) + Sum(T \ S, g) BY <1>2, <1>3, SumSplit
<1>5. Sum(S, g) \in Nat /\ Sum(T, g) \in Nat /\ Sum(T \ S, g) \in Nat BY <1>2, CoinsFinite
<1>6. Sum(S \cup T, g) = Sum(S, g) + Sum(T \ S, g) BY <1>3, <1>4, Zenon
<1> QED BY <1>1, <1>2, <1>5, <1>6

\* f is computed the way MapThenSumSet computes: one chosen element after the other.
First(w) == CHOOSE x \in w : TRUE
Adds(f, S, g) ==
    /\ f[{}] = 0
    /\ \A w \in SUBSET S : w # {} => f[w] = g[First(w)] + f[w \ {First(w)}]

\* Whatever is computed that way is the sum.
LEMMA FoldIsSum ==
    ASSUME NEW S, NEW g, Weighs(S, g), NEW f, Adds(f, S, g)
    PROVE  f[S] = Sum(S, g)
<1> DEFINE bad == {w \in SUBSET S : f[w] # Sum(w, g)}
<1> SUFFICES ASSUME bad # {} PROVE FALSE
  OBVIOUS
<1>1. bad \subseteq FiniteSubsetsOf(S) BY FS_FiniteSubsetsOfFinite DEF Weighs
<1>2. PICK w \in bad : \A v \in bad : ~(<<v, w>> \in StrictSubsetOrdering(S))
  <2> HIDE DEF bad
  <2> QED BY <1>1, FS_StrictSubsetOrderingWellFounded, WFMin
<1>3. w \in SUBSET S /\ f[w] # Sum(w, g) OBVIOUS
<1>4. w # {} BY <1>3, SumNone DEF Adds
<1> DEFINE x == First(w)
<1>5. x \in w BY <1>4 DEF First
<1>6. f[w] = g[x] + f[w \ {x}] BY <1>3, <1>4 DEF Adds
<1> HIDE DEF x
<1>7. f[w \ {x}] = Sum(w \ {x}, g)
  <2>1. <<w \ {x}, w>> \in StrictSubsetOrdering(S) BY <1>3, <1>5 DEF StrictSubsetOrdering
  <2> QED BY <1>2, <1>3, <2>1
<1>8. Weighs(w, g) BY <1>3, SumPart
<1>9. Sum(w, g) = Sum(w \ {x}, g) + g[x] /\ Weighs(w \ {x}, g) BY <1>5, <1>8, SumRemove
<1>10. g[x] \in Nat /\ Sum(w \ {x}, g) \in Nat BY <1>5, <1>8, <1>9, CoinsFinite DEF Weighs
<1> QED BY <1>3, <1>6, <1>7, <1>9, <1>10

\* The sum itself can be computed so.
LEMMA SumAdds ==
    ASSUME NEW S, NEW g, Weighs(S, g), NEW w \in SUBSET S, w # {}
    PROVE  /\ First(w) \in w /\ g[First(w)] \in Nat /\ Sum(w \ {First(w)}, g) \in Nat
           /\ Sum(w, g) = g[First(w)] + Sum(w \ {First(w)}, g)
<1> DEFINE x == First(w)
<1>1. x \in w BY DEF First
<1> HIDE DEF x
<1>2. Weighs(w, g) BY SumPart
<1>3. Sum(w, g) = Sum(w \ {x}, g) + g[x] /\ Weighs(w \ {x}, g) BY <1>1, <1>2, SumRemove
<1>4. g[x] \in Nat /\ Sum(w \ {x}, g) \in Nat BY <1>1, <1>2, <1>3, CoinsFinite DEF Weighs
<1> QED BY <1>1, <1>3, <1>4 DEF x

\* The weights of letters and auctions: gold, bids and deposits.
Gold == [m \in MailType |-> m.money]
Stake == [a \in AuctionEntry |-> a.bid]
Fee == [a \in AuctionEntry |-> a.deposit]

\* The sums of the model are sums of weights: the gold in a set of letters.
LEMMA MailSum ==
    ASSUME NEW S \in SUBSET MailType, IsFiniteSet(S)
    PROVE  MapThenSumSet(LAMBDA m : m.money, S) = Sum(S, Gold)
<1> DEFINE g == Gold
           Eq(it) == it = [s \in SUBSET S |->
                             IF s = {} THEN 0
                             ELSE (CHOOSE x \in s : TRUE).money + it[s \ {CHOOSE x \in s : TRUE}]]
           f == CHOOSE it : Eq(it)
           h == [s \in SUBSET S |-> Sum(s, g)]
<1>0. Weighs(S, g) BY DEF Weighs, Gold, MailType
<1>1. MapThenSumSet(LAMBDA m : m.money, S) = f[S]
  BY DEF MapThenSumSet, MapThenFoldSet
<1>2. ASSUME NEW s \in SUBSET S, s # {}
      PROVE  /\ (CHOOSE x \in s : TRUE).money = g[First(s)]
             /\ h[s] = g[First(s)] + h[s \ {First(s)}]
  <2>1. First(s) \in s /\ Sum(s, g) = g[First(s)] + Sum(s \ {First(s)}, g)
    BY <1>0, <1>2, SumAdds
  <2>2. s \ {First(s)} \in SUBSET S OBVIOUS
  <2>3. h[s] = g[First(s)] + h[s \ {First(s)}]
    <3> HIDE DEF g
    <3> QED BY <2>1, <2>2
  <2>4. First(s).money = g[First(s)] BY <2>1 DEF Gold
  <2> QED BY <2>3, <2>4 DEF First
<1>3. Eq(h)
  <2> DEFINE F(s) == IF s = {} THEN 0
                     ELSE (CHOOSE x \in s : TRUE).money + h[s \ {CHOOSE x \in s : TRUE}]
  <2>1. ASSUME NEW s \in SUBSET S PROVE h[s] = F(s)
    <3>1. CASE s = {}
      <4>1. h[s] = Sum({}, g) BY <3>1
      <4> QED BY <3>1, <4>1, SumNone
    <3>2. CASE s # {}
      <4> HIDE DEF h, g
      <4> QED BY <1>2, <3>2 DEF First
    <3> QED BY <3>1, <3>2
  <2>2. h = [s \in SUBSET S |-> h[s]] OBVIOUS
  <2> HIDE DEF F, h
  <2>3. h = [s \in SUBSET S |-> F(s)] BY <2>1, <2>2
  <2> QED BY <2>3 DEF F
<1>4. Eq(f)
  <2> HIDE DEF Eq, h
  <2> QED BY <1>3, Zenon
<1> HIDE DEF f, h
<1>5. Adds(f, S, g)
  <2>1. f[{}] = 0 BY <1>4
  <2>2. ASSUME NEW s \in SUBSET S, s # {} PROVE f[s] = g[First(s)] + f[s \ {First(s)}]
    <3>1. f[s] = (CHOOSE x \in s : TRUE).money + f[s \ {CHOOSE x \in s : TRUE}]
      BY <1>4, <2>2
    <3> HIDE DEF g
    <3> QED BY <1>2, <2>2, <3>1 DEF First
  <2> QED BY <2>1, <2>2 DEF Adds
<1> QED BY <1>0, <1>1, <1>5, FoldIsSum

\* The bids of a set of auctions.
LEMMA BidSum ==
    ASSUME NEW S \in SUBSET AuctionEntry, IsFiniteSet(S)
    PROVE  MapThenSumSet(LAMBDA a : a.bid, S) = Sum(S, Stake)
<1> DEFINE g == Stake
           Eq(it) == it = [s \in SUBSET S |->
                             IF s = {} THEN 0
                             ELSE (CHOOSE x \in s : TRUE).bid + it[s \ {CHOOSE x \in s : TRUE}]]
           f == CHOOSE it : Eq(it)
           h == [s \in SUBSET S |-> Sum(s, g)]
<1>0. Weighs(S, g) BY DEF Weighs, Stake, AuctionEntry
<1>1. MapThenSumSet(LAMBDA a : a.bid, S) = f[S]
  BY DEF MapThenSumSet, MapThenFoldSet
<1>2. ASSUME NEW s \in SUBSET S, s # {}
      PROVE  /\ (CHOOSE x \in s : TRUE).bid = g[First(s)]
             /\ h[s] = g[First(s)] + h[s \ {First(s)}]
  <2>1. First(s) \in s /\ Sum(s, g) = g[First(s)] + Sum(s \ {First(s)}, g)
    BY <1>0, <1>2, SumAdds
  <2>2. s \ {First(s)} \in SUBSET S OBVIOUS
  <2>3. h[s] = g[First(s)] + h[s \ {First(s)}]
    <3> HIDE DEF g
    <3> QED BY <2>1, <2>2
  <2>4. First(s).bid = g[First(s)] BY <2>1 DEF Stake
  <2> QED BY <2>3, <2>4 DEF First
<1>3. Eq(h)
  <2> DEFINE F(s) == IF s = {} THEN 0
                     ELSE (CHOOSE x \in s : TRUE).bid + h[s \ {CHOOSE x \in s : TRUE}]
  <2>1. ASSUME NEW s \in SUBSET S PROVE h[s] = F(s)
    <3>1. CASE s = {}
      <4>1. h[s] = Sum({}, g) BY <3>1
      <4> QED BY <3>1, <4>1, SumNone
    <3>2. CASE s # {}
      <4> HIDE DEF h, g
      <4> QED BY <1>2, <3>2 DEF First
    <3> QED BY <3>1, <3>2
  <2>2. h = [s \in SUBSET S |-> h[s]] OBVIOUS
  <2> HIDE DEF F, h
  <2>3. h = [s \in SUBSET S |-> F(s)] BY <2>1, <2>2
  <2> QED BY <2>3 DEF F
<1>4. Eq(f)
  <2> HIDE DEF Eq, h
  <2> QED BY <1>3, Zenon
<1> HIDE DEF f, h
<1>5. Adds(f, S, g)
  <2>1. f[{}] = 0 BY <1>4
  <2>2. ASSUME NEW s \in SUBSET S, s # {} PROVE f[s] = g[First(s)] + f[s \ {First(s)}]
    <3>1. f[s] = (CHOOSE x \in s : TRUE).bid + f[s \ {CHOOSE x \in s : TRUE}]
      BY <1>4, <2>2
    <3> HIDE DEF g
    <3> QED BY <1>2, <2>2, <3>1 DEF First
  <2> QED BY <2>1, <2>2 DEF Adds
<1> QED BY <1>0, <1>1, <1>5, FoldIsSum

\* The deposits of a set of auctions.
LEMMA DepositSum ==
    ASSUME NEW S \in SUBSET AuctionEntry, IsFiniteSet(S)
    PROVE  MapThenSumSet(LAMBDA a : a.deposit, S) = Sum(S, Fee)
<1> DEFINE g == Fee
           Eq(it) == it = [s \in SUBSET S |->
                             IF s = {} THEN 0
                             ELSE (CHOOSE x \in s : TRUE).deposit + it[s \ {CHOOSE x \in s : TRUE}]]
           f == CHOOSE it : Eq(it)
           h == [s \in SUBSET S |-> Sum(s, g)]
<1>0. Weighs(S, g) BY DEF Weighs, Fee, AuctionEntry
<1>1. MapThenSumSet(LAMBDA a : a.deposit, S) = f[S]
  BY DEF MapThenSumSet, MapThenFoldSet
<1>2. ASSUME NEW s \in SUBSET S, s # {}
      PROVE  /\ (CHOOSE x \in s : TRUE).deposit = g[First(s)]
             /\ h[s] = g[First(s)] + h[s \ {First(s)}]
  <2>1. First(s) \in s /\ Sum(s, g) = g[First(s)] + Sum(s \ {First(s)}, g)
    BY <1>0, <1>2, SumAdds
  <2>2. s \ {First(s)} \in SUBSET S OBVIOUS
  <2>3. h[s] = g[First(s)] + h[s \ {First(s)}]
    <3> HIDE DEF g
    <3> QED BY <2>1, <2>2
  <2>4. First(s).deposit = g[First(s)] BY <2>1 DEF Fee
  <2> QED BY <2>3, <2>4 DEF First
<1>3. Eq(h)
  <2> DEFINE F(s) == IF s = {} THEN 0
                     ELSE (CHOOSE x \in s : TRUE).deposit + h[s \ {CHOOSE x \in s : TRUE}]
  <2>1. ASSUME NEW s \in SUBSET S PROVE h[s] = F(s)
    <3>1. CASE s = {}
      <4>1. h[s] = Sum({}, g) BY <3>1
      <4> QED BY <3>1, <4>1, SumNone
    <3>2. CASE s # {}
      <4> HIDE DEF h, g
      <4> QED BY <1>2, <3>2 DEF First
    <3> QED BY <3>1, <3>2
  <2>2. h = [s \in SUBSET S |-> h[s]] OBVIOUS
  <2> HIDE DEF F, h
  <2>3. h = [s \in SUBSET S |-> F(s)] BY <2>1, <2>2
  <2> QED BY <2>3 DEF F
<1>4. Eq(f)
  <2> HIDE DEF Eq, h
  <2> QED BY <1>3, Zenon
<1> HIDE DEF f, h
<1>5. Adds(f, S, g)
  <2>1. f[{}] = 0 BY <1>4
  <2>2. ASSUME NEW s \in SUBSET S, s # {} PROVE f[s] = g[First(s)] + f[s \ {First(s)}]
    <3>1. f[s] = (CHOOSE x \in s : TRUE).deposit + f[s \ {CHOOSE x \in s : TRUE}]
      BY <1>4, <2>2
    <3> HIDE DEF g
    <3> QED BY <1>2, <2>2, <3>1 DEF First
  <2> QED BY <2>1, <2>2 DEF Adds
<1> QED BY <1>0, <1>1, <1>5, FoldIsSum

\* What each character has, in his purse, in his letters and in his bids.
Claims == [p \in Player |-> Claim(p)]

\* The claims of all characters.
LEMMA ClaimSum ==
    ASSUME Weighs(Player, Claims)
    PROVE  MapThenSumSet(Claim, Player) = Sum(Player, Claims)
<1> DEFINE g == Claims
           Eq(it) == it = [s \in SUBSET Player |->
                             IF s = {} THEN 0
                             ELSE Claim(CHOOSE x \in s : TRUE) + it[s \ {CHOOSE x \in s : TRUE}]]
           f == CHOOSE it : Eq(it)
           h == [s \in SUBSET Player |-> Sum(s, g)]
<1>1. MapThenSumSet(Claim, Player) = f[Player]
  BY DEF MapThenSumSet, MapThenFoldSet
<1>2. ASSUME NEW s \in SUBSET Player, s # {}
      PROVE  /\ Claim(CHOOSE x \in s : TRUE) = g[First(s)]
             /\ h[s] = g[First(s)] + h[s \ {First(s)}]
  <2>1. First(s) \in s /\ Sum(s, g) = g[First(s)] + Sum(s \ {First(s)}, g)
    BY <1>2, SumAdds
  <2>2. s \ {First(s)} \in SUBSET Player OBVIOUS
  <2>3. h[s] = g[First(s)] + h[s \ {First(s)}]
    <3> HIDE DEF g
    <3> QED BY <2>1, <2>2
  <2>4. Claim(First(s)) = g[First(s)] BY <2>1 DEF Claims
  <2> QED BY <2>3, <2>4 DEF First
<1>3. Eq(h)
  <2> DEFINE F(s) == IF s = {} THEN 0
                     ELSE Claim(CHOOSE x \in s : TRUE) + h[s \ {CHOOSE x \in s : TRUE}]
  <2>1. ASSUME NEW s \in SUBSET Player PROVE h[s] = F(s)
    <3>1. CASE s = {}
      <4>1. h[s] = Sum({}, g) BY <3>1
      <4> QED BY <3>1, <4>1, SumNone
    <3>2. CASE s # {}
      <4> HIDE DEF h, g
      <4> QED BY <1>2, <3>2 DEF First
    <3> QED BY <3>1, <3>2
  <2>2. h = [s \in SUBSET Player |-> h[s]] OBVIOUS
  <2> HIDE DEF F, h
  <2>3. h = [s \in SUBSET Player |-> F(s)] BY <2>1, <2>2
  <2> QED BY <2>3 DEF F
<1>4. Eq(f)
  <2> HIDE DEF Eq, h
  <2> QED BY <1>3, Zenon
<1> HIDE DEF f, h
<1>5. Adds(f, Player, g)
  <2>1. f[{}] = 0 BY <1>4
  <2>2. ASSUME NEW s \in SUBSET Player, s # {} PROVE f[s] = g[First(s)] + f[s \ {First(s)}]
    <3>1. f[s] = Claim(CHOOSE x \in s : TRUE) + f[s \ {CHOOSE x \in s : TRUE}]
      BY <1>4, <2>2
    <3> HIDE DEF g
    <3> QED BY <1>2, <2>2, <3>1 DEF First
  <2> QED BY <2>1, <2>2 DEF Adds
<1> QED BY <1>1, <1>5, FoldIsSum

\* Two weights of each element.
LEMMA SumTogether ==
    ASSUME NEW S, NEW g, NEW h, NEW k, Weighs(S, g), Weighs(S, h),
           \A x \in S : k[x] = g[x] + h[x]
    PROVE  Weighs(S, k) /\ Sum(S, k) = Sum(S, g) + Sum(S, h)
<1> DEFINE P == {w \in SUBSET S : Sum(w, k) = Sum(w, g) + Sum(w, h)}
<1>1. Weighs(S, k) BY DEF Weighs
<1>2. {} \in P BY SumNone
<1>3. ASSUME NEW w \in SUBSET S, NEW x \in S \ w, w \in P PROVE w \cup {x} \in P
  <2>1. Weighs(w, g) /\ Weighs(w, h) /\ Weighs(w, k) BY <1>1, SumPart
  <2>2. g[x] \in Nat /\ h[x] \in Nat /\ k[x] \in Nat BY <1>1 DEF Weighs
  <2>3. Sum(w \cup {x}, g) = Sum(w, g) + g[x] BY <2>1, <2>2, SumAdd
  <2>4. Sum(w \cup {x}, h) = Sum(w, h) + h[x] BY <2>1, <2>2, SumAdd
  <2>5. Sum(w \cup {x}, k) = Sum(w, k) + k[x] BY <2>1, <2>2, SumAdd
  <2>6. Sum(w, g) \in Nat /\ Sum(w, h) \in Nat BY <2>1, CoinsFinite
  <2>7. Sum(w, k) = Sum(w, g) + Sum(w, h) BY <1>3
  <2>8. Sum(w \cup {x}, k) = Sum(w \cup {x}, g) + Sum(w \cup {x}, h)
    BY <2>2, <2>3, <2>4, <2>5, <2>6, <2>7
  <2> QED BY <2>8
<1>4. S \in P
  <2> HIDE DEF P
  <2> QED BY <1>2, <1>3, SubsetInduction DEF Weighs
<1> QED BY <1>1, <1>4

\* A sum in parts: each element of X belongs to the part of its key.
Part(X, k, y) == {x \in X : k[x] = y}
Keyed(X, k, Y) == {x \in X : k[x] \in Y}
PartSums(s, X, k, Y, v) == \A y \in Y : s[y] = Sum(Part(X, k, y), v)

\* The sum of the parts is the sum of all that have a key in Y.
LEMMA SumParts ==
    ASSUME NEW X, NEW v, Weighs(X, v), NEW k, NEW Y, IsFiniteSet(Y), NEW s,
           PartSums(s, X, k, Y, v)
    PROVE  Weighs(Y, s) /\ Sum(Y, s) = Sum(Keyed(X, k, Y), v)
<1> USE DEF PartSums, Keyed
<1> DEFINE In(w) == {x \in X : k[x] \in w}
           P == {w \in SUBSET Y : Sum(w, s) = Sum(In(w), v)}
<1>1. \A y \in Y : Weighs(Part(X, k, y), v) BY SumPart DEF Part
<1>2. Weighs(Y, s) BY <1>1, CoinsFinite DEF Weighs
<1>3. {} \in P
  <2>1. In({}) = {} OBVIOUS
  <2> QED BY <2>1, SumNone
<1>4. ASSUME NEW w \in SUBSET Y, NEW y \in Y \ w, w \in P PROVE w \cup {y} \in P
  <2>1. In(w \cup {y}) = In(w) \cup Part(X, k, y) /\ In(w) \cap Part(X, k, y) = {}
    BY DEF Part
  <2>2. Weighs(In(w), v) BY SumPart
  <2>3. Weighs(w, s) /\ s[y] \in Nat BY <1>2, SumPart DEF Weighs
  <2>4. Sum(w \cup {y}, s) = Sum(w, s) + s[y] BY <2>3, SumAdd
  <2>5. Sum(w, s) = Sum(In(w), v) BY <1>4
  <2> HIDE DEF In
  <2>6. Sum(In(w) \cup Part(X, k, y), v) = Sum(In(w), v) + Sum(Part(X, k, y), v)
    BY <1>1, <2>1, <2>2, SumSplit
  <2>7. Sum(w \cup {y}, s) = Sum(In(w \cup {y}), v) BY <2>1, <2>4, <2>5, <2>6
  <2> QED BY <2>7
<1>5. Y \in P
  <2> HIDE DEF P
  <2> QED BY <1>3, <1>4, SubsetInduction
<1> QED BY <1>2, <1>5

\* Weights of nothing.
LEMMA SumZero ==
    ASSUME NEW S, NEW g, \A x \in S : g[x] = 0
    PROVE  Sum(S, g) = 0
<1>1. Coins(S, g) = {} BY DEF Coins
<1> QED BY <1>1, FS_EmptySet DEF Sum

-----------------------------------------------------------------------------
(* Gold.                                                                   *)

\* A price and a deposit together are an amount that a character can own.
SmallPrices == \A x \in Prices, d \in Deposits : x + d <= MaxMoney

\* No amount of gold, in a purse, a letter or an auction, exceeds MaxMoney: ModifyMoney
\* takes none of them for a negative number.  A letter holds gold or an item.  A letter
\* that gives a bid back is not yet sent when it is due: an open auction was not
\* cancelled, and the bids it has refunded are smaller than the highest.
GoldInv ==
    /\ IsFiniteSet(auctions) /\ IsFiniteSet(mails)
    /\ \A p \in Player : money[p] <= MaxMoney
    /\ \A m \in mails : m.money <= MaxMoney /\ (m.item # NoItem => m.money = 0)
    /\ \A a \in auctions : /\ a.deposit \in Deposits
                           /\ a.bid + a.deposit <= MaxMoney /\ a.buyout + a.deposit <= MaxMoney
    /\ \A m \in mails, a \in auctions :
          m.Id = a.Id => m.subject # "cancelled" /\ (m.subject = "outbid" => m.money < a.bid)

To == [m \in MailType |-> m.to]
By == [a \in AuctionEntry |-> a.bidder]

\* What Claim adds up, for any letters and auctions.
LEMMA ClaimParts ==
    ASSUME NEW M \in SUBSET MailType, IsFiniteSet(M), NEW A \in SUBSET AuctionEntry,
           IsFiniteSet(A), NEW p
    PROVE  /\ MapThenSumSet(LAMBDA m : m.money, {m \in M : m.to = p}) = Sum(Part(M, To, p), Gold)
           /\ MapThenSumSet(LAMBDA a : a.bid, {a \in A : a.bidder = p}) = Sum(Part(A, By, p), Stake)
           /\ Weighs(Part(M, To, p), Gold) /\ Weighs(Part(A, By, p), Stake)
           /\ Weighs(M, Gold) /\ Weighs(A, Stake) /\ Weighs(A, Fee)
<1>1. Weighs(M, Gold) BY DEF Weighs, Gold, MailType
<1>2. Weighs(A, Stake) BY DEF Weighs, Stake, AuctionEntry
<1>3. Weighs(A, Fee) BY DEF Weighs, Fee, AuctionEntry
<1>4. Part(M, To, p) = {m \in M : m.to = p} BY DEF Part, To
<1>5. Part(A, By, p) = {a \in A : a.bidder = p} BY DEF Part, By
<1>6. Part(M, To, p) \in SUBSET M /\ Part(A, By, p) \in SUBSET A BY DEF Part
<1>7. Weighs(Part(M, To, p), Gold) /\ Weighs(Part(A, By, p), Stake) BY <1>1, <1>2, <1>6, SumPart
<1>8. IsFiniteSet(Part(M, To, p)) /\ IsFiniteSet(Part(A, By, p)) BY <1>7 DEF Weighs
<1>9. MapThenSumSet(LAMBDA m : m.money, Part(M, To, p)) = Sum(Part(M, To, p), Gold)
  BY <1>6, <1>8, MailSum
<1>10. MapThenSumSet(LAMBDA a : a.bid, Part(A, By, p)) = Sum(Part(A, By, p), Stake)
  BY <1>6, <1>8, BidSum
<1> QED BY <1>1, <1>2, <1>3, <1>4, <1>5, <1>7, <1>9, <1>10

\* A claim is a purse, letters and bids.
LEMMA ClaimIs ==
    ASSUME TypeOK, GoldInv, NEW p \in Player
    PROVE  /\ Claim(p) = money[p] + Sum(Part(mails, To, p), Gold) + Sum(Part(auctions, By, p), Stake)
           /\ money[p] \in Nat /\ Sum(Part(mails, To, p), Gold) \in Nat
           /\ Sum(Part(auctions, By, p), Stake) \in Nat
<1>1. mails \in SUBSET MailType /\ auctions \in SUBSET AuctionEntry BY DEF TypeOK, MailType
<1>2. IsFiniteSet(mails) /\ IsFiniteSet(auctions) BY DEF GoldInv
<1>3. /\ MapThenSumSet(LAMBDA m : m.money, {m \in mails : m.to = p}) = Sum(Part(mails, To, p), Gold)
      /\ MapThenSumSet(LAMBDA a : a.bid, {a \in auctions : a.bidder = p})
           = Sum(Part(auctions, By, p), Stake)
      /\ Weighs(Part(mails, To, p), Gold) /\ Weighs(Part(auctions, By, p), Stake)
  BY <1>1, <1>2, ClaimParts
<1>4. /\ Sum(Part(mails, To, p), Gold) \in Nat /\ Sum(Part(auctions, By, p), Stake) \in Nat
  BY <1>3, CoinsFinite
<1>5. money[p] \in Nat BY NumbersAssumption DEF TypeOK
<1> QED BY <1>3, <1>4, <1>5 DEF Claim

\* All the gold there is: in purses, in letters, in bids and in deposits.
Hoard == Sum(Player, money) + Sum(mails, Gold) + Sum(auctions, Stake) + Sum(auctions, Fee)

\* The claims and the deposits are all the gold: no bid is without a bidder.
LEMMA GoldIsHoard ==
    TypeOK /\ BidsInRange /\ GoldInv => AllGold = Hoard
<1> SUFFICES ASSUME TypeOK, BidsInRange, GoldInv PROVE AllGold = Hoard
  OBVIOUS
<1> DEFINE letters == [p \in Player |-> Sum(Part(mails, To, p), Gold)]
           bids == [p \in Player |-> Sum(Part(auctions, By, p), Stake)]
           both == [p \in Player |-> money[p] + letters[p]]
<1>1. mails \in SUBSET MailType /\ auctions \in SUBSET AuctionEntry BY DEF TypeOK, MailType
<1>2. IsFiniteSet(mails) /\ IsFiniteSet(auctions) /\ IsFiniteSet(Player)
  BY GuidAssumption DEF GoldInv
<1>3. Weighs(mails, Gold) /\ Weighs(auctions, Stake) /\ Weighs(auctions, Fee)
  BY <1>1, <1>2, ClaimParts
<1>4. Weighs(Player, letters) /\ Sum(Player, letters) = Sum(mails, Gold)
  <2>1. PartSums(letters, mails, To, Player, Gold) BY DEF PartSums
  <2> HIDE DEF letters
  <2>2. Weighs(Player, letters) /\ Sum(Player, letters) = Sum(Keyed(mails, To, Player), Gold)
    BY <1>2, <1>3, <2>1, SumParts
  <2>3. Keyed(mails, To, Player) = mails BY <1>1 DEF Keyed, To, MailType
  <2> QED BY <2>2, <2>3
<1>5. Weighs(Player, bids) /\ Sum(Player, bids) = Sum(auctions, Stake)
  <2> DEFINE with == Keyed(auctions, By, Player)
             without == auctions \ with
  <2>1. PartSums(bids, auctions, By, Player, Stake) BY DEF PartSums
  <2> HIDE DEF bids
  <2>2. Weighs(Player, bids) /\ Sum(Player, bids) = Sum(with, Stake)
    BY <1>2, <1>3, <2>1, SumParts
  <2>3. \A a \in without : Stake[a] = 0
    BY <1>1 DEF Keyed, By, Stake, AuctionEntry, BidsInRange
  <2>4. with \cup without = auctions /\ with \cap without = {} BY DEF Keyed
  <2>5. Weighs(with, Stake) /\ Weighs(without, Stake)
    <3>1. with \in SUBSET auctions /\ without \in SUBSET auctions BY DEF Keyed
    <3> HIDE DEF with, without
    <3> QED BY <1>3, <3>1, SumPart
  <2> HIDE DEF with, without
  <2>6. Sum(with \cup without, Stake) = Sum(with, Stake) + Sum(without, Stake)
    BY <2>4, <2>5, SumSplit
  <2>7. Sum(without, Stake) = 0 BY <2>3, SumZero
  <2>8. Sum(with, Stake) \in Nat BY <2>5, CoinsFinite
  <2>9. Sum(auctions, Stake) = Sum(with, Stake) + Sum(without, Stake) BY <2>4, <2>6, Zenon
  <2> QED BY <2>2, <2>7, <2>8, <2>9
<1>6. Weighs(Player, money) BY <1>2, NumbersAssumption DEF Weighs, TypeOK
<1>7. Weighs(Player, both) /\ Sum(Player, both) = Sum(Player, money) + Sum(Player, letters)
  <2>1. \A p \in Player : both[p] = money[p] + letters[p] OBVIOUS
  <2> HIDE DEF both, letters
  <2> QED BY <1>4, <1>6, <2>1, SumTogether
<1>8. Weighs(Player, Claims) /\ Sum(Player, Claims) = Sum(Player, both) + Sum(Player, bids)
  <2>1. \A p \in Player : Claims[p] = both[p] + bids[p] BY ClaimIs DEF Claims
  <2> HIDE DEF both, bids
  <2> QED BY <1>5, <1>7, <2>1, SumTogether
<1>9. MapThenSumSet(Claim, Player) = Sum(Player, Claims) BY <1>8, ClaimSum
<1>10. MapThenSumSet(LAMBDA a : a.deposit, auctions) = Sum(auctions, Fee)
  BY <1>1, <1>2, DepositSum
<1> HIDE DEF letters, bids, both
<1>11. Sum(Player, Claims) = Sum(Player, money) + Sum(mails, Gold) + Sum(auctions, Stake)
  BY <1>4, <1>5, <1>7, <1>8
<1> QED BY <1>9, <1>10, <1>11 DEF AllGold, Hoard

\* Amounts up to MaxMoney are positive, and their negatives are negative.
LEMMA HalfRange ==
    /\ UInt \in Nat /\ MaxMoney \in Nat /\ UInt \div 2 \in Nat
    /\ MaxMoney < UInt \div 2 /\ 2 * (UInt \div 2) <= UInt
<1>1. UInt \in Nat /\ MaxMoney \in Nat /\ MaxMoney < UInt \div 2 BY NumbersAssumption
<1> QED BY <1>1

\* Whoever pays what he has loses just that.
LEMMA PayExact ==
    ASSUME NEW gold \in Nat, gold <= MaxMoney, NEW d \in Nat, d <= gold
    PROVE  ModifyMoney(gold, Minus(d)) = gold - d
<1> DEFINE half == UInt \div 2
<1>1. /\ UInt \in Nat /\ MaxMoney \in Nat /\ half \in Nat /\ MaxMoney < half /\ 2 * half <= UInt
  BY HalfRange
<1>2. CASE d = 0
  <2>1. Minus(d) = 0 BY <1>1, <1>2 DEF Minus
  <2>2. 0 % UInt = 0 /\ 0 < half BY <1>1
  <2>3. (MaxMoney - 0) % UInt = MaxMoney /\ (gold + 0) % UInt = gold BY <1>1
  <2>4. Receive(gold, 0) = gold BY <1>1, <2>3 DEF Receive
  <2> HIDE DEF half
  <2> QED BY <1>2, <2>1, <2>2, <2>4 DEF ModifyMoney, half
<1>3. CASE d > 0
  <2>1. UInt - d \in 0 .. UInt - 1 /\ UInt - d >= half BY <1>1, <1>3
  <2>2. (UInt - d) % UInt = UInt - d BY <1>1, <2>1
  <2>3. Minus(d) = UInt - d /\ Minus(d) % UInt = UInt - d BY <2>2 DEF Minus
  <2>4. ModifyMoney(gold, Minus(d)) = Pay(gold, UInt - (UInt - d))
    BY <1>1, <2>1, <2>3 DEF ModifyMoney
  <2>5. UInt - (UInt - d) = d BY <1>1
  <2>6. Pay(gold, d) = gold - d BY DEF Pay
  <2> QED BY <2>4, <2>5, <2>6
<1> QED BY <1>2, <1>3

\* Whoever receives gold gets all of it or is as rich as can be.
LEMMA ReceiveExact ==
    ASSUME NEW gold \in Nat, gold <= MaxMoney, NEW d \in Nat, d <= MaxMoney
    PROVE  LET r == ModifyMoney(gold, d)
           IN  r \in Nat /\ r <= MaxMoney /\ r <= gold + d /\ (r = gold + d \/ r = MaxMoney)
<1> DEFINE half == UInt \div 2
<1>1. /\ UInt \in Nat /\ MaxMoney \in Nat /\ half \in Nat /\ MaxMoney < half /\ 2 * half <= UInt
  BY HalfRange
<1>2. d % UInt = d /\ d < half BY <1>1
<1>3. (MaxMoney - d) % UInt = MaxMoney - d BY <1>1
<1>4. (gold + d) % UInt = gold + d
  <2>1. gold + d \in 0 .. UInt - 1 BY <1>1
  <2> QED BY <1>1, <2>1
<1>5. ModifyMoney(gold, d) = IF gold < MaxMoney - d THEN gold + d ELSE MaxMoney
  <2>1. ModifyMoney(gold, d) = Receive(gold, d) BY <1>2 DEF ModifyMoney
  <2> QED BY <1>3, <1>4, <2>1 DEF Receive
<1> QED BY <1>1, <1>5

\* The house never takes more than the bid.
LEMMA CutAtMostBid ==
    ASSUME NEW a \in AuctionEntry
    PROVE  GetAuctionCut(a) \in Nat /\ GetAuctionCut(a) <= a.bid
<1> DEFINE c == CutPercent[a.house]
           b == a.bid
           y == (c * b) % UInt
<1>1. c \in Nat /\ b \in Nat /\ Hundred \in Nat /\ Hundred > 0 /\ c <= Hundred
  BY HouseAssumption, NumbersAssumption DEF AuctionEntry
<1>2. GetAuctionCut(a) = y \div Hundred BY DEF GetAuctionCut
<1>3. UInt \in Nat /\ UInt > 0 BY NumbersAssumption
<1> HIDE DEF c, b
<1>4. c * b \in Nat /\ c * b <= Hundred * b BY <1>1
<1>5. y \in Nat /\ y <= c * b BY <1>3, <1>4
<1> HIDE DEF y
<1>6. y <= Hundred * b BY <1>1, <1>4, <1>5
<1>7. y \div Hundred \in Nat /\ y \div Hundred <= b BY <1>1, <1>5, <1>6
<1> QED BY <1>2, <1>7 DEF b

\* What the seller gets.
LEMMA ProfitExact ==
    ASSUME NEW a \in AuctionEntry, a.bid + a.deposit <= MaxMoney
    PROVE  LET n == (a.bid + a.deposit - GetAuctionCut(a)) % UInt
           IN  n \in Nat /\ n <= a.bid + a.deposit
<1> DEFINE x == a.bid + a.deposit - GetAuctionCut(a)
<1>1. a.bid \in Nat /\ a.deposit \in Nat BY DEF AuctionEntry
<1>2. x \in Nat /\ x <= a.bid + a.deposit BY <1>1, CutAtMostBid
<1>3. UInt \in Nat /\ UInt > 0 /\ MaxMoney \in Nat BY NumbersAssumption
<1> HIDE DEF x
<1>4. x % UInt \in Nat /\ x % UInt <= x BY <1>2, <1>3
<1>5. x % UInt <= a.bid + a.deposit BY <1>1, <1>2, <1>4
<1> QED BY <1>4, <1>5 DEF x

\* New letters with no more than n gold in them.
Sound(m) == m.money <= MaxMoney /\ (m.item # NoItem => m.money = 0)
Charges(new, n) ==
    /\ new \in SUBSET MailType /\ IsFiniteSet(new)
    /\ Sum(new, Gold) <= n
    /\ \A m \in new : Sound(m)

\* No letter.
LEMMA ChargeNone ==
    ASSUME NEW n \in Nat
    PROVE  Charges({}, n)
  BY FS_EmptySet, SumNone DEF Charges

\* One letter.
LEMMA ChargeOne ==
    ASSUME NEW m \in MailType, Sound(m), NEW n \in Nat, m.money <= n
    PROVE  Charges({m}, n)
<1>1. Gold[m] = m.money /\ m.money \in Nat BY DEF Gold, MailType
<1>2. Sum({m}, Gold) = m.money BY <1>1, CoinsOne
<1> QED BY <1>2, FS_Singleton DEF Charges

\* The letters of two sets.
LEMMA ChargeBoth ==
    ASSUME NEW S, NEW T, NEW i \in Nat, NEW j \in Nat, Charges(S, i), Charges(T, j)
    PROVE  Charges(S \cup T, i + j)
<1>1. Weighs(S, Gold) /\ Weighs(T, Gold) BY DEF Charges, Weighs, Gold, MailType
<1>2. Weighs(S \cup T, Gold) /\ Sum(S \cup T, Gold) <= Sum(S, Gold) + Sum(T, Gold)
  BY <1>1, SumUnion
<1>3. Sum(S, Gold) \in Nat /\ Sum(T, Gold) \in Nat /\ Sum(S \cup T, Gold) \in Nat
  BY <1>1, <1>2, CoinsFinite
<1>4. Sum(S, Gold) <= i /\ Sum(T, Gold) <= j BY DEF Charges
<1>5. Sum(S \cup T, Gold) <= i + j BY <1>2, <1>3, <1>4
<1>6. S \cup T \in SUBSET MailType /\ \A m \in S \cup T : Sound(m) BY DEF Charges
<1>7. IsFiniteSet(S \cup T) BY <1>2 DEF Weighs
<1> QED BY <1>5, <1>6, <1>7 DEF Charges

\* What an auction's letters cost.
LEMMA HouseCharges ==
    ASSUME NEW a \in AuctionEntry, a.bid + a.deposit <= MaxMoney, NEW p \in Player
    PROVE  /\ Charges(Refund(p, a), IF a.bidder \in {p, NoOne} THEN 0 ELSE a.bid)
           /\ a.bidder # NoOne => Charges(CancelledMail(a), a.bid)
           /\ Charges(SuccessfulMail(a), a.bid + a.deposit)
           /\ a.bidder # NoOne => Charges(WonMail(a), 0)
           /\ Charges(ExpiredMail(a), 0)
           /\ Charges({Letter(a, "returned", p, 0, a.item)}, 0)
<1>1. /\ a.bid \in Nat /\ a.deposit \in Nat /\ a.owner \in Player /\ a.item \in Item
      /\ a.Id \in Nat /\ (a.bidder # NoOne => a.bidder \in Player) /\ MaxMoney \in Nat
  BY NumbersAssumption DEF AuctionEntry
<1>2. a.bid <= MaxMoney BY <1>1
<1>3. ASSUME NEW subject \in Subjects, NEW to \in Player, NEW gold \in Nat, gold <= MaxMoney,
             NEW n \in Nat, gold <= n
      PROVE  Charges({Letter(a, subject, to, gold, NoItem)}, n)
  <2> DEFINE m == Letter(a, subject, to, gold, NoItem)
  <2>1. m \in MailType /\ m.money = gold /\ m.item = NoItem BY <1>1 DEF Letter, MailType
  <2> HIDE DEF m
  <2>2. Sound(m) BY <1>3, <2>1 DEF Sound
  <2>3. Charges({m}, n) BY <1>3, <2>1, <2>2, ChargeOne
  <2> QED BY <2>3 DEF m
<1>4. ASSUME NEW subject \in Subjects, NEW to \in Player
      PROVE  Charges({Letter(a, subject, to, 0, a.item)}, 0)
  <2> DEFINE m == Letter(a, subject, to, 0, a.item)
  <2>1. m \in MailType /\ m.money = 0 BY <1>1 DEF Letter, MailType
  <2> HIDE DEF m
  <2>2. Sound(m) BY <1>1, <2>1 DEF Sound
  <2>3. Charges({m}, 0) BY <2>1, <2>2, ChargeOne
  <2> QED BY <2>3 DEF m
<1>5. Charges({}, 0) /\ Charges({}, a.bid) /\ Charges({}, a.bid + a.deposit)
  BY <1>1, ChargeNone
<1>6. {"outbid", "cancelled", "sold", "won", "expired", "returned"} \subseteq Subjects
  BY DEF Subjects
<1>7. Charges(Refund(p, a), IF a.bidder \in {p, NoOne} THEN 0 ELSE a.bid)
  <2>1. CASE a.bidder \in {p, NoOne} BY <1>5, <2>1 DEF Refund
  <2>2. CASE a.bidder \notin {p, NoOne}
    <3>1. Charges({Letter(a, "outbid", a.bidder, a.bid, NoItem)}, a.bid)
      BY <1>1, <1>2, <1>3, <1>6, <2>2
    <3> QED BY <1>5, <2>2, <3>1 DEF Refund, OutbidMail
  <2> QED BY <2>1, <2>2
<1>8. a.bidder # NoOne => Charges(CancelledMail(a), a.bid)
  <2> SUFFICES ASSUME a.bidder # NoOne PROVE Charges(CancelledMail(a), a.bid) OBVIOUS
  <2>1. Charges({Letter(a, "cancelled", a.bidder, a.bid, NoItem)}, a.bid)
    BY <1>1, <1>2, <1>3, <1>6
  <2> QED BY <1>5, <2>1 DEF CancelledMail
<1>9. Charges(SuccessfulMail(a), a.bid + a.deposit)
  <2> DEFINE n == (a.bid + a.deposit - GetAuctionCut(a)) % UInt
  <2>1. n \in Nat /\ n <= a.bid + a.deposit BY ProfitExact
  <2>2. SuccessfulMail(a) = IF IsHardcore(a.owner) THEN {} ELSE {Letter(a, "sold", a.owner, n, NoItem)}
    BY DEF SuccessfulMail
  <2> HIDE DEF n
  <2>3. n <= MaxMoney BY <1>1, <2>1
  <2>4. Charges({Letter(a, "sold", a.owner, n, NoItem)}, a.bid + a.deposit)
    BY <1>1, <1>3, <1>6, <2>1, <2>3
  <2> QED BY <1>5, <2>2, <2>4
<1>10. a.bidder # NoOne => Charges(WonMail(a), 0) BY <1>1, <1>4, <1>5, <1>6 DEF WonMail
<1>11. Charges(ExpiredMail(a), 0) BY <1>1, <1>4, <1>5, <1>6 DEF ExpiredMail
<1>12. Charges({Letter(a, "returned", p, 0, a.item)}, 0) BY <1>4, <1>6
<1> QED BY <1>7, <1>8, <1>9, <1>10, <1>11, <1>12

\* What the house sends when an auction is over is paid by its bid and its deposit.
LEMMA ClosingCharges ==
    ASSUME NEW a \in AuctionEntry, a.bid + a.deposit <= MaxMoney
    PROVE  Charges(ClosingMails(a), a.bid + a.deposit)
<1>1. a.owner \in Player /\ a.bid + a.deposit \in Nat BY DEF AuctionEntry
<1>2. CASE a.bidder = NoOne
  <2>1. Charges(ExpiredMail(a), 0) BY <1>1, HouseCharges
  <2>2. Charges({}, a.bid + a.deposit) BY <1>1, ChargeNone
  <2>3. Charges({} \cup ExpiredMail(a), (a.bid + a.deposit) + 0)
    BY <1>1, <2>1, <2>2, ChargeBoth
  <2>4. {} \cup ExpiredMail(a) = ClosingMails(a) /\ (a.bid + a.deposit) + 0 = a.bid + a.deposit
    BY <1>1, <1>2 DEF ClosingMails
  <2> QED BY <2>3, <2>4, Zenon
<1>3. CASE a.bidder # NoOne
  <2>1. Charges(SuccessfulMail(a), a.bid + a.deposit) /\ Charges(WonMail(a), 0)
    BY <1>1, <1>3, HouseCharges
  <2>2. Charges(SuccessfulMail(a) \cup WonMail(a), (a.bid + a.deposit) + 0)
    BY <1>1, <2>1, ChargeBoth
  <2>3. SuccessfulMail(a) \cup WonMail(a) = ClosingMails(a)
    BY <1>3 DEF ClosingMails
  <2>4. (a.bid + a.deposit) + 0 = a.bid + a.deposit BY <1>1
  <2> QED BY <2>2, <2>3, <2>4, Zenon
<1> QED BY <1>2, <1>3

\* What the sums are in a state.
LEMMA StateSums ==
    ASSUME TypeOK, GoldInv
    PROVE  /\ Weighs(Player, money) /\ Weighs(mails, Gold)
           /\ Weighs(auctions, Stake) /\ Weighs(auctions, Fee)
           /\ Sum(Player, money) \in Nat /\ Sum(mails, Gold) \in Nat
           /\ Sum(auctions, Stake) \in Nat /\ Sum(auctions, Fee) \in Nat
<1>1. mails \in SUBSET MailType /\ auctions \in SUBSET AuctionEntry BY DEF TypeOK, MailType
<1>2. IsFiniteSet(mails) /\ IsFiniteSet(auctions) /\ IsFiniteSet(Player)
  BY GuidAssumption DEF GoldInv
<1>3. Weighs(mails, Gold) /\ Weighs(auctions, Stake) /\ Weighs(auctions, Fee)
  BY <1>1, <1>2, ClaimParts
<1>4. Weighs(Player, money) BY <1>2, NumbersAssumption DEF Weighs, TypeOK
<1> QED BY <1>3, <1>4, CoinsFinite

\* One purse changes.
LEMMA PurseSum ==
    ASSUME NEW f \in [Player -> Nat], NEW p \in Player, NEW x \in Nat
    PROVE  Sum(Player, [f EXCEPT ![p] = x]) = Sum(Player, f) - f[p] + x
<1> DEFINE g == [f EXCEPT ![p] = x]
           rest == Player \ {p}
<1>1. g \in [Player -> Nat] /\ g[p] = x /\ \A q \in rest : g[q] = f[q] OBVIOUS
<1>2. Weighs(Player, f) /\ Weighs(Player, g) BY <1>1, GuidAssumption DEF Weighs
<1> HIDE DEF g
<1>3. Sum(Player, f) = Sum(rest, f) + f[p] /\ Weighs(rest, f) BY <1>2, SumRemove
<1>4. Sum(Player, g) = Sum(rest, g) + g[p] BY <1>2, SumRemove
<1> HIDE DEF rest
<1>5. Sum(rest, g) = Sum(rest, f) BY <1>1, SumSame
<1>6. Sum(rest, f) \in Nat /\ f[p] \in Nat BY <1>3, CoinsFinite
<1>7. Sum(Player, g) = Sum(Player, f) - f[p] + x BY <1>1, <1>3, <1>4, <1>5, <1>6
<1> QED BY <1>7 DEF g

\* Letters are sent.
LEMMA MailsGrow ==
    ASSUME TypeOK, GoldInv, NEW new, NEW n \in Nat, Charges(new, n), mails' = mails \cup new
    PROVE  /\ IsFiniteSet(mails') /\ \A m \in mails' : Sound(m)
           /\ Sum(mails', Gold) \in Nat /\ Sum(mails', Gold) <= Sum(mails, Gold) + n
<1>1. Weighs(mails, Gold) /\ Sum(mails, Gold) \in Nat BY StateSums
<1>2. Weighs(new, Gold) BY DEF Charges, Weighs, Gold, MailType
<1>3. Weighs(mails', Gold) /\ Sum(mails', Gold) <= Sum(mails, Gold) + Sum(new, Gold)
  BY <1>1, <1>2, SumUnion
<1>4. Sum(new, Gold) \in Nat /\ Sum(mails', Gold) \in Nat BY <1>2, <1>3, CoinsFinite
<1>5. Sum(new, Gold) <= n BY DEF Charges
<1>6. \A m \in mails' : Sound(m) BY DEF GoldInv, Sound, Charges
<1> QED BY <1>1, <1>3, <1>4, <1>5, <1>6 DEF Weighs

\* Letters are taken or deleted.
LEMMA MailsShrink ==
    ASSUME TypeOK, GoldInv, NEW M \in SUBSET mails
    PROVE  IsFiniteSet(M) /\ Sum(M, Gold) \in Nat /\ Sum(M, Gold) <= Sum(mails, Gold)
<1>1. Weighs(mails, Gold) BY StateSums
<1>2. Weighs(M, Gold) /\ Sum(M, Gold) <= Sum(mails, Gold) BY <1>1, SumPart
<1> QED BY <1>2, CoinsFinite DEF Weighs

\* Auctions leave the map.
LEMMA AuctionsShrink ==
    ASSUME TypeOK, GoldInv, NEW A \in SUBSET auctions
    PROVE  /\ IsFiniteSet(A) /\ Weighs(A, Stake) /\ Weighs(A, Fee)
           /\ Sum(A, Stake) \in Nat /\ Sum(A, Stake) <= Sum(auctions, Stake)
           /\ Sum(A, Fee) \in Nat /\ Sum(A, Fee) <= Sum(auctions, Fee)
<1>1. Weighs(auctions, Stake) /\ Weighs(auctions, Fee) BY StateSums
<1>2. Weighs(A, Stake) /\ Sum(A, Stake) <= Sum(auctions, Stake) BY <1>1, SumPart
<1>3. Weighs(A, Fee) /\ Sum(A, Fee) <= Sum(auctions, Fee) BY <1>1, SumPart
<1> QED BY <1>2, <1>3, CoinsFinite DEF Weighs

\* One auction leaves the map.
LEMMA AuctionGone ==
    ASSUME TypeOK, GoldInv, NEW a \in auctions
    PROVE  /\ Sum(auctions, Stake) = Sum(auctions \ {a}, Stake) + a.bid
           /\ Sum(auctions, Fee) = Sum(auctions \ {a}, Fee) + a.deposit
<1>1. Weighs(auctions, Stake) /\ Weighs(auctions, Fee) BY StateSums
<1>2. a \in AuctionEntry BY DEF TypeOK
<1>3. Stake[a] = a.bid /\ Fee[a] = a.deposit BY <1>2 DEF Stake, Fee
<1> QED BY <1>1, <1>3, SumRemove

\* One auction comes into a part of the map.
LEMMA AuctionComes ==
    ASSUME TypeOK, GoldInv, NEW A \in SUBSET auctions, NEW b \in AuctionEntry
    PROVE  /\ IsFiniteSet(A \cup {b})
           /\ Sum(A \cup {b}, Stake) \in Nat /\ Sum(A \cup {b}, Stake) <= Sum(A, Stake) + b.bid
           /\ Sum(A \cup {b}, Fee) \in Nat /\ Sum(A \cup {b}, Fee) <= Sum(A, Fee) + b.deposit
<1>1. Weighs(A, Stake) /\ Weighs(A, Fee) BY AuctionsShrink
<1>2. Stake[b] = b.bid /\ Fee[b] = b.deposit /\ b.bid \in Nat /\ b.deposit \in Nat
  BY DEF Stake, Fee, AuctionEntry
<1>3. /\ Weighs({b}, Stake) /\ Weighs({b}, Fee)
      /\ Sum({b}, Stake) = b.bid /\ Sum({b}, Fee) = b.deposit
  BY <1>2, FS_Singleton, CoinsOne DEF Weighs
<1>4. /\ Weighs(A \cup {b}, Stake) /\ Sum(A \cup {b}, Stake) <= Sum(A, Stake) + b.bid
  BY <1>1, <1>3, SumUnion
<1>5. /\ Weighs(A \cup {b}, Fee) /\ Sum(A \cup {b}, Fee) <= Sum(A, Fee) + b.deposit
  BY <1>1, <1>3, SumUnion
<1> QED BY <1>4, <1>5, CoinsFinite DEF Weighs

\* What the refunds say of an auction that is open.
Due(a, m) == m.Id = a.Id => m.subject # "cancelled" /\ (m.subject = "outbid" => m.money < a.bid)

Priced(a) ==
    /\ a.deposit \in Deposits
    /\ a.bid + a.deposit <= MaxMoney /\ a.buyout + a.deposit <= MaxMoney

\* The parts of GoldInv, to put it together again.
LEMMA GoldInvParts ==
    GoldInv <=> /\ IsFiniteSet(auctions) /\ IsFiniteSet(mails)
                /\ \A p \in Player : money[p] <= MaxMoney
                /\ \A m \in mails : Sound(m)
                /\ \A a \in auctions : Priced(a)
                /\ \A m \in mails, a \in auctions : Due(a, m)
  BY DEF GoldInv, Sound, Due, Priced

\* Listing an item: the deposit leaves the purse.
LEMMA SellGold ==
    ASSUME Inv, LettersInv, GoldInv, SmallPrices, NEW p \in Player, NEW h \in House,
           NEW item \in Item, NEW bid \in Prices, NEW buyout \in Prices \cup {0},
           NEW deposit \in Deposits, NEW etime \in Durations,
           HandleAuctionSellItem(p, h, item, bid, buyout, deposit, etime)
    PROVE  GoldInv' /\ Hoard' <= Hoard
<1> DEFINE a == [Id |-> nextId, house |-> h, item |-> item, owner |-> p, startbid |-> bid,
                 bid |-> 0, buyout |-> buyout, bidder |-> NoOne, deposit |-> deposit,
                 expireTime |-> now + etime]
<1>1. /\ auctions' = auctions \cup {a} /\ mails' = mails /\ money[p] >= deposit
      /\ money' = [money EXCEPT ![p] = ModifyMoney(@, Minus(deposit))]
  BY DEF HandleAuctionSellItem
<1>2. /\ bid \in Nat /\ buyout \in Nat /\ deposit \in Nat /\ etime \in Nat
      /\ TypeOK /\ MaxMoney \in Nat
  BY NumbersAssumption DEF Inv
<1>3. a \in AuctionEntry BY <1>2 DEF TypeOK, AuctionEntry
<1>4. /\ a.Id = nextId /\ a.bid = 0 /\ a.deposit = deposit /\ a.buyout = buyout OBVIOUS
<1>5. buyout + deposit <= MaxMoney /\ deposit <= MaxMoney
  <2>1. bid + deposit <= MaxMoney BY DEF SmallPrices
  <2>2. deposit <= MaxMoney BY <1>2, <2>1
  <2> QED BY <1>2, <2>2 DEF SmallPrices
<1>6. money \in [Player -> Nat] /\ money[p] \in Nat /\ money[p] <= MaxMoney
  BY NumbersAssumption DEF Inv, TypeOK, GoldInv
<1> HIDE DEF a
<1>7. ModifyMoney(money[p], Minus(deposit)) = money[p] - deposit
  BY <1>1, <1>2, <1>6, PayExact
<1>8. money' = [money EXCEPT ![p] = money[p] - deposit] /\ money[p] - deposit \in Nat
  BY <1>1, <1>2, <1>6, <1>7
<1>9. Sum(Player, money') = Sum(Player, money) - money[p] + (money[p] - deposit)
  BY <1>6, <1>8, PurseSum
<1>10. /\ IsFiniteSet(auctions')
       /\ Sum(auctions', Stake) \in Nat /\ Sum(auctions', Stake) <= Sum(auctions, Stake) + 0
       /\ Sum(auctions', Fee) \in Nat /\ Sum(auctions', Fee) <= Sum(auctions, Fee) + deposit
  BY <1>1, <1>2, <1>3, <1>4, AuctionComes
<1>11. GoldInv'
  <2>1. \A q \in Player : money'[q] <= MaxMoney BY <1>2, <1>6, <1>8 DEF GoldInv
  <2>2. \A b \in auctions' : Priced(b)
    BY <1>1, <1>2, <1>4, <1>5, GoldInvParts DEF Priced
  <2>3. \A m \in mails : m.Id \in Nat /\ m.Id < nextId /\ nextId \in Nat
    BY <1>2 DEF TypeOK, LettersInv
  <2>4. \A m \in mails', b \in auctions' : Due(b, m)
    BY <1>1, <1>4, <2>3, GoldInvParts DEF Due
  <2>5. IsFiniteSet(mails') /\ \A m \in mails' : Sound(m) BY <1>1, GoldInvParts
  <2> QED BY <1>10, <2>1, <2>2, <2>4, <2>5 DEF GoldInv, Sound, Due, Priced
<1>12. Hoard' <= Hoard
  <2>1. /\ Sum(Player, money) \in Nat /\ Sum(mails, Gold) \in Nat
        /\ Sum(auctions, Stake) \in Nat /\ Sum(auctions, Fee) \in Nat
    BY <1>2, StateSums
  <2> QED BY <1>1, <1>2, <1>6, <1>9, <1>10, <2>1 DEF Hoard
<1> QED BY <1>11, <1>12

\* Arithmetic of the purse of a bidder.
LEMMA BidderPays ==
    ASSUME Inv, GoldInv, NEW p \in Player, NEW d \in Nat, d <= money[p],
           money' = [money EXCEPT ![p] = ModifyMoney(@, Minus(d))]
    PROVE  /\ money'[p] = money[p] - d
           /\ Sum(Player, money') = Sum(Player, money) - d
           /\ \A q \in Player : q # p => money'[q] = money[q]
           /\ \A q \in Player : money'[q] <= MaxMoney
<1>1. money \in [Player -> Nat] /\ money[p] \in Nat /\ money[p] <= MaxMoney /\ TypeOK
  BY NumbersAssumption DEF Inv, TypeOK, GoldInv
<1>2. ModifyMoney(money[p], Minus(d)) = money[p] - d BY <1>1, PayExact
<1>3. money' = [money EXCEPT ![p] = money[p] - d] /\ money[p] - d \in Nat BY <1>1, <1>2
<1>4. Sum(Player, money') = Sum(Player, money) - money[p] + (money[p] - d)
  <2>1. Sum(Player, [money EXCEPT ![p] = money[p] - d])
          = Sum(Player, money) - money[p] + (money[p] - d)
    BY <1>1, <1>3, PurseSum
  <2> QED BY <1>3, <2>1, Zenon
<1>5. Sum(Player, money) \in Nat BY <1>1, StateSums
<1>6. Sum(Player, money') = Sum(Player, money) - d BY <1>1, <1>4, <1>5
<1>7. money[p] - d <= MaxMoney BY <1>1, NumbersAssumption
<1> QED BY <1>1, <1>3, <1>6, <1>7 DEF GoldInv

\* What p pays for a bid of price, which is higher than the last: he has it.
LEMMA PriceOfBid ==
    ASSUME Inv, NEW p \in Player, NEW a \in auctions, NEW price \in Nat, NEW bid \in Nat,
           CanBid(p, a, price), a.bid < bid, bid <= price
    PROVE  /\ BidPrice(p, a, bid) \in Nat /\ BidPrice(p, a, bid) <= money[p]
           /\ BidPrice(p, a, bid) = IF p = a.bidder THEN bid - a.bid ELSE bid
<1>1. a.bid \in Nat /\ money[p] \in Nat BY NumbersAssumption DEF Inv, TypeOK, AuctionEntry
<1>2. price <= money[p] BY DEF CanBid
<1> QED BY <1>1, <1>2 DEF BidPrice

\* The refund about an open auction becomes due when a higher bid is made.
LEMMA RefundsDue ==
    ASSUME Inv, GoldInv, NEW p \in Player, NEW a \in auctions, NEW b, b.Id = a.Id,
           b.bid \in Nat, a.bid < b.bid
    PROVE  \A m \in mails \cup Refund(p, a) : Due(b, m)
<1>1. a.bid \in Nat BY DEF Inv, TypeOK, AuctionEntry
<1>2. \A m \in mails : Due(a, m) /\ m.money \in Nat BY GoldInvParts DEF Inv, TypeOK
<1>3. \A m \in mails : Due(b, m) BY <1>1, <1>2 DEF Due
<1>4. \A m \in Refund(p, a) : m.subject = "outbid" /\ m.money = a.bid
  BY DEF Refund, OutbidMail, Letter
<1>5. \A m \in Refund(p, a) : Due(b, m) BY <1>1, <1>4 DEF Due
<1> QED BY <1>3, <1>5

\* A bid below the buyout: the gold moves from the purse into the auction, and that of the
\* one before into his letter.
LEMMA PlaceBidGold ==
    ASSUME Inv, LettersInv, GoldInv, SmallPrices, NEW p \in Player, NEW a \in auctions,
           NEW price \in Prices, PlaceBid(p, a, price)
    PROVE  GoldInv' /\ Hoard' <= Hoard
<1> DEFINE b == [a EXCEPT !.bidder = p, !.bid = price]
           d == BidPrice(p, a, price)
           rest == auctions \ {a}
           n == IF a.bidder \in {p, NoOne} THEN 0 ELSE a.bid
<1>1. /\ auctions' = rest \cup {b} /\ mails' = mails \cup Refund(p, a) /\ CanBid(p, a, price)
      /\ money' = [money EXCEPT ![p] = ModifyMoney(@, Minus(d))]
  BY DEF PlaceBid
<1>2. a \in AuctionEntry /\ price \in Nat /\ MaxMoney \in Nat /\ TypeOK
  BY NumbersAssumption DEF Inv, TypeOK
<1>3. /\ b \in AuctionEntry /\ b.Id = a.Id /\ b.bid = price /\ b.deposit = a.deposit
      /\ b.buyout = a.buyout
  BY <1>2 DEF AuctionEntry
<1>4. a.bid \in Nat /\ a.deposit \in Nat /\ a.buyout \in Nat /\ a.bid < price
  BY <1>1, <1>2 DEF AuctionEntry, CanBid
<1>5. d \in Nat /\ d <= money[p] /\ d = IF p = a.bidder THEN price - a.bid ELSE price
  BY <1>1, <1>2, <1>4, PriceOfBid
<1>6. a.bid + a.deposit <= MaxMoney /\ a.buyout + a.deposit <= MaxMoney BY DEF GoldInv
<1>7. n \in Nat /\ Charges(Refund(p, a), n) BY <1>2, <1>4, <1>6, HouseCharges
<1>8. price + a.deposit <= MaxMoney /\ Priced(a) BY GoldInvParts DEF SmallPrices, Priced
<1> HIDE DEF b, d
<1>9. /\ Sum(Player, money') = Sum(Player, money) - d
      /\ \A q \in Player : money'[q] <= MaxMoney
  BY <1>1, <1>5, BidderPays
<1>10. /\ IsFiniteSet(mails') /\ \A m \in mails' : Sound(m)
       /\ Sum(mails', Gold) \in Nat /\ Sum(mails', Gold) <= Sum(mails, Gold) + n
  <2> HIDE DEF n
  <2> QED BY <1>1, <1>2, <1>7, MailsGrow
<1>11. rest \in SUBSET auctions OBVIOUS
<1>12. /\ Sum(auctions, Stake) = Sum(rest, Stake) + a.bid
       /\ Sum(auctions, Fee) = Sum(rest, Fee) + a.deposit
       /\ Sum(rest, Stake) \in Nat /\ Sum(rest, Fee) \in Nat
  BY <1>2, AuctionGone, AuctionsShrink
<1> HIDE DEF rest
<1>13. /\ IsFiniteSet(auctions')
       /\ Sum(auctions', Stake) \in Nat /\ Sum(auctions', Stake) <= Sum(rest, Stake) + price
       /\ Sum(auctions', Fee) \in Nat /\ Sum(auctions', Fee) <= Sum(rest, Fee) + a.deposit
  BY <1>1, <1>2, <1>3, <1>11, AuctionComes
<1>14. GoldInv'
  <2>1. Priced(b) BY <1>3, <1>8 DEF Priced
  <2>2. \A c \in auctions' : Priced(c) BY <1>1, <1>11, <2>1, GoldInvParts
  <2>3. \A m \in mails', c \in auctions' : Due(c, m)
    <3>1. \A m \in mails' : Due(b, m) BY <1>1, <1>2, <1>3, <1>4, RefundsDue
    <3>2. \A m \in mails', c \in rest : Due(c, m)
      <4>1. \A c \in rest : c.Id # a.Id BY DEF rest, Inv, ItemsOnce
      <4>2. \A m \in Refund(p, a) : m.Id = a.Id BY HouseLetters DEF Refunds
      <4>3. \A m \in mails, c \in rest : Due(c, m) BY <1>11, GoldInvParts
      <4> QED BY <1>1, <4>1, <4>2, <4>3 DEF Due
    <3> QED BY <1>1, <3>1, <3>2
  <2> QED BY <1>9, <1>10, <1>13, <2>2, <2>3 DEF GoldInv, Sound, Due, Priced
<1>15. Hoard' <= Hoard
  <2>1. /\ Sum(Player, money) \in Nat /\ Sum(mails, Gold) \in Nat
    BY <1>2, StateSums
  <2>2. n <= a.bid /\ (p = a.bidder => n = 0) BY <1>4
  <2> HIDE DEF n
  <2>3. CASE p = a.bidder
    BY <1>2, <1>4, <1>5, <1>7, <1>9, <1>10, <1>12, <1>13, <2>1, <2>2, <2>3 DEF Hoard
  <2>4. CASE p # a.bidder
    BY <1>2, <1>4, <1>5, <1>7, <1>9, <1>10, <1>12, <1>13, <2>1, <2>2, <2>4 DEF Hoard
  <2> QED BY <2>3, <2>4
<1> QED BY <1>14, <1>15

\* A step that closes auctions and sends letters about them keeps the invariant.
LEMMA ClosingKeeps ==
    ASSUME Inv, GoldInv, NEW closed, NEW new, closed \subseteq auctions,
           auctions' \subseteq auctions \ closed, mails' \subseteq mails \cup new,
           \A m \in new : \E a \in closed : m.Id = a.Id,
           IsFiniteSet(mails'), \A m \in mails' : Sound(m),
           \A p \in Player : money'[p] <= MaxMoney
    PROVE  GoldInv'
<1>1. TypeOK /\ \A a, b \in auctions : a.Id = b.Id => a = b BY DEF Inv, ItemsOnce
<1>2. auctions' \in SUBSET auctions OBVIOUS
<1>3. IsFiniteSet(auctions') BY <1>1, <1>2, AuctionsShrink
<1>4. \A a \in auctions' : Priced(a) BY GoldInvParts
<1>5. \A m \in mails', a \in auctions' : Due(a, m)
  <2> SUFFICES ASSUME NEW m \in mails', NEW a \in auctions' PROVE Due(a, m)
    OBVIOUS
  <2>1. CASE m \in mails BY <2>1, GoldInvParts
  <2>2. CASE m \in new
    <3>1. PICK c \in closed : m.Id = c.Id BY <2>2
    <3>2. a # c /\ a \in auctions /\ c \in auctions OBVIOUS
    <3> QED BY <1>1, <3>1, <3>2 DEF Due
  <2> QED BY <2>1, <2>2
<1> QED BY <1>3, <1>4, <1>5 DEF GoldInv, Sound, Due, Priced

\* A buyout: the price pays the seller and the bidder before.
LEMMA BuyoutGold ==
    ASSUME Inv, LettersInv, GoldInv, NEW p \in Player, NEW a \in auctions,
           NEW price \in Nat, Buyout(p, a, price)
    PROVE  GoldInv' /\ Hoard' <= Hoard
<1> DEFINE b == [a EXCEPT !.bidder = p, !.bid = a.buyout]
           d == BidPrice(p, a, a.buyout)
           n == IF a.bidder \in {p, NoOne} THEN 0 ELSE a.bid
           sale == a.buyout + a.deposit
           new == (Refund(p, a) \cup SuccessfulMail(b)) \cup WonMail(b)
<1>1. /\ auctions' = auctions \ {a} /\ mails' = mails \cup new /\ CanBid(p, a, price)
      /\ money' = [money EXCEPT ![p] = ModifyMoney(@, Minus(d))] /\ IsBuyout(a, price)
  BY DEF Buyout
<1>2. a \in AuctionEntry /\ MaxMoney \in Nat /\ TypeOK BY NumbersAssumption DEF Inv, TypeOK
<1>3. /\ b \in AuctionEntry /\ b.Id = a.Id /\ b.bid = a.buyout /\ b.deposit = a.deposit
      /\ b.bidder = p
  BY <1>2 DEF AuctionEntry
<1>4. a.bid \in Nat /\ a.deposit \in Nat /\ a.buyout \in Nat BY <1>2 DEF AuctionEntry
<1>5. a.bid < a.buyout /\ a.buyout <= price BY <1>1, <1>4 DEF IsBuyout, Inv, BidsInRange
<1>6. d \in Nat /\ d <= money[p] /\ d = IF p = a.bidder THEN a.buyout - a.bid ELSE a.buyout
  BY <1>1, <1>2, <1>4, <1>5, PriceOfBid
<1>7. a.bid + a.deposit <= MaxMoney /\ sale <= MaxMoney /\ sale \in Nat BY <1>4 DEF GoldInv
<1>8. n \in Nat /\ Charges(Refund(p, a), n) BY <1>2, <1>4, <1>7, HouseCharges
<1>9. p # NoOne BY GuidAssumption
<1> HIDE DEF b, d
<1>10. Charges(SuccessfulMail(b), sale) /\ Charges(WonMail(b), 0)
  BY <1>3, <1>7, <1>9, HouseCharges
<1>11. n + sale \in Nat /\ n + sale + 0 = n + sale BY <1>7, <1>8
<1>12. \A m \in new : m.Id = a.Id
  <2>1. \A m \in Refund(p, a) : m.Id = a.Id BY HouseLetters DEF Refunds
  <2>2. \A m \in SuccessfulMail(b) \cup WonMail(b) : m.Id = b.Id BY HouseLetters
  <2> QED BY <1>3, <2>1, <2>2
<1>13. Charges(new, n + sale)
  <2> HIDE DEF n, sale
  <2>1. Charges(Refund(p, a) \cup SuccessfulMail(b), n + sale)
    BY <1>7, <1>8, <1>10, ChargeBoth
  <2>2. Charges(new, n + sale + 0) BY <1>10, <1>11, <2>1, ChargeBoth
  <2> QED BY <1>11, <2>2, Zenon
<1>14. /\ Sum(Player, money') = Sum(Player, money) - d
       /\ \A q \in Player : money'[q] <= MaxMoney
  BY <1>1, <1>6, BidderPays
<1> HIDE DEF new
<1>15. /\ IsFiniteSet(mails') /\ \A m \in mails' : Sound(m)
       /\ Sum(mails', Gold) \in Nat /\ Sum(mails', Gold) <= Sum(mails, Gold) + (n + sale)
  <2> HIDE DEF n, sale
  <2> QED BY <1>1, <1>2, <1>11, <1>13, MailsGrow
<1>16. /\ Sum(auctions, Stake) = Sum(auctions', Stake) + a.bid
       /\ Sum(auctions, Fee) = Sum(auctions', Fee) + a.deposit
       /\ Sum(auctions', Stake) \in Nat /\ Sum(auctions', Fee) \in Nat
  BY <1>1, <1>2, AuctionGone, AuctionsShrink
<1>17. GoldInv'
  <2>1. {a} \subseteq auctions /\ \A m \in new : \E c \in {a} : m.Id = c.Id BY <1>12
  <2> QED BY <1>1, <1>14, <1>15, <2>1, ClosingKeeps
<1>18. Hoard' <= Hoard
  <2>1. /\ Sum(Player, money) \in Nat /\ Sum(mails, Gold) \in Nat
    BY <1>2, StateSums
  <2>2. n <= a.bid /\ (p = a.bidder => n = 0) BY <1>4
  <2> HIDE DEF n
  <2>3. CASE p = a.bidder
    BY <1>4, <1>6, <1>8, <1>14, <1>15, <1>16, <2>1, <2>2, <2>3 DEF Hoard
  <2>4. CASE p # a.bidder
    BY <1>4, <1>6, <1>8, <1>14, <1>15, <1>16, <2>1, <2>2, <2>4 DEF Hoard
  <2> QED BY <2>3, <2>4
<1> QED BY <1>17, <1>18

\* The owner takes his item back: the bid returns to the bidder, the deposit is gone.
LEMMA RemoveItemGold ==
    ASSUME Inv, LettersInv, GoldInv, NEW p \in Player, NEW a \in auctions,
           HandleAuctionRemoveItem(p, a)
    PROVE  GoldInv' /\ Hoard' <= Hoard
<1> DEFINE back == {Letter(a, "returned", p, 0, a.item)}
           refund == IF a.bidder = NoOne THEN {} ELSE CancelledMail(a)
           new == refund \cup back
<1>1. auctions' = auctions \ {a} /\ mails' = mails \cup new
  BY DEF HandleAuctionRemoveItem
<1>2. a \in AuctionEntry /\ MaxMoney \in Nat /\ TypeOK BY NumbersAssumption DEF Inv, TypeOK
<1>3. a.bid \in Nat /\ a.deposit \in Nat /\ a.bid + a.deposit <= MaxMoney
  BY <1>2 DEF AuctionEntry, GoldInv
<1>4. Charges(back, 0) BY <1>2, <1>3, HouseCharges
<1>5. Charges(refund, a.bid)
  <2>1. Charges({}, a.bid) BY <1>3, ChargeNone
  <2> QED BY <1>2, <1>3, <2>1, HouseCharges
<1>6. \A m \in new : m.Id = a.Id
  <2>1. \A m \in CancelledMail(a) : m.Id = a.Id BY HouseLetters DEF Refunds
  <2>2. \A m \in back : m.Id = a.Id BY LetterFields
  <2> QED BY <2>1, <2>2
<1> HIDE DEF back, refund
<1>7. Charges(new, a.bid + 0) /\ a.bid + 0 \in Nat
  <2>1. a.bid \in Nat /\ 0 \in Nat BY <1>3
  <2>2. Charges(refund \cup back, a.bid + 0) BY <1>4, <1>5, <2>1, ChargeBoth
  <2> QED BY <2>1, <2>2
<1>8. /\ Sum(Player, money') \in Nat /\ Sum(Player, money') <= Sum(Player, money)
      /\ \A q \in Player : money'[q] <= MaxMoney
  <2>1. Sum(Player, money) \in Nat BY <1>2, StateSums
  <2>2. CASE money' = money BY <2>1, <2>2 DEF GoldInv
  <2>3. CASE money' # money
    <3> DEFINE d == GetAuctionCut(a)
    <3>1. d \in Nat /\ d <= money[p] /\ money' = [money EXCEPT ![p] = ModifyMoney(@, Minus(d))]
      BY <1>2, <2>3, CutAtMostBid DEF HandleAuctionRemoveItem, Inv, TypeOK
    <3> HIDE DEF d
    <3>2. /\ Sum(Player, money') = Sum(Player, money) - d /\ money'[p] = money[p] - d
          /\ \A q \in Player : money'[q] <= MaxMoney
      BY <3>1, BidderPays
    <3>3. Weighs(Player, money')
      <4>1. money' \in [Player -> 0 .. UInt - 1]
        BY RemoveItemInv DEF Inv, TypeOK
      <4> QED BY <4>1, GuidAssumption, NumbersAssumption DEF Weighs
    <3>4. Sum(Player, money') \in Nat BY <3>3, CoinsFinite
    <3> QED BY <2>1, <3>1, <3>2, <3>4
  <2> QED BY <2>2, <2>3
<1> HIDE DEF new
<1>9. /\ IsFiniteSet(mails') /\ \A m \in mails' : Sound(m)
      /\ Sum(mails', Gold) \in Nat /\ Sum(mails', Gold) <= Sum(mails, Gold) + (a.bid + 0)
  BY <1>1, <1>2, <1>7, MailsGrow
<1>10. /\ Sum(auctions, Stake) = Sum(auctions', Stake) + a.bid
       /\ Sum(auctions, Fee) = Sum(auctions', Fee) + a.deposit
       /\ Sum(auctions', Stake) \in Nat /\ Sum(auctions', Fee) \in Nat
  BY <1>1, <1>2, AuctionGone, AuctionsShrink
<1>11. GoldInv'
  <2>1. {a} \subseteq auctions /\ \A m \in new : \E c \in {a} : m.Id = c.Id BY <1>6
  <2> QED BY <1>1, <1>8, <1>9, <2>1, ClosingKeeps
<1>12. Hoard' <= Hoard
  <2>1. /\ Sum(Player, money) \in Nat /\ Sum(mails, Gold) \in Nat
    BY <1>2, StateSums
  <2> QED BY <1>3, <1>8, <1>9, <1>10, <2>1 DEF Hoard
<1> QED BY <1>11, <1>12

\* All the letters that Update sends are paid by the bids and the deposits it takes.
LEMMA UpdateCharges ==
    ASSUME Inv, GoldInv
    PROVE  Charges(UNION {ClosingMails(a) : a \in Expired},
                   Sum(Expired, Stake) + Sum(Expired, Fee))
<1> DEFINE Sent(w) == UNION {ClosingMails(a) : a \in w}
           Cost(w) == Sum(w, Stake) + Sum(w, Fee)
           P == {w \in SUBSET Expired : Charges(Sent(w), Cost(w))}
<1>1. Expired \in SUBSET auctions /\ TypeOK /\ auctions \in SUBSET AuctionEntry
  BY DEF Expired, Inv, TypeOK
<1>2. IsFiniteSet(Expired) BY <1>1, AuctionsShrink
<1>3. {} \in P
  <2>1. Sent({}) = {} OBVIOUS
  <2>2. Cost({}) = 0 BY SumNone
  <2>3. Charges({}, 0) BY ChargeNone
  <2>4. Charges(Sent({}), Cost({})) BY <2>1, <2>2, <2>3, Zenon
  <2> QED BY <2>4
<1>4. ASSUME NEW w \in SUBSET Expired, NEW a \in Expired \ w, w \in P PROVE w \cup {a} \in P
  <2>1. a \in AuctionEntry /\ a \in auctions /\ w \in SUBSET auctions BY <1>1
  <2>2. a.bid \in Nat /\ a.deposit \in Nat /\ Stake[a] = a.bid /\ Fee[a] = a.deposit
    BY <2>1 DEF AuctionEntry, Stake, Fee
  <2>3. a.bid + a.deposit <= MaxMoney BY <2>1 DEF GoldInv
  <2>4. Charges(ClosingMails(a), a.bid + a.deposit) BY <2>1, <2>3, ClosingCharges
  <2>5. /\ Weighs(w, Stake) /\ Weighs(w, Fee) /\ Sum(w, Stake) \in Nat /\ Sum(w, Fee) \in Nat
    BY <1>1, <2>1, AuctionsShrink
  <2>6. Sum(w \cup {a}, Stake) = Sum(w, Stake) + a.bid BY <2>2, <2>5, SumAdd
  <2>7. Sum(w \cup {a}, Fee) = Sum(w, Fee) + a.deposit BY <2>2, <2>5, SumAdd
  <2>8. Cost(w \cup {a}) = Cost(w) + (a.bid + a.deposit) /\ Cost(w) \in Nat
    BY <2>2, <2>5, <2>6, <2>7
  <2>9. Sent(w \cup {a}) = Sent(w) \cup ClosingMails(a) OBVIOUS
  <2>10. Charges(Sent(w), Cost(w)) BY <1>4
  <2>11. a.bid + a.deposit \in Nat BY <2>2
  <2> HIDE DEF Sent, Cost
  <2>12. Charges(Sent(w) \cup ClosingMails(a), Cost(w) + (a.bid + a.deposit))
    BY <2>4, <2>8, <2>10, <2>11, ChargeBoth
  <2>13. Charges(Sent(w \cup {a}), Cost(w \cup {a})) BY <2>8, <2>9, <2>12, Zenon
  <2> QED BY <2>13
<1>5. Expired \in P
  <2> HIDE DEF P
  <2> QED BY <1>2, <1>3, <1>4, SubsetInduction
<1> QED BY <1>5

\* Update closes all the auctions that are over.
LEMMA UpdateGold ==
    ASSUME Inv, LettersInv, GoldInv, Update
    PROVE  GoldInv' /\ Hoard' <= Hoard
<1> DEFINE new == UNION {ClosingMails(a) : a \in Expired}
           n == Sum(Expired, Stake) + Sum(Expired, Fee)
<1>1. mails' = mails \cup new /\ auctions' = auctions \ Expired /\ money' = money
  BY DEF Update
<1>2. TypeOK /\ Expired \in SUBSET auctions BY DEF Inv, Expired
<1>3. Charges(new, n) BY UpdateCharges
<1>4. /\ Weighs(Expired, Stake) /\ Weighs(Expired, Fee)
      /\ Sum(Expired, Stake) \in Nat /\ Sum(Expired, Fee) \in Nat
  BY <1>2, AuctionsShrink
<1>5. n \in Nat BY <1>4
<1>6. \A m \in new : \E a \in Expired : m.Id = a.Id
  <2>1. \A m \in new : \E a \in Expired : m \in ClosingMails(a) OBVIOUS
  <2>2. \A a \in Expired : \A m \in ClosingMails(a) : m.Id = a.Id
    BY HouseLetters DEF ClosingMails
  <2> QED BY <2>1, <2>2
<1> HIDE DEF new, n
<1>7. /\ IsFiniteSet(mails') /\ \A m \in mails' : Sound(m)
      /\ Sum(mails', Gold) \in Nat /\ Sum(mails', Gold) <= Sum(mails, Gold) + n
  BY <1>1, <1>2, <1>3, <1>5, MailsGrow
<1>8. GoldInv'
  <2>1. \A q \in Player : money'[q] <= MaxMoney BY <1>1 DEF GoldInv
  <2> QED BY <1>1, <1>2, <1>6, <1>7, <2>1, ClosingKeeps
<1>9. auctions' \in SUBSET auctions BY <1>1
<1>10. /\ Weighs(auctions', Stake) /\ Weighs(auctions', Fee)
       /\ Sum(auctions', Stake) \in Nat /\ Sum(auctions', Fee) \in Nat
  BY <1>2, <1>9, AuctionsShrink
<1>11. auctions' \cup Expired = auctions /\ auctions' \cap Expired = {} BY <1>1, <1>2
<1>12. Sum(auctions' \cup Expired, Stake) = Sum(auctions', Stake) + Sum(Expired, Stake)
  BY <1>4, <1>10, <1>11, SumSplit
<1>13. Sum(auctions' \cup Expired, Fee) = Sum(auctions', Fee) + Sum(Expired, Fee)
  BY <1>4, <1>10, <1>11, SumSplit
<1>14. /\ Sum(auctions, Stake) = Sum(auctions', Stake) + Sum(Expired, Stake)
       /\ Sum(auctions, Fee) = Sum(auctions', Fee) + Sum(Expired, Fee)
  BY <1>11, <1>12, <1>13, Zenon
<1>15. Hoard' <= Hoard
  <2>1. Sum(Player, money) \in Nat /\ Sum(mails, Gold) \in Nat BY <1>2, StateSums
  <2> QED BY <1>1, <1>4, <1>7, <1>10, <1>14, <2>1 DEF Hoard, n
<1> QED BY <1>8, <1>15

\* Gold and items leave the mailbox.
LEMMA MailboxGold ==
    ASSUME Inv, LettersInv, GoldInv, NEW m \in mails, HandleMailTakeMoney(m) \/ HandleMailTakeItem(m)
    PROVE  GoldInv' /\ Hoard' <= Hoard
<1>1. mails' = mails \ {m} /\ auctions' = auctions
  BY DEF HandleMailTakeMoney, HandleMailTakeItem
<1>2. TypeOK /\ m \in MailType /\ MaxMoney \in Nat BY NumbersAssumption DEF Inv, TypeOK, MailType
<1>3. m.to \in Player /\ m.money \in Nat /\ m.money <= MaxMoney /\ Gold[m] = m.money
  BY <1>2 DEF MailType, GoldInv, Gold
<1>4. /\ Weighs(mails, Gold) /\ Sum(Player, money) \in Nat /\ Sum(mails, Gold) \in Nat
      /\ Sum(auctions, Stake) \in Nat /\ Sum(auctions, Fee) \in Nat
  BY <1>2, StateSums
<1>5. Weighs(mails', Gold) /\ Sum(mails, Gold) = Sum(mails', Gold) + m.money
  BY <1>1, <1>3, <1>4, SumRemove
<1>6. Sum(mails', Gold) \in Nat /\ IsFiniteSet(mails') BY <1>5, CoinsFinite DEF Weighs
<1>7. /\ Sum(Player, money') <= Sum(Player, money) + m.money /\ Sum(Player, money') \in Nat
      /\ \A q \in Player : money'[q] <= MaxMoney
  <2>1. CASE HandleMailTakeItem(m)
    <3>1. money' = money BY <2>1 DEF HandleMailTakeItem
    <3> QED BY <1>3, <1>4, <3>1 DEF GoldInv
  <2>2. CASE HandleMailTakeMoney(m)
    <3> DEFINE p == m.to
               x == ModifyMoney(money[p], m.money)
    <3>1. money' = [money EXCEPT ![p] = x] BY <2>2 DEF HandleMailTakeMoney
    <3>2. money \in [Player -> Nat] /\ p \in Player /\ money[p] \in Nat /\ money[p] <= MaxMoney
      BY <1>3, NumbersAssumption DEF Inv, TypeOK, GoldInv
    <3>3. x \in Nat /\ x <= MaxMoney /\ x <= money[p] + m.money BY <1>3, <3>2, ReceiveExact
    <3> HIDE DEF p, x
    <3>4. Sum(Player, [money EXCEPT ![p] = x]) = Sum(Player, money) - money[p] + x
      BY <3>2, <3>3, PurseSum
    <3>5. Sum(Player, money') = Sum(Player, money) - money[p] + x BY <3>1, <3>4
    <3>6. \A q \in Player : money'[q] <= MaxMoney BY <3>1, <3>2, <3>3 DEF GoldInv
    <3>7. Weighs(Player, money')
      <4>1. money' \in [Player -> Nat] BY <3>1, <3>2, <3>3
      <4> QED BY <4>1, GuidAssumption DEF Weighs
    <3>8. Sum(Player, money') \in Nat BY <3>7, CoinsFinite
    <3> QED BY <1>3, <1>4, <3>2, <3>3, <3>5, <3>6, <3>8
  <2> QED BY <2>1, <2>2
<1>8. GoldInv'
  <2>1. \A l \in mails' : Sound(l) BY <1>1, GoldInvParts
  <2>2. mails' \subseteq mails \cup {} /\ auctions' \subseteq auctions \ {} BY <1>1
  <2>3. {} \subseteq auctions /\ \A l \in {} : \E a \in {} : l.Id = a.Id OBVIOUS
  <2> QED BY <1>6, <1>7, <2>1, <2>2, <2>3, ClosingKeeps
<1>9. Hoard' <= Hoard BY <1>1, <1>3, <1>4, <1>5, <1>6, <1>7 DEF Hoard
<1> QED BY <1>8, <1>9

\* Hardcore mode destroys gold, and nothing else loses or gains any by it.
LEMMA HardcoreGold ==
    ASSUME Inv, LettersInv, GoldInv, NEW p \in Player, SetupHardcoreMode(p) \/ HandleHardcoreMailQuery(p)
    PROVE  GoldInv' /\ Hoard' <= Hoard
<1>1. mails' \in SUBSET mails /\ auctions' \in SUBSET auctions
  BY DEF SetupHardcoreMode, HandleHardcoreMailQuery
<1>2. TypeOK /\ MaxMoney \in Nat BY NumbersAssumption DEF Inv
<1>3. IsFiniteSet(mails') /\ Sum(mails', Gold) \in Nat /\ Sum(mails', Gold) <= Sum(mails, Gold)
  BY <1>1, <1>2, MailsShrink
<1>4. /\ Sum(auctions', Stake) \in Nat /\ Sum(auctions', Stake) <= Sum(auctions, Stake)
      /\ Sum(auctions', Fee) \in Nat /\ Sum(auctions', Fee) <= Sum(auctions, Fee)
  BY <1>1, <1>2, AuctionsShrink
<1>5. /\ Sum(Player, money) \in Nat /\ Sum(mails, Gold) \in Nat
      /\ Sum(auctions, Stake) \in Nat /\ Sum(auctions, Fee) \in Nat
  BY <1>2, StateSums
<1>6. /\ Sum(Player, money') <= Sum(Player, money) /\ Sum(Player, money') \in Nat
      /\ \A q \in Player : money'[q] <= MaxMoney
  <2>1. CASE money' = money BY <1>5, <2>1 DEF GoldInv
  <2>2. CASE money' # money
    <3>1. money' = [money EXCEPT ![p] = 0]
      BY <2>2 DEF SetupHardcoreMode, HandleHardcoreMailQuery
    <3>2. money \in [Player -> Nat] /\ money[p] \in Nat BY NumbersAssumption DEF Inv, TypeOK
    <3>3. Sum(Player, [money EXCEPT ![p] = 0]) = Sum(Player, money) - money[p] + 0
      BY <3>2, PurseSum
    <3>4. Sum(Player, money') = Sum(Player, money) - money[p] + 0 BY <3>1, <3>3
    <3>5. Weighs(Player, money')
      <4>1. money' \in [Player -> Nat] BY <3>1, <3>2
      <4> QED BY <4>1, GuidAssumption DEF Weighs
    <3>6. Sum(Player, money') \in Nat BY <3>5, CoinsFinite
    <3>7. \A q \in Player : money'[q] <= MaxMoney BY <1>2, <3>1, <3>2 DEF GoldInv
    <3> QED BY <1>5, <3>2, <3>4, <3>6, <3>7
  <2> QED BY <2>1, <2>2
<1>7. GoldInv'
  <2>1. \A l \in mails' : Sound(l) BY <1>1, GoldInvParts
  <2>2. mails' \subseteq mails \cup {} /\ auctions' \subseteq auctions \ {} BY <1>1
  <2>3. {} \subseteq auctions /\ \A l \in {} : \E a \in {} : l.Id = a.Id OBVIOUS
  <2> QED BY <1>3, <1>6, <2>1, <2>2, <2>3, ClosingKeeps
<1>8. Hoard' <= Hoard BY <1>3, <1>4, <1>5, <1>6 DEF Hoard
<1> QED BY <1>7, <1>8

\* Every step keeps the invariant and makes no gold.
LEMMA NextGold ==
    ASSUME Inv, LettersInv, GoldInv, SmallPrices, [Next]_vars
    PROVE  GoldInv' /\ Hoard' <= Hoard
<1>1. CASE Sell
  <2>1. PICK p \in Player, h \in House, item \in Item, bid \in Prices,
             buyout \in Prices \cup {0}, deposit \in Deposits, etime \in Durations :
             HandleAuctionSellItem(p, h, item, bid, buyout, deposit, etime)
    BY <1>1 DEF Sell
  <2> QED BY <2>1, SellGold
<1>2. CASE Bid
  <2>1. PICK p \in Player, a \in auctions, price \in Prices : HandleAuctionPlaceBid(p, a, price)
    BY <1>2 DEF Bid
  <2>2. price \in Nat BY NumbersAssumption
  <2> QED BY <2>1, <2>2, PlaceBidGold, BuyoutGold DEF HandleAuctionPlaceBid
<1>3. CASE Cancel BY <1>3, RemoveItemGold DEF Cancel
<1>4. CASE Update BY <1>4, UpdateGold
<1>5. CASE Post BY <1>5, MailboxGold DEF Post
<1>6. CASE Hardcore BY <1>6, HardcoreGold DEF Hardcore
<1>7. CASE Tick \/ UNCHANGED vars
  <2>1. UNCHANGED <<money, auctions, mails>> BY <1>7 DEF Tick, vars
  <2>2. GoldInv' BY <2>1 DEF GoldInv
  <2>3. Hoard' = Hoard BY <2>1 DEF Hoard
  <2>4. Hoard \in Nat BY StateSums DEF Hoard, Inv
  <2> QED BY <2>2, <2>3, <2>4
<1> QED BY <1>1, <1>2, <1>3, <1>4, <1>5, <1>6, <1>7 DEF Next

\* The first state.
LEMMA InitGold ==
    ASSUME Init
    PROVE  Inv /\ LettersInv /\ GoldInv
<1>1. Inv /\ LettersInv BY InitInv DEF Init, LettersInv
<1>2. GoldInv BY FS_EmptySet, NumbersAssumption DEF Init, GoldInv
<1> QED BY <1>1, <1>2

\* No gold is made: whoever lists, bids, outbids, buys, cancels, waits for the expiry and
\* empties his mailbox, in whatever order, all purses, letters, bids and deposits together
\* never hold more than before, as long as a price and a deposit together stay within
\* MAX_MONEY_AMOUNT.
THEOREM HouseMakesNoGold ==
    ASSUME SmallPrices
    PROVE  Spec => NoGoldMade
<1> DEFINE J == Inv /\ LettersInv /\ GoldInv
           E == AllGold = Hoard
           Less == AllGold' <= AllGold
<1>1. Init => J BY InitGold
<1>2. J /\ [Next]_vars => J' /\ Hoard' <= Hoard
  BY NextInv, NextLetters, NextGold
<1>3. J => E BY GoldIsHoard DEF Inv
<1>4. E /\ E' /\ Hoard' <= Hoard => Less
  OBVIOUS
<1> HIDE DEF J, E
<1>5. Spec => [][Less]_vars BY <1>1, <1>2, <1>3, <1>4, PTL DEF Spec
<1> QED BY <1>5, PTL DEF NoGoldMade

-----------------------------------------------------------------------------
(* Settlement.                                                             *)

\* What a step owes the auctions it closes, while nobody is in hardcore mode.
Calm == \A p \in Player : ~IsHardcore(p) /\ ~TurnsHardcore(p)
About(a) == {m \in mails' \ mails : m.Id = a.Id}
Settles == \A a \in ClosedAuctions : Calm => SettledBy(a, About(a))

\* A letter that is due for an open auction: it is final, or it gives back the highest bid.
Owed(a, m) ==
    /\ m.Id = a.Id
    /\ m.subject \in Final \cup {"cancelled"} \/ (m.subject = "outbid" /\ m.money = a.bid)

\* Such letters are not yet in the mailbox, so all of them are new.
LEMMA LettersAbout ==
    ASSUME Inv, LettersInv, GoldInv, NEW a \in auctions, NEW new, NEW mine,
           mine \subseteq new, mails' = mails \cup new,
           \A m \in new : m.Id = a.Id => m \in mine, \A m \in mine : Owed(a, m)
    PROVE  About(a) = mine
<1>1. a.bid \in Nat BY DEF Inv, TypeOK, AuctionEntry
<1>2. \A m \in mails : Due(a, m) /\ (m.subject \in Final => m.Id # a.Id)
  BY GoldInvParts DEF LettersInv
<1>3. \A m \in mine : m \notin mails
  <2> SUFFICES ASSUME NEW m \in mine, m \in mails PROVE FALSE
    OBVIOUS
  <2>1. Owed(a, m) OBVIOUS
  <2>2. m.subject = "outbid" /\ m.money = a.bid BY <1>2, <2>1 DEF Owed, Due
  <2>3. m.money < a.bid BY <1>2, <2>1, <2>2 DEF Owed, Due
  <2> QED BY <1>1, <2>2, <2>3
<1>4. \A m \in mine : m.Id = a.Id BY DEF Owed
<1> QED BY <1>3, <1>4 DEF About

\* The letters of a sale and of a return are due.
LEMMA LettersOwed ==
    ASSUME NEW a, NEW p, NEW price, NEW subject \in {"expired", "returned"}
    PROVE  /\ \A m \in SaleLetters(a, p, price) : Owed(a, m)
           /\ \A m \in ReturnLetters(a, subject) : Owed(a, m)
<1>1. \A m \in SaleLetters(a, p, price) : Owed(a, m)
  BY LetterFields DEF SaleLetters, Owed, Final
<1>2. \A m \in ReturnLetters(a, subject) : Owed(a, m)
  BY LetterFields DEF ReturnLetters, Owed, Final
<1> QED BY <1>1, <1>2

\* What the owner gets for a sale does not wrap.
LEMMA ProfitWhole ==
    ASSUME NEW b \in AuctionEntry, b.bid + b.deposit <= MaxMoney
    PROVE  (b.bid + b.deposit - GetAuctionCut(b)) % UInt = b.bid + b.deposit - GetAuctionCut(b)
<1> DEFINE x == b.bid + b.deposit - GetAuctionCut(b)
<1>1. b.bid \in Nat /\ b.deposit \in Nat BY DEF AuctionEntry
<1>2. x \in Nat /\ x <= b.bid + b.deposit BY <1>1, CutAtMostBid
<1>3. b.bid + b.deposit < UInt BY <1>1, HalfRange
<1>4. UInt \in Nat BY HalfRange
<1> HIDE DEF x
<1>5. x \in 0 .. UInt - 1 BY <1>1, <1>2, <1>3, <1>4
<1>6. x % UInt = x BY <1>4, <1>5
<1> QED BY <1>6 DEF x

\* The seller's and the buyer's letter, when b is auction a sold to p at a price.
LEMMA SaleIs ==
    ASSUME Inv, Calm, NEW a \in auctions, NEW p \in Player, NEW price \in Nat, NEW b,
           b = [a EXCEPT !.bidder = p, !.bid = price], price + a.deposit <= MaxMoney
    PROVE  SuccessfulMail(b) \cup WonMail(b) \cup Refund(p, a) = SaleLetters(a, p, price)
<1>1. a \in AuctionEntry /\ a.item \in AItems /\ a.owner \in Player
  BY DEF Inv, TypeOK, ItemsOnce, AuctionEntry
<1>2. /\ b \in AuctionEntry /\ b.Id = a.Id /\ b.owner = a.owner /\ b.item = a.item
      /\ b.bidder = p /\ b.bid = price /\ b.deposit = a.deposit /\ b.house = a.house
  BY <1>1 DEF AuctionEntry
<1>3. \A q \in Player : ~IsHardcore(q) BY DEF Calm
<1>4. GetAuctionCut(b) = GetAuctionCut([a EXCEPT !.bid = price])
  BY <1>1, <1>2 DEF GetAuctionCut, AuctionEntry
<1>5. (price + a.deposit - GetAuctionCut(b)) % UInt = price + a.deposit - GetAuctionCut(b)
  BY <1>2, ProfitWhole
<1> DEFINE n == price + a.deposit - GetAuctionCut([a EXCEPT !.bid = price])
<1>6. SuccessfulMail(b) = {Letter(a, "sold", a.owner, n, NoItem)}
  <2>1. SuccessfulMail(b) = {Letter(b, "sold", a.owner, n, NoItem)}
    BY <1>1, <1>2, <1>3, <1>4, <1>5 DEF SuccessfulMail
  <2> QED BY <1>2, <2>1 DEF Letter
<1>7. WonMail(b) = {Letter(a, "won", p, 0, a.item)}
  <2>1. WonMail(b) = {Letter(b, "won", p, 0, a.item)} BY <1>1, <1>2, <1>3 DEF WonMail
  <2> QED BY <1>2, <2>1 DEF Letter
<1>8. Refund(p, a) = IF a.bidder \in {p, NoOne} THEN {}
                     ELSE {Letter(a, "outbid", a.bidder, a.bid, NoItem)}
  <2>1. a.bidder \notin {p, NoOne} => ~IsHardcore(a.bidder) BY <1>1, <1>3 DEF AuctionEntry
  <2> QED BY <2>1 DEF Refund, OutbidMail
<1>9. SaleLetters(a, p, price) = {Letter(a, "sold", a.owner, n, NoItem), Letter(a, "won", p, 0, a.item)}
        \cup (IF a.bidder \in {p, NoOne} THEN {} ELSE {Letter(a, "outbid", a.bidder, a.bid, NoItem)})
  BY DEF SaleLetters
<1> HIDE DEF n
<1> QED BY <1>6, <1>7, <1>8, <1>9

\* A step that keeps every auction settles nothing.
LEMMA NothingClosed ==
    ASSUME \A a \in auctions : \E b \in auctions' : a.Id = b.Id
    PROVE  Settles
  BY DEF Settles, ClosedAuctions

\* A buyout.
LEMMA BuyoutSettles ==
    ASSUME Inv, LettersInv, GoldInv, NEW p \in Player, NEW a \in auctions, NEW price \in Nat,
           Buyout(p, a, price)
    PROVE  Settles
<1> SUFFICES ASSUME Calm PROVE \A c \in ClosedAuctions : SettledBy(c, About(c))
  BY DEF Settles
<1> DEFINE b == [a EXCEPT !.bidder = p, !.bid = a.buyout]
           d == BidPrice(p, a, a.buyout)
           sale == SaleLetters(a, p, a.buyout)
<1>1. /\ mails' = mails \cup (SuccessfulMail(b) \cup WonMail(b) \cup Refund(p, a))
      /\ auctions' = auctions \ {a} /\ CanBid(p, a, price) /\ IsBuyout(a, price)
      /\ money' = [money EXCEPT ![p] = ModifyMoney(@, Minus(d))]
  BY DEF Buyout
<1>2. a \in AuctionEntry BY DEF Inv, TypeOK
<1>3. a.bid \in Nat /\ a.buyout \in Nat /\ a.deposit \in Nat BY <1>2 DEF AuctionEntry
<1>4. a.buyout + a.deposit <= MaxMoney BY DEF GoldInv
<1>5. mails' = mails \cup sale
  <2>1. SuccessfulMail(b) \cup WonMail(b) \cup Refund(p, a) = sale BY <1>3, <1>4, SaleIs
  <2> QED BY <1>1, <2>1
<1>6. \A m \in sale : Owed(a, m) BY LettersOwed
<1> HIDE DEF sale
<1>7. About(a) = sale BY <1>5, <1>6, LettersAbout
<1>8. a.bid < a.buyout /\ a.buyout <= price /\ a.buyout # 0
  BY <1>1, <1>3 DEF IsBuyout, Inv, BidsInRange
<1>9. d \in Nat /\ d <= money[p] /\ d = IF p = a.bidder THEN a.buyout - a.bid ELSE a.buyout
  BY <1>1, <1>3, <1>8, PriceOfBid
<1> HIDE DEF d
<1>10. money'[p] = money[p] - d BY <1>1, <1>9, BidderPays
<1>11. p # a.owner BY <1>1 DEF CanBid
<1>12. SettledBy(a, About(a)) BY <1>7, <1>8, <1>9, <1>10, <1>11 DEF SettledBy, sale
<1>13. \A c \in ClosedAuctions : c = a BY <1>1 DEF ClosedAuctions
<1> QED BY <1>12, <1>13

\* The owner takes his item back.
LEMMA RemoveItemSettles ==
    ASSUME Inv, LettersInv, GoldInv, NEW p \in Player, NEW a \in auctions,
           HandleAuctionRemoveItem(p, a)
    PROVE  Settles
<1> SUFFICES ASSUME Calm PROVE \A c \in ClosedAuctions : SettledBy(c, About(c))
  BY DEF Settles
<1> DEFINE back == ReturnLetters(a, "returned")
           d == IF a.bidder = NoOne THEN 0 ELSE GetAuctionCut(a)
<1>1. a \in AuctionEntry /\ a.owner = p /\ auctions' = auctions \ {a}
  BY DEF Inv, TypeOK, HandleAuctionRemoveItem
<1>2. a.bidder # NoOne => CancelledMail(a) = {Letter(a, "cancelled", a.bidder, a.bid, NoItem)}
  BY <1>1 DEF CancelledMail, Calm, AuctionEntry
<1>3. mails' = mails \cup back
  BY <1>1, <1>2 DEF HandleAuctionRemoveItem, ReturnLetters
<1>4. \A m \in back : Owed(a, m) BY LettersOwed
<1> HIDE DEF back
<1>5. About(a) = back BY <1>3, <1>4, LettersAbout
<1>6. money[p] \in Nat /\ GetAuctionCut(a) \in Nat
  BY <1>1, CutAtMostBid, NumbersAssumption DEF Inv, TypeOK
<1>7. money'[p] = money[p] - d
  <2>1. CASE a.bidder = NoOne BY <1>6, <2>1 DEF HandleAuctionRemoveItem
  <2>2. CASE a.bidder # NoOne
    <3>1. /\ GetAuctionCut(a) <= money[p]
          /\ money' = [money EXCEPT ![p] = ModifyMoney(@, Minus(GetAuctionCut(a)))]
      BY <1>6, <2>2 DEF HandleAuctionRemoveItem
    <3>2. money'[p] = money[p] - GetAuctionCut(a) BY <1>6, <3>1, BidderPays
    <3> QED BY <2>2, <3>2
  <2> QED BY <2>1, <2>2
<1>8. SettledBy(a, About(a)) BY <1>1, <1>5, <1>7 DEF SettledBy, back
<1>9. \A c \in ClosedAuctions : c = a BY <1>1 DEF ClosedAuctions
<1> QED BY <1>8, <1>9

\* Update closes all the auctions that are over, each by letters of its own.
LEMMA UpdateSettles ==
    ASSUME Inv, LettersInv, GoldInv, Update
    PROVE  Settles
<1> SUFFICES ASSUME Calm, NEW a \in ClosedAuctions PROVE SettledBy(a, About(a))
  BY DEF Settles
<1> DEFINE new == UNION {ClosingMails(c) : c \in Expired}
<1>1. mails' = mails \cup new /\ auctions' = auctions \ Expired /\ money' = money
  BY DEF Update
<1>2. a \in auctions /\ a \in Expired /\ now > a.expireTime
  BY <1>1 DEF ClosedAuctions, Expired
<1>3. a \in AuctionEntry /\ a.item \in AItems BY <1>2 DEF Inv, TypeOK, ItemsOnce
<1>4. \A c \in Expired : \A m \in ClosingMails(c) : m.Id = c.Id
  BY HouseLetters DEF ClosingMails
<1>5. \A m \in new : \E c \in Expired : m \in ClosingMails(c) OBVIOUS
<1>6. ClosingMails(a) \subseteq new BY <1>2
<1> HIDE DEF new
<1>7. \A m \in new : m.Id = a.Id => m \in ClosingMails(a)
  <2>1. \A c \in Expired : c.Id = a.Id => c = a BY <1>2 DEF Inv, ItemsOnce, Expired
  <2> QED BY <1>4, <1>5, <2>1
<1>8. CASE a.bidder = NoOne
  <2>1. ClosingMails(a) = ReturnLetters(a, "expired")
    <3>1. ExpiredMail(a) = {Letter(a, "expired", a.owner, 0, a.item)}
      BY <1>3 DEF ExpiredMail, Calm, AuctionEntry
    <3> QED BY <1>8, <3>1 DEF ClosingMails, ReturnLetters
  <2>2. \A m \in ClosingMails(a) : Owed(a, m) BY <2>1, LettersOwed
  <2>3. About(a) = ClosingMails(a) BY <1>1, <1>2, <1>6, <1>7, <2>2, LettersAbout
  <2> QED BY <1>1, <1>2, <1>8, <2>1, <2>3 DEF SettledBy
<1>9. CASE a.bidder # NoOne
  <2>1. a.bidder \in Player \ {a.owner} BY <1>2, <1>3, <1>9 DEF AuctionEntry, LettersInv
  <2>2. ClosingMails(a) = SaleLetters(a, a.bidder, a.bid)
    <3>1. a = [a EXCEPT !.bidder = a.bidder, !.bid = a.bid] BY <1>3 DEF AuctionEntry
    <3>2. a.bid \in Nat /\ a.bid + a.deposit <= MaxMoney BY <1>2, <1>3 DEF GoldInv, AuctionEntry
    <3>3. SuccessfulMail(a) \cup WonMail(a) \cup Refund(a.bidder, a)
            = SaleLetters(a, a.bidder, a.bid)
      BY <1>2, <2>1, <3>1, <3>2, SaleIs
    <3>4. Refund(a.bidder, a) = {} BY DEF Refund
    <3> QED BY <1>9, <3>3, <3>4 DEF ClosingMails
  <2>3. \A m \in ClosingMails(a) : Owed(a, m) BY <2>2, LettersOwed
  <2>4. About(a) = ClosingMails(a) BY <1>1, <1>2, <1>6, <1>7, <2>3, LettersAbout
  <2> QED BY <1>1, <1>2, <2>1, <2>2, <2>4 DEF SettledBy
<1> QED BY <1>8, <1>9

\* Every step settles what it closes.
LEMMA NextSettles ==
    ASSUME Inv, LettersInv, GoldInv, [Next]_vars
    PROVE  Settles
<1>1. CASE Sell
  <2>1. auctions \subseteq auctions' BY <1>1 DEF Sell, HandleAuctionSellItem
  <2> QED BY <2>1, NothingClosed
<1>2. CASE Bid
  <2>1. PICK p \in Player, a \in auctions, price \in Prices : HandleAuctionPlaceBid(p, a, price)
    BY <1>2 DEF Bid
  <2>2. price \in Nat BY NumbersAssumption
  <2>3. CASE PlaceBid(p, a, price)
    <3> DEFINE b == [a EXCEPT !.bidder = p, !.bid = price]
    <3>1. auctions' = (auctions \ {a}) \cup {b} BY <2>3 DEF PlaceBid
    <3>2. b.Id = a.Id BY DEF Inv, TypeOK, AuctionEntry
    <3> HIDE DEF b
    <3>3. \A c \in auctions : \E e \in auctions' : c.Id = e.Id BY <3>1, <3>2
    <3> QED BY <3>3, NothingClosed
  <2> QED BY <2>1, <2>2, <2>3, BuyoutSettles DEF HandleAuctionPlaceBid
<1>3. CASE Cancel BY <1>3, RemoveItemSettles DEF Cancel
<1>4. CASE Update BY <1>4, UpdateSettles
<1>5. ASSUME NEW p \in Player, SetupHardcoreMode(p) PROVE Settles
  <2>1. hardcore'[p] = "asked" /\ ~IsHardcore(p)
    BY <1>5 DEF SetupHardcoreMode, Inv, TypeOK
  <2>2. TurnsHardcore(p) BY <2>1 DEF TurnsHardcore, IsHardcore
  <2> QED BY <2>2 DEF Settles, Calm
<1>6. CASE auctions' = auctions BY <1>6, NothingClosed
<1>7. CASE Hardcore
  BY <1>5, <1>6, <1>7 DEF Hardcore, HandleHardcoreMailQuery
<1>8. CASE Post BY <1>6, <1>8 DEF Post, HandleMailTakeMoney, HandleMailTakeItem
<1>9. CASE Tick \/ UNCHANGED vars BY <1>6, <1>9 DEF Tick, vars
<1> QED BY <1>1, <1>2, <1>3, <1>4, <1>7, <1>8, <1>9 DEF Next

\* Each auction that closes while nobody is in hardcore mode is settled by the letters of a
\* sale or of a return and no others, with the amounts due and none that wraps, and none of
\* them was there before: buyout, cancellation and expiry in whatever order, several
\* in one Update included, as long as a price and a deposit together stay within
\* MAX_MONEY_AMOUNT.
THEOREM AuctionsSettledOnce ==
    ASSUME SmallPrices
    PROVE  Spec => Settled
<1> DEFINE J == Inv /\ LettersInv /\ GoldInv
<1>1. Init => J BY InitGold
<1>2. J /\ [Next]_vars => J' /\ [Settles]_vars
  BY NextInv, NextLetters, NextGold, NextSettles
<1> HIDE DEF J
<1>3. Spec => [][Settles]_vars BY <1>1, <1>2, PTL DEF Spec
<1> QED BY <1>3, PTL DEF Settled, Settles, Calm, About

-----------------------------------------------------------------------------
(* Bidders keep their gold.                                                *)

\* Claim, with sums of weights.
Mine(p) == money[p] + Sum(Part(mails, To, p), Gold) + Sum(Part(auctions, By, p), Stake)

\* Why the claim of p may fall in a step.
Excused(p) ==
    \/ IsHardcore(p) \/ TurnsHardcore(p)
    \/ NewMail("won", p) \/ NewMail("returned", p)
    \/ \E a \in auctions' : a.Id = nextId /\ a.owner = p
    \/ money'[p] = MaxMoney
    \/ \E a \in ClosedAuctions : a.bidder = p /\ TurnsHardcore(a.owner)

Keeps(p) == Mine(p)' >= Mine(p) \/ Excused(p)

\* The letters to q, with one letter more.
LEMMA LetterCounts ==
    ASSUME NEW M \in SUBSET MailType, IsFiniteSet(M), NEW l \in MailType, l \notin M, NEW q
    PROVE  Sum(Part(M \cup {l}, To, q), Gold)
             = Sum(Part(M, To, q), Gold) + (IF l.to = q THEN l.money ELSE 0)
<1>1. Weighs(M, Gold) BY DEF Weighs, Gold, MailType
<1>2. Part(M, To, q) \in SUBSET M BY DEF Part
<1>3. Weighs(Part(M, To, q), Gold) /\ Sum(Part(M, To, q), Gold) \in Nat
  BY <1>1, <1>2, SumPart, CoinsFinite
<1>4. Gold[l] = l.money /\ l.money \in Nat /\ To[l] = l.to BY DEF Gold, To, MailType
<1>5. CASE l.to = q
  <2>1. Part(M \cup {l}, To, q) = Part(M, To, q) \cup {l} BY <1>4, <1>5 DEF Part
  <2>2. l \notin Part(M, To, q) BY <1>2
  <2>3. Sum(Part(M, To, q) \cup {l}, Gold) = Sum(Part(M, To, q), Gold) + l.money
    BY <1>3, <1>4, <2>2, SumAdd
  <2> QED BY <1>5, <2>1, <2>3
<1>6. CASE l.to # q
  <2>1. Part(M \cup {l}, To, q) = Part(M, To, q) BY <1>4, <1>6 DEF Part
  <2> QED BY <1>3, <1>6, <2>1
<1> QED BY <1>5, <1>6

\* The bids of q, with one auction more.
LEMMA BidCounts ==
    ASSUME NEW A \in SUBSET AuctionEntry, IsFiniteSet(A), NEW b \in AuctionEntry, b \notin A, NEW q
    PROVE  Sum(Part(A \cup {b}, By, q), Stake)
             = Sum(Part(A, By, q), Stake) + (IF b.bidder = q THEN b.bid ELSE 0)
<1>1. Weighs(A, Stake) BY DEF Weighs, Stake, AuctionEntry
<1>2. Part(A, By, q) \in SUBSET A BY DEF Part
<1>3. Weighs(Part(A, By, q), Stake) /\ Sum(Part(A, By, q), Stake) \in Nat
  BY <1>1, <1>2, SumPart, CoinsFinite
<1>4. Stake[b] = b.bid /\ b.bid \in Nat /\ By[b] = b.bidder BY DEF Stake, By, AuctionEntry
<1>5. CASE b.bidder = q
  <2>1. Part(A \cup {b}, By, q) = Part(A, By, q) \cup {b} BY <1>4, <1>5 DEF Part
  <2>2. b \notin Part(A, By, q) BY <1>2
  <2>3. Sum(Part(A, By, q) \cup {b}, Stake) = Sum(Part(A, By, q), Stake) + b.bid
    BY <1>3, <1>4, <2>2, SumAdd
  <2> QED BY <1>5, <2>1, <2>3
<1>6. CASE b.bidder # q
  <2>1. Part(A \cup {b}, By, q) = Part(A, By, q) BY <1>4, <1>6 DEF Part
  <2> QED BY <1>3, <1>6, <2>1
<1> QED BY <1>5, <1>6

\* More letters are more gold for q; a letter to him that is new counts in full.
LEMMA LettersCount ==
    ASSUME NEW N \in SUBSET MailType, IsFiniteSet(N), NEW M \in SUBSET N, NEW q
    PROVE  /\ Sum(Part(M, To, q), Gold) <= Sum(Part(N, To, q), Gold)
           /\ \A l \in N \ M : l.to = q =>
                 Sum(Part(M, To, q), Gold) + l.money <= Sum(Part(N, To, q), Gold)
<1>1. Weighs(N, Gold) BY DEF Weighs, Gold, MailType
<1>2. Part(N, To, q) \in SUBSET N BY DEF Part
<1>3. Weighs(Part(N, To, q), Gold) BY <1>1, <1>2, SumPart
<1>4. ASSUME NEW L \in SUBSET N PROVE Sum(Part(L, To, q), Gold) <= Sum(Part(N, To, q), Gold)
  <2>1. Part(L, To, q) \in SUBSET Part(N, To, q) BY DEF Part
  <2> QED BY <1>3, <2>1, SumPart
<1>5. ASSUME NEW l \in N \ M, l.to = q
      PROVE  Sum(Part(M, To, q), Gold) + l.money <= Sum(Part(N, To, q), Gold)
  <2>1. M \cup {l} \in SUBSET N /\ l \notin M /\ l \in MailType /\ M \in SUBSET MailType OBVIOUS
  <2>2. IsFiniteSet(M) BY FS_Subset
  <2>3. Sum(Part(M \cup {l}, To, q), Gold) = Sum(Part(M, To, q), Gold) + l.money
    BY <1>5, <2>1, <2>2, LetterCounts
  <2>4. Sum(Part(M \cup {l}, To, q), Gold) <= Sum(Part(N, To, q), Gold) BY <1>4, <2>1
  <2> QED BY <2>3, <2>4
<1> QED BY <1>4, <1>5

\* The numbers of a step.
LEMMA StepSums ==
    ASSUME TypeOK, GoldInv, TypeOK', GoldInv', NEW q \in Player
    PROVE  /\ mails \in SUBSET MailType /\ mails' \in SUBSET MailType
           /\ auctions \in SUBSET AuctionEntry /\ auctions' \in SUBSET AuctionEntry
           /\ IsFiniteSet(mails) /\ IsFiniteSet(mails')
           /\ IsFiniteSet(auctions) /\ IsFiniteSet(auctions')
           /\ money[q] \in Nat /\ money'[q] \in Nat
           /\ Sum(Part(mails, To, q), Gold) \in Nat /\ Sum(Part(mails', To, q), Gold) \in Nat
           /\ Sum(Part(auctions, By, q), Stake) \in Nat
           /\ Sum(Part(auctions', By, q), Stake) \in Nat
<1>1. /\ mails \in SUBSET MailType /\ mails' \in SUBSET MailType
      /\ auctions \in SUBSET AuctionEntry /\ auctions' \in SUBSET AuctionEntry
  BY DEF TypeOK, MailType
<1>2. /\ IsFiniteSet(mails) /\ IsFiniteSet(mails')
      /\ IsFiniteSet(auctions) /\ IsFiniteSet(auctions')
  BY DEF GoldInv
<1>3. money[q] \in Nat /\ money'[q] \in Nat BY NumbersAssumption DEF TypeOK
<1>4. Weighs(Part(mails, To, q), Gold) /\ Weighs(Part(auctions, By, q), Stake)
  BY <1>1, <1>2, ClaimParts
<1>5. Weighs(Part(mails', To, q), Gold) /\ Weighs(Part(auctions', By, q), Stake)
  BY <1>1, <1>2, ClaimParts
<1> QED BY <1>1, <1>2, <1>3, <1>4, <1>5, CoinsFinite

\* Whoever is outbid finds the gold of his bid in a letter that was not there before.
LEMMA RefundPays ==
    ASSUME Inv, GoldInv, TypeOK', GoldInv', NEW p \in Player, NEW a \in auctions,
           NEW q \in Player, q # p, ~IsHardcore(q),
           mails \subseteq mails', Refund(p, a) \subseteq mails'
    PROVE  Sum(Part(mails, To, q), Gold) + (IF a.bidder = q THEN a.bid ELSE 0)
             <= Sum(Part(mails', To, q), Gold)
<1>0. TypeOK BY DEF Inv
<1>1. /\ mails' \in SUBSET MailType /\ IsFiniteSet(mails') /\ mails \in SUBSET mails'
      /\ Sum(Part(mails, To, q), Gold) \in Nat
  BY <1>0, StepSums
<1>2. CASE a.bidder # q
  <2>1. Sum(Part(mails, To, q), Gold) <= Sum(Part(mails', To, q), Gold) BY <1>1, LettersCount
  <2> QED BY <1>1, <1>2, <2>1
<1>3. CASE a.bidder = q
  <2> DEFINE l == Letter(a, "outbid", a.bidder, a.bid, NoItem)
  <2>1. l.to = q /\ l.money = a.bid /\ l.subject = "outbid" /\ l.Id = a.Id BY <1>3 DEF Letter
  <2>2. Refund(p, a) = {l} BY <1>3, GuidAssumption DEF Refund, OutbidMail
  <2> HIDE DEF l
  <2>3. a.bid \in Nat BY <1>0 DEF TypeOK, AuctionEntry
  <2>4. l \notin mails BY <2>1, <2>3, GoldInvParts DEF Due
  <2>5. l \in mails' \ mails BY <2>2, <2>4
  <2>6. Sum(Part(mails, To, q), Gold) + l.money <= Sum(Part(mails', To, q), Gold)
    BY <1>1, <2>1, <2>5, LettersCount
  <2> QED BY <1>3, <2>1, <2>6
<1> QED BY <1>2, <1>3

\* The bids of q without auction a.
LEMMA BidsWithout ==
    ASSUME TypeOK, GoldInv, NEW a \in auctions, NEW q
    PROVE  /\ Sum(Part(auctions \ {a}, By, q), Stake) \in Nat
           /\ Sum(Part(auctions, By, q), Stake)
                = Sum(Part(auctions \ {a}, By, q), Stake) + (IF a.bidder = q THEN a.bid ELSE 0)
<1> DEFINE A == auctions \ {a}
<1>1. A \in SUBSET auctions /\ A \in SUBSET AuctionEntry /\ a \in AuctionEntry /\ a \notin A
  BY DEF TypeOK
<1>2. A \cup {a} = auctions OBVIOUS
<1> HIDE DEF A
<1>3. IsFiniteSet(A) /\ Weighs(A, Stake) BY <1>1, AuctionsShrink
<1>4. Sum(Part(A \cup {a}, By, q), Stake)
        = Sum(Part(A, By, q), Stake) + (IF a.bidder = q THEN a.bid ELSE 0)
  BY <1>1, <1>3, BidCounts
<1>5. Sum(Part(A, By, q), Stake) \in Nat
  <2>1. Part(A, By, q) \in SUBSET A BY DEF Part
  <2> QED BY <1>3, <2>1, SumPart, CoinsFinite
<1> QED BY <1>2, <1>4, <1>5 DEF A

\* The invariants before and after a step.
Ready == Inv /\ LettersInv /\ GoldInv /\ Inv' /\ GoldInv'

\* Purse, letters and bids of q are no less than before.
LEMMA NoLess ==
    ASSUME Ready, NEW q \in Player, money'[q] >= money[q],
           Sum(Part(mails', To, q), Gold) >= Sum(Part(mails, To, q), Gold),
           Sum(Part(auctions', By, q), Stake) >= Sum(Part(auctions, By, q), Stake)
    PROVE  Keeps(q)
<1>1. TypeOK /\ GoldInv /\ TypeOK' /\ GoldInv' BY DEF Ready, Inv
<1>2. /\ money[q] \in Nat /\ money'[q] \in Nat
      /\ Sum(Part(mails, To, q), Gold) \in Nat /\ Sum(Part(mails', To, q), Gold) \in Nat
      /\ Sum(Part(auctions, By, q), Stake) \in Nat
      /\ Sum(Part(auctions', By, q), Stake) \in Nat
  BY <1>1, StepSums
<1>3. Mine(q)' >= Mine(q) BY <1>2 DEF Mine
<1> QED BY <1>3 DEF Keeps

\* Letters to q stay where they are.
LEMMA LettersStay ==
    ASSUME Ready, NEW q \in Player, mails \subseteq mails'
    PROVE  Sum(Part(mails', To, q), Gold) >= Sum(Part(mails, To, q), Gold)
<1>1. TypeOK /\ GoldInv /\ TypeOK' /\ GoldInv' BY DEF Ready, Inv
<1>2. /\ mails' \in SUBSET MailType /\ IsFiniteSet(mails') /\ mails \in SUBSET mails'
      /\ Sum(Part(mails, To, q), Gold) \in Nat /\ Sum(Part(mails', To, q), Gold) \in Nat
  BY <1>1, StepSums
<1>3. Sum(Part(mails, To, q), Gold) <= Sum(Part(mails', To, q), Gold) BY <1>2, LettersCount
<1> QED BY <1>2, <1>3

\* The auctions that q bids for stay where they are.
LEMMA BidsStay ==
    ASSUME Ready, NEW q \in Player,
           \A a \in auctions \cup auctions' : a.bidder = q => a \in auctions /\ a \in auctions'
    PROVE  Sum(Part(auctions', By, q), Stake) >= Sum(Part(auctions, By, q), Stake)
<1>1. TypeOK /\ GoldInv /\ TypeOK' /\ GoldInv' BY DEF Ready, Inv
<1>2. /\ auctions \in SUBSET AuctionEntry /\ auctions' \in SUBSET AuctionEntry
      /\ Sum(Part(auctions, By, q), Stake) \in Nat
  BY <1>1, StepSums
<1>3. \A a \in auctions \cup auctions' : By[a] = a.bidder BY <1>2 DEF By
<1>4. Part(auctions', By, q) = Part(auctions, By, q) BY <1>3 DEF Part
<1> QED BY <1>2, <1>4

\* Listing an item: only the owner pays.
LEMMA SellKeeps ==
    ASSUME Ready, NEW q \in Player, NEW p \in Player, NEW h \in House, NEW item \in Item,
           NEW bid, NEW buyout, NEW deposit, NEW etime,
           HandleAuctionSellItem(p, h, item, bid, buyout, deposit, etime)
    PROVE  Keeps(q)
<1> DEFINE a == [Id |-> nextId, house |-> h, item |-> item, owner |-> p, startbid |-> bid,
                 bid |-> 0, buyout |-> buyout, bidder |-> NoOne, deposit |-> deposit,
                 expireTime |-> now + etime]
<1>1. /\ auctions' = auctions \cup {a} /\ mails' = mails
      /\ money' = [money EXCEPT ![p] = ModifyMoney(@, Minus(deposit))]
  BY DEF HandleAuctionSellItem
<1>2. a.Id = nextId /\ a.owner = p /\ a.bidder = NoOne OBVIOUS
<1> HIDE DEF a
<1>3. CASE q = p BY <1>1, <1>2, <1>3 DEF Keeps, Excused
<1>4. CASE q # p
  <2>1. money'[q] = money[q] /\ money[q] \in Nat
    BY <1>1, <1>4, NumbersAssumption DEF Ready, Inv, TypeOK
  <2>2. money'[q] >= money[q] BY <2>1
  <2>3. \A c \in auctions \cup auctions' : c.bidder = q => c \in auctions /\ c \in auctions'
    BY <1>1, <1>2, GuidAssumption
  <2>4. Sum(Part(auctions', By, q), Stake) >= Sum(Part(auctions, By, q), Stake)
    BY <2>3, BidsStay
  <2>5. Sum(Part(mails', To, q), Gold) >= Sum(Part(mails, To, q), Gold)
    BY <1>1, LettersStay
  <2> QED BY <2>2, <2>4, <2>5, NoLess
<1> QED BY <1>3, <1>4

\* A bid below the buyout.
LEMMA PlaceBidKeeps ==
    ASSUME Ready, NEW q \in Player, NEW p \in Player, NEW a \in auctions, NEW price \in Nat,
           PlaceBid(p, a, price)
    PROVE  Keeps(q)
<1> DEFINE b == [a EXCEPT !.bidder = p, !.bid = price]
           d == BidPrice(p, a, price)
           rest == auctions \ {a}
<1>1. /\ auctions' = rest \cup {b} /\ mails' = mails \cup Refund(p, a) /\ CanBid(p, a, price)
      /\ money' = [money EXCEPT ![p] = ModifyMoney(@, Minus(d))]
  BY DEF PlaceBid
<1>2. TypeOK /\ GoldInv /\ TypeOK' /\ GoldInv' /\ Inv BY DEF Ready, Inv
<1>3. a \in AuctionEntry BY <1>2 DEF TypeOK
<1>4. b \in AuctionEntry /\ b.Id = a.Id /\ b.bid = price /\ b.bidder = p
  BY <1>3 DEF AuctionEntry
<1>5. a.bid \in Nat /\ a.bid < price BY <1>1, <1>3 DEF AuctionEntry, CanBid
<1>6. d \in Nat /\ d <= money[p] /\ d = IF p = a.bidder THEN price - a.bid ELSE price
  BY <1>1, <1>2, <1>5, PriceOfBid
<1>7. b \notin rest /\ rest \in SUBSET auctions
  BY <1>2, <1>4, <1>5 DEF Inv, ItemsOnce
<1> HIDE DEF b, d
<1>8. /\ Sum(Part(rest, By, q), Stake) \in Nat
      /\ Sum(Part(auctions, By, q), Stake)
           = Sum(Part(rest, By, q), Stake) + (IF a.bidder = q THEN a.bid ELSE 0)
  BY <1>2, BidsWithout
<1> HIDE DEF rest
<1>9. Sum(Part(auctions', By, q), Stake)
        = Sum(Part(rest, By, q), Stake) + (IF p = q THEN price ELSE 0)
  <2>1. rest \in SUBSET AuctionEntry /\ IsFiniteSet(rest)
    BY <1>2, <1>7, AuctionsShrink DEF TypeOK
  <2>2. Sum(Part(rest \cup {b}, By, q), Stake)
          = Sum(Part(rest, By, q), Stake) + (IF b.bidder = q THEN b.bid ELSE 0)
    BY <1>4, <1>7, <2>1, BidCounts
  <2> QED BY <1>1, <1>4, <2>2
<1>10. /\ money[q] \in Nat /\ money'[q] \in Nat
       /\ Sum(Part(mails, To, q), Gold) \in Nat /\ Sum(Part(mails', To, q), Gold) \in Nat
  BY <1>2, StepSums
<1>11. /\ money'[p] = money[p] - d
       /\ \A r \in Player : r # p => money'[r] = money[r]
  BY <1>1, <1>2, <1>6, BidderPays
<1>12. CASE q = p
  <2>1. Sum(Part(mails', To, q), Gold) >= Sum(Part(mails, To, q), Gold)
    BY <1>1, LettersStay
  <2>2. Mine(q)' >= Mine(q)
    <3>1. CASE a.bidder = p
      BY <1>5, <1>6, <1>8, <1>9, <1>10, <1>11, <1>12, <2>1, <3>1 DEF Mine
    <3>2. CASE a.bidder # p
      BY <1>5, <1>6, <1>8, <1>9, <1>10, <1>11, <1>12, <2>1, <3>2 DEF Mine
    <3> QED BY <3>1, <3>2
  <2> QED BY <2>2 DEF Keeps
<1>13. CASE q # p
  <2>1. CASE IsHardcore(q) BY <2>1 DEF Keeps, Excused
  <2>2. CASE ~IsHardcore(q)
    <3>1. mails \subseteq mails' /\ Refund(p, a) \subseteq mails' BY <1>1
    <3>2. Sum(Part(mails, To, q), Gold) + (IF a.bidder = q THEN a.bid ELSE 0)
            <= Sum(Part(mails', To, q), Gold)
      BY <1>2, <1>13, <2>2, <3>1, RefundPays
    <3>3. Mine(q)' >= Mine(q)
      BY <1>5, <1>8, <1>9, <1>10, <1>11, <1>13, <3>2 DEF Mine
    <3> QED BY <3>3 DEF Keeps
  <2> QED BY <2>1, <2>2
<1> QED BY <1>12, <1>13

\* Who wins an item gets it in a new letter.
LEMMA WonIsNew ==
    ASSUME Ready, NEW a \in auctions, NEW b, b.Id = a.Id, b.item = a.item, b.bidder \in Player,
           WonMail(b) \subseteq mails'
    PROVE  IsHardcore(b.bidder) \/ NewMail("won", b.bidder)
<1> SUFFICES ASSUME ~IsHardcore(b.bidder) PROVE NewMail("won", b.bidder)
  OBVIOUS
<1> DEFINE w == Letter(b, "won", b.bidder, 0, b.item)
<1>1. w.Id = a.Id /\ w.subject = "won" /\ w.to = b.bidder BY LetterFields
<1>2. b.item \in AItems BY DEF Ready, Inv, ItemsOnce
<1>3. WonMail(b) = {w} BY <1>2 DEF WonMail
<1> HIDE DEF w
<1>4. w \notin mails BY <1>1 DEF Ready, LettersInv, Final
<1> QED BY <1>1, <1>3, <1>4 DEF NewMail

\* A buyout.
LEMMA BuyoutKeeps ==
    ASSUME Ready, NEW q \in Player, NEW p \in Player, NEW a \in auctions, NEW price \in Nat,
           Buyout(p, a, price)
    PROVE  Keeps(q)
<1> DEFINE b == [a EXCEPT !.bidder = p, !.bid = a.buyout]
           d == BidPrice(p, a, a.buyout)
<1>1. /\ auctions' = auctions \ {a}
      /\ mails' = mails \cup Refund(p, a) \cup SuccessfulMail(b) \cup WonMail(b)
      /\ money' = [money EXCEPT ![p] = ModifyMoney(@, Minus(d))]
  BY DEF Buyout
<1>2. TypeOK /\ GoldInv /\ TypeOK' /\ GoldInv' /\ Inv BY DEF Ready, Inv
<1>3. a \in AuctionEntry BY <1>2 DEF TypeOK
<1>4. b.Id = a.Id /\ b.item = a.item /\ b.bidder = p BY <1>3 DEF AuctionEntry
<1>5. a.bid \in Nat BY <1>3 DEF AuctionEntry
<1> HIDE DEF b, d
<1>6. CASE q = p
  <2>1. IsHardcore(p) \/ NewMail("won", p) BY <1>1, <1>4, WonIsNew
  <2> QED BY <1>6, <2>1 DEF Keeps, Excused
<1>7. CASE q # p
  <2>1. CASE IsHardcore(q) BY <2>1 DEF Keeps, Excused
  <2>2. CASE ~IsHardcore(q)
    <3>1. mails \subseteq mails' /\ Refund(p, a) \subseteq mails' BY <1>1
    <3>2. Sum(Part(mails, To, q), Gold) + (IF a.bidder = q THEN a.bid ELSE 0)
            <= Sum(Part(mails', To, q), Gold)
      BY <1>2, <1>7, <2>2, <3>1, RefundPays
    <3>3. /\ Sum(Part(auctions', By, q), Stake) \in Nat
          /\ Sum(Part(auctions, By, q), Stake)
               = Sum(Part(auctions', By, q), Stake) + (IF a.bidder = q THEN a.bid ELSE 0)
      BY <1>1, <1>2, BidsWithout
    <3>4. /\ money[q] \in Nat /\ money'[q] \in Nat
          /\ Sum(Part(mails, To, q), Gold) \in Nat /\ Sum(Part(mails', To, q), Gold) \in Nat
      BY <1>2, StepSums
    <3>5. money'[q] = money[q] BY <1>1, <1>2, <1>7 DEF TypeOK
    <3>6. Mine(q)' >= Mine(q) BY <1>5, <3>2, <3>3, <3>4, <3>5 DEF Mine
    <3> QED BY <3>6 DEF Keeps
  <2> QED BY <2>1, <2>2
<1> QED BY <1>6, <1>7

\* The owner takes his item back: the bidder gets a letter with his bid.
LEMMA RemoveItemKeeps ==
    ASSUME Ready, NEW q \in Player, NEW p \in Player, NEW a \in auctions,
           HandleAuctionRemoveItem(p, a)
    PROVE  Keeps(q)
<1> DEFINE back == Letter(a, "returned", p, 0, a.item)
           refund == Letter(a, "cancelled", a.bidder, a.bid, NoItem)
<1>1. /\ auctions' = auctions \ {a} /\ mails \subseteq mails' /\ back \in mails'
      /\ a.bidder # NoOne => CancelledMail(a) \subseteq mails'
  BY DEF HandleAuctionRemoveItem
<1>2. TypeOK /\ GoldInv /\ TypeOK' /\ GoldInv' /\ Inv BY DEF Ready, Inv
<1>3. a \in AuctionEntry /\ a.bid \in Nat BY <1>2 DEF TypeOK, AuctionEntry
<1>4. CASE q = p
  <2>1. back.Id = a.Id /\ back.subject = "returned" /\ back.to = p BY LetterFields
  <2> HIDE DEF back
  <2>2. back \notin mails BY <2>1 DEF Ready, LettersInv, Final
  <2>3. NewMail("returned", p) BY <1>1, <2>1, <2>2 DEF NewMail
  <2> QED BY <1>4, <2>3 DEF Keeps, Excused
<1>5. CASE q # p
  <2>1. CASE IsHardcore(q) BY <2>1 DEF Keeps, Excused
  <2>2. CASE ~IsHardcore(q)
    <3>1. Sum(Part(mails, To, q), Gold) + (IF a.bidder = q THEN a.bid ELSE 0)
            <= Sum(Part(mails', To, q), Gold)
      <4>1. /\ mails' \in SUBSET MailType /\ IsFiniteSet(mails') /\ mails \in SUBSET mails'
            /\ Sum(Part(mails, To, q), Gold) \in Nat
        BY <1>1, <1>2, StepSums
      <4>2. CASE a.bidder # q
        <5>1. Sum(Part(mails, To, q), Gold) <= Sum(Part(mails', To, q), Gold)
          BY <4>1, LettersCount
        <5> QED BY <4>1, <4>2, <5>1
      <4>3. CASE a.bidder = q
        <5>1. /\ refund.to = q /\ refund.money = a.bid /\ refund.subject = "cancelled"
              /\ refund.Id = a.Id
          BY <4>3 DEF Letter
        <5>2. refund \in mails' BY <1>1, <2>2, <4>3, GuidAssumption DEF CancelledMail
        <5> HIDE DEF refund
        <5>3. refund \notin mails BY <1>2, <5>1, GoldInvParts DEF Due
        <5>4. Sum(Part(mails, To, q), Gold) + refund.money <= Sum(Part(mails', To, q), Gold)
          BY <4>1, <5>1, <5>2, <5>3, LettersCount
        <5> QED BY <4>3, <5>1, <5>4
      <4> QED BY <4>2, <4>3
    <3>2. /\ Sum(Part(auctions', By, q), Stake) \in Nat
          /\ Sum(Part(auctions, By, q), Stake)
               = Sum(Part(auctions', By, q), Stake) + (IF a.bidder = q THEN a.bid ELSE 0)
      BY <1>1, <1>2, BidsWithout
    <3>3. /\ money[q] \in Nat /\ money'[q] \in Nat
          /\ Sum(Part(mails, To, q), Gold) \in Nat /\ Sum(Part(mails', To, q), Gold) \in Nat
      BY <1>2, StepSums
    <3>4. money'[q] = money[q] BY <1>2, <1>5 DEF HandleAuctionRemoveItem, TypeOK
    <3>5. Mine(q)' >= Mine(q) BY <1>3, <3>1, <3>2, <3>3, <3>4 DEF Mine
    <3> QED BY <3>5 DEF Keeps
  <2> QED BY <2>1, <2>2
<1> QED BY <1>4, <1>5

\* Update: whoever bids for what is over wins it.
LEMMA UpdateKeeps ==
    ASSUME Ready, NEW q \in Player, Update
    PROVE  Keeps(q)
<1>1. /\ auctions' = auctions \ Expired /\ mails \subseteq mails' /\ money' = money
      /\ \A a \in Expired : ClosingMails(a) \subseteq mails'
  BY DEF Update
<1>2. Expired \subseteq auctions BY DEF Expired
<1>3. CASE \E a \in Expired : a.bidder = q
  <2>1. PICK a \in Expired : a.bidder = q BY <1>3
  <2>2. WonMail(a) \subseteq mails' BY <1>1, <2>1, GuidAssumption DEF ClosingMails
  <2>3. IsHardcore(q) \/ NewMail("won", q) BY <1>2, <2>1, <2>2, WonIsNew
  <2> QED BY <2>3 DEF Keeps, Excused
<1>4. CASE \A a \in Expired : a.bidder # q
  <2>1. \A a \in auctions \cup auctions' : a.bidder = q => a \in auctions /\ a \in auctions'
    BY <1>1, <1>4
  <2>2. Sum(Part(auctions', By, q), Stake) >= Sum(Part(auctions, By, q), Stake)
    BY <2>1, BidsStay
  <2>3. Sum(Part(mails', To, q), Gold) >= Sum(Part(mails, To, q), Gold) BY <1>1, LettersStay
  <2>4. money[q] \in Nat BY NumbersAssumption DEF Ready, Inv, TypeOK
  <2>5. money'[q] >= money[q] BY <1>1, <2>4
  <2> QED BY <2>2, <2>3, <2>5, NoLess
<1> QED BY <1>3, <1>4

\* Gold that is taken from a letter is in the purse; a letter with an item holds none.
LEMMA MailboxKeeps ==
    ASSUME Ready, NEW q \in Player, NEW m \in mails,
           HandleMailTakeMoney(m) \/ HandleMailTakeItem(m)
    PROVE  Keeps(q)
<1>1. mails' = mails \ {m} /\ auctions' = auctions
  BY DEF HandleMailTakeMoney, HandleMailTakeItem
<1>2. TypeOK /\ GoldInv /\ TypeOK' /\ GoldInv' BY DEF Ready, Inv
<1>3. /\ mails' \in SUBSET MailType /\ IsFiniteSet(mails') /\ m \in MailType
      /\ money[q] \in Nat /\ money'[q] \in Nat
      /\ Sum(Part(mails, To, q), Gold) \in Nat /\ Sum(Part(mails', To, q), Gold) \in Nat
      /\ Sum(Part(auctions, By, q), Stake) \in Nat
  BY <1>2, StepSums
<1>4. m.to \in Player /\ m.money \in Nat /\ m.money <= MaxMoney BY <1>2, <1>3 DEF MailType, GoldInv
<1>5. Sum(Part(mails, To, q), Gold)
        = Sum(Part(mails', To, q), Gold) + (IF m.to = q THEN m.money ELSE 0)
  <2>1. mails' \cup {m} = mails /\ m \notin mails' BY <1>1
  <2>2. Sum(Part(mails' \cup {m}, To, q), Gold)
          = Sum(Part(mails', To, q), Gold) + (IF m.to = q THEN m.money ELSE 0)
    BY <1>3, <2>1, LetterCounts
  <2> QED BY <2>1, <2>2
<1>6. CASE HandleMailTakeItem(m)
  <2>1. m.item # NoItem /\ money' = money BY <1>6 DEF HandleMailTakeItem
  <2>2. m.money = 0 BY <1>2, <2>1 DEF GoldInv
  <2>3. Mine(q)' >= Mine(q) BY <1>1, <1>3, <1>5, <2>1, <2>2 DEF Mine
  <2> QED BY <2>3 DEF Keeps
<1>7. CASE HandleMailTakeMoney(m)
  <2>1. money' = [money EXCEPT ![m.to] = ModifyMoney(@, m.money)]
    BY <1>7 DEF HandleMailTakeMoney
  <2>2. CASE m.to = q
    <3>1. money'[q] = ModifyMoney(money[q], m.money) BY <1>2, <2>1, <2>2 DEF TypeOK
    <3>2. money[q] <= MaxMoney BY <1>2 DEF GoldInv
    <3>3. money'[q] = money[q] + m.money \/ money'[q] = MaxMoney
      BY <1>3, <1>4, <3>1, <3>2, ReceiveExact
    <3>4. CASE money'[q] = MaxMoney BY <3>4 DEF Keeps, Excused
    <3>5. CASE money'[q] = money[q] + m.money
      <4>1. Mine(q)' >= Mine(q) BY <1>1, <1>3, <1>4, <1>5, <2>2, <3>5 DEF Mine
      <4> QED BY <4>1 DEF Keeps
    <3> QED BY <3>3, <3>4, <3>5
  <2>3. CASE m.to # q
    <3>1. money'[q] = money[q] BY <1>2, <2>1, <2>3 DEF TypeOK
    <3>2. Mine(q)' >= Mine(q) BY <1>1, <1>3, <1>5, <2>3, <3>1 DEF Mine
    <3> QED BY <3>2 DEF Keeps
  <2> QED BY <2>2, <2>3
<1> QED BY <1>6, <1>7

\* Entering hardcore mode harms the character himself and those who bid for his items.
LEMMA SetupKeeps ==
    ASSUME Ready, NEW q \in Player, NEW p \in Player, SetupHardcoreMode(p)
    PROVE  Keeps(q)
<1>1. /\ auctions' = {a \in auctions : a.owner # p \/ a.house # HomeHouse[p]}
      /\ mails' = mails /\ ~IsHardcore(p) /\ hardcore' = [hardcore EXCEPT ![p] = "asked"]
      /\ money' = [money EXCEPT ![p] = 0]
  BY DEF SetupHardcoreMode
<1>2. TypeOK /\ \A a, b \in auctions : a.Id = b.Id => a = b BY DEF Ready, Inv, ItemsOnce
<1>3. TurnsHardcore(p)
  <2>1. hardcore'[p] = "asked" BY <1>1, <1>2 DEF TypeOK
  <2> QED BY <1>1, <2>1 DEF TurnsHardcore, IsHardcore
<1>4. CASE q = p BY <1>3, <1>4 DEF Keeps, Excused
<1>5. CASE \E a \in auctions \ auctions' : a.bidder = q
  <2>1. PICK a \in auctions \ auctions' : a.bidder = q BY <1>5
  <2>2. a.owner = p BY <1>1, <2>1
  <2>3. a \in ClosedAuctions BY <1>1, <1>2, <2>1 DEF ClosedAuctions
  <2>4. \E c \in ClosedAuctions : c.bidder = q /\ TurnsHardcore(c.owner)
    BY <1>3, <2>1, <2>2, <2>3
  <2> QED BY <2>4 DEF Keeps, Excused
<1>6. CASE q # p /\ \A a \in auctions \ auctions' : a.bidder # q
  <2>1. \A a \in auctions \cup auctions' : a.bidder = q => a \in auctions /\ a \in auctions'
    BY <1>1, <1>6
  <2>2. Sum(Part(auctions', By, q), Stake) >= Sum(Part(auctions, By, q), Stake)
    BY <2>1, BidsStay
  <2>3. Sum(Part(mails', To, q), Gold) >= Sum(Part(mails, To, q), Gold) BY <1>1, LettersStay
  <2>4. money[q] \in Nat /\ money'[q] = money[q]
    BY <1>1, <1>2, <1>6, NumbersAssumption DEF TypeOK
  <2>5. money'[q] >= money[q] BY <2>4
  <2> QED BY <2>2, <2>3, <2>5, NoLess
<1> QED BY <1>4, <1>5, <1>6

\* The answer to the query deletes letters of the asking character only.
LEMMA QueryKeeps ==
    ASSUME Ready, NEW q \in Player, NEW p \in Player, HandleHardcoreMailQuery(p)
    PROVE  Keeps(q)
<1>1. /\ mails' \subseteq mails /\ \A m \in mails : m.to # p => m \in mails'
      /\ auctions' = auctions /\ money' = money /\ IsHardcore(p)
  BY DEF HandleHardcoreMailQuery, IsHardcore
<1>2. TypeOK /\ GoldInv /\ TypeOK' /\ GoldInv' BY DEF Ready, Inv
<1>3. CASE q = p BY <1>1, <1>3 DEF Keeps, Excused
<1>4. CASE q # p
  <2>1. /\ mails \in SUBSET MailType /\ money[q] \in Nat
        /\ Sum(Part(mails, To, q), Gold) \in Nat /\ Sum(Part(auctions, By, q), Stake) \in Nat
    BY <1>2, StepSums
  <2>2. Part(mails', To, q) = Part(mails, To, q)
    <3>1. \A m \in mails : To[m] = m.to BY <2>1 DEF To
    <3> QED BY <1>1, <1>4, <3>1 DEF Part
  <2>3. Mine(q)' = Mine(q) /\ Mine(q) \in Nat BY <1>1, <2>1, <2>2 DEF Mine
  <2> QED BY <2>3 DEF Keeps
<1> QED BY <1>3, <1>4

\* Every step keeps what bidders own.
LEMMA NextKeeps ==
    ASSUME Ready, [Next]_vars, NEW q \in Player
    PROVE  Keeps(q)
<1>1. CASE Sell BY <1>1, SellKeeps DEF Sell
<1>2. CASE Bid
  <2>1. PICK p \in Player, a \in auctions, price \in Prices : HandleAuctionPlaceBid(p, a, price)
    BY <1>2 DEF Bid
  <2>2. price \in Nat BY NumbersAssumption
  <2> QED BY <2>1, <2>2, PlaceBidKeeps, BuyoutKeeps DEF HandleAuctionPlaceBid
<1>3. CASE Cancel BY <1>3, RemoveItemKeeps DEF Cancel
<1>4. CASE Update BY <1>4, UpdateKeeps
<1>5. CASE Post BY <1>5, MailboxKeeps DEF Post
<1>6. CASE Hardcore BY <1>6, SetupKeeps, QueryKeeps DEF Hardcore
<1>7. CASE Tick \/ UNCHANGED vars
  <2>1. UNCHANGED <<money, auctions, mails>> BY <1>7 DEF Tick, vars
  <2>2. TypeOK /\ GoldInv /\ TypeOK' /\ GoldInv' BY DEF Ready, Inv
  <2>3. /\ money[q] \in Nat /\ Sum(Part(mails, To, q), Gold) \in Nat
        /\ Sum(Part(auctions, By, q), Stake) \in Nat
    BY <2>2, StepSums
  <2>4. Mine(q)' = Mine(q) /\ Mine(q) \in Nat BY <2>1, <2>3 DEF Mine
  <2> QED BY <2>4 DEF Keeps
<1> QED BY <1>1, <1>2, <1>3, <1>4, <1>5, <1>6, <1>7 DEF Next

\* Whoever is outbid, whose auction is cancelled or who raises his own bid gets every coin
\* back, in a letter that was not there before: the claim of a character falls only when
\* he wins an item, pays a deposit, takes back an item, is as rich as can be or the seller
\* enters hardcore mode.
THEOREM HouseKeepsBids ==
    ASSUME SmallPrices
    PROVE  Spec => BiddersKeepTheirGold
<1> DEFINE J == Inv /\ LettersInv /\ GoldInv
           E == \A p \in Player : Claim(p) = Mine(p)
           K == \A p \in Player : Keeps(p)
           G == \A p \in Player :
                   \/ Claim(p)' >= Claim(p)
                   \/ IsHardcore(p) \/ TurnsHardcore(p)
                   \/ NewMail("won", p) \/ NewMail("returned", p)
                   \/ \E a \in auctions' : a.Id = nextId /\ a.owner = p
                   \/ money'[p] = MaxMoney
                   \/ \E a \in ClosedAuctions : a.bidder = p /\ TurnsHardcore(a.owner)
<1>1. Init => J BY InitGold
<1>2. J /\ [Next]_vars => J'
  BY NextInv, NextLetters, NextGold
<1>3. J /\ J' /\ [Next]_vars => K BY NextKeeps DEF Ready
<1>4. J => E BY ClaimIs DEF Inv, Mine
<1>5. E /\ E' /\ K => G BY DEF Keeps, Excused
<1> HIDE DEF J, E, K, G
<1>6. Spec => [][G]_vars BY <1>1, <1>2, <1>3, <1>4, <1>5, PTL DEF Spec
<1> QED BY <1>6, PTL DEF BiddersKeepTheirGold, G
=============================================================================
