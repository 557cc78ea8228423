---------------------------- MODULE TradeProofs ----------------------------
(***************************************************************************)
(* Theorems about Trade.  The argument follows the pairs: a handler writes *)
(* the TradeData of one player and of his partner only, so it is enough to *)
(* know that the two records it writes fit each other (PairOK), and that   *)
(* nobody else is a partner of these two (Mutual).                         *)
(***************************************************************************)
EXTENDS Trade, FiniteSetTheorems, WellFoundedInduction, TLAPS

OfferOf(d) == <<d.money, d.items, d.spell>>

SideOK(a, b) ==
    /\ a.accepted => a.seen = <<OfferOf(a), OfferOf(b)>> /\ a.changed < a.acceptedAt
    /\ a.changed <= a.lastModificationTime
    /\ a.lastModificationTime <= now
    /\ a.changed = b.changed

\* Records a of player p and b of player q that may stand together.
PairOK(p, q, a, b) ==
    /\ a \in TradeData /\ b \in TradeData
    /\ a.trader = q /\ b.trader = p /\ p # q
    /\ SideOK(a, b) /\ SideOK(b, a)

WindowsType ==
    /\ now \in Nat
    /\ money \in [Player -> 0 .. MaxMoney]
    /\ trade \in [Player -> TradeData \cup {NoTrade}]

Inv == WindowsType /\ WindowsInv

\* NoTrade is no TradeData: its trader is no player.
LEMMA NoTradeApart == NoTrade \notin TradeData
  BY ItemAssumption DEF NoTrade, TradeData

\* The two records of a trade fit each other.
LEMMA PairOfTrade ==
  ASSUME Inv, NEW p \in Player, InTrade(p)
  PROVE  /\ Partner(p) \in Player
         /\ PairOK(p, Partner(p), trade[p], trade[Partner(p)])
<1> DEFINE q == Partner(p)
<1>1. q \in Player /\ q # p /\ InTrade(q) /\ Partner(q) = p
  BY DEF Inv, WindowsInv, Mutual
<1>2. trade[p] \in TradeData /\ trade[q] \in TradeData
  BY <1>1 DEF Inv, WindowsType, InTrade
<1>3. trade[p].trader = q /\ trade[q].trader = p
  BY <1>1 DEF Partner
<1>4. SideOK(trade[p], trade[q])
  <2>1. /\ trade[p].changed <= trade[p].lastModificationTime
        /\ trade[p].lastModificationTime <= now
        /\ trade[p].changed = trade[q].changed
    BY DEF Inv, WindowsInv
  <2>2. trade[p].accepted =>
          trade[p].seen = <<OfferOf(trade[p]), OfferOf(trade[q])>>
          /\ trade[p].changed < trade[p].acceptedAt
    BY DEF Inv, WindowsInv, AcceptedIsShown, AcceptedAfterLook, Window, Offer, OfferOf
  <2> QED  BY <2>1, <2>2 DEF SideOK
<1>5. SideOK(trade[q], trade[p])
  <2>1. /\ trade[q].changed <= trade[q].lastModificationTime
        /\ trade[q].lastModificationTime <= now
        /\ trade[q].changed = trade[p].changed
    BY <1>1 DEF Inv, WindowsInv
  <2>2. trade[q].accepted =>
          trade[q].seen = <<OfferOf(trade[q]), OfferOf(trade[p])>>
          /\ trade[q].changed < trade[q].acceptedAt
    BY <1>1 DEF Inv, WindowsInv, AcceptedIsShown, AcceptedAfterLook, Window, Offer, OfferOf
  <2> QED  BY <2>1, <2>2 DEF SideOK
<1> QED  BY <1>1, <1>2, <1>3, <1>4, <1>5 DEF PairOK

\* A step that writes two fitting records for a player and the one he trades with, or
\* is about to trade with, keeps the invariant.
LEMMA PairWritten ==
  ASSUME Inv, NEW p \in Player, NEW q \in Player, NEW a, NEW b,
         PairOK(p, q, a, b),
         \A r \in Player \ {p, q} : InTrade(r) => Partner(r) \notin {p, q},
         trade' = [trade EXCEPT ![p] = a, ![q] = b],
         now' = now, money' \in [Player -> 0 .. MaxMoney]
  PROVE  Inv'
<1>1. trade \in [Player -> TradeData \cup {NoTrade}] /\ p # q
  BY DEF Inv, WindowsType, PairOK
<1>2. trade'[p] = a /\ trade'[q] = b /\ \A r \in Player \ {p, q} : trade'[r] = trade[r]
  BY <1>1
<1>3. WindowsType'
  BY <1>1 DEF Inv, WindowsType, PairOK
<1>4. InTrade(p)' /\ InTrade(q)'
  BY <1>2, NoTradeApart DEF InTrade, PairOK
<1>5. Partner(p)' = q /\ Partner(q)' = p
  BY <1>2 DEF Partner, PairOK
<1>6. ASSUME NEW r \in Player \ {p, q}, InTrade(r)'
      PROVE  /\ InTrade(r) /\ Partner(r)' = Partner(r)
             /\ Partner(r) \in Player \ {p, q}
             /\ trade'[r] = trade[r] /\ trade'[Partner(r)] = trade[Partner(r)]
  <2>1. trade'[r] = trade[r] /\ InTrade(r)
    BY <1>2, <1>6 DEF InTrade
  <2>2. Partner(r) \in Player
    BY <2>1 DEF Inv, WindowsInv, Mutual
  <2> QED  BY <2>1, <2>2, <1>2 DEF Partner
<1>7. Mutual'
  <2>1. ASSUME NEW r \in Player \ {p, q}, InTrade(r)'
        PROVE  /\ Partner(r)' \in Player \ {r}
               /\ trade'[Partner(r)'] # NoTrade /\ trade'[Partner(r)'].trader = r
    <3>1. Partner(r) \in Player \ {r} /\ InTrade(Partner(r)) /\ Partner(Partner(r)) = r
      BY <1>6, <2>1 DEF Inv, WindowsInv, Mutual
    <3> QED  BY <1>6, <2>1, <3>1 DEF InTrade, Partner
  <2> QED  BY <1>1, <1>2, <1>4, <1>5, <2>1 DEF Mutual, InTrade, Partner
<1>8. ASSUME NEW r \in Player, InTrade(r)'
      PROVE  /\ trade'[r].accepted =>
                  trade'[r].seen = <<OfferOf(trade'[r]), OfferOf(trade'[Partner(r)'])>>
                  /\ trade'[r].changed < trade'[r].acceptedAt
             /\ trade'[r].changed <= trade'[r].lastModificationTime
             /\ trade'[r].lastModificationTime <= now'
             /\ trade'[r].changed = trade'[Partner(r)'].changed
  <2>1. CASE r = p
    BY <2>1, <1>2, <1>5 DEF PairOK, SideOK
  <2>2. CASE r = q
    BY <2>2, <1>2, <1>5 DEF PairOK, SideOK
  <2>3. CASE r \notin {p, q}
    <3>1. /\ InTrade(r) /\ Partner(r)' = Partner(r) /\ trade'[r] = trade[r]
          /\ trade'[Partner(r)] = trade[Partner(r)]
      BY <1>6, <1>8, <2>3
    <3>2. SideOK(trade[r], trade[Partner(r)])
      BY <3>1, PairOfTrade DEF PairOK
    <3> QED  BY <3>1, <3>2 DEF SideOK
  <2> QED  BY <2>1, <2>2, <2>3
<1>9. AcceptedIsShown' /\ AcceptedAfterLook'
  BY <1>8 DEF AcceptedIsShown, AcceptedAfterLook, Window, Offer, OfferOf
<1> QED  BY <1>3, <1>7, <1>8, <1>9 DEF Inv, WindowsInv

\* Nobody but the partner trades with a player.
LEMMA OthersApart ==
  ASSUME Inv, NEW p \in Player, InTrade(p)
  PROVE  \A r \in Player \ {p, Partner(p)} : InTrade(r) => Partner(r) \notin {p, Partner(p)}
  BY DEF Inv, WindowsInv, Mutual

\* SetAccepted(false) on one side.
LEMMA UnacceptedFits ==
  ASSUME NEW p, NEW q, NEW a, NEW b, PairOK(p, q, a, b)
  PROVE  PairOK(p, q, Unaccepted(a), b) /\ PairOK(p, q, a, Unaccepted(b))
  BY DEF PairOK, SideOK, TradeData, OfferOf, Unaccepted

\* SetLastModificationTime on both sides and SetAccepted(false) on the partner's.
LEMMA TouchedFit ==
  ASSUME Inv, NEW p \in Player, InTrade(p)
  PROVE  /\ PairOK(p, Partner(p), MineTouched(p), HisTouched(p))
         /\ MineTouched(p).lastModificationTime = now
         /\ HisTouched(p).lastModificationTime = now
<1>1. PairOK(p, Partner(p), trade[p], trade[Partner(p)]) /\ now \in Nat
  BY PairOfTrade DEF Inv, WindowsType
<1>2. ASSUME NEW a, NEW b, PairOK(p, Partner(p), a, b)
      PROVE  /\ PairOK(p, Partner(p), ModifiedAt(a, now), ModifiedAt(b, now))
             /\ ModifiedAt(a, now).lastModificationTime = now
             /\ ModifiedAt(b, now).lastModificationTime = now
  <2>1. ASSUME NEW d \in TradeData
        PROVE  /\ ModifiedAt(d, now) \in TradeData
               /\ ModifiedAt(d, now).trader = d.trader
               /\ ModifiedAt(d, now).accepted = d.accepted
               /\ ModifiedAt(d, now).seen = d.seen
               /\ ModifiedAt(d, now).changed = d.changed
               /\ ModifiedAt(d, now).acceptedAt = d.acceptedAt
               /\ ModifiedAt(d, now).lastModificationTime = now
               /\ OfferOf(ModifiedAt(d, now)) = OfferOf(d)
    BY <1>1 DEF ModifiedAt, TradeData, OfferOf
  <2>2. a.changed \in Nat /\ b.changed \in Nat
        /\ a.lastModificationTime \in Nat /\ b.lastModificationTime \in Nat
    BY <1>2 DEF PairOK, TradeData
  <2> QED  BY <1>1, <1>2, <2>1, <2>2 DEF PairOK, SideOK
<1>3. PairOK(p, Partner(p), trade[p], Unaccepted(trade[Partner(p)]))
  BY <1>1, UnacceptedFits
<1> QED
  BY <1>2, <1>3 DEF MineTouched, HisTouched

\* SetMoney takes both acceptances back when it changes anything.
LEMMA SetMoneyFits ==
  ASSUME now \in Nat, NEW p, NEW q, NEW a, NEW b, PairOK(p, q, a, b),
         a.lastModificationTime = now, b.lastModificationTime = now,
         NEW gold \in 0 .. MaxMoney
  PROVE  PairOK(p, q, SetMoney(a, b, gold)[1], SetMoney(a, b, gold)[2])
  BY DEF PairOK, SideOK, TradeData, OfferOf, SetMoney, Unaccepted

\* So does SetSpell.
LEMMA SetSpellFits ==
  ASSUME now \in Nat, NEW p, NEW q, NEW a, NEW b, PairOK(p, q, a, b),
         NEW spell \in SpellIds
  PROVE  PairOK(p, q, SetSpell(a, b, spell)[1], SetSpell(a, b, spell)[2])
  BY DEF PairOK, SideOK, TradeData, OfferOf, SetSpell, Unaccepted

\* And SetItem, with the spells it takes off.
LEMMA SetItemFits ==
  ASSUME now \in Nat, NEW p, NEW q, NEW a, NEW b, PairOK(p, q, a, b),
         a.lastModificationTime = now, b.lastModificationTime = now,
         NEW s \in Slots, NEW item \in Item \cup {NoItem}
  PROVE  PairOK(p, q, SetItem(a, b, s, item)[1], SetItem(a, b, s, item)[2])
<1>1. [a.items EXCEPT ![s] = item] \in SlotItems
  BY DEF PairOK, TradeData, SlotItems
<1>2. 0 \in SpellIds
  BY DEF SpellIds
<1> QED
  BY <1>1, <1>2 DEF PairOK, SideOK, TradeData, OfferOf, SetItem, Unaccepted

\* SetAccepted(true): the delay is counted in whole seconds, so the last change lies in
\* an earlier second.
LEMMA AcceptedFits ==
  ASSUME Inv, NEW p \in Player, BeginAccept(p)
  PROVE  PairOK(p, Partner(p), Accepted(p), trade[Partner(p)])
<1> DEFINE q == Partner(p)
<1>1. PairOK(p, q, trade[p], trade[q]) /\ now \in Nat
  BY PairOfTrade DEF Inv, WindowsType, BeginAccept
<1>2. trade[p].lastModificationTime < now
  BY <1>1 DEF BeginAccept, DelayOver, ScamPreventionDelay, PairOK, SideOK, TradeData
<1>3. Window(p) = <<OfferOf(trade[p]), OfferOf(trade[q])>>
  BY DEF Window, Offer, OfferOf
<1>4. OfferOf(trade[p]) \in Offers /\ OfferOf(trade[q]) \in Offers
  BY <1>1 DEF PairOK, TradeData, OfferOf, Offers
<1> DEFINE seen == <<OfferOf(trade[p]), OfferOf(trade[q])>>
<1>5. Accepted(p) =
        [[trade[p] EXCEPT !.lastModificationTime = now]
            EXCEPT !.accepted = TRUE, !.seen = seen, !.acceptedAt = now]
  BY <1>3, Zenon DEF Accepted, ModifiedAt
<1>6. Accepted(p) \in TradeData
  <2>1. seen \in Offers \X Offers
    BY <1>4
  <2> HIDE DEF seen
  <2> QED  BY <1>1, <1>5, <2>1 DEF PairOK, TradeData
<1>7. /\ Accepted(p).trader = trade[p].trader
      /\ Accepted(p).changed = trade[p].changed
      /\ Accepted(p).lastModificationTime = now
      /\ Accepted(p).acceptedAt = now
      /\ Accepted(p).seen = <<OfferOf(trade[p]), OfferOf(trade[q])>>
      /\ OfferOf(Accepted(p)) = OfferOf(trade[p])
  BY <1>1, <1>5 DEF PairOK, TradeData, OfferOf
<1> QED
  BY <1>1, <1>2, <1>6, <1>7, SMTT(30) DEF PairOK, SideOK, TradeData

\* A step that closes both windows of a trade keeps the invariant.
LEMMA PairClosed ==
  ASSUME Inv, NEW p \in Player, InTrade(p), NEW q, q = Partner(p),
         trade' = [trade EXCEPT ![p] = NoTrade, ![q] = NoTrade],
         now' = now, money' \in [Player -> 0 .. MaxMoney]
  PROVE  Inv'
<1>1. q \in Player /\ trade \in [Player -> TradeData \cup {NoTrade}]
  BY PairOfTrade DEF Inv, WindowsType
<1>2. ~InTrade(p)' /\ ~InTrade(q)'
  BY <1>1 DEF InTrade
<1>3. ASSUME NEW r \in Player, InTrade(r)'
      PROVE  /\ InTrade(r) /\ Partner(r) \in Player \ {r} /\ Partner(Partner(r)) = r
             /\ InTrade(Partner(r))
             /\ trade'[r] = trade[r] /\ trade'[Partner(r)] = trade[Partner(r)]
  <2>1. r \notin {p, q} /\ trade'[r] = trade[r] /\ InTrade(r)
    BY <1>1, <1>2, <1>3 DEF InTrade
  <2>2. Partner(r) \in Player \ {r} /\ InTrade(Partner(r)) /\ Partner(Partner(r)) = r
    BY <2>1 DEF Inv, WindowsInv, Mutual
  <2>3. Partner(r) \notin {p, q}
    BY <2>1, OthersApart
  <2> QED  BY <1>1, <2>1, <2>2, <2>3
<1>4. WindowsType'
  BY <1>1 DEF Inv, WindowsType
<1>5. \A r \in Player : InTrade(r)' =>
          /\ Partner(r)' = Partner(r) /\ Window(r)' = Window(r)
          /\ InTrade(r) /\ trade'[r] = trade[r] /\ trade'[Partner(r)] = trade[Partner(r)]
          /\ Partner(r) \in Player \ {r} /\ InTrade(Partner(r)) /\ Partner(Partner(r)) = r
  BY <1>3 DEF Window, Offer, Partner
<1>6. Mutual'
  <2> SUFFICES ASSUME NEW r \in Player, InTrade(r)'
               PROVE  /\ Partner(r)' \in Player \ {r}
                      /\ trade'[Partner(r)'] # NoTrade /\ trade'[Partner(r)'].trader = r
    BY DEF Mutual, InTrade, Partner
  <2>1. Partner(r)' = Partner(r) /\ trade'[Partner(r)] = trade[Partner(r)]
        /\ Partner(r) \in Player \ {r} /\ InTrade(Partner(r)) /\ Partner(Partner(r)) = r
    BY <1>5
  <2> QED  BY <2>1 DEF InTrade, Partner
<1>7. AcceptedIsShown' /\ AcceptedAfterLook'
  BY <1>5 DEF Inv, WindowsInv, AcceptedIsShown, AcceptedAfterLook
<1>8. \A r \in Player : InTrade(r)' =>
          /\ trade'[r].changed <= trade'[r].lastModificationTime
          /\ trade'[r].lastModificationTime <= now'
          /\ trade'[r].changed = trade'[Partner(r)'].changed
  <2> TAKE r \in Player
  <2> HAVE InTrade(r)'
  <2>1. Partner(r)' = Partner(r) /\ InTrade(r)
        /\ trade'[r] = trade[r] /\ trade'[Partner(r)] = trade[Partner(r)]
    BY <1>5
  <2>2. /\ trade[r].changed <= trade[r].lastModificationTime
        /\ trade[r].lastModificationTime <= now
        /\ trade[r].changed = trade[Partner(r)].changed
    BY <2>1 DEF Inv, WindowsInv
  <2> QED  BY <2>1, <2>2
<1> QED  BY <1>4, <1>6, <1>7, <1>8 DEF Inv, WindowsInv

\* A step that leaves the windows alone keeps the invariant.
LEMMA WindowsUntouched ==
  ASSUME Inv, trade' = trade, now' \in Nat, now <= now',
         money' \in [Player -> 0 .. MaxMoney]
  PROVE  Inv'
<1>1. ASSUME NEW r \in Player, InTrade(r)
      PROVE  trade[r].lastModificationTime <= now'
  <2>1. trade[r] \in TradeData /\ trade[r].lastModificationTime <= now /\ now \in Nat
    BY <1>1 DEF Inv, WindowsType, WindowsInv, InTrade
  <2> QED  BY <2>1 DEF TradeData
<1> QED
  BY <1>1 DEF Inv, WindowsType, WindowsInv, Mutual, AcceptedIsShown, AcceptedAfterLook,
              Window, Offer, Partner, InTrade

\* Gold stays between 0 and MAX_MONEY_AMOUNT.
LEMMA MoneyBounds ==
  ASSUME NEW gold \in 0 .. MaxMoney, NEW d \in 0 .. MaxMoney
  PROVE  Pay(gold, d) \in 0 .. MaxMoney /\ Receive(gold, d) \in 0 .. MaxMoney
  BY SizesAssumption DEF Pay, Receive

\* The handlers that change an offer, and the spell.
LEMMA OffersKeep ==
  ASSUME Inv, NEW p \in Player
  PROVE  /\ \A gold \in 0 .. MaxMoney : HandleSetTradeGold(p, gold) => Inv'
         /\ \A s \in Slots, item \in Item : HandleSetTradeItem(p, s, item) => Inv'
         /\ \A s \in Slots : HandleClearTradeItem(p, s) => Inv'
         /\ \A spell \in Spells : CastOnTradeItem(p, spell) => Inv'
         /\ HandleUnacceptTrade(p) => Inv'
<1>1. now \in Nat /\ money \in [Player -> 0 .. MaxMoney]
      /\ trade \in [Player -> TradeData \cup {NoTrade}]
  BY DEF Inv, WindowsType
<1>2. ASSUME NEW a, NEW b, InTrade(p), PairOK(p, Partner(p), a, b),
             trade' = [trade EXCEPT ![p] = a, ![Partner(p)] = b],
             UNCHANGED <<now, money>>
      PROVE  Inv'
  BY <1>1, <1>2, PairOfTrade, OthersApart, PairWritten
<1>3. ASSUME NEW gold \in 0 .. MaxMoney, HandleSetTradeGold(p, gold) PROVE Inv'
  <2>1. InTrade(p) /\ SetBoth(p, SetMoney(MineTouched(p), HisTouched(p), gold))
        /\ UNCHANGED <<now, money>>
    BY <1>3 DEF HandleSetTradeGold
  <2> QED  BY <1>1, <1>2, <2>1, TouchedFit, SetMoneyFits DEF SetBoth
<1>4. ASSUME NEW s \in Slots, NEW item \in Item \cup {NoItem}, InTrade(p),
             SetBoth(p, SetItem(MineTouched(p), HisTouched(p), s, item)),
             UNCHANGED <<now, money>>
      PROVE  Inv'
  BY <1>1, <1>2, <1>4, TouchedFit, SetItemFits DEF SetBoth
<1>5. ASSUME NEW s \in Slots, NEW item \in Item, HandleSetTradeItem(p, s, item) PROVE Inv'
  BY <1>4, <1>5 DEF HandleSetTradeItem
<1>6. ASSUME NEW s \in Slots, HandleClearTradeItem(p, s) PROVE Inv'
  BY <1>4, <1>6 DEF HandleClearTradeItem
<1>7. ASSUME NEW spell \in Spells, CastOnTradeItem(p, spell) PROVE Inv'
  <2>1. InTrade(p) /\ SetBoth(p, SetSpell(trade[p], trade[Partner(p)], spell))
        /\ UNCHANGED <<now, money>>
    BY <1>7 DEF CastOnTradeItem
  <2>2. spell \in SpellIds
    BY DEF SpellIds
  <2> QED  BY <1>1, <1>2, <2>1, <2>2, PairOfTrade, SetSpellFits DEF SetBoth
<1>8. ASSUME HandleUnacceptTrade(p) PROVE Inv'
  <2>1. InTrade(p) /\ UNCHANGED <<now, money>>
        /\ trade' = [trade EXCEPT ![p] = Unaccepted(trade[p])]
    BY <1>8 DEF HandleUnacceptTrade
  <2>2. Partner(p) \in Player /\ Partner(p) # p
        /\ PairOK(p, Partner(p), Unaccepted(trade[p]), trade[Partner(p)])
    BY <2>1, PairOfTrade, UnacceptedFits DEF PairOK
  <2>3. trade' = [trade EXCEPT ![p] = Unaccepted(trade[p]), ![Partner(p)] = trade[Partner(p)]]
    BY <1>1, <2>1, <2>2
  <2> QED  BY <1>2, <2>1, <2>2, <2>3
<1> QED  BY <1>3, <1>5, <1>6, <1>7, <1>8

\* HandleAcceptTradeOpcode, branch by branch.
LEMMA AcceptKeeps ==
  ASSUME Inv, NEW p \in Player, HandleAcceptTrade(p)
  PROVE  Inv'
<1>1. now \in Nat /\ money \in [Player -> 0 .. MaxMoney]
      /\ trade \in [Player -> TradeData \cup {NoTrade}]
  BY DEF Inv, WindowsType
<1>2. PICK q : q = Partner(p)
  OBVIOUS
<1>3. InTrade(p) /\ BeginAccept(p)
  BY DEF HandleAcceptTrade, AcceptRefused, AcceptWithdrawn, AcceptPartnerShort, AcceptFirst,
         AcceptSpellFails, AcceptNoSpace, AcceptComplete, BothAccept, BeginAccept
<1>4. q \in Player /\ q # p /\ PairOK(p, q, trade[p], trade[q])
  BY <1>2, <1>3, PairOfTrade DEF PairOK
<1>5. PairOK(p, q, Accepted(p), trade[q])
  BY <1>2, <1>3, AcceptedFits
<1>6. ASSUME NEW a, NEW b, PairOK(p, q, a, b),
             trade' = [trade EXCEPT ![p] = a, ![q] = b], UNCHANGED <<now, money>>
      PROVE  Inv'
  BY <1>1, <1>2, <1>3, <1>4, <1>6, OthersApart, PairWritten
<1>7. ASSUME NEW a, PairOK(p, q, a, trade[q]),
             trade' = [trade EXCEPT ![p] = a], UNCHANGED <<now, money>>
      PROVE  Inv'
  <2>1. trade' = [trade EXCEPT ![p] = a, ![q] = trade[q]]
    BY <1>1, <1>4, <1>7
  <2> QED  BY <1>6, <1>7, <2>1
<1>8. CASE AcceptRefused(p) \/ AcceptFirst(p)
  BY <1>5, <1>7, <1>8 DEF AcceptRefused, AcceptFirst
<1>9. CASE AcceptWithdrawn(p)
  BY <1>5, <1>7, <1>9, UnacceptedFits DEF AcceptWithdrawn
<1>10. CASE AcceptPartnerShort(p)
  BY <1>2, <1>5, <1>6, <1>10, UnacceptedFits DEF AcceptPartnerShort
<1>11. CASE AcceptSpellFails(p)
  <2>1. 0 \in SpellIds /\ UNCHANGED <<now, money>>
    BY <1>11 DEF SpellIds, AcceptSpellFails
  <2>2. CASE SetBoth(p, SetSpell(Accepted(p), trade[q], 0))
    BY <1>1, <1>2, <1>5, <1>6, <2>1, <2>2, SetSpellFits DEF SetBoth
  <2>3. CASE SetBoth(p, <<SetSpell(trade[q], Accepted(p), 0)[2],
                          SetSpell(trade[q], Accepted(p), 0)[1]>>)
    <3>1. PairOK(q, p, trade[q], Accepted(p))
      BY <1>5 DEF PairOK
    <3>2. PairOK(q, p, SetSpell(trade[q], Accepted(p), 0)[1],
                       SetSpell(trade[q], Accepted(p), 0)[2])
      BY <1>1, <2>1, <3>1, SetSpellFits
    <3>3. PairOK(p, q, SetSpell(trade[q], Accepted(p), 0)[2],
                       SetSpell(trade[q], Accepted(p), 0)[1])
      BY <3>2 DEF PairOK
    <3> QED  BY <1>2, <1>6, <2>1, <2>3, <3>3 DEF SetBoth
  <2> QED  BY <1>2, <1>11, <2>2, <2>3 DEF AcceptSpellFails
<1>12. CASE AcceptNoSpace(p)
  <2>1. PairOK(p, q, Unaccepted(Accepted(p)), Unaccepted(trade[q]))
    BY <1>5, UnacceptedFits
  <2>2. PairOK(p, q, Unaccepted(Accepted(p)), ModifiedAt(Unaccepted(trade[q]), now))
    BY <1>1, <2>1, SMTT(30) DEF PairOK, SideOK, TradeData, OfferOf, ModifiedAt
  <2> QED  BY <1>2, <1>6, <1>12, <2>2 DEF AcceptNoSpace
<1>13. CASE AcceptComplete(p)
  <2>1. trade' = [trade EXCEPT ![p] = NoTrade, ![q] = NoTrade] /\ now' = now
    BY <1>2, <1>13 DEF AcceptComplete
  <2>2. trade[p].money \in 0 .. MaxMoney /\ trade[q].money \in 0 .. MaxMoney
    BY <1>4 DEF PairOK, TradeData
  <2>3. \A g \in 0 .. MaxMoney :
           /\ Receive(Pay(g, trade[p].money), trade[q].money) \in 0 .. MaxMoney
           /\ Receive(Pay(g, trade[q].money), trade[p].money) \in 0 .. MaxMoney
    BY <2>2, MoneyBounds
  <2>4. money' \in [Player -> 0 .. MaxMoney]
    BY <1>1, <1>2, <1>4, <1>13, <2>3 DEF AcceptComplete
  <2> QED  BY <1>2, <1>3, <2>1, <2>4, PairClosed
<1> QED  BY <1>8, <1>9, <1>10, <1>11, <1>12, <1>13 DEF HandleAcceptTrade

\* Every step keeps the invariant.
LEMMA StepKeeps == Inv /\ [Next]_vars => Inv'
<1> SUFFICES ASSUME Inv, [Next]_vars PROVE Inv'
  OBVIOUS
<1>1. now \in Nat /\ money \in [Player -> 0 .. MaxMoney]
  BY DEF Inv, WindowsType
<1>2. ASSUME NEW p \in Player, NEW q \in Player, HandleInitiateTrade(p, q) PROVE Inv'
  <2>1. p # q /\ ~InTrade(p) /\ ~InTrade(q) /\ UNCHANGED <<now, money>>
        /\ trade' = [trade EXCEPT ![p] = NewTradeData(q), ![q] = NewTradeData(p)]
    BY <1>2 DEF HandleInitiateTrade
  <2>2. \A r \in Player \ {p, q} : InTrade(r) => Partner(r) \notin {p, q}
    BY <2>1 DEF Inv, WindowsInv, Mutual
  <2>3. 0 \in SpellIds /\ [s \in Slots |-> NoItem] \in SlotItems /\ 0 \in 0 .. MaxMoney
    BY SizesAssumption DEF SpellIds, SlotItems
  <2>4. NewTradeData(q) \in TradeData /\ NewTradeData(p) \in TradeData
    BY <2>3 DEF NewTradeData, TradeData
  <2>5. PairOK(p, q, NewTradeData(q), NewTradeData(p))
    BY <1>1, <2>1, <2>4 DEF PairOK, SideOK, NewTradeData
  <2> QED  BY <1>1, <2>1, <2>2, <2>5, PairWritten
<1>3. ASSUME NEW p \in Player, TradeCancel(p) PROVE Inv'
  BY <1>1, <1>3, PairClosed DEF TradeCancel
<1>4. ASSUME Windows PROVE Inv'
  BY <1>2, <1>3, <1>4, OffersKeep, AcceptKeeps DEF Windows
<1>5. ASSUME NEW p \in Player, NEW d \in 1 .. MaxMoney, SpendMoney(p, d) \/ EarnMoney(p, d)
      PROVE  Inv'
  <2>1. \A g \in 0 .. MaxMoney : Pay(g, d) \in 0 .. MaxMoney /\ Receive(g, d) \in 0 .. MaxMoney
    BY MoneyBounds
  <2>2. money' \in [Player -> 0 .. MaxMoney] /\ trade' = trade /\ now' = now
    BY <1>1, <1>5, <2>1 DEF SpendMoney, EarnMoney
  <2> QED  BY <1>1, <2>2, WindowsUntouched
<1>6. ASSUME NEW p \in Player, NEW item \in Item, LoseItem(p, item) \/ GainItem(p, item)
      PROVE  Inv'
  BY <1>1, <1>6, WindowsUntouched DEF LoseItem, GainItem
<1>7. ASSUME Tick PROVE Inv'
  BY <1>1, <1>7, WindowsUntouched DEF Tick
<1>8. ASSUME UNCHANGED vars PROVE Inv'
  BY <1>1, <1>8, WindowsUntouched DEF vars
<1> QED  BY <1>4, <1>5, <1>6, <1>7, <1>8 DEF Next, World

\* The invariant of the proof holds of the specification.
LEMMA InvHolds == Spec => []Inv
<1>1. Init => Inv
  BY SizesAssumption DEF Init, Inv, WindowsType, WindowsInv, Mutual, AcceptedIsShown, AcceptedAfterLook,
         InTrade
<1> QED  BY <1>1, StepKeeps, PTL DEF Spec

\* Whatever the players do, trades come in pairs, what a player has accepted is what
\* both sides offer, and he accepted it in a later second than the last change: for any
\* number of players, items, slots, spells and any amounts of gold.
THEOREM WindowsSafe == Spec => [](Mutual /\ AcceptedIsShown /\ AcceptedAfterLook)
<1>1. Inv => Mutual /\ AcceptedIsShown /\ AcceptedAfterLook
  BY DEF Inv, WindowsInv
<1> QED  BY <1>1, InvHolds, PTL

\* Accepting makes no gold, and loses some only where a purse reaches its bound: both
\* sides' gold is tested again when a trade completes, so that ModifyMoney never stops
\* at 0.
THEOREM GoldIsKept == Spec => GoldKept
<1>1. ASSUME Inv, NEW p \in Player, HandleAcceptTrade(p)
      PROVE  LET q == Partner(p)
                 before == money[p] + money[q]
                 after == money'[p] + money'[q]
             IN  /\ after <= before
                 /\ after < before => MaxMoney \in {money'[p], money'[q]}
  <2>1. PICK q : q = Partner(p)
    OBVIOUS
  <2>2. InTrade(p)
    BY <1>1 DEF HandleAcceptTrade, AcceptRefused, AcceptWithdrawn, AcceptPartnerShort, AcceptFirst,
           AcceptSpellFails, AcceptNoSpace, AcceptComplete, BothAccept, BeginAccept
  <2>3. q \in Player /\ q # p /\ PairOK(p, q, trade[p], trade[q])
    BY <1>1, <2>1, <2>2, PairOfTrade DEF PairOK
  <2>4. money \in [Player -> 0 .. MaxMoney]
    BY <1>1 DEF Inv, WindowsType
  <2>5. CASE UNCHANGED money
    BY <2>1, <2>3, <2>4, <2>5, SizesAssumption
  <2>6. CASE AcceptComplete(p)
    <3>1. trade[p].money \in 0 .. money[p] /\ trade[q].money \in 0 .. money[q]
      BY <2>1, <2>3, <2>4, <2>6, SizesAssumption
         DEF AcceptComplete, BothAccept, PaysFor, PairOK, TradeData
    <3>2. /\ money'[p] = Receive(Pay(money[p], trade[p].money), trade[q].money)
          /\ money'[q] = Receive(Pay(money[q], trade[q].money), trade[p].money)
      BY <2>1, <2>3, <2>4, <2>6 DEF AcceptComplete
    <3>3. /\ Pay(money[p], trade[p].money) = money[p] - trade[p].money
          /\ Pay(money[q], trade[q].money) = money[q] - trade[q].money
      BY <2>3, <2>4, <3>1, SizesAssumption DEF Pay
    <3> QED  BY <2>1, <2>3, <2>4, <3>1, <3>2, <3>3, SizesAssumption DEF Receive
  <2> QED
    BY <1>1, <2>5, <2>6 DEF HandleAcceptTrade, AcceptRefused, AcceptWithdrawn, AcceptPartnerShort,
       AcceptFirst, AcceptSpellFails, AcceptNoSpace
<1>2. Inv /\ [Next]_vars =>
        [\A p \in Player : money' # money /\ trade' # trade /\ HandleAcceptTrade(p) =>
          LET q == Partner(p)
              before == money[p] + money[q]
              after == money'[p] + money'[q]
          IN  /\ after <= before
              /\ after < before => MaxMoney \in {money'[p], money'[q]}]_vars
  BY <1>1
<1> QED  BY <1>2, InvHolds, PTL DEF Spec, GoldKept

\* Trades come in pairs: a window is never left behind, whichever side cancels, moves
\* away, logs out or completes first.
THEOREM TradesArePairs == Spec => []Mutual
  BY WindowsSafe, PTL

\* Nobody's acceptance holds in the second in which an offer was changed
\* (scamPreventionDelay).
THEOREM LookedBeforeAccepting == Spec => []AcceptedAfterLook
  BY WindowsSafe, PTL

-----------------------------------------------------------------------------
(***************************************************************************)
(* Items                                                                   *)
(*                                                                         *)
(* An item is in one slot of a window at most: HandleSetTradeItem refuses  *)
(* one that is there already.  So moveItems never meets an item twice, the *)
(* places that CanStoreItems counted suffice up to the last slot, and the  *)
(* bags stay in order (BagsOK) also where items come back.                 *)
(***************************************************************************)
OneSlot(d) ==
    \A s, t \in Slots : d.items[s] = d.items[t] /\ d.items[s] # NoItem => s = t

SlotsInv == \A p \in Player : InTrade(p) => OneSlot(trade[p])

ItemsInv == inv \in [Player -> SUBSET Item] /\ ItemsOnce

\* Induction over the slots.
LEMMA SetInduction ==
  ASSUME NEW S \in SUBSET Nat, 0 \in S, \A n \in Nat : n \in S => n + 1 \in S
  PROVE  Nat \subseteq S
<1> SUFFICES ASSUME Nat \ S # {}  PROVE  FALSE
  OBVIOUS
<1>1. PICK x \in Nat \ S : \A y \in Nat \ S : ~ (<<y, x>> \in OpToRel(<, Nat))
  BY NatLessThanWellFounded, WFMin
<1>2. \A y \in Nat \ S : ~(y < x)
  BY <1>1 DEF OpToRel
<1>3. x \in Nat /\ x \notin S
  OBVIOUS
<1>4. x - 1 \in Nat /\ x # 0
  BY <1>3
<1>5. x - 1 \in S
  BY <1>2, <1>4
<1>6. (x - 1) + 1 \in S
  BY <1>4, <1>5
<1> QED  BY <1>3, <1>4, <1>6

\* The handlers write records with an item in one slot at most.
LEMMA SlotsWritten ==
  ASSUME Inv, SlotsInv, NEW p \in Player, NEW q \in Player, NEW a, NEW b,
         trade' = [trade EXCEPT ![p] = a, ![q] = b],
         a = NoTrade \/ OneSlot(a), b = NoTrade \/ OneSlot(b)
  PROVE  SlotsInv'
<1>1. trade \in [Player -> TradeData \cup {NoTrade}]
  BY DEF Inv, WindowsType
<1>2. \A r \in Player : trade'[r] = trade[r] \/ trade'[r] = a \/ trade'[r] = b
  BY <1>1
<1> QED  BY <1>2 DEF SlotsInv, InTrade

\* What does not change the items keeps them in one slot each.
LEMMA SameItems ==
  ASSUME NEW d \in TradeData
  PROVE  /\ Unaccepted(d).items = d.items /\ Unaccepted(d) \in TradeData
         /\ \A t \in Nat : ModifiedAt(d, t).items = d.items /\ ModifiedAt(d, t) \in TradeData
BY DEF Unaccepted, ModifiedAt, TradeData

\* TradeData::SetItem and SetMoney never put one item into two slots.
LEMMA SetKeepsSlots ==
  ASSUME now \in Nat, NEW a \in TradeData, NEW b \in TradeData, OneSlot(a), OneSlot(b)
  PROVE  /\ \A gold \in 0 .. MaxMoney :
               OneSlot(SetMoney(a, b, gold)[1]) /\ OneSlot(SetMoney(a, b, gold)[2])
         /\ \A spell \in SpellIds :
               OneSlot(SetSpell(a, b, spell)[1]) /\ OneSlot(SetSpell(a, b, spell)[2])
         /\ \A s \in Slots, item \in Item \cup {NoItem} :
               (\A t \in Slots : a.items[t] = item => item = NoItem) =>
                   OneSlot(SetItem(a, b, s, item)[1]) /\ OneSlot(SetItem(a, b, s, item)[2])
<1>1. ASSUME NEW gold \in 0 .. MaxMoney
      PROVE  OneSlot(SetMoney(a, b, gold)[1]) /\ OneSlot(SetMoney(a, b, gold)[2])
  <2>1. SetMoney(a, b, gold)[1].items = a.items /\ SetMoney(a, b, gold)[2].items = b.items
    BY DEF SetMoney, Unaccepted, TradeData
  <2> QED  BY <2>1 DEF OneSlot
<1>2. ASSUME NEW spell \in SpellIds
      PROVE  OneSlot(SetSpell(a, b, spell)[1]) /\ OneSlot(SetSpell(a, b, spell)[2])
  <2>1. SetSpell(a, b, spell)[1].items = a.items /\ SetSpell(a, b, spell)[2].items = b.items
    BY DEF SetSpell, Unaccepted, TradeData
  <2> QED  BY <2>1 DEF OneSlot
<1>3. ASSUME NEW s \in Slots, NEW item \in Item \cup {NoItem},
             \A t \in Slots : a.items[t] = item => item = NoItem
      PROVE  OneSlot(SetItem(a, b, s, item)[1]) /\ OneSlot(SetItem(a, b, s, item)[2])
  <2>1. /\ \/ SetItem(a, b, s, item)[1].items = a.items
           \/ SetItem(a, b, s, item)[1].items = [a.items EXCEPT ![s] = item]
        /\ SetItem(a, b, s, item)[2].items = b.items
    BY DEF SetItem, Unaccepted, TradeData
  <2>2. a.items \in SlotItems
    BY DEF TradeData
  <2>3. ASSUME NEW t \in Slots, NEW u \in Slots,
               [a.items EXCEPT ![s] = item][t] = [a.items EXCEPT ![s] = item][u],
               [a.items EXCEPT ![s] = item][t] # NoItem
        PROVE  t = u
    BY <1>3, <2>2, <2>3 DEF OneSlot, SlotItems
  <2> QED  BY <2>1, <2>3 DEF OneSlot
<1> QED  BY <1>1, <1>2, <1>3

\* Every step keeps it so.
LEMMA SlotsStep == Inv /\ SlotsInv /\ [Next]_vars => SlotsInv'
<1> SUFFICES ASSUME Inv, SlotsInv, [Next]_vars  PROVE  SlotsInv'
  OBVIOUS
<1>0. now \in Nat /\ trade \in [Player -> TradeData \cup {NoTrade}]
  BY DEF Inv, WindowsType
<1>1. CASE UNCHANGED trade
  BY <1>1 DEF SlotsInv, InTrade
<1>2. ASSUME NEW p \in Player, NEW q \in Player, HandleInitiateTrade(p, q)  PROVE  SlotsInv'
  <2>1. trade' = [trade EXCEPT ![p] = NewTradeData(q), ![q] = NewTradeData(p)]
    BY <1>2 DEF HandleInitiateTrade
  <2>2. OneSlot(NewTradeData(p)) /\ OneSlot(NewTradeData(q))
    BY DEF OneSlot, NewTradeData
  <2> QED  BY <2>1, <2>2, SlotsWritten
<1>3. ASSUME NEW p \in Player, InTrade(p)
      PROVE  /\ Partner(p) \in Player /\ trade[p] \in TradeData /\ trade[Partner(p)] \in TradeData
             /\ OneSlot(trade[p]) /\ OneSlot(trade[Partner(p)])
             /\ MineTouched(p) \in TradeData /\ MineTouched(p).items = trade[p].items
             /\ OneSlot(MineTouched(p))
             /\ HisTouched(p) \in TradeData /\ OneSlot(HisTouched(p))
  <2>1. Partner(p) \in Player /\ trade[p] \in TradeData /\ trade[Partner(p)] \in TradeData
    BY <1>3, PairOfTrade DEF PairOK
  <2>2. OneSlot(trade[p]) /\ OneSlot(trade[Partner(p)])
    BY <1>3, <2>1, NoTradeApart DEF SlotsInv, InTrade
  <2>3. /\ MineTouched(p) \in TradeData /\ MineTouched(p).items = trade[p].items
        /\ HisTouched(p) \in TradeData /\ HisTouched(p).items = trade[Partner(p)].items
    BY <1>0, <2>1, SameItems DEF MineTouched, HisTouched
  <2> QED  BY <2>1, <2>2, <2>3 DEF OneSlot
<1>4. ASSUME NEW p \in Player, TradeCancel(p) \/ AcceptComplete(p)  PROVE  SlotsInv'
  <2>1. InTrade(p) /\ trade' = [trade EXCEPT ![p] = NoTrade, ![Partner(p)] = NoTrade]
    BY <1>4 DEF TradeCancel, AcceptComplete, BothAccept, BeginAccept
  <2> QED  BY <1>3, <2>1, SlotsWritten
<1>5. ASSUME NEW p \in Player, NEW gold \in 0 .. MaxMoney, HandleSetTradeGold(p, gold)
      PROVE  SlotsInv'
  <2>1. InTrade(p) /\ SetBoth(p, SetMoney(MineTouched(p), HisTouched(p), gold))
    BY <1>5 DEF HandleSetTradeGold
  <2>2. trade' = [trade EXCEPT ![p] = SetMoney(MineTouched(p), HisTouched(p), gold)[1],
                               ![Partner(p)] = SetMoney(MineTouched(p), HisTouched(p), gold)[2]]
    BY <2>1 DEF SetBoth
  <2>3. /\ OneSlot(SetMoney(MineTouched(p), HisTouched(p), gold)[1])
        /\ OneSlot(SetMoney(MineTouched(p), HisTouched(p), gold)[2])
    BY <1>0, <1>3, <2>1, SetKeepsSlots
  <2>4. Partner(p) \in Player
    BY <1>3, <2>1
  <2> QED  BY <2>2, <2>3, <2>4, SlotsWritten
<1>6. ASSUME NEW p \in Player, NEW s \in Slots, NEW item \in Item \cup {NoItem}, InTrade(p),
             SetBoth(p, SetItem(MineTouched(p), HisTouched(p), s, item)),
             \A t \in Slots : trade[p].items[t] = item => item = NoItem
      PROVE  SlotsInv'
  <2>1. \A t \in Slots : MineTouched(p).items[t] = item => item = NoItem
    BY <1>3, <1>6
  <2>2. trade' = [trade EXCEPT ![p] = SetItem(MineTouched(p), HisTouched(p), s, item)[1],
                               ![Partner(p)] = SetItem(MineTouched(p), HisTouched(p), s, item)[2]]
    BY <1>6 DEF SetBoth
  <2>3. /\ OneSlot(SetItem(MineTouched(p), HisTouched(p), s, item)[1])
        /\ OneSlot(SetItem(MineTouched(p), HisTouched(p), s, item)[2])
    BY <1>0, <1>3, <1>6, <2>1, SetKeepsSlots
  <2>4. Partner(p) \in Player
    BY <1>3, <1>6
  <2> QED  BY <2>2, <2>3, <2>4, SlotsWritten
<1>7. ASSUME NEW p \in Player, NEW s \in Slots, NEW item \in Item, HandleSetTradeItem(p, s, item)
      PROVE  SlotsInv'
  BY <1>6, <1>7 DEF HandleSetTradeItem, HasItem
<1>8. ASSUME NEW p \in Player, NEW s \in Slots, HandleClearTradeItem(p, s)  PROVE  SlotsInv'
  BY <1>6, <1>8 DEF HandleClearTradeItem
<1>9. ASSUME NEW p \in Player, NEW spell \in Spells, CastOnTradeItem(p, spell)  PROVE  SlotsInv'
  <2>1. InTrade(p) /\ SetBoth(p, SetSpell(trade[p], trade[Partner(p)], spell)) /\ spell \in SpellIds
    BY <1>9 DEF CastOnTradeItem, SpellIds
  <2>2. trade' = [trade EXCEPT ![p] = SetSpell(trade[p], trade[Partner(p)], spell)[1],
                               ![Partner(p)] = SetSpell(trade[p], trade[Partner(p)], spell)[2]]
    BY <2>1 DEF SetBoth
  <2>3. /\ OneSlot(SetSpell(trade[p], trade[Partner(p)], spell)[1])
        /\ OneSlot(SetSpell(trade[p], trade[Partner(p)], spell)[2])
    BY <1>0, <1>3, <2>1, SetKeepsSlots
  <2>4. Partner(p) \in Player
    BY <1>3, <2>1
  <2> QED  BY <2>2, <2>3, <2>4, SlotsWritten
<1>10. ASSUME NEW p \in Player, NEW a, InTrade(p), OneSlot(a), trade' = [trade EXCEPT ![p] = a]
       PROVE  SlotsInv'
  <2>1. trade' = [trade EXCEPT ![p] = a, ![p] = a]
    BY <1>0, <1>10
  <2> QED  BY <1>10, <2>1, SlotsWritten
<1>11. ASSUME NEW p \in Player, BeginAccept(p)
       PROVE  /\ InTrade(p) /\ OneSlot(Accepted(p)) /\ Accepted(p) \in TradeData
              /\ OneSlot(Unaccepted(Accepted(p)))
  <2>1. InTrade(p) /\ Accepted(p) \in TradeData
    BY <1>11, AcceptedFits DEF BeginAccept, PairOK
  <2>2. Accepted(p).items = trade[p].items
    BY <1>3, <2>1 DEF Accepted, ModifiedAt, TradeData
  <2>3. Unaccepted(Accepted(p)).items = trade[p].items
    BY <2>1, <2>2, SameItems
  <2> QED  BY <1>3, <2>1, <2>2, <2>3 DEF OneSlot
<1>12. ASSUME NEW p \in Player, HandleUnacceptTrade(p)  PROVE  SlotsInv'
  <2>1. InTrade(p) /\ trade' = [trade EXCEPT ![p] = Unaccepted(trade[p])]
    BY <1>12 DEF HandleUnacceptTrade
  <2>2. OneSlot(Unaccepted(trade[p]))
    BY <1>3, <2>1, SameItems DEF OneSlot
  <2> QED  BY <1>10, <2>1, <2>2
<1>13. ASSUME NEW p \in Player, AcceptRefused(p) \/ AcceptFirst(p) \/ AcceptWithdrawn(p)
       PROVE  SlotsInv'
  BY <1>10, <1>11, <1>13 DEF AcceptRefused, AcceptFirst, AcceptWithdrawn
<1>14. ASSUME NEW p \in Player, AcceptPartnerShort(p) \/ AcceptNoSpace(p)  PROVE  SlotsInv'
  <2>1. BeginAccept(p)
    BY <1>14 DEF AcceptPartnerShort, AcceptNoSpace, BothAccept
  <2>2. /\ Partner(p) \in Player /\ Partner(p) # p
        /\ trade[Partner(p)] \in TradeData /\ OneSlot(trade[Partner(p)])
    BY <1>3, <1>11, <2>1, PairOfTrade DEF PairOK
  <2>3. /\ OneSlot(Unaccepted(trade[Partner(p)]))
        /\ OneSlot(ModifiedAt(Unaccepted(trade[Partner(p)]), now))
    <3>1. /\ Unaccepted(trade[Partner(p)]).items = trade[Partner(p)].items
          /\ Unaccepted(trade[Partner(p)]) \in TradeData
      BY <2>2, SameItems
    <3>2. ModifiedAt(Unaccepted(trade[Partner(p)]), now).items = trade[Partner(p)].items
      BY <1>0, <3>1, SameItems
    <3> QED  BY <2>2, <3>1, <3>2 DEF OneSlot
  <2>4. PICK a, b : /\ trade' = [trade EXCEPT ![p] = a, ![Partner(p)] = b]
                    /\ OneSlot(a) /\ OneSlot(b)
    BY <1>0, <1>11, <1>14, <2>1, <2>2, <2>3 DEF AcceptPartnerShort, AcceptNoSpace
  <2> QED  BY <2>2, <2>4, SlotsWritten
<1>15. ASSUME NEW p \in Player, AcceptSpellFails(p)  PROVE  SlotsInv'
  <2>1. BeginAccept(p) /\ 0 \in SpellIds
    BY <1>15 DEF AcceptSpellFails, BothAccept, SpellIds
  <2>2. /\ Partner(p) \in Player /\ trade[Partner(p)] \in TradeData /\ OneSlot(trade[Partner(p)])
        /\ Accepted(p) \in TradeData /\ OneSlot(Accepted(p))
    BY <1>3, <1>11, <2>1
  <2>3. CASE SetBoth(p, SetSpell(Accepted(p), trade[Partner(p)], 0))
    BY <1>0, <2>1, <2>2, <2>3, SetKeepsSlots, SlotsWritten DEF SetBoth
  <2>4. CASE SetBoth(p, <<SetSpell(trade[Partner(p)], Accepted(p), 0)[2],
                          SetSpell(trade[Partner(p)], Accepted(p), 0)[1]>>)
    <3>1. trade' = [trade EXCEPT ![p] = SetSpell(trade[Partner(p)], Accepted(p), 0)[2],
                                 ![Partner(p)] = SetSpell(trade[Partner(p)], Accepted(p), 0)[1]]
      BY <2>4 DEF SetBoth
    <3>2. /\ OneSlot(SetSpell(trade[Partner(p)], Accepted(p), 0)[1])
          /\ OneSlot(SetSpell(trade[Partner(p)], Accepted(p), 0)[2])
      BY <1>0, <2>1, <2>2, SetKeepsSlots
    <3> QED  BY <2>2, <3>1, <3>2, SlotsWritten
  <2> QED  BY <1>15, <2>3, <2>4 DEF AcceptSpellFails
<1>16. ASSUME NEW p \in Player, HandleAcceptTrade(p)  PROVE  SlotsInv'
  BY <1>4, <1>13, <1>14, <1>15, <1>16 DEF HandleAcceptTrade
<1>17. CASE Windows
  BY <1>2, <1>4, <1>5, <1>7, <1>8, <1>9, <1>12, <1>16, <1>17 DEF Windows
<1>18. CASE World
  BY <1>1, <1>18 DEF World, SpendMoney, EarnMoney, LoseItem, GainItem, Tick
<1> QED  BY <1>1, <1>17, <1>18 DEF Next, vars

\* No item is in two slots of a trade window.
LEMMA SlotsHold == Spec => []SlotsInv
<1>1. Init => SlotsInv
  BY DEF Init, SlotsInv, InTrade
<1> QED  BY <1>1, SlotsStep, InvHolds, PTL DEF Spec

\* What the first n slots of player p give away.
Upto(p, n) == {GetItem(p, i) : i \in 0 .. n - 1} \ {NoItem}

\* Where moveItems starts.
StartBags(p) ==
    [mine |-> inv[p] \ Given(p), his |-> inv[Partner(p)] \ Given(Partner(p))]

\* The recursion equation of moveItems.
Moves(p, f) ==
    f = [n \in 0 .. TradedCount |->
            IF n = 0 THEN StartBags(p) ELSE MoveSlot(p, f[n - 1], n - 1)]

\* The definition of MoveItems, unfolded: the last value of a function that satisfies
\* the equation, if there is one.
LEMMA MoveItemsDef ==
  ASSUME NEW p
  PROVE  MoveItems(p) = (CHOOSE f : Moves(p, f))[TradedCount]
BY DEF MoveItems, StartBags, Moves

\* The equation has at most one solution.
LEMMA MoveItemsUnique ==
  ASSUME NEW p, NEW f, NEW g, Moves(p, f), Moves(p, g)
  PROVE  f[TradedCount] = g[TradedCount]
<1> DEFINE S == {n \in Nat : n \in 0 .. TradedCount => f[n] = g[n]}
<1>1. 0 \in S
  BY SizesAssumption DEF Moves
<1>2. ASSUME NEW n \in Nat, n \in S  PROVE  n + 1 \in S
  <2> SUFFICES ASSUME n + 1 \in 0 .. TradedCount  PROVE  f[n + 1] = g[n + 1]
    OBVIOUS
  <2>1. n \in 0 .. TradedCount /\ (n + 1) - 1 = n /\ n + 1 # 0
    BY SizesAssumption
  <2>2. f[n + 1] = MoveSlot(p, f[n], n) /\ g[n + 1] = MoveSlot(p, g[n], n)
    BY <2>1 DEF Moves
  <2> QED  BY <1>2, <2>1, <2>2
<1> HIDE DEF S
<1>3. S \in SUBSET Nat
  BY DEF S
<1>4. Nat \subseteq S
  BY <1>1, <1>2, <1>3, SetInduction
<1>5. TradedCount \in S /\ TradedCount \in 0 .. TradedCount
  BY <1>4, SizesAssumption
<1> QED  BY <1>5, Zenon DEF S

\* The equation has a solution.
LEMMA MoveItemsExists ==
  ASSUME NEW p
  PROVE  Moves(p, CHOOSE f : Moves(p, f))
<1> DEFINE Solves(h, n) == h = [m \in 0 .. n |->
                                  IF m = 0 THEN StartBags(p) ELSE MoveSlot(p, h[m - 1], m - 1)]
           T == {n \in Nat : \E h : Solves(h, n)}
<1>1. 0 \in T
  <2>1. Solves([m \in 0 .. 0 |-> StartBags(p)], 0)
    <3>1. \A m \in 0 .. 0 : m = 0
      OBVIOUS
    <3> QED  BY <3>1
  <2> HIDE DEF Solves
  <2> QED  BY <2>1
<1>2. ASSUME NEW n \in Nat, n \in T  PROVE  n + 1 \in T
  <2>1. PICK h : Solves(h, n)
    BY <1>2
  <2> DEFINE g == [m \in 0 .. n + 1 |-> IF m <= n THEN h[m] ELSE MoveSlot(p, h[n], n)]
  <2>2. \A m \in 0 .. n : g[m] = h[m]
    OBVIOUS
  <2>3. g[n + 1] = MoveSlot(p, h[n], n)
    OBVIOUS
  <2>4. ASSUME NEW m \in 0 .. n + 1
        PROVE  g[m] = IF m = 0 THEN StartBags(p) ELSE MoveSlot(p, g[m - 1], m - 1)
    <3> HIDE DEF g
    <3>1. CASE m = 0
      <4>1. m \in 0 .. n
        BY <3>1
      <4> QED  BY <2>1, <2>2, <3>1, <4>1
    <3>2. CASE m # 0 /\ m <= n
      <4>1. m \in 0 .. n /\ m - 1 \in 0 .. n
        BY <3>2
      <4> QED  BY <2>1, <2>2, <3>2, <4>1
    <3>3. CASE m = n + 1
      <4>1. m # 0 /\ m - 1 = n /\ n \in 0 .. n
        BY <3>3
      <4> QED  BY <2>2, <2>3, <3>3, <4>1
    <3>4. m = 0 \/ (m # 0 /\ m <= n) \/ m = n + 1
      OBVIOUS
    <3> QED  BY <3>1, <3>2, <3>3, <3>4
  <2>5. g = [m \in 0 .. n + 1 |-> g[m]]
    OBVIOUS
  <2> HIDE DEF g
  <2>6. Solves(g, n + 1)
    BY <2>4, <2>5
  <2> HIDE DEF Solves
  <2>7. n + 1 \in Nat
    OBVIOUS
  <2> QED  BY <2>6, <2>7
<1>3. T \in SUBSET Nat
  OBVIOUS
<1> HIDE DEF T
<1>4. TradedCount \in T
  BY <1>1, <1>2, <1>3, SetInduction, SizesAssumption
<1>5. PICK h : Solves(h, TradedCount)
  BY <1>4 DEF T
<1>6. Moves(p, h)
  BY <1>5 DEF Moves
<1> QED  BY <1>6, Zenon

\* There is room for one more of the items that were counted.
LEMMA RoomForOne ==
  ASSUME NEW A, NEW B, NEW C, NEW x, IsFiniteSet(A), IsFiniteSet(B),
         Cardinality(A) + Cardinality(B) <= Capacity,
         C \subseteq B, x \in B, x \notin C
  PROVE  Cardinality(A \cup C) < Capacity
<1>1. C \subseteq B \ {x} /\ IsFiniteSet(B \ {x}) /\ Cardinality(B \ {x}) = Cardinality(B) - 1
  BY FS_RemoveElement
<1>2. IsFiniteSet(C) /\ Cardinality(C) <= Cardinality(B \ {x})
  BY <1>1, FS_Subset
<1>3. Cardinality(A \cup C) = Cardinality(A) + Cardinality(C) - Cardinality(A \cap C)
  BY <1>2, FS_Union
<1>4. IsFiniteSet(A \cap C)
  BY <1>2, FS_Subset
<1>5. /\ Cardinality(A) \in Nat /\ Cardinality(B) \in Nat /\ Cardinality(C) \in Nat
      /\ Cardinality(A \cap C) \in Nat
  BY <1>2, <1>4, FS_CardinalityType
<1>6. /\ Cardinality(A) + Cardinality(B) <= Capacity
      /\ Cardinality(C) <= Cardinality(B) - 1
  BY <1>1, <1>2
<1> QED  BY <1>3, <1>5, <1>6, SizesAssumption

\* One slot more gives one item more, if its owner still has it, and it is none of those
\* before.
LEMMA UptoGrows ==
  ASSUME Inv, SlotsInv, inv \in [Player -> SUBSET Item], NEW p \in Player, InTrade(p),
         NEW n \in Nat, n + 1 \in 0 .. TradedCount
  PROVE  /\ Upto(p, n + 1) = Store(Upto(p, n), GetItem(p, n))
         /\ Upto(p, n) \subseteq Given(p)
         /\ GetItem(p, n) # NoItem =>
               GetItem(p, n) \in Given(p) /\ GetItem(p, n) \notin Upto(p, n)
<1>1. n \in Traded /\ 0 .. n - 1 \subseteq Traded /\ n \in Slots /\ 0 .. n - 1 \subseteq Slots
  BY SizesAssumption DEF Traded, Slots
<1>2. 0 .. (n + 1) - 1 = (0 .. n - 1) \cup {n} /\ n \notin 0 .. n - 1
  OBVIOUS
<1>3. Upto(p, n + 1) = Store(Upto(p, n), GetItem(p, n))
  <2>1. Upto(p, n + 1) = {GetItem(p, i) : i \in (0 .. n - 1) \cup {n}} \ {NoItem}
    BY <1>2 DEF Upto
  <2> QED  BY <2>1 DEF Upto, Store
<1>4. Upto(p, n) \subseteq Given(p)
  BY <1>1 DEF Upto, Given
<1>5. ASSUME GetItem(p, n) # NoItem
      PROVE  GetItem(p, n) \in Given(p) /\ GetItem(p, n) \notin Upto(p, n)
  <2>1. GetItem(p, n) \in Given(p)
    BY <1>1, <1>5 DEF Given
  <2>2. ASSUME NEW i \in 0 .. n - 1, GetItem(p, i) = GetItem(p, n)  PROVE  FALSE
    <3>1. i \in Slots /\ n \in Slots /\ i # n
      BY <1>1
    <3>2. trade[p].items[i] = trade[p].items[n] /\ trade[p].items[n] # NoItem
      BY <1>5, <2>2 DEF GetItem
    <3>3. OneSlot(trade[p])
      BY DEF SlotsInv
    <3> QED  BY <3>1, <3>2, <3>3 DEF OneSlot
  <2> QED  BY <2>1, <2>2 DEF Upto
<1> QED  BY <1>3, <1>4, <1>5

\* What is given is what its owner has; the slots of moveItems are all that is given.
LEMMA GivenItems ==
  ASSUME inv \in [Player -> SUBSET Item], NEW p \in Player
  PROVE  /\ Given(p) \subseteq inv[p]
         /\ Upto(p, TradedCount) = Given(p) /\ Upto(p, 0) = {}
         /\ IsFiniteSet(inv[p]) /\ IsFiniteSet(Given(p)) /\ IsFiniteSet(inv[p] \ Given(p))
<1>1. Given(p) \subseteq inv[p]
  BY DEF Given, GetItem
<1>2. Upto(p, TradedCount) = Given(p) /\ Upto(p, 0) = {}
  BY SizesAssumption DEF Upto, Given, Traded
<1>3. IsFiniteSet(inv[p])
  BY ItemAssumption, FS_Subset
<1>4. IsFiniteSet(Given(p)) /\ IsFiniteSet(inv[p] \ Given(p))
  BY <1>1, <1>3, FS_Subset
<1> QED  BY <1>1, <1>2, <1>3, <1>4

\* The one more is still within the limit of its entry, if all of them together are.
LEMMA LimitForOne ==
  ASSUME NEW p \in Player, NEW B \in SUBSET Item, NEW all \in SUBSET Item, NEW x \in Item,
         WithinLimits(p, all), B \subseteq all, x \in all, x \notin B
  PROVE  CanTakeMoreSimilarItems(p, B, x)
<1> DEFINE e == Entry[x]
           inB == {i \in B : Entry[i] = e}
           inAll == {i \in all : Entry[i] = e}
<1>1. e \in Entries /\ MaxCount[e] \in Nat /\ Stored[p][e] \in Nat
  BY EntryAssumption DEF Entries
<1>2. /\ IsFiniteSet(inAll) /\ IsFiniteSet(inB) /\ Cardinality(inB \cup {x}) = Cardinality(inB) + 1
      /\ Cardinality(inB \cup {x}) <= Cardinality(inAll)
  <2>1. IsFiniteSet(inAll) /\ inB \cup {x} \subseteq inAll /\ x \notin inB
    BY ItemAssumption, FS_Subset
  <2> HIDE DEF inAll, inB, e
  <2>2. IsFiniteSet(inB) /\ Cardinality(inB \cup {x}) <= Cardinality(inAll)
    BY <2>1, FS_Subset
  <2> QED  BY <2>1, <2>2, FS_AddElement
<1>3. MaxCount[e] # 0 => Cardinality(inAll) + Stored[p][e] <= MaxCount[e]
  BY DEF WithinLimits, GetItemCount
<1>4. GetItemCount(p, B, e) = Cardinality(inB) + Stored[p][e]
  BY DEF GetItemCount
<1>5. Cardinality(inB) \in Nat /\ Cardinality(inAll) \in Nat
  BY <1>2, FS_CardinalityType
<1>6. MaxCount[e] = 0 \/ GetItemCount(p, B, e) + 1 <= MaxCount[e]
  <2> HIDE DEF inB, inAll, e
  <2> QED  BY <1>1, <1>2, <1>3, <1>4, <1>5
<1> QED  BY <1>6 DEF CanTakeMoreSimilarItems

\* moveItems finds room for every item, if no side ends with more of an entry than it may
\* own: each side ends with the items that the other one gave.
LEMMA AllItemsMoved ==
  ASSUME Inv, SlotsInv, ItemsInv, NEW p \in Player, InTrade(p),
         CanStoreItems(p), CanStoreItems(Partner(p)),
         WithinLimits(p, (inv[p] \ Given(p)) \cup Given(Partner(p))),
         WithinLimits(Partner(p), (inv[Partner(p)] \ Given(Partner(p))) \cup Given(p))
  PROVE  MoveItems(p) = [mine |-> (inv[p] \ Given(p)) \cup Given(Partner(p)),
                         his |-> (inv[Partner(p)] \ Given(Partner(p))) \cup Given(p)]
<1>1. PICK q : q = Partner(p)
  OBVIOUS
<1>2. q \in Player /\ InTrade(q) /\ Partner(q) = p
  BY <1>1, PairOfTrade DEF Inv, WindowsInv, Mutual
<1> DEFINE A == inv[p] \ Given(p)
           B == inv[q] \ Given(q)
           g == [n \in 0 .. TradedCount |->
                    [mine |-> A \cup Upto(q, n), his |-> B \cup Upto(p, n)]]
<1>3. /\ Cardinality(A) + Cardinality(Given(q)) <= Capacity
      /\ Cardinality(B) + Cardinality(Given(p)) <= Capacity
  BY <1>1, <1>2 DEF CanStoreItems
<1>4. /\ IsFiniteSet(A) /\ IsFiniteSet(B) /\ IsFiniteSet(Given(p)) /\ IsFiniteSet(Given(q))
      /\ Upto(p, 0) = {} /\ Upto(q, 0) = {}
      /\ Upto(p, TradedCount) = Given(p) /\ Upto(q, TradedCount) = Given(q)
  BY <1>2, GivenItems DEF ItemsInv
<1>9. /\ A \in SUBSET Item /\ B \in SUBSET Item /\ Given(p) \in SUBSET Item /\ Given(q) \in SUBSET Item
      /\ A \cap Given(q) = {} /\ B \cap Given(p) = {}
  <2>1. p # q /\ inv[p] \cap inv[q] = {}
    BY <1>1, <1>2, PairOfTrade DEF PairOK, ItemsInv, ItemsOnce, Disjoint
  <2> QED  BY <1>2, <2>1, GivenItems DEF ItemsInv
<1>10. WithinLimits(p, A \cup Given(q)) /\ WithinLimits(q, B \cup Given(p))
  BY <1>1
<1> HIDE DEF A, B
<1>5. ASSUME NEW n \in Nat, n + 1 \in 0 .. TradedCount
      PROVE  g[n + 1] = MoveSlot(p, g[n], n)
  <2>1. /\ Upto(p, n + 1) = Store(Upto(p, n), GetItem(p, n))
        /\ Upto(p, n) \subseteq Given(p)
        /\ GetItem(p, n) # NoItem =>
              GetItem(p, n) \in Given(p) /\ GetItem(p, n) \notin Upto(p, n)
    BY <1>5, UptoGrows DEF ItemsInv
  <2>2. /\ Upto(q, n + 1) = Store(Upto(q, n), GetItem(q, n))
        /\ Upto(q, n) \subseteq Given(q)
        /\ GetItem(q, n) # NoItem =>
              GetItem(q, n) \in Given(q) /\ GetItem(q, n) \notin Upto(q, n)
    BY <1>2, <1>5, UptoGrows DEF ItemsInv
  <2>3. CanStoreItem(p, A \cup Upto(q, n), GetItem(q, n), 0)
    <3> SUFFICES ASSUME GetItem(q, n) # NoItem
                 PROVE  /\ CanTakeMoreSimilarItems(p, A \cup Upto(q, n), GetItem(q, n))
                        /\ Cardinality(A \cup Upto(q, n)) + 0 < Capacity
      BY DEF CanStoreItem
    <3>1. GetItem(q, n) \in Given(q) /\ GetItem(q, n) \notin Upto(q, n) /\ Upto(q, n) \subseteq Given(q)
      BY <2>2
    <3>2. GetItem(q, n) \notin A
      BY <1>9, <3>1
    <3>3. CanTakeMoreSimilarItems(p, A \cup Upto(q, n), GetItem(q, n))
      BY <1>9, <1>10, <3>1, <3>2, LimitForOne
    <3>4. Cardinality(A \cup Upto(q, n)) < Capacity
      BY <1>3, <1>4, <3>1, RoomForOne
    <3>5. IsFiniteSet(A \cup Upto(q, n))
      BY <1>4, <3>1, FS_Subset, FS_Union
    <3>6. Cardinality(A \cup Upto(q, n)) \in Nat
      BY <3>5, FS_CardinalityType
    <3> QED  BY <3>3, <3>4, <3>6
  <2>4. CanStoreItem(q, B \cup Upto(p, n), GetItem(p, n), 0)
    <3> SUFFICES ASSUME GetItem(p, n) # NoItem
                 PROVE  /\ CanTakeMoreSimilarItems(q, B \cup Upto(p, n), GetItem(p, n))
                        /\ Cardinality(B \cup Upto(p, n)) + 0 < Capacity
      BY DEF CanStoreItem
    <3>1. GetItem(p, n) \in Given(p) /\ GetItem(p, n) \notin Upto(p, n) /\ Upto(p, n) \subseteq Given(p)
      BY <2>1
    <3>2. GetItem(p, n) \notin B
      BY <1>9, <3>1
    <3>3. CanTakeMoreSimilarItems(q, B \cup Upto(p, n), GetItem(p, n))
      BY <1>2, <1>9, <1>10, <3>1, <3>2, LimitForOne
    <3>4. Cardinality(B \cup Upto(p, n)) < Capacity
      BY <1>3, <1>4, <3>1, RoomForOne
    <3>5. IsFiniteSet(B \cup Upto(p, n))
      BY <1>4, <3>1, FS_Subset, FS_Union
    <3>6. Cardinality(B \cup Upto(p, n)) \in Nat
      BY <3>5, FS_CardinalityType
    <3> QED  BY <3>3, <3>4, <3>6
  <2>5. /\ g[n] = [mine |-> A \cup Upto(q, n), his |-> B \cup Upto(p, n)]
        /\ g[n + 1] = [mine |-> A \cup Upto(q, n + 1), his |-> B \cup Upto(p, n + 1)]
    BY <1>5, SizesAssumption
  <2>6. /\ A \cup Upto(q, n + 1) = Store(A \cup Upto(q, n), GetItem(q, n))
        /\ B \cup Upto(p, n + 1) = Store(B \cup Upto(p, n), GetItem(p, n))
    BY <2>1, <2>2 DEF Store
  <2> HIDE DEF g
  <2>7. g[n].mine = A \cup Upto(q, n) /\ g[n].his = B \cup Upto(p, n)
    BY <2>5
  <2>8. MoveSlot(p, g[n], n) = [mine |-> Store(g[n].mine, GetItem(q, n)),
                                his |-> Store(g[n].his, GetItem(p, n))]
    BY <1>1, <2>3, <2>4, <2>7 DEF MoveSlot
  <2> QED  BY <2>5, <2>6, <2>7, <2>8
<1>6. g[0] = StartBags(p)
  <2>1. g[0] = [mine |-> A \cup Upto(q, 0), his |-> B \cup Upto(p, 0)]
    BY SizesAssumption
  <2> HIDE DEF g
  <2> QED  BY <1>1, <1>4, <2>1 DEF StartBags, A, B
<1>7. g[TradedCount] = [mine |-> A \cup Given(q), his |-> B \cup Given(p)]
  <2>1. TradedCount \in 0 .. TradedCount
    BY SizesAssumption
  <2> QED  BY <1>4, <2>1
<1>8. Moves(p, g)
  <2>1. ASSUME NEW n \in 0 .. TradedCount
        PROVE  g[n] = IF n = 0 THEN StartBags(p) ELSE MoveSlot(p, g[n - 1], n - 1)
    <3>1. CASE n = 0
      BY <1>6, <3>1
    <3>2. CASE n # 0
      <4>1. n - 1 \in Nat /\ (n - 1) + 1 = n
        BY <3>2, SizesAssumption
      <4> HIDE DEF g
      <4> QED  BY <1>5, <3>2, <4>1
    <3> QED  BY <3>1, <3>2
  <2>2. g = [n \in 0 .. TradedCount |-> g[n]]
    OBVIOUS
  <2> HIDE DEF g
  <2> QED  BY <2>1, <2>2 DEF Moves
<1> HIDE DEF g
<1>11. (CHOOSE f : Moves(p, f))[TradedCount] = g[TradedCount]
  BY <1>8, MoveItemsExists, MoveItemsUnique, Zenon
<1>12. MoveItems(p) = g[TradedCount]
  BY <1>11, MoveItemsDef, Zenon
<1> QED  BY <1>1, <1>7, <1>12 DEF A, B

\* The bags of p and q before slot n of moveItems: what was not given is there, nothing is
\* there twice, and what the slots from n on give is in neither.
BagsOK(p, q, bags, n) ==
    /\ bags.mine \in SUBSET Item /\ bags.his \in SUBSET Item
    /\ inv[p] \ Given(p) \subseteq bags.mine /\ inv[q] \ Given(q) \subseteq bags.his
    /\ bags.mine \cap bags.his = {}
    /\ \A r \in Player \ {p, q} : inv[r] \cap (bags.mine \cup bags.his) = {}
    /\ Cardinality(bags.mine) <= Capacity /\ Cardinality(bags.his) <= Capacity
    /\ \A i \in Traded : i >= n => {GetItem(p, i), GetItem(q, i)} \cap (bags.mine \cup bags.his) = {}

\* A bag stays within its places when it gets one item, or two, for which there was room.
LEMMA AddedFits ==
  ASSUME NEW bag \in SUBSET Item, NEW x, NEW y, NEW taken \in {0, 1},
         Cardinality(bag) + taken < Capacity
  PROVE  /\ Cardinality(bag \cup {x}) <= Capacity
         /\ taken = 1 => Cardinality(bag \cup {x} \cup {y}) <= Capacity
<1>1. IsFiniteSet(bag)
  BY ItemAssumption, FS_Subset
<1>2. \A S, z : IsFiniteSet(S) =>
         IsFiniteSet(S \cup {z}) /\ Cardinality(S \cup {z}) <= Cardinality(S) + 1
                                 /\ Cardinality(S) \in Nat
  <2> SUFFICES ASSUME NEW S, NEW z, IsFiniteSet(S)
               PROVE  /\ IsFiniteSet(S \cup {z}) /\ Cardinality(S \cup {z}) <= Cardinality(S) + 1
                      /\ Cardinality(S) \in Nat
    OBVIOUS
  <2>1. Cardinality(S) \in Nat
    BY FS_CardinalityType
  <2>2. CASE z \in S
    <3>1. S \cup {z} = S
      BY <2>2
    <3>2. Cardinality(S \cup {z}) = Cardinality(S) /\ IsFiniteSet(S \cup {z})
      BY <3>1, Zenon
    <3> QED  BY <2>1, <3>2
  <2>3. CASE z \notin S
    BY <2>1, <2>3, FS_AddElement
  <2> QED  BY <2>2, <2>3
<1>3. /\ IsFiniteSet(bag \cup {x}) /\ Cardinality(bag \cup {x}) <= Cardinality(bag) + 1
      /\ Cardinality(bag) \in Nat
  BY <1>1, <1>2
<1>4. /\ IsFiniteSet(bag \cup {x} \cup {y})
      /\ Cardinality(bag \cup {x} \cup {y}) <= Cardinality(bag \cup {x}) + 1
      /\ Cardinality(bag \cup {x}) \in Nat
  BY <1>2, <1>3
<1>5. Cardinality(bag \cup {x} \cup {y}) \in Nat
  BY <1>2, <1>4
<1> QED  BY <1>3, <1>4, <1>5, SizesAssumption

\* An item that can be stored is stored, and an item that comes back brings at most a
\* copy that nobody had.
LEMMA StoreFits ==
  ASSUME NEW p, NEW bag \in SUBSET Item, NEW item \in Item \cup {NoItem},
         Cardinality(bag) <= Capacity, CanStoreItem(p, bag, item, 0)
  PROVE  /\ Store(bag, item) \in SUBSET Item /\ bag \subseteq Store(bag, item)
         /\ Store(bag, item) \subseteq bag \cup {item}
         /\ Cardinality(Store(bag, item)) <= Capacity
<1>1. CASE item = NoItem
  <2>1. Store(bag, item) = bag
    BY <1>1 DEF Store
  <2> QED  BY <2>1
<1>2. CASE item # NoItem
  <2>1. Store(bag, item) = bag \cup {item}
    BY <1>2 DEF Store
  <2>2. Cardinality(bag) + 0 < Capacity
    BY <1>2 DEF CanStoreItem
  <2>3. Cardinality(bag \cup {item}) <= Capacity
    BY <2>2, AddedFits
  <2> QED  BY <1>2, <2>1, <2>3
<1> QED  BY <1>1, <1>2

LEMMA BackFits ==
  ASSUME NEW p, NEW bag \in SUBSET Item, NEW item \in Item \cup {NoItem}, NEW instead, NEW used,
         Cardinality(bag) <= Capacity
  PROVE  LET back == TakeBack(p, bag, item, instead, used)
         IN  /\ back \in SUBSET Item /\ bag \subseteq back
             /\ back \subseteq bag \cup {item} \cup (Item \ used)
             /\ Cardinality(back) <= Capacity
<1> DEFINE back == TakeBack(p, bag, item, instead, used)
           found == instead # NoItem /\ CanStoreItem(p, bag, instead, 0)
           taken == IF found THEN 1 ELSE 0
<1>1. CASE item = NoItem \/ ~CanStoreItem(p, bag, item, taken)
  <2>1. back = bag
    BY <1>1 DEF TakeBack
  <2> QED  BY <2>1
<1>2. CASE item # NoItem /\ CanStoreItem(p, bag, item, taken)
  <2>1. back = bag \cup {item} \cup (IF found THEN Clone(item, used) ELSE {})
    BY <1>2 DEF TakeBack, Store
  <2>2. Cardinality(bag) + taken < Capacity /\ taken \in {0, 1}
    BY <1>2 DEF CanStoreItem
  <2>3. Clone(item, used) = {} \/ \E y \in Item \ used : Clone(item, used) = {y}
    <3>1. CASE {i \in Item \ used : Entry[i] = Entry[item]} = {}
      BY <3>1 DEF Clone
    <3>2. CASE {i \in Item \ used : Entry[i] = Entry[item]} # {}
      <4>1. PICK y : y = CHOOSE i \in {i \in Item \ used : Entry[i] = Entry[item]} : TRUE
        OBVIOUS
      <4>2. y \in Item \ used
        BY <3>2, <4>1
      <4>3. Clone(item, used) = {y}
        BY <3>2, <4>1 DEF Clone
      <4> QED  BY <4>2, <4>3
    <3> QED  BY <3>1, <3>2
  <2> HIDE DEF back, found
  <2>4. CASE ~found \/ Clone(item, used) = {}
    <3>1. back = bag \cup {item}
      BY <2>1, <2>4
    <3>2. Cardinality(bag \cup {item}) <= Capacity
      BY <2>2, AddedFits
    <3> QED  BY <1>2, <3>1, <3>2 DEF back
  <2>5. CASE found /\ Clone(item, used) # {}
    <3>1. PICK y \in Item \ used : Clone(item, used) = {y}
      BY <2>3, <2>5
    <3>2. back = bag \cup {item} \cup {y} /\ taken = 1
      BY <2>1, <2>5, <3>1
    <3>3. Cardinality(bag \cup {item} \cup {y}) <= Capacity
      BY <2>2, <3>2, AddedFits
    <3> QED  BY <1>2, <3>1, <3>2, <3>3 DEF back
  <2> QED  BY <2>4, <2>5
<1> QED  BY <1>1, <1>2

\* The items of a slot are their owners', and no later slot gives one of them again.
LEMMA SlotItem ==
  ASSUME Inv, SlotsInv, ItemsInv, NEW p \in Player, NEW q \in Player, p # q,
         InTrade(p), InTrade(q), NEW s \in Traded
  PROVE  /\ GetItem(p, s) \in (inv[p] \cap Item) \cup {NoItem}
         /\ \A i \in Traded : i >= s + 1 =>
               /\ GetItem(p, i) = NoItem \/ GetItem(p, i) # GetItem(p, s)
               /\ GetItem(p, i) \in (inv[p] \cap Item) \cup {NoItem}
               /\ GetItem(p, s) = NoItem \/ GetItem(q, i) # GetItem(p, s)
<1>1. \A r \in Player, i \in Traded : GetItem(r, i) \in (inv[r] \cap Item) \cup {NoItem}
  BY DEF GetItem, ItemsInv
<1>2. OneSlot(trade[p]) /\ inv[p] \cap inv[q] = {} /\ NoItem \notin Item
  BY ItemAssumption DEF SlotsInv, ItemsInv, ItemsOnce, Disjoint
<1>3. ASSUME NEW i \in Traded, i >= s + 1, GetItem(p, i) = GetItem(p, s), GetItem(p, i) # NoItem
      PROVE  FALSE
  <2>1. i \in Slots /\ s \in Slots /\ i # s
    BY <1>3, SizesAssumption DEF Traded, Slots
  <2>2. trade[p].items[i] = trade[p].items[s] /\ trade[p].items[s] # NoItem
    BY <1>3 DEF GetItem
  <2> QED  BY <1>2, <2>1, <2>2 DEF OneSlot
<1> QED  BY <1>1, <1>2, <1>3

\* A slot keeps the bags in order, whether its items change sides or come back.
LEMMA SlotMoved ==
  ASSUME Inv, SlotsInv, ItemsInv, NEW p \in Player, InTrade(p), NEW s \in Traded, NEW bags,
         BagsOK(p, Partner(p), bags, s)
  PROVE  BagsOK(p, Partner(p), MoveSlot(p, bags, s), s + 1)
<1>1. PICK q : q = Partner(p)
  OBVIOUS
<1>2. q \in Player /\ q # p /\ InTrade(q)
  BY <1>1, PairOfTrade DEF PairOK, Inv, WindowsInv, Mutual
<1> DEFINE give == GetItem(p, s)
           get == GetItem(q, s)
           used == Owned \cup bags.mine \cup bags.his
           mine == TakeBack(p, bags.mine, give, get, used)
           his == TakeBack(q, bags.his, get, give, used \cup mine)
           next == MoveSlot(p, bags, s)
<1>3. /\ give \in (inv[p] \cap Item) \cup {NoItem} /\ get \in (inv[q] \cap Item) \cup {NoItem}
      /\ \A i \in Traded : i >= s + 1 =>
           /\ GetItem(p, i) \in (inv[p] \cap Item) \cup {NoItem}
           /\ GetItem(q, i) \in (inv[q] \cap Item) \cup {NoItem}
           /\ GetItem(p, i) = NoItem \/ GetItem(p, i) \notin {give, get}
           /\ GetItem(q, i) = NoItem \/ GetItem(q, i) \notin {give, get}
  <2>1. /\ give \in (inv[p] \cap Item) \cup {NoItem}
        /\ \A i \in Traded : i >= s + 1 =>
              /\ GetItem(p, i) = NoItem \/ GetItem(p, i) # give
              /\ GetItem(p, i) \in (inv[p] \cap Item) \cup {NoItem}
              /\ give = NoItem \/ GetItem(q, i) # give
    BY <1>2, SlotItem
  <2>2. /\ get \in (inv[q] \cap Item) \cup {NoItem}
        /\ \A i \in Traded : i >= s + 1 =>
              /\ GetItem(q, i) = NoItem \/ GetItem(q, i) # get
              /\ GetItem(q, i) \in (inv[q] \cap Item) \cup {NoItem}
              /\ get = NoItem \/ GetItem(p, i) # get
    BY <1>2, SlotItem
  <2> HIDE DEF give, get
  <2> QED  BY <2>1, <2>2
<1>4. /\ \A r \in Player \ {p, q} : inv[r] \cap inv[p] = {} /\ inv[r] \cap inv[q] = {}
      /\ inv[p] \cap inv[q] = {} /\ NoItem \notin Item
  BY <1>2, ItemAssumption DEF ItemsInv, ItemsOnce, Disjoint
<1>5. /\ \A r \in Player : inv[r] \subseteq used
      /\ bags.mine \subseteq used /\ bags.his \subseteq used
  <2>1. ASSUME NEW r \in Player, NEW x \in inv[r]  PROVE  x \in used
    <3>1. x \in Owned
      BY Zenon DEF Owned
    <3> QED  BY <3>1
  <2>2. bags.mine \subseteq used /\ bags.his \subseteq used
    OBVIOUS
  <2> HIDE DEF used
  <2> QED  BY <2>1, <2>2
<1>6. /\ bags.mine \in SUBSET Item /\ bags.his \in SUBSET Item
      /\ inv[p] \ Given(p) \subseteq bags.mine /\ inv[q] \ Given(q) \subseteq bags.his
      /\ bags.mine \cap bags.his = {}
      /\ \A r \in Player \ {p, q} : inv[r] \cap (bags.mine \cup bags.his) = {}
      /\ Cardinality(bags.mine) <= Capacity /\ Cardinality(bags.his) <= Capacity
      /\ \A i \in Traded : i >= s =>
            {GetItem(p, i), GetItem(q, i)} \cap (bags.mine \cup bags.his) = {}
  BY <1>1 DEF BagsOK
<1>7. /\ {give, get} \cap (bags.mine \cup bags.his) = {}
      /\ \A i \in Traded : i >= s + 1 =>
            {GetItem(p, i), GetItem(q, i)} \cap (bags.mine \cup bags.his) = {}
  <2>1. s >= s /\ \A i \in Traded : i >= s + 1 => i >= s
    BY SizesAssumption DEF Traded
  <2> QED  BY <1>6, <2>1
\* What a new pair of bags must satisfy, apart from the definition of MoveSlot.
<1>8. ASSUME NEW m \in SUBSET Item, NEW h \in SUBSET Item,
             Cardinality(m) <= Capacity, Cardinality(h) <= Capacity,
             bags.mine \subseteq m, bags.his \subseteq h, m \cap h = {},
             m \subseteq bags.mine \cup {give, get} \cup (Item \ used),
             h \subseteq bags.his \cup {give, get} \cup (Item \ used),
             next = [mine |-> m, his |-> h]
      PROVE  BagsOK(p, q, next, s + 1)
  <2> HIDE DEF give, get, used, next
  <2>1. next.mine = m /\ next.his = h
    BY <1>8
  <2>2. \A r \in Player \ {p, q} : inv[r] \cap (m \cup h) = {}
    BY <1>3, <1>4, <1>5, <1>6, <1>8 DEF ItemsInv
  <2>3. ASSUME NEW i \in Traded, i >= s + 1
        PROVE  {GetItem(p, i), GetItem(q, i)} \cap (m \cup h) = {}
    <3>1. GetItem(p, i) \notin m \cup h
      <4>1. GetItem(p, i) \in inv[p] \cup {NoItem} /\ GetItem(p, i) \notin bags.mine \cup bags.his
        BY <1>3, <1>7, <2>3
      <4>2. GetItem(p, i) = NoItem \/ GetItem(p, i) \notin {give, get}
        BY <1>3, <2>3
      <4>3. inv[p] \subseteq used
        BY <1>5
      <4> QED  BY <1>4, <1>8, <4>1, <4>2, <4>3
    <3>2. GetItem(q, i) \notin m \cup h
      <4>1. GetItem(q, i) \in inv[q] \cup {NoItem} /\ GetItem(q, i) \notin bags.mine \cup bags.his
        BY <1>3, <1>7, <2>3
      <4>2. GetItem(q, i) = NoItem \/ GetItem(q, i) \notin {give, get}
        BY <1>3, <2>3
      <4>3. inv[q] \subseteq used
        BY <1>2, <1>5
      <4> QED  BY <1>4, <1>8, <4>1, <4>2, <4>3
    <3> QED  BY <3>1, <3>2
  <2>4. inv[p] \ Given(p) \subseteq m /\ inv[q] \ Given(q) \subseteq h
    BY <1>6, <1>8
  <2> QED  BY <1>8, <2>1, <2>2, <2>3, <2>4 DEF BagsOK
<1>9. CASE CanStoreItem(q, bags.his, give, 0) /\ CanStoreItem(p, bags.mine, get, 0)
  <2>1. next = [mine |-> Store(bags.mine, get), his |-> Store(bags.his, give)]
    BY <1>1, <1>9 DEF MoveSlot
  <2>2. /\ Store(bags.mine, get) \in SUBSET Item /\ bags.mine \subseteq Store(bags.mine, get)
        /\ Store(bags.mine, get) \subseteq bags.mine \cup {get}
        /\ Cardinality(Store(bags.mine, get)) <= Capacity
    <3> HIDE DEF get
    <3> QED  BY <1>3, <1>6, <1>9, StoreFits
  <2>3. /\ Store(bags.his, give) \in SUBSET Item /\ bags.his \subseteq Store(bags.his, give)
        /\ Store(bags.his, give) \subseteq bags.his \cup {give}
        /\ Cardinality(Store(bags.his, give)) <= Capacity
    <3> HIDE DEF give
    <3> QED  BY <1>3, <1>6, <1>9, StoreFits
  <2> HIDE DEF give, get, used, next
  <2>4. Store(bags.mine, get) \cap Store(bags.his, give) = {}
    BY <1>3, <1>4, <1>6, <1>7, <2>2, <2>3
  <2>5. BagsOK(p, q, next, s + 1)
    BY <1>8, <2>1, <2>2, <2>3, <2>4
  <2> QED  BY <1>1, <2>5 DEF next
<1>10. CASE ~(CanStoreItem(q, bags.his, give, 0) /\ CanStoreItem(p, bags.mine, get, 0))
  <2>1. next = [mine |-> mine, his |-> his]
    BY <1>1, <1>10 DEF MoveSlot
  <2>2. /\ mine \in SUBSET Item /\ bags.mine \subseteq mine
        /\ mine \subseteq bags.mine \cup {give} \cup (Item \ used)
        /\ Cardinality(mine) <= Capacity
    <3> HIDE DEF give, get, used
    <3> QED  BY <1>3, <1>6, BackFits
  <2>3. /\ his \in SUBSET Item /\ bags.his \subseteq his
        /\ his \subseteq bags.his \cup {get} \cup (Item \ (used \cup mine))
        /\ Cardinality(his) <= Capacity
    <3> HIDE DEF give, get, used, mine
    <3> QED  BY <1>3, <1>6, BackFits
  <2> HIDE DEF give, get, used, next, mine, his
  <2>4. mine \cap his = {}
    <3> SUFFICES ASSUME NEW x \in mine, x \in his  PROVE  FALSE
      OBVIOUS
    <3>1. x \in Item /\ (x \in bags.his \/ x = get)
      BY <2>2, <2>3
    <3>2. x \in used /\ x \notin bags.mine
      BY <1>2, <1>3, <1>4, <1>5, <1>6, <1>7, <3>1
    <3>3. x = give
      BY <2>2, <3>2
    <3> QED  BY <1>3, <1>4, <1>7, <3>1, <3>3
  <2>5. BagsOK(p, q, next, s + 1)
    BY <1>8, <2>1, <2>2, <2>3, <2>4
  <2> QED  BY <1>1, <2>5 DEF next
<1> QED  BY <1>9, <1>10

\* So moveItems leaves nothing twice and no bag too full.
LEMMA ItemsMoved ==
  ASSUME Inv, SlotsInv, ItemsInv, NEW p \in Player, InTrade(p)
  PROVE  BagsOK(p, Partner(p), MoveItems(p), TradedCount)
<1>1. PICK q : q = Partner(p)
  OBVIOUS
<1>2. q \in Player /\ q # p /\ InTrade(q)
  BY <1>1, PairOfTrade DEF PairOK, Inv, WindowsInv, Mutual
<1>3. PICK f : f = CHOOSE h : Moves(p, h)
  OBVIOUS
<1>4. Moves(p, f) /\ MoveItems(p) = f[TradedCount]
  BY <1>3, MoveItemsExists, MoveItemsDef, Zenon
<1> DEFINE S == {n \in Nat : n <= TradedCount => BagsOK(p, q, f[n], n)}
<1>5. 0 \in S
  <2>1. f[0] = StartBags(p)
    BY <1>4, SizesAssumption DEF Moves
  <2>2. f[0].mine = inv[p] \ Given(p) /\ f[0].his = inv[q] \ Given(q)
    BY <1>1, <2>1 DEF StartBags
  <2>3. /\ inv \in [Player -> SUBSET Item] /\ Disjoint(inv)
        /\ Cardinality(inv[p]) <= Capacity /\ Cardinality(inv[q]) <= Capacity
    BY <1>2 DEF ItemsInv, ItemsOnce
  <2>4. /\ Given(p) \subseteq inv[p] /\ Given(q) \subseteq inv[q]
        /\ IsFiniteSet(inv[p]) /\ IsFiniteSet(inv[q])
    BY <1>2, <2>3, GivenItems
  <2>5. Cardinality(inv[p] \ Given(p)) <= Capacity /\ Cardinality(inv[q] \ Given(q)) <= Capacity
    <3>1. \A T : IsFiniteSet(T) /\ Cardinality(T) <= Capacity =>
             \A U : Cardinality(T \ U) <= Capacity
      <4> SUFFICES ASSUME NEW T, IsFiniteSet(T), Cardinality(T) <= Capacity, NEW U
                   PROVE  Cardinality(T \ U) <= Capacity
        OBVIOUS
      <4>1. IsFiniteSet(T \ U) /\ Cardinality(T \ U) <= Cardinality(T)
        BY FS_Subset
      <4>2. Cardinality(T \ U) \in Nat /\ Cardinality(T) \in Nat
        BY <4>1, FS_CardinalityType
      <4> QED  BY <4>1, <4>2, SizesAssumption
    <3> QED  BY <2>3, <2>4, <3>1
  <2>6. ASSUME NEW i \in Traded
        PROVE  {GetItem(p, i), GetItem(q, i)} \cap (f[0].mine \cup f[0].his) = {}
    <3>1. /\ GetItem(p, i) \in Given(p) \cup {NoItem} /\ GetItem(q, i) \in Given(q) \cup {NoItem}
      BY DEF Given
    <3>2. inv[p] \cap inv[q] = {} /\ NoItem \notin Item /\ inv[p] \cup inv[q] \subseteq Item
      BY <1>2, <2>3, ItemAssumption DEF Disjoint
    <3> QED  BY <2>2, <2>4, <3>1, <3>2
  <2>7. /\ inv[p] \cap inv[q] = {}
        /\ \A r \in Player \ {p, q} : inv[r] \cap (inv[p] \cup inv[q]) = {}
    BY <1>2, <2>3 DEF Disjoint
  <2>8. BagsOK(p, q, f[0], 0)
    BY <1>2, <2>2, <2>3, <2>5, <2>6, <2>7 DEF BagsOK
  <2> QED  BY <2>8
<1>6. ASSUME NEW n \in Nat, n \in S  PROVE  n + 1 \in S
  <2> SUFFICES ASSUME n + 1 <= TradedCount  PROVE  BagsOK(p, q, f[n + 1], n + 1)
    OBVIOUS
  <2>1. n \in Traded /\ n <= TradedCount /\ n + 1 \in 0 .. TradedCount /\ n + 1 # 0 /\ (n + 1) - 1 = n
    BY SizesAssumption DEF Traded
  <2>2. f[n + 1] = MoveSlot(p, f[n], n)
    BY <1>4, <2>1 DEF Moves
  <2>3. BagsOK(p, q, f[n], n)
    BY <1>6, <2>1
  <2> QED  BY <1>1, <2>1, <2>2, <2>3, SlotMoved
<1>7. S \in SUBSET Nat
  OBVIOUS
<1> HIDE DEF S
<1>8. TradedCount \in S
  BY <1>5, <1>6, <1>7, SetInduction, SizesAssumption
<1>9. BagsOK(p, q, f[TradedCount], TradedCount)
  BY <1>8, SizesAssumption DEF S
<1> QED  BY <1>1, <1>4, <1>9

\* A completed trade: what was not offered stays, and the offers are exchanged if that
\* leaves both sides within their limits.
LEMMA Exchange ==
  ASSUME Inv, SlotsInv, ItemsInv, NEW p \in Player, AcceptComplete(p)
  PROVE  LET q == Partner(p)
             mine == (inv[p] \ Given(p)) \cup Given(q)
             his == (inv[q] \ Given(q)) \cup Given(p)
         IN  /\ q \in Player /\ q # p /\ Partner(q) = p
             /\ inv' = [inv EXCEPT ![p] = MoveItems(p).mine, ![q] = MoveItems(p).his]
             /\ inv'[p] = MoveItems(p).mine /\ inv'[q] = MoveItems(p).his
             /\ BagsOK(p, q, MoveItems(p), TradedCount)
             /\ WithinLimits(p, mine) /\ WithinLimits(q, his) => inv'[p] = mine /\ inv'[q] = his
<1>1. PICK q : q = Partner(p)
  OBVIOUS
<1>2. InTrade(p) /\ CanStoreItems(p) /\ CanStoreItems(q)
  BY <1>1 DEF AcceptComplete, BothAccept, BeginAccept
<1>3. q \in Player /\ q # p /\ Partner(q) = p
  BY <1>1, <1>2 DEF Inv, WindowsInv, Mutual
<1>4. WithinLimits(p, (inv[p] \ Given(p)) \cup Given(q))
        /\ WithinLimits(q, (inv[q] \ Given(q)) \cup Given(p)) =>
      MoveItems(p) = [mine |-> (inv[p] \ Given(p)) \cup Given(q),
                      his |-> (inv[q] \ Given(q)) \cup Given(p)]
  BY <1>1, <1>2, AllItemsMoved
<1>5. inv' = [inv EXCEPT ![p] = MoveItems(p).mine, ![q] = MoveItems(p).his]
  BY <1>1 DEF AcceptComplete
<1>6. inv'[p] = MoveItems(p).mine /\ inv'[q] = MoveItems(p).his
  BY <1>3, <1>5 DEF ItemsInv
<1>7. BagsOK(p, q, MoveItems(p), TradedCount)
  BY <1>1, <1>2, ItemsMoved
<1>8. WithinLimits(p, (inv[p] \ Given(p)) \cup Given(q))
        /\ WithinLimits(q, (inv[q] \ Given(q)) \cup Given(p)) =>
      inv'[p] = (inv[p] \ Given(p)) \cup Given(q) /\ inv'[q] = (inv[q] \ Given(q)) \cup Given(p)
  BY <1>4, <1>6
<1> QED  BY <1>1, <1>3, <1>5, <1>6, <1>7, <1>8

\* Every step keeps each item with one owner.
LEMMA ItemsStep == Inv /\ SlotsInv /\ ItemsInv /\ [Next]_vars => ItemsInv'
<1> SUFFICES ASSUME Inv, SlotsInv, ItemsInv, [Next]_vars  PROVE  ItemsInv'
  OBVIOUS
<1>0. /\ inv \in [Player -> SUBSET Item]
      /\ \A p, q \in Player : p # q => inv[p] \cap inv[q] = {}
      /\ \A p \in Player : Cardinality(inv[p]) <= Capacity
  BY DEF ItemsInv, ItemsOnce, Disjoint
<1>1. CASE UNCHANGED inv
  BY <1>1 DEF ItemsInv, ItemsOnce, Disjoint
<1>2. ASSUME NEW p \in Player, AcceptComplete(p)  PROVE  ItemsInv'
  <2>1. PICK q, bags : q = Partner(p) /\ bags = MoveItems(p)
    OBVIOUS
  <2>2. /\ q \in Player /\ q # p
        /\ inv' = [inv EXCEPT ![p] = bags.mine, ![q] = bags.his]
        /\ inv'[p] = bags.mine /\ inv'[q] = bags.his
        /\ BagsOK(p, q, bags, TradedCount)
    BY <1>2, <2>1, Exchange
  <2>3. /\ bags.mine \in SUBSET Item /\ bags.his \in SUBSET Item
        /\ bags.mine \cap bags.his = {}
        /\ \A r \in Player \ {p, q} : inv[r] \cap bags.mine = {} /\ inv[r] \cap bags.his = {}
        /\ Cardinality(bags.mine) <= Capacity /\ Cardinality(bags.his) <= Capacity
    BY <2>2 DEF BagsOK
  <2>4. \A r \in Player : r # p /\ r # q => inv'[r] = inv[r]
    BY <1>0, <2>2
  <2>5. inv' \in [Player -> SUBSET Item]
    BY <1>0, <2>2, <2>3
  <2>6. Disjoint(inv)'
    BY <1>0, <2>2, <2>3, <2>4 DEF Disjoint
  <2>7. ASSUME NEW r \in Player  PROVE  Cardinality(inv'[r]) <= Capacity
    BY <1>0, <2>2, <2>3, <2>4
  <2> QED  BY <2>5, <2>6, <2>7 DEF ItemsInv, ItemsOnce
<1>3. ASSUME NEW p \in Player, NEW item \in Item, LoseItem(p, item)  PROVE  ItemsInv'
  <2>1. inv' = [inv EXCEPT ![p] = inv[p] \ {item}] /\ item \in inv[p]
    BY <1>3 DEF LoseItem
  <2>2. inv' \in [Player -> SUBSET Item] /\ \A r \in Player : inv'[r] \subseteq inv[r]
    BY <1>0, <2>1
  <2>3. Disjoint(inv)'
    BY <1>0, <2>2 DEF Disjoint
  <2>4. ASSUME NEW r \in Player  PROVE  Cardinality(inv'[r]) <= Capacity
    <3>1. IsFiniteSet(inv[r])
      BY <1>0, GivenItems
    <3>2. /\ IsFiniteSet(inv'[r]) /\ Cardinality(inv'[r]) <= Cardinality(inv[r])
      BY <2>2, <3>1, FS_Subset
    <3>3. Cardinality(inv[r]) \in Nat /\ Cardinality(inv'[r]) \in Nat
      BY <3>1, <3>2, FS_CardinalityType
    <3> QED  BY <1>0, <3>2, <3>3, SizesAssumption
  <2> QED  BY <2>2, <2>3, <2>4 DEF ItemsInv, ItemsOnce
<1>4. ASSUME NEW p \in Player, NEW item \in Item, GainItem(p, item)  PROVE  ItemsInv'
  <2>1. /\ inv' = [inv EXCEPT ![p] = inv[p] \cup {item}]
        /\ \A q \in Player : item \notin inv[q]
        /\ Cardinality(inv[p]) + 0 < Capacity
    BY <1>4, ItemAssumption DEF GainItem, CanStoreItem
  <2>2. /\ inv' \in [Player -> SUBSET Item]
        /\ inv'[p] = inv[p] \cup {item} /\ \A r \in Player : r # p => inv'[r] = inv[r]
    BY <1>0, <2>1
  <2>3. Disjoint(inv)'
    BY <1>0, <2>1, <2>2 DEF Disjoint
  <2>4. Cardinality(inv'[p]) <= Capacity
    <3>1. IsFiniteSet(inv[p])
      BY <1>0, GivenItems
    <3>2. Cardinality(inv[p] \cup {item}) = Cardinality(inv[p]) + 1
      BY <2>1, <3>1, FS_AddElement
    <3>3. Cardinality(inv[p]) \in Nat
      BY <3>1, FS_CardinalityType
    <3> QED  BY <2>1, <2>2, <3>2, <3>3, SizesAssumption
  <2> QED  BY <1>0, <2>2, <2>3, <2>4 DEF ItemsInv, ItemsOnce
<1>5. ASSUME NEW p \in Player, HandleAcceptTrade(p)  PROVE  ItemsInv'
  BY <1>1, <1>2, <1>5 DEF HandleAcceptTrade, AcceptRefused, AcceptWithdrawn, AcceptPartnerShort,
     AcceptFirst, AcceptSpellFails, AcceptNoSpace
<1>6. CASE Windows
  BY <1>1, <1>5, <1>6 DEF Windows, HandleInitiateTrade, TradeCancel, HandleSetTradeGold,
     HandleSetTradeItem, HandleClearTradeItem, CastOnTradeItem, HandleUnacceptTrade
<1>7. CASE World
  BY <1>1, <1>3, <1>4, <1>7 DEF World, SpendMoney, EarnMoney, Tick
<1> QED  BY <1>1, <1>6, <1>7 DEF Next, vars

\* Each item has one owner, in every reachable state.
LEMMA ItemsHold == Spec => []ItemsInv
<1>1. Init => ItemsInv
  BY DEF Init, ItemsInv, ItemsOnce
<1> QED  BY <1>1, ItemsStep, SlotsHold, InvHolds, PTL DEF Spec

\* No item is ever in two inventories and no inventory overflows, though items come and
\* go while a trade is open and moveItems takes and stores slot by slot.
THEOREM NoItemTwice == Spec => []ItemsOnce
<1>1. ItemsInv => ItemsOnce
  BY DEF ItemsInv
<1> QED  BY <1>1, ItemsHold, PTL

\* A trade that completes takes nothing that was not offered, and delivers both offers, as
\* far as their owners still have the items and the limits of the entries allow: the count
\* of CanStoreItems covers every slot of moveItems.  Whatever the limits, no item that was
\* not offered moves.
THEOREM OffersDelivered == Spec => DeliversTheOffers
<1>1. Inv /\ SlotsInv /\ ItemsInv /\ [Next]_vars =>
        [\A p \in Player : trade'[p] = NoTrade /\ AcceptComplete(p) =>
            LET q == Partner(p)
                mine == (inv[p] \ Given(p)) \cup Given(q)
                his == (inv[q] \ Given(q)) \cup Given(p)
            IN  /\ inv[p] \ Given(p) \subseteq inv'[p] /\ inv[q] \ Given(q) \subseteq inv'[q]
                /\ WithinLimits(p, mine) /\ WithinLimits(q, his) =>
                      inv'[p] = mine /\ inv'[q] = his]_vars
  BY Exchange DEF BagsOK
<1> QED  BY <1>1, InvHolds, SlotsHold, ItemsHold, PTL DEF Spec, DeliversTheOffers

\* The state of the trades has its type.
THEOREM TradeTypeCorrect == Spec => []TypeOK
<1>1. Inv /\ ItemsInv => TypeOK
  BY DEF Inv, WindowsType, ItemsInv, TypeOK
<1> QED  BY <1>1, InvHolds, ItemsHold, PTL
=============================================================================
