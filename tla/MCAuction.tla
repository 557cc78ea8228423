----------------------------- MODULE MCAuction -----------------------------
(* Model values and functions for the runs of Auction. *)
EXTENDS Auction, TLC

CONSTANTS ann, bob, cid, sword, cloak, city, neutral

Three == {ann, bob, cid}
OneItem == {sword}
TwoItems == {sword, cloak}
BothHouses == {city, neutral}

\* Characters of three accounts.
Accounts == [p \in Player |-> CASE p = ann -> 1 [] p = bob -> 2 [] OTHER -> 3]
Homes == [p \in Player |-> city]

\* All accounts and homes are alike.
CharacterSymmetry == Permutations(Three) \cup Permutations(TwoItems)

\* Of Hundred = 2: half of the price goes to the house.
Half == [h \in House |-> 1]
=============================================================================
