------------------------------ MODULE MCTrade ------------------------------
(* Model values for the run of Trade. *)
EXTENDS Trade, TLC

CONSTANTS ann, bob, cid, sword, cloak

Three == {ann, bob, cid}
TwoItems == {sword, cloak}

\* Two of a kind; a player may own two; cid has one in the bank and bob both.
OneEntry == [i \in TwoItems |-> "trophy"]
TwoAtMost == [e \in {"trophy"} |-> 2]
SomeStored == [p \in Three |-> [e \in {"trophy"} |-> CASE p = ann -> 0 [] p = bob -> 2 [] p = cid -> 1]]

\* No handler treats one item differently from the other.
ItemSymmetry == Permutations(TwoItems)
=============================================================================
