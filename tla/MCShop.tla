------------------------------- MODULE MCShop -------------------------------
(* Instances of Shop.                                                      *)
EXTENDS Shop

CONSTANTS buyer, hero, alt

\* One account with a hardcore character and another one.
OneAccount == {buyer}
TwoCharacters == {hero, alt}
BothOwned == [c \in TwoCharacters |-> buyer]
OneHero == {hero}
=============================================================================
