------------------------------- MODULE MCLft -------------------------------
(* Instances of Lft.                                                       *)
EXTENDS Lft

FourPlayers == 1..4
OneDungeon == {1}
OneRequest == {<<1>>}
OneRoamer == {2}

\* On one side, in hardcore mode: a character who heals or fights, a tank, and a bot of
\* the first one's class that is built to fight.  The tank is near to both in level, they
\* are not near to each other; he may invite the first.  On the other side a tank.
OneBot == {3}
OneInvite == {<<2, 1>>}
Sides == [p \in FourPlayers |-> IF p = 4 THEN "alliance" ELSE "hardcore horde"]
HardcoreOnes == {1, 2, 3}
Levels == <<20, 25, 30, 20>>
Windows == [tank |-> 2, healer |-> 4, damage |-> 6]
Classes == <<{"healer", "damage"}, {"tank"}, {"healer", "damage"}, {"tank"}>>
BotSkills == [b \in OneBot |-> {"damage"}]
=============================================================================
