-------------------------------- MODULE Lft --------------------------------
(***************************************************************************)
(* The dungeon finder "looking for turtles" (LFTManager).  A leader asks   *)
(* for dungeons, his party answers a role check and enters the queue, the  *)
(* matcher makes an offer to one tank, one healer and DamageSlots others,  *)
(* and when all have accepted they are put into one group.  Bots fill the  *)
(* queue of a player who has waited.                                       *)
(*                                                                         *)
(* All handlers run on the world thread.  Each is an operator from one     *)
(* state of the manager to the next, as they call one another.  Characters *)
(* are guids: std::map walks through them in their order.                  *)
(***************************************************************************)
EXTENDS Naturals, FiniteSets, SequencesExt

CONSTANTS
    Player,            \* guids of the characters
    Bots,              \* the ones the server drives (Script_IsMachineDriven)
    Roamers,           \* the ones who change maps and log out
    Invites,           \* who may invite whom to a party
    Instance,          \* dungeons, numbered in the order of their names
    Requests,          \* the lists of dungeons a player may ask for
    Allowed,           \* AllowedRoleMask: the roles of a character's class
    AiRoles,           \* Script_GetAllowedRoles: what a bot can do as it is
    Side,              \* faction and hardcore mode
    Hardcore,          \* the ones in hardcore mode
    Level,             \* the level of a character
    LevelBelow,        \* LFT.BotFill.LevelRangeBelow, ...Healer and ...Damage, by role
    LevelAbove,        \* LFT.BotFill.LevelRangeAbove
    DamageSlots,       \* 3 in the code: GroupSize is MAX_GROUP_SIZE = 5
    RolecheckTimeout, OfferTimeout,   \* 90 s, in calls of Update
    FillPeriod, FillDelay,            \* 5 s and LFT.BotFill.DelaySeconds
    BotFill,           \* LFT.BotFill.Enable
    Teleport,          \* LFT.Teleport.Enable
    MaxOffers          \* the offers of a behaviour: fewer than the 2^32 ids

Role == {"tank", "healer", "damage"}
NoGuid == 0
GroupSize == DamageSlots + 2
LevelLimit == 5
RespecLevel == 10
Slots == [r \in Role |-> IF r = "damage" THEN DamageSlots ELSE 1]

ASSUME LftAssumption ==
    /\ Player \subseteq Nat \ {NoGuid} /\ IsFiniteSet(Player)
    /\ Bots \subseteq Player /\ Roamers \subseteq Player
    /\ Invites \subseteq Player \X Player
    /\ Instance \subseteq Nat /\ IsFiniteSet(Instance)
    /\ Requests \subseteq Seq(Instance) \ {<<>>}
    /\ \A i \in Instance : <<i>> \in Requests
    /\ Allowed \in [Player -> SUBSET Role]
    /\ AiRoles \in [Bots -> SUBSET Role]
    /\ DOMAIN Side = Player
    /\ Hardcore \subseteq Player
    /\ \A p, q \in Player : Side[p] = Side[q] => (p \in Hardcore <=> q \in Hardcore)
    /\ Level \in [Player -> Nat] /\ LevelBelow \in [Role -> Nat] /\ LevelAbove \in Nat
    /\ DamageSlots \in Nat \ {0}
    /\ {RolecheckTimeout, OfferTimeout, FillPeriod, MaxOffers} \subseteq Nat \ {0}
    /\ FillDelay \in Nat
    /\ BotFill \in BOOLEAN /\ Teleport \in BOOLEAN

VARIABLES
    queue,         \* m_queue in the order of queueOrder
    rolechecks,    \* m_rolechecks, by leader
    offers,        \* m_offers, by id
    playerOffers,  \* m_playerOffers
    nextOfferId,   \* m_nextOfferId
    fillBots,      \* m_fillBots
    botFillTimer,  \* m_botFillTimer
    groups,        \* the groups of all characters; lft: in m_lftGroupIds
    inWorld        \* online and on a map

vars == <<queue, rolechecks, offers, playerOffers, nextOfferId, fillBots,
          botFillTimer, groups, inWorld>>

Entry == [guid: Player, leader: Player \cup {NoGuid}, instances: Requests,
          mask: SUBSET Role, waited: 0..FillDelay]

TypeOK ==
    /\ queue \in Seq(Entry)
    /\ \A i, j \in DOMAIN queue : queue[i].guid = queue[j].guid => i = j
    /\ \A l \in DOMAIN rolechecks :
        /\ l \in Player
        /\ l \in ToSet(rolechecks[l].members)
        /\ rolechecks[l].instances \in Requests
        /\ DOMAIN rolechecks[l].responses \subseteq ToSet(rolechecks[l].members)
        /\ rolechecks[l].timer \in 1..RolecheckTimeout
    /\ \A o \in DOMAIN offers :
        /\ o \in 1..MaxOffers
        /\ offers[o].accepted \subseteq DOMAIN offers[o].roles
        /\ offers[o].timer \in 1..OfferTimeout
    /\ \A p \in DOMAIN playerOffers : p \in Player /\ playerOffers[p] \in 1..MaxOffers
    /\ nextOfferId \in 1..(MaxOffers + 1)
    /\ fillBots \subseteq Bots
    /\ botFillTimer \in 0..FillPeriod
    /\ \A g \in groups : Len(g.members) \in 1..GroupSize /\ g.leader \in ToSet(g.members)
    /\ \A g, h \in groups : g = h \/ ToSet(g.members) \cap ToSet(h.members) = {}
    /\ inWorld \subseteq Player

\* Everybody is online, alone and not queued.
Init ==
    /\ queue = <<>> /\ rolechecks = <<>> /\ offers = <<>> /\ playerOffers = <<>>
    /\ nextOfferId = 1
    /\ fillBots = {} /\ botFillTimer = 0
    /\ groups = {}
    /\ inWorld = Player

\* The state as a value, for handlers that call handlers.
Now == [queue |-> queue, rolechecks |-> rolechecks, offers |-> offers,
        playerOffers |-> playerOffers, nextOfferId |-> nextOfferId, fillBots |-> fillBots,
        botFillTimer |-> botFillTimer, groups |-> groups, inWorld |-> inWorld]

Becomes(s) ==
    /\ queue' = s.queue /\ rolechecks' = s.rolechecks /\ offers' = s.offers
    /\ playerOffers' = s.playerOffers /\ nextOfferId' = s.nextOfferId
    /\ fillBots' = s.fillBots /\ botFillTimer' = s.botFillTimer
    /\ groups' = s.groups /\ inWorld' = s.inWorld

\* A std::map with one entry set.
Put(f, k, v) == [x \in DOMAIN f \cup {k} |-> IF x = k THEN v ELSE f[x]]

\* A walk through a std::map, by ascending key.
FoldAscending(op(_, _), base, S) ==
    MapThenFoldSet(LAMBDA x, acc : op(acc, x), base, LAMBDA x : x, Max, S)

\* The elements of a list that are in S, in their order.
AppendIf(S, acc, x) == IF x \in S THEN Append(acc, x) ELSE acc
Only(seq, S) == FoldLeft(LAMBDA acc, x : AppendIf(S, acc, x), <<>>, seq)
-----------------------------------------------------------------------------
(* Groups, as far as the finder sees them.                                 *)

IsGrouped(gs, p) == \E g \in gs : p \in ToSet(g.members)
GetGroup(gs, p) == CHOOSE g \in gs : p \in ToSet(g.members)
IsFull(g) == Len(g.members) >= GroupSize

\* Group::Create with its first member.
Create(gs, p, lft) == gs \cup {[leader |-> p, members |-> <<p>>, lft |-> lft]}

AddMember(gs, g, p) == (gs \ {g}) \cup {[g EXCEPT !.members = Append(@, p)]}

\* Mutant: the leader stays the leader.
RemoveMember_KeepsLeader(gs, p, online) ==
    LET g == GetGroup(gs, p)
    IN  (gs \ {g}) \cup IF Len(g.members) > 2
                        THEN {[g EXCEPT !.members = Only(@, Player \ {p})]} ELSE {}

\* _chooseLeader: the first who is online, else the first.
ChooseLeader(members, online) == Head(Only(members, online) \o members)

\* When the leader leaves, another is chosen; a group of two is disbanded.
RemoveMember(gs, p, online) ==
    LET g == GetGroup(gs, p)
        rest == Only(g.members, Player \ {p})
    IN  (gs \ {g}) \cup
            IF Len(g.members) > 2
            THEN {[g EXCEPT !.members = rest,
                            !.leader = IF @ = p THEN ChooseLeader(rest, online) ELSE @]}
            ELSE {}

\* Hardcore characters play with their like, of about their level.
CanPlayersGroup(p, q) ==
    /\ Side[p] = Side[q]
    /\ p \in Hardcore => Level[p] <= Level[q] + LevelLimit /\ Level[q] <= Level[p] + LevelLimit
-----------------------------------------------------------------------------
(* The queue.                                                              *)

IsQueued(s, p) == \E i \in DOMAIN s.queue : s.queue[i].guid = p
HasOffer(s, p) == p \in DOMAIN s.playerOffers
BlockLeader(e) == IF e.leader = NoGuid THEN e.guid ELSE e.leader

Dequeue(s, P) == [s EXCEPT !.queue = Only(@, {e \in Entry : e.guid \notin P})]

\* A new entry takes the place of an old one, at the end of the queue.
EnqueuePlayer(s, p, leader, instances, mask) ==
    [Dequeue(s, {p}) EXCEPT !.queue = Append(@,
        [guid |-> p, leader |-> leader, instances |-> instances, mask |-> mask, waited |-> 0])]

Taken(roles, r) == Cardinality({p \in DOMAIN roles : roles[p] = r})

\* The first role of the mask that is still open, "" if none is.
PickRole(mask, roles) ==
    LET open == {r \in mask : Taken(roles, r) < Slots[r]}
    IN  CASE "tank" \in open -> "tank"
          [] "tank" \notin open /\ "healer" \in open -> "healer"
          [] open = {"damage"} -> "damage"
          [] OTHER -> ""

\* Mutant: the side of one who is between two maps is not known either.
CanQueuedPlayersGroup_InWorld(s, p, q) == {p, q} \subseteq s.inWorld => CanPlayersGroup(p, q)

\* The levels of two queued characters are known while both are in the world.
CanQueuedPlayersGroup(s, p, q) ==
    IF {p, q} \subseteq s.inWorld THEN CanPlayersGroup(p, q) ELSE Side[p] = Side[q]

\* May the character of entry e be offered the dungeon with the seed?
Fits(s, seed, instance, e) ==
    /\ ~HasOffer(s, e.guid) /\ instance \in ToSet(e.instances)
    /\ CanQueuedPlayersGroup(s, seed, e.guid)

\* One of a party that queued together.
AddEntry(s, seed, instance, chosen, acc, e) ==
    LET role == PickRole(e.mask, acc.roles)
    IN  IF acc.fits /\ e.guid \notin DOMAIN chosen /\ Fits(s, seed, instance, e) /\ role # ""
        THEN [acc EXCEPT !.roles = Put(@, e.guid, role)]
        ELSE [acc EXCEPT !.fits = FALSE]

\* The roles of the chosen ones and of the party, or the former alone if one
\* of the party does not fit.
AddBlock(s, seed, instance, chosen, block) ==
    LET with == FoldLeft(LAMBDA acc, e : AddEntry(s, seed, instance, chosen, acc, e),
                         [fits |-> TRUE, roles |-> chosen], block)
    IN  IF with.fits /\ Cardinality(DOMAIN with.roles) <= GroupSize THEN with.roles ELSE chosen

AddFirst(s, instance, seed, chosen, e) ==
    IF \/ Cardinality(DOMAIN chosen) >= GroupSize
       \/ e.guid \in DOMAIN chosen
       \/ ~Fits(s, seed, instance, e)
    THEN chosen
    ELSE AddBlock(s, seed, instance, chosen,
                  Only(s.queue, {f \in Entry : BlockLeader(f) = BlockLeader(e)}))

\* The roles found by walking the queue once for a seed.
Match(s, instance, seed) ==
    FoldLeft(LAMBDA chosen, e : AddFirst(s, instance, seed, chosen, e), <<>>, s.queue)

IsComplete(roles) == \A r \in Role : Taken(roles, r) = Slots[r]

NewOffer(s, instance, roles) ==
    LET id == s.nextOfferId
        offer == [instance |-> instance, roles |-> roles, accepted |-> {}, timer |-> OfferTimeout]
    IN  [s EXCEPT !.offers = Put(@, id, offer),
                  !.playerOffers = [p \in DOMAIN @ \cup DOMAIN roles |->
                                        IF p \in DOMAIN roles THEN id ELSE @[p]],
                  !.nextOfferId = id + 1]

TryBuildOfferForInstance(s, instance) ==
    LET seeds == {i \in DOMAIN s.queue :
                    /\ ~HasOffer(s, s.queue[i].guid) /\ instance \in ToSet(s.queue[i].instances)
                    /\ IsComplete(Match(s, instance, s.queue[i].guid))}
    IN  IF s.nextOfferId > MaxOffers \/ seeds = {} THEN s
        ELSE NewOffer(s, instance, Match(s, instance, s.queue[Min(seeds)].guid))

\* One offer at most for each dungeon somebody waits for.
TryMakeOffers(s) ==
    LET wanted == UNION {ToSet(s.queue[i].instances) :
                            i \in {j \in DOMAIN s.queue : ~HasOffer(s, s.queue[j].guid)}}
    IN  FoldAscending(TryBuildOfferForInstance, s, wanted)

\* Both indices forget the offer.
Withdraw(s, id) ==
    [s EXCEPT !.playerOffers = Restrict(@, DOMAIN @ \ DOMAIN s.offers[id].roles),
              !.offers = Restrict(@, DOMAIN @ \ {id})]

\* Mutant: who stays in the queue stays in the index of offers.
CancelOffer_KeepsIndex(s, id, requeueAccepted, removeGuid, requeueOthers) ==
    IF id \notin DOMAIN s.offers THEN s
    ELSE LET offer == s.offers[id]
             dropped == {p \in DOMAIN offer.roles :
                            \/ ~requeueAccepted \/ p = removeGuid
                            \/ ~requeueOthers /\ p \notin offer.accepted}
         IN  [Dequeue(s, dropped) EXCEPT !.playerOffers = Restrict(@, DOMAIN @ \ dropped),
                                         !.offers = Restrict(@, DOMAIN @ \ {id})]

\* Mutant: whoever had accepted is not told from the others.
CancelOffer_DropsAccepted(s, id, requeueAccepted, removeGuid, requeueOthers) ==
    IF id \notin DOMAIN s.offers THEN s
    ELSE LET members == DOMAIN s.offers[id].roles
             keepQueued == {p \in members : requeueAccepted /\ p # removeGuid /\ requeueOthers}
         IN  Dequeue(Withdraw(s, id), members \ keepQueued)

\* Those who stay keep their place: all others when somebody left, the ones
\* who had accepted when the time was over.
CancelOffer(s, id, requeueAccepted, removeGuid, requeueOthers) ==
    IF id \notin DOMAIN s.offers THEN s
    ELSE LET offer == s.offers[id]
             members == DOMAIN offer.roles
             keepQueued == {p \in members : /\ requeueAccepted /\ p # removeGuid
                                            /\ requeueOthers \/ p \in offer.accepted}
         IN  Dequeue(Withdraw(s, id), members \ keepQueued)

\* Leaves the entries of the rest of his party in the queue.
CleanupPlayer(s, p) ==
    LET gone == Dequeue(s, {p})
        free == IF HasOffer(s, p) THEN CancelOffer(gone, s.playerOffers[p], TRUE, p, TRUE) ELSE gone
    IN  [free EXCEPT !.rolechecks =
            Restrict(@, {l \in DOMAIN @ : p \notin ToSet(@[l].members)})]
-----------------------------------------------------------------------------
(* Role checks.                                                            *)

EnqueueMember(check, s, p) ==
    IF p \in s.inWorld /\ p \in DOMAIN check.responses
    THEN EnqueuePlayer(s, p, check.leader, check.instances, check.responses[p])
    ELSE s

EnqueueMembers(s, check) == FoldLeft(LAMBDA t, p : EnqueueMember(check, t, p), s, check.members)

EnqueueRolecheck(s, check) == TryMakeOffers(EnqueueMembers(s, check))

\* The role checks that name a character.
Asked(s, p) == {l \in DOMAIN s.rolechecks : p \in ToSet(s.rolechecks[l].members)}

\* The answer goes to the first of them.
HandleRolecheckResponse(s, p, mask) ==
    IF mask = {} \/ Asked(s, p) = {} THEN s
    ELSE LET l == Min(Asked(s, p))
             check == [s.rolechecks[l] EXCEPT !.responses = Put(@, p, mask)]
         IN  IF Cardinality(DOMAIN check.responses) = Len(check.members)
             THEN EnqueueRolecheck([s EXCEPT !.rolechecks = Restrict(@, DOMAIN @ \ {l})], check)
             ELSE [s EXCEPT !.rolechecks[l] = check]

GetPartyMembers(s, p) ==
    IF IsGrouped(s.groups, p)
    THEN Only(GetGroup(s.groups, p).members, s.inWorld)
    ELSE <<p>>

AnswerForBot(s, p) ==
    IF p \in Bots THEN HandleRolecheckResponse(s, p, AiRoles[p] \cap Allowed[p]) ELSE s

\* Bots in the party answer at once.
StartRolecheck(s, leader, instances) ==
    LET check == [leader |-> leader, members |-> GetPartyMembers(s, leader),
                  instances |-> instances, responses |-> <<>>, timer |-> RolecheckTimeout]
        started == [s EXCEPT !.rolechecks = Put(@, leader, check)]
    IN  IF BotFill THEN FoldLeft(AnswerForBot, started, check.members) ELSE started
-----------------------------------------------------------------------------
(* Offers.                                                                 *)

\* The queue leader of the first character who has one; else the tank.
LeaderOf(s, offer) ==
    LET led == {i \in DOMAIN s.queue : /\ s.queue[i].guid \in DOMAIN offer.roles
                                       /\ s.queue[i].leader # NoGuid}
        first == CHOOSE i \in led : \A j \in led : s.queue[i].guid <= s.queue[j].guid
    IN  IF led # {} THEN s.queue[first].leader
        ELSE Min({p \in DOMAIN offer.roles : offer.roles[p] = "tank"})

\* The leader's group, his new one if he has none, registered as the finder's.
AdoptGroup(gs, leader) ==
    IF IsGrouped(gs, leader)
    THEN LET g == GetGroup(gs, leader) IN (gs \ {g}) \cup {[g EXCEPT !.lft = TRUE]}
    ELSE Create(gs, leader, TRUE)

AddPlayerToGroup(online, leader, acc, p) ==
    LET gs == AdoptGroup(acc.groups, leader)
        g == GetGroup(gs, leader)
    IN  CASE ~acc.ok -> acc
          [] acc.ok /\ ~({p, leader} \subseteq online) -> [acc EXCEPT !.ok = FALSE]
          [] acc.ok /\ {p, leader} \subseteq online /\ p \in ToSet(g.members) ->
                [acc EXCEPT !.groups = gs]
          [] OTHER ->
                IF IsGrouped(gs, p) \/ ~CanPlayersGroup(leader, p) \/ IsFull(g)
                THEN [groups |-> gs, ok |-> FALSE]
                ELSE [groups |-> AddMember(gs, g, p), ok |-> TRUE]

\* The first `begun` members, by guid, have left for the dungeon: none if the
\* party is not the matched one or something is in the way (combat, lockouts,
\* the limits of the instance), all if nothing is.
TeleportGroupToInstance(s, offer, begun) ==
    LET party == \E g \in s.groups : ToSet(g.members) = DOMAIN offer.roles
        away == IF Teleport /\ party
                THEN {p \in DOMAIN offer.roles :
                        Cardinality({q \in DOMAIN offer.roles : q < p}) < begun} ELSE {}
    IN  [world |-> s.inWorld \ away, ok |-> Teleport => away = DOMAIN offer.roles]

AddPlayersToGroup(s, leader, players) ==
    FoldAscending(LAMBDA acc, p : AddPlayerToGroup(s.inWorld, leader, acc, p),
                  [groups |-> s.groups, ok |-> TRUE], players)

\* Members are added one by one; when one cannot be, the ones before stay in
\* the group and all lose their place in the queue.
CompleteOffer(s, id, begun) ==
    LET offer == s.offers[id]
        formed == AddPlayersToGroup(s, LeaderOf(s, offer), DOMAIN offer.roles)
        grouped == [s EXCEPT !.groups = formed.groups]
        sent == TeleportGroupToInstance(grouped, offer, begun)
    IN  IF ~formed.ok THEN CancelOffer(grouped, id, FALSE, NoGuid, FALSE)
        ELSE IF ~sent.ok
             THEN CancelOffer([grouped EXCEPT !.inWorld = sent.world], id, FALSE, NoGuid, FALSE)
             ELSE [Dequeue(Withdraw(grouped, id), DOMAIN offer.roles) EXCEPT
                    !.inWorld = sent.world, !.fillBots = @ \ DOMAIN offer.roles]

HandleOfferAccept(s, p, begun) ==
    IF ~HasOffer(s, p) \/ s.playerOffers[p] \notin DOMAIN s.offers THEN s
    ELSE LET id == s.playerOffers[p]
             t == [s EXCEPT !.offers[id].accepted = @ \cup {p}]
         IN  IF t.offers[id].accepted = DOMAIN t.offers[id].roles
             THEN CompleteOffer(t, id, begun) ELSE t
-----------------------------------------------------------------------------
(* Bots that fill the queue.                                               *)

AcceptForBot(id, begun, s, p) ==
    IF id \in DOMAIN s.offers /\ p \notin s.offers[id].accepted /\ p \in s.inWorld
    THEN HandleOfferAccept(s, p, begun) ELSE s

AcceptForBots(begun, s, id) ==
    FoldAscending(LAMBDA t, p : AcceptForBot(id, begun, t, p), s, DOMAIN s.offers[id].roles \cap Bots)

AcceptOffersForFillBots(s, begun) ==
    FoldAscending(LAMBDA t, id : AcceptForBots(begun, t, id), s, DOMAIN s.offers)

\* Somebody other than a fill bot has asked for the dungeon.
RealPlayerWaitsFor(s, instance) ==
    \E i \in DOMAIN s.queue : /\ s.queue[i].guid \notin s.fillBots
                             /\ instance \in ToSet(s.queue[i].instances)

\* Mutant: only bots that are still queued are looked at.
DropUnneededFillBots_Queued(s) ==
    LET idle == {b \in s.fillBots : /\ ~HasOffer(s, b) /\ IsQueued(s, b)
                                    /\ ~\E d \in Instance : RealPlayerWaitsFor(s, d)}
    IN  [Dequeue(s, idle) EXCEPT !.fillBots = @ \ idle]

DropFillBot(s, b) ==
    LET needed == \E i \in DOMAIN s.queue :
                    /\ s.queue[i].guid = b /\ BotFill
                    /\ \E d \in ToSet(s.queue[i].instances) : RealPlayerWaitsFor(s, d)
    IN  IF HasOffer(s, b) \/ needed THEN s
        ELSE [Dequeue(s, {b}) EXCEPT !.fillBots = @ \ {b}]

DropUnneededFillBots(s) == FoldAscending(DropFillBot, s, s.fillBots)

\* A bot for the role, NoGuid if there is none: an idle one that can do it,
\* one from a party of bots the finder made, an idle one that respecs.
ChooseBot(s, pool, role, waiter) ==
    LET candidates == {b \in Bots : /\ b \in s.inWorld /\ ~IsQueued(s, b)
                                    /\ Side[b] = Side[waiter] /\ role \in Allowed[b]
                                    /\ Level[b] + LevelBelow[role] >= Level[waiter]
                                    /\ Level[waiter] + LevelAbove >= Level[b]}
        able == {b \in candidates : role \in AiRoles[b]}
        idle == {b \in candidates : ~IsGrouped(s.groups, b)}
        released == {b \in able \ idle :
            /\ GetGroup(s.groups, b).lft
            /\ \A m \in ToSet(GetGroup(s.groups, b).members) :
                  m \in Bots \cap s.inWorld /\ ~HasOffer(s, m)}
        respec == {b \in idle \ able : Level[b] >= RespecLevel}
        ranked == Only(pool, able \cap idle) \o Only(pool, released) \o Only(pool, respec)
    IN  IF ranked = <<>> THEN NoGuid ELSE Head(ranked)

\* The roles those in the queue would take.
Cover(s, instance, waiter, roles, e) ==
    LET r == PickRole(e.mask, roles)
    IN  IF Fits(s, waiter, instance, e) /\ r # "" THEN Put(roles, e.guid, r) ELSE roles

Covered(s, instance, waiter) ==
    FoldLeft(LAMBDA roles, e : Cover(s, instance, waiter, roles, e), <<>>, s.queue)

FillRole(pool, instance, waiter, s, role) ==
    LET b == ChooseBot(s, pool, role, waiter)
        free == IF IsGrouped(s.groups, b) THEN RemoveMember(s.groups, b, s.inWorld) ELSE s.groups
    IN  IF b = NoGuid THEN s
        ELSE [EnqueuePlayer(s, b, NoGuid, <<instance>>, {role}) EXCEPT
                !.fillBots = @ \cup {b}, !.groups = free]

FillInstanceWithBots(s, pool, instance, waiter) ==
    LET covered == Covered(s, instance, waiter)
        Missing(r) == [i \in 1..(Slots[r] - Taken(covered, r)) |-> r]
    IN  FoldLeft(LAMBDA t, role : FillRole(pool, instance, waiter, t, role), s,
                 Missing("tank") \o Missing("healer") \o Missing("damage"))

FillInstances(s, pool, instances, p) ==
    FoldLeft(LAMBDA t, d : FillInstanceWithBots(t, pool, d, p), s, instances)

\* Fills up for everybody who waits long enough and has no offer.
FillPending(s, pool) ==
    LET pending == {e \in ToSet(s.queue) :
                    e.guid \notin s.fillBots /\ ~HasOffer(s, e.guid) /\ e.waited >= FillDelay}
        Wanted(p) == (CHOOSE e \in pending : e.guid = p).instances
    IN  FoldAscending(LAMBDA t, p : FillInstances(t, pool, Wanted(p), p), s, {e.guid : e \in pending})

FillTimer(s, pool) ==
    IF s.botFillTimer > 1 THEN [s EXCEPT !.botFillTimer = @ - 1]
    ELSE FillPending(DropUnneededFillBots([s EXCEPT !.botFillTimer = FillPeriod]), pool)

\* pool: the bots that are alive and free, in the order the server finds them.
UpdateBotFill(s, pool, begun) ==
    IF BotFill THEN FillTimer(AcceptOffersForFillBots(s, begun), pool)
    ELSE DropUnneededFillBots(s)

\* Mutant: the last tick is not the end.
Expired_Never(f) == {k \in DOMAIN f : f[k].timer < 1}

\* Timers that have run out, and the others one tick later.
Expired(f) == {k \in DOMAIN f : f[k].timer <= 1}
Tick(f) == [k \in DOMAIN f |-> IF f[k].timer <= 1 THEN f[k] ELSE [f[k] EXCEPT !.timer = @ - 1]]

PurgeQueue(s) == Dequeue(s, Player \ s.inWorld)

PurgeRolechecks(s) == [s EXCEPT !.rolechecks = Tick(Restrict(@, DOMAIN @ \ Expired(@)))]

PurgeOffers(s) ==
    FoldAscending(LAMBDA t, id : CancelOffer(t, id, TRUE, NoGuid, FALSE),
                  [s EXCEPT !.offers = Tick(@)], Expired(s.offers))

Later(e) == [e EXCEPT !.waited = IF @ < FillDelay THEN @ + 1 ELSE @]
Aged(s) == [s EXCEPT !.queue = [i \in DOMAIN @ |-> Later(@[i])]]

LftUpdate(s, pool, begun) ==
    LET filled == UpdateBotFill(s, pool, begun)
    IN  Aged(TryMakeOffers(PurgeOffers(PurgeRolechecks(PurgeQueue(filled)))))
-----------------------------------------------------------------------------
(* What happens, in any order, on the world thread.                        *)

\* The roles he sends are only checked: he answers the role check as well.
QueueJoin(p, instances) ==
    /\ p \in inWorld \ Bots
    /\ IsGrouped(groups, p) => GetGroup(groups, p).leader = p
    /\ Allowed[p] # {}
    /\ Becomes(StartRolecheck(CleanupPlayer(Now, p), p, instances))

\* Ends a role check, else an offer, else the wait of the whole party.
HandleQueueLeave(s, p) ==
    LET asked == Asked(s, p)
        own == CHOOSE i \in DOMAIN s.queue : s.queue[i].guid = p
    IN  CASE asked # {} -> [s EXCEPT !.rolechecks = Restrict(@, DOMAIN @ \ {Min(asked)})]
          [] asked = {} /\ HasOffer(s, p) ->
                TryMakeOffers(CancelOffer(s, s.playerOffers[p], TRUE, p, TRUE))
          [] OTHER ->
                [s EXCEPT !.queue = Only(@, {e \in Entry : BlockLeader(e) # BlockLeader(s.queue[own])})]

QueueLeave(p) ==
    /\ p \in inWorld \ Bots
    /\ Asked(Now, p) # {} \/ HasOffer(Now, p) \/ IsQueued(Now, p)
    /\ Becomes(HandleQueueLeave(Now, p))

RolecheckResponse(p, mask) ==
    /\ p \in inWorld \ Bots
    /\ mask # {} /\ Asked(Now, p) # {}
    /\ Becomes(HandleRolecheckResponse(Now, p, mask))

OfferAccept(p, begun) ==
    /\ p \in inWorld \ Bots
    /\ HasOffer(Now, p)
    /\ Becomes(HandleOfferAccept(Now, p, begun))

Update(pool, begun) == Becomes(LftUpdate(Now, pool, begun))

\* A player who logs out leaves his party.  The bots, and who is not in the world, leave
\* it before him.
TakeOut(p, online, gs, m) ==
    IF IsGrouped(gs, p) /\ IsGrouped(gs, m) THEN RemoveMember(gs, m, online) ELSE gs

TakeAllOut(p, online, gs, members) ==
    FoldLeft(LAMBDA hs, m : TakeOut(p, online, hs, m), gs, members)

LeaveAll(gs, p, online) ==
    IF IsGrouped(gs, p)
    THEN TakeAllOut(p, online, gs,
                    Append(Only(GetGroup(gs, p).members, (Bots \cup (Player \ online)) \ {p}), p))
    ELSE gs

\* Without a socket, after a lost connection, he stays in the party.
Logout(p, socket) ==
    /\ p \in Roamers \ Bots /\ p \in inWorld
    /\ LET s == CleanupPlayer(Now, p)
       IN  Becomes([s EXCEPT !.groups = IF socket THEN LeaveAll(@, p, s.inWorld) ELSE @,
                             !.inWorld = @ \ {p}])

\* Between two maps a character is not in the world.
LeaveMap(p) ==
    /\ p \in Roamers \cap inWorld
    /\ inWorld' = inWorld \ {p}
    /\ UNCHANGED <<queue, rolechecks, offers, playerOffers, nextOfferId, fillBots, botFillTimer, groups>>

EnterMap(p) ==
    /\ p \in Player \ inWorld
    /\ inWorld' = inWorld \cup {p}
    /\ UNCHANGED <<queue, rolechecks, offers, playerOffers, nextOfferId, fillBots, botFillTimer, groups>>

\* A party made by invitation.
JoinParty(p, q) ==
    /\ <<p, q>> \in Invites
    /\ {p, q} \subseteq inWorld /\ p # q
    /\ ~IsGrouped(groups, q)
    /\ LET gs == IF IsGrouped(groups, p) THEN groups ELSE Create(groups, p, FALSE)
            g == GetGroup(gs, p)
       IN  /\ g.leader = p /\ ~IsFull(g)
           /\ \A m \in ToSet(g.members) : CanPlayersGroup(m, q)
           /\ groups' = AddMember(gs, g, q)
    /\ UNCHANGED <<queue, rolechecks, offers, playerOffers, nextOfferId, fillBots, botFillTimer, inWorld>>

LeaveParty(p) ==
    /\ IsGrouped(groups, p)
    /\ groups' = RemoveMember(groups, p, inWorld)
    /\ UNCHANGED <<queue, rolechecks, offers, playerOffers, nextOfferId, fillBots, botFillTimer, inWorld>>

Pools == UNION {SetToSeqs(S) : S \in SUBSET Bots}
\* Nobody leaves for a dungeon while no offer is open.
Begun == IF Teleport /\ DOMAIN offers # {} THEN 0..GroupSize ELSE {0}

Next ==
    \/ \E p \in Player :
        \/ \E instances \in Requests : QueueJoin(p, instances)
        \/ QueueLeave(p)
        \/ \E mask \in SUBSET Allowed[p] : RolecheckResponse(p, mask)
        \/ \E begun \in Begun : OfferAccept(p, begun)
        \/ \E socket \in BOOLEAN : Logout(p, socket)
        \/ LeaveMap(p) \/ EnterMap(p) \/ LeaveParty(p)
        \/ \E q \in Player : JoinParty(p, q)
    \/ \E pool \in Pools, begun \in Begun : Update(pool, begun)

Spec == Init /\ [][Next]_vars

\* The world loop calls Update on every turn, and Update alone moves the fill
\* timer: on every call, when filling is enabled and the period is over one.
FillTimerMoves == botFillTimer' = IF botFillTimer > 1 THEN botFillTimer - 1 ELSE FillPeriod
FairSpec == Spec /\ WF_botFillTimer(FillTimerMoves)
-----------------------------------------------------------------------------
(* Correctness.                                                            *)

\* The two indices of offers agree, and every open offer is a whole party of roles its
\* members may take, all of one faction and all or none in hardcore mode.  (Not of levels
\* that may be grouped: these are compared with the seed's alone, see CompleteOffer.)
OffersAgree ==
    /\ \A p \in DOMAIN playerOffers :
        playerOffers[p] \in DOMAIN offers /\ p \in DOMAIN offers[playerOffers[p]].roles
    /\ \A o \in DOMAIN offers :
        /\ IsComplete(offers[o].roles)
        /\ \A p \in DOMAIN offers[o].roles :
            /\ p \in DOMAIN playerOffers /\ playerOffers[p] = o
            /\ offers[o].roles[p] \in Allowed[p]
            /\ \A q \in DOMAIN offers[o].roles : Side[p] = Side[q]

\* A player who has accepted an offer and stays in the world loses his place in the queue
\* only when he, or one of the party he queued with, leaves the queue, when he joins it
\* anew, or when the last of the others accepts as well, or bots in the world who are the
\* last do so in Update.
KeepsPlace ==
    [][\A i \in DOMAIN queue :
        LET p == queue[i].guid
            offer == offers[playerOffers[p]]
            missing == DOMAIN offer.roles \ offer.accepted
        IN  (/\ p \in inWorld \cap inWorld' /\ HasOffer(Now, p) /\ p \in offer.accepted
             /\ \A j \in DOMAIN queue' : queue'[j].guid # p)
            => \/ \E j \in DOMAIN queue : /\ BlockLeader(queue[j]) = BlockLeader(queue[i])
                                         /\ QueueLeave(queue[j].guid)
               \/ \E d \in Requests : QueueJoin(p, d)
               \/ \E q \in DOMAIN offer.roles, begun \in Begun :
                    missing \subseteq {q} /\ OfferAccept(q, begun)
               \/ /\ BotFill /\ missing \subseteq Bots \cap inWorld
                  /\ \E pool \in Pools, begun \in Begun : Update(pool, begun)]_vars

\* Every offer is answered or withdrawn.
OffersEnd == \A o \in 1..MaxOffers : o \in DOMAIN offers ~> o \notin DOMAIN offers

\* A fill bot is always let go again, unless it is promised to a group or queued for a
\* dungeon that a player waits for.
FillBotsReleased ==
    \A b \in Bots :
        []<>(\/ b \notin fillBots \/ HasOffer(Now, b)
             \/ \E i \in DOMAIN queue : /\ queue[i].guid = b
                                       /\ \E d \in ToSet(queue[i].instances) :
                                            RealPlayerWaitsFor(Now, d))
=============================================================================
