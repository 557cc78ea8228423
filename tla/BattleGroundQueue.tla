-------------------------- MODULE BattleGroundQueue --------------------------
(***************************************************************************)
(* The queue of one type of battleground and one bracket of levels, the    *)
(* battlegrounds it makes and the players who move between them.  Players  *)
(* queue alone or as a party; an update of the queue invites parties to    *)
(* battlegrounds with free places or makes a new one; an invited player    *)
(* enters, leaves the queue or lets his invitation run out; he may change  *)
(* maps, log out and log in again in every one of these situations.        *)
(*                                                                         *)
(* The world and map threads take turns, so that every handler, event and  *)
(* update is one step.  m_InvitedAlliance and m_InvitedHorde, which bound  *)
(* the players of a battleground and keep it alive, are the heart of it:   *)
(* six places of the code change them.                                     *)
(***************************************************************************)
EXTENDS Integers, FiniteSets, SequencesExt

CONSTANTS
    Player,
    TeamOf,            \* the faction of a player
    Parties,           \* sets of players who may queue together
    Roamers,           \* players who change maps, fly, log out and log in
    MinPlayers,        \* GetMinPlayersPerTeam
    MaxPlayers,        \* GetMaxPlayersPerTeam
    PremadeMinSize,    \* BattleGround.PremadeQueue.MinGroupSize
    InvitationType,    \* Battleground.InvitationType: 0, or 1 for equal teams
    InviteTime,        \* INVITE_ACCEPT_WAIT_TIME
    CounterSpace,      \* 2^32: m_InvitedAlliance and m_InvitedHorde are uint32
    MaxTime, MaxBgs, MaxJoins  \* bounds of the model: the clock, the battlegrounds
                               \* made, the times somebody enters the queue

Team == {"alliance", "horde"}
Bg == 1 .. MaxBgs
NoBg == 0
NotQueued == -1

ASSUME BattleGroundQueueAssumption ==
    /\ IsFiniteSet(Player) /\ Roamers \subseteq Player
    /\ TeamOf \in [Player -> Team]
    /\ Parties \subseteq SUBSET Player
    /\ \A S \in Parties : S # {} /\ Cardinality(S) <= MaxPlayers
                          /\ \A p, q \in S : TeamOf[p] = TeamOf[q]
    /\ {MinPlayers, MaxPlayers, PremadeMinSize, InviteTime, MaxBgs} \subseteq Nat \ {0}
    /\ MinPlayers <= MaxPlayers /\ 2 * MaxPlayers < CounterSpace
    /\ {InvitationType, MaxTime, MaxJoins, CounterSpace} \subseteq Nat

VARIABLES
    queue,      \* m_QueuedGroups: per team, the parties in the order they came
    slot,       \* m_bgBattleGroundQueueID: the battleground a player is told of
    events,     \* BGQueueRemoveEvents waiting in a player's m_Events
    presence,   \* where a player is
    target,     \* m_bgData.bgInstanceID, GetBattleGroundId
    status,     \* BattleGroundStatus of every battleground, "gone" once deleted
    invited,    \* m_InvitedAlliance and m_InvitedHorde
    free,       \* BGFreeSlotQueue
    scheduled,  \* m_QueueUpdateScheduler holds this queue
    now,        \* WorldTimer::getMSTime
    missed,     \* history: battlegrounds one of whose invited parties had a
                \* member InviteGroupToBG passed over
    joins       \* history: how often the queue was entered

vars == <<queue, slot, events, presence, target, status, invited, free, scheduled,
          now, missed, joins>>

Where == {"ready", "busy",   \* in the world; busy: flying, disconnected or logging out
          "away", "porting", \* between two maps; porting: on the way to a battleground
          "offline"}
InWorld(p) == presence[p] \in {"ready", "busy"}

Exists(b) == b # NoBg /\ status[b] \in {"join", "progress", "leave"}
Open(b) == b # NoBg /\ status[b] \in {"join", "progress"}
Inside(b) == {p \in Player : target[p] = b /\ presence[p] # "porting"}

Group == [players : (SUBSET Player) \ {{}}, bg : Bg \cup {NoBg},
          time : 0 .. MaxTime + InviteTime]

GroupsWith(q, p) == {g \in ToSet(q[TeamOf[p]]) : p \in g.players}
Queued(p) == GroupsWith(queue, p) # {}
GroupOf(p) == CHOOSE g \in GroupsWith(queue, p) : TRUE

Init ==
    /\ queue = [t \in Team |-> <<>>]
    /\ slot = [p \in Player |-> NotQueued]
    /\ events = [p \in Player |-> {}]
    /\ presence = [p \in Player |-> "ready"]
    /\ target = [p \in Player |-> NoBg]
    /\ status = [b \in Bg |-> "none"]
    /\ invited = [b \in Bg |-> [t \in Team |-> 0]]
    /\ free = <<>>
    /\ scheduled = FALSE
    /\ now = 0
    /\ missed = {}
    /\ joins = 0

-----------------------------------------------------------------------------
(***************************************************************************)
(* What the handlers share.  The books are the queue and the counters.     *)
(***************************************************************************)
Books == [queue |-> queue, invited |-> invited]

Decreased(inv, b, t) == [inv EXCEPT ![b][t] = (@ + CounterSpace - 1) % CounterSpace]

\* Where a player's party stands in the queue.
PlaceOf(q, p) == CHOOSE i \in DOMAIN q[TeamOf[p]] : p \in q[TeamOf[p]][i].players

Without(g, p) == [g EXCEPT !.players = @ \ {p}]

\* A mutant of RemovePlayer: an empty party stays in the queue.
RemovePlayerKeepsParty(w, p, decreaseInvitedCount) ==
    LET t == TeamOf[p]
        i == PlaceOf(w.queue, p)
        g == w.queue[t][i]
    IN IF GroupsWith(w.queue, p) = {} THEN w
       ELSE [w EXCEPT !.queue[t][i] = Without(g, p),
                      !.invited = IF decreaseInvitedCount /\ Exists(g.bg)
                                  THEN Decreased(@, g.bg, t) ELSE @]

\* The player leaves his party in the queue, an empty party leaves the queue.
\* Where his place is given up, a party that was invited gives back one place,
\* whether or not the place of this member was ever counted.
RemovePlayer(w, p, decreaseInvitedCount) ==
    LET t == TeamOf[p]
        i == PlaceOf(w.queue, p)
        g == w.queue[t][i]
    IN IF GroupsWith(w.queue, p) = {} THEN w
       ELSE [w EXCEPT !.queue[t] = IF g.players = {p} THEN RemoveAt(@, i)
                                   ELSE [@ EXCEPT ![i] = Without(g, p)],
                      !.invited = IF decreaseInvitedCount /\ Exists(g.bg)
                                  THEN Decreased(@, g.bg, t) ELSE @]

SetBooks(w) == queue' = w.queue /\ invited' = w.invited

\* RemovePlayerAtLeave for a player inside b, as far as the books go.
LeavesTo(p, b, where) ==
    /\ slot' = [slot EXCEPT ![p] = NotQueued]
    /\ target' = [target EXCEPT ![p] = NoBg]
    /\ presence' = [presence EXCEPT ![p] = where]
    /\ invited' = Decreased(invited, b, TeamOf[p])
    /\ free' = IF Open(b) /\ ~Contains(free, b) THEN <<b>> \o free ELSE free
    /\ scheduled' = (scheduled \/ Open(b))

-----------------------------------------------------------------------------
(***************************************************************************)
(* Players                                                                 *)
(***************************************************************************)
\* A player, or a leader for his whole party, asks the battlemaster.
Join(S) ==
    /\ \A p \in S : InWorld(p) /\ slot[p] = NotQueued /\ target[p] = NoBg
    /\ LET t == TeamOf[CHOOSE p \in S : TRUE]
       IN queue' = [queue EXCEPT
                      ![t] = Append(@, [players |-> S, bg |-> NoBg, time |-> 0])]
    /\ slot' = [p \in Player |-> IF p \in S THEN NoBg ELSE slot[p]]
    /\ scheduled' = TRUE
    /\ joins < MaxJoins /\ joins' = joins + 1
    /\ UNCHANGED <<events, presence, target, status, invited, free, now, missed>>

\* A mutant of Port: the place is given back as he enters.
PortGivesPlaceBack(p) ==
    /\ InWorld(p) /\ Queued(p)
    /\ Open(GroupOf(p).bg)
    /\ slot[p] \notin {NotQueued, NoBg}
    /\ SetBooks(RemovePlayer(Books, p, TRUE))
    /\ target' = [target EXCEPT ![p] = GroupOf(p).bg]
    /\ presence' = [presence EXCEPT ![p] = "porting"]
    /\ UNCHANGED <<slot, events, status, free, scheduled, now, missed, joins>>

\* He presses "enter battle": out of the queue, his place stays counted.
Port(p) ==
    /\ InWorld(p) /\ Queued(p)
    /\ Open(GroupOf(p).bg)
    /\ slot[p] \notin {NotQueued, NoBg}
    /\ SetBooks(RemovePlayer(Books, p, FALSE))
    /\ target' = [target EXCEPT ![p] = GroupOf(p).bg]
    /\ presence' = [presence EXCEPT ![p] = "porting"]
    /\ UNCHANGED <<slot, events, status, free, scheduled, now, missed, joins>>

\* He leaves the queue, tries to enter a battleground that is over, or reaches
\* the level of the next bracket.
LeaveQueue(p) ==
    /\ InWorld(p) /\ Queued(p) /\ slot[p] # NotQueued
    /\ SetBooks(RemovePlayer(Books, p, TRUE))
    /\ slot' = [slot EXCEPT ![p] = NotQueued]
    /\ scheduled' = TRUE
    /\ UNCHANGED <<events, presence, target, status, free, now, missed, joins>>

\* The end of a teleport.  A player whose battleground is gone by now is sent
\* back; nothing clears his slot.
Arrive(p) ==
    /\ presence[p] = "porting"
    /\ presence' = [presence EXCEPT ![p] = "ready"]
    /\ \/ Exists(target[p]) /\ slot[p] = target[p] /\ UNCHANGED target
       \/ ~Exists(target[p]) /\ target' = [target EXCEPT ![p] = NoBg]
    /\ UNCHANGED <<queue, slot, events, status, invited, free, scheduled, now, missed, joins>>

LeaveBattleground(p) ==
    /\ InWorld(p) /\ Exists(target[p])
    /\ LeavesTo(p, target[p], "away")
    /\ UNCHANGED <<queue, events, status, now, missed, joins>>

\* Other moves: to another map and back, into the air and down again.
Move(p, from, to) ==
    /\ presence[p] = from
    /\ presence' = [presence EXCEPT ![p] = to]
    /\ UNCHANGED <<queue, slot, events, target, status, invited, free, scheduled, now,
                   missed, joins>>

Zone(p) == target[p] = NoBg /\ Move(p, "ready", "away")
Back(p) == Move(p, "away", "ready")
Busy(p) == Move(p, "ready", "busy") \/ Move(p, "busy", "ready")

\* LogoutPlayer finishes pending teleports and leaves the battleground before
\* PlayerLoggedOut; the player stays in the queue, his events die with him.
Logout(p) ==
    /\ presence[p] # "offline"
    /\ events' = [events EXCEPT ![p] = {}]
    /\ \/ Exists(target[p]) /\ LeavesTo(p, target[p], "offline")
       \/ /\ ~Exists(target[p])
          /\ slot' = [slot EXCEPT ![p] = NotQueued]
          /\ target' = [target EXCEPT ![p] = NoBg]
          /\ presence' = [presence EXCEPT ![p] = "offline"]
          /\ UNCHANGED <<invited, free, scheduled>>
    /\ UNCHANGED <<queue, status, now, missed, joins>>

\* A mutant of Login: the invitation comes back without its timer.
LoginUntimed(p) ==
    /\ presence[p] = "offline"
    /\ presence' = [presence EXCEPT ![p] = "ready"]
    /\ slot' = IF Queued(p) THEN [slot EXCEPT ![p] = GroupOf(p).bg] ELSE slot
    /\ UNCHANGED <<queue, events, target, status, invited, free, scheduled, now, missed,
                   joins>>

\* PlayerLoggedIn: a player still in the queue is put back as he stands there,
\* with a new timer for an invitation his party has.
Login(p) ==
    /\ presence[p] = "offline"
    /\ presence' = [presence EXCEPT ![p] = "ready"]
    /\ slot' = IF Queued(p) THEN [slot EXCEPT ![p] = GroupOf(p).bg] ELSE slot
    /\ events' = IF Queued(p) /\ GroupOf(p).bg # NoBg
                 THEN [events EXCEPT ![p] =
                         {[bg |-> GroupOf(p).bg, time |-> GroupOf(p).time]}]
                 ELSE events
    /\ UNCHANGED <<queue, target, status, invited, free, scheduled, now, missed, joins>>

\* A mutant of IsPlayerInvited: removeTime is not compared.
IsPlayerInvitedAnyTime(p, e) == \E g \in GroupsWith(queue, p) : g.bg = e.bg

IsPlayerInvited(p, e) ==
    \E g \in GroupsWith(queue, p) : g.bg = e.bg /\ g.time = e.time

\* BGQueueRemoveEvent::Execute.  A player's events are run where he is updated,
\* in the world.
RemoveEvent(p, e) ==
    /\ InWorld(p) /\ e \in events[p] /\ e.time <= now
    /\ events' = [events EXCEPT ![p] = @ \ {e}]
    /\ \/ /\ slot[p] # NotQueued /\ IsPlayerInvited(p, e)
          /\ slot' = [slot EXCEPT ![p] = NotQueued]
          /\ SetBooks(RemovePlayer(Books, p, TRUE))
          /\ scheduled' = (scheduled \/ Open(e.bg))
       \/ /\ slot[p] = NotQueued \/ ~IsPlayerInvited(p, e)
          /\ UNCHANGED <<slot, queue, invited, scheduled>>
    /\ UNCHANGED <<presence, target, status, free, now, missed, joins>>

-----------------------------------------------------------------------------
(***************************************************************************)
(* Battlegrounds                                                           *)
(***************************************************************************)
\* The doors open once somebody is inside.
Start(b) ==
    /\ status[b] = "join" /\ Inside(b) # {}
    /\ status' = [status EXCEPT ![b] = "progress"]
    /\ UNCHANGED <<queue, slot, events, presence, target, invited, free, scheduled, now,
                   missed, joins>>

\* A team wins, or time is up.
EndBattleGround(b) ==
    /\ status[b] = "progress" /\ Inside(b) # {}
    /\ status' = [status EXCEPT ![b] = "leave"]
    /\ free' = RemoveFirst(free, b)
    /\ scheduled' = (scheduled \/ \E t \in Team : invited[b][t] # 0)
    /\ UNCHANGED <<queue, slot, events, presence, target, invited, now, missed, joins>>

\* SetupBattleGround failed: the battle is over, and the queue is not told.
EndNow(b) ==
    /\ status[b] = "join" /\ Inside(b) # {}
    /\ status' = [status EXCEPT ![b] = "leave"]
    /\ free' = RemoveFirst(free, b)
    /\ UNCHANGED <<queue, slot, events, presence, target, invited, scheduled, now, missed, joins>>

\* "delete this".  The counters of a battleground that is gone are gone too.
Deleted(b) ==
    /\ status' = [status EXCEPT ![b] = "gone"]
    /\ invited' = [invited EXCEPT ![b] = [t \in Team |-> 0]]
    /\ free' = RemoveFirst(free, b)
    /\ missed' = missed \ {b}

\* Two minutes after the end everyone inside is sent home.
Finish(b) ==
    /\ status[b] = "leave"
    /\ slot' = [p \in Player |-> IF p \in Inside(b) THEN NotQueued ELSE slot[p]]
    /\ target' = [p \in Player |-> IF p \in Inside(b) THEN NoBg ELSE target[p]]
    /\ presence' = [p \in Player |-> IF p \in Inside(b) THEN "away" ELSE presence[p]]
    /\ Deleted(b)
    /\ UNCHANGED <<queue, events, scheduled, now, joins>>

\* Nobody is inside: the battleground goes unless places are still counted; one
\* that has waited two minutes asks for an update of the queue.
Empty(b) ==
    /\ Exists(b) /\ Inside(b) = {}
    /\ \/ /\ \A t \in Team : invited[b][t] = 0
          /\ Deleted(b)
          /\ UNCHANGED scheduled
       \/ /\ status[b] = "join" /\ ~scheduled
          /\ \E t \in Team : invited[b][t] # 0
          /\ scheduled' = TRUE
          /\ UNCHANGED <<status, invited, free, missed>>
    /\ UNCHANGED <<queue, slot, events, presence, target, now, joins>>

-----------------------------------------------------------------------------
(***************************************************************************)
(* Selection pools.  A pool is the sequence of the parties selected; all   *)
(* of a party is selected or nobody of it.                                 *)
(***************************************************************************)
\* One for every player of every party selected; a party may be selected twice.
PlayerCount(pool) ==
    Cardinality(UNION {{i} \X pool[i].players : i \in DOMAIN pool})

\* A member in the world must be free to go; one who is not is not looked at.
Selectable(g) ==
    /\ g.bg = NoBg
    /\ \A p \in g.players : ~(InWorld(p) /\ (target[p] # NoBg \/ presence[p] = "busy"))

AddGroup(pool, g, desired) ==
    IF Selectable(g) /\ PlayerCount(pool) + Cardinality(g.players) <= desired
    THEN Append(pool, g)
    ELSE pool

\* The loop "for (...; AddGroup(...); ++itr)": it ends at the first party met
\* with the pool full; rest are the parties from there on.
FillStep(a, g, desired) ==
    IF PlayerCount(a.pool) >= desired
    THEN [a EXCEPT !.rest = Append(@, g)]
    ELSE [a EXCEPT !.pool = AddGroup(@, g, desired)]

Fill(pool, groups, desired) ==
    FoldLeft(LAMBDA a, g : FillStep(a, g, desired), [pool |-> pool, rest |-> <<>>], groups)

\* The loop of CheckPremadeMatch and CheckNormalMatch over the parties of at
\* least size players: it breaks after the party that brings the pool to
\* MinPlayers, or finds it there.
GatherStep(a, g, size) ==
    LET more == AddGroup(a.pool, g, MaxPlayers)
    IN CASE a.broke -> [a EXCEPT !.rest = Append(@, g)]
         [] ~a.broke /\ g.bg = NoBg /\ Cardinality(g.players) >= size ->
               [a EXCEPT !.pool = more, !.broke = PlayerCount(more) >= MinPlayers]
         [] OTHER -> a

Gather(pool, groups, size) ==
    FoldLeft(LAMBDA a, g : GatherStep(a, g, size),
             [pool |-> pool, rest |-> <<>>, broke |-> FALSE], groups)

\* Kick the last party whose size is within one of size, or else the last of
\* the largest.  retry: look for other parties to fill the pool with.
KickGroup(pool, size) ==
    LET n(i) == Cardinality(pool[i].players)
        near == {i \in DOMAIN pool : n(i) - size \in -1 .. 1}
        largest == {i \in DOMAIN pool : \A j \in DOMAIN pool : n(j) <= n(i)}
        kicked == Max(IF near # {} THEN near ELSE largest)
    IN IF pool = <<>>
       THEN [pool |-> pool, retry |-> TRUE]
       ELSE [pool |-> RemoveAt(pool, kicked), retry |-> n(kicked) > size + 1]

Other(t) == IF t = "alliance" THEN "horde" ELSE "alliance"

\* After a kick other parties are looked for, or not.
Refill(kick, rest, desired) ==
    IF kick.retry THEN Fill(kick.pool, rest, desired) ELSE [pool |-> kick.pool, rest |-> rest]

\* Team t, with fewer places left than o by gap, gives up a party.
GiveUp(a, freeSlots, t, o, left, gap) ==
    LET desired == IF freeSlots[t] >= left THEN freeSlots[t] - left ELSE 0
        b == [a EXCEPT ![t] = Refill(KickGroup(@.pool, gap), @.rest, desired)]
    IN CASE PlayerCount(b[t].pool) > 0 -> b
         [] PlayerCount(b[t].pool) = 0 /\ freeSlots[t] <= left + 1 -> [b EXCEPT !.stop = TRUE]
         [] OTHER -> [b EXCEPT ![o].pool = KickGroup(@, gap).pool]

\* One turn of the loop that makes the two teams of a battleground equal; left
\* are the places each has left.
BalanceStep(a, freeSlots, left) ==
    LET t == IF left["alliance"] < left["horde"] THEN "alliance" ELSE "horde"
        o == Other(t)
    IN IF a.stop \/ left[o] = left[t] \/ \A u \in Team : PlayerCount(a[u].pool) = 0
       THEN [a EXCEPT !.stop = TRUE]
       ELSE GiveUp(a, freeSlots, t, o, left[o], left[o] - left[t])

BalanceTurn(a, freeSlots) ==
    BalanceStep(a, freeSlots, [t \in Team |-> freeSlots[t] - PlayerCount(a[t].pool)])

Balance(filled, freeSlots) ==
    LET turns == [i \in 1 .. 2 * Cardinality(Player) |-> i]
        start == [alliance |-> filled["alliance"], horde |-> filled["horde"], stop |-> FALSE]
    IN FoldLeft(LAMBDA a, i : BalanceTurn(a, freeSlots), start, turns)

GetFreeSlotsForTeam(w, b, t) ==
    IF w.invited[b][t] < MaxPlayers THEN MaxPlayers - w.invited[b][t] ELSE 0

FillPlayersToBG(w, b) ==
    LET freeSlots == [t \in Team |-> GetFreeSlotsForTeam(w, b, t)]
        filled == [t \in Team |-> Fill(<<>>, w.queue[t], freeSlots[t])]
        even == IF InvitationType = 0 THEN filled ELSE Balance(filled, freeSlots)
    IN [t \in Team |-> even[t].pool]

\* InviteGroupToBG for every party of the pools.  Who is not in the world is
\* neither counted nor told; his party is invited all the same.
Invite(w, pools, b) ==
    LET chosen == UNION {ToSet(pools[t]) : t \in Team}
        called == UNION {g.players : g \in chosen}
        told == {p \in called : presence[p] = "ready" /\ target[p] = NoBg}
        due == now + InviteTime
        Mark(g) == IF g \in chosen THEN [g EXCEPT !.bg = b, !.time = due] ELSE g
    IN [queue |-> [t \in Team |-> [i \in DOMAIN w.queue[t] |-> Mark(w.queue[t][i])]],
        invited |-> [w.invited EXCEPT ![b] = [t \in Team |->
            (w.invited[b][t] + Cardinality({p \in told : TeamOf[p] = t})) % CounterSpace]],
        slot |-> [p \in Player |-> IF p \in told THEN b ELSE w.slot[p]],
        events |-> [p \in Player |->
            IF p \in told THEN w.events[p] \cup {[bg |-> b, time |-> due]} ELSE w.events[p]],
        status |-> w.status,
        free |-> w.free,
        missed |-> IF called # told THEN w.missed \cup {b} ELSE w.missed,
        full |-> w.full]

\* CreateNewBattleGround, the invitations and StartBattleGround.
Create(w, pools) ==
    LET b == Cardinality({c \in Bg : w.status[c] # "none"}) + 1
    IN IF b \notin Bg
       THEN [w EXCEPT !.full = TRUE]
       ELSE [Invite([w EXCEPT !.status[b] = "join"], pools, b)
                EXCEPT !.free = <<b>> \o @]

Enough(pools) == \A t \in Team : PlayerCount(pools[t]) >= MinPlayers

CheckPremadeMatch(w) ==
    [t \in Team |-> Gather(<<>>, w.queue[t], PremadeMinSize).pool]

\* The smaller team is filled up to the other.
EvenUp(got, pools) ==
    LET count(t) == PlayerCount(pools[t])
        j == IF count("horde") < count("alliance") THEN "horde" ELSE "alliance"
    IN IF InvitationType # 0 /\ Enough(pools)
       THEN [pools EXCEPT ![j] = Fill(@, got[j].rest, count(Other(j))).pool]
       ELSE pools

\* The pools of CheckNormalMatch.
NormalPools(w, pools) ==
    LET got == [t \in Team |-> Gather(pools[t], w.queue[t], 1)]
    IN EvenUp(got, [t \in Team |-> got[t].pool])

CheckNormalMatch(pools) ==
    /\ Enough(pools)
    /\ InvitationType # 0 =>
          PlayerCount(pools["horde"]) - PlayerCount(pools["alliance"]) \in -1 .. 1

\* Players whose battleground is over, and the ones late who have been offline
\* for a minute, leave the queue.
Purge(w, late) ==
    LET over == {p \in Player : Queued(p) /\ GroupOf(p).bg # NoBg
                                /\ status[GroupOf(p).bg] = "leave"}
        out == FoldSet(LAMBDA p, v : RemovePlayer(v, p, TRUE), w, late \cup over)
    IN [out EXCEPT !.slot = [p \in Player |->
            IF p \in over \ late /\ presence[p] # "offline" THEN NotQueued ELSE @[p]]]

\* Battlegrounds with free places first.
FillOne(v, b) ==
    LET u == Invite(v, FillPlayersToBG(v, b), b)
    IN IF ~Open(b) THEN v
       ELSE IF Cardinality(Inside(b)) < 2 * MaxPlayers THEN u
       ELSE [u EXCEPT !.free = RemoveFirst(@, b)]

FillFree(w) == FoldLeft(FillOne, w, w.free)

MakeNormal(w, pools) == IF CheckNormalMatch(pools) THEN Create(w, pools) ELSE w

\* CheckPremadeMatch leaves the parties it selected in the pools when it finds
\* no match, and CheckNormalMatch adds to them.
MakeNew(w, premade) ==
    IF Enough(premade)
    THEN LET v == Create(w, premade)
         IN MakeNormal(v, NormalPools(v, [t \in Team |-> <<>>]))
    ELSE MakeNormal(w, NormalPools(w, premade))

QueueUpdate(w) == MakeNew(w, CheckPremadeMatch(w))

Becomes(w) ==
    /\ ~w.full   \* the bound MaxBgs
    /\ SetBooks(w)
    /\ slot' = w.slot /\ events' = w.events
    /\ status' = w.status /\ free' = w.free
    /\ missed' = w.missed

\* BattleGroundMgr::Update runs the scheduled update of the queue.
Update ==
    /\ scheduled
    /\ \E late \in SUBSET {p \in Player : Queued(p) /\ presence[p] = "offline"} :
          LET w == [queue |-> queue, invited |-> invited, slot |-> slot,
                    events |-> events, status |-> status, free |-> free,
                    missed |-> missed, full |-> FALSE]
          IN Becomes(QueueUpdate(FillFree(Purge(w, late))))
    /\ scheduled' = FALSE
    /\ UNCHANGED <<presence, target, now, joins>>

Tick ==
    /\ now < MaxTime
    /\ now' = now + 1
    /\ UNCHANGED <<queue, slot, events, presence, target, status, invited, free,
                   scheduled, missed, joins>>

Next ==
    \/ \E S \in Parties : Join(S)
    \/ \E p \in Player :
          \/ Port(p) \/ LeaveQueue(p) \/ Arrive(p) \/ LeaveBattleground(p) \/ Back(p)
          \/ \E e \in events[p] : RemoveEvent(p, e)
    \/ \E p \in Roamers : Zone(p) \/ Busy(p) \/ Logout(p) \/ Login(p)
    \/ \E b \in Bg : Start(b) \/ EndBattleGround(b) \/ EndNow(b) \/ Finish(b) \/ Empty(b)
    \/ Update
    \/ Tick

Spec == Init /\ [][Next]_vars

-----------------------------------------------------------------------------
(***************************************************************************)
(* Properties                                                              *)
(***************************************************************************)
TypeOK ==
    /\ queue \in [Team -> Seq(Group)]
    /\ slot \in [Player -> {NotQueued, NoBg} \cup Bg]
    /\ events \in [Player -> SUBSET [bg : Bg, time : 0 .. MaxTime + InviteTime]]
    /\ presence \in [Player -> Where]
    /\ target \in [Player -> Bg \cup {NoBg}]
    /\ status \in [Bg -> {"none", "join", "progress", "leave", "gone"}]
    /\ invited \in [Bg -> [Team -> 0 .. CounterSpace - 1]]
    /\ free \in Seq(Bg)
    /\ scheduled \in BOOLEAN
    /\ now \in 0 .. MaxTime
    /\ missed \subseteq Bg
    /\ joins \in 0 .. MaxJoins

\* The players who hold a place of team t in b: invited in the queue, on the
\* way, or inside.
Holders(b, t) ==
    {p \in Player : /\ TeamOf[p] = t
                    /\ \/ target[p] = b
                       \/ Queued(p) /\ GroupOf(p).bg = b}

\* As long as every member of the parties invited to a battleground was in the
\* world when InviteGroupToBG called him, its counters are the numbers of the
\* players who hold a place, through every order of entering, leaving, timing
\* out, logging out and in and being purged; no team gets more than
\* MaxPlayersPerTeam.
CountKept ==
    \A b \in Bg : Exists(b) /\ b \notin missed =>
        \A t \in Team : /\ invited[b][t] = Cardinality(Holders(b, t))
                        /\ invited[b][t] <= MaxPlayers

\* A player in the queue who has been told of an invitation (his slot names the
\* battleground) has a BGQueueRemoveEvent of exactly this invitation pending, also
\* after a logout and a login: no invitation keeps its place for ever.
AlwaysTimed ==
    \A p \in Player :
        presence[p] # "offline" /\ Queued(p) /\ slot[p] \notin {NotQueued, NoBg}
        => [bg |-> GroupOf(p).bg, time |-> GroupOf(p).time] \in events[p]

\* An invitation to a battleground that is still open stands until its own time is
\* up, unless the player himself enters, leaves the queue or is offline: neither an
\* event left over from an earlier invitation (the cases 2 to 4 of the comment on
\* BGQueueRemoveEvent), nor a member of his party, nor an update of the queue takes
\* it from him.
InvitationStands ==
    [][\A p \in Player :
          \A g \in GroupsWith(queue, p) :
              presence[p] # "offline" /\ Open(g.bg) /\ Open(g.bg)' /\ now < g.time =>
                  \/ \E h \in GroupsWith(queue', p) : h.bg = g.bg /\ h.time = g.time
                  \/ Port(p)
                  \/ LeaveQueue(p)]_vars

\* BattleGround.h: "Invited counters will be changed only when removing already
\* invited player from queue, removing player from battleground and inviting player to
\* BG": a counter never goes below zero (it is a uint32 and becomes very large).
InvitedCounted ==
    \A b \in Bg : \A t \in Team : invited[b][t] <= Cardinality(Player)
=============================================================================
