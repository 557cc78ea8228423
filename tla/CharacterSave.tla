--------------------------- MODULE CharacterSave ---------------------------
(***************************************************************************)
(* Characters between memory and the database: the saves that trades, the  *)
(* timer, lost connections and logouts queue, and the logins that read     *)
(* them back.  Every save and every login query carries the character's    *)
(* guid as its serial id, so that the requests of one character are        *)
(* carried out in their order and those of different characters in any     *)
(* order: the promise of SerialStore, here one queue per character.        *)
(*                                                                         *)
(* The purse is written as a value, by its owner's saves only.  An item is *)
(* one row of character_inventory whose guid column says whose it is; the  *)
(* row is moved by a save of the character who received the item.          *)
(*                                                                         *)
(* Every character has an account of its own.  A character whose client is *)
(* gone stays in the world for a while (ForcePlayerLogoutDelay) and can be *)
(* taken over by the next session of the account.                          *)
(***************************************************************************)
EXTENDS Naturals, Sequences, FiniteSets

CONSTANTS
    Character,
    Unreliable,   \* characters whose connection may be lost
    Item,
    StartGold,    \* the purse of everyone in the first state
    StartOwner,   \* whose row an item is in the first state
    MaxGold,      \* bound: the largest purse
    MaxQueue      \* bound: requests and results of a character that wait

ASSUME CharacterSaveAssumption ==
    /\ IsFiniteSet(Character) /\ Unreliable \subseteq Character
    /\ StartOwner \in [Item -> Character]
    /\ StartGold \in 0 .. MaxGold /\ MaxGold \in Nat /\ MaxQueue \in Nat

VARIABLES
    money,     \* characters.money
    owner,     \* character_inventory.guid
    requests,  \* per character, the requests its serial id keeps in order
    results,   \* per character, login results waiting for ProcessResultQueue
    session,   \* the account's session
    inWorld,   \* the Player object exists
    gold,      \* GetMoney of the characters in the world
    items,     \* the items of the characters in the world
    left       \* history: the purse a character left the world with

vars == <<money, owner, requests, results, session, inWorld, gold, items, left>>

SessionState == {"none", "idle", "loading", "playing"}

Init ==
    /\ money = [c \in Character |-> StartGold]
    /\ owner = StartOwner
    /\ requests = [c \in Character |-> <<>>]
    /\ results = [c \in Character |-> <<>>]
    /\ session = [c \in Character |-> "none"]
    /\ inWorld = [c \in Character |-> FALSE]
    /\ gold = [c \in Character |-> 0]
    /\ items = [c \in Character |-> {}]
    /\ left = money

-----------------------------------------------------------------------------
(***************************************************************************)
(* Requests                                                                *)
(***************************************************************************)
\* SaveInventoryAndGoldToDB, and SaveToDB as far as purse and inventory go: the
\* purse as it is now and the rows of the items in the update queue, which are
\* the ones received since the last save.
Save(purse, received) == [kind |-> "save", gold |-> purse, items |-> received]

\* LoginQueryHolder.  stale (history): the character left the world after this
\* query was asked for.
LoginQuery == [kind |-> "login", stale |-> FALSE]

HasRoom(c) == Len(requests[c]) + Len(results[c]) < MaxQueue   \* the bound MaxQueue

MarkStale(q) == [i \in DOMAIN q |->
                    IF q[i].kind = "login" THEN [q[i] EXCEPT !.stale = TRUE] ELSE q[i]]

\* A mutant of DueRequests: the login query has no serial id.
DueRequestsUnserialised(c) ==
    {i \in DOMAIN requests[c] : i = 1 \/ requests[c][i].kind = "login"}

\* Which requests of a character a worker may carry out: the first one.
DueRequests(c) == {i \in DOMAIN requests[c] : i = 1}

Without(q, i) == SubSeq(q, 1, i - 1) \o SubSeq(q, i + 1, Len(q))

\* A worker carries out a request: one transaction, or the queries of a login.
Execute(c) ==
    \E i \in DueRequests(c) :
        LET r == requests[c][i]
        IN /\ requests' = [requests EXCEPT ![c] = Without(@, i)]
           /\ \/ /\ r.kind = "save"
                 /\ money' = [money EXCEPT ![c] = r.gold]
                 /\ owner' = [x \in Item |-> IF x \in r.items THEN c ELSE owner[x]]
                 /\ UNCHANGED results
              \/ /\ r.kind = "login"
                 /\ results' = [results EXCEPT ![c] =
                       Append(@, [kind |-> "login", stale |-> r.stale, gold |-> money[c],
                                  items |-> {x \in Item : owner[x] = c}])]
                 /\ UNCHANGED <<money, owner>>
           /\ UNCHANGED <<session, inWorld, gold, items, left>>

-----------------------------------------------------------------------------
(***************************************************************************)
(* Characters in the world                                                 *)
(***************************************************************************)
\* A share of the gold of a corpse, which a member of the party gets whether or not
\* he has a client: saved with the next save.
Earn(c) ==
    /\ inWorld[c] /\ gold[c] < MaxGold
    /\ gold' = [gold EXCEPT ![c] = @ + 1]
    /\ UNCHANGED <<money, owner, requests, results, session, inWorld, items, left>>

\* a and b complete a trade: a gives one item or one gold.  The two saves go to the
\* two serial queues; a save of the giver has nothing to say of the item he gave.
Trade(a, b) ==
    /\ a # b /\ session[a] = "playing" /\ session[b] = "playing"
    /\ HasRoom(a) /\ HasRoom(b)
    /\ \/ \E x \in items[a] :
             /\ items' = [items EXCEPT ![a] = @ \ {x}, ![b] = @ \cup {x}]
             /\ requests' = [requests EXCEPT ![a] = Append(@, Save(gold[a], {})),
                                             ![b] = Append(@, Save(gold[b], {x}))]
             /\ UNCHANGED gold
       \/ /\ gold[a] > 0 /\ gold[b] < MaxGold
          /\ gold' = [gold EXCEPT ![a] = @ - 1, ![b] = @ + 1]
          /\ requests' = [requests EXCEPT ![a] = Append(@, Save(gold[a] - 1, {})),
                                          ![b] = Append(@, Save(gold[b] + 1, {}))]
          /\ UNCHANGED items
    /\ UNCHANGED <<money, owner, results, session, inWorld, left>>

SaveToDB(c) == requests' = [requests EXCEPT ![c] = Append(@, Save(gold[c], {}))]

\* The timer of Player::Update.
Autosave(c) ==
    /\ inWorld[c] /\ HasRoom(c)
    /\ SaveToDB(c)
    /\ UNCHANGED <<money, owner, results, session, inWorld, gold, items, left>>

\* LogoutPlayer: a last save, and the Player object is gone.
LogoutPlayer(c, after) ==
    /\ inWorld[c] /\ HasRoom(c)
    /\ requests' = [requests EXCEPT ![c] = Append(MarkStale(@), Save(gold[c], {}))]
    /\ results' = [results EXCEPT ![c] = MarkStale(@)]
    /\ session' = [session EXCEPT ![c] = after]
    /\ inWorld' = [inWorld EXCEPT ![c] = FALSE]
    /\ left' = [left EXCEPT ![c] = gold[c]]
    /\ gold' = [gold EXCEPT ![c] = 0]
    /\ items' = [items EXCEPT ![c] = {}]
    /\ UNCHANGED <<money, owner>>

\* The client asks to log out.
Logout(c) == session[c] = "playing" /\ LogoutPlayer(c, "idle")

\* A disconnected session's time is up.
Expire(c) == session[c] # "playing" /\ LogoutPlayer(c, session[c])

-----------------------------------------------------------------------------
(***************************************************************************)
(* Sessions                                                                *)
(***************************************************************************)
\* The session leaves m_sessions and a new one takes its place, or none.
NewSession(c, after) ==
    /\ session' = [session EXCEPT ![c] = after]
    /\ UNCHANGED <<money, owner, results, inWorld, gold, items, left>>

Connect(c) ==
    /\ session[c] = "none"
    /\ NewSession(c, "idle")
    /\ UNCHANGED requests

\* ForcePlayerLogoutDelay: the connection is lost, or AddSession_ replaces the
\* session by the account's next one; the character stays in the world and is saved.
LoseLink(c, after) ==
    /\ session[c] = "playing" /\ HasRoom(c)
    /\ NewSession(c, after)
    /\ SaveToDB(c)

\* A character between two maps does not stay: the session is deleted with it.
DropPlayer(c, after) == session[c] = "playing" /\ LogoutPlayer(c, after)

\* Nobody is in the world for this session.  A login it asked for stays queued.  A
\* session that is loading is not replaced by another one.
DropSession(c) ==
    /\ session[c] \in {"idle", "loading"}
    /\ NewSession(c, "none")
    /\ UNCHANGED requests

\* CMSG_PLAYER_LOGIN
HandlePlayerLoginOpcode(c) ==
    /\ session[c] = "idle" /\ HasRoom(c)
    /\ NewSession(c, "loading")
    /\ requests' = [requests EXCEPT ![c] = Append(@, LoginQuery)]

\* HandlePlayerLoginCallback and HandlePlayerLogin.  The first result that meets a
\* loading session is taken, whichever session asked for it; a character found in
\* the world is taken over as he is.
HandlePlayerLogin(c) ==
    /\ results[c] # <<>>
    /\ results' = [results EXCEPT ![c] = Tail(@)]
    /\ \/ /\ session[c] # "loading"
          /\ UNCHANGED <<session, inWorld, gold, items>>
       \/ /\ session[c] = "loading"
          /\ session' = [session EXCEPT ![c] = "playing"]
          /\ \/ inWorld[c] /\ UNCHANGED <<inWorld, gold, items>>
             \/ /\ ~inWorld[c]
                /\ inWorld' = [inWorld EXCEPT ![c] = TRUE]
                /\ gold' = [gold EXCEPT ![c] = Head(results[c]).gold]
                /\ items' = [items EXCEPT ![c] = Head(results[c]).items]
    /\ UNCHANGED <<money, owner, requests, left>>

Next ==
    \/ \E c \in Character :
          \/ Execute(c) \/ Earn(c) \/ Autosave(c) \/ Logout(c) \/ Expire(c)
          \/ \E d \in Character : Trade(c, d)
          \/ Connect(c) \/ HandlePlayerLoginOpcode(c) \/ HandlePlayerLogin(c)
    \/ \E c \in Unreliable :
          \/ DropSession(c)
          \/ \E after \in {"none", "idle"} : LoseLink(c, after) \/ DropPlayer(c, after)

Spec == Init /\ [][Next]_vars

-----------------------------------------------------------------------------
(***************************************************************************)
(* Properties                                                              *)
(***************************************************************************)
\* A login that was asked for after the character left the world gives him the
\* purse he left with, whatever is still queued for him and for the ones he traded
\* with, and through lost connections, sessions replaced while loading and results
\* that come too late: no gold is made or lost by relogging.  ("Must be serialized in
\* a transaction with the player GUID, or it can lead to duping by relogging before
\* the query completes", SaveGoldToDB.)
LoginAsLeft ==
    [][\A c \in Character :
          ~inWorld[c] /\ inWorld'[c] /\ ~Head(results[c]).stale => gold'[c] = left[c]]_vars

\* No item is in the hands of two characters: SaveInventoryAndGoldToDB is serialised
\* with the player's guid so that relogging before it completes does not duplicate
\* what was given away (the comment on SaveInventoryAndGoldToDB).
NoDuplicate ==
    \A x \in Item : \A c, d \in Character :
        x \in items[c] /\ x \in items[d] => c = d
=============================================================================
