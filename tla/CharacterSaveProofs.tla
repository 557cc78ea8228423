------------------------ MODULE CharacterSaveProofs ------------------------
(***************************************************************************)
(* LoginAsLeft for every set of characters and items and every bound on    *)
(* purses and queues.  The argument is about one character who is not in   *)
(* the world: his queue, read to its end, brings his row to the purse he   *)
(* left with, and it does so before any login that was asked for since.    *)
(***************************************************************************)
EXTENDS CharacterSave, SequenceTheorems, TLAPS

SaveRequest == [kind : {"save"}, gold : Nat, items : SUBSET Item]
LoginRequest == [kind : {"login"}, stale : BOOLEAN]
Request == SaveRequest \cup LoginRequest
Result == [kind : {"login"}, stale : BOOLEAN, gold : Nat, items : SUBSET Item]

TypeInv ==
    /\ money \in [Character -> Nat]
    /\ owner \in [Item -> Character]
    /\ requests \in [Character -> Seq(Request)]
    /\ results \in [Character -> Seq(Result)]
    /\ session \in [Character -> SessionState]
    /\ inWorld \in [Character -> BOOLEAN]
    /\ gold \in [Character -> Nat]
    /\ items \in [Character -> SUBSET Item]
    /\ left \in [Character -> Nat]

IsSave(r) == r.kind = "save"
IsFresh(r) == r.kind = "login" /\ ~r.stale

\* With the requests q still queued and the purse m in the row, the character left
\* with l: no save comes behind a login asked for since; the last save carries l; and
\* if no save is queued then the row already says l.
Settles(q, m, l) ==
    /\ \A i, j \in DOMAIN q : IsFresh(q[i]) /\ IsSave(q[j]) => j < i
    /\ \A i \in DOMAIN q :
          IsSave(q[i]) /\ (\A j \in DOMAIN q : IsSave(q[j]) => j <= i) => q[i].gold = l
    /\ (\A i \in DOMAIN q : ~IsSave(q[i])) => m = l

\* What holds of a character who is not in the world.
Away(c) ==
    /\ session[c] # "playing"
    /\ Settles(requests[c], money[c], left[c])
    /\ \A i \in DOMAIN results[c] : ~results[c][i].stale => results[c][i].gold = left[c]

Inv == TypeInv /\ \A c \in Character : ~inWorld[c] => Away(c)

-----------------------------------------------------------------------------
(***************************************************************************)
(* Queues                                                                  *)
(***************************************************************************)
\* What is left of a queue when its first element is taken out.
LEMMA WithoutFirst ==
  ASSUME NEW S, NEW q \in Seq(S), q # << >>
  PROVE  /\ Without(q, 1) \in Seq(S)
         /\ Len(Without(q, 1)) = Len(q) - 1
         /\ \A i \in 1 .. Len(q) - 1 : Without(q, 1)[i] = q[i + 1]
<1>1. Len(q) \in Nat /\ Len(q) # 0
  OBVIOUS
<1>2. SubSeq(q, 1, 0) = << >>
  OBVIOUS
<1>3. Without(q, 1) = SubSeq(q, 2, Len(q))
  <2>1. SubSeq(q, 2, Len(q)) \in Seq(S)
    BY <1>1
  <2>2. Without(q, 1) = << >> \o SubSeq(q, 2, Len(q))
    BY <1>2 DEF Without
  <2>3. \A t \in Seq(S) : << >> \o t = t
    BY ConcatEmptySeq
  <2> QED  BY <2>1, <2>2, <2>3
<1>4. /\ SubSeq(q, 2, Len(q)) \in Seq(S)
      /\ Len(SubSeq(q, 2, Len(q))) = Len(q) - 1
  <2>1. \A i \in 2 .. Len(q) : q[i] \in S
    BY <1>1
  <2>2. 2 \in Int /\ Len(q) \in Int
    BY <1>1
  <2>3. Len(SubSeq(q, 2, Len(q))) = IF 2 <= Len(q) THEN Len(q) - 2 + 1 ELSE 0
    BY <2>1, <2>2, SubSeqProperties
  <2>4. SubSeq(q, 2, Len(q)) \in Seq(S)
    BY <2>1, <2>2, SubSeqProperties
  <2>5. \A n \in Nat : n # 0 => (IF 2 <= n THEN n - 2 + 1 ELSE 0) = n - 1
    OBVIOUS
  <2> QED  BY <1>1, <2>3, <2>4, <2>5
<1>5. \A i \in 1 .. Len(q) - 1 : SubSeq(q, 2, Len(q))[i] = q[i + 1]
  BY <1>1
<1> QED  BY <1>3, <1>4, <1>5

\* MarkStale keeps the saves where they are and leaves no fresh login.
LEMMA MarkedQueue ==
  ASSUME NEW q \in Seq(Request)
  PROVE  /\ MarkStale(q) \in Seq(Request)
         /\ Len(MarkStale(q)) = Len(q)
         /\ \A i \in 1 .. Len(q) : ~IsFresh(MarkStale(q)[i])
<1>1. Len(q) \in Nat /\ DOMAIN q = 1 .. Len(q)
  OBVIOUS
<1>2. \A i \in 1 .. Len(q) : q[i] \in Request
  OBVIOUS
<1>3. \A r \in Request : /\ r.kind = "login" => r \in LoginRequest
                         /\ r.kind # "login" => r \in SaveRequest
  BY DEF Request, SaveRequest, LoginRequest
<1>4. \A i \in 1 .. Len(q) :
         /\ MarkStale(q)[i] \in Request
         /\ ~IsFresh(MarkStale(q)[i])
  <2> SUFFICES ASSUME NEW i \in 1 .. Len(q)
               PROVE  MarkStale(q)[i] \in Request /\ ~IsFresh(MarkStale(q)[i])
    OBVIOUS
  <2>1. CASE q[i].kind = "login"
    <3>1. q[i] \in LoginRequest
      BY <1>2, <1>3, <2>1
    <3>2. MarkStale(q)[i] = [q[i] EXCEPT !.stale = TRUE]
      BY <1>1, <2>1 DEF MarkStale
    <3> QED  BY <3>1, <3>2 DEF Request, LoginRequest, IsFresh
  <2>2. CASE q[i].kind # "login"
    <3>1. MarkStale(q)[i] = q[i]
      BY <1>1, <2>2 DEF MarkStale
    <3> QED  BY <1>2, <2>2, <3>1 DEF IsFresh
  <2> QED  BY <2>1, <2>2
<1>5. MarkStale(q) = [i \in 1 .. Len(q) |-> MarkStale(q)[i]]
  BY <1>1 DEF MarkStale
<1>6. MarkStale(q) \in [1 .. Len(q) -> Request]
  BY <1>4, <1>5
<1>7. MarkStale(q) \in Seq(Request)
  BY <1>1, <1>6, SeqDef
<1> QED  BY <1>1, <1>4, <1>5, <1>7

\* The same for the results.
LEMMA MarkedResults ==
  ASSUME NEW q \in Seq(Result)
  PROVE  /\ MarkStale(q) \in Seq(Result)
         /\ \A i \in DOMAIN MarkStale(q) : MarkStale(q)[i].stale
<1>1. Len(q) \in Nat /\ DOMAIN q = 1 .. Len(q)
  OBVIOUS
<1>2. \A i \in 1 .. Len(q) : q[i] \in Result
  OBVIOUS
<1>3. \A i \in 1 .. Len(q) : MarkStale(q)[i] = [q[i] EXCEPT !.stale = TRUE]
  BY <1>1, <1>2 DEF MarkStale, Result
<1>4. \A i \in 1 .. Len(q) : MarkStale(q)[i] \in Result /\ MarkStale(q)[i].stale
  BY <1>2, <1>3 DEF Result
<1>5. MarkStale(q) = [i \in 1 .. Len(q) |-> MarkStale(q)[i]]
  BY <1>1 DEF MarkStale
<1>6. MarkStale(q) \in [1 .. Len(q) -> Result]
  BY <1>4, <1>5
<1> QED  BY <1>1, <1>4, <1>5, <1>6, SeqDef

\* The first request is carried out: a save moves its purse to the row; a fresh login
\* finds that the row says what the character left with.
LEMMA FirstSettles ==
  ASSUME NEW q \in Seq(Request), NEW m, NEW l, q # << >>, Settles(q, m, l)
  PROVE  /\ IsSave(q[1]) => Settles(Without(q, 1), q[1].gold, l)
         /\ ~IsSave(q[1]) => Settles(Without(q, 1), m, l)
         /\ IsFresh(q[1]) => m = l
<1> DEFINE t == Without(q, 1)
<1>1. Len(q) \in Nat /\ Len(q) # 0 /\ DOMAIN q = 1 .. Len(q)
  OBVIOUS
<1>2. /\ t \in Seq(Request) /\ Len(t) = Len(q) - 1
      /\ \A i \in 1 .. Len(q) - 1 : t[i] = q[i + 1]
  BY WithoutFirst
<1>3. DOMAIN t = 1 .. Len(q) - 1
  BY <1>2
<1>4. \A i \in DOMAIN t : i + 1 \in DOMAIN q /\ t[i] = q[i + 1] /\ i \in Nat
  BY <1>1, <1>2, <1>3
<1>5. \A i \in DOMAIN q : i \in Nat /\ (i # 1 => i - 1 \in DOMAIN t /\ t[i - 1] = q[i])
  BY <1>1, <1>2, <1>3
<1> HIDE DEF t
<1>6. \A i, j \in DOMAIN t : IsFresh(t[i]) /\ IsSave(t[j]) => j < i
  <2> SUFFICES ASSUME NEW i \in DOMAIN t, NEW j \in DOMAIN t, IsFresh(t[i]), IsSave(t[j])
               PROVE  j < i
    OBVIOUS
  <2>1. j + 1 < i + 1
    BY <1>4 DEF Settles
  <2> QED  BY <1>4, <2>1
<1>7. \A i \in DOMAIN t :
         IsSave(t[i]) /\ (\A j \in DOMAIN t : IsSave(t[j]) => j <= i) => t[i].gold = l
  <2> SUFFICES ASSUME NEW i \in DOMAIN t, IsSave(t[i]),
                      \A j \in DOMAIN t : IsSave(t[j]) => j <= i
               PROVE  t[i].gold = l
    OBVIOUS
  <2>1. \A j \in DOMAIN q : IsSave(q[j]) => j <= i + 1
    <3> SUFFICES ASSUME NEW j \in DOMAIN q, IsSave(q[j])  PROVE  j <= i + 1
      OBVIOUS
    <3>1. CASE j = 1  BY <1>4, <3>1
    <3>2. CASE j # 1
      <4>1. j - 1 \in DOMAIN t /\ IsSave(t[j - 1]) /\ j \in Nat
        BY <1>5, <3>2
      <4>2. j - 1 <= i
        BY <4>1
      <4> QED  BY <1>4, <4>1, <4>2
    <3> QED  BY <3>1, <3>2
  <2> QED  BY <1>4, <2>1 DEF Settles
<1>8. 1 \in DOMAIN q
  BY <1>1
<1>9. ASSUME IsSave(q[1])  PROVE  Settles(t, q[1].gold, l)
  <2>1. ASSUME \A i \in DOMAIN t : ~IsSave(t[i])  PROVE  q[1].gold = l
    <3>1. \A j \in DOMAIN q : IsSave(q[j]) => j = 1
      BY <1>5, <2>1
    <3>2. \A j \in DOMAIN q : IsSave(q[j]) => j <= 1
      BY <3>1
    <3> QED  BY <1>8, <1>9, <3>2 DEF Settles
  <2> QED  BY <1>6, <1>7, <2>1 DEF Settles
<1>10. ASSUME ~IsSave(q[1])  PROVE  Settles(t, m, l)
  <2>1. ASSUME \A i \in DOMAIN t : ~IsSave(t[i])  PROVE  m = l
    <3>1. \A j \in DOMAIN q : ~IsSave(q[j])
      BY <1>5, <1>10, <2>1
    <3> QED  BY <3>1 DEF Settles
  <2> QED  BY <1>6, <1>7, <2>1 DEF Settles
<1>11. ASSUME IsFresh(q[1])  PROVE  m = l
  <2>1. \A j \in DOMAIN q : ~IsSave(q[j])
    <3> SUFFICES ASSUME NEW j \in DOMAIN q, IsSave(q[j])  PROVE  FALSE
      OBVIOUS
    <3>1. j < 1
      BY <1>8, <1>11 DEF Settles
    <3> QED  BY <1>1, <3>1
  <2> QED  BY <2>1 DEF Settles
<1> QED  BY <1>9, <1>10, <1>11 DEF t

\* A login query behind everything else.
LEMMA LoginSettles ==
  ASSUME NEW q \in Seq(Request), NEW m, NEW l, Settles(q, m, l)
  PROVE  Settles(Append(q, LoginQuery), m, l)
<1> DEFINE t == Append(q, LoginQuery)
<1>1. LoginQuery \in Request /\ ~IsSave(LoginQuery)
  BY DEF LoginQuery, Request, LoginRequest, IsSave
<1>2. Len(q) \in Nat /\ DOMAIN q = 1 .. Len(q)
  OBVIOUS
<1>3. /\ DOMAIN t = 1 .. Len(q) + 1
      /\ t[Len(q) + 1] = LoginQuery
      /\ \A i \in 1 .. Len(q) : t[i] = q[i]
  BY <1>1
<1> HIDE DEF t
<1>4. \A i \in DOMAIN t : /\ i \in Nat
                       /\ \/ i \in DOMAIN q /\ t[i] = q[i]
                          \/ i = Len(q) + 1 /\ ~IsSave(t[i])
  BY <1>1, <1>2, <1>3
<1>5. \A i \in DOMAIN q : i \in DOMAIN t /\ t[i] = q[i] /\ i \in Nat /\ i < Len(q) + 1
  BY <1>2, <1>3
<1>6. \A i, j \in DOMAIN t : IsFresh(t[i]) /\ IsSave(t[j]) => j < i
  BY <1>2, <1>4, <1>5 DEF Settles
<1>7. \A i \in DOMAIN t :
         IsSave(t[i]) /\ (\A j \in DOMAIN t : IsSave(t[j]) => j <= i) => t[i].gold = l
  <2> SUFFICES ASSUME NEW i \in DOMAIN t, IsSave(t[i]),
                      \A j \in DOMAIN t : IsSave(t[j]) => j <= i
               PROVE  t[i].gold = l
    OBVIOUS
  <2>1. i \in DOMAIN q /\ t[i] = q[i]
    BY <1>4
  <2>2. \A j \in DOMAIN q : IsSave(q[j]) => j <= i
    BY <1>5
  <2> QED  BY <2>1, <2>2 DEF Settles
<1>8. (\A i \in DOMAIN t : ~IsSave(t[i])) => m = l
  BY <1>5 DEF Settles
<1> QED  BY <1>6, <1>7, <1>8 DEF Settles, t

\* LogoutPlayer: every login asked for so far is stale, and the last save carries the
\* purse the character leaves with, whatever the row says.
LEMMA LogoutSettles ==
  ASSUME NEW q \in Seq(Request), NEW m, NEW l \in Nat
  PROVE  Settles(Append(MarkStale(q), Save(l, {})), m, l)
<1> DEFINE u == MarkStale(q)
           t == Append(u, Save(l, {}))
<1>1. Save(l, {}) \in Request /\ IsSave(Save(l, {})) /\ ~IsFresh(Save(l, {})) /\ Save(l, {}).gold = l
  BY DEF Save, Request, SaveRequest, IsSave, IsFresh
<1>2. u \in Seq(Request) /\ Len(u) = Len(q) /\ \A i \in 1 .. Len(q) : ~IsFresh(u[i])
  BY MarkedQueue
<1> HIDE DEF u
<1>3. Len(q) \in Nat
  OBVIOUS
<1>4. /\ DOMAIN t = 1 .. Len(q) + 1
      /\ t[Len(q) + 1] = Save(l, {})
      /\ \A i \in 1 .. Len(q) : t[i] = u[i]
  BY <1>1, <1>2
<1> HIDE DEF t
<1>5. \A i \in DOMAIN t : ~IsFresh(t[i]) /\ i <= Len(q) + 1
  BY <1>1, <1>2, <1>3, <1>4
<1>6. Len(q) + 1 \in DOMAIN t /\ IsSave(t[Len(q) + 1]) /\ t[Len(q) + 1].gold = l
  BY <1>1, <1>3, <1>4
<1>7. \A i \in DOMAIN t :
         IsSave(t[i]) /\ (\A j \in DOMAIN t : IsSave(t[j]) => j <= i) => t[i].gold = l
  BY <1>3, <1>4, <1>5, <1>6
<1> QED  BY <1>5, <1>6, <1>7 DEF Settles, t, u

-----------------------------------------------------------------------------
(***************************************************************************)
(* Steps                                                                   *)
(***************************************************************************)
\* Nothing changes for a character whose queues, row, session and past are the same.
LEMMA StaysAway ==
  ASSUME NEW c, Away(c), session'[c] # "playing",
         requests'[c] = requests[c], money'[c] = money[c], left'[c] = left[c],
         results'[c] = results[c]
  PROVE  Away(c)'
BY DEF Away, Settles

\* The requests and results that the handlers write have their types.
LEMMA RequestTypes ==
  /\ LoginQuery \in Request
  /\ \A purse \in Nat, received \in SUBSET Item : Save(purse, received) \in Request
BY DEF LoginQuery, Save, Request, SaveRequest, LoginRequest

\* A worker carries out a request.
LEMMA ExecuteKeeps ==
  ASSUME Inv, NEW c \in Character, Execute(c)  PROVE  Inv'
<1> DEFINE q == requests[c]
<1>0. q \in Seq(Request)
  BY DEF Inv, TypeInv
<1>1. q # << >> /\ 1 \in DOMAIN q /\ q[1] \in Request
  BY <1>0 DEF Execute, DueRequests
<1>2. \/ IsSave(q[1]) /\ q[1] \in SaveRequest
      \/ q[1].kind = "login" /\ ~IsSave(q[1]) /\ q[1] \in LoginRequest
  BY <1>1 DEF Request, SaveRequest, LoginRequest, IsSave
<1>3. requests' = [requests EXCEPT ![c] = Without(q, 1)]
  BY DEF Execute, DueRequests
<1>4. Without(q, 1) \in Seq(Request)
  BY <1>0, <1>1, WithoutFirst
<1>5. UNCHANGED <<session, inWorld, gold, items, left>>
  BY DEF Execute
<1>6. requests' \in [Character -> Seq(Request)]
  BY <1>3, <1>4 DEF Inv, TypeInv
<1>7. CASE IsSave(q[1])
  <2>1. /\ money' = [money EXCEPT ![c] = q[1].gold]
        /\ owner' = [x \in Item |-> IF x \in q[1].items THEN c ELSE owner[x]]
        /\ results' = results
    BY <1>7 DEF Execute, DueRequests, IsSave
  <2>2. q[1].gold \in Nat
    BY <1>2, <1>7 DEF SaveRequest
  <2>3. TypeInv'
    BY <1>5, <1>6, <2>1, <2>2 DEF Inv, TypeInv
  <2>4. ASSUME NEW d \in Character, ~inWorld'[d]  PROVE  Away(d)'
    <3>1. Away(d)
      BY <1>5, <2>4 DEF Inv
    <3>2. CASE d # c
      BY <1>3, <1>5, <2>1, <3>1, <3>2, StaysAway DEF Inv, TypeInv, Away
    <3>3. CASE d = c
      <4>1. Settles(Without(q, 1), q[1].gold, left[c])
        BY <1>0, <1>1, <1>7, <3>1, <3>3, FirstSettles DEF Away
      <4>2. requests'[c] = Without(q, 1) /\ money'[c] = q[1].gold
        BY <1>3, <2>1 DEF Inv, TypeInv
      <4> QED  BY <1>5, <2>1, <3>1, <3>3, <4>1, <4>2 DEF Away, Settles
    <3> QED  BY <3>2, <3>3
  <2> QED  BY <2>3, <2>4 DEF Inv
<1>8. CASE ~IsSave(q[1])
  <2> DEFINE r == [kind |-> "login", stale |-> q[1].stale, gold |-> money[c],
                   items |-> {x \in Item : owner[x] = c}]
  <2>1. /\ results' = [results EXCEPT ![c] = Append(@, r)]
        /\ UNCHANGED <<money, owner>>
    BY <1>8 DEF Execute, DueRequests, IsSave
  <2>2. r \in Result
    BY <1>2, <1>8 DEF Inv, TypeInv, Result, LoginRequest
  <2>3. results[c] \in Seq(Result)
    BY DEF Inv, TypeInv
  <2>4. TypeInv'
    BY <1>5, <1>6, <2>1, <2>2 DEF Inv, TypeInv
  <2>5. ASSUME NEW d \in Character, ~inWorld'[d]  PROVE  Away(d)'
    <3>1. Away(d)
      BY <1>5, <2>5 DEF Inv
    <3>2. CASE d # c
      BY <1>3, <1>5, <2>1, <3>1, <3>2, StaysAway DEF Inv, TypeInv, Away
    <3>3. CASE d = c
      <4>1. /\ Settles(Without(q, 1), money[c], left[c])
            /\ IsFresh(q[1]) => money[c] = left[c]
        BY <1>0, <1>1, <1>8, <3>1, <3>3, FirstSettles DEF Away
      <4>2. requests'[c] = Without(q, 1) /\ money'[c] = money[c]
            /\ results'[c] = Append(results[c], r)
        BY <1>3, <2>1 DEF Inv, TypeInv
      <4>3. r.stale = q[1].stale /\ r.gold = money[c]
        OBVIOUS
      <4>4. ~r.stale => r.gold = left[c]
        BY <1>2, <1>8, <4>1, <4>3 DEF IsFresh
      <4> HIDE DEF r
      <4>5. \A i \in DOMAIN Append(results[c], r) :
               ~Append(results[c], r)[i].stale => Append(results[c], r)[i].gold = left[c]
        <5> SUFFICES ASSUME NEW i \in DOMAIN Append(results[c], r), ~Append(results[c], r)[i].stale
                     PROVE  Append(results[c], r)[i].gold = left[c]
          OBVIOUS
        <5>1. /\ Len(results[c]) \in Nat /\ DOMAIN results[c] = 1 .. Len(results[c])
              /\ i \in 1 .. Len(results[c]) + 1
          BY <2>2, <2>3
        <5>2. CASE i = Len(results[c]) + 1
          BY <2>2, <2>3, <4>4, <5>2
        <5>3. CASE i \in DOMAIN results[c]
          BY <2>2, <2>3, <3>1, <3>3, <5>3 DEF Away
        <5> QED  BY <5>1, <5>2, <5>3
      <4> QED  BY <1>5, <3>1, <3>3, <4>1, <4>2, <4>5 DEF Away, Settles
    <3> QED  BY <3>2, <3>3
  <2> QED  BY <2>4, <2>5 DEF Inv
<1> QED  BY <1>7, <1>8

\* A save of a character in the world, with the rows of what he received.
LEMMA SaveKeepsType ==
  ASSUME Inv, NEW c \in Character, NEW r \in Request
  PROVE  [requests EXCEPT ![c] = Append(@, r)] \in [Character -> Seq(Request)]
BY DEF Inv, TypeInv

\* Logout, expiry and the deletion of a session in flight.
LEMMA LogoutKeeps ==
  ASSUME Inv, NEW c \in Character, NEW after \in SessionState \ {"playing"},
         LogoutPlayer(c, after)
  PROVE  Inv'
<1> DEFINE q == Append(MarkStale(requests[c]), Save(gold[c], {}))
<1>1. requests[c] \in Seq(Request) /\ results[c] \in Seq(Result) /\ gold[c] \in Nat
  BY DEF Inv, TypeInv
<1>2. MarkStale(requests[c]) \in Seq(Request)
  BY <1>1, MarkedQueue
<1>3. q \in Seq(Request)
  BY <1>1, <1>2, RequestTypes
<1>4. /\ MarkStale(results[c]) \in Seq(Result)
      /\ \A i \in DOMAIN MarkStale(results[c]) : MarkStale(results[c])[i].stale
  BY <1>1, MarkedResults
<1>5. Settles(q, money[c], gold[c])
  BY <1>1, LogoutSettles
<1> HIDE DEF q
<1>6. /\ requests' = [requests EXCEPT ![c] = q]
      /\ results' = [results EXCEPT ![c] = MarkStale(results[c])]
      /\ session' = [session EXCEPT ![c] = after]
      /\ inWorld' = [inWorld EXCEPT ![c] = FALSE]
      /\ left' = [left EXCEPT ![c] = gold[c]]
      /\ gold' = [gold EXCEPT ![c] = 0]
      /\ items' = [items EXCEPT ![c] = {}]
      /\ UNCHANGED <<money, owner>>
  BY DEF LogoutPlayer, q
<1>7. TypeInv'
  BY <1>1, <1>3, <1>4, <1>6 DEF Inv, TypeInv, SessionState
<1>8. ASSUME NEW d \in Character, ~inWorld'[d]  PROVE  Away(d)'
  <2>1. CASE d # c
    <3>1. /\ inWorld'[d] = inWorld[d] /\ session'[d] = session[d] /\ requests'[d] = requests[d]
          /\ money'[d] = money[d] /\ left'[d] = left[d] /\ results'[d] = results[d]
      BY <1>6, <2>1 DEF Inv, TypeInv
    <3>2. Away(d)
      BY <1>8, <3>1 DEF Inv
    <3> QED  BY <3>1, <3>2, StaysAway DEF Away
  <2>2. CASE d = c
    <3>1. /\ requests'[c] = q /\ results'[c] = MarkStale(results[c]) /\ session'[c] = after
          /\ left'[c] = gold[c] /\ money'[c] = money[c]
      BY <1>6 DEF Inv, TypeInv
    <3> QED  BY <1>4, <1>5, <2>2, <3>1 DEF Away, Settles
  <2> QED  BY <2>1, <2>2
<1> QED  BY <1>7, <1>8 DEF Inv

\* Steps that touch only characters in the world: what they append, they append to the
\* queues of those.
LEMMA OthersKeep ==
  ASSUME Inv, TypeInv', UNCHANGED <<money, results, inWorld, left>>,
         \A c \in Character : ~inWorld[c] =>
            requests'[c] = requests[c] /\ session'[c] # "playing"
  PROVE  Inv'
<1>1. ASSUME NEW c \in Character, ~inWorld'[c]  PROVE  Away(c)'
  BY <1>1, StaysAway DEF Inv
<1> QED  BY <1>1 DEF Inv

\* A function written at two places.
LEMMA TwoWritten ==
  ASSUME NEW D, NEW R, NEW f \in [D -> R], NEW a \in D, NEW b \in D, a # b,
         NEW x \in R, NEW y \in R
  PROVE  /\ [f EXCEPT ![a] = x, ![b] = y] \in [D -> R]
         /\ \A e \in D : e # a /\ e # b => [f EXCEPT ![a] = x, ![b] = y][e] = f[e]
OBVIOUS

\* Earning, trading, saving and lost connections.
LEMMA InWorldKeeps ==
  ASSUME Inv, NEW c \in Character,
         \/ Earn(c) \/ Autosave(c)
         \/ \E d \in Character : Trade(c, d)
         \/ \E after \in {"none", "idle"} : LoseLink(c, after)
  PROVE  Inv'
<1>1. /\ gold[c] \in Nat /\ Save(gold[c], {}) \in Request
      /\ inWorld \in [Character -> BOOLEAN]
      /\ \A d \in Character : session[d] = "playing" => inWorld[d]
  BY RequestTypes DEF Inv, TypeInv, Away
<1>2. CASE Earn(c)
  <2>1. TypeInv'
    BY <1>2 DEF Inv, TypeInv, Earn
  <2> QED  BY <1>1, <1>2, <2>1, OthersKeep DEF Earn
<1>3. CASE Autosave(c)
  <2>1. requests' = [requests EXCEPT ![c] = Append(@, Save(gold[c], {}))]
        /\ inWorld[c] /\ UNCHANGED <<money, owner, results, session, inWorld, gold, items, left>>
    BY <1>3 DEF Autosave, SaveToDB
  <2>2. requests' \in [Character -> Seq(Request)]
    BY <1>1, <2>1, SaveKeepsType
  <2>3. TypeInv'
    BY <2>1, <2>2 DEF Inv, TypeInv
  <2>4. \A d \in Character : ~inWorld[d] => requests'[d] = requests[d]
    BY <2>1 DEF Inv, TypeInv
  <2> QED  BY <1>1, <2>1, <2>3, <2>4, OthersKeep
<1>4. ASSUME NEW d \in Character, Trade(c, d)  PROVE  Inv'
  <2>0. c # d /\ inWorld[c] /\ inWorld[d] /\ gold[d] \in Nat
        /\ UNCHANGED <<money, owner, results, session, inWorld, left>>
    BY <1>1, <1>4 DEF Trade, Inv, TypeInv
  <2>1. PICK r \in Request, s \in Request :
           requests' = [requests EXCEPT ![c] = Append(requests[c], r),
                                        ![d] = Append(requests[d], s)]
    <3>0. /\ requests \in [Character -> Seq(Request)] /\ c # d
      BY <2>0 DEF Inv, TypeInv
    <3>1. CASE \E x \in items[c] :
             requests' = [requests EXCEPT ![c] = Append(@, Save(gold[c], {})),
                                          ![d] = Append(@, Save(gold[d], {x}))]
      <4>1. PICK x \in items[c] :
             requests' = [requests EXCEPT ![c] = Append(@, Save(gold[c], {})),
                                          ![d] = Append(@, Save(gold[d], {x}))]
        BY <3>1
      <4>2. {x} \in SUBSET Item
        BY DEF Inv, TypeInv
      <4>3. Save(gold[d], {x}) \in Request
        BY <2>0, <4>2, RequestTypes
      <4> QED  BY <1>1, <3>0, <4>1, <4>3
    <3>2. CASE /\ gold[c] > 0
               /\ requests' = [requests EXCEPT ![c] = Append(@, Save(gold[c] - 1, {})),
                                               ![d] = Append(@, Save(gold[d] + 1, {}))]
      <4>1. gold[c] - 1 \in Nat /\ gold[d] + 1 \in Nat
        BY <1>1, <2>0, <3>2
      <4>2. Save(gold[c] - 1, {}) \in Request /\ Save(gold[d] + 1, {}) \in Request
        BY <4>1, RequestTypes
      <4> QED  BY <3>0, <3>2, <4>2
    <3> QED  BY <1>4, <3>1, <3>2 DEF Trade
  <2>2. requests' \in [Character -> Seq(Request)]
    <3>1. /\ requests \in [Character -> Seq(Request)]
          /\ Append(requests[c], r) \in Seq(Request) /\ Append(requests[d], s) \in Seq(Request)
      BY DEF Inv, TypeInv
    <3> QED  BY <2>0, <2>1, <3>1, TwoWritten
  <2>3. gold' \in [Character -> Nat] /\ items' \in [Character -> SUBSET Item]
    <3>1. CASE \E x \in items[c] :
             /\ items' = [items EXCEPT ![c] = @ \ {x}, ![d] = @ \cup {x}]
             /\ UNCHANGED gold
      <4>1. PICK x \in items[c] : /\ items' = [items EXCEPT ![c] = items[c] \ {x},
                                                           ![d] = items[d] \cup {x}]
                                  /\ UNCHANGED gold
        BY <2>0, <3>1 DEF Inv, TypeInv
      <4>2. items[c] \ {x} \in SUBSET Item /\ items[d] \cup {x} \in SUBSET Item
        BY DEF Inv, TypeInv
      <4>3. items \in [Character -> SUBSET Item] /\ gold \in [Character -> Nat]
        BY DEF Inv, TypeInv
      <4> QED  BY <2>0, <4>1, <4>2, <4>3, TwoWritten
    <3>2. CASE /\ gold[c] > 0 /\ gold' = [gold EXCEPT ![c] = @ - 1, ![d] = @ + 1]
               /\ UNCHANGED items
      <4>1. gold' = [gold EXCEPT ![c] = gold[c] - 1, ![d] = gold[d] + 1]
        BY <2>0, <3>2 DEF Inv, TypeInv
      <4>2. gold[c] - 1 \in Nat /\ gold[d] + 1 \in Nat
        BY <1>1, <2>0, <3>2
      <4>3. items \in [Character -> SUBSET Item] /\ gold \in [Character -> Nat]
        BY DEF Inv, TypeInv
      <4> QED  BY <2>0, <3>2, <4>1, <4>2, <4>3, TwoWritten
    <3> QED  BY <1>4, <3>1, <3>2 DEF Trade
  <2>4. TypeInv'
    BY <2>0, <2>2, <2>3 DEF Inv, TypeInv
  <2>5. \A e \in Character : ~inWorld[e] => requests'[e] = requests[e]
    BY <2>0, <2>1 DEF Inv, TypeInv
  <2> QED  BY <1>1, <2>0, <2>4, <2>5, OthersKeep
<1>5. ASSUME NEW after \in {"none", "idle"}, LoseLink(c, after)  PROVE  Inv'
  <2>1. /\ requests' = [requests EXCEPT ![c] = Append(@, Save(gold[c], {}))]
        /\ session' = [session EXCEPT ![c] = after]
        /\ inWorld[c] /\ UNCHANGED <<money, owner, results, inWorld, gold, items, left>>
    BY <1>1, <1>5 DEF LoseLink, SaveToDB, NewSession
  <2>2. requests' \in [Character -> Seq(Request)]
    BY <1>1, <2>1, SaveKeepsType
  <2>3. TypeInv'
    BY <2>1, <2>2 DEF Inv, TypeInv, SessionState
  <2>4. \A d \in Character : ~inWorld[d] => requests'[d] = requests[d] /\ session'[d] # "playing"
    BY <1>1, <2>1 DEF Inv, TypeInv
  <2> QED  BY <2>1, <2>3, <2>4, OthersKeep
<1> QED  BY <1>2, <1>3, <1>4, <1>5

\* Sessions that come and go, the login query and its result.
LEMMA SessionKeeps ==
  ASSUME Inv, NEW c \in Character,
         Connect(c) \/ DropSession(c) \/ HandlePlayerLoginOpcode(c) \/ HandlePlayerLogin(c)
  PROVE  Inv'
<1>1. /\ inWorld \in [Character -> BOOLEAN]
      /\ \A d \in Character : session[d] = "playing" => inWorld[d]
  BY DEF Inv, TypeInv, Away
<1>2. CASE Connect(c) \/ DropSession(c)
  <2>1. PICK after \in {"none", "idle"} : NewSession(c, after) /\ UNCHANGED requests
    BY <1>2 DEF Connect, DropSession
  <2>2. TypeInv'
    BY <2>1 DEF Inv, TypeInv, NewSession, SessionState
  <2>3. \A d \in Character : ~inWorld[d] => requests'[d] = requests[d] /\ session'[d] # "playing"
    BY <1>1, <2>1 DEF NewSession, Inv, TypeInv
  <2> QED  BY <2>1, <2>2, <2>3, OthersKeep DEF NewSession
<1>3. CASE HandlePlayerLoginOpcode(c)
  <2>1. /\ requests' = [requests EXCEPT ![c] = Append(requests[c], LoginQuery)]
        /\ session' = [session EXCEPT ![c] = "loading"]
        /\ UNCHANGED <<money, owner, results, inWorld, gold, items, left>>
    BY <1>3 DEF HandlePlayerLoginOpcode, NewSession
  <2>2. requests[c] \in Seq(Request)
    BY DEF Inv, TypeInv
  <2>3. requests' \in [Character -> Seq(Request)]
    BY <2>1, RequestTypes, SaveKeepsType
  <2>4. TypeInv'
    BY <2>1, <2>3 DEF Inv, TypeInv, SessionState
  <2>5. ASSUME NEW d \in Character, ~inWorld'[d]  PROVE  Away(d)'
    <3>1. Away(d) /\ session'[d] # "playing"
      BY <1>1, <2>1, <2>5 DEF Inv, TypeInv
    <3>2. CASE d # c
      BY <2>1, <3>1, <3>2, StaysAway DEF Inv, TypeInv
    <3>3. CASE d = c
      <4>1. Settles(Append(requests[c], LoginQuery), money[c], left[c])
        BY <2>2, <3>1, <3>3, LoginSettles DEF Away
      <4>2. requests'[c] = Append(requests[c], LoginQuery)
        BY <2>1 DEF Inv, TypeInv
      <4> QED  BY <2>1, <3>1, <3>3, <4>1, <4>2 DEF Away, Settles
    <3> QED  BY <3>2, <3>3
  <2> QED  BY <2>4, <2>5 DEF Inv
<1>4. CASE HandlePlayerLogin(c)
  <2>1. results[c] \in Seq(Result) /\ results[c] # << >>
    BY <1>4 DEF Inv, TypeInv, HandlePlayerLogin
  <2>2. /\ results' = [results EXCEPT ![c] = Tail(results[c])]
        /\ UNCHANGED <<money, owner, requests, left>>
    BY <1>4 DEF HandlePlayerLogin
  <2>3. Head(results[c]) \in Result /\ Tail(results[c]) \in Seq(Result)
    BY <2>1
  <2>4. TypeInv'
    <3>1. results' \in [Character -> Seq(Result)]
      BY <2>2, <2>3 DEF Inv, TypeInv
    <3>2. Head(results[c]).gold \in Nat /\ Head(results[c]).items \in SUBSET Item
      BY <2>3 DEF Result
    <3>3. /\ session' \in [Character -> SessionState] /\ inWorld' \in [Character -> BOOLEAN]
          /\ gold' \in [Character -> Nat] /\ items' \in [Character -> SUBSET Item]
      BY <1>4, <3>2 DEF Inv, TypeInv, HandlePlayerLogin, SessionState
    <3> QED  BY <2>2, <3>1, <3>3 DEF Inv, TypeInv
  <2>5. ASSUME NEW d \in Character, ~inWorld'[d]  PROVE  Away(d)'
    <3>1. ~inWorld[d] /\ session'[d] = session[d]
      BY <1>1, <1>4, <2>5 DEF HandlePlayerLogin, Inv, TypeInv
    <3>2. Away(d) /\ session'[d] # "playing"
      BY <1>1, <3>1 DEF Inv
    <3>3. CASE d # c
      BY <2>2, <3>2, <3>3, StaysAway DEF Inv, TypeInv
    <3>4. CASE d = c
      <4>1. results'[c] = Tail(results[c])
        BY <2>2 DEF Inv, TypeInv
      <4>2. \A i \in DOMAIN Tail(results[c]) :
               i + 1 \in DOMAIN results[c] /\ Tail(results[c])[i] = results[c][i + 1]
        BY <2>1
      <4> QED  BY <2>2, <3>2, <3>4, <4>1, <4>2 DEF Away, Settles
    <3> QED  BY <3>3, <3>4
  <2> QED  BY <2>4, <2>5 DEF Inv
<1> QED  BY <1>2, <1>3, <1>4

\* Every step keeps the invariant.
LEMMA StepKeeps == Inv /\ [Next]_vars => Inv'
<1> SUFFICES ASSUME Inv, [Next]_vars  PROVE  Inv'
  OBVIOUS
<1>1. \A c \in Character : session[c] \in SessionState
  BY DEF Inv, TypeInv
<1>2. ASSUME NEW c \in Character, Logout(c) \/ Expire(c)
      PROVE  Inv'
  BY <1>1, <1>2, LogoutKeeps DEF Logout, Expire, SessionState
<1>3. ASSUME NEW c \in Unreliable, NEW after \in {"none", "idle"}, DropPlayer(c, after)
      PROVE  Inv'
  <2>1. c \in Character /\ after \in SessionState \ {"playing"}
    BY CharacterSaveAssumption DEF SessionState
  <2> QED  BY <1>3, <2>1, LogoutKeeps DEF DropPlayer
<1>4. \A c \in Unreliable : c \in Character
  BY CharacterSaveAssumption
<1>5. CASE UNCHANGED vars
  BY <1>5 DEF vars, Inv, TypeInv, Away, Settles
<1> QED  BY <1>2, <1>3, <1>4, <1>5, ExecuteKeeps, InWorldKeeps, SessionKeeps DEF Next

\* Every step of loading, playing and saving keeps the invariant.
LEMMA InvHolds == Spec => []Inv
<1>1. Init => Inv
  <2> SUFFICES ASSUME Init  PROVE  Inv
    OBVIOUS
  <2>1. TypeInv
    BY CharacterSaveAssumption DEF Init, TypeInv, SessionState
  <2>2. \A c \in Character : Away(c)
    BY DEF Init, Away, Settles
  <2> QED  BY <2>1, <2>2 DEF Inv
<1> QED  BY <1>1, StepKeeps, PTL DEF Spec

\* A login asked for after the character left the world gives him the purse he left
\* with, for any number of characters and items and queues of any length: the guid as
\* serial id keeps his logins behind his saves.
THEOREM LoginGivesPurse == Spec => LoginAsLeft
<1>1. ASSUME Inv, [Next]_vars, NEW c \in Character,
             ~inWorld[c], inWorld'[c], ~Head(results[c]).stale
      PROVE  gold'[c] = left[c]
  <2>1. HandlePlayerLogin(c)
    <3>1. inWorld \in [Character -> BOOLEAN] /\ inWorld' # inWorld
      BY <1>1 DEF Inv, TypeInv
    <3>2. ASSUME NEW d \in Character, NEW after, LogoutPlayer(d, after)  PROVE  FALSE
      BY <1>1, <3>1, <3>2 DEF LogoutPlayer
    <3>3. \E d \in Character : HandlePlayerLogin(d)
      BY <1>1, <3>1, <3>2, CharacterSaveAssumption
         DEF Next, vars, Execute, Earn, Autosave, Logout, Expire, Trade, Connect,
             HandlePlayerLoginOpcode, DropSession, LoseLink, DropPlayer, NewSession
    <3> QED  BY <1>1, <3>1, <3>3 DEF HandlePlayerLogin
  <2>2. results[c] \in Seq(Result) /\ results[c] # << >>
    BY <1>1, <2>1 DEF Inv, TypeInv, HandlePlayerLogin
  <2>3. 1 \in DOMAIN results[c] /\ Head(results[c]) = results[c][1]
    BY <2>2
  <2>4. gold'[c] = Head(results[c]).gold
    BY <1>1, <2>1 DEF HandlePlayerLogin, Inv, TypeInv
  <2> QED  BY <1>1, <2>3, <2>4 DEF Inv, Away
<1>2. Inv /\ [Next]_vars =>
        [\A c \in Character : ~inWorld[c] /\ inWorld'[c] /\ ~Head(results[c]).stale
                                => gold'[c] = left[c]]_vars
  BY <1>1
<1> QED  BY <1>2, InvHolds, PTL DEF Spec, LoginAsLeft
=============================================================================
