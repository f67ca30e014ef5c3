---------------------------- MODULE VoteSyncProofs ----------------------------
(***************************************************************************)
(* Proofs about VoteSync, for any groups, topics, spread and window: its   *)
(* variables keep their types, a vote KV took is kept until the article's  *)
(* row carries it, and a click counts once.                                *)
(***************************************************************************)
EXTENDS VoteSync, FiniteSetTheorems, WellFoundedInduction, TLAPS

Stamp == [at : Times, vote : Directions]

-----------------------------------------------------------------------------
(* The order of a topic's clicks. *)

Key(c) == 2 * c.at + (IF c.vote = 1 THEN 1 ELSE 0)

LEMMA KeyOrders ==
  ASSUME NEW c \in Stamp, NEW d \in Stamp
  PROVE  /\ Key(c) \in 0..(2 * MaxNow + 1)
         /\ Before(c, d) <=> Key(c) < Key(d)
         /\ c = d <=> Key(c) = Key(d)
<1>1. c.at \in 0..MaxNow /\ d.at \in 0..MaxNow /\ c.vote \in {1, -1} /\ d.vote \in {1, -1}
  BY DEF Stamp, Times, Directions
<1>2. c = d <=> c.at = d.at /\ c.vote = d.vote
  BY DEF Stamp
<1> QED BY <1>1, <1>2, BoundsAssumption DEF Key, Before

(* A set of naturals that is not empty has a least element. *)
LEMMA LeastNat ==
  ASSUME NEW T, T \subseteq Nat, T # {}
  PROVE  \E m \in T : \A n \in T : m <= n
<1> DEFINE R == OpToRel(<, Nat)
<1>1. \E m \in T : \A n \in T : ~ (<<n, m>> \in R)
  BY NatLessThanWellFounded, WFMin
<1>2. \A m, n \in Nat : n < m => <<n, m>> \in R
  BY DEF OpToRel
<1>3. PICK m \in T : \A n \in T : ~ (<<n, m>> \in R)
  BY <1>1
<1>4. ASSUME NEW n \in T PROVE m <= n
  <2>1. ~ (n < m)
    BY <1>2, <1>3
  <2> QED BY <2>1
<1> QED BY <1>4

LEMMA Least ==
  ASSUME NEW S, S \subseteq Stamp, S # {}
  PROVE  \E c \in S : \A d \in S : d = c \/ Before(c, d)
<1> DEFINE T == {Key(c) : c \in S}
<1>1. T \subseteq Nat /\ T # {}
  BY KeyOrders, BoundsAssumption
<1>2. PICK k \in T : \A n \in T : k <= n
  BY <1>1, LeastNat
<1>3. PICK c \in S : k = Key(c)
  BY <1>2
<1>4. \A d \in S : Key(c) <= Key(d)
  BY <1>2, <1>3
<1>5. \A d \in S : Key(d) \in Nat
  BY <1>1
<1> QED BY <1>3, <1>4, <1>5, KeyOrders

LEMMA Greatest ==
  ASSUME NEW S, S \subseteq Stamp, S # {}
  PROVE  \E c \in S : \A d \in S : d = c \/ Before(d, c)
<1> DEFINE M == 2 * MaxNow + 1
           T == {M - Key(c) : c \in S}
<1>1. M \in Nat /\ \A c \in S : Key(c) \in 0..M
  BY KeyOrders, BoundsAssumption
<1>2. T \subseteq Nat /\ T # {}
  BY <1>1
<1>3. PICK k \in T : \A n \in T : k <= n
  BY <1>2, LeastNat
<1>4. PICK c \in S : k = M - Key(c)
  BY <1>3
<1>5. \A d \in S : M - Key(c) <= M - Key(d)
  BY <1>3, <1>4
<1> HIDE DEF M
<1>6. \A d \in S : Key(d) <= Key(c)
  BY <1>1, <1>5
<1> QED BY <1>1, <1>4, <1>6, KeyOrders

(* `topic_votes` gives a topic the direction and the time of one of its    *)
(* articles' votes.                                                        *)
LEMMA TopicVoteIsAVote ==
  ASSUME NEW t, Of(t) \subseteq Stamp, Of(t) # {}
  PROVE  \E c \in Of(t) : TopicVote(t) = [topic |-> t, direction |-> c.vote, at |-> c.at]
<1> DEFINE IsLast(c) == \A d \in Of(t) : d = c \/ Before(d, c)
           last == CHOOSE c \in Of(t) : IsLast(c)
           Agrees(c) == \A d \in Of(t) : d = c \/ Before(c, d) => d.vote = last.vote
           IsFirst(c) == /\ Agrees(c)
                         /\ \A d \in Of(t) : Before(d, c) =>
                              \E e \in Of(t) : (e = d \/ Before(d, e)) /\ e.vote # last.vote
                         /\ c.vote = last.vote
           first == CHOOSE c \in Of(t) : IsFirst(c)
           S == {c \in Of(t) : Agrees(c)}
<1>0. TopicVote(t) = [topic |-> t, direction |-> last.vote, at |-> first.at]
  BY DEF TopicVote
<1>1. \E c \in Of(t) : IsLast(c)
  BY Greatest
<1>2. last \in Of(t) /\ IsLast(last)
  BY <1>1
<1> HIDE DEF last
<1>3. last \in S
  <2>1. \A d \in Of(t) : ~ (Before(last, d) /\ Before(d, last))
    BY <1>2, KeyOrders, BoundsAssumption
  <2> QED BY <1>2, <2>1
<1>4. PICK c \in S : \A d \in S : d = c \/ Before(c, d)
  <2>1. S \subseteq Stamp /\ S # {}
    BY <1>3
  <2> HIDE DEF S
  <2> QED BY <2>1, Least
<1>5. IsFirst(c)
  <2>1. c \in Of(t) /\ Agrees(c) /\ c.vote = last.vote
    BY <1>4
  <2>2. ASSUME NEW d \in Of(t), Before(d, c)
        PROVE  \E e \in Of(t) : (e = d \/ Before(d, e)) /\ e.vote # last.vote
    <3>1. ~ (d = c \/ Before(c, d))
      BY <2>1, <2>2, KeyOrders, BoundsAssumption
    <3>2. ~ Agrees(d)
      BY <1>4, <2>2, <3>1
    <3> QED BY <3>2
  <2> QED BY <2>1, <2>2
<1>6. first \in Of(t) /\ IsFirst(first)
  BY <1>4, <1>5
<1> QED BY <1>0, <1>6

-----------------------------------------------------------------------------
(* Types. *)

Votes == [topic : Topics, direction : Directions, at : Times]

Stored(f) == DOMAIN f \subseteq Urls /\ f \in [DOMAIN f -> [vote : Directions, ts : Times]]

LEMMA TypeOKEq ==
  TypeOK <=>
    /\ now \in Times
    /\ posts \subseteq [url : Urls, vote : Directions, at : Times, group : Groups \cup {{}}]
    /\ clicks \in [Topics -> 0..MaxClicks] /\ turned \subseteq Topics
    /\ Stored(kv) /\ Stored(pulled)
    /\ cast \in [Urls -> {0} \cup Directions] /\ row \in [Urls -> {0} \cup Directions]
    /\ votes \subseteq Votes
    /\ pc \in {"idle", "reject", "accept", "topics", "ack"}
BY DEF TypeOK, Stored, Votes

LEMMA EmptyIsStored == Stored(Empty) /\ DOMAIN Empty = {}
BY DEF Stored, Empty

(* What a topic's articles hold of the votes pulled. *)
LEMMA OfIsStamps ==
  ASSUME Stored(pulled), NEW t
  PROVE  /\ Of(t) \subseteq Stamp
         /\ \A c \in Of(t) : \E u \in DOMAIN pulled :
              /\ u \in DOMAIN TopicOf /\ TopicOf[u] = t
              /\ c.at = pulled[u].ts /\ c.vote = pulled[u].vote
BY DEF Of, Stored, Stamp

LEMMA PulledTypes ==
  ASSUME Stored(pulled)
  PROVE  /\ Pulled \subseteq Votes
         /\ \A v \in Pulled : \E c \in Of(v.topic) : v.direction = c.vote /\ v.at = c.at
         /\ \A v, w \in Pulled : v.topic = w.topic => v = w
<1>1. ASSUME NEW t \in Topics, Of(t) # {}
      PROVE  \E c \in Of(t) : TopicVote(t) = [topic |-> t, direction |-> c.vote, at |-> c.at]
  BY <1>1, OfIsStamps, TopicVoteIsAVote
<1>2. ASSUME NEW v \in Pulled
      PROVE  \E t \in Topics : \E c \in Of(t) :
               v = [topic |-> t, direction |-> c.vote, at |-> c.at] /\ v = TopicVote(t)
  BY <1>1 DEF Pulled
<1>3. ASSUME NEW t, NEW c \in Of(t) PROVE c.vote \in Directions /\ c.at \in Times
  BY OfIsStamps DEF Stamp
<1> QED BY <1>2, <1>3 DEF Votes

LEMMA LandType ==
  ASSUME TypeOK, NEW p \in posts, Land(p)
  PROVE  /\ p.url \in Urls /\ p.vote \in Directions
         /\ DOMAIN kv' = DOMAIN kv \cup {p.url}
         /\ kv'[p.url] = [vote |-> p.vote, ts |-> now]
         /\ \A u \in DOMAIN kv : u # p.url => kv'[u] = kv[u]
         /\ Stored(kv')
<1>1. p.url \in Urls /\ p.vote \in Directions /\ now \in Times /\ Stored(kv)
  BY TypeOKEq
<1>2. kv' = [u \in DOMAIN kv \cup {p.url} |->
               IF u = p.url THEN [vote |-> p.vote, ts |-> now] ELSE kv[u]]
  BY DEF Land
<1> QED BY <1>1, <1>2 DEF Stored

LEMMA WithoutType ==
  ASSUME Stored(kv), NEW S
  PROVE  /\ Stored(Without(S)) /\ DOMAIN Without(S) = DOMAIN kv \ S
         /\ \A u \in DOMAIN kv \ S : Without(S)[u] = kv[u]
BY DEF Stored, Without

-----------------------------------------------------------------------------
LEMMA InitType == Init => TypeOK
<1> SUFFICES ASSUME Init PROVE TypeOK
  OBVIOUS
<1>1. Stored(kv) /\ Stored(pulled)
  BY EmptyIsStored DEF Init
<1>2. now \in Times /\ clicks \in [Topics -> 0..MaxClicks]
  BY BoundsAssumption DEF Init, Times
<1> QED BY <1>1, <1>2, TypeOKEq DEF Init

LEMMA NextType ==
  ASSUME TypeOK, [Next]_vars
  PROVE  TypeOK'
<1> DEFINE Goal ==
  /\ now' \in Times
  /\ posts' \subseteq [url : Urls, vote : Directions, at : Times, group : Groups \cup {{}}]
  /\ clicks' \in [Topics -> 0..MaxClicks] /\ turned' \subseteq Topics
  /\ Stored(kv') /\ Stored(pulled')
  /\ cast' \in [Urls -> {0} \cup Directions] /\ row' \in [Urls -> {0} \cup Directions]
  /\ votes' \subseteq Votes
  /\ pc' \in {"idle", "reject", "accept", "topics", "ack"}
<1> SUFFICES Goal
  BY DEF TypeOK, Stored, Votes
<1> USE TypeOKEq
<1>1. CASE Tick
  BY <1>1, BoundsAssumption DEF Tick, Times
<1>2. ASSUME NEW g \in Groups, NEW v \in Directions, Click(g, v) PROVE Goal
  <2>1. \A u \in g : u \in Urls
    BY DEF Urls
  <2>2. posts' \subseteq [url : Urls, vote : Directions, at : Times, group : Groups \cup {{}}]
    BY <1>2, <2>1 DEF Click
  <2>3. clicks' \in [Topics -> 0..MaxClicks]
    BY <1>2, BoundsAssumption DEF Click
  <2>4. turned' \subseteq Topics
    BY <1>2, TopicsAssumption DEF Click, TopicsOf
  <2> QED BY <1>2, <2>2, <2>3, <2>4 DEF Click
<1>3. ASSUME NEW p \in posts, Land(p) PROVE Goal
  <2>1. Stored(kv') /\ p.url \in Urls /\ p.vote \in Directions
    BY <1>3, LandType
  <2>2. cast' \in [Urls -> {0} \cup Directions]
    BY <1>3, <2>1 DEF Land
  <2> QED BY <1>3, <2>1, <2>2 DEF Land
<1>4. ASSUME NEW p \in posts, PostLost(p) PROVE Goal
  BY <1>4 DEF PostLost
<1>5. CASE Pull
  BY <1>5 DEF Pull
<1>6. ASSUME NEW v \in Directions, Write(v) PROVE row' \in [Urls -> {0} \cup Directions]
  BY <1>6 DEF Write
<1>7. CASE RecordRejected \/ RecordAccepted
  <2>1. row' \in [Urls -> {0} \cup Directions]
    BY <1>6, <1>7 DEF RecordRejected, RecordAccepted, Directions
  <2> QED BY <1>7, <2>1 DEF RecordRejected, RecordAccepted
<1>8. CASE RecordTopics
  <2>1. Pulled \subseteq Votes
    BY PulledTypes
  <2>2. votes' \subseteq Votes
    BY <1>8, <2>1 DEF RecordTopics, Recorded, Unrecorded
  <2> QED BY <1>8, <2>2 DEF RecordTopics
<1>9. CASE Ack \/ AckFails \/ SyncFails
  <2>1. Stored(kv')
    <3>1. kv' = kv \/ \E S \in SUBSET DOMAIN pulled : kv' = Without(S)
      BY <1>9 DEF Ack, AckFails, SyncFails
    <3>2. \A S : Stored(Without(S))
      BY WithoutType
    <3>3. Stored(kv)
      OBVIOUS
    <3>4. CASE kv' = kv
      BY <3>3, <3>4
    <3>5. CASE \E S \in SUBSET DOMAIN pulled : kv' = Without(S)
      BY <3>2, <3>5
    <3> QED BY <3>1, <3>4, <3>5
  <2>2. Stored(pulled')
    BY <1>9, EmptyIsStored DEF Ack, AckFails, SyncFails, Over
  <2> QED BY <1>9, <2>1, <2>2 DEF Ack, AckFails, SyncFails, Over
<1>10. CASE UNCHANGED vars
  BY <1>10 DEF vars
<1> QED BY <1>1, <1>2, <1>3, <1>4, <1>5, <1>7, <1>8, <1>9, <1>10 DEF Next

(* The variables of the page, the Worker and the sync keep their types.    *)
THEOREM TypeCorrect == Spec => []TypeOK
BY InitType, NextType, PTL DEF Spec

-----------------------------------------------------------------------------
(* No vote gets lost. *)

(* Between syncs nothing is pulled; within one, KV still holds it all.     *)
PulledIsHeld ==
  /\ pc = "idle" => DOMAIN pulled = {}
  /\ \A u \in DOMAIN pulled : u \in DOMAIN kv /\ kv[u] = pulled[u]

(* KV holds the last vote it took. *)
KvIsCast == \A u \in DOMAIN kv : kv[u].vote = cast[u]

(* What the two statements of `record_verdicts` have written. *)
PulledIsWritten ==
  \A u \in DOMAIN pulled \cap Held :
    /\ pc \in {"accept", "topics", "ack"} /\ pulled[u].vote = -1 => row[u] = -1
    /\ pc \in {"topics", "ack"} /\ pulled[u].vote = 1 => row[u] = 1

KeptInv ==
  /\ TypeOK
  /\ PulledIsHeld
  /\ KvIsCast
  /\ PulledIsWritten
  /\ VoteIsKept

LEMMA InitKept == Init => KeptInv
<1> SUFFICES ASSUME Init PROVE KeptInv
  OBVIOUS
<1>1. TypeOK
  BY InitType
<1>2. DOMAIN kv = {} /\ DOMAIN pulled = {}
  BY EmptyIsStored DEF Init
<1>3. VoteIsKept
  BY DEF Init, VoteIsKept
<1> QED BY <1>1, <1>2, <1>3 DEF KeptInv, PulledIsHeld, KvIsCast, PulledIsWritten

LEMMA NextKept ==
  ASSUME ~MidSync, KeptInv, [Next]_vars
  PROVE  KeptInv'
<1>t. TypeOK'
  BY NextType DEF KeptInv
<1> DEFINE Goal == /\ PulledIsHeld' /\ KvIsCast' /\ PulledIsWritten' /\ VoteIsKept'
<1> SUFFICES Goal
  BY <1>t DEF KeptInv
<1>a. /\ TypeOK /\ PulledIsHeld /\ KvIsCast /\ PulledIsWritten /\ VoteIsKept
  BY DEF KeptInv
<1>b. DOMAIN pulled \subseteq Urls /\ DOMAIN kv \subseteq Urls
      /\ \A u \in DOMAIN pulled : pulled[u].vote \in {1, -1}
  BY <1>a, TypeOKEq DEF Stored, Directions
<1>c. row \in [Urls -> {0, 1, -1}] /\ cast \in [Urls -> {0, 1, -1}]
  BY <1>a, TypeOKEq DEF Directions
(* A step that leaves alone all these variables. *)
<1>1. ASSUME UNCHANGED <<kv, cast, row, pc, pulled>> PROVE Goal
  BY <1>a, <1>1 DEF PulledIsHeld, KvIsCast, PulledIsWritten, VoteIsKept
<1>2. CASE Tick \/ (\E g \in Groups, v \in Directions : Click(g, v))
             \/ (\E p \in posts : PostLost(p)) \/ UNCHANGED vars
  BY <1>1, <1>2 DEF Tick, Click, PostLost, vars
<1>3. ASSUME NEW p \in posts, Land(p) PROVE Goal
  <2>1. /\ p.url \in Urls /\ p.vote \in Directions
        /\ DOMAIN kv' = DOMAIN kv \cup {p.url}
        /\ kv'[p.url].vote = p.vote
        /\ \A u \in DOMAIN kv : u # p.url => kv'[u] = kv[u]
    <3>1. kv'[p.url] = [vote |-> p.vote, ts |-> now]
      BY <1>a, <1>3, LandType
    <3> QED BY <1>a, <1>3, <3>1, LandType
  <2>2. p.url \notin DOMAIN pulled /\ UNCHANGED <<row, pc, pulled>>
    BY <1>3 DEF Land
  <2>3. cast'[p.url] = p.vote /\ \A u \in Urls : u # p.url => cast'[u] = cast[u]
    BY <1>3, <1>c, <2>1 DEF Land
  <2>4. PulledIsHeld' /\ PulledIsWritten'
    BY <1>a, <2>1, <2>2 DEF PulledIsHeld, PulledIsWritten
  <2>5. KvIsCast'
    BY <1>a, <1>b, <2>1, <2>3 DEF KvIsCast
  <2>6. VoteIsKept'
    BY <1>a, <1>b, <2>1, <2>2, <2>3 DEF VoteIsKept
  <2> QED BY <2>4, <2>5, <2>6
<1>5. CASE Pull
  BY <1>5, <1>a DEF Pull, PulledIsHeld, KvIsCast, PulledIsWritten, VoteIsKept
(* A statement of `record_verdicts` writes what KV holds. *)
<1>6. ASSUME NEW v \in {1, -1}, Write(v), UNCHANGED <<kv, cast, pulled>>
      PROVE  /\ VoteIsKept'
             /\ \A u \in DOMAIN pulled \cap Held :
                  row'[u] = IF pulled[u].vote = v THEN v ELSE row[u]
  <2>1. \A u \in Urls : row'[u] = IF u \in DOMAIN pulled \cap Held /\ pulled[u].vote = v
                                    THEN v ELSE row[u]
    BY <1>6 DEF Write
  <2>2. \A u \in DOMAIN pulled : u \in DOMAIN kv /\ pulled[u].vote = cast[u]
    BY <1>a DEF PulledIsHeld, KvIsCast
  <2> QED BY <1>a, <1>b, <1>6, <2>1, <2>2 DEF VoteIsKept
<1>7. CASE RecordRejected
  <2>1. Write(-1) /\ UNCHANGED <<kv, cast, pulled>> /\ pc = "reject" /\ pc' = "accept"
    BY <1>7 DEF RecordRejected
  <2>2. VoteIsKept' /\ PulledIsWritten'
    BY <1>6, <2>1 DEF PulledIsWritten
  <2> QED BY <1>a, <2>1, <2>2 DEF PulledIsHeld, KvIsCast
<1>8. CASE RecordAccepted
  <2>1. Write(1) /\ UNCHANGED <<kv, cast, pulled>> /\ pc = "accept" /\ pc' = "topics"
    BY <1>8 DEF RecordAccepted
  <2>2. VoteIsKept' /\ PulledIsWritten'
    BY <1>6, <1>a, <2>1 DEF PulledIsWritten
  <2> QED BY <1>a, <2>1, <2>2 DEF PulledIsHeld, KvIsCast
<1>9. CASE RecordTopics
  BY <1>9, <1>a DEF RecordTopics, PulledIsHeld, KvIsCast, PulledIsWritten, VoteIsKept
(* An ACK comes after both statements: the rows carry what it deletes. *)
<1>10. CASE Ack \/ AckFails
  <2>1. PICK S \in SUBSET DOMAIN pulled : kv' = Without(S)
    BY <1>10 DEF Ack, AckFails
  <2>2. pc = "ack" /\ UNCHANGED <<cast, row>> /\ DOMAIN pulled' = {}
    BY <1>10, EmptyIsStored DEF Ack, AckFails, Over
  <2>3. DOMAIN kv' = DOMAIN kv \ S /\ \A u \in DOMAIN kv \ S : kv'[u] = kv[u]
    BY <1>a, <2>1, WithoutType, TypeOKEq
  <2>4. \A u \in S \cap Held : row[u] = pulled[u].vote /\ pulled[u].vote = cast[u]
    BY <1>a, <1>b, <2>2 DEF PulledIsHeld, KvIsCast, PulledIsWritten
  <2>5. VoteIsKept'
    BY <1>a, <1>c, <2>2, <2>3, <2>4 DEF VoteIsKept
  <2> QED BY <1>a, <2>2, <2>3, <2>5 DEF PulledIsHeld, KvIsCast, PulledIsWritten
<1>11. CASE SyncFails
  <2>1. UNCHANGED <<kv, cast, row>> /\ DOMAIN pulled' = {}
    BY <1>11, EmptyIsStored DEF SyncFails, Over
  <2> QED BY <1>a, <2>1 DEF PulledIsHeld, KvIsCast, PulledIsWritten, VoteIsKept
<1> QED BY <1>2, <1>3, <1>5, <1>7, <1>8, <1>9, <1>10, <1>11 DEF Next

(* As long as no vote lands on a URL between a sync's pull and its ACK, a  *)
(* vote KV took stays there until the article's row carries it, whatever   *)
(* posts, statements and ACKs get lost (`sync_promotions`).                *)
THEOREM VotesAreKept ==
  ASSUME ~MidSync
  PROVE  Spec => []VoteIsKept
<1>1. KeptInv => VoteIsKept
  BY DEF KeptInv
<1> QED BY <1>1, InitKept, NextKept, PTL DEF Spec

-----------------------------------------------------------------------------
(* A click counts once. *)

(* No two votes recorded are of one click. *)
Apart == \A r, s \in votes : r # s => ~ SameClick(r, s)

(* A post lands within its time. *)
PostsInTime == \A p \in posts : p.at <= now /\ now <= p.at + Spread

(* The span of a click: its direction, its time and the last instant at    *)
(* which a post of it landed.                                              *)
Span == [vote : Directions, at : Times, til : Times]

Within(s, x) == x.vote = s.vote /\ x.at <= s.at /\ s.at <= x.til

(* The votes that KV and the sync hold for a topic's articles, and the     *)
(* ones recorded.                                                          *)
StampsIn(f, t) == {[at |-> f[u].ts, vote |-> f[u].vote] :
                     u \in {w \in DOMAIN f \cap DOMAIN TopicOf : TopicOf[w] = t}}
Stamps(t) == StampsIn(kv, t) \cup StampsIn(pulled, t)
               \cup {[at |-> v.at, vote |-> v.direction] : v \in {w \in votes : w.topic = t}}

PostsOn(t) == {p \in posts : p.url \in DOMAIN TopicOf /\ TopicOf[p.url] = t}

(* For the votes S and the posts P under way of a topic, at the time n:    *)
(* every vote is of one of the clicks C, whose spans are short; a click    *)
(* the other way begins when the posts of those before it have landed.     *)
Accounts(S, P, n, C) ==
  /\ \A s \in S : \E i \in DOMAIN C : Within(s, C[i])
  /\ \A i \in DOMAIN C : C[i].at <= C[i].til /\ C[i].til <= C[i].at + Spread /\ C[i].til <= n
  /\ \A i, j \in DOMAIN C :
       C[i].vote # C[j].vote => C[i].til <= C[j].at \/ C[j].til <= C[i].at
  /\ \A p \in P : \E i \in DOMAIN C : C[i].vote = p.vote /\ C[i].at = p.at
  /\ \A p \in P : \A j \in DOMAIN C : C[j].vote # p.vote => C[j].til <= p.at
  /\ \A p, q \in P : p.vote = q.vote

(* So many clicks account for the votes. *)
ClicksOf(S, P, n, k) == \E C \in [1..k -> Span] : Accounts(S, P, n, C)

Accounted == \A t \in Topics \ turned : ClicksOf(Stamps(t), PostsOn(t), now, clicks[t])

OnceInv == TypeOK /\ Apart /\ PostsInTime /\ Accounted

LEMMA OnceEnough == OnceInv => OneVotePerClick
<1> SUFFICES ASSUME OnceInv, NEW t \in Topics \ turned
             PROVE  Cardinality({v \in votes : v.topic = t}) <= clicks[t]
  BY DEF OneVotePerClick
<1> DEFINE V == {v \in votes : v.topic = t}
           n == clicks[t]
<1>1. n \in Nat /\ TypeOK
  BY BoundsAssumption, TypeOKEq DEF OnceInv
<1>2. PICK C \in [1..n -> Span] : Accounts(Stamps(t), PostsOn(t), now, C)
  BY DEF OnceInv, Accounted, ClicksOf
<1>3. \A v \in V : \E i \in 1..n : Within([at |-> v.at, vote |-> v.direction], C[i])
  BY <1>2 DEF Accounts, Stamps
<1>4. \A i \in 1..n : /\ C[i].at \in Nat /\ C[i].til \in Nat
                      /\ C[i].til <= C[i].at + Spread
                      /\ \A j \in 1..n : C[i].vote # C[j].vote =>
                           C[i].til <= C[j].at \/ C[j].til <= C[i].at
  BY <1>2, BoundsAssumption DEF Accounts, Span, Times
<1>5. \A v \in V : v.at \in Nat /\ v.topic = t
  BY <1>1, TypeOKEq, BoundsAssumption DEF Votes, Times
<1>6. ASSUME NEW v \in V, NEW w \in V, NEW i \in 1..n,
             Within([at |-> v.at, vote |-> v.direction], C[i]),
             Within([at |-> w.at, vote |-> w.direction], C[i])
      PROVE  v = w
  <2>1. /\ v.direction = C[i].vote /\ C[i].at <= v.at /\ v.at <= C[i].til
        /\ w.direction = C[i].vote /\ C[i].at <= w.at /\ w.at <= C[i].til
    BY <1>6 DEF Within
  <2>2. Distance(w.at, v.at) <= Window
    BY <1>4, <1>5, <2>1, MarginAssumption, BoundsAssumption DEF Distance
  <2>3. ASSUME NEW o \in votes, o.topic = v.topic, o.direction # v.direction
        PROVE  ~ (w.at < o.at /\ o.at < v.at) /\ ~ (v.at < o.at /\ o.at < w.at)
    <3>1. o \in V
      BY <1>5, <2>3
    <3>2. PICK j \in 1..n : Within([at |-> o.at, vote |-> o.direction], C[j])
      BY <1>3, <3>1
    <3>3. C[j].vote # C[i].vote /\ C[j].at <= o.at /\ o.at <= C[j].til
      BY <2>1, <2>3, <3>2 DEF Within
    <3>4. C[i].til <= C[j].at \/ C[j].til <= C[i].at
      BY <1>4, <3>3
    <3> QED BY <1>4, <1>5, <2>1, <3>1, <3>3, <3>4
  <2>4. SameClick(v, w)
    BY <1>5, <2>1, <2>2, <2>3 DEF SameClick
  <2> QED BY <2>4 DEF OnceInv, Apart
<1>7. PICK f \in [V -> 1..n] :
        \A v \in V : Within([at |-> v.at, vote |-> v.direction], C[f[v]])
  <2> DEFINE f == [v \in V |-> CHOOSE i \in 1..n : Within([at |-> v.at, vote |-> v.direction], C[i])]
  <2>1. \A v \in V : f[v] \in 1..n /\ Within([at |-> v.at, vote |-> v.direction], C[f[v]])
    BY <1>3
  <2> QED BY <2>1
<1>8. f \in Injection(V, 1..n)
  BY <1>6, <1>7 DEF Injection, IsInjective
<1>9. IsFiniteSet(1..n) /\ Cardinality(1..n) = n
  BY <1>1, FS_Interval
<1> HIDE DEF V, n
<1> QED BY <1>8, <1>9, FS_Injection DEF V, n

LEMMA InitOnce == Init => OnceInv
<1> SUFFICES ASSUME Init PROVE OnceInv
  OBVIOUS
<1>1. TypeOK
  BY InitType
<1>2. DOMAIN kv = {} /\ DOMAIN pulled = {} /\ votes = {} /\ posts = {}
  BY EmptyIsStored DEF Init
<1>3. ASSUME NEW t \in Topics PROVE ClicksOf(Stamps(t), PostsOn(t), now, clicks[t])
  <2>1. clicks[t] = 0 /\ 1..0 = {}
    BY DEF Init
  <2>2. PICK C \in [1..clicks[t] -> Span] : DOMAIN C = {}
    <3>1. [i \in {} |-> i] \in [{} -> Span] /\ DOMAIN [i \in {} |-> i] = {}
      OBVIOUS
    <3> QED BY <2>1, <3>1
  <2>3. Stamps(t) = {} /\ PostsOn(t) = {}
    BY <1>2 DEF Stamps, StampsIn, PostsOn
  <2> QED BY <2>2, <2>3 DEF Accounts, ClicksOf
<1> QED BY <1>1, <1>2, <1>3 DEF OnceInv, Apart, PostsInTime, Accounted

LEMMA AccountsStay ==
  ASSUME NEW S, NEW P, NEW n \in Times, NEW k, ClicksOf(S, P, n, k),
         NEW S2, S2 \subseteq S, NEW n2 \in Times, n <= n2,
         NEW P2, \A p \in P2 : \E q \in P : q.vote = p.vote /\ q.at = p.at
  PROVE  ClicksOf(S2, P2, n2, k)
<1>0. PICK C \in [1..k -> Span] : Accounts(S, P, n, C)
  BY DEF ClicksOf
<1>1. \A i \in 1..k : C[i].til \in Nat
  BY BoundsAssumption DEF Span, Times
<1>2. n \in Nat /\ n2 \in Nat /\ DOMAIN C = 1..k
  BY BoundsAssumption DEF Times
<1>3. \A i \in 1..k : C[i].at <= C[i].til /\ C[i].til <= C[i].at + Spread /\ C[i].til <= n2
  BY <1>0, <1>1, <1>2 DEF Accounts
<1>4. \A p \in P2 : \E i \in 1..k : C[i].vote = p.vote /\ C[i].at = p.at
  BY <1>0, <1>2 DEF Accounts
<1>5. \A p \in P2 : \A j \in 1..k : C[j].vote # p.vote => C[j].til <= p.at
  BY <1>0, <1>2 DEF Accounts
<1>6. \A p, q \in P2 : p.vote = q.vote
  BY <1>0 DEF Accounts
<1>7. Accounts(S2, P2, n2, C)
  BY <1>0, <1>2, <1>3, <1>4, <1>5, <1>6 DEF Accounts
<1> QED BY <1>7 DEF ClicksOf

LEMMA AccountsOfLand ==
  ASSUME NEW S, S \subseteq Stamp, NEW P, NEW n \in Times, NEW k,
         ClicksOf(S, P, n, k),
         NEW p \in P, p.at \in Times, p.at <= n, n <= p.at + Spread,
         NEW S2, S2 \subseteq S \cup {[at |-> n, vote |-> p.vote]},
         NEW P2, P2 \subseteq P
  PROVE  ClicksOf(S2, P2, n, k)
<1>c. PICK C \in [1..k -> Span] : Accounts(S, P, n, C)
  BY DEF ClicksOf
<1>0. DOMAIN C = 1..k /\ n \in Nat /\ p.at \in Nat
  BY BoundsAssumption DEF Times
<1>1. PICK i \in 1..k : C[i].vote = p.vote /\ C[i].at = p.at
  BY <1>c, <1>0 DEF Accounts
<1>2. PICK C2 \in [1..k -> Span] :
        /\ C2[i] = [vote |-> C[i].vote, at |-> C[i].at, til |-> n]
        /\ \A j \in 1..k : j # i => C2[j] = C[j]
  <2> DEFINE x == [vote |-> C[i].vote, at |-> C[i].at, til |-> n]
             D == [j \in 1..k |-> IF j = i THEN x ELSE C[j]]
  <2>1. x \in Span
    BY DEF Span
  <2> HIDE DEF x
  <2>2. D \in [1..k -> Span] /\ D[i] = x /\ \A j \in 1..k : j # i => D[j] = C[j]
    BY <2>1
  <2> QED BY <2>2 DEF x
<1>3. /\ C2[i].vote = p.vote /\ C2[i].at = p.at /\ C2[i].til = n
      /\ \A j \in 1..k : C2[j].vote = C[j].vote /\ C2[j].at = C[j].at
  BY <1>1, <1>2
<1>4. \A j \in 1..k : C[j].at \in Nat /\ C[j].til \in Nat
  BY BoundsAssumption DEF Span, Times
<1>5. \A s \in S2 : \E j \in 1..k : Within(s, C2[j])
  <2>1. ASSUME NEW s \in S, NEW j \in 1..k, Within(s, C[j]) PROVE Within(s, C2[j])
    <3>1. C[j].til <= n
      BY <1>c, <1>0 DEF Accounts
    <3>2. CASE j # i
      BY <2>1, <1>2, <3>2
    <3>3. CASE j = i
      <4>1. s.at <= C[i].til /\ C[i].at <= s.at /\ C[i].vote = s.vote
        BY <2>1, <3>3 DEF Within
      <4>2. s.at \in Nat
        BY BoundsAssumption DEF Stamp, Times
      <4>3. s.at <= n
        BY <1>c, <1>0, <1>4, <3>1, <3>3, <4>1, <4>2
      <4> QED BY <1>3, <1>1, <3>3, <4>1, <4>3 DEF Within
    <3> QED BY <3>2, <3>3
  <2>2. Within([at |-> n, vote |-> p.vote], C2[i])
    BY <1>c, <1>0, <1>3 DEF Within
  <2> QED BY <1>c, <1>0, <2>1, <2>2 DEF Accounts
<1>6. \A j \in 1..k : C2[j].at <= C2[j].til /\ C2[j].til <= C2[j].at + Spread /\ C2[j].til <= n
  BY <1>c, <1>0, <1>2, <1>3 DEF Accounts
<1>7. \A j \in 1..k : C[j].vote # p.vote => C[j].til <= p.at
  BY <1>c, <1>0 DEF Accounts
<1>8. \A j, l \in 1..k : C2[j].vote # C2[l].vote => C2[j].til <= C2[l].at \/ C2[l].til <= C2[j].at
  BY <1>c, <1>0, <1>2, <1>3, <1>7 DEF Accounts
<1>9. \A q \in P2 : q.vote = p.vote /\ \E j \in 1..k : C2[j].vote = q.vote /\ C2[j].at = q.at
  BY <1>c, <1>0, <1>3 DEF Accounts
<1>10. \A q \in P2 : \A j \in 1..k : C2[j].vote # q.vote => C2[j].til <= q.at
  BY <1>c, <1>0, <1>2, <1>3, <1>9 DEF Accounts
<1>11. \A q, r \in P2 : q.vote = r.vote
  BY <1>9
<1>12. DOMAIN C2 = 1..k
  OBVIOUS
<1>13. Accounts(S2, P2, n, C2)
  BY <1>5, <1>6, <1>8, <1>9, <1>10, <1>11, <1>12 DEF Accounts
<1> QED BY <1>13 DEF ClicksOf

LEMMA AccountsOfClick ==
  ASSUME NEW S, NEW P, NEW n \in Times, NEW k \in Nat, ClicksOf(S, P, n, k),
         NEW v \in Directions, \A p \in P : p.vote = v,
         NEW P2, \A p \in P2 : p \in P \/ (p.vote = v /\ p.at = n)
  PROVE  ClicksOf(S, P2, n, k + 1)
<1>c. PICK C \in [1..k -> Span] : Accounts(S, P, n, C)
  BY DEF ClicksOf
<1>0. DOMAIN C = 1..k /\ n \in Nat
  BY BoundsAssumption DEF Times
<1>1. PICK C2 \in [1..(k + 1) -> Span] :
        /\ C2[k + 1] = [vote |-> v, at |-> n, til |-> n]
        /\ \A j \in 1..k : C2[j] = C[j]
  <2> DEFINE x == [vote |-> v, at |-> n, til |-> n]
             D == [j \in 1..(k + 1) |-> IF j = k + 1 THEN x ELSE C[j]]
  <2>1. x \in Span
    BY DEF Span
  <2> HIDE DEF x
  <2>2. \A j \in 1..(k + 1) : j # k + 1 => j \in 1..k
    OBVIOUS
  <2>3. D \in [1..(k + 1) -> Span]
    BY <2>1, <2>2
  <2>4. D[k + 1] = x /\ \A j \in 1..k : D[j] = C[j]
    OBVIOUS
  <2> QED BY <2>3, <2>4 DEF x
<1>2. C2[k + 1].vote = v /\ C2[k + 1].at = n /\ C2[k + 1].til = n
  BY <1>1
<1>3. \A j \in 1..(k + 1) : j = k + 1 \/ j \in 1..k
  OBVIOUS
<1>4. 1..k \subseteq 1..(k + 1) /\ k + 1 \in 1..(k + 1)
  OBVIOUS
<1>5. \A s \in S : \E i \in 1..(k + 1) : Within(s, C2[i])
  BY <1>c, <1>0, <1>1, <1>4 DEF Accounts
<1>6. \A i \in 1..(k + 1) : C2[i].at <= C2[i].til /\ C2[i].til <= C2[i].at + Spread /\ C2[i].til <= n
  BY <1>c, <1>0, <1>1, <1>2, <1>3, BoundsAssumption DEF Accounts
<1>7. \A i, j \in 1..(k + 1) :
        C2[i].vote # C2[j].vote => C2[i].til <= C2[j].at \/ C2[j].til <= C2[i].at
  <2>1. \A i \in 1..k : C2[i].til <= n
    BY <1>4, <1>6
  <2>2. \A i, j \in 1..k :
          C2[i].vote # C2[j].vote => C2[i].til <= C2[j].at \/ C2[j].til <= C2[i].at
    BY <1>c, <1>0, <1>1 DEF Accounts
  <2> QED BY <1>2, <1>3, <2>1, <2>2
<1>8. \A p \in P2 : p.vote = v /\ \E i \in 1..(k + 1) : C2[i].vote = p.vote /\ C2[i].at = p.at
  BY <1>c, <1>0, <1>1, <1>2, <1>4 DEF Accounts
<1>9. \A p \in P2 : \A j \in 1..(k + 1) : C2[j].vote # p.vote => C2[j].til <= p.at
  <2> SUFFICES ASSUME NEW p \in P2, NEW j \in 1..(k + 1), C2[j].vote # v PROVE C2[j].til <= p.at
    BY <1>8
  <2>1. j \in 1..k
    BY <1>2, <1>3
  <2>2. CASE p \in P
    BY <1>c, <1>0, <1>1, <2>1, <2>2 DEF Accounts
  <2>3. CASE p.at = n
    BY <1>6, <2>3
  <2> QED BY <2>2, <2>3
<1>10. Accounts(S, P2, n, C2)
  BY <1>5, <1>6, <1>7, <1>8, <1>9 DEF Accounts
<1> QED BY <1>10 DEF ClicksOf

LEMMA NextApart ==
  ASSUME TypeOK, Apart, [Next]_vars
  PROVE  Apart'
<1>1. CASE UNCHANGED votes
  BY <1>1 DEF Apart, SameClick
<1>2. CASE RecordTopics /\ ~ UNCHANGED votes
  <2>1. votes' = Recorded(Unrecorded)
    BY <1>2 DEF RecordTopics
  <2>2. votes \subseteq votes' /\ \A r \in votes' : r \in votes \/ r \in Unrecorded
    BY <2>1 DEF Recorded
  <2>3. \A r, s \in Unrecorded : r.topic = s.topic => r = s
    BY PulledTypes, TypeOKEq DEF Unrecorded
  <2>4. \A r \in votes' : r.at \in Int
    <3>1. \A r \in votes' : r \in Votes
      BY <2>2, PulledTypes, TypeOKEq DEF Unrecorded
    <3> QED BY <3>1, BoundsAssumption DEF Votes, Times
  (* More votes recorded can only tell two votes further apart. *)
  <2>5. ASSUME NEW r \in votes', NEW s \in votes', SameClick(r, s)'
        PROVE  SameClick(r, s) /\ SameClick(s, r) /\ r.topic = s.topic
    <3>1. /\ s.topic = r.topic /\ s.direction = r.direction
          /\ Distance(s.at, r.at) <= Window
          /\ \A o \in votes :
               o.topic = r.topic /\ o.direction # r.direction =>
                 ~ (s.at < o.at /\ o.at < r.at) /\ ~ (r.at < o.at /\ o.at < s.at)
      BY <2>2, <2>5 DEF SameClick
    <3>2. Distance(r.at, s.at) = Distance(s.at, r.at)
      BY <2>4 DEF Distance
    <3> QED BY <3>1, <3>2 DEF SameClick
  <2>6. \A r \in votes', s \in votes' : r # s => ~ SameClick(r, s)'
    BY <2>2, <2>3, <2>5 DEF Apart, Unrecorded
  <2> QED BY <2>6 DEF Apart
<1> QED BY <1>1, <1>2
  DEF Next, vars, Tick, Click, Land, PostLost, Pull, RecordRejected, RecordAccepted, Ack,
      AckFails, SyncFails

LEMMA NextInTime ==
  ASSUME TypeOK, PostsInTime, [Next]_vars
  PROVE  PostsInTime'
<1>1. now \in Nat /\ \A p \in posts : p.at \in Nat
  BY TypeOKEq, BoundsAssumption DEF Times
<1>2. CASE Tick
  BY <1>1, <1>2, BoundsAssumption DEF Tick, PostsInTime
<1>3. ASSUME NEW g \in Groups, NEW v \in Directions, Click(g, v) PROVE PostsInTime'
  BY <1>1, <1>3, BoundsAssumption DEF Click, PostsInTime
<1>4. ASSUME NEW p \in posts, Land(p) \/ PostLost(p) PROVE PostsInTime'
  <2>1. \A q \in posts' : \E r \in posts : q.at = r.at
    BY <1>4, TypeOKEq DEF Land, PostLost
  <2> QED BY <1>4, <2>1 DEF Land, PostLost, PostsInTime
<1>5. CASE UNCHANGED <<now, posts>>
  BY <1>5 DEF PostsInTime
<1> QED BY <1>2, <1>3, <1>4, <1>5
  DEF Next, vars, Pull, RecordRejected, RecordAccepted, RecordTopics, Ack, AckFails, SyncFails

LEMMA StampsType ==
  ASSUME TypeOK, NEW t
  PROVE  Stamps(t) \subseteq Stamp
<1>1. Stored(kv) /\ Stored(pulled) /\ votes \subseteq Votes
  BY TypeOKEq
<1>2. \A f : Stored(f) => StampsIn(f, t) \subseteq Stamp
  BY DEF Stored, StampsIn, Stamp
<1>3. {[at |-> v.at, vote |-> v.direction] : v \in {w \in votes : w.topic = t}} \subseteq Stamp
  BY <1>1 DEF Votes, Stamp
<1> QED BY <1>1, <1>2, <1>3 DEF Stamps

LEMMA NextAccounted ==
  ASSUME OnceInv, [Next]_vars
  PROVE  Accounted'
<1>0. TypeOK /\ TypeOK'
  BY NextType DEF OnceInv
<1>a. /\ now \in Times /\ now' \in Times
      /\ \A t \in Topics : clicks[t] \in Nat
      /\ posts \subseteq [url : Urls, vote : Directions, at : Times, group : Groups \cup {{}}]
      /\ turned \subseteq Topics
  <2>1. now' \in Times
    BY <1>0 DEF TypeOK
  <2> QED BY <1>0, <2>1, TypeOKEq, BoundsAssumption
<1>b. turned \subseteq turned' 
  BY DEF Next, vars, Tick, Click, Land, PostLost, Pull, RecordRejected, RecordAccepted,
     RecordTopics, Ack, AckFails, SyncFails
<1> SUFFICES ASSUME NEW t \in Topics \ turned'
             PROVE  ClicksOf(Stamps(t)', PostsOn(t)', now', clicks'[t])
  BY DEF Accounted
<1> DEFINE Goal == ClicksOf(Stamps(t)', PostsOn(t)', now', clicks'[t])
<1>c. ClicksOf(Stamps(t), PostsOn(t), now, clicks[t])
  BY <1>b DEF OnceInv, Accounted
<1>d. Stamps(t) \subseteq Stamp
  BY <1>0, StampsType
(* Steps that bring the topic no click and no vote. *)
<1>e. ASSUME clicks' = clicks, Stamps(t)' \subseteq Stamps(t), now <= now',
             \A p \in PostsOn(t)' : \E q \in PostsOn(t) : q.vote = p.vote /\ q.at = p.at
      PROVE  Goal
  BY <1>a, <1>c, <1>e, AccountsStay
<1>f. ASSUME UNCHANGED <<kv, pulled, votes>> PROVE Stamps(t)' = Stamps(t)
  BY <1>f DEF Stamps, StampsIn
<1>g. ASSUME UNCHANGED posts PROVE PostsOn(t)' = PostsOn(t)
  BY <1>g DEF PostsOn
<1>h. now <= now /\ now <= now + 1
  BY <1>a, BoundsAssumption DEF Times
<1>1. CASE Tick \/ UNCHANGED vars
  <2>1. UNCHANGED <<kv, pulled, votes, posts, clicks>> /\ now <= now'
    BY <1>1, <1>h DEF Tick, vars
  <2> QED BY <1>e, <1>f, <1>g, <2>1
<1>2. ASSUME NEW g \in Groups, NEW v \in Directions, Click(g, v) PROVE Goal
  <2>1. /\ posts' = posts \cup {[url |-> u, vote |-> v, at |-> now, group |-> g] : u \in g}
        /\ clicks'[t] = IF t \in TopicsOf(g) THEN clicks[t] + 1 ELSE clicks[t]
        /\ UNCHANGED <<now, kv, pulled, votes>>
    BY <1>2 DEF Click
  <2>2. \A p \in PostsOn(t)' :
          \/ p \in PostsOn(t)
          \/ p.vote = v /\ p.at = now /\ t \in TopicsOf(g)
    BY <2>1 DEF PostsOn, TopicsOf
  <2>3. Stamps(t)' = Stamps(t)
    BY <1>f, <2>1
  <2>4. CASE t \in TopicsOf(g)
    <3>1. \A p \in PostsOn(t) : p.vote = v
      <4>1. t \notin TopicsOf({q.url : q \in {r \in posts : r.vote # v}})
        BY <1>2, <2>4 DEF Click
      <4> QED BY <4>1 DEF PostsOn, TopicsOf
    <3>2. ClicksOf(Stamps(t), PostsOn(t)', now, clicks[t] + 1)
      BY <1>a, <1>c, <2>2, <3>1, AccountsOfClick
    <3> QED BY <2>1, <2>3, <2>4, <3>2
  <2>5. CASE t \notin TopicsOf(g)
    <3>1. \A p \in PostsOn(t)' : \E q \in PostsOn(t) : q.vote = p.vote /\ q.at = p.at
      BY <2>2, <2>5
    <3>2. ClicksOf(Stamps(t), PostsOn(t)', now, clicks[t])
      BY <1>a, <1>c, <1>h, <3>1, AccountsStay
    <3> QED BY <2>1, <2>3, <2>5, <3>2
  <2> QED BY <2>4, <2>5
<1>3. ASSUME NEW p \in posts, Land(p) PROVE Goal
  <2>1. /\ DOMAIN kv' = DOMAIN kv \cup {p.url}
        /\ kv'[p.url] = [vote |-> p.vote, ts |-> now]
        /\ \A u \in DOMAIN kv : u # p.url => kv'[u] = kv[u]
    BY <1>0, <1>3, LandType
  <2>2. UNCHANGED <<clicks, now, pulled, votes>> /\ posts' = posts \ {p}
    BY <1>3 DEF Land
  <2>3. PostsOn(t)' \subseteq PostsOn(t)
    BY <2>2 DEF PostsOn
  <2>4. CASE p \in PostsOn(t)
    <3>1. StampsIn(kv', t) \subseteq StampsIn(kv, t) \cup {[at |-> now, vote |-> p.vote]}
      BY <2>1 DEF StampsIn
    <3>2. Stamps(t)' \subseteq Stamps(t) \cup {[at |-> now, vote |-> p.vote]}
      BY <2>2, <3>1 DEF Stamps
    <3>3. p.at \in Times /\ p.at <= now /\ now <= p.at + Spread
      BY <1>a DEF OnceInv, PostsInTime
    <3>4. ClicksOf(Stamps(t)', PostsOn(t)', now, clicks[t])
      BY <1>a, <1>c, <1>d, <2>3, <2>4, <3>2, <3>3, AccountsOfLand
    <3> QED BY <2>2, <3>4
  <2>5. CASE p \notin PostsOn(t)
    <3>1. StampsIn(kv', t) \subseteq StampsIn(kv, t)
      BY <2>1, <2>5 DEF StampsIn, PostsOn
    <3>2. Stamps(t)' \subseteq Stamps(t)
      BY <2>2, <3>1 DEF Stamps
    <3> QED BY <1>e, <1>h, <2>2, <2>3, <3>2
  <2> QED BY <2>4, <2>5
<1>4. ASSUME NEW p \in posts, PostLost(p) PROVE Goal
  <2>1. \A q \in posts' : \E r \in posts : q.url = r.url /\ q.vote = r.vote /\ q.at = r.at
    BY <1>4, <1>a DEF PostLost
  <2>2. \A q \in PostsOn(t)' : \E r \in PostsOn(t) : r.vote = q.vote /\ r.at = q.at
    BY <2>1 DEF PostsOn
  <2>3. UNCHANGED <<clicks, now, kv, pulled, votes>>
    BY <1>4 DEF PostLost
  <2> QED BY <1>e, <1>f, <1>h, <2>2, <2>3
<1>5. CASE Pull
  <2>1. Stamps(t)' \subseteq Stamps(t)
    BY <1>5 DEF Pull, Stamps
  <2> QED BY <1>5, <1>e, <1>g, <1>h, <2>1 DEF Pull
<1>6. CASE RecordRejected \/ RecordAccepted
  BY <1>6, <1>e, <1>f, <1>g, <1>h DEF RecordRejected, RecordAccepted
<1>7. CASE RecordTopics
  <2>1. \A v \in votes' : v \in votes \/ v \in Pulled
    BY <1>7 DEF RecordTopics, Recorded, Unrecorded
  <2>2. \A v \in Pulled : \E c \in Of(v.topic) : v.direction = c.vote /\ v.at = c.at
    BY <1>0, PulledTypes, TypeOKEq
  <2>3. \A c \in Of(t) : c \in StampsIn(pulled, t) /\ c = [at |-> c.at, vote |-> c.vote]
    BY DEF Of, StampsIn
  <2>4. \A v \in votes' : v.topic = t => [at |-> v.at, vote |-> v.direction] \in Stamps(t)
    BY <2>1, <2>2, <2>3 DEF Stamps
  <2>5. Stamps(t)' \subseteq Stamps(t)
    BY <1>7, <2>4 DEF RecordTopics, Stamps
  <2> QED BY <1>7, <1>e, <1>g, <1>h, <2>5 DEF RecordTopics
<1>8. CASE Ack \/ AckFails \/ SyncFails
  <2>1. DOMAIN kv' \subseteq DOMAIN kv /\ \A u \in DOMAIN kv' : kv'[u] = kv[u]
    <3>1. kv' = kv \/ \E S : kv' = Without(S)
      BY <1>8 DEF Ack, AckFails, SyncFails
    <3>2. Stored(kv)
      BY <1>0, TypeOKEq
    <3>3. \A S : DOMAIN Without(S) \subseteq DOMAIN kv
                 /\ \A u \in DOMAIN Without(S) : Without(S)[u] = kv[u]
      BY <3>2, WithoutType
    <3>4. CASE kv' = kv
      BY <3>4
    <3>5. CASE \E S : kv' = Without(S)
      BY <3>3, <3>5
    <3> QED BY <3>1, <3>4, <3>5
  <2>2. DOMAIN pulled' = {}
    BY <1>8, EmptyIsStored DEF Ack, AckFails, SyncFails, Over
  <2>3. StampsIn(kv', t) \subseteq StampsIn(kv, t) /\ StampsIn(pulled', t) = {}
    BY <2>1, <2>2 DEF StampsIn
  <2>4. UNCHANGED <<now, posts, clicks, votes>>
    BY <1>8 DEF Ack, AckFails, SyncFails
  <2>5. Stamps(t)' \subseteq Stamps(t)
    BY <2>3, <2>4 DEF Stamps
  <2> QED BY <1>e, <1>g, <1>h, <2>4, <2>5
<1> QED BY <1>1, <1>2, <1>3, <1>4, <1>5, <1>6, <1>7, <1>8 DEF Next

LEMMA NextOnce ==
  ASSUME OnceInv, [Next]_vars
  PROVE  OnceInv'
BY NextType, NextApart, NextInTime, NextAccounted DEF OnceInv

(* A click counts once, however its posts are spread over the syncs, and   *)
(* however often a sync is tried again: two votes recorded are never of    *)
(* one click, so they are no more than the clicks (`topic_votes`,          *)
(* `unrecorded`, MarginAssumption).                                        *)
THEOREM ClicksCountOnce == Spec => []OneVotePerClick
BY InitOnce, NextOnce, OnceEnough, PTL DEF Spec
=============================================================================
