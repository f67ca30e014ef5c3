-------------------------------- MODULE VoteSync --------------------------------
(***************************************************************************)
(* The way of a reader's vote from a published page into D1: the page's    *)
(* posts (_promote_script.html.j2), the promote Worker's KV                *)
(* (workers/promote/src/index.js) and `sync_promotions` of                 *)
(* adapters/promotions.py, which a run calls before its issue.  A click on *)
(* a vote group posts once per member URL; the posts land one by one, some *)
(* perhaps never, and a sync may fall between them, fail half-way or lose  *)
(* the answer to its ACK, to be tried again by the next run.               *)
(*                                                                         *)
(* Time is counted in ticks: Spread is how long a click's posts may take   *)
(* (VOTE_TIMEOUT_MS), Window the time in which two votes count as one      *)
(* click.  A vote is +1 or -1.                                             *)
(***************************************************************************)
EXTENDS Integers, FiniteSets

CONSTANTS
  Groups,       \* the vote groups of the pages: sets of URLs
  Held,         \* the URLs the article store holds
  Topics,
  TopicOf,      \* `topics_of_urls`: URL -> topic, for the URLs some topic holds
  Spread,       \* VOTE_TIMEOUT_MS
  Window,       \* ONE_CLICK_WINDOW
  MaxNow,       \* bound: the length of a behaviour
  MaxClicks,    \* bound: the number of clicks
  Faults,       \* what may go wrong
  MidSync       \* whether a vote may land on a URL a sync has pulled and not yet acked

Urls == UNION Groups
Times == 0..MaxNow
Directions == {1, -1}
FaultKinds == {"post", "record", "topics", "ack"}

ASSUME BoundsAssumption ==
  Spread \in Nat /\ Window \in Nat /\ MaxNow \in Nat /\ MaxClicks \in Nat
(* "Sixty seconds leaves the 10 a wide margin." *)
ASSUME MarginAssumption == Spread <= Window
ASSUME TopicsAssumption == TopicOf \in [DOMAIN TopicOf -> Topics] /\ DOMAIN TopicOf \subseteq Urls
ASSUME FaultsAssumption == Faults \subseteq FaultKinds /\ MidSync \in BOOLEAN

VARIABLES
  now,
  posts,      \* the posts still under way: [url, vote, at, group], at the time of the click
  clicks,     \* history: topic -> the number of clicks on its articles
  turned,     \* history: topics voted the other way while posts of a vote were under way
  kv,         \* the Worker's KV: URL -> [vote, ts]
  cast,       \* history: URL -> the last vote KV took for it, 0 for none
  row,        \* D1 `stored_articles`: URL -> the human verdict it carries, 0 for none
  votes,      \* D1 `topic_votes`: [topic, direction, at]
  pc,         \* where the sync is
  pulled      \* what it pulled: URL -> [vote, ts]

vars == <<now, posts, clicks, turned, kv, cast, row, votes, pc, pulled>>

Empty == [u \in {} |-> u]

Init ==
  /\ now = 0
  /\ posts = {} /\ clicks = [t \in Topics |-> 0] /\ turned = {}
  /\ kv = Empty /\ cast = [u \in Urls |-> 0]
  /\ row = [u \in Urls |-> 0] /\ votes = {}
  /\ pc = "idle" /\ pulled = Empty

-----------------------------------------------------------------------------
(* The page and the Worker. *)

(* A post that has not landed when its time is up never will. *)
Tick ==
  /\ now < MaxNow
  /\ \A p \in posts : now < p.at + Spread
  /\ now' = now + 1
  /\ UNCHANGED <<posts, clicks, turned, kv, cast, row, votes, pc, pulled>>

TopicsOf(g) == {TopicOf[u] : u \in g \cap DOMAIN TopicOf}

(* A click: the group's buttons are disabled until the page has the answer *)
(* to all of its posts, or the failure of one.                             *)
Click(g, v) ==
  /\ \A t \in Topics : clicks[t] < MaxClicks
  /\ \A p \in posts : p.group # g
  /\ posts' = posts \cup {[url |-> u, vote |-> v, at |-> now, group |-> g] : u \in g}
  /\ clicks' = [t \in Topics |-> IF t \in TopicsOf(g) THEN clicks[t] + 1 ELSE clicks[t]]
  /\ turned' = turned \cup (TopicsOf(g) \cap TopicsOf({p.url : p \in {q \in posts : q.vote # v}}))
  /\ UNCHANGED <<now, kv, cast, row, votes, pc, pulled>>

(* `POST /promote`: the vote overwrites an earlier one on the URL. *)
Land(p) ==
  /\ MidSync \/ p.url \notin DOMAIN pulled
  /\ posts' = posts \ {p}
  /\ kv' = [u \in DOMAIN kv \cup {p.url} |->
              IF u = p.url THEN [vote |-> p.vote, ts |-> now] ELSE kv[u]]
  /\ cast' = [cast EXCEPT ![p.url] = p.vote]
  /\ UNCHANGED <<now, clicks, turned, row, votes, pc, pulled>>

(* A post gets lost; the page shows the failure and waits for no other     *)
(* post of that click, though it may still land.                           *)
PostLost(p) ==
  /\ "post" \in Faults
  /\ posts' = {[q EXCEPT !.group = IF @ = p.group THEN {} ELSE @] : q \in posts \ {p}}
  /\ UNCHANGED <<now, clicks, turned, kv, cast, row, votes, pc, pulled>>

-----------------------------------------------------------------------------
(* `topic_votes`: of the votes pulled for a topic's articles, the newest   *)
(* one's direction, timed by the first of the agreeing run it ends.        *)
Of(t) == {[at |-> pulled[u].ts, vote |-> pulled[u].vote] :
            u \in {w \in DOMAIN pulled \cap DOMAIN TopicOf : TopicOf[w] = t}}

(* The order of the pairs (clicked, direction). *)
Before(c, d) == c.at < d.at \/ (c.at = d.at /\ c.vote < d.vote)

(* Mutant: a topic's vote adds up its articles' votes. *)
TopicSum(t) ==
  [topic |-> t,
   direction |-> Cardinality({c \in Of(t) : c.vote = 1}) - Cardinality({c \in Of(t) : c.vote = -1}),
   at |-> (CHOOSE c \in Of(t) : TRUE).at]

TopicVote(t) ==
  LET last == CHOOSE c \in Of(t) : \A d \in Of(t) : d = c \/ Before(d, c)
      first == CHOOSE c \in Of(t) :
                 /\ \A d \in Of(t) : d = c \/ Before(c, d) => d.vote = last.vote
                 /\ \A d \in Of(t) : Before(d, c) =>
                      \E e \in Of(t) : (e = d \/ Before(d, e)) /\ e.vote # last.vote
                 /\ c.vote = last.vote
  IN [topic |-> t, direction |-> last.vote, at |-> first.at]

Pulled == {TopicVote(t) : t \in {s \in Topics : Of(s) # {}}}

Distance(m, n) == IF m < n THEN n - m ELSE m - n

(* `same_click` of `unrecorded`. *)
SameClick(v, r) ==
  /\ r.topic = v.topic /\ r.direction = v.direction
  /\ Distance(r.at, v.at) <= Window
  /\ \A o \in votes :
       o.topic = v.topic /\ o.direction # v.direction =>
         ~ (r.at < o.at /\ o.at < v.at) /\ ~ (v.at < o.at /\ o.at < r.at)

(* Mutant: every vote pulled is new. *)
AllPulled == Pulled

Unrecorded == {v \in Pulled : \A r \in votes : ~ SameClick(v, r)}

(* INSERT OR IGNORE under the key (topic, clicked_at). *)
Recorded(new) ==
  votes \cup {v \in new : \A r \in votes : r.topic = v.topic => r.at # v.at}

-----------------------------------------------------------------------------
(* `sync_promotions`. *)

Pull ==
  /\ pc = "idle"
  /\ DOMAIN kv # {}
  /\ pc' = "reject" /\ pulled' = kv
  /\ UNCHANGED <<now, posts, clicks, turned, kv, cast, row, votes>>

(* The two statements of `record_verdicts`: the rejected rows first, then  *)
(* the accepted ones.  A URL the store does not hold is passed over.       *)
Write(v) ==
  row' = [u \in Urls |->
            IF u \in DOMAIN pulled \cap Held /\ pulled[u].vote = v THEN v ELSE row[u]]

RecordRejected ==
  /\ pc = "reject"
  /\ Write(-1)
  /\ pc' = "accept"
  /\ UNCHANGED <<now, posts, clicks, turned, kv, cast, votes, pulled>>

RecordAccepted ==
  /\ pc = "accept"
  /\ Write(1)
  /\ pc' = "topics"
  /\ UNCHANGED <<now, posts, clicks, turned, kv, cast, votes, pulled>>

(* The topic votes; a store that fails is logged, and the ACK goes ahead. *)
RecordTopics ==
  /\ pc = "topics"
  /\ \/ votes' = Recorded(Unrecorded)
     \/ "topics" \in Faults /\ UNCHANGED votes
  /\ pc' = "ack"
  /\ UNCHANGED <<now, posts, clicks, turned, kv, cast, row, pulled>>

Without(S) == [u \in DOMAIN kv \ S |-> kv[u]]

Over == pc' = "idle" /\ pulled' = Empty

(* `POST /ack`: the Worker deletes the URLs pulled, whatever they hold. *)
Ack ==
  /\ pc = "ack"
  /\ kv' = Without(DOMAIN pulled)
  /\ Over
  /\ UNCHANGED <<now, posts, clicks, turned, cast, row, votes>>

(* The ACK fails after deleting some of them, or all. *)
AckFails ==
  /\ "ack" \in Faults
  /\ pc = "ack"
  /\ \E S \in SUBSET DOMAIN pulled : kv' = Without(S)
  /\ Over
  /\ UNCHANGED <<now, posts, clicks, turned, cast, row, votes>>

(* Mutant: the ACK goes out in a `finally`. *)
SyncFailsAcked ==
  /\ "record" \in Faults
  /\ pc # "idle"
  /\ kv' = Without(DOMAIN pulled)
  /\ Over
  /\ UNCHANGED <<now, posts, clicks, turned, cast, row, votes>>

(* A read or a statement fails, or the run is killed. *)
SyncFails ==
  /\ "record" \in Faults
  /\ pc # "idle"
  /\ Over
  /\ UNCHANGED <<now, posts, clicks, turned, kv, cast, row, votes>>

Next ==
  \/ Tick
  \/ \E g \in Groups, v \in Directions : Click(g, v)
  \/ \E p \in posts : Land(p) \/ PostLost(p)
  \/ Pull \/ RecordRejected \/ RecordAccepted \/ RecordTopics
  \/ Ack \/ AckFails \/ SyncFails

Spec == Init /\ [][Next]_vars

-----------------------------------------------------------------------------
TypeOK ==
  /\ now \in Times
  /\ posts \subseteq [url : Urls, vote : Directions, at : Times, group : Groups \cup {{}}]
  /\ clicks \in [Topics -> 0..MaxClicks] /\ turned \subseteq Topics
  /\ \A f \in {kv, pulled} :
       DOMAIN f \subseteq Urls /\ f \in [DOMAIN f -> [vote : Directions, ts : Times]]
  /\ cast \in [Urls -> {0} \cup Directions] /\ row \in [Urls -> {0} \cup Directions]
  /\ votes \subseteq [topic : Topics, direction : Directions, at : Times]
  /\ pc \in {"idle", "reject", "accept", "topics", "ack"}

(* The last vote the Worker took for an article is in its KV until the     *)
(* article's row carries it: "KV keeps them until then" (architecture.md), *)
(* "ACK happens only after the store is updated" (`sync_promotions`).      *)
VoteIsKept ==
  \A u \in Held \cap Urls :
    cast[u] # 0 => row[u] = cast[u] \/ (u \in DOMAIN kv /\ kv[u].vote = cast[u])

(* One click counts once: a topic has no more votes than the reader made   *)
(* clicks on its articles, however a sync falls between a click's posts or *)
(* is repeated before its ACK (`topic_votes`, `unrecorded`).  Excepted is  *)
(* a topic voted the other way while posts of a vote on it were under way: *)
(* the late post is a vote of its own, with an opposite one before it.     *)
OneVotePerClick ==
  \A t \in Topics \ turned : Cardinality({v \in votes : v.topic = t}) <= clicks[t]
=============================================================================
