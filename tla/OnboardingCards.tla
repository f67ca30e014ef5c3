---------------------------- MODULE OnboardingCards ----------------------------
(***************************************************************************)
(* The sources and votes steps of the onboarding wizard                    *)
(* (entrypoints/static/onboarding.js): feeds are saved one POST each, vote *)
(* cards are dealt from the feeds the table holds, and the marked ones are *)
(* posted and then shown as recorded.  Back, Skip and the browser's own    *)
(* history leave a step at any time, and Next is then ready again though a *)
(* save is out; a reload starts the page anew while requests of the old    *)
(* one are still with the server (triage_server.py).                       *)
(*                                                                         *)
(* A feed stands for one article of its older half, under the same name.   *)
(***************************************************************************)
EXTENDS Integers, FiniteSets, Sequences, Functions, D1Calls

CONSTANTS
  Feeds,
  Sends,      \* bound: posts of votes
  Presses,    \* bound: buttons of cards pressed
  Out,        \* bound: saves the page has out at once
  Mishaps     \* bound: requests and statements that fail, and reloads

Votes == {"up", "down"}
Untouched == "none"
Steps == {"sources", "votes", "other"}

VARIABLES
  table,    \* the feeds in D1
  row,      \* D1: article -> "absent", "pending" or the vote it carries
  step,     \* the step the page shows
  added,    \* the feeds the page shows as "Added"
  ready,    \* whether Next is enabled
  saving,   \* the saves Next began: [id, left, added, failed], `id` the post's for votes
  stray,    \* feeds whose POST outlives the page that sent it
  deal,     \* the deal that is out: [pc, from]
  cards,    \* the cards shown: article -> [vote, state]
  dealt,    \* `cardsDealt`
  posts,    \* the posts of votes: [id, pc, votes, found, shown],
            \* `shown` while the cards it was made of are on the page
  sent, presses, mishaps,
  from,     \* history: the feeds the shown cards were dealt from
  unseen,   \* history: feeds stored by a save that failed, or behind a deal's back
  flipped,  \* history: cards pressed while their vote was out
  writer,   \* history: article -> the newest post that wrote it
  overtaken \* history: articles an older post wrote after a newer one

server == <<table, row>>
form == <<step, added, ready, saving, stray>>
shown == <<cards, dealt, from>>
bounds == <<sent, presses, mishaps>>
history == <<unseen, flipped, writer, overtaken>>
vars == <<server, form, deal, shown, posts, bounds, history>>

Save(id, picked) == [id |-> id, left |-> picked, added |-> {}, failed |-> FALSE]
SavingSources == -1
SavesOfSources == {s \in saving : s.id = SavingSources}
AddedBySaves == UNION {s.added : s \in saving}
Awaits(p) == \E s \in saving : s.id = p.id

NoDeal == [pc |-> "none", from |-> {}]

(* The wizard opens on a new deployment, which has no feeds yet. *)
Init ==
  /\ table = {}
  /\ row = [u \in Feeds |-> "absent"]
  /\ step = "sources" /\ added = table /\ ready = TRUE /\ saving = {} /\ stray = {}
  /\ deal = NoDeal /\ cards = <<>> /\ dealt = FALSE /\ posts = {}
  /\ sent = 0 /\ presses = 0 /\ mishaps = 0
  /\ from = {} /\ unseen = {} /\ flipped = {}
  /\ writer = [u \in Feeds |-> 0] /\ overtaken = {}

Mishap == mishaps < Mishaps /\ mishaps' = mishaps + 1

-----------------------------------------------------------------------------
(* Moving between the steps. *)

(* `loadCards`, at the end of `route`: a deal unless one is had or is out. *)
LoadCards(s, has, out) ==
  deal' = IF s = "votes" /\ ~has /\ out = NoDeal THEN [pc |-> "sent", from |-> {}] ELSE out

(* Back and Skip, and the browser's own buttons, which no save disables;   *)
(* `route` enables Next whatever is out.                                   *)
Go(s) ==
  /\ s # step /\ step' = s /\ ready' = TRUE
  /\ LoadCards(s, dealt, deal)
  /\ UNCHANGED <<server, added, saving, stray, shown, posts, bounds, history>>

(* A reload keeps the step, and a POST of each save may still be out.      *)
Reload ==
  /\ Mishap
  /\ \E f \in SUBSET UNION {s.left : s \in saving} :
       Cardinality(f) <= Cardinality(SavesOfSources) /\ stray' = stray \cup f
  /\ added' = table /\ ready' = TRUE /\ saving' = {}
  /\ cards' = <<>> /\ dealt' = FALSE /\ from' = {}
  /\ LoadCards(step, FALSE, NoDeal)
  /\ posts' = {[p EXCEPT !.shown = FALSE] : p \in {q \in posts : q.pc = "read"}}
  /\ unseen' = {} /\ flipped' = {}
  /\ UNCHANGED <<server, step, sent, presses, writer, overtaken>>

StepAfter(s) == IF s = "sources" THEN "votes" ELSE "other"

-----------------------------------------------------------------------------
(* `saveSources`. *)

(* Next pressed again while its feeds are being saved sends the same feeds *)
(* again, to the same rows: left out.                                      *)
NextSources(picked) ==
  /\ step = "sources" /\ ready /\ picked # {} /\ picked \cap added = {}
  /\ SavesOfSources = {} /\ Cardinality(saving) < Out
  /\ ready' = FALSE /\ saving' = saving \cup {Save(SavingSources, picked)}
  /\ UNCHANGED <<server, step, added, stray, deal, shown, posts, bounds, history>>

Saved(s, t) == saving' = (saving \ {s}) \cup {t}

(* One feed; an `upsert` may run and its answer not come. *)
PostSource(s, f, fate) ==
  /\ s \in SavesOfSources /\ f \in s.left
  /\ \/ fate = "done" /\ UNCHANGED mishaps
     \/ fate \in {"silent", "refused"} /\ Mishap
  /\ table' = IF Ran(fate) THEN table \cup {f} ELSE table
  /\ IF Raises(fate)
       THEN /\ Saved(s, [s EXCEPT !.left = @ \ {f}, !.failed = TRUE])
            /\ added' = added \ {f}
       ELSE /\ Saved(s, [s EXCEPT !.left = @ \ {f}, !.added = @ \cup {f}])
            /\ added' = added \cup {f}
  /\ unseen' = IF fate = "silent" THEN unseen \cup {f} ELSE unseen
  /\ UNCHANGED <<row, step, ready, stray, deal, shown, posts, sent, presses,
                 flipped, writer, overtaken>>

StrayLands(f) ==
  /\ f \in stray
  /\ stray' = stray \ {f} /\ table' = table \cup {f} /\ unseen' = unseen \cup {f}
  /\ UNCHANGED <<row, step, added, ready, saving, deal, shown, posts, bounds,
                 flipped, writer, overtaken>>

(* The save is over.  One that failed in part throws before it clears      *)
(* `cardsDealt`; one that did not moves on from the step there is.         *)
SourcesSaved(s) ==
  /\ s \in SavesOfSources /\ s.left = {}
  /\ saving' = saving \ {s} /\ ready' = TRUE
  /\ IF s.failed
       THEN /\ unseen' = unseen \cup s.added
            /\ UNCHANGED <<step, dealt, from, deal>>
       ELSE /\ dealt' = FALSE /\ from' = {} /\ unseen' = {}
            /\ step' = StepAfter(step)
            /\ LoadCards(step', FALSE, deal)
  /\ UNCHANGED <<server, added, stray, cards, posts, bounds,
                 flipped, writer, overtaken>>

-----------------------------------------------------------------------------
(* The cards. *)

(* `_handle_post_onboarding_cards` reads the table, and then the feeds. *)
DealReads ==
  /\ deal.pc = "sent"
  /\ deal' = [pc |-> "read", from |-> table]
  /\ UNCHANGED <<server, form, shown, posts, bounds, history>>

(* Some feeds may have no card to give. *)
DealAnswers ==
  /\ deal.pc = "read"
  /\ \E dealing \in SUBSET deal.from :
       cards' = [u \in dealing |-> [vote |-> Untouched, state |-> "open"]]
  /\ dealt' = TRUE /\ from' = deal.from /\ deal' = NoDeal
  /\ posts' = {[p EXCEPT !.shown = FALSE] : p \in posts}
  /\ unseen' = table \ (deal.from \cup AddedBySaves)
  /\ flipped' = {}
  /\ UNCHANGED <<server, form, bounds, writer, overtaken>>

DealFails ==
  /\ deal # NoDeal /\ Mishap
  /\ deal' = NoDeal
  /\ UNCHANGED <<server, form, shown, posts, sent, presses, history>>

(* A second press on the pressed answer takes it back. *)
Press(u, v) ==
  /\ step = "votes" /\ u \in DOMAIN cards /\ cards[u].state = "open"
  /\ presses < Presses /\ presses' = presses + 1
  /\ cards' = [cards EXCEPT ![u].vote = IF @ = v THEN Untouched ELSE v]
  /\ flipped' = IF \E p \in posts : Awaits(p) /\ p.shown /\ u \in DOMAIN p.votes
                  THEN flipped \cup {u} ELSE flipped
  /\ UNCHANGED <<server, form, deal, dealt, from, posts, sent, mishaps,
                 unseen, writer, overtaken>>

-----------------------------------------------------------------------------
(* `saveVotes` and `_handle_post_onboarding_votes`. *)

Marked == {u \in DOMAIN cards : cards[u].vote # Untouched /\ cards[u].state = "open"}

NextVotes ==
  /\ step = "votes" /\ ready /\ Marked # {} /\ Cardinality(saving) < Out
  /\ sent < Sends /\ sent' = sent + 1
  /\ ready' = FALSE /\ saving' = saving \cup {Save(sent', {})}
  /\ posts' = posts \cup {[id |-> sent', pc |-> "read", found |-> {}, shown |-> TRUE,
                           votes |-> [u \in Marked |-> cards[u].vote]]}
  /\ UNCHANGED <<server, step, added, stray, deal, shown, presses, mishaps, history>>

(* An answer nobody waits for is gone. *)
Ended(p, pc, found) ==
  posts' = (posts \ {p}) \cup (IF Awaits(p) THEN {[p EXCEPT !.pc = pc, !.found = found]} ELSE {})

(* The articles as fetched, the rejected rows, and then the accepted ones  *)
(* (`record_verdicts`), each if there are any.                             *)
Statements(p, found) ==
  LET OfVote(v) == IF \E u \in found : p.votes[u] = v THEN <<v>> ELSE <<>>
  IN  <<"save">> \o OfVote("down") \o OfVote("up")

(* The articles are read again, and those that left their feed drop alone. *)
(* From there no other handler of the server runs.  A statement that       *)
(* raises, though it may have run, or a kill ends it; nothing is written   *)
(* when all the articles are gone.                                         *)
PostWrites(p) ==
  /\ p \in posts /\ p.pc = "read"
  /\ \E found \in SUBSET (DOMAIN p.votes \cap table) :
       LET all == IF found = {} THEN <<>> ELSE Statements(p, found)
       IN  \E n \in 0..Len(all) :
             LET ran == {all[k] : k \in 1..n}
                 voted == {u \in found : p.votes[u] \in ran}
             IN  /\ row' = [u \in Feeds |->
                              IF u \in voted THEN p.votes[u]
                              ELSE IF "save" \in ran /\ u \in found /\ row[u] = "absent" THEN "pending"
                              ELSE row[u]]
                 /\ overtaken' = overtaken \cup {u \in voted : p.id < writer[u]}
                 /\ writer' = [u \in Feeds |->
                                 IF u \in voted /\ writer[u] < p.id THEN p.id ELSE writer[u]]
                 /\ \/ /\ n = Len(all)
                       /\ Ended(p, IF found = {} THEN "failed" ELSE "done", found)
                       /\ UNCHANGED mishaps
                    \/ Ended(p, "failed", {}) /\ Mishap
  /\ UNCHANGED <<table, form, deal, shown, sent, presses, unseen, flipped>>

(* Mutant: the cards posted are recorded, found or not. *)
AllRecorded(p) ==
  [u \in DOMAIN cards |->
     IF p.shown /\ u \in DOMAIN p.votes
       THEN [cards[u] EXCEPT !.state = "recorded"] ELSE cards[u]]

(* `setRecorded` and `setGone`, on the cards the post was made of, which a *)
(* deal may have replaced by then.                                         *)
Settled(p) ==
  [u \in DOMAIN cards |->
     IF p.shown /\ u \in DOMAIN p.votes
       THEN [cards[u] EXCEPT !.state = IF u \in p.found THEN "recorded" ELSE "gone"]
       ELSE cards[u]]

(* The answer comes; the page that waits for it moves on. *)
PostAnswered(p) ==
  /\ p \in posts /\ p.pc \in {"done", "failed"}
  /\ posts' = posts \ {p}
  /\ saving' = {s \in saving : s.id # p.id} /\ ready' = TRUE
  /\ IF p.pc = "done"
       THEN /\ cards' = Settled(p)
            /\ step' = StepAfter(step)
            /\ LoadCards(step', dealt, deal)
       ELSE UNCHANGED <<cards, step, deal>>
  /\ UNCHANGED <<server, added, stray, dealt, from, bounds, history>>

(* The page hears of a failure while the server goes on. *)
AnswerLost(s) ==
  /\ s \in saving \ SavesOfSources /\ Mishap
  /\ saving' = saving \ {s} /\ ready' = TRUE
  /\ posts' = {p \in posts : p.pc = "read" \/ p.id # s.id}
  /\ UNCHANGED <<server, step, added, stray, deal, shown, sent, presses, history>>

Next ==
  \/ \E s \in Steps : Go(s)
  \/ Reload \/ DealReads \/ DealAnswers \/ DealFails \/ NextVotes
  \/ \E s \in saving : SourcesSaved(s) \/ AnswerLost(s)
  \/ \E picked \in SUBSET Feeds : NextSources(picked)
  \/ \E s \in saving, f \in Feeds, fate \in Fates : PostSource(s, f, fate)
  \/ \E f \in stray : StrayLands(f)
  \/ \E u \in Feeds, v \in Votes : Press(u, v)
  \/ \E p \in posts : PostWrites(p) \/ PostAnswered(p)

Spec == Init /\ [][Next]_vars

-----------------------------------------------------------------------------
TypeOK ==
  /\ table \subseteq Feeds /\ added \subseteq Feeds
  /\ row \in [Feeds -> {"absent", "pending"} \cup Votes]
  /\ step \in Steps /\ ready \in BOOLEAN
  /\ \A s \in saving : s.id \in -1..sent /\ s.left \cup s.added \subseteq Feeds
  /\ deal.pc \in {"none", "sent", "read"} /\ dealt \in BOOLEAN
  /\ DOMAIN cards \subseteq Feeds
  /\ \A u \in DOMAIN cards :
       cards[u].vote \in Votes \cup {Untouched} /\ cards[u].state \in {"open", "recorded", "gone"}
  /\ \A p \in posts : p.id \in 1..sent /\ IsInjective([q \in posts |-> q.id])

(* A card that says "Recorded" says what its article carries in D1,        *)
(* whatever failed and was sent again before (`setRecorded`, "a recorded   *)
(* card shows what was written").  Excepted are a card pressed while its   *)
(* vote was out, and an article that the post of an earlier page or of a   *)
(* lost answer wrote after a newer one.                                    *)
RecordedIsWritten ==
  \A u \in DOMAIN cards :
    cards[u].state = "recorded" /\ u \notin flipped \cup overtaken => row[u] = cards[u].vote

(* Cards that count as dealt are dealt from every feed of the table        *)
(* (`cardsDealt`), but for feeds that were stored by a save that then      *)
(* failed in part, or while the deal was out.                              *)
CardsAreOfTheFeeds ==
  dealt => table \ from \subseteq unseen \cup AddedBySaves

CardsTellTrue == RecordedIsWritten /\ CardsAreOfTheFeeds
=============================================================================
