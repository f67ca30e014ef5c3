----------------------------- MODULE BlindLabels -----------------------------
(***************************************************************************)
(* The blind-label sample in D1 (adapters/store/blind_labels.py): drawn    *)
(* and replaced by `cyris labels draw`, answered item by item through      *)
(* POST /api/labels (triage_server.py, `_handle_post_label`), each answer  *)
(* followed by a vote on the article, beside the votes of the published    *)
(* pages and `articles clean`.  The server's handlers run one at a time,   *)
(* statement by statement; its container may be killed between two.        *)
(***************************************************************************)
EXTENDS Integers, FiniteSets, D1Calls

CONSTANTS
  Articles,
  Drawers,     \* the draws of the operator, one at a time
  MaxClock,    \* bound: draws, answers and votes
  Mishaps      \* bound: statements that are not simply done, and kills

Labels == {"up", "down", "skip"}
None == "none"

VARIABLES
  clock,
  sample,   \* `blind_labels`: the rows [draw, url, label, at]
  row,      \* `stored_articles`: URL -> [held, vote, at], `at` the time of `triaged_at`
  drawer,   \* where each `labels draw` is: [pc, at, urls]
  press,    \* the request the server answers: [pc, url, label, at]
  late,     \* statements whose first copy is still to run
  mishaps,
  landed,   \* history: draw -> the URLs it stored
  crossed,  \* history: a draw landed before the DELETE of an earlier one was through
  slipped   \* history: answers with no vote by an accident the server cannot see

draws == <<drawer, landed, crossed>>
vars == <<clock, sample, row, draws, press, late, mishaps, slipped>>

Idle == [pc |-> "idle", url |-> None, label |-> None, at |-> 0]

Init ==
  /\ clock = 0 /\ sample = {}
  /\ row = [u \in Articles |-> [held |-> TRUE, vote |-> None, at |-> 0]]
  /\ drawer = [d \in Drawers |-> [pc |-> "idle", at |-> 0, urls |-> {}]]
  /\ press = Idle /\ late = {} /\ mishaps = 0
  /\ landed = <<>> /\ crossed = FALSE /\ slipped = {}

Suffer(fate) ==
  /\ fate # "done" => mishaps < Mishaps
  /\ mishaps' = IF fate = "done" THEN mishaps ELSE mishaps + 1

(* `_CURRENT`: the rows of the latest draw. *)
CurrentOf(rows) == {s \in rows : \A t \in rows : t.draw <= s.draw}
Current == CurrentOf(sample)

-----------------------------------------------------------------------------
(* `cyris labels draw`. *)

Pool == {u \in Articles : row[u].held /\ row[u].vote = None}

(* `pool` and `draw_sample`; nothing is drawn from an empty pool. *)
ReadPool(d) ==
  /\ drawer[d].pc = "idle" /\ \A e \in Drawers : drawer[e].pc \in {"idle", "over"}
  /\ \E urls \in (SUBSET Pool) \ {{}} :
       drawer' = [drawer EXCEPT ![d] = [pc |-> "check", at |-> 0, urls |-> urls]]
  /\ UNCHANGED <<clock, sample, row, press, late, mishaps, landed, crossed, slipped>>

(* `replace_sample` is called with the time, and refuses one that is not   *)
(* later than the kept draw's.                                             *)
CheckKept(d) ==
  /\ drawer[d].pc = "check" /\ clock < MaxClock
  /\ clock' = clock + 1
  /\ drawer' = [drawer EXCEPT ![d].at = clock',
                  ![d].pc = IF \E s \in sample : clock' <= s.draw THEN "over" ELSE "insert"]
  /\ UNCHANGED <<sample, row, press, late, mishaps, landed, crossed, slipped>>

(* One INSERT; a second copy of it hits the rows of the first and is       *)
(* rejected.                                                               *)
InsertDraw(d, fate) ==
  /\ drawer[d].pc = "insert" /\ fate # "late" /\ Suffer(fate)
  /\ LET at == drawer[d].at
         rows == {[draw |-> at, url |-> u, label |-> None, at |-> 0] : u \in drawer[d].urls}
     IN  IF Ran(fate)
           THEN /\ sample' = sample \cup rows
                /\ landed' = [x \in DOMAIN landed \cup {at} |->
                                IF x = at THEN drawer[d].urls ELSE landed[x]]
                /\ crossed' = (crossed \/ \E c \in late : c.stmt = "delete")
           ELSE UNCHANGED <<sample, landed, crossed>>
  /\ drawer' = [drawer EXCEPT ![d].pc = IF fate = "done" THEN "delete" ELSE "over"]
  /\ UNCHANGED <<clock, row, press, late, slipped>>

(* The rows of every other draw go. *)
DeleteOthers(d, fate) ==
  /\ drawer[d].pc = "delete" /\ Suffer(fate)
  /\ sample' = IF Ran(fate) THEN {s \in sample : s.draw = drawer[d].at} ELSE sample
  /\ late' = IF fate = "late"
               THEN late \cup {[stmt |-> "delete", url |-> None, label |-> None, at |-> drawer[d].at]}
               ELSE late
  /\ drawer' = [drawer EXCEPT ![d].pc = "over"]
  /\ UNCHANGED <<clock, row, press, landed, crossed, slipped>>

-----------------------------------------------------------------------------
(* `_handle_post_label`. *)

(* A page may be old: any item may be answered. *)
Press(u, label) ==
  /\ press.pc = "idle" /\ clock < MaxClock
  /\ clock' = clock + 1
  /\ press' = [pc |-> "record", url |-> u, label |-> label, at |-> clock']
  /\ UNCHANGED <<sample, row, draws, late, mishaps, slipped>>

Open(p) == {s \in Current : s.url = p.url /\ s.label = None}
Answered(p) == (sample \ Open(p))
               \cup {[s EXCEPT !.label = p.label, !.at = p.at] : s \in Open(p)}

(* `record`: only the answer to an open item goes on to its vote.  Of a    *)
(* resent UPDATE the second copy is answered, and finds the item answered. *)
Record(fate) ==
  /\ press.pc = "record" /\ Suffer(fate)
  /\ sample' = IF Ran(fate) THEN Answered(press) ELSE sample
  /\ late' = IF fate = "late" THEN late \cup {[stmt |-> "record", url |-> press.url,
                                               label |-> press.label, at |-> press.at]}
                              ELSE late
  /\ slipped' = IF fate = "done" THEN slipped ELSE slipped \cup {press.at}
  /\ press' = IF fate \in {"done", "late"} /\ Open(press) # {} /\ press.label # "skip"
                THEN [press EXCEPT !.pc = "vote"] ELSE Idle
  /\ UNCHANGED <<clock, row, draws>>

(* `record_verdicts` writes the rows there are. *)
Voted(r, v, at) == IF r.held THEN [held |-> TRUE, vote |-> v, at |-> at] ELSE r

(* Mutant: a vote that fails is reported, and no more. *)
NeverReleased(fate) == FALSE

(* A vote that raises is followed by the release. *)
Released(fate) == Raises(fate)

(* `record_votes`. *)
Vote(fate) ==
  /\ press.pc = "vote" /\ Suffer(fate)
  /\ row' = IF Ran(fate) THEN [row EXCEPT ![press.url] = Voted(@, press.label, press.at)] ELSE row
  /\ late' = IF fate = "late" THEN late \cup {[stmt |-> "vote", url |-> press.url,
                                               label |-> press.label, at |-> press.at]}
                              ELSE late
  /\ slipped' = IF row[press.url].held THEN slipped ELSE slipped \cup {press.at}
  /\ press' = IF Released(fate) THEN [press EXCEPT !.pc = "release"] ELSE Idle
  /\ UNCHANGED <<clock, sample, draws>>

(* `release`: this answer's own row, in the current draw. *)
Own(p) == {s \in Current : s.url = p.url /\ s.label = p.label /\ s.at = p.at}

Release(fate) ==
  /\ press.pc = "release" /\ fate # "late" /\ Suffer(fate)
  /\ sample' = IF Ran(fate)
                 THEN (sample \ Own(press))
                      \cup {[s EXCEPT !.label = None, !.at = 0] : s \in Own(press)}
                 ELSE sample
  /\ slipped' = IF Ran(fate) THEN slipped ELSE slipped \cup {press.at}
  /\ press' = Idle
  /\ UNCHANGED <<clock, row, draws, late>>

Kill ==
  /\ press.pc # "idle" /\ mishaps < Mishaps
  /\ mishaps' = mishaps + 1
  /\ slipped' = slipped \cup {press.at}
  /\ press' = Idle
  /\ UNCHANGED <<clock, sample, row, draws, late>>

-----------------------------------------------------------------------------
(* The rest of D1's callers, and the copies that run late. *)

(* A vote of a published page, written by a run's sync. *)
PageVote(u, v) ==
  /\ clock < MaxClock
  /\ clock' = clock + 1
  /\ row' = [row EXCEPT ![u] = Voted(@, v, clock')]
  /\ UNCHANGED <<sample, draws, press, late, mishaps, slipped>>

(* `delete_articles` leaves what a human decided; a run stores an article  *)
(* again while its feed has it.                                            *)
Clean(u) ==
  /\ row[u].held /\ row[u].vote = None /\ clock < MaxClock
  /\ clock' = clock + 1
  /\ row' = [row EXCEPT ![u].held = FALSE]
  /\ UNCHANGED <<sample, draws, press, late, mishaps, slipped>>

Restore(u) ==
  /\ ~row[u].held
  /\ row' = [row EXCEPT ![u].held = TRUE]
  /\ UNCHANGED <<clock, sample, draws, press, late, mishaps, slipped>>

(* The answers whose vote a slow copy of an earlier one takes back.        *)
Overtaken(c) ==
  {s.at : s \in {x \in sample : x.url = c.url /\ c.at < x.at /\ x.at <= row[c.url].at}}

LateRuns(c) ==
  /\ c \in late /\ late' = late \ {c}
  /\ sample' = CASE c.stmt = "record" -> Answered(c)
                 [] c.stmt = "delete" -> {s \in sample : s.draw = c.at}
                 [] c.stmt = "vote" -> sample
  /\ row' = IF c.stmt = "vote" THEN [row EXCEPT ![c.url] = Voted(@, c.label, c.at)] ELSE row
  /\ slipped' = IF c.stmt = "vote" THEN slipped \cup Overtaken(c) ELSE slipped
  /\ UNCHANGED <<clock, draws, press, mishaps>>

Next ==
  \/ \E d \in Drawers : ReadPool(d) \/ CheckKept(d)
  \/ \E d \in Drawers, fate \in Fates : InsertDraw(d, fate) \/ DeleteOthers(d, fate)
  \/ \E u \in Articles, label \in Labels : Press(u, label)
  \/ \E fate \in Fates : Record(fate) \/ Vote(fate) \/ Release(fate)
  \/ Kill
  \/ \E u \in Articles, v \in {"up", "down"} : PageVote(u, v)
  \/ \E u \in Articles : Clean(u) \/ Restore(u)
  \/ \E c \in late : LateRuns(c)

Spec == Init /\ [][Next]_vars

-----------------------------------------------------------------------------
TypeOK ==
  /\ clock \in 0..MaxClock /\ mishaps \in 0..Mishaps /\ crossed \in BOOLEAN
  /\ sample \subseteq [draw : 1..MaxClock, url : Articles, label : Labels \cup {None},
                       at : 0..MaxClock]
  /\ row \in [Articles -> [held : BOOLEAN, vote : {"up", "down", None}, at : 0..MaxClock]]
  /\ \A d \in Drawers : drawer[d].pc \in {"idle", "check", "insert", "delete", "over"}
  /\ press.pc \in {"idle", "record", "vote", "release"}
  /\ slipped \subseteq 1..MaxClock /\ DOMAIN landed \subseteq 1..clock

(* The draw that counts is on the page whole, from its INSERT on, whatever *)
(* fails after it, unless a slow DELETE of an earlier draw takes it away   *)
(* (`replace_sample`, "all or nothing without a transaction").             *)
SampleIsWhole ==
  ~crossed /\ DOMAIN landed # {} =>
    \E at \in DOMAIN landed :
      /\ \A x \in DOMAIN landed : x <= at
      /\ {s.url : s \in Current} = landed[at]
      /\ \A s \in Current : s.draw = at

(* An answer up or down that the sample keeps has its vote, or a later     *)
(* one, on the article: a vote that fails gives the item back              *)
(* (`_handle_post_label`).  Excepted are the answers with an accident the  *)
(* server cannot see or cannot undo: a kill, a release that fails, a       *)
(* `record` D1 answered falsely or not at all, an article that is gone, a  *)
(* slow copy of an earlier vote, a sample that was taken away.             *)
LabelHasItsVote ==
  ~crossed => \A s \in Current :
    s.label \in {"up", "down"} /\ s.at \notin slipped /\ press.at # s.at =>
      row[s.url].at > s.at \/ row[s.url].vote = s.label
=============================================================================
