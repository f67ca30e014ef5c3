-------------------------------- MODULE VoteHolds --------------------------------
(***************************************************************************)
(* How a run keeps articles close to a downvote out of its issue: the      *)
(* judgement by the votes (service_layer/vote_similarity.py), the holds    *)
(* earlier runs recorded (adapters/store/suppressions.py), what the run    *)
(* drops and what it holds anew (run_digest.py), and the reader who votes  *)
(* meanwhile.  A rerun judges the articles of the stored issue again,      *)
(* decided or not; a scheduled run the pending ones of its window.         *)
(*                                                                         *)
(* Which articles are outliers among the candidates is free: the cosines   *)
(* and the robust z-score of domain/similarity.py decide it.               *)
(***************************************************************************)
EXTENDS Integers, FiniteSets

CONSTANTS
  Articles,
  Horizon,  \* bound: the last hour, counted in digest hours
  Window,   \* digest_window_hours
  Clock,    \* SUPPRESSION_CLOCK_DAYS
  Misreads  \* bound: reads of the holds that fail

VARIABLES
  now,
  fresh,     \* article -> when it was first seen
  state,     \* article -> the state of its row
  voted,     \* articles with `triaged_at`
  holds,     \* `suppressions`: article, the run that held it, and until when
  inputs,    \* `digest_inputs` of the newest issue
  pc,
  rerun,     \* the run regenerates the newest issue
  began,     \* `started_at`
  pending,   \* the run's articles
  flagged,   \* those of them that judging suppressed
  dropped,   \* those that are left out
  misread,   \* this run could not read the holds
  misreads,  \* so far
  decided,   \* history: `voted` when the run judged
  live,      \* history: the holds when the run read them
  doubled    \* history: articles held anew by a run that could not read

data == <<fresh, state, voted>>
run == <<pc, rerun, began, pending, flagged, dropped, misread, decided, live>>
vars == <<now, data, holds, inputs, run, misreads, doubled>>

Hour == 0..Horizon

Init ==
  /\ now = 0
  /\ fresh = [a \in Articles |-> 0]
  /\ state = [a \in Articles |-> "pending"]
  /\ voted = {} /\ holds = {} /\ inputs = {}
  /\ pc = "idle" /\ rerun = FALSE /\ began = 0
  /\ pending = {} /\ flagged = {} /\ dropped = {} /\ misread = FALSE
  /\ misreads = 0 /\ decided = {} /\ live = {} /\ doubled = {}

(* Holds that neither their clock nor a human has ended: LIVE_HOLD_WHERE.  *)
Live(t) == {h \in holds : h.until > t /\ h.url \notin voted}

(* `active`. *)
Active(t) == {h.url : h \in Live(t)}

-----------------------------------------------------------------------------
Tick ==
  /\ pc = "idle" /\ now < Horizon
  /\ now' = now + 1
  /\ UNCHANGED <<data, holds, inputs, run, misreads, doubled>>

(* `record_verdicts`, at any time. *)
Vote(a) ==
  \E s \in {"accepted", "rejected"} :
    /\ state' = [state EXCEPT ![a] = s]
    /\ voted' = voted \cup {a}
    /\ UNCHANGED <<now, fresh, holds, inputs, run, misreads, doubled>>

(* A feed brings an article after the others. *)
Arrive(a) ==
  /\ fresh[a] = 0 /\ now > 0 /\ pc = "idle"
  /\ state[a] = "pending" /\ a \notin inputs /\ \A h \in holds : h.url # a
  /\ fresh' = [fresh EXCEPT ![a] = now]
  /\ UNCHANGED <<now, state, voted, holds, inputs, run, misreads, doubled>>

-----------------------------------------------------------------------------
Start(again, rows) ==
  /\ pc = "idle" /\ rows # {}
  /\ pc' = "judge"
  /\ rerun' = again /\ began' = now /\ pending' = rows
  /\ flagged' = {} /\ dropped' = {} /\ misread' = FALSE /\ decided' = {} /\ live' = {}
  /\ UNCHANGED <<now, data, holds, inputs, misreads, doubled>>

Run == Start(FALSE, {a \in Articles : state[a] = "pending" /\ fresh[a] > now - Window})
Rerun == Start(TRUE, inputs)

(* Mutant: what the reader has voted on is judged like the rest. *)
CandidatesVotedToo == pending

(* What the reader has voted on is no candidate. *)
Candidates == pending \ voted

(* `judge_by_votes`: nothing without votes, or when the embedding fails.   *)
Judge ==
  \E out \in SUBSET Candidates :
    /\ pc = "judge"
    /\ voted = {} => out = {}
    /\ pc' = "hold"
    /\ flagged' = out
    /\ decided' = voted
    /\ UNCHANGED <<now, data, holds, inputs, rerun, began, pending, dropped, misread, live,
                   misreads, doubled>>

(* Mutant: what this run flags, and nothing that was held before. *)
DroppedAsFlagged(held) == flagged

(* Mutant: every held article is taken for dropped, the run's or not. *)
DroppedOfAll(held) == flagged \cup held

Dropped(held) == flagged \cup (pending \cap held)

ReadHolds ==
  /\ pc = "hold"
  /\ pc' = "record"
  /\ live' = Active(began)
  /\ dropped' = Dropped(Active(began))
  /\ UNCHANGED <<now, data, holds, inputs, rerun, began, pending, flagged, misread, decided,
                 misreads, doubled>>

(* "This run judges alone." *)
ReadFails ==
  /\ pc = "hold" /\ misreads < Misreads
  /\ pc' = "record"
  /\ misreads' = misreads + 1
  /\ misread' = TRUE
  /\ dropped' = Dropped({})
  /\ UNCHANGED <<now, data, holds, inputs, rerun, began, pending, flagged, decided, live, doubled>>

(* `flagged - held.keys()`. *)
NewHolds == flagged \ live

(* INSERT OR REPLACE by URL and run, in chunks, or a failure part-way. *)
Record ==
  \E kept \in SUBSET NewHolds :
    /\ pc = "record"
    /\ pc' = "issue"
    /\ holds' = holds \cup {[url |-> a, run_at |-> began, until |-> began + Clock] : a \in kept}
    /\ doubled' = IF misread THEN doubled \cup kept ELSE doubled
    /\ UNCHANGED <<now, data, inputs, rerun, began, pending, flagged, dropped, misread, decided,
                   live, misreads>>

(* The rest of the run: some of what is left goes out.  An article the     *)
(* reader decided meanwhile keeps that.                                    *)
Issue ==
  /\ pc = "issue"
  /\ pc' = "idle"
  /\ \E out \in SUBSET (pending \ dropped) :
       state' = [a \in Articles |-> IF a \in out \ voted THEN "accepted" ELSE state[a]]
  /\ inputs' = IF rerun \/ pending = dropped THEN inputs ELSE pending \ dropped
  /\ UNCHANGED <<now, fresh, voted, holds, rerun, began, pending, flagged, dropped, misread,
                 decided, live, misreads, doubled>>

Kill ==
  /\ pc # "idle"
  /\ pc' = "idle"
  /\ UNCHANGED <<now, data, holds, inputs, rerun, began, pending, flagged, dropped, misread,
                 decided, live, misreads, doubled>>

Next ==
  \/ Tick \/ \E a \in Articles : Vote(a) \/ Arrive(a)
  \/ Run \/ Rerun \/ Judge \/ ReadHolds \/ ReadFails \/ Record \/ Issue \/ Kill

Spec == Init /\ [][Next]_vars

-----------------------------------------------------------------------------
TypeOK ==
  /\ now \in Hour /\ began \in Hour
  /\ fresh \in [Articles -> Hour]
  /\ state \in [Articles -> {"pending", "accepted", "rejected"}]
  /\ voted \subseteq Articles /\ inputs \subseteq Articles
  /\ holds \subseteq [url : Articles, run_at : Hour, until : Clock..(Horizon + Clock)]
  /\ pc \in {"idle", "judge", "hold", "record", "issue"}
  /\ rerun \in BOOLEAN /\ misread \in BOOLEAN /\ misreads \in 0..Misreads
  /\ dropped \subseteq pending /\ flagged \subseteq pending /\ pending \subseteq Articles
  /\ decided \subseteq voted /\ live \subseteq Articles /\ doubled \subseteq Articles

(* An article under a live hold goes into no issue, whether this run's     *)
(* judging flags it or not, ran or not: a hold stands on its own clock     *)
(* (run_digest.py, "Read after judging").                                  *)
HeldStaysOut ==
  [][\A a \in Articles : state[a] = "pending" /\ state'[a] = "accepted" /\ a \notin voted' =>
       \/ misread
       \/ \A h \in holds : h.url = a => h.until <= began]_vars

(* A hold is not renewed by the runs that meet the article while it lasts: *)
(* two overlapping holds of one article come from a run that could not     *)
(* read the first, unless a vote has ended both (suppressions.py, active;  *)
(* run_digest.py, flagged - held).                                         *)
OneClock ==
  \A h, k \in holds :
    h # k /\ h.url = k.url /\ h.url \notin voted /\ h.run_at <= k.run_at =>
    h.until <= k.run_at \/ h.url \in doubled

(* What the reader decided before a run judged is not dropped from its     *)
(* issue, however close to a downvote, however long it was held before     *)
(* (suppressions.py, LIVE_HOLD_WHERE; docs/architecture.md section 3).     *)
DecidedIsNotDropped == pc \in {"record", "issue"} => dropped \cap decided = {}
=============================================================================
