-------------------------------- MODULE DigestRun --------------------------------
(***************************************************************************)
(* The life of an article from the RSS Worker's buffer to a published      *)
(* issue: the scheduled run of service_layer/run_digest.py, the D1 tables  *)
(* it writes (`stored_articles`, `digests`, `digest_runs`), the site it    *)
(* publishes to, the Cron Trigger of workers/app/src/schedule.js that      *)
(* starts runs and retries them, and the reader who decides articles while *)
(* a run is under way.                                                     *)
(*                                                                         *)
(* Articles are numbers: a later one was published later, whenever it      *)
(* arrived.  An issue is keyed by its slot, the n-th digest hour; the code *)
(* keys it by (date, period).  What the models decide (which articles are  *)
(* held back, which go into the issue) is free.  One run is under way at a *)
(* time: RUN_INACTIVITY_TIMEOUT_MS stops a run long before the next tick.  *)
(***************************************************************************)
EXTENDS Integers, FiniteSets

CONSTANTS
  Articles,     \* a set of numbers
  Slots,        \* bound: the number of digest hours
  Cap,          \* max_articles_per_digest
  ChunkSize,    \* _URLS_PER_STATEMENT of adapters/store/d1_store.py
  Window,       \* digest_window_hours, in slots
  CatchUpHours, \* CATCH_UP_HOURS of workers/app/src/schedule.js
  Faults        \* what may go wrong

FaultKinds == {"kill", "fetch", "update", "store", "publish", "record"}

ASSUME ArticlesAssumption == Articles \subseteq Int
ASSUME BoundsAssumption ==
  Slots \in Nat /\ Cap \in Nat /\ ChunkSize \in Nat /\ Window \in Nat /\ CatchUpHours \in Nat
ASSUME FaultsAssumption == Faults \subseteq FaultKinds

VARIABLES
  state,      \* article -> where it is: not yet out, in the Worker's buffer, or its row's state
  seen,       \* article -> the slot the Worker, then the store, first saw it in
  human,      \* the articles whose row carries `triaged_at`
  issues,     \* the `digests` table: slot -> the articles the stored issue holds
  site,       \* the pages `pages_manifest` names: slot -> the articles on the page
  done,       \* the slots with an ok row in `digest_runs`
  slot,       \* the last digest hour begun
  hour,       \* hours since then
  pc,         \* where the run is, "idle" when none is under way
  chosen,     \* the run's articles that its issue holds
  todo,       \* the judged articles `update_states` has still to write
  status      \* what the run will report

store == <<state, seen, human>>
clock == <<slot, hour>>
run == <<pc, chosen, todo, status>>
vars == <<store, issues, site, done, clock, run>>

Decided == {"accepted", "rejected"}
Stored == {"pending"} \cup Decided
NoIssues == [i \in {} |-> {}]

(* What `digests` and the site may hold: articles per slot. *)
IssueTables == UNION {[D -> SUBSET Articles] : D \in SUBSET (1..Slots)}

-----------------------------------------------------------------------------
InWindow(a) == seen[a] + Window > slot

(* `_newest`: of a set of articles, the Cap most recently published. *)
Newest(S) == {a \in S : Cardinality({b \in S : b > a}) < Cap}

(* The rows a run loads: pending, first seen in its window, the newest Cap. *)
Loadable == Newest({a \in Articles : state[a] = "pending" /\ InWindow(a)})

(* f with its value at slot i replaced: INSERT OR REPLACE. *)
Replaced(f, i, v) == [j \in DOMAIN f \cup {i} |-> IF j = i THEN v ELSE f[j]]

Init ==
  /\ state = [a \in Articles |-> "unseen"]
  /\ seen = [a \in Articles |-> 0]
  /\ human = {}
  /\ issues = NoIssues
  /\ site = NoIssues
  /\ done = {}
  /\ slot = 0 /\ hour = 0
  /\ pc = "idle" /\ chosen = {} /\ todo = {} /\ status = "error"

-----------------------------------------------------------------------------
(* Around the run. *)

(* The RSS Worker polls a feed: an article enters its buffer. *)
Arrive(a) ==
  /\ state[a] = "unseen"
  /\ state' = [state EXCEPT ![a] = "buffered"]
  /\ seen' = [seen EXCEPT ![a] = slot]
  /\ UNCHANGED <<human, issues, site, done, clock, run>>

(* `record_verdicts`: a vote, a /labels answer, `cyris accept`: the state  *)
(* and the `triaged_at` stamp in one statement, over any earlier verdict.  *)
Decide(a, verdict) ==
  /\ state[a] \in Stored
  /\ state' = [state EXCEPT ![a] = verdict]
  /\ human' = human \cup {a}
  /\ UNCHANGED <<seen, issues, site, done, clock, run>>

StartRun ==
  /\ pc' = "republish"
  /\ chosen' = {} /\ todo' = {} /\ status' = "error"

(* A tick on a digest hour always starts a run. *)
DigestHour ==
  /\ pc = "idle"
  /\ slot < Slots
  /\ slot' = slot + 1 /\ hour' = 0
  /\ StartRun
  /\ UNCHANGED <<store, issues, site, done>>

(* Mutant: a catch-up without an age limit. *)
CatchUpForEver ==
  /\ pc = "idle"
  /\ slot > 0 /\ slot \notin done
  /\ hour' = hour + 1
  /\ StartRun
  /\ UNCHANGED <<store, issues, site, done, slot>>

(* Mutant: a catch-up that does not look into `digest_runs`. *)
CatchUpRegardless ==
  /\ pc = "idle"
  /\ slot > 0
  /\ hour + 1 < CatchUpHours
  /\ hour' = hour + 1
  /\ StartRun
  /\ UNCHANGED <<store, issues, site, done, slot>>

(* A tick off the hour reruns the last digest hour's issue while that hour *)
(* is young and `digest_runs` holds no ok run of it.                       *)
CatchUp ==
  /\ pc = "idle"
  /\ slot > 0 /\ slot \notin done
  /\ hour + 1 < CatchUpHours
  /\ hour' = hour + 1
  /\ StartRun
  /\ UNCHANGED <<store, issues, site, done, slot>>

(* A tick that starts nothing: the issue is done, or D1 could not be read. *)
QuietTick ==
  /\ pc = "idle"
  /\ slot > 0
  /\ hour + 1 < CatchUpHours
  /\ hour' = hour + 1
  /\ UNCHANGED <<store, issues, site, done, slot, run>>

-----------------------------------------------------------------------------
(* The run. *)

Goto(from, to) == pc = from /\ pc' = to

(* `_republish_missing`: every stored issue whose page the site lacks goes *)
(* out in one publish; a failure is swallowed.                             *)
Republish ==
  LET missing == DOMAIN issues \ DOMAIN site IN
  /\ Goto("republish", "fetch")
  /\ \/ site' = [i \in DOMAIN site \cup missing |->
                   IF i \in missing THEN issues[i] ELSE site[i]]
     \/ missing # {} /\ "publish" \in Faults /\ UNCHANGED site
  /\ UNCHANGED <<store, issues, done, clock, chosen, todo, status>>

(* `fetch_all_articles`, then `store.save`: INSERT OR IGNORE of what the   *)
(* Worker holds of the window; a source that fails yields nothing.         *)
Fetch ==
  \E fetched \in {{a \in Articles : state[a] = "buffered" /\ InWindow(a)}}
                 \cup (IF "fetch" \in Faults THEN {{}} ELSE {}) :
    /\ Goto("fetch", "load")
    /\ state' = [a \in Articles |-> IF a \in fetched THEN "pending" ELSE state[a]]
    /\ seen' = [a \in Articles |-> IF a \in fetched THEN slot ELSE seen[a]]
    /\ UNCHANGED <<human, issues, site, done, clock, chosen, todo, status>>

(* Mutant: the issue is stored without its articles being decided. *)
JudgeWithoutDeciding ==
  \E judged \in SUBSET Loadable :
    /\ Loadable # {}
    /\ Goto("load", "store")
    /\ todo' = judged
    /\ chosen' \in SUBSET judged
    /\ UNCHANGED <<store, issues, site, done, clock, status>>

(* The reload after scoring, then the pipeline: the issue's articles, the  *)
(* rejected ones, and those that stay pending, because vote similarity or  *)
(* a hold keeps them out or the summarizer leaves them out of every        *)
(* section.  An issue may come out empty.                                  *)
Judge ==
  \E judged \in SUBSET Loadable :
    /\ Loadable # {}
    /\ Goto("load", IF judged = {} THEN "store" ELSE "update")
    /\ todo' = judged
    /\ chosen' \in SUBSET judged
    /\ UNCHANGED <<store, issues, site, done, clock, status>>

(* `no_articles` and `no_pending`: nothing is left to process, or every    *)
(* pending article is held back.                                           *)
NothingPending ==
  /\ Goto("load", "record")
  /\ status' = "no_pending"
  /\ UNCHANGED <<store, issues, site, done, clock, chosen, todo>>

(* Mutant: `update_states` without `triaged_at IS NULL`. *)
UpdateChunkOfAll ==
  LET group == IF todo \cap chosen # {} THEN todo \cap chosen ELSE todo
      verdict == IF todo \cap chosen # {} THEN "accepted" ELSE "rejected"
  IN \E chunk \in SUBSET group :
       /\ pc = "update"
       /\ chunk # {}
       /\ Cardinality(chunk) = ChunkSize \/ (chunk = group /\ Cardinality(chunk) < ChunkSize)
       /\ state' = [a \in Articles |-> IF a \in chunk THEN verdict ELSE state[a]]
       /\ todo' = todo \ chunk
       /\ pc' = IF todo = chunk THEN "store" ELSE "update"
       /\ UNCHANGED <<seen, human, issues, site, done, clock, chosen, status>>

(* One statement of `update_states`: up to ChunkSize URLs of one verdict,  *)
(* the accepted ones first; rows a human stamped are left alone.           *)
UpdateChunk ==
  LET group == IF todo \cap chosen # {} THEN todo \cap chosen ELSE todo
      verdict == IF todo \cap chosen # {} THEN "accepted" ELSE "rejected"
  IN \E chunk \in SUBSET group :
       /\ pc = "update"
       /\ chunk # {}
       /\ Cardinality(chunk) = ChunkSize \/ (chunk = group /\ Cardinality(chunk) < ChunkSize)
       /\ state' = [a \in Articles |->
                      IF a \in chunk /\ a \notin human THEN verdict ELSE state[a]]
       /\ todo' = todo \ chunk
       /\ pc' = IF todo = chunk THEN "store" ELSE "update"
       /\ UNCHANGED <<seen, human, issues, site, done, clock, chosen, status>>

(* A statement of `update_states` fails: it is the one unguarded write of  *)
(* a run, and ends it with what the earlier statements wrote in place.     *)
UpdateFails ==
  /\ "update" \in Faults
  /\ Goto("update", "record")
  /\ UNCHANGED <<store, issues, site, done, clock, chosen, todo, status>>

(* Mutant: the issue is not stored. *)
StoreNothing ==
  /\ Goto("store", "publish")
  /\ UNCHANGED <<store, issues, site, done, clock, chosen, todo, status>>

(* `digest_store.save`: the issue replaces any stored under its key. *)
StoreIssue ==
  /\ Goto("store", "publish")
  /\ issues' = Replaced(issues, slot, chosen)
  /\ UNCHANGED <<store, site, done, clock, chosen, todo, status>>

(* The save failed; the run logs it and publishes all the same. *)
StoreFails ==
  /\ "store" \in Faults
  /\ Goto("store", "publish")
  /\ UNCHANGED <<store, issues, site, done, clock, chosen, todo, status>>

Publish ==
  /\ Goto("publish", "record")
  /\ site' = Replaced(site, slot, chosen)
  /\ status' = "ok"
  /\ UNCHANGED <<store, issues, done, clock, chosen, todo>>

(* Mutant: a failed publish is reported as ok. *)
PublishFailsSilently ==
  /\ "publish" \in Faults
  /\ Goto("publish", "record")
  /\ status' = "ok"
  /\ UNCHANGED <<store, issues, site, done, clock, chosen, todo>>

(* Nothing was published, or the page came too late for the alias check. *)
PublishFails ==
  /\ "publish" \in Faults
  /\ Goto("publish", "record")
  /\ site' \in {site, Replaced(site, slot, chosen)}
  /\ status' = "publish_failed"
  /\ UNCHANGED <<store, issues, done, clock, chosen, todo>>

(* A run that is over leaves nothing behind but what it wrote. *)
End ==
  /\ pc' = "idle"
  /\ chosen' = {} /\ todo' = {} /\ status' = "error"

(* `record_run` in the finally of `run_digest`; a row that cannot be       *)
(* written is logged and lost.                                             *)
Record ==
  /\ pc = "record"
  /\ End
  /\ \/ done' = IF status = "ok" THEN done \cup {slot} ELSE done
     \/ "record" \in Faults /\ UNCHANGED done
  /\ UNCHANGED <<store, issues, site, clock>>

(* The container is killed or its Durable Object replaced, and no row is   *)
(* written; or a read or a model call outside every guard raises, and the  *)
(* run writes an `error` row, which counts as none.                        *)
Kill ==
  /\ "kill" \in Faults
  /\ pc # "idle"
  /\ End
  /\ UNCHANGED <<store, issues, site, done, clock>>

Reader == \E a \in Articles, v \in Decided : Decide(a, v)

Next ==
  \/ \E a \in Articles : Arrive(a)
  \/ Reader
  \/ DigestHour \/ CatchUp \/ QuietTick
  \/ Republish \/ Fetch \/ Judge \/ NothingPending
  \/ UpdateChunk \/ UpdateFails
  \/ StoreIssue \/ StoreFails \/ Publish \/ PublishFails
  \/ Record \/ Kill

Spec == Init /\ [][Next]_vars

-----------------------------------------------------------------------------
TypeOK ==
  /\ state \in [Articles -> {"unseen", "buffered"} \cup Stored]
  /\ seen \in [Articles -> 0..Slots]
  /\ human \subseteq Articles
  /\ issues \in IssueTables /\ site \in IssueTables
  /\ done \subseteq 1..Slots
  /\ slot \in 0..Slots /\ hour \in 0..CatchUpHours
  /\ pc \in {"idle", "republish", "fetch", "load", "update", "store", "publish", "record"}
  /\ chosen \subseteq Articles /\ todo \subseteq Articles
  /\ status \in {"error", "no_pending", "publish_failed", "ok"}

(* No article is in two issues, whatever is killed, fails or is retried:   *)
(* a run judges only pending rows, and decides them before it stores the   *)
(* issue (run_digest.py, update_states before digest_store.save).          *)
OneIssuePerArticle ==
  \A i, j \in DOMAIN issues : i # j => issues[i] \cap issues[j] = {}

(* A decision, the reader's or a run's, is changed by the reader alone:    *)
(* not by a run that loaded the article while it was pending and writes    *)
(* its verdict minutes later, nor by a retry (d1_store.py, update_states). *)
DecisionStands ==
  [][\A a \in Articles :
       state[a] \in Decided /\ state'[a] # state[a] => Reader]_vars

(* An ok row in `digest_runs` means a published page; when storing issues  *)
(* does not fail, one that shows what the stored issue holds, so that a    *)
(* later render of the row gives the page the reader got.                  *)
DoneIsPublished ==
  \A i \in done :
    /\ i \in DOMAIN site
    /\ "store" \notin Faults => i \in DOMAIN issues /\ site[i] = issues[i]

(* What is done stays as it is: no tick, retry or republish rewrites the   *)
(* page or the stored issue of a slot the ledger calls ok.                 *)
DoneIsFinal ==
  [][\A i \in done :
       /\ i \in DOMAIN site /\ i \in DOMAIN site' /\ site'[i] = site[i]
       /\ i \in DOMAIN issues => i \in DOMAIN issues' /\ issues'[i] = issues[i]]_vars

(* An article a run accepted is in a stored issue once no run is under     *)
(* way: nothing is marked as read out and then left out.                   *)
AcceptedIsInAnIssue ==
  pc = "idle" =>
    \A a \in Articles : state[a] = "accepted" /\ a \notin human =>
      \E i \in DOMAIN issues : a \in issues[i]

(* An article a run accepted is on the site, or in a stored issue the site *)
(* lacks, which the next run publishes.                                    *)
AcceptedReachesReader ==
  pc = "idle" =>
    \A a \in Articles : state[a] = "accepted" /\ a \notin human =>
      \/ \E i \in DOMAIN site : a \in site[i]
      \/ \E i \in DOMAIN issues \ DOMAIN site : a \in issues[i]

(* A retry costs a run, not an issue: no later run takes an article out of *)
(* a stored issue.                                                         *)
IssueIsNeverThinned ==
  [][\A i \in DOMAIN issues :
       i \in DOMAIN issues' /\ issues[i] \subseteq issues'[i]]_vars
=============================================================================
