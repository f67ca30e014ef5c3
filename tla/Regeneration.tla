---------------------------- MODULE Regeneration ----------------------------
(***************************************************************************)
(* A regeneration that publishes (`cyris regenerate --mode rerun           *)
(* --publish`, an operator's process) beside the scheduled runs of the     *)
(* container.  Both store an issue and both publish a full snapshot of the *)
(* site from the manifest they loaded, and neither knows of the other.     *)
(*                                                                         *)
(* What Pages and D1 may do to one publish alone is in PublishSite and     *)
(* PagesManifest; here a deployment lands at once or is refused, and the   *)
(* manifest is one register.  The site is past its first publish.  Issues  *)
(* are numbered by (date, period); a page is the number of the write of    *)
(* `digests` it was rendered from, 0 when there is none, and its raw page  *)
(* goes with it.                                                           *)
(***************************************************************************)
EXTENDS Naturals, FiniteSets

CONSTANTS MaxIssues,  \* bound: digest hours
          Writes,     \* bound: writes of `digests`
          Reruns,     \* bound: regenerations
          Mishaps,    \* bound: refused publishes and kills
          Tolerance   \* ARCHIVE_SHORTFALL_TOLERANCE

Issues == 1..MaxIssues
Pages == [Issues -> 0..Writes]
Runs == {"tick", "hand"}

VARIABLES digests,    \* D1: the stored issues
          lastSaved,  \* D1: the issue with the newest `saved_at`
          manifest,   \* D1: the pages of the manifest
          live,       \* the site: its pages, what its index lists, and the index's headline
          slot,       \* the last digest hour
          done,       \* whether the run of that hour ended ok
          run,        \* the scheduled run and the regeneration
          written, reruns, mishaps,
          overtaken   \* history: the newest issue was stored while an older one was regenerated

stores == <<digests, lastSaved, manifest>>
ticks == <<slot, done>>
bounds == <<written, reruns, mishaps>>
vars == <<stores, live, ticks, run, bounds, overtaken>>

Names(pages) == {i \in Issues : pages[i] > 0}
Only(i, write) == [j \in Issues |-> IF j = i THEN write ELSE 0]
Over(kept, new) == [i \in Issues |-> IF new[i] > 0 THEN new[i] ELSE kept[i]]
Idle == [pc |-> "idle", key |-> 0, own |-> FALSE, new |-> Only(0, 0), lead |-> 0,
         listed |-> {}, kept |-> Only(0, 0), raced |-> {}]

(* The first issue is published. *)
Init ==
  /\ digests = Only(1, 1) /\ manifest = Only(1, 1) /\ lastSaved = 1
  /\ live = [pages |-> Only(1, 1), index |-> {1}, head |-> 1]
  /\ slot = 1 /\ done = TRUE
  /\ run = [r \in Runs |-> Idle]
  /\ written = 1 /\ reruns = 0 /\ mishaps = 0
  /\ overtaken = FALSE

Goto(r, pc) == run' = [run EXCEPT ![r].pc = pc]

(* The pages a run is about to publish; `raced` (history) gathers the pages *)
(* the other run saves from here on.                                       *)
Bring(r, key, own, new, lead) ==
  run' = [run EXCEPT ![r] = [Idle EXCEPT !.pc = "render", !.key = key, !.own = own,
                                         !.new = new, !.lead = lead]]

(* `publish_site` is over: a scheduled run that republished goes on.       *)
Return(r) == run' = [run EXCEPT ![r] = IF r = "tick" /\ ~run[r].own
                                       THEN [Idle EXCEPT !.pc = "digest"] ELSE Idle]

-----------------------------------------------------------------------------
(* The scheduled run. *)

StartTick ==
  /\ run["tick"].pc = "idle"
  /\ Goto("tick", "missing")
  /\ UNCHANGED <<stores, live, ticks, bounds, overtaken>>

(* Mutant: only what is newer than everything the manifest names. *)
MissingAtTheEnd(stored, named) == {i \in stored : \A j \in named : i > j}

(* The stored issues the manifest does not name. *)
Missing(stored, named) == stored \ named

(* `_republish_missing`; the index will lead with the issue saved last.    *)
Republish ==
  LET missing == Missing(Names(digests), Names(manifest)) IN
  /\ run["tick"].pc = "missing"
  /\ IF missing = {}
     THEN Goto("tick", "digest")
     ELSE Bring("tick", 0, FALSE,
                [i \in Issues |-> IF i \in missing THEN digests[i] ELSE 0], lastSaved)
  /\ UNCHANGED <<stores, live, ticks, bounds, overtaken>>

(* The run digests the next hour's issue, or catches up the last hour's,   *)
(* and stores it.                                                          *)
Digest ==
  /\ run["tick"].pc = "digest"
  /\ written < Writes
  /\ \E key \in Issues \cap ({slot + 1} \cup (IF done THEN {} ELSE {slot})) :
       /\ digests' = [digests EXCEPT ![key] = written + 1]
       /\ lastSaved' = key /\ slot' = key
       /\ Bring("tick", key, TRUE, Only(key, written + 1), key)
       /\ overtaken' = (run["hand"].pc # "idle" /\ run["hand"].key < key)
  /\ done' = FALSE /\ written' = written + 1
  /\ UNCHANGED <<manifest, live, reruns, mishaps>>

NothingToDigest ==
  /\ run["tick"].pc = "digest"
  /\ Goto("tick", "idle")
  /\ UNCHANGED <<stores, live, ticks, bounds, overtaken>>

-----------------------------------------------------------------------------
(* The regeneration. *)

(* Mutant: any stored issue may be published again. *)
RegenerableAny(stored) == stored

(* `is_latest_issue`: the newest by date and period. *)
Regenerable(stored) == {i \in stored : \A j \in stored : j <= i}

(* The check, before the model calls; another issue ends as `not_latest`.  *)
Regenerate ==
  /\ run["hand"].pc = "idle"
  /\ reruns < Reruns
  /\ \E key \in Regenerable(Names(digests)) :
       run' = [run EXCEPT !["hand"].pc = "store", !["hand"].key = key]
  /\ reruns' = reruns + 1
  /\ UNCHANGED <<stores, live, ticks, written, mishaps, overtaken>>

(* Minutes later the issue is stored, whatever was stored meanwhile.       *)
StoreRerun ==
  LET key == run["hand"].key IN
  /\ run["hand"].pc = "store"
  /\ written < Writes
  /\ digests' = [digests EXCEPT ![key] = written + 1]
  /\ lastSaved' = key
  /\ Bring("hand", key, TRUE, Only(key, written + 1), key)
  /\ written' = written + 1
  /\ UNCHANGED <<manifest, live, ticks, reruns, mishaps, overtaken>>

-----------------------------------------------------------------------------
(* Publishing, the same for both. *)

(* `_with_archive`: the index lists what the manifest names by now and the *)
(* pages of this publish.                                                  *)
Render(r) ==
  /\ run[r].pc = "render"
  /\ run' = [run EXCEPT ![r].pc = "load",
                        ![r].listed = Names(manifest) \cup Names(run[r].new)]
  /\ UNCHANGED <<stores, live, ticks, bounds, overtaken>>

(* `publish_site` loads the manifest for itself. *)
Load(r) ==
  /\ run[r].pc = "load"
  /\ run' = [run EXCEPT ![r].pc = "guard", ![r].kept = manifest]
  /\ UNCHANGED <<stores, live, ticks, bounds, overtaken>>

(* No more of the issues the index lists may be missing than tolerated.    *)
Guard(r) ==
  /\ run[r].pc = "guard"
  /\ IF Cardinality(live.index \ Names(run[r].kept)) <= Tolerance
     THEN Goto(r, "deploy") ELSE Return(r)
  /\ UNCHANGED <<stores, live, ticks, bounds, overtaken>>

(* `render_index`: the issue at hand when it is listed, or the newest.     *)
Headline(lead, listed) ==
  IF lead \in listed THEN lead ELSE CHOOSE i \in listed : \A j \in listed : j <= i

(* The snapshot lands: what was loaded, and the pages of this publish.     *)
Deploy(r) ==
  /\ run[r].pc = "deploy"
  /\ live' = [pages |-> Over(run[r].kept, run[r].new), index |-> run[r].listed,
              head |-> Headline(run[r].lead, run[r].listed)]
  /\ Goto(r, "save")
  /\ UNCHANGED <<stores, ticks, bounds, overtaken>>

(* The manifest is replaced wholesale.  What a regeneration does next,     *)
(* `page_serves`, only decides what it reports.                            *)
Save(r) ==
  LET saved == Over(run[r].kept, run[r].new)
      changed == {i \in Issues : saved[i] # manifest[i]}
      next == IF r = "tick" /\ ~run[r].own THEN [Idle EXCEPT !.pc = "digest"] ELSE Idle
  IN
  /\ run[r].pc = "save"
  /\ manifest' = saved
  /\ run' = [s \in Runs |->
               IF s = r THEN next
               ELSE IF run[s].pc \in {"render", "load", "guard", "deploy", "save"}
                    THEN [run[s] EXCEPT !.raced = @ \cup changed] ELSE run[s]]
  /\ done' = (done \/ (r = "tick" /\ run[r].own))
  /\ UNCHANGED <<digests, lastSaved, live, slot, bounds, overtaken>>

(* The publish is refused or fails, and its caller goes on. *)
PublishFails(r) ==
  /\ mishaps < Mishaps
  /\ run[r].pc \in {"render", "load", "guard", "deploy", "save"}
  /\ Return(r)
  /\ mishaps' = mishaps + 1
  /\ UNCHANGED <<stores, live, ticks, written, reruns, overtaken>>

(* The container or the operator's process is stopped. *)
Kill(r) ==
  /\ mishaps < Mishaps
  /\ run[r].pc # "idle"
  /\ run' = [run EXCEPT ![r] = Idle]
  /\ mishaps' = mishaps + 1
  /\ UNCHANGED <<stores, live, ticks, written, reruns, overtaken>>

-----------------------------------------------------------------------------
Publish(r) == Render(r) \/ Load(r) \/ Guard(r) \/ Deploy(r) \/ Save(r)

Tick == StartTick \/ Republish \/ Digest \/ NothingToDigest \/ Publish("tick")

Next ==
  \/ Tick
  \/ Regenerate \/ StoreRerun \/ Publish("hand")
  \/ \E r \in Runs : PublishFails(r) \/ Kill(r)

(* The Cron Trigger keeps ticking and a run that is not stopped goes on;   *)
(* nothing is asked of the operator's process.                             *)
Fairness == WF_vars(Tick)

Spec == Init /\ [][Next]_vars /\ Fairness

-----------------------------------------------------------------------------
TypeOK ==
  /\ digests \in Pages /\ manifest \in Pages /\ lastSaved \in Issues
  /\ live \in [pages : Pages, index : SUBSET Issues, head : Issues]
  /\ slot \in Issues /\ done \in BOOLEAN /\ overtaken \in BOOLEAN
  /\ run \in [Runs -> [pc : {"idle", "missing", "digest", "store", "render", "load", "guard",
                             "deploy", "save"},
                       key : 0..MaxIssues, own : BOOLEAN, new : Pages, lead : 0..MaxIssues,
                       listed : SUBSET Issues, kept : Pages, raced : SUBSET Issues]]
  /\ written \in 1..Writes /\ reruns \in 0..Reruns /\ mishaps \in 0..Mishaps

(* A page that is up and named by the manifest, or the manifest's entry of *)
(* it, goes back to an older write, or away.                               *)
TakenBack(i) ==
  \/ manifest'[i] < manifest[i]
  \/ live.pages[i] = manifest[i] /\ live'.pages[i] < live.pages[i]

(* Run r publishes in this step. *)
Acts(r) == run[r].pc \in {"deploy", "save"} /\ run'[r] # run[r]

(* What a publish saved is not taken back, unless the publish that does it *)
(* was under way when the page was saved; and the index leads with an      *)
(* older issue than before only when a newer one was stored during its     *)
(* regeneration (publish.py, the full snapshot; run_digest.py, "a          *)
(* publishing rerun only ever replaces the newest issue").                 *)
OnlyARaceTakesBack ==
  [][/\ \A i \in Issues : TakenBack(i) => \E r \in Runs : Acts(r) /\ i \in run[r].raced
     /\ live'.head < live.head => overtaken]_vars

(* More issues are listed than the guard lets a publish leave out. *)
Refused == Cardinality(live.index \ Names(manifest)) > Tolerance

(* Whatever two publishes took from each other, a later run names every    *)
(* stored issue again, so that the next snapshots carry it                 *)
(* (run_digest.py, `_republish_missing`), unless the guard came to refuse. *)
RacedPageReturns ==
  \A i \in Issues : digests[i] > 0 ~> manifest[i] > 0 \/ Refused
=============================================================================
