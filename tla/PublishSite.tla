------------------------------- MODULE PublishSite -------------------------------
(***************************************************************************)
(* Publishing the archive without keeping a copy of it: `publish_site` of  *)
(* adapters/output/publish.py, as a scheduled run calls it, first for the  *)
(* stored issues the site lacks (`_republish_missing`) and then for its    *)
(* own issue.  Every deployment is a full snapshot of the run's pages and  *)
(* the pages the D1 manifest names, so a page the manifest misses is       *)
(* deleted by the next deployment.  Cloudflare Pages builds deployments    *)
(* beside the run: one may land or fail after the run stopped watching it, *)
(* and the alias readers use trails the newest landed one.                 *)
(*                                                                         *)
(* An issue is a number, its page and raw page together, the unit in which *)
(* the guard counts; the index page and the assets go along with every     *)
(* deployment and are left out.  The manifest is one register here, which  *)
(* PagesManifest.tla shows of its three SQL statements.                    *)
(***************************************************************************)
EXTENDS Naturals, FiniteSets, SequencesExt

CONSTANTS
  MaxIssues,      \* bound: the number of digest hours
  MaxBuilding,    \* bound: the deployments under way at once
  Attempts,       \* DEPLOY_ATTEMPTS
  Tolerance,      \* ARCHIVE_SHORTFALL_TOLERANCE
  Faults,         \* what may go wrong
  Restores        \* whether D1 may be restored to an earlier state, once

Issues == 1..MaxIssues
FaultKinds ==
  {"kill", "d1", "store", "record", "index", "deploy", "answer", "verdict", "slow", "save"}

ASSUME BoundsAssumption ==
  MaxIssues \in Nat /\ MaxBuilding \in Nat \ {0} /\ Attempts \in Nat \ {0} /\ Tolerance \in Nat
ASSUME FaultsAssumption == Faults \subseteq FaultKinds
ASSUME RestoresAssumption == Restores \in BOOLEAN

VARIABLES
  digests,    \* D1: the stored issues
  manifest,   \* D1: the issues `pages_manifest` names
  receipt,    \* D1: whether `pages_deploy_receipt` holds the project
  restored,   \* whether D1 was restored
  live,       \* Pages: the issues of the newest landed deployment
  edge,       \* Pages: the issues the alias serves
  building,   \* Pages: the deployments created after the live one, oldest first
  created,    \* Pages: whether the project has a deployment
  slot,       \* the key of the last digest
  pc,         \* where the run is
  own,        \* whether it publishes its own issue, not the missing ones
  new,        \* the issues in `new_files`
  slug,       \* the issue whose page must show, 0 for none
  kept,       \* the manifest it loaded
  tries,      \* its deploy attempts that came to nothing
  mine,       \* its newest deployment: none, building, landed or failed
  landed,     \* whether it saw that one land
  blind,      \* history: an empty manifest was deployed over a site not read
  linked      \* history: what `publish_site` returned True for: [issue, landed]

d1 == <<digests, manifest, receipt, restored>>
pages == <<live, edge, building, created>>
call == <<own, new, slug, kept, tries, mine, landed>>
past == <<blind, linked>>
vars == <<d1, pages, slot, pc, call, past>>

(* The issues `publish_site` returned True for, and those among them whose *)
(* deployment it had seen land.                                            *)
Linked == {r.issue : r \in linked}
Proven == {r.issue : r \in {s \in linked : s.landed}}

-----------------------------------------------------------------------------
Init ==
  /\ digests = {} /\ manifest = {} /\ receipt = FALSE /\ restored = FALSE
  /\ live = {} /\ edge = {} /\ building = <<>> /\ created = FALSE
  /\ slot = 0 /\ pc = "idle"
  /\ own = FALSE /\ new = {} /\ slug = 0 /\ kept = {}
  /\ tries = 0 /\ mine = "none" /\ landed = FALSE
  /\ blind = FALSE /\ linked = {}

(* The arguments of `publish_site`. *)
Enter(files, page, isOwn) ==
  /\ pc' = "load"
  /\ new' = files /\ slug' = page /\ own' = isOwn
  /\ UNCHANGED <<kept, tries, mine, landed>>

Forget ==
  /\ own' = FALSE /\ new' = {} /\ slug' = 0 /\ kept' = {}
  /\ tries' = 0 /\ mine' = "none" /\ landed' = FALSE

(* `publish_site` returns or raises; its caller goes on either way. *)
Return ==
  /\ pc' = IF own THEN "idle" ELSE "digest"
  /\ Forget

-----------------------------------------------------------------------------
(* The run around `publish_site`. *)

(* A tick starts a run.  Ticks are an hour apart and a deployment takes    *)
(* seconds, so what Pages was doing for the last run is over.              *)
StartRun ==
  /\ pc = "idle"
  /\ building = <<>> /\ edge = live
  /\ pc' = "republish"
  /\ UNCHANGED <<d1, pages, slot, call, past>>

(* `_republish_missing`: the stored issues the manifest does not name, in  *)
(* one publish, checked by the page of one of them.                        *)
Republish ==
  LET missing == digests \ manifest IN
  /\ pc = "republish"
  /\ IF missing = {}
     THEN pc' = "digest" /\ UNCHANGED call
     ELSE \E page \in missing : Enter(missing, page, FALSE)
  /\ UNCHANGED <<d1, pages, slot, past>>

(* The run digests an issue under a new key, or on a catch-up under the    *)
(* last one, unless `digest_runs` holds that one as ok; it stores the      *)
(* issue (the save may fail) and publishes it.                             *)
Digest ==
  /\ pc = "digest"
  /\ \E key \in {slot, slot + 1} \cap Issues :
       /\ key \in Linked => "record" \in Faults
       /\ slot' = key
       /\ \/ digests' = digests \cup {key}
          \/ "store" \in Faults /\ UNCHANGED digests
       /\ Enter({key}, key, TRUE)
  /\ UNCHANGED <<manifest, receipt, restored, pages, past>>

(* There is nothing to digest. *)
NothingToDigest ==
  /\ pc = "digest"
  /\ pc' = "idle"
  /\ UNCHANGED <<d1, pages, slot, call, past>>

-----------------------------------------------------------------------------
(* `publish_site`. *)

(* The manifest, or the receipt of an earlier deploy, calls for the guard. *)
LoadOwned ==
  /\ pc = "load"
  /\ manifest # {} \/ receipt
  /\ kept' = manifest
  /\ pc' = "guard"
  /\ UNCHANGED <<d1, pages, slot, own, new, slug, tries, mine, landed, past>>

(* Neither: a project with nothing deployed is this database's from now    *)
(* on; one with deployments is somebody else's, and the publish refuses.   *)
LoadUnowned ==
  /\ pc = "load"
  /\ manifest = {} /\ ~receipt
  /\ IF created
     THEN Return /\ UNCHANGED receipt
     ELSE /\ receipt' = TRUE
          /\ pc' = "deploy"
          /\ UNCHANGED call
  /\ UNCHANGED <<digests, manifest, restored, pages, slot, past>>

(* A D1 read, the probe or the receipt's write fails. *)
LoadFails ==
  /\ "d1" \in Faults
  /\ pc = "load"
  /\ Return
  /\ UNCHANGED <<d1, pages, slot, past>>

(* Mutant: the guard compares the wrong way round. *)
GuardReadsBackwards ==
  /\ pc = "guard"
  /\ edge # {}
  /\ IF Cardinality(kept \ edge) <= Tolerance
     THEN pc' = "deploy" /\ UNCHANGED call
     ELSE Return
  /\ UNCHANGED <<d1, pages, slot, past>>

(* The guard: the issues the live archive lists and the manifest does not  *)
(* name must be no more than tolerated.                                    *)
GuardReads ==
  /\ pc = "guard"
  /\ edge # {}
  /\ IF Cardinality(edge \ kept) <= Tolerance
     THEN pc' = "deploy" /\ UNCHANGED call
     ELSE Return
  /\ UNCHANGED <<d1, pages, slot, past>>

(* Mutant: an unreadable index refuses the first publish as well. *)
GuardBlindRefuses ==
  /\ pc = "guard"
  /\ edge = {} \/ "index" \in Faults
  /\ Return
  /\ UNCHANGED <<d1, pages, slot, past>>

(* The index cannot be read; a site that was never built has none. *)
GuardBlind ==
  /\ pc = "guard"
  /\ edge = {} \/ "index" \in Faults
  /\ IF kept = {}
     THEN pc' = "deploy" /\ UNCHANGED call
     ELSE Return
  /\ blind' = (blind \/ (kept = {} /\ edge # {}))
  /\ UNCHANGED <<d1, pages, slot, linked>>

(* Mutant: one attempt too many. *)
RetryOnceMore ==
  IF tries = Attempts
  THEN Return
  ELSE /\ tries' = tries + 1
       /\ pc' = "deploy" /\ mine' = "none"
       /\ UNCHANGED <<own, new, slug, kept, landed>>

(* An attempt came to nothing: the next one, or the end. *)
Retry ==
  IF tries + 1 = Attempts
  THEN Return
  ELSE /\ tries' = tries + 1
       /\ pc' = "deploy" /\ mine' = "none"
       /\ UNCHANGED <<own, new, slug, kept, landed>>

(* Mutant: the deployment holds the run's own pages only. *)
CreateNewOnly ==
  /\ building' = Append(building, new)
  /\ created' = TRUE
  /\ UNCHANGED <<live, edge>>

(* `deploy_manifest`: the full snapshot is uploaded and created. *)
Create ==
  /\ building' = Append(building, kept \cup new)
  /\ created' = TRUE
  /\ UNCHANGED <<live, edge>>

Deploy ==
  /\ pc = "deploy"
  /\ Len(building) < MaxBuilding
  /\ Create
  /\ pc' = "verdict" /\ mine' = "building"
  /\ UNCHANGED <<d1, slot, own, new, slug, kept, tries, landed, past>>

(* It is refused, or an evicted asset cannot be recovered. *)
DeployRefused ==
  /\ "deploy" \in Faults
  /\ pc = "deploy"
  /\ Retry
  /\ UNCHANGED <<d1, pages, slot, past>>

(* The deployment is created, the answer to the request lost. *)
DeployUnanswered ==
  /\ "answer" \in Faults
  /\ pc = "deploy"
  /\ Len(building) < MaxBuilding
  /\ Create
  /\ Retry
  /\ UNCHANGED <<d1, slot, past>>

(* No further attempt fits the publish budget. *)
OutOfTime ==
  /\ "slow" \in Faults
  /\ pc = "deploy"
  /\ Return
  /\ UNCHANGED <<d1, pages, slot, past>>

(* `_await_verdict`: a poll reads the deployment's final stage. *)
SeesLanded ==
  /\ pc = "verdict" /\ mine = "landed"
  /\ landed' = TRUE
  /\ pc' = "save"
  /\ UNCHANGED <<d1, pages, slot, own, new, slug, kept, tries, mine, past>>

SeesFailed ==
  /\ pc = "verdict" /\ mine = "failed"
  /\ Retry
  /\ UNCHANGED <<d1, pages, slot, past>>

(* The polls run out, or fail, whatever became of the deployment. *)
NoVerdict ==
  /\ "verdict" \in Faults
  /\ pc = "verdict"
  /\ pc' = "check"
  /\ UNCHANGED <<d1, pages, slot, call, past>>

(* `publish_site` returns True. *)
Published ==
  /\ linked' = linked \cup {[issue |-> slug, landed |-> landed]}
  /\ Return

(* `manifest_store.save`: before the alias check of a deployment that      *)
(* landed, after the check of one without a verdict.                       *)
Save ==
  /\ pc = "save"
  /\ manifest' = kept \cup new
  /\ IF landed
     THEN pc' = "check" /\ UNCHANGED <<call, linked>>
     ELSE Published
  /\ UNCHANGED <<blind, digests, receipt, restored, pages, slot>>

(* The save raises; an unanswered one may have been written. *)
SaveFails ==
  /\ "save" \in Faults
  /\ pc = "save"
  /\ manifest' \in {manifest, kept \cup new}
  /\ Return
  /\ UNCHANGED <<digests, receipt, restored, pages, slot, past>>

(* `_page_is_live`: the alias serves the page. *)
PageIsLive ==
  /\ pc = "check"
  /\ slug \in edge
  /\ IF landed
     THEN Published
     ELSE pc' = "save" /\ UNCHANGED <<call, linked>>
  /\ UNCHANGED <<blind, d1, pages, slot>>

(* The polls run out, or the budget does. *)
PageIsNotLive ==
  /\ pc = "check"
  /\ slug \notin edge \/ "slow" \in Faults
  /\ Return
  /\ UNCHANGED <<d1, pages, slot, past>>

(* The container is killed. *)
Kill ==
  /\ "kill" \in Faults
  /\ pc # "idle"
  /\ pc' = "idle"
  /\ Forget
  /\ UNCHANGED <<d1, pages, slot, past>>

-----------------------------------------------------------------------------
(* Cloudflare Pages, and the operator. *)

(* A deployment lands: the ones created before it are superseded. *)
Land(n) ==
  /\ n \in DOMAIN building
  /\ live' = building[n]
  /\ building' = SubSeq(building, n + 1, Len(building))
  /\ mine' = IF n = Len(building) /\ mine = "building" THEN "landed" ELSE mine
  /\ UNCHANGED <<d1, edge, created, slot, pc, own, new, slug, kept, tries, landed, past>>

(* A deployment fails. *)
Fails(n) ==
  /\ n \in DOMAIN building
  /\ building' = RemoveAt(building, n)
  /\ mine' = IF n = Len(building) /\ mine = "building" THEN "failed" ELSE mine
  /\ UNCHANGED <<d1, live, edge, created, slot, pc, own, new, slug, kept, tries, landed, past>>

(* The alias serves the newest landed deployment. *)
Propagate ==
  /\ edge # live
  /\ edge' = live
  /\ UNCHANGED <<d1, live, building, created, slot, pc, call, past>>

(* D1 goes back to the state it had after issue k; before the first issue  *)
(* it may hold the receipt or not, as another database would.              *)
Restore(k) ==
  /\ Restores /\ ~restored
  /\ pc = "idle"
  /\ restored' = TRUE
  /\ digests' = digests \cap 1..k
  /\ manifest' = manifest \cap 1..k
  /\ receipt' \in IF manifest' = {} THEN {receipt, FALSE} ELSE {receipt}
  /\ UNCHANGED <<pages, slot, pc, call, past>>

Run ==
  \/ Republish \/ Digest \/ NothingToDigest
  \/ LoadOwned \/ LoadUnowned \/ GuardReads \/ GuardBlind
  \/ Deploy \/ SeesLanded \/ SeesFailed \/ Save \/ PageIsLive \/ PageIsNotLive

Misfortune ==
  \/ LoadFails \/ DeployRefused \/ DeployUnanswered \/ OutOfTime
  \/ NoVerdict \/ SaveFails \/ Kill

Next ==
  \/ StartRun \/ Run \/ Misfortune
  \/ \E n \in DOMAIN building : Land(n) \/ Fails(n)
  \/ Propagate
  \/ \E k \in 0..MaxIssues : Restore(k)

Spec == Init /\ [][Next]_vars

(* What liveness rests on.  A run goes on until it is stopped, Pages ends  *)
(* every deployment and serves the newest; and no step of republishing     *)
(* fails, or is killed, for ever.                                          *)
Republishing(A) == ~own /\ A

Fairness ==
  /\ WF_vars(StartRun) /\ WF_vars(Run) /\ WF_vars(Propagate)
  /\ WF_vars(\E n \in DOMAIN building : Land(n) \/ Fails(n))
  /\ SF_vars(Republish)
  /\ SF_vars(Republishing(LoadOwned \/ LoadUnowned))
  /\ SF_vars(Republishing((GuardReads \/ GuardBlind) /\ pc' = "deploy"))
  /\ SF_vars(Republishing(Deploy))
  /\ SF_vars(Republishing(pc = "verdict" /\ mine = "building" /\ Land(Len(building))))
  /\ SF_vars(Republishing(SeesLanded))
  /\ SF_vars(Republishing(Save))

FairSpec == Spec /\ Fairness

-----------------------------------------------------------------------------
TypeOK ==
  /\ digests \subseteq Issues /\ manifest \subseteq Issues
  /\ receipt \in BOOLEAN /\ restored \in BOOLEAN
  /\ live \subseteq Issues /\ edge \subseteq Issues
  /\ building \in Seq(SUBSET Issues) /\ Len(building) <= MaxBuilding
  /\ created \in BOOLEAN
  /\ slot \in 0..MaxIssues
  /\ pc \in {"idle", "republish", "digest", "load", "guard", "deploy", "verdict", "save", "check"}
  /\ own \in BOOLEAN /\ new \subseteq Issues /\ slug \in 0..MaxIssues /\ kept \subseteq Issues
  /\ tries \in 0..(Attempts - 1)
  /\ mine \in {"none", "building", "landed", "failed"} /\ landed \in BOOLEAN
  /\ blind \in BOOLEAN /\ linked \subseteq [issue : Issues, landed : BOOLEAN]

Lead == Cardinality(live \ manifest)

(* A link once given stays good, whatever later runs deploy, lose or are   *)
(* killed in: an issue `publish_site` returned True for is in the manifest *)
(* from then on, so that every later deployment carries it, and one it had *)
(* seen land is on the newest deployment (publish.py, the save before the  *)
(* alias check).                                                           *)
LinkedStaysUp ==
  ~restored => Linked \subseteq manifest /\ Proven \subseteq live

(* A database that describes another archive, a restore or a clone, costs  *)
(* the site no more of its issues than the guard tolerates, as long as a   *)
(* run without a manifest can read the index it is about to replace.       *)
LossIsTolerated ==
  ~blind => Cardinality(Proven \ live) <= Tolerance

(* A stored issue is published in the end, however its publishes failed,   *)
(* unless the site came to lead the manifest by more than the guard        *)
(* tolerates, or D1 was restored.                                          *)
StoredIsPublished ==
  \A i \in Issues :
    i \in digests ~>
      i \in manifest \/ restored \/ (pc = "idle" /\ Lead > Tolerance)
=============================================================================
