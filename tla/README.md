# Formal models of cyris

cyris fetches RSS entries and newsletters, lets language models score, filter,
cluster and summarize them, and twice a day publishes an issue: a page on
Cloudflare Pages, whose links go out by mail and to Discord. Readers vote on the
page, and the votes decide what later issues show. State lives in a Cloudflare
D1 database that is reached over HTTP, one statement per request and without
transactions; runs happen in a container a Cron Trigger starts and Cloudflare
may replace at any moment. What is hard about cyris is therefore not the text it
handles but the order in which its writes take effect, and that is what these
modules are about.

TLC checks every module on a small instance; TLAPS proves, for every value of the
constants, every invariant, action property and refinement the passing runs check.
Liveness is only model-checked. Section 6 says what is proved, from what, and along
which argument.

## 1. Inventory

| component | code | state | operations | what makes it correct |
|---|---|---|---|---|
| digest run | `service_layer/run_digest.py`, `digest_pipeline.py`, `fetching.py` | the run's locals | republish, sync, fetch, save, load, judge, decide, store, publish, notify, record | no article in two issues; a decision of the reader stands; nothing accepted and then left out |
| article store | `adapters/store/d1_store.py` | `stored_articles` | `save`, `update_states`, `record_verdicts`, `load_by_time_range`, `delete_articles` | first write of an entry wins; a run's verdict never overrides a human one |
| issue store, ledger | `digests.py`, `runs.py`, `digest_inputs.py` | `digests`, `digest_runs`, `digest_inputs` | `save`, `load`, `issues`, `record` | an ok row means a published page that the stored issue reproduces |
| Cron Trigger | `workers/app/src/schedule.js`, `index.js`, `service_layer/schedule.py` | none; reads `digest_runs` | `planTick`, `startRun`, `due_period`, `first_issue_key` | each digest hour runs, a lost one is retried, no row passes for another's |
| containers | `workers/app/src/container.js`, `docker/entrypoint.sh` | `starting`, `booting`, `listening`; the shell's steps | `start`, `adopt`, `ready`, forward; the pass | an answer is the container's own; a pass ends with its steps |
| publishing | `adapters/output/publish.py`, `pages_deploy.py`, `pages_receipt.py` | `pages_deploy_receipt`; the site | `publish_site` | no published page is lost; a wrong database does not wipe the site |
| pages manifest | `adapters/output/pages_manifest.py` | `pages_manifest` | `load`, `save` | a reader sees one whole manifest |
| regeneration | `entrypoints/cli.py`, `run_digest.py` | none of its own | rerun, store, publish beside the runs | it replaces the newest issue only, and takes no page away |
| votes | `_promote_script.html.j2`, `workers/promote`, `adapters/promotions.py`, `store/topics.py` | KV, `triaged_at`, `topic_votes` | click, `POST /promote`, `sync_promotions`, `/ack` | no vote lost, no click counted twice |
| suppressions | `service_layer/vote_similarity.py`, `store/suppressions.py` | `suppressions` | judge, `record`, `active` | a hold ends with its clock or a human decision |
| judging | `scoring.py`, `cluster_news.py`, `filtering.py`, `summarize.py`, `selection.py` | the run's articles | the stages and their fallbacks | each article gets one verdict its lane allows, whatever the models reply |
| newsletter queue | `workers/newsletter`, `fetch/newsletter_worker_source.py`, `newsletter_dedup.py` | KV queue | deliver, pull, ack, merge, save | an issue is stored once |
| RSS Worker | `workers/rss`, `fetch/rss_worker_source.py` | `articles`, `feed_health` | poll, prune, window read | every entry reaches a window, and only once |
| migrations | `store/migrations.py`, `schema.sql` | `schema_migrations` | `apply_schema`, `apply_steps` | each step once, two containers booting together |
| topics and stories | `store/topics.py`, `stories.py` | their tables | save beside the issue | a failure leaves a union, not a gap; a vote finds its topic |
| areas | `store/areas.py`, `domain/areas.py` | `areas`, `sources.area` | propose, confirm, merge, rename, assign | a name is one row and counts a run once |
| blind labels | `store/blind_labels.py` | the sample | draw, answer | the sample is whole; an answer has its vote |
| settings page | `entrypoints/triage_server.py`, `store/settings.py` | `settings` | forms with a probe | a run meets no model that did not answer |
| onboarding wizard | `static/onboarding.js`, `triage_server.py` | the page | sources, cards, votes, first issue | it shows what was written |
| LLM clients, prompts, rendering, notifications, diagnostics, JSON store, scripts | see `PROJECT.json` | little or none | | not about ordering; left out |

How they interact. A tick (`scheduled`) reads the schedule and `digest_runs` and
starts the run container. The run first calls `_republish_missing`, which calls
`publish_site`; then `sync_promotions`, which pulls the promote Worker's KV and
acknowledges it; then it reads the RSS Worker's buffer and the newsletter queue,
writes `stored_articles`, judges, writes verdicts, stores the issue with its
stories and topics, calls `publish_site` again and ends with its row in
`digest_runs`. The reader's votes and labels change `stored_articles` beside the
run, the settings page and the wizard change `settings`, `sources` and `areas`, an
operator's regeneration stores and publishes from a process of its own, and Pages
builds deployments beside all of them.

The hard behaviours: a kill between any two statements; a statement whose answer
is lost, repeated by `D1Client` or run late; verdicts written minutes after the
rows were read; a retry of a run that had done part of its work; deployments that
land after their run stopped watching; acknowledgements that fail half-way; a
handler that awaits a model while others run. `PROJECT.json` lists each hazard at
its line, with the properties that would catch it.

## 2. Plan

Done, most important first. Each item names the modules of the system and the
module that holds the proofs about them.

1. `PagesManifest` and its abstract specification `ManifestRegister`; `PagesManifestProofs`.
2. `DigestRun`: articles, issues, ledger, site, ticks, reader; `DigestRunProofs`.
3. `PublishSite`: one `publish_site` after another against a Pages that builds
   beside it; `PublishSiteProofs`.
4. `VoteSync`: page, promote Worker, `sync_promotions`; `VoteSyncProofs`.
5. `Calendar`: the keys of issues, catch-ups and the wizard's first issue.
6. `RssBuffer` and `NewsletterQueue`; `IntakeProofs`, of these two and `Calendar`.
7. `Lifecycle`, `RunPass`, `Migrations` and `Regeneration`; `OperationsProofs`.
8. `DigestPipeline` with the abstract `Judgement`, `VoteHolds`, `IssueRecords`;
   `JudgingProofs`.
9. `D1Calls`, `BlindLabels`, `SettingsForms`, `Areas`, `OnboardingCards`;
   `ReaderProofs`.

Next:

10. `PublishSite` over `PagesManifest`, for two publishers whose statements interleave.
11. The settings page's own code (`settings.js`), the archive pruning, the trial scripts.

## 3. The modules

### ManifestRegister and PagesManifest

`ManifestRegister` is the promise: one register holding a whole manifest under a
stamp, moving only to later stamps. `PagesManifest` is the code: `rows` is the
table, each saver goes through `read`, `insert`, `delete` (the three statements of
`save`), `Lost` is a request of `D1Client._post_with_retries` that got no answer,
and `RunLate` a request D1 runs after its sender gave up. The clock is free; a
stamp is any that sorts after the rows read (`_stamp_after`). `StampsCollide`
separates the case in which two savers draw the same stamp, which the code does
not exclude. The refinement maps the register to what `load` returns.

### DigestRun

An article goes from unseen to the RSS Worker's buffer (`Arrive`), becomes a
pending row (`Fetch`: `fetch_all_articles` and `store.save`), is loaded and judged
(`Judge`), decided in chunks of one verdict (`UpdateChunk`: one statement of
`update_states`), put into the stored issue (`StoreIssue`) and on the page
(`Publish`). What the models answer is free: any part of the loaded rows is
judged, any part of those is chosen. `Decide` is any human verdict
(`record_verdicts`). `DigestHour`, `CatchUp` and `QuietTick` are the answers of
`planTick`; `Record` is the `finally` of `run_digest`. `Faults` selects what may
go wrong. A key (date, period) is the number of its digest hour; `site` stands
for the pages the manifest names and the content they were given. One run is
under way at a time, which `RUN_INACTIVITY_TIMEOUT_MS` (15 minutes) and hourly
ticks justify.

### PublishSite

The steps of `publish_site`: load the manifest, or prove an empty one belongs here
by the receipt or an empty project (`LoadOwned`, `LoadUnowned`); the guard
(`GuardReads`, `GuardBlind`); up to `Attempts` deployments (`Deploy`,
`DeployRefused`, `DeployUnanswered`, `Retry`); the polls for a verdict
(`SeesLanded`, `SeesFailed`, `NoVerdict`); the save of the manifest, before the
alias check of a landed deployment and after that of one without a verdict
(`Save`, `PageIsLive`, `PageIsNotLive`). Cloudflare is `Land`, `Fails`,
`Propagate`; `Restore` is a point-in-time restore of D1. An issue's digest page
and raw page are one number, the unit in which `_archive_shortfall` counts.
Around it, a run calls it for the missing issues and then for its own. A tick
starts only after Pages has ended what the last run began: an hour lies between
ticks, and a deployment takes seconds. `linked` and `blind` are history
variables: what the caller was told is up, and whether an empty manifest was
deployed over a site nobody could read.

`LinkedStaysUp` speaks of two things: an issue `publish_site` returned True for
stays in the manifest, and one whose deployment it had seen land stays on the
newest deployment. For a deployment without a verdict, the page being visible
proves only that some deployment shows it, so the second part is not claimed.
`LossIsTolerated` holds as long as no empty manifest was deployed over a site
that has pages but could not be read. The code takes that for the first publish
of a project whose first upload failed; with an index that fails at that moment
it would.

### VoteSync

A click posts once per URL of its group (`Click`, `Land`, `PostLost`); the promote
Worker's KV holds the last vote per URL. `Pull`, `RecordRejected`,
`RecordAccepted`, `RecordTopics` and `Ack` are `sync_promotions`; `TopicVote` and
`SameClick` are `topic_votes` and `unrecorded`. `AckFails` deletes any part of
what it was asked to, `SyncFails` ends the sync anywhere. `Spread` is how far the
posts of a click may lie apart (the page gives a post up after 10 s), `Window` the
60 s of `ONE_CLICK_WINDOW`; `MarginAssumption` asks `Spread <= Window` and no more.
`MidSync` allows votes to land on a URL between the pull and the ACK. `turned` is
history: the topics voted the other way while posts of a vote were still under way,
which `OneVotePerClick` excepts.

### RssBuffer

`Pollers` are the Worker's cron and its `POST /poll`, which may overlap. A poll
takes its stamp (`PollStart`), fetches (`PollFetched`: the feed lists what it likes
with the dates it likes, and what is older than the retention is dropped), inserts
in batches (`PollWrite`, INSERT OR IGNORE) and prunes (`PollPrune`); it may die
after any of these. A run reads the window that ends when it starts (`RunRead`,
cut by the row ceiling), saves (`RunSave`: D1 recognises every stored row, the
JSON store those of its scan) or crashes. `Clean` is `articles clean`. The
assumptions are the code's lengths: a window is at most 168 hours and the
buffer keeps 8 days (`KeepAssumption`, with the 30 days of `articles clean`), the
JSON store scans 8 days (`ScanAssumption`), and two digests lie closer together
than a window less a poll (`GapAssumption`). `excused` holds what a crash or the
ceiling kept from a run, `ahead` what its feed dated later than it came or an
overtaken poll wrote.

### NewsletterQueue

`Deliver` is the Email Worker, which may get a mail twice; `Pull`, `Ack`, `Save` are
`fetch_articles` and the save after it, where the ACK comes first; a preview pulls
without an ACK. `Merge` is the dict of `fetch_all_articles`, in which an RSS article
may displace a newsletter of the same URL; `Save` picks the URL an issue is stored
under (`resolve_stored_url`): its link, or the synthetic one of its id. What a mail
says is fixed but arbitrary. `displaced` is history: the issues of a fetch in which
an RSS article had the link of some copy of the issue. "Some copy", because a copy
with a link of its own takes the place of the sibling kept for the issue, and may
then be replaced itself; that takes four mails, more than the run has, and came out
of the proof.

### Calendar

Hours are the grain. A zone maps an hour to the wall clock and may step back;
`MoveSchedule` is the settings page. `PlanDue`, `PlanCatchUp` and `StayAsleep` are
`planTick`, `StartTick` is `scheduled` with `startRun`, and `due_period` for a run
started without a period. `Ask`, `Post`, `Hear` and `GiveUp` are the wizard's last
step, which gets its key from `first_issue_key` and knows its run only as the next
row of the period. A container that runs answers a second start like a first.

### DigestPipeline and Judgement

`Judgement` is the promise of one step: a skim-lane article is shown or rejected, a
followed one shown, a read-lane one shown or left pending. `DigestPipeline` is the
code, stage by stage: `ScoreBatch`, `Cluster`, `FilterBatch`, `SummarizeGroup`, `Layer`,
each with its fallback when the model fails, and a model that answers anything:
positions twice, positions of no article, too few, or a reply that is no object of
the expected shape. A list in some order (`Listed`, `ByScore`) is named by what it
is, the sequence of those articles in that order, and not by how it is sorted. `FilterRaises` and `SummarizeRaises` are replies read outside
their try blocks. The pipeline is shown to implement `Judgement`.

### VoteHolds

A run loads the pending articles, or a rerun those of the stored issue (`Run`,
`Rerun`); `Judge` flags outliers close to a downvote, `ReadHolds` adds the live
holds and drops both, `Record` writes the new holds, `Issue` decides. `ReadFails` is
the read of the holds that is logged and goes on. Votes land at any time, and
`decided` is what the reader had decided when the run judged.

### IssueRecords

The four statements of the stories' save and the four of the topics', for several
savers that may fail or be killed between two and may overlap; `Vote` names a topic
by an article in it. A topic's id is made of its issue and the set of its articles.

### Lifecycle, RunPass, Migrations, Regeneration

`Lifecycle` is the Durable Object before the ui container, one JavaScript turn per
action: `Arrive`, `StartBox`, `Adopted`, `PingAnswered`, `PingFails`, `Hear`, and
the container beside it (`ComesUp`, `Stop`, `MonitorSettles`, `RestartObject`).
`RunPass` is `entrypoint.sh` as PID 1: the probe, `cyris run`, `cyris promote-sync`,
with a SIGTERM at any instant and what `wait` and the trap make of it.
`Migrations` is `schema.sql` and the versioned steps against a new, an old and a
nearly current database, run by two containers that boot together, with statements
that fail, run twice, or are followed by a kill. `Regeneration` is an operator's
`cyris regenerate --mode rerun --publish` beside the scheduled runs: both store an
issue and both publish a full snapshot from the manifest they loaded; what Pages
and D1 do to one publish alone is in `PublishSite` and `PagesManifest`.

### D1Calls, BlindLabels, Areas, SettingsForms, OnboardingCards

`D1Calls` names what becomes of one statement that `D1Client.query` sends: answered,
run twice, answered while a slow copy is still to run, run but unanswered, not run.
The four other modules use it.

`BlindLabels`: `ReadPool`, `InsertDraw`, `CheckKept`, `DeleteOthers` are
`cyris labels draw`; `Press`, `Record`, `Vote`, `Release` are `_handle_post_label`;
`LateRuns` is a slow copy, and `Overtaken` the answers whose vote such a copy takes
back. `slipped` and `crossed` are the accidents the two properties except.

`Areas`: a run reads the names and inserts or updates row by row (`RunReads`,
`RunInserts`, `RunUpdates`), the settings page asks a model for areas and writes
what it answered (`ProposeReads`, `ProposeWrites`), confirms, dismisses, merges,
renames after a check and assigns sources one by one (`BulkStarts`,
`BulkActivates`, `BulkWrites`). Two spellings are one name by `casefold`, while the
table's index folds ASCII letters alone. Three histories judge it. `known` is what a
writer found when it read: the names that had rows, whether or not its check used
them. `crossed` holds the names given a row although another writer had given them one
between that reading and the write; a name the writer had read, and gave a second row
all the same, is not among them, so that `OneRowPerName` breaks when a check is missing
in `RunReads`, `RenameChecks` or `ProposeReads`. `ruled` is what the reader decided on
each area, against which `DecisionStands` holds what the area's name means now.

`SettingsForms`: `Submit`, `ProbeOk`, `ProbeFails` and `StoreKey`, key by key, of the
LLM, its effort, and vote similarity; a run reads the whole table at any instant.
`values` is what the server keeps in memory, which `Restart` reads again.

`OnboardingCards`: the sources and votes steps of the wizard. `PostSource` saves one
feed, `SourcesSaved` ends the save, `DealReads` and `DealAnswers` are the deal of
cards, `Press` a button, `PostWrites` the server's statements (any beginning of them
if one fails), `PostAnswered` the page's answer. Back, Skip and the browser's
history (`Go`) leave a step while its save is out, so that up to `Out` saves are out
at once; `Reload` leaves requests of the old page with the server.

## 4. The runs

| run | bounds | shows |
|---|---|---|
| `pages_manifest` | 2 savers, 3 manifests on 2 paths, 3 stamps, 2 attempts | types, one generation, an answered save stays current, refinement of the register |
| `digest_faults` | 2 articles, 2 slots, 3 catch-up hours, cap 2, chunks of 1, all faults | no article twice; ok means published and final; a decision stands |
| `digest_no_catch_up` | 3 articles, 2 slots, fetches and publishes fail | what was accepted reaches the reader |
| `digest_crash` | 3 articles, kills only | **violation**: accepted articles in no issue |
| `digest_catch_up` | 3 articles, failed publishes only | **violation**: a catch-up thins an issue |
| `publish_site` | 3 issues, 2 deployments at once, 2 attempts, all faults, one restore | links stay good; losses stay within the tolerance |
| `publish_recovers` | 2 issues, all faults, fairness | a stored issue is published in the end |
| `reader` | see below | votes, labels, areas, settings, wizard |
| `intake` | see below | entries, newsletters, keys of issues |
| `newsletter_displaced` | 2 mails, 2 sources, 2 links, 3 deliveries, 2 runs | **violation**: an RSS article displaces an acknowledged newsletter |
| `judging` | see below | the page, the holds, the records |
| `operations` | see below | containers, boots, passes, regenerations |

Four runs check several components each. `MCReader`, `MCIntake`, `MCJudging` and
`MCOperations` instantiate them side by side; a variable `part`, fixed by the
initial state, says whose steps a behaviour takes, and the other components stay in
their initial states. The components share no state in the code but through tables
that each module models for itself, so nothing is lost, and a property of a part is
stated as `part = "..." => ...` or on variables only that part moves. Some
properties join two that speak of the same hazard:
`RowPassesForNoOther` is `CatchUpIsNotFooled` and `WizardTellsTrue`,
`HoldsKeepToVotes` is `OneClock` and `DecidedIsNotDropped`,
`VoteFindsItsTopic` is `OneTopicPerArticle` and `VotedTopicStays`,
`BootsEndInShape` is `ServesItsShape` and `RaceNeverAborts`,
`AnswersForItself` is `ListeningWasHeard` and `PassAnswersForItsRun`,
`LabelsStand` is `SampleIsWhole` and `LabelHasItsVote`,
`AreasAgree` is `OneRowPerName`, `DecisionStands`, `LeadsToActive` and
`CountedOncePerRun`,
`EachIssueOnce` is `NoIssueIsSwallowed` and `OneRowPerIssue`,
`CardsTellTrue` is `RecordedIsWritten` and `CardsAreOfTheFeeds`.

Why these bounds are enough to be worth checking.

* Two savers suffice for every order of two saves, and the third manifest lacks a
  path, so that a union differs from both.
* Two articles and chunks of one let a verdict take two statements; a third article
  exceeds the cap. Two slots give a catch-up of each and a later run after it.
* Three issues exceed the tolerance of one by two, so a republish of two and a
  restore by more than one both occur.
* `reader`: two URLs of one topic in two groups, two clicks over five instants, with
  a spread and a one-click window of two, so that a click's posts straddle a sync
  and a change of mind falls inside and outside the window. Two drawers, two articles
  and two accidents of labels, for a draw to race a draw and an answer. Four names,
  two of them spellings of one and one unplaced, two rows and two runs. Two providers,
  models and three saves of forms. Two feeds, two posts of votes, two presses, two
  saves out at once. One accident each where accidents are bounded.
  The articles of the labels and the wizard's feeds are symmetric.
* `intake`: two entries, one dated anew by its feed, two pollers whose batches and
  polls overlap, a window of two units, a retention of three, a ceiling of one row.
  Two mails and three deliveries. Digests at three of six instants, the sixth of
  which lets `Clean` find a row old enough. Six hours over two
  short days, of a clock that stands and one that is set back, with one move of the
  schedule, early on (`CONSTRAINT MovesEarly`: a move later repeats what an early one
  shows and doubles the run).
* `judging`: three articles in the mixtures of lanes in which the stages meet
  (`MCInputs`), batches of two, two groups. Two articles and two votes with holds of
  two hours out of three. Two savers, two issues, two saves, pages of two entries.
  The articles, URLs and savers are symmetric: no operator orders them or names one,
  and the run checks no liveness.
* `operations`: three requests, three containers and one restart of the object; two
  booting containers and three faults; a pass and a signal; three issues, two reruns
  and one mishap.

Deadlock is left unchecked where the behaviour is bounded by construction and really
ends: `DigestRun` after its last slot, `VoteSync` after its last instant, `RssBuffer`
and `Calendar` after their last hour, a pass after its last step, a boot that is up.

Fairness. `FairSpec` of `PublishSite`, for `publish_recovers`: weak fairness of the
run's steps and of Pages, because code that is not killed goes on and a deployment
ends; weak fairness of `StartRun`, because the Cron Trigger keeps ticking; strong
fairness of each step of a republish, because every run repeats it, under the
hypothesis that no request fails every time for ever. Nothing is assumed of the
run's own publishes, which may fail always. The run excludes a restore, and the
property excepts the state in which the guard refuses. `OpsSpec`: weak fairness of
`Turn`, the event loop of the Durable Object, whose pings end by an answer or by
`PING_MS`; nothing is asked of containers. And weak fairness of `Rg!Tick`, the Cron
Trigger and its runs; nothing is asked of an operator's process.

## 5. What the violations mean

Each is a place where a doc or a comment promises more than the code does; the
`findings` of `PROJECT.json` quote both. Three have a run of their own:

* `digest_catch_up`: after a failed publish the catch-up stores what is pending
  now over the full issue, under the same key.
* `digest_crash`: articles are accepted before their issue is stored.
* `newsletter_displaced`: a newsletter that an RSS article of the same fetch
  displaces was acknowledged and is stored nowhere.

The others are excepted, by name, in a property that holds. Dropping the exception,
or setting the constant, makes TLC show the behaviour:

| code | what happens | how to see it |
|---|---|---|
| `publish.py:305` | two missing issues land in one deployment whose save fails; the guard then refuses for ever | drop the refusing state from `StoredIsPublished` |
| `pages_manifest.py:41` | two savers draw one stamp and leave a mixture | `StampsCollide = TRUE` |
| `promote/src/index.js:66` | a vote cast again during a sync is acknowledged unrecorded | `MidSync = TRUE` |
| `promotions.py:130` | a late post of a click, after an opposite click, counts as a vote of its own | drop `\ turned` from `OneVotePerClick` |
| `summarize.py:85` | a reply of the wrong shape raises out of the run | reach `raised` in `DigestPipeline` |
| `schedule.py:61` | the hour that comes twice stores over the first issue | drop `SetBack` from `FirstIssueStands` |
| `run_digest.py:456` | a rerun publishes an index that leads with an older issue | drop `overtaken` from `OnlyARaceTakesBack` |
| `rss/src/index.js:100` | an entry stamped before and written after a run's read is lost with the next run's crash | drop `excused` from `SlipsOnlyByFault` |
| `triage_server.py:737` | a run finds vote similarity on beside an embedder nobody called | drop `cut` from `RunMeetsTested` |
| `triage_server.py:1927` | a `record` sent twice keeps an answer without its vote | drop `slipped` from `LabelHasItsVote` |
| `areas.py:65` | an UPDATE run twice counts a run twice | drop `repeated` from `CountedOncePerRun` |
| `schema.sql:98` | two writers that both read before either wrote give one name two rows | drop `crossed` from `OneRowPerName` (and from `DecisionStands`) |
| `onboarding.js:919` | feeds of a save that failed in part are never dealt | drop `unseen` from `CardsAreOfTheFeeds` |
| `onboarding.js:1078` | a recorded card shows a vote that was not written | drop `flipped` or `overtaken` from `RecordedIsWritten` |

The proofs use the exceptions in the same words, so each theorem says exactly what
else would have to go wrong.

## 6. What is proved

All proofs hold for every value of the constants that meets the named assumptions of
the modules (`...Assumption`). Most of those say that a bound is a natural number;
the ones with content are `MarginAssumption`, `KeepAssumption`, `ScanAssumption` and
`GapAssumption`, whose numbers section 3 gives, `IssuesAssumption` (issue 0 stands
for none), `AreasAssumption` (a name is not the name of a place of the code) and three
of the calendar: `ClockAssumption` (a schedule is two distinct hours of a day, which is
what `validate_schedule` lets through), `SkipAssumption` (the wall clock never falls
behind by more than one repeated hour at a time, and an hour it leaves out is no digest
hour) and `DaysAssumption` (it is never more than a day ahead). For the newsletters,
`LettersAssumption` asks for finitely many mails and links, and `NamesAssumption` says
what the code's strings make true: no newsletter source is an RSS one, and no link is
an issue's id or its synthetic URL.

**PagesManifestProofs**, for `~StampsCollide`. The invariant (`IInv`) says that every
row belongs to an offered manifest under its own stamp (`RowsOffered`); that an offer
with a row left in the table has every path stored, under its stamp or a later one
(`OffersWhole`); that a stamp names one offer; that what a saver sends was offered;
and that a delete that may still run finds a row it must leave (`LateDeletesSafe`).
`OneGeneration` is not inductive by itself: it says nothing of the rows under older
stamps, which a late upsert must not leave as the newest, nor of deletes still under
way. From it: `TypeCorrect`, `LoadIsOneGeneration`, `AnsweredStaysCurrent`, and
`TableImplementsRegister`, where an `Upsert` or a late one maps to `Replace` or to a
stutter, `ReadLatest` to `Offer`, and everything else to a stutter.

**DigestRunProofs**, for any set of faults. `IInv` joins the properties with: the
articles of a stored issue are decided (`IssuedDecided`), while those a run has chosen
are in no issue until it stores its own (`ChosenUnissued`) and are decided as
`update_states` gets to them (`ChosenDecided`); what it has still to write is pending
or a human's (`TodoPending`); a run under way is of a slot the ledger does not hold
(`RunNotDone`); and from the store on, the stored issue and then the page of its slot
are its own (`OwnIssue`). `OneIssuePerArticle` alone does not say why the articles of a
new issue are in no earlier one; `IssuedDecided` does, because a run loads pending rows
only. From it: `TypeCorrect`, `NoArticleTwice`, `OkMeansPublished`,
`OnlyReadersOverrule` and `DoneStays`. `AcceptedAreShown` (`AcceptedReachesReader`)
needs two facts more, that the slot of a run that stores is fresh and that what it
accepted it still holds, and two hypotheses: its writes do not fail, and no catch-up
follows. `digest_crash` and `digest_catch_up` show that both are needed.

**PublishSiteProofs**, for any issues, faults and tolerance. What makes the two
properties inductive is where the manifest a publish will save comes from:
it holds what the table held when it was loaded (`KeptIsLoaded`), the page that must
show is one of the new ones (`SlugIsNew`), a run's newest deployment is the last one
building or live with nothing building behind it, as far as the run knows
(`MineIsNewest`), and before a restore every link is in the manifest, live, and on every
deployment under way (`AllUp`).
`LossIsCounted` counts what a restore can cost: the site is untouched since, or a guard
that read the index has counted what was missing. From it: `TypeCorrect`,
`LinksStayGood`, `LossIsBounded`.

**VoteSyncProofs**. For `VoteIsKept`: what a sync pulled the KV still holds
(`PulledIsHeld`, the point where `MidSync` matters), the KV holds the last vote of its
URL (`KvIsCast`), and what the sync has come past is written (`PulledIsWritten`). For
`OneVotePerClick`: two recorded votes of a topic are never of one click (`Apart`), posts
under way are within their spread (`PostsInTime`), and the votes of a topic in the KV,
the pull and the store, with the posts under way, fit into as many short spans as there
were clicks (`Accounted`), from which the bound on their number follows. From them:
`TypeCorrect`, `VotesAreKept`, `ClicksCountOnce`. The last of these failed at first for a
reason, a late post after an opposite click; that is the exception `turned`.

**JudgingProofs**. `HoldsInv`: a run stays in its hour, holds end a clock after they
began, and what a run flagged was open and what it read as live was live, so that a new
hold of an article overlaps no old one. `PageInv`: an article is undecided until the
verdicts, from which every step of the stages is a stutter of `Judgement` and `Finish`
is its step. `RecordsInv`: what each saver has written so far (`SoFar`), with the rule
that a save deletes only rows of older stamps. `PlacesInv`, for `OnePlaceEach`: at each
stage an article of the skim lane is on the page, was in a call that was answered, or
is still to send (`NoneDropped`), so that a verdict finds none outside; the layout shows
what the sections name and gives no article two cards (`CardsOnce`); and what is rejected
was judged and is nowhere on the page (`RejectedAreJudged`). The work is in the
lists: a finite set has a list in any strict total order (`InItsOrder`), the run's order
and the order by score are such orders (`ListedIs`, `ByScoreIs`), so that the group that
leads and a card for each other article lose none and share none (`CardsAre`).
`TypesInv` joins these with the types of the records' rows (`RowsTyped`). From them:
`HoldsAreKept`, `HoldsKeepOut`, `PageImplementsJudgement`, `EachInOnePlace`,
`VotesFindTopics`, `FailuresKeepRecords`, `JudgingIsTyped`.

**OperationsProofs**. `LifecycleInv` (a container heard is one watched, or the monitor is
late), `BootInv` (what a boot has checked and recorded is in place, whatever another
boot does between two of its statements), `PassInv` (what the shell knows of its steps
at each of its places), `SiteInv` (what a publish loaded, and which pages were saved
since). From them: `TypeCorrect`, `BootsServe`, `AnswersAreOwn`, `RacesAlone`.

**ReaderProofs**.

* `RunsMeetTested`: `FormsInv` says that a probe calls what its form holds
  (`ProbeIsOfForm`), that a form under way counts as cut (`UnderWayIsCut`), and that what
  is stored of a form was tested as a whole (`StoredIsTested`).
* `LabelsKeepTheirVotes`: `LabelsInv` says that no stamp is ahead of the clock, that the
  rows of the latest draw stand whole beside what is left of earlier ones (`DrawsInv`),
  that an instant names one answer, and that an answer has its vote from the vote on
  (`VotesThere`). The attempt showed that `slipped` had to include the answers whose
  vote a slow copy of an earlier one takes back (`Overtaken`).
* `AreasKeepTheirWord`: `AreasInv` says that what a run, a rename and an assignment under
  way have read still holds when they write (`ReadStillHolds`; an area can leave
  "proposed" or "active" only through a handler of the one server), and that
  `last_seen_run` tells whether the run under way has named the area (`LastIsNamed`),
  without which `CountedOncePerRun` is not inductive. A name to be given a row is not in
  what its writer read (`known`, in `ReadStillHolds`): a row of that name met at the
  write is then another writer's, written since, and the name is in `crossed`, which is
  `OneRowPerName`. The rows keep what the reader decided (`RulingsHold`); with one row
  to a name, that is what the name means (`DecisionStands`).
* `CardsKeepTheirWord`: `CardsInv` says that the votes of a post the page waits for are
  those of its cards (`ShownAgree`) and those of every later post (`LaterSaysSame`), that
  an answered post is written (`DoneIsWritten`), and that a recorded card's vote is on
  its article with nothing newer to come (`RecordedStands`, by `Carries` and `ReadsOn`).
* `ReaderIsTyped`: the types those four invariants carry, the types of the votes from
  `VoteSyncProofs`, and the few they leave out (`FormsRest`, `LabelsRest`, `CardsRest`).

**IntakeProofs**. `SlipInv` says that polls write within `PollLimit` of their stamp, that
a run reads in its hour, that an entry not yet saved is either excused or still to be
read by a digest to come (`StillToRead`, where `GapAssumption` names that digest). From
it `NothingSlips`. `ReturnInv` adds that an entry nobody dated anew keeps the stamp it
came with (`AsItCame`), that what a run read was in its window (`ReadInWindow`), and that
a saved entry has its row for as long as any poll could write it again (`RowsFollow`,
where `KeepAssumption` and `ScanAssumption` keep that row in sight). From it
`NothingReturns`.

The calendar rests on one fact of arithmetic: `first_issue_key` is the latest publish
hour that has begun on the wall clock (`FirstIsLatest`, with `Begins` the hour a key
begins at), and a digest hour's own key is that hour's (`DueBegins`). `ClockInv` says
which hour a plan, a run and a wait are of: a run is asked for in the hour under way or
the one before, and what the wizard asks for is the issue of the hour it asked in.

* `WizardsIssueStands`: `StandInv` adds that the row of a kept issue is there for as long
  as a tick may ask for it, and that its hour has begun before any tick to come
  (`KeptHasRow`); that a tick plans a kept key, or one that is to be kept before the
  tick's run begins, only beside that key's run (`PlansBeside`); and that a tick's run has
  a kept key only so (`TicksLeaveKept`). No clock is excluded: the property itself
  excepts one that was set back.
* `RowsPassForTheirOwn`: `RowsInv` adds that every run is for the latest issue of the
  hour it was asked in (`OfTheLatest`), that a row is of the latest issue of its hour or
  of the hour before and that issue is stored (`RowsAreStored`), and that the wizard
  hears ok only then (`HeardIsStored`). Rows carry a period and no date, so the proof is
  that two hours in a row whose latest issues share a period share the issue; this is
  false when the clock leaves out a digest hour, hence `SkipAssumption`. Nothing is
  said once the publish hours have been moved, because then it is false: a reader who
  moves them between the page's plan and its start may let the page meet the run of
  another day's evening. TLC shows that for `WizardTellsTrue` without `moves = 0`, with a
  day of 6 hours and the schedules `<<1, 3>>` and `<<4, 5>>`.
* `IntakeIsTyped`: with `KeysInv`, the keys of issues are of days the model has.

`IssuesStoredOnce` is about what the merge and the save compute, and both are folds of
the library over sequences. The library defines a fold by a CHOOSE of a function that
meets its equations. `FoldExists` shows that there is one, by a least set size without
one (`LeastNat`, `AllNat`: induction stated for a set of numbers, which the provers can
instantiate where they cannot an operator). From it come `MergeFold` and `InsertFold`,
an invariant along the list, and from those:

* `MergedKeeps`: the merge keeps an article of every issue that no RSS article stands in
  for. Along the list, of each issue met so far either a newsletter of its id is kept,
  at its URL or as a sibling, or a copy of it has the URL of an RSS article met so far;
  this needs the newsletters to come before the feeds' articles (`NewslettersFirst`),
  as they do in the order `bootstrap.py` wires the sources.
* `RowsOK`: a URL has one row, and each row is of RSS or of an issue that came in,
  under its own URL or under the synthetic one beside a row of another title. So an
  issue's rows inject into the links of its copies (`RowsAsLinks`), which is
  `OneRowPerIssue`.
* `SavedKeeps`: a save leaves every article it gets to stored, or its URL with another
  source (`Settled`).
* `Carries`: a run has in hand an article of each issue it pulled and did not displace.
  `LettersInv` joins these; `NoIssueIsSwallowed` alone does not survive a save, since it
  says nothing of what the run holds.

Only model-checked, on the instances of section 4: `StoredIsPublished`,
`EveryRequestEnds` and `RacedPageReturns`, which are liveness under fairness and out of
the provers' reach.

## 7. Not modelled, and why

The map covers about a tenth of the lines. A third of the implementation is probe
scripts (`scripts/*_probe.py`), which drive a browser or a service and report; much of
the rest is text: prompts, parsing, rendering, mail, templates, the doctor and its
reports. No property here turns on them; what models and services answer is a free
choice.

Left out of components that are modelled, because they decide nothing another step
rests on: the order of entries by preference and the layers of the page; `feed_health`;
dry reruns and rerenders, which write nothing; the forms of the server that write one
validated row (schedule, notifications, mail, tracked topics, the order of areas);
notifications, each guarded and after the publish; sign-in, which keeps only caches.

Left out though they could matter, and named here so that nobody takes the theorems for
more than they say: an operator's plain `cyris run` beside a scheduled one; two
overlapping saves of the same issue's digest; two overlapping `labels draw`; a rename's
late copy; the deployment without vote similarity, where no hold is read or written;
the chunks of one INSERT of stories or topics, which the model takes as one statement,
the story row of a cluster of one article, and late or repeated statements of those
saves; a second save of the same sources while one is out; an operator's run after
midnight that counts as the missed hour's; the JSON store beyond its scan; the archive
pruning and the backfill, run by hand. Topic votes may be lost with a failed insert,
which the architecture accepts. The settings page's code in the browser is not modelled;
the wizard's is.
