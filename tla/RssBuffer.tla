-------------------------------- MODULE RssBuffer --------------------------------
(***************************************************************************)
(* The way of a feed's entry into the article store: polls of              *)
(* workers/rss/src/index.js write it into the buffer, a digest run reads   *)
(* the window of the buffer that ends when it starts and saves what it     *)
(* read (fetching.py, d1_store.py or article_store.py), and                *)
(* `cyris articles clean` deletes old rows.  The read is by time, without  *)
(* an acknowledgement, so everything rests on how the lengths fit: a poll, *)
(* the window, the time between digests, the retention, the dedup scan.    *)
(*                                                                         *)
(* Time is counted in units; Day of them make a day.  A poll stamps its    *)
(* rows when it starts and may write them up to PollLimit later.           *)
(***************************************************************************)
EXTENDS Integers, FiniteSets

CONSTANTS
  Entries,      \* URLs
  Dates,        \* bound: poller -> entry -> the dates a feed may give it in its polls
  Pollers,      \* the hourly cron, and POST /poll
  Horizon,      \* bound: the last instant
  Day,
  DigestTimes,  \* when a run starts
  Window,       \* digest_window_hours
  PollLimit,    \* how long a poll may take: feeds, writes, prune
  Batch,        \* rows of one D1 batch of a poll
  Retention,    \* RETENTION_DAYS of workers/rss/src/index.js
  ScanDays,     \* _DEDUP_SCAN_DAYS of article_store.py
  CleanAge,     \* --older-than of `cyris articles clean`
  Ceiling,      \* WORKER_ROW_CEILING
  Crashes       \* bound: runs that do not get to their save

Time == 0..Horizon

ASSUME LengthsAssumption ==
  /\ Horizon \in Nat /\ Window \in Nat /\ PollLimit \in Nat /\ Retention \in Nat
  /\ CleanAge \in Nat /\ Crashes \in Nat
  /\ DigestTimes \subseteq Time

(* Before the window of an entry is over, a digest begins after the poll   *)
(* that brought it: the digests lie closer than a window less a poll.      *)
ASSUME GapAssumption ==
  \A t \in Time :
    (\E d \in DigestTimes : d > t + Window) =>
      \E d \in DigestTimes : t + PollLimit < d /\ d <= t + Window

(* What a window reaches is kept: a window is at most 168 hours, the       *)
(* buffer is kept 8 days, and `articles clean` deletes after 30.           *)
ASSUME KeepAssumption == Window <= Retention /\ Window <= CleanAge

(* No instant lies before the first. *)
Cutoff(t) == IF t < Retention THEN 0 ELSE t - Retention
Never == -1
None == "none"

VARIABLES
  now,
  buffer,   \* entry -> its `fetched_at` in the Worker's table, Never when it has no row
  poll,     \* poller -> where its poll is, when it began, its cutoff, the rows it has
            \* yet to write, and (history) if another poll pruned by a later cutoff
  rows,     \* the article store: rows of an entry and its `first_seen_at`
  backend,  \* "d1": the URL is the primary key; "json": a scan of the last days
  run,      \* the digest run: where it is, when it began, what it read
  crashes,  \* runs that crashed or could not read the buffer
  entered,  \* history: entry -> when it first entered the buffer
  saved,    \* history: entries that were in the store
  excused,  \* history: entries a crashed run or the ceiling kept from a run
  ahead     \* history: entries their feed has dated after they entered the buffer, or
            \* an overtaken poll has written

history == <<entered, saved, excused, ahead>>
vars == <<now, buffer, poll, rows, backend, run, crashes, history>>

IdlePoll == [pc |-> "idle", stamp |-> Never, cutoff |-> Never, rows |-> {}, overtaken |-> FALSE]
IdleRun == [pc |-> "idle", before |-> Never, read |-> {}]

Init ==
  /\ now = 0
  /\ buffer = [e \in Entries |-> Never]
  /\ poll = [p \in Pollers |-> IdlePoll]
  /\ rows = {}
  /\ backend \in {"d1", "json"}
  /\ run = IdleRun
  /\ crashes = 0
  /\ entered = [e \in Entries |-> Never]
  /\ saved = {} /\ excused = {} /\ ahead = {}

-----------------------------------------------------------------------------
(* Around the components. *)

(* A poll is over before PollLimit is, and a run reads the buffer right    *)
(* after it starts; a digest time does not pass without its run.           *)
Tick ==
  /\ now < Horizon
  /\ \A p \in Pollers : poll[p].pc # "idle" => now < poll[p].stamp + PollLimit
  /\ run.pc = "idle"
  /\ now \in DigestTimes => run.before = now
  /\ now' = now + 1
  /\ UNCHANGED <<buffer, poll, rows, backend, run, crashes, history>>

-----------------------------------------------------------------------------
(* A poll of the Worker. *)

(* `fetchedAt` is taken first. *)
PollStart(p) ==
  /\ poll[p].pc = "idle"
  /\ poll' = [poll EXCEPT ![p] = [IdlePoll EXCEPT !.pc = "fetch", !.stamp = now]]
  /\ UNCHANGED <<now, buffer, rows, backend, run, crashes, history>>

(* Mutant: what the feed dates past the retention is written all the same. *)
FreshOfAll(S, cutoff) == S

(* The rows the feed dates inside the retention. *)
Fresh(S, cutoff) == {r \in S : r[2] >= cutoff}

(* A feed lists what it likes, with whatever dates it gives its entries    *)
(* now, or fails and lists nothing.  The cutoff is the clock's of now.     *)
PollFetched(p) ==
  \E listed \in SUBSET Entries :
    \E date \in [listed -> Time] :
      LET cutoff == Cutoff(now) IN
      /\ poll[p].pc = "fetch"
      /\ \A e \in listed : date[e] \in Dates[p][e]
      /\ poll' = [poll EXCEPT ![p] =
                    [@ EXCEPT !.pc = "write", !.cutoff = cutoff,
                              !.rows = Fresh({<<e, date[e]>> : e \in listed}, cutoff)]]
      /\ UNCHANGED <<now, buffer, rows, backend, run, crashes, history>>

(* One batch: INSERT OR IGNORE, with the stamp of the poll's start.        *)
PollWrite(p) ==
  \E batch \in SUBSET poll[p].rows :
    LET new == {r[1] : r \in {x \in batch : buffer[x[1]] = Never}} IN
    /\ poll[p].pc = "write"
    /\ batch # {}
    /\ Cardinality(batch) = Batch \/ (batch = poll[p].rows /\ Cardinality(batch) < Batch)
    /\ buffer' = [e \in Entries |-> IF e \in new THEN poll[p].stamp ELSE buffer[e]]
    /\ poll' = [poll EXCEPT ![p].rows = @ \ batch]
    /\ entered' = [e \in Entries |->
                     IF e \in new /\ entered[e] = Never THEN poll[p].stamp ELSE entered[e]]
    /\ ahead' = ahead \cup {r[1] : r \in {x \in batch : \/ x[2] > entered'[x[1]]
                                                      \/ poll[p].overtaken}}
    /\ UNCHANGED <<now, rows, backend, run, crashes, saved, excused>>

(* DELETE FROM articles WHERE fetched_at < cutoff, and the poll is over.   *)
PollPrune(p) ==
  /\ poll[p].pc = "write"
  /\ poll[p].rows = {}
  /\ buffer' = [e \in Entries |-> IF buffer[e] < poll[p].cutoff THEN Never ELSE buffer[e]]
  /\ poll' = [q \in Pollers |->
                IF q = p THEN IdlePoll
                ELSE [poll[q] EXCEPT !.overtaken = @ \/ (poll[q].pc = "write"
                                                         /\ poll[q].cutoff < poll[p].cutoff)]]
  /\ UNCHANGED <<now, rows, backend, run, crashes, history>>

(* A batch fails or the Worker is stopped: what is written stays.          *)
PollDies(p) ==
  /\ poll[p].pc # "idle"
  /\ poll' = [poll EXCEPT ![p] = IdlePoll]
  /\ UNCHANGED <<now, buffer, rows, backend, run, crashes, history>>

-----------------------------------------------------------------------------
(* A digest run, as far as the save. *)

RunStart ==
  /\ now \in DigestTimes
  /\ run.pc = "idle" /\ run.before # now
  /\ run' = [pc |-> "read", before |-> now, read |-> {}]
  /\ UNCHANGED <<now, buffer, poll, rows, backend, crashes, history>>

(* Mutant: the window is only as long as the time between two digests. *)
InShortWindow(e) ==
  buffer[e] # Never /\ buffer[e] >= run.before - Window \div 2 /\ buffer[e] < run.before

(* GET /articles: fetched_at >= after AND fetched_at < before. *)
InWindow(e) == buffer[e] # Never /\ buffer[e] >= run.before - Window /\ buffer[e] < run.before

(* ORDER BY fetched_at DESC LIMIT: of equal stamps any may be left out.    *)
Newest(S) ==
  {T \in SUBSET S :
     /\ Cardinality(T) = IF Cardinality(S) < Ceiling THEN Cardinality(S) ELSE Ceiling
     /\ \A e \in T, f \in S \ T : buffer[e] >= buffer[f]}

RunRead ==
  LET windowed == {e \in Entries : InWindow(e)} IN
  \E read \in Newest(windowed) :
    /\ run.pc = "read"
    /\ run' = [run EXCEPT !.pc = "save", !.read = read]
    /\ excused' = excused \cup (windowed \ read)
    /\ UNCHANGED <<now, buffer, poll, rows, backend, crashes, entered, saved, ahead>>

DayOf(t) == t \div Day

(* The JSON store scans as far back as a window: 8 days.                   *)
ASSUME ScanAssumption ==
  \A t, later \in Time : later < t + Window => DayOf(t) > DayOf(later) - ScanDays

(* What `save` recognises as stored: D1 every row, the JSON store those of *)
(* today and the days before it.                                           *)
Recognised ==
  {r[1] : r \in {x \in rows : backend = "json" => DayOf(x[2]) > DayOf(now) - ScanDays}}

RunSave ==
  /\ run.pc = "save"
  /\ rows' = rows \cup {<<e, now>> : e \in run.read \ Recognised}
  /\ saved' = saved \cup run.read
  /\ run' = [run EXCEPT !.pc = "idle", !.read = {}]
  /\ UNCHANGED <<now, buffer, poll, backend, crashes, entered, excused, ahead>>

(* The read fails, or the run and its catch-ups are killed before a save.  *)
RunCrash ==
  /\ run.pc # "idle"
  /\ crashes < Crashes
  /\ crashes' = crashes + 1
  /\ excused' = excused \cup {e \in Entries : InWindow(e)}
  /\ run' = [run EXCEPT !.pc = "idle", !.read = {}]
  /\ UNCHANGED <<now, buffer, poll, rows, backend, entered, saved, ahead>>

(* `delete_articles`: rows no human stamped, first seen before the cutoff. *)
Clean ==
  \E judged \in SUBSET {r \in rows : r[2] < now - CleanAge} :
    /\ judged # {}
    /\ rows' = rows \ judged
    /\ UNCHANGED <<now, buffer, poll, backend, run, crashes, history>>

Next ==
  \/ Tick
  \/ \E p \in Pollers : PollStart(p) \/ PollFetched(p) \/ PollWrite(p) \/ PollPrune(p) \/ PollDies(p)
  \/ RunStart \/ RunRead \/ RunSave \/ RunCrash
  \/ Clean

Spec == Init /\ [][Next]_vars

-----------------------------------------------------------------------------
TypeOK ==
  /\ now \in Time
  /\ buffer \in [Entries -> {Never} \cup Time]
  /\ poll \in [Pollers -> [pc : {"idle", "fetch", "write"}, stamp : {Never} \cup Time,
                           cutoff : {Never} \cup Time, rows : SUBSET (Entries \X Time),
                           overtaken : BOOLEAN]]
  /\ rows \subseteq Entries \X Time
  /\ backend \in {"d1", "json"}
  /\ run \in [pc : {"idle", "read", "save"}, before : {Never} \cup Time,
              read : SUBSET Entries]
  /\ crashes \in 0..Crashes
  /\ entered \in [Entries -> {Never} \cup Time]
  /\ saved \subseteq Entries /\ excused \subseteq Entries /\ ahead \subseteq Entries

(* The next instant a run starts, if its run has not started now. *)
Ahead(t) == {d \in DigestTimes : d > t \/ (d = t /\ run.before # t)}

(* No later run's window reaches the entry any more, and none is reading.  *)
Unreachable(e) ==
  /\ run.pc = "idle"
  /\ Ahead(now) # {}
  /\ buffer[e] # Never => \A d \in Ahead(now) : buffer[e] < d - Window

(* Every entry that came into the buffer is saved before it is pruned and  *)
(* before the windows leave it behind, however late its poll wrote it and  *)
(* whichever of two polls did, unless a run crashed or the row ceiling     *)
(* kept it from one (rss/src/index.js, the stamp of a poll's start;        *)
(* docs/architecture.md 3.1).                                              *)
SlipsOnlyByFault ==
  \A e \in Entries :
    entered[e] # Never /\ e \notin saved /\ Unreachable(e) => e \in excused

(* An entry is stored once.  It comes back, into a second issue, only when *)
(* its feed dates it after it entered the buffer, or when of two polls at  *)
(* once one prunes by a cutoff later than the one the other has selected   *)
(* by: not from the buffer once `articles clean` deleted the row, not from *)
(* a feed that still lists it after the prune, not past the end of the     *)
(* JSON store's scan.                                                      *)
ReturnsOnlyIfRedated ==
  [][\A r \in rows' \ rows : r[1] \in saved => r[1] \in ahead]_vars
=============================================================================
