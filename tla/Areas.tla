-------------------------------- MODULE Areas --------------------------------
(***************************************************************************)
(* The reader's areas in D1 (adapters/store/areas.py, domain/areas.py):    *)
(* proposed by runs (`record_proposals`) and by the model the settings     *)
(* page asks (`_handle_propose_areas`), confirmed, dismissed, merged and   *)
(* renamed there, and given to sources (triage_server.py).  The server's   *)
(* handlers run one at a time but for the one that awaits a model; a run   *)
(* writes beside them, one statement at a time.                            *)
(*                                                                         *)
(* Two spellings are one name when they differ in Unicode case only        *)
(* (`fold_name`); the UNIQUE index of the table folds ASCII letters alone  *)
(* (schema.sql, COLLATE NOCASE).                                           *)
(***************************************************************************)
EXTENDS Integers, FiniteSets, SequencesExt, D1Calls

CONSTANTS
  Names,       \* spellings
  Fold,        \* spelling -> the name it spells
  Unplaced,    \* spellings of the page's own label "Other"
  SourceNames,
  Runs,        \* bound: runs, one after another
  MaxAreas,    \* bound: rows
  MaxAsked,    \* bound: requests that await the model
  Acts,        \* bound: requests of the settings page
  Mishaps      \* bound: statements that are not simply done

(* The index tells the spellings apart that `Names` does: those that       *)
(* differ in ASCII case only are one member of it.                         *)
NoArea == 0

VARIABLES
  areas,    \* the table, by id: [name, status, into, issues, last]
  source,   \* source -> `area_id`
  run,      \* the run: [pc, id, counts, match, known], `counts` the names it may still record
  asked,    \* the requests that await the model: [unknown, known]
  rename,   \* the rename between its check and its UPDATE: [id, name, known]
  bulk,     \* the assignment under way: its area, the sources still to write
  acts,     \* so far
  mishaps,
  named,    \* history: area -> the runs that named it
  ruled,    \* history: area -> what the reader decided on it
  crossed,  \* history: names given a row that another writer gave one since the reading
  repeated  \* history: areas a resent UPDATE counted twice

(* `known` is history, too: the names that had rows in what the writer     *)
(* read, whatever it then took from its reading.                           *)

server == <<rename, bulk, acts>>
history == <<named, ruled, crossed, repeated>>
vars == <<areas, source, run, asked, server, mishaps, history>>

NoRename == [id |-> NoArea, name |-> "none", known |-> {}]
NoBulk == [id |-> NoArea, left |-> {}]
NoRun == [pc |-> "idle", id |-> 0, counts |-> {}, match |-> NoArea, known |-> {}]

Init ==
  /\ areas = <<>> /\ source = [s \in SourceNames |-> NoArea]
  /\ run = NoRun /\ asked = {} /\ rename = NoRename /\ bulk = NoBulk /\ acts = 0 /\ mishaps = 0
  /\ named = <<>> /\ ruled = <<>> /\ crossed = {} /\ repeated = {}

(* A first copy that runs late is left out: of an INSERT and of a decision *)
(* it finds the work done, of a count it is a resent one; of a rename it   *)
(* would take back a later one, which is not modelled.                     *)
Suffer(fate) ==
  /\ fate # "late"
  /\ fate # "done" => mishaps < Mishaps
  /\ mishaps' = IF fate = "done" THEN mishaps ELSE mishaps + 1

ServerFree == rename = NoRename /\ bulk = NoBulk

Request ==
  /\ ServerFree /\ acts < Acts
  /\ acts' = acts + 1

-----------------------------------------------------------------------------
(* domain/areas.py. *)

(* Mutant: a name is matched as it is spelt. *)
MatchesSpelt(name) == {i \in DOMAIN areas : areas[i].name = name}

Matches(name) == {i \in DOMAIN areas : Fold[areas[i].name] = Fold[name]}
First(ids) == CHOOSE i \in ids : \A j \in ids : i <= j

(* `AreaCatalog.place`: what a name means. *)
Place(name) ==
  IF Matches(name) = {} THEN "unknown"
  ELSE LET area == areas[First(Matches(name))]
       IN  IF area.status # "merged" THEN area.status
           ELSE IF areas[area.into].status = "active" THEN "active" ELSE "dismissed"

Proposed(name, issues, last) ==
  [name |-> name, status |-> "proposed", into |-> NoArea, issues |-> issues, last |-> last]

(* The index refuses a second row of the same spelling. *)
Free(names) == \A i \in DOMAIN areas : areas[i].name \notin names

(* The names the rows have, but for one row. *)
HeldBeside(i) == {Fold[areas[j].name] : j \in DOMAIN areas \ {i}}

(* Of the names a writer gives rows, those that another writer gave one    *)
(* between this writer's reading and its write.                            *)
Crosses(names, i, known) == ({Fold[n] : n \in names} \cap HeldBeside(i)) \ known

-----------------------------------------------------------------------------
(* A run: `proposal_counts` on the areas it loaded when it began, then     *)
(* `record_proposals` name by name.                                        *)

(* Which of the names it may count the model suggested is left open until  *)
(* they are recorded; an active, merged or dismissed one is not counted.   *)
RunStart ==
  /\ run.pc = "idle" /\ run.id < Runs
  /\ run' = [NoRun EXCEPT !.pc = "names", !.id = run.id + 1,
                !.counts = {n \in Names \ Unplaced : Place(n) \in {"proposed", "unknown"}}]
  /\ UNCHANGED <<areas, source, asked, server, mishaps, history>>

(* The row by that name, as its SELECT finds it: only a proposal takes     *)
(* counts, and a name no row has becomes one.                              *)
RunReads(name) ==
  /\ run.pc = "names" /\ name \in run.counts
  /\ LET match == IF Matches(name) = {} THEN NoArea ELSE First(Matches(name))
         decided == match # NoArea /\ areas[match].status # "proposed"
     IN  run' = IF decided THEN [run EXCEPT !.counts = @ \ {name}]
                ELSE [run EXCEPT !.pc = name, !.match = match, !.known = HeldBeside(NoArea)]
  /\ UNCHANGED <<areas, source, asked, server, mishaps, history>>

(* The rest of the names is not recorded once a statement raises. *)
RunAfter(name, raised) ==
  run' = [run EXCEPT !.pc = "names", !.match = NoArea, !.known = {},
            !.counts = IF raised THEN {} ELSE @ \ {name}]

(* A second copy of the INSERT hits the row of the first and is rejected. *)
RunInserts(name, fate) ==
  /\ run.pc = name /\ run.match = NoArea /\ Suffer(fate) /\ Len(areas) < MaxAreas
  /\ LET lands == Ran(fate) /\ Free({name})
     IN  /\ areas' = IF lands THEN Append(areas, Proposed(name, 1, run.id)) ELSE areas
         /\ named' = IF lands THEN Append(named, {run.id}) ELSE named
         /\ ruled' = IF lands THEN Append(ruled, "none") ELSE ruled
         /\ crossed' = IF lands THEN crossed \cup Crosses({name}, NoArea, run.known) ELSE crossed
         /\ RunAfter(name, fate # "done" \/ ~lands)
  /\ UNCHANGED <<source, asked, server, repeated>>

Counted(area, times) ==
  LET due == IF run.id = area.last THEN 0 ELSE 1
  IN  [area EXCEPT !.issues = @ + times * due, !.last = run.id]

(* The UPDATE adds what its SELECT found to be due, a resent one twice. *)
RunUpdates(name, fate) ==
  /\ run.pc = name /\ run.match # NoArea /\ Suffer(fate)
  /\ areas' = CASE fate = "refused" -> areas
               [] fate = "resent" -> [areas EXCEPT ![run.match] = Counted(@, 2)]
               [] OTHER -> [areas EXCEPT ![run.match] = Counted(@, 1)]
  /\ repeated' = IF fate = "resent" THEN repeated \cup {run.match} ELSE repeated
  /\ named' = IF Ran(fate) THEN [named EXCEPT ![run.match] = @ \cup {run.id}] ELSE named
  /\ RunAfter(name, Raises(fate))
  /\ UNCHANGED <<source, asked, server, ruled, crossed>>

RunEnds ==
  /\ run.pc = "names"
  /\ run' = [NoRun EXCEPT !.id = run.id]
  /\ UNCHANGED <<areas, source, asked, server, mishaps, history>>

-----------------------------------------------------------------------------
(* The settings page: what a reader decides, each by one conditional       *)
(* UPDATE that a proposal alone meets.                                     *)

IsProposed(i) == i \in DOMAIN areas /\ areas[i].status = "proposed"
IsActive(i) == i \in DOMAIN areas /\ areas[i].status = "active"

(* A merged name means the area it went into. *)
Ruling(status) == IF status = "merged" THEN "active" ELSE status

Decide(i, status, into, fate) ==
  /\ Request /\ IsProposed(i) /\ Suffer(fate)
  /\ areas' = IF Ran(fate) THEN [areas EXCEPT ![i].status = status, ![i].into = into] ELSE areas
  /\ ruled' = IF Ran(fate) THEN [ruled EXCEPT ![i] = Ruling(status)] ELSE ruled
  /\ UNCHANGED <<source, run, asked, rename, bulk, named, crossed, repeated>>

Activate(i, fate) ==
  /\ IsProposed(i) => areas[i].name \notin Unplaced
  /\ Decide(i, "active", NoArea, fate)
Dismiss(i, fate) == Decide(i, "dismissed", NoArea, fate)
Merge(i, into, fate) == IsActive(into) /\ Decide(i, "merged", into, fate)

(* `_handle_rename_area`: no other row may have the name, whatever its     *)
(* status; the UPDATE is a statement of its own.                           *)
RenameChecks(i, name) ==
  /\ Request /\ i \in DOMAIN areas /\ name \notin Unplaced
  /\ Matches(name) \subseteq {i}
  /\ rename' = [id |-> i, name |-> name, known |-> HeldBeside(i)]
  /\ UNCHANGED <<areas, source, run, asked, bulk, mishaps, history>>

RenameWrites(fate) ==
  /\ rename # NoRename /\ Suffer(fate)
  /\ LET lands == Ran(fate) /\ \A i \in DOMAIN areas \ {rename.id} : areas[i].name # rename.name
     IN  /\ areas' = IF lands THEN [areas EXCEPT ![rename.id].name = rename.name] ELSE areas
         /\ crossed' = IF lands
                         THEN crossed \cup Crosses({rename.name}, rename.id, rename.known)
                         ELSE crossed
  /\ rename' = NoRename
  /\ UNCHANGED <<source, run, asked, bulk, acts, named, ruled, repeated>>

(* `_handle_propose_areas`, to the call of the model. *)
ProposeReads ==
  /\ Request /\ Cardinality(asked) < MaxAsked
  /\ asked' = asked \cup {[unknown |-> {n \in Names : Place(n) = "unknown"},
                          known |-> HeldBeside(NoArea)]}
  /\ UNCHANGED <<areas, source, run, rename, bulk, mishaps, history>>

(* The reply is placed among the areas read before the call, and its new   *)
(* names go in by one INSERT.  `propose_areas` has united the spellings of *)
(* a name.                                                                 *)
ProposeWrites(ask, reply, fate) ==
  /\ ServerFree /\ ask \in asked
  /\ \A m, n \in reply : Fold[m] = Fold[n] => m = n
  /\ asked' = asked \ {ask}
  /\ LET new == (reply \cap ask.unknown) \ Unplaced
     IN  /\ Len(areas) + Cardinality(new) <= MaxAreas
         /\ IF new = {}
              THEN fate = "done" /\ UNCHANGED <<areas, named, ruled, crossed, mishaps>>
              ELSE /\ Suffer(fate)
                   /\ IF Ran(fate) /\ Free(new)
                        THEN \E rows \in SetToSeqs(new) :
                               /\ areas' = areas \o [k \in DOMAIN rows |->
                                                      Proposed(rows[k], 0, 0)]
                               /\ named' = named \o [k \in DOMAIN rows |-> {}]
                               /\ ruled' = ruled \o [k \in DOMAIN rows |-> "none"]
                               /\ crossed' = crossed \cup Crosses(new, NoArea, ask.known)
                        ELSE UNCHANGED <<areas, named, ruled, crossed>>
  /\ UNCHANGED <<source, run, server, repeated>>

ProposeFails(ask) ==
  /\ ask \in asked /\ asked' = asked \ {ask}
  /\ UNCHANGED <<areas, source, run, server, mishaps, history>>

(* `_handle_bulk_assign`, with one area or none; `_handle_assign_sources`  *)
(* and a source saved with its area are the cases of an active one.  All   *)
(* is checked before the first statement.                                  *)
BulkStarts(i, names) ==
  /\ Request /\ names # {}
  /\ i = NoArea \/ IsActive(i) \/ (IsProposed(i) /\ areas[i].name \notin Unplaced)
  /\ bulk' = [id |-> i, left |-> names]
  /\ UNCHANGED <<areas, source, run, asked, rename, mishaps, history>>

BulkActivates(fate) ==
  /\ bulk # NoBulk /\ IsProposed(bulk.id) /\ Suffer(fate)
  /\ areas' = IF Ran(fate) THEN [areas EXCEPT ![bulk.id].status = "active"] ELSE areas
  /\ ruled' = IF Ran(fate) THEN [ruled EXCEPT ![bulk.id] = "active"] ELSE ruled
  /\ bulk' = IF Raises(fate) THEN NoBulk ELSE bulk
  /\ UNCHANGED <<source, run, asked, rename, acts, named, crossed, repeated>>

BulkWrites(s, fate) ==
  /\ bulk # NoBulk /\ ~IsProposed(bulk.id) /\ s \in bulk.left /\ Suffer(fate)
  /\ source' = IF Ran(fate) THEN [source EXCEPT ![s] = bulk.id] ELSE source
  /\ bulk' = IF Raises(fate) \/ bulk.left = {s} THEN NoBulk
             ELSE [bulk EXCEPT !.left = @ \ {s}]
  /\ UNCHANGED <<areas, run, asked, rename, acts, history>>

(* The ui container is replaced: what it was doing is gone. *)
Kill ==
  /\ ~ServerFree /\ mishaps < Mishaps
  /\ mishaps' = mishaps + 1 /\ rename' = NoRename /\ bulk' = NoBulk /\ asked' = {}
  /\ UNCHANGED <<areas, source, run, acts, history>>

Ids == 1..MaxAreas

Next ==
  \/ RunStart \/ RunEnds \/ ProposeReads \/ Kill
  \/ \E name \in Names : RunReads(name)
  \/ \E name \in Names, fate \in Fates : RunInserts(name, fate) \/ RunUpdates(name, fate)
  \/ \E i \in Ids, fate \in Fates : Activate(i, fate) \/ Dismiss(i, fate)
  \/ \E i, into \in Ids, fate \in Fates : Merge(i, into, fate)
  \/ \E i \in Ids, name \in Names : RenameChecks(i, name)
  \/ \E fate \in Fates : RenameWrites(fate) \/ BulkActivates(fate)
  \/ \E ask \in asked, reply \in SUBSET Names, fate \in Fates : ProposeWrites(ask, reply, fate)
  \/ \E ask \in asked : ProposeFails(ask)
  \/ \E i \in Ids \cup {NoArea}, names \in SUBSET SourceNames : BulkStarts(i, names)
  \/ \E s \in SourceNames, fate \in Fates : BulkWrites(s, fate)

Spec == Init /\ [][Next]_vars

-----------------------------------------------------------------------------
TypeOK ==
  /\ \A i \in DOMAIN areas :
       /\ areas[i].name \in Names
       /\ areas[i].status \in {"proposed", "active", "dismissed", "merged"}
       /\ areas[i].into \in Ids \cup {NoArea} /\ areas[i].last \in 0..Runs
  /\ Len(areas) <= MaxAreas /\ DOMAIN named = DOMAIN areas /\ DOMAIN ruled = DOMAIN areas
  /\ source \in [SourceNames -> Ids \cup {NoArea}]
  /\ run.pc \in {"idle", "names"} \cup Names
  /\ mishaps \in 0..Mishaps

(* A name is one row: `fold_name` is asked of all rows before a name gets  *)
(* one.  Excepted is the name that another writer gave a row between the   *)
(* reading and the write, in a case that the index tells apart             *)
(* (schema.sql: "a suggestion can never name two rows").                   *)
OneRowPerName ==
  \A i, j \in DOMAIN areas :
    Fold[areas[i].name] = Fold[areas[j].name] /\ Fold[areas[i].name] \notin crossed => i = j

(* What the reader decided on an area is what its name means ever after,   *)
(* however runs, renames and proposals go on (domain/areas.py, `place`;    *)
(* `dismiss`, "so its name is not proposed again").                        *)
DecisionStands ==
  \A i \in DOMAIN areas :
    ruled[i] # "none" /\ Fold[areas[i].name] \notin crossed => Place(areas[i].name) = ruled[i]

(* What a source or a merged name leads to is an area the page shows,      *)
(* however an assignment ended (`_handle_bulk_assign`, `merge`).           *)
LeadsToActive ==
  /\ \A s \in SourceNames : source[s] # NoArea => IsActive(source[s])
  /\ \A i \in DOMAIN areas : areas[i].status = "merged" => IsActive(areas[i].into)

(* A run counts once toward a proposal, whatever spellings it used and     *)
(* wherever it stopped, unless D1 ran an UPDATE twice (`record_proposals`, *)
(* "a run counts once toward a proposal's issues").                        *)
CountedOncePerRun ==
  \A i \in DOMAIN areas \ repeated : areas[i].issues = Cardinality(named[i])

AreasAgree == OneRowPerName /\ DecisionStands /\ LeadsToActive /\ CountedOncePerRun
=============================================================================
