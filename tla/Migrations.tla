----------------------------- MODULE Migrations -----------------------------
(***************************************************************************)
(* The boot of a container against the database: schema.sql, then the      *)
(* versioned steps (d1.py, apply_schema; migrations.py).  The ui and the   *)
(* run container may boot together, a statement may fail or be run twice   *)
(* by the client's retry, and a boot may be killed between two statements; *)
(* a container whose boot failed boots again.                              *)
(***************************************************************************)
EXTENDS Naturals, Sequences

CONSTANTS Containers,   \* those that boot against this database
          Faults        \* bound: failing, repeated or cut requests

VARIABLES db,      \* the database
          boot,    \* each container's boot
          faults   \* faults so far

vars == <<db, boot, faults>>
-----------------------------------------------------------------------------
Words == {"sources", "articles"}        \* where a lane's word is kept

\* MIGRATIONS, and the statements of each step.
Steps == <<"lane", "image">>
(* Mutant: the rename first. *)
ScriptRenamesFirst == [lane |-> <<"rename", "sources", "articles">>, image |-> <<"add">>]

Script == [lane |-> <<"sources", "articles", "rename">>, image |-> <<"add">>]

Pending(c) == Steps[boot[c].step]

(* tier, image: the columns source_tier and image_url of stored_articles;  *)
(* old: the tables whose rows may carry the old words.                     *)
Databases == [exists : BOOLEAN, tier : BOOLEAN, image : BOOLEAN,
              old : SUBSET Words, recorded : SUBSET {"lane", "image"}]

Fresh  == [exists |-> FALSE, tier |-> FALSE, image |-> FALSE, old |-> {}, recorded |-> {}]
Oldest == [exists |-> TRUE, tier |-> TRUE, image |-> FALSE, old |-> Words, recorded |-> {}]
NoImage == [exists |-> TRUE, tier |-> FALSE, image |-> FALSE, old |-> {}, recorded |-> {"lane"}]

TypeOK ==
    /\ db \in Databases
    /\ boot \in [Containers ->
           [at : {"schema", "list", "check", "run", "recheck", "record", "up", "down"},
            step : 1 .. Len(Steps), done : 0 .. 3,
            applied : SUBSET {"lane", "image"}, hit : BOOLEAN]]
    /\ faults \in 0 .. Faults

Start == [at |-> "schema", step |-> 1, done |-> 0, applied |-> {}, hit |-> FALSE]

Init ==
    /\ db \in {Fresh, Oldest, NoImage}
    /\ boot = [c \in Containers |-> Start]
    /\ faults = 0
-----------------------------------------------------------------------------
(* schema.sql creates what is missing and leaves a table alone.            *)
Created == IF db.exists THEN db ELSE [db EXCEPT !.exists = TRUE, !.image = TRUE]

(* _holds: the column of `requires` is there, or is not.                   *)
Holds(step) == CASE step = "lane"  -> db.exists /\ db.tier
                 [] step = "image" -> db.exists /\ ~db.image

(* A statement that names a column must find it, or must not.              *)
Runs(statement) == CASE statement = "sources"              -> TRUE
                     [] statement \in {"articles", "rename"} -> db.tier
                     [] statement = "add"                  -> ~db.image

After(statement) ==
    CASE statement \in Words    -> [db EXCEPT !.old = @ \ {statement}]
      [] statement = "rename"   -> [db EXCEPT !.tier = FALSE]
      [] statement = "add"      -> [db EXCEPT !.image = TRUE]

Goes(c, place) == boot' = [boot EXCEPT ![c].at = place]
-----------------------------------------------------------------------------
Schema(c) ==
    /\ boot[c].at = "schema"
    /\ db' = Created
    /\ Goes(c, "list")
    /\ UNCHANGED faults

(* The ids recorded are read once, before the first step.                  *)
List(c) ==
    /\ boot[c].at = "list"
    /\ boot' = [boot EXCEPT ![c] = [@ EXCEPT !.at = "check", !.applied = db.recorded]]
    /\ UNCHANGED <<db, faults>>

(* Mutant: no end after the last step. *)
AdvancedOnly(b) == [b EXCEPT !.at = "check", !.step = @ + 1, !.done = 0]

(* On to the next step, or the boot is over.                               *)
Advanced(b) == IF b.step = Len(Steps) THEN [b EXCEPT !.at = "up"]
               ELSE [b EXCEPT !.at = "check", !.step = @ + 1, !.done = 0]

Check(c) ==
    /\ boot[c].at = "check"
    /\ IF Pending(c) \in boot[c].applied
       THEN boot' = [boot EXCEPT ![c] = Advanced(@)]
       ELSE Goes(c, IF Holds(Pending(c)) THEN "run" ELSE "record")
    /\ UNCHANGED <<db, faults>>

(* The next statement of the step's script, in one request with the others.*)
Statement(c) ==
    /\ boot[c].at = "run"
    /\ LET script == Script[Pending(c)]
           next == script[boot[c].done + 1]
       IN  IF ~Runs(next)
           THEN Goes(c, "recheck") /\ UNCHANGED db
           ELSE /\ db' = After(next)
                /\ boot' = [boot EXCEPT ![c] =
                       [boot[c] EXCEPT !.done = @ + 1,
                                       !.at = IF next = script[Len(script)] THEN "record" ELSE "run"]]
    /\ UNCHANGED faults

(* The script failed: a precondition that no longer holds means the step   *)
(* is in place; one that still holds ends the boot.                        *)
Recheck(c) ==
    /\ boot[c].at = "recheck"
    /\ Goes(c, IF Holds(Pending(c)) THEN "down" ELSE "record")
    /\ UNCHANGED <<db, faults>>

Record(c) ==
    /\ boot[c].at = "record"
    /\ db' = [db EXCEPT !.recorded = @ \cup {Pending(c)}]
    /\ boot' = [boot EXCEPT ![c] = Advanced(@)]
    /\ UNCHANGED faults
-----------------------------------------------------------------------------
Booting(c) == boot[c].at \notin {"up", "down"}

Faulty(c, b) ==
    /\ faults < Faults
    /\ faults' = faults + 1
    /\ boot' = [boot EXCEPT ![c] = b]
    /\ UNCHANGED db

(* A request fails for good: any but the script's ends the boot at once.   *)
RequestFails(c) ==
    /\ Booting(c)
    /\ Faulty(c, [boot[c] EXCEPT !.at = IF @ = "run" THEN "recheck" ELSE "down", !.hit = TRUE])

(* The answer of a script is lost, and the client sends it once more.      *)
Resend(c) ==
    /\ boot[c].at = "run" \/ (boot[c].at = "record" /\ boot[c].done > 0)
    /\ Faulty(c, [boot[c] EXCEPT !.at = "run", !.done = 0])

Kill(c) ==
    /\ Booting(c)
    /\ Faulty(c, [boot[c] EXCEPT !.at = "down", !.hit = TRUE])

(* The container is started again.                                         *)
Again(c) ==
    /\ boot[c].at = "down"
    /\ boot' = [boot EXCEPT ![c] = Start]
    /\ UNCHANGED <<db, faults>>

Boot(c) == Schema(c) \/ List(c) \/ Check(c) \/ Statement(c) \/ Recheck(c) \/ Record(c) \/ Again(c)

Next == \E c \in Containers : Boot(c) \/ RequestFails(c) \/ Resend(c) \/ Kill(c)

Spec == Init /\ [][Next]_vars
-----------------------------------------------------------------------------
(* A container that has booted works on the shape its build expects: no    *)
(* column of the old shape, none missing, and no row with an old word,     *)
(* whatever cut the steps short before.                                    *)
ServesItsShape ==
    \A c \in Containers : boot[c].at = "up" => /\ ~db.tier
                                               /\ db.image
                                               /\ db.old = {}

(* Two containers that cold-start together do not abort each other's boot: *)
(* a boot ends only by a failing request or a kill of its own, and neither *)
(* by the other's statements nor by its own, sent twice (apply_steps:      *)
(* "record it instead of aborting boot").                                  *)
RaceNeverAborts == \A c \in Containers : boot[c].at = "down" => boot[c].hit
=============================================================================
