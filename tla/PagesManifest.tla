------------------------------ MODULE PagesManifest ------------------------------
(***************************************************************************)
(* The table `pages_manifest` of adapters/output/pages_manifest.py: the    *)
(* path -> hash map of the deployed site, replaced wholesale by `save` in  *)
(* three statements (read the newest stamp, upsert, delete the older rows) *)
(* and read by `load`.  Several runs may save at once; each statement      *)
(* travels through `D1Client.query`, which repeats a request whose answer  *)
(* was lost, and a request given up on may still run later.                *)
(*                                                                         *)
(* A stamp is a number; 0 stands for no row.  The clock is free: it may    *)
(* repeat or step back, so the stamp a save draws is any one later than    *)
(* every stored row.  StampsCollide says whether two saves that read the   *)
(* same newest stamp may draw the same one (they do when both clocks read  *)
(* no later than it, or read the same microsecond).                        *)
(***************************************************************************)
EXTENDS Naturals, FiniteSets

CONSTANTS
  Paths,          \* the files of the site
  Hashes,         \* what a file's bytes may hash to
  Offers,         \* the manifests the runs save
  Savers,         \* the runs that save manifests
  Stamps,         \* the stamps the clock can produce
  MaxAttempts,    \* MAX_ATTEMPTS of adapters/store/d1.py
  StampsCollide   \* whether two saves may draw the same stamp

Manifests == UNION {[D -> Hashes] : D \in (SUBSET Paths) \ {{}}}
Nothing == [p \in {} |-> p]

ASSUME OffersAssumption == Offers \subseteq Manifests
ASSUME StampsAssumption == Stamps \subseteq Nat \ {0}
ASSUME AttemptsAssumption == MaxAttempts \in Nat \ {0}
ASSUME CollideAssumption == StampsCollide \in BOOLEAN

VARIABLES
  rows,       \* the table: path -> [hash, at]
  pc,         \* where each saver is in `save`
  man,        \* the manifest each saver is saving
  stamp,      \* the stamp it drew
  tries,      \* how often its current statement was sent without an answer
  adrift,     \* statements nobody waits for any more that D1 may still run
  drawn       \* history: every manifest offered, under the stamp it drew

vars == <<rows, pc, man, stamp, tries, adrift, drawn>>

-----------------------------------------------------------------------------
(* What the table may hold: at most one row per path (its primary key). *)
Tables == UNION {[D -> [hash : Hashes, at : Stamps]] : D \in SUBSET Paths}

(* `load`: the rows whose stamp is the newest, as path -> hash. *)

Newest(table) ==
  {p \in DOMAIN table : \A q \in DOMAIN table : table[q].at <= table[p].at}

Load == [p \in Newest(rows) |-> rows[p].hash]

(* A stamp `_stamp_after` may return: it sorts after every stored one. *)
StampsAfter(table) ==
  {t \in Stamps : /\ \A p \in DOMAIN table : table[p].at < t
                  /\ StampsCollide \/ \A g \in drawn : g.stamp # t}

(* Mutant: the upsert overwrites newer rows too, as INSERT OR REPLACE does. *)
UpsertedBlindly(table, g) ==
  [p \in DOMAIN table \cup DOMAIN g.man |->
     IF p \in DOMAIN g.man THEN [hash |-> g.man[p], at |-> g.stamp] ELSE table[p]]

(* The upsert: a row is written unless the table holds one as new or newer. *)
Upserted(table, g) ==
  [p \in DOMAIN table \cup DOMAIN g.man |->
     IF p \in DOMAIN g.man /\ (p \in DOMAIN table => g.stamp > table[p].at)
     THEN [hash |-> g.man[p], at |-> g.stamp]
     ELSE table[p]]

(* The delete: the rows older than the stamp go. *)
Pruned(table, t) ==
  [p \in {q \in DOMAIN table : ~ (table[q].at < t)} |-> table[p]]

Generation(s) == [stamp |-> stamp[s], man |-> man[s]]

-----------------------------------------------------------------------------
Init ==
  /\ rows = Nothing
  /\ pc = [s \in Savers |-> "idle"]
  /\ man = [s \in Savers |-> Nothing]
  /\ stamp = [s \in Savers |-> 0]
  /\ tries = [s \in Savers |-> 0]
  /\ adrift = {}
  /\ drawn = {}

(* `save(manifest)` is entered; an empty manifest raises and does nothing. *)
Save(s, m) ==
  /\ pc[s] = "idle"
  /\ pc' = [pc EXCEPT ![s] = "read"]
  /\ man' = [man EXCEPT ![s] = m]
  /\ UNCHANGED <<rows, stamp, tries, adrift, drawn>>

(* SELECT MAX(updated_at), then `_stamp_after`. *)
ReadLatest(s) ==
  \E t \in StampsAfter(rows) :
    /\ pc[s] = "read"
    /\ pc' = [pc EXCEPT ![s] = "insert"]
    /\ stamp' = [stamp EXCEPT ![s] = t]
    /\ tries' = [tries EXCEPT ![s] = 0]
    /\ drawn' = drawn \cup {[stamp |-> t, man |-> man[s]]}
    /\ UNCHANGED <<rows, man, adrift>>

(* `save` returns or raises, and its locals with it. *)
Leave(s) ==
  /\ pc' = [pc EXCEPT ![s] = "idle"]
  /\ man' = [man EXCEPT ![s] = Nothing]
  /\ stamp' = [stamp EXCEPT ![s] = 0]
  /\ tries' = [tries EXCEPT ![s] = 0]

(* D1 runs the upsert and the answer arrives. *)
Upsert(s) ==
  /\ pc[s] = "insert"
  /\ rows' = Upserted(rows, Generation(s))
  /\ pc' = [pc EXCEPT ![s] = "delete"]
  /\ tries' = [tries EXCEPT ![s] = 0]
  /\ UNCHANGED <<man, stamp, adrift, drawn>>

(* D1 runs the delete and the answer arrives: `save` returns. *)
DeleteOlder(s) ==
  /\ pc[s] = "delete"
  /\ rows' = Pruned(rows, stamp[s])
  /\ Leave(s)
  /\ UNCHANGED <<adrift, drawn>>

(* Mutant: the attempts are counted and never run out. *)
LostWithoutEnd(s) ==
  /\ pc[s] \in {"insert", "delete"}
  /\ adrift' = adrift \cup {[kind |-> pc[s], gen |-> Generation(s)]}
  /\ tries' = [tries EXCEPT ![s] = @ + 1]
  /\ UNCHANGED <<rows, pc, man, stamp, drawn>>

(* No answer: the statement may run later or never, and it is sent again   *)
(* until the attempts are spent, when `save` raises.                       *)
Lost(s) ==
  /\ pc[s] \in {"insert", "delete"}
  /\ adrift' = adrift \cup {[kind |-> pc[s], gen |-> Generation(s)]}
  /\ IF tries[s] + 1 < MaxAttempts
     THEN /\ tries' = [tries EXCEPT ![s] = @ + 1]
          /\ UNCHANGED <<pc, man, stamp>>
     ELSE Leave(s)
  /\ UNCHANGED <<rows, drawn>>

(* D1 runs a statement whose sender stopped waiting for it. *)
RunLate ==
  \E r \in adrift :
    /\ rows' = IF r.kind = "insert" THEN Upserted(rows, r.gen)
                                    ELSE Pruned(rows, r.gen.stamp)
    /\ adrift' = adrift \ {r}
    /\ UNCHANGED <<pc, man, stamp, tries, drawn>>

(* A statement is refused (4xx), or the run is killed between two of them. *)
Abandon(s) ==
  /\ pc[s] # "idle"
  /\ Leave(s)
  /\ UNCHANGED <<rows, adrift, drawn>>

Next ==
  \/ \E s \in Savers :
       \/ \E m \in Offers : Save(s, m)
       \/ ReadLatest(s)
       \/ Upsert(s)
       \/ DeleteOlder(s)
       \/ Lost(s)
       \/ Abandon(s)
  \/ RunLate

Spec == Init /\ [][Next]_vars

-----------------------------------------------------------------------------
TypeOK ==
  /\ rows \in Tables
  /\ pc \in [Savers -> {"idle", "read", "insert", "delete"}]
  /\ man \in [Savers -> Manifests \cup {Nothing}]
  /\ stamp \in [Savers -> Stamps \cup {0}]
  /\ tries \in [Savers -> 0..MaxAttempts]
  /\ drawn \subseteq [stamp : Stamps, man : Manifests]
  /\ adrift \subseteq [kind : {"insert", "delete"}, gen : drawn]

(* `load` returns nothing or exactly the manifest of one save, "never a    *)
(* mix of two" (`D1PagesManifest.load`), whatever saves, lost answers and  *)
(* late statements went before.                                            *)
OneGeneration ==
  rows # Nothing => \E g \in drawn :
    Load = g.man /\ \A p \in DOMAIN Load : rows[p].at = g.stamp

(* Once the upsert of a save was answered, `load` returns that generation  *)
(* or a newer one: the rows a save goes on to delete are never the ones a  *)
(* reader would need.                                                      *)
AnsweredIsCurrent ==
  \A s \in Savers :
    pc[s] = "delete" => \E p \in DOMAIN rows : rows[p].at >= stamp[s]

(* The table implements one atomic register (ManifestRegister.tla): what   *)
(* `load` returns changes only when an upsert lands, to the whole manifest *)
(* of that save, and an older save that lands late never takes it back.    *)
NewestStamp ==
  IF rows = Nothing THEN 0 ELSE rows[CHOOSE p \in Newest(rows) : TRUE].at

Register == INSTANCE ManifestRegister
              WITH offered <- drawn, version <- NewestStamp, current <- Load

ImplementsRegister == Register!Spec
=============================================================================
