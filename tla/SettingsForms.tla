----------------------------- MODULE SettingsForms ---------------------------
(***************************************************************************)
(* The forms of the settings page that try what they are given before they *)
(* store it (triage_server.py): the LLM (`_handle_post_settings`), its     *)
(* reasoning effort (`_handle_post_values`) and vote similarity            *)
(* (`_handle_post_vote`).  A handler awaits its probe, and others run      *)
(* meanwhile; it then stores key by key (adapters/store/settings.py,       *)
(* `set`), one statement each, and nothing else of the server runs until   *)
(* it is through.  A run reads the table at any time, in one SELECT, and   *)
(* uses what it finds.                                                     *)
(*                                                                         *)
(* What is tried is the provider and model with the effort, or the         *)
(* embedder with its model; any probe may fail.                            *)
(***************************************************************************)
EXTENDS Integers, Sequences, D1Calls

CONSTANTS
  Providers, Models,   \* of the LLM, `NoLlm` apart
  Efforts,             \* of reasoning, `DefaultEffort` apart
  Embedders,           \* providers of embeddings; their models are `Models`
  Saves,               \* bound: forms sent
  Mishaps              \* bound: statements that are not simply done, and restarts

NoLlm == "none"
NoModel == ""
DefaultEffort == "default"

Kinds == {"llm", "effort", "vote"}

VARIABLES
  table,     \* the settings in D1
  values,    \* the server's copy, `_values`
  probing,   \* the forms that await their probe: [body, with]
  storing,   \* the form being stored: [body, left], `left` the keys to go
  late,      \* upserts whose first copy is still to run: [kind, key, value]
  tested,    \* history: what a probe confirmed
  cut,       \* history: forms whose last save is under way or did not get through
  crossed,   \* history: the LLM and its effort were tested beside each other
  overtaken, \* history: forms of which a late copy took a key back
  saves, mishaps

vars == <<table, values, probing, storing, late, tested, cut, crossed, overtaken, saves, mishaps>>

Nothing == [body |-> [kind |-> "none"], left |-> <<>>]

LlmOf(t) == <<t.provider, t.model, t.effort>>
EmbedderOf(t) == <<t.embedder, t.embedding>>

(* A new deployment: no model is called and vote similarity is off. *)
Init ==
  /\ \E e \in Embedders :
       table = [provider |-> NoLlm, model |-> NoModel, effort |-> DefaultEffort,
                enabled |-> FALSE, embedder |-> e, embedding |-> NoModel]
  /\ values = table
  /\ probing = {} /\ storing = Nothing /\ late = {}
  /\ tested = {} /\ cut = {} /\ crossed = FALSE /\ overtaken = {}
  /\ saves = 0 /\ mishaps = 0

Suffer(fate) ==
  /\ fate # "resent"   \* an upsert that runs twice at once is as one
  /\ fate # "done" => mishaps < Mishaps
  /\ mishaps' = IF fate = "done" THEN mishaps ELSE mishaps + 1

Free == storing = Nothing

-----------------------------------------------------------------------------
(* Each handler up to its probe, or to its store where it needs none. *)

Bodies ==
  [kind : {"llm"}, provider : Providers, model : Models]
  \cup {[kind |-> "llm", provider |-> NoLlm, model |-> NoModel]}
  \cup [kind : {"effort"}, effort : Efforts \cup {DefaultEffort}]
  \cup [kind : {"vote"}, enabled : BOOLEAN, embedder : Embedders, embedding : Models]

(* Mutant: the switch comes after what it switches on. *)
KeysSwitchLast(kind) ==
  CASE kind = "llm" -> <<"provider", "model">>
    [] kind = "effort" -> <<"effort">>
    [] kind = "vote" -> <<"embedder", "embedding", "enabled">>

(* The keys in the order the handler's dict has them. *)
KeysOf(kind) ==
  CASE kind = "llm" -> <<"provider", "model">>
    [] kind = "effort" -> <<"effort">>
    [] kind = "vote" -> <<"enabled", "embedder", "embedding">>

(* What the probe calls; the other half of an LLM comes from the copy. *)
Candidate(body) ==
  CASE body.kind = "llm" -> <<body.provider, body.model, values.effort>>
    [] body.kind = "effort" -> <<values.provider, values.model, body.effort>>
    [] body.kind = "vote" -> <<body.embedder, body.embedding>>

NeedsProbe(body) ==
  CASE body.kind = "llm" -> body.provider # NoLlm
    [] body.kind = "effort" -> values.provider # NoLlm
    [] body.kind = "vote" -> body.enabled

(* Whether what is stored beside `body` is no longer what it was tried with. *)
Crosses(body, with) ==
  \/ body.kind = "llm" /\ body.provider # NoLlm /\ with[3] # table.effort
  \/ body.kind = "effort" /\ table.provider # NoLlm /\ with # <<table.provider, table.model, body.effort>>

(* `_store` begins. *)
Store(body, with) ==
  /\ storing' = [body |-> body, left |-> KeysOf(body.kind)]
  /\ crossed' = IF body.kind = "vote" THEN crossed ELSE Crosses(body, with)
  /\ cut' = IF body.kind = "vote" /\ ~body.enabled THEN cut ELSE cut \cup {body.kind}

Submit(body) ==
  /\ Free /\ saves < Saves
  /\ saves' = saves + 1
  /\ IF NeedsProbe(body)
       THEN /\ probing' = probing \cup {[body |-> body, with |-> Candidate(body)]}
            /\ UNCHANGED <<storing, crossed, cut>>
       ELSE Store(body, Candidate(body)) /\ UNCHANGED probing
  /\ UNCHANGED <<table, values, late, tested, overtaken, mishaps>>

ProbeOk(p) ==
  /\ Free /\ p \in probing
  /\ probing' = probing \ {p}
  /\ tested' = tested \cup {p.with}
  /\ Store(p.body, p.with)
  /\ UNCHANGED <<table, values, late, overtaken, saves, mishaps>>

(* The form is refused, and nothing of it is stored. *)
ProbeFails(p) ==
  /\ p \in probing
  /\ probing' = probing \ {p}
  /\ UNCHANGED <<table, values, storing, late, tested, cut, crossed, overtaken, saves, mishaps>>

(* One upsert of `set`.  The server's copy follows once all are through;   *)
(* one that raises leaves what the ones before it wrote.                   *)
StoreKey(fate) ==
  /\ ~Free /\ Suffer(fate)
  /\ LET body == storing.body
         key == Head(storing.left)
         through == ~Raises(fate) /\ Len(storing.left) = 1
     IN  /\ table' = IF Ran(fate) THEN [table EXCEPT ![key] = body[key]] ELSE table
         /\ late' = IF fate = "late"
                      THEN late \cup {[kind |-> body.kind, key |-> key, value |-> body[key]]}
                      ELSE late
         /\ values' = IF through
                        THEN [k \in DOMAIN values |->
                                IF k \in DOMAIN body THEN body[k] ELSE values[k]]
                        ELSE values
         /\ cut' = IF through THEN cut \ {body.kind} ELSE cut
         /\ storing' = IF Raises(fate) \/ through THEN Nothing
                        ELSE [storing EXCEPT !.left = Tail(@)]
  /\ UNCHANGED <<probing, tested, crossed, overtaken, saves>>

LateRuns(c) ==
  /\ c \in late /\ late' = late \ {c}
  /\ table' = [table EXCEPT ![c.key] = c.value]
  /\ overtaken' = IF table[c.key] # c.value THEN overtaken \cup {c.kind} ELSE overtaken
  /\ UNCHANGED <<values, probing, storing, tested, cut, crossed, saves, mishaps>>

(* The container is replaced and reads the table at its boot. *)
Restart ==
  /\ mishaps < Mishaps
  /\ mishaps' = mishaps + 1
  /\ probing' = {} /\ storing' = Nothing
  /\ values' = table
  /\ UNCHANGED <<table, late, tested, cut, crossed, overtaken, saves>>

Next ==
  \/ \E body \in Bodies : Submit(body)
  \/ \E p \in probing : ProbeOk(p) \/ ProbeFails(p)
  \/ \E fate \in Fates : StoreKey(fate)
  \/ \E c \in late : LateRuns(c)
  \/ Restart

Spec == Init /\ [][Next]_vars

-----------------------------------------------------------------------------
TypeOK ==
  /\ \A t \in {table, values} :
       /\ t.provider \in Providers \cup {NoLlm} /\ t.model \in Models \cup {NoModel}
       /\ t.effort \in Efforts \cup {DefaultEffort} /\ t.enabled \in BOOLEAN
       /\ t.embedder \in Embedders /\ t.embedding \in Models \cup {NoModel}
  /\ {p.body : p \in probing} \subseteq Bodies
  /\ ~Free => storing.body \in Bodies /\ storing.left # <<>>
  /\ cut \subseteq Kinds /\ crossed \in BOOLEAN

(* Whenever a run reads the table, the LLM it finds has answered a call    *)
(* with its effort, and the embedder, if vote similarity is on, one too,   *)
(* whatever forms were probed beside each other ("nothing is stored until  *)
(* a real call comes back"; "no run meets an unverified embedder").        *)
(* Excepted are a form that is half stored, one that a late copy overtook, *)
(* and an LLM and an effort that were tried side by side.                  *)
RunMeetsTested ==
  LET spoilt == cut \cup overtaken
  IN  /\ table.provider # NoLlm /\ ~crossed /\ spoilt \cap {"llm", "effort"} = {} =>
           LlmOf(table) \in tested
      /\ table.enabled /\ "vote" \notin spoilt => EmbedderOf(table) \in tested
=============================================================================
