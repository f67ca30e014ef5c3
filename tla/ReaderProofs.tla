------------------------------ MODULE ReaderProofs ------------------------------
(***************************************************************************)
(* The reader's parts but the votes, which VoteSyncProofs is about, for    *)
(* any forms, draws, answers, names and failures: a run finds no model     *)
(* that did not answer (SettingsForms), the sample of blind labels is      *)
(* whole and its answers have their votes (BlindLabels), a name of an area *)
(* is one row that leads to an area shown (Areas), and the wizard shows as *)
(* recorded what was written (OnboardingCards).                            *)
(***************************************************************************)
EXTENDS MCReader, VoteSyncProofs, Sequences

-----------------------------------------------------------------------------
(* The probed forms. *)

Tables ==
  [provider : Providers \cup {Sf!NoLlm}, model : Models \cup {Sf!NoModel},
   effort : Efforts \cup {Sf!DefaultEffort}, enabled : BOOLEAN,
   embedder : Embedders, embedding : Models \cup {Sf!NoModel}]

(* What is left of a form, from the whole of it on. *)
Rest(kind) ==
  CASE kind = "llm" -> {<<"provider", "model">>, <<"model">>}
    [] kind = "effort" -> {<<"effort">>}
    [] kind = "vote" -> {<<"enabled", "embedder", "embedding">>, <<"embedder", "embedding">>,
                         <<"embedding">>}

FormsTyped ==
  /\ settings \in Tables
  /\ \A p \in probing : p.body \in Sf!Bodies
  /\ storing = [body |-> storing.body, left |-> storing.left]
  /\ ~Sf!Free => storing.body \in Sf!Bodies /\ storing.left \in Rest(storing.body.kind)
  /\ \A c \in lateKeys : \/ c.kind = "llm" /\ c.key = "provider" /\ c.value \in Providers \cup {Sf!NoLlm}
                         \/ c.kind = "llm" /\ c.key = "model" /\ c.value \in Models \cup {Sf!NoModel}
                         \/ c.kind = "effort" /\ c.key = "effort" /\ c.value \in Efforts \cup {Sf!DefaultEffort}
                         \/ c.kind = "vote" /\ c.key = "enabled" /\ c.value \in BOOLEAN
                         \/ c.kind = "vote" /\ c.key = "embedder" /\ c.value \in Embedders
                         \/ c.kind = "vote" /\ c.key = "embedding" /\ c.value \in Models

(* A probe calls what the form says, in its own half. *)
ProbeIsOfForm ==
  \A p \in probing :
    /\ p.body.kind = "llm" => /\ p.with[1] = p.body.provider /\ p.with[2] = p.body.model
                              /\ p.with = <<p.with[1], p.with[2], p.with[3]>>
    /\ p.body.kind = "effort" => p.with[1] # Sf!NoLlm
    /\ p.body.kind = "vote" => p.with = <<p.body.embedder, p.body.embedding>>

(* A form under way counts as cut, but one that switches off. *)
UnderWayIsCut ==
  ~Sf!Free => \/ storing.body.kind \in cut
              \/ storing.body.kind = "vote" /\ ~storing.body.enabled

(* What is stored of the form is in the table, unless a late copy came. *)
LlmIsStored(body, left) ==
  body.kind = "llm" /\ "llm" \notin overtaken =>
    /\ left = <<"model">> => settings.provider = body.provider
    /\ body.provider # Sf!NoLlm /\ ~besides /\ "effort" \notin overtaken =>
         <<body.provider, body.model, settings.effort>> \in tested

EffortIsStored(body) ==
  body.kind = "effort" /\ overtaken \cap {"llm"} = {} /\ settings.provider # Sf!NoLlm /\ ~besides =>
    <<settings.provider, settings.model, body.effort>> \in tested

VoteIsStored(body, left) ==
  body.kind = "vote" /\ "vote" \notin overtaken =>
    /\ left # <<"enabled", "embedder", "embedding">> => settings.enabled = body.enabled
    /\ left = <<"embedding">> => settings.embedder = body.embedder
    /\ body.enabled => <<body.embedder, body.embedding>> \in tested

StoredIsTested ==
  ~Sf!Free => /\ LlmIsStored(storing.body, storing.left)
              /\ EffortIsStored(storing.body)
              /\ VoteIsStored(storing.body, storing.left)

FormsInv ==
  FormsTyped /\ ProbeIsOfForm /\ UnderWayIsCut /\ StoredIsTested /\ Sf!RunMeetsTested

-----------------------------------------------------------------------------
(* The blind labels. *)

Answers == {"up", "down"}
Sampled == [draw : 1..MaxClock, url : Articles, label : Bl!Labels \cup {Bl!None}, at : 0..MaxClock]
Latecomers ==
  [stmt : {"delete"}, url : {Bl!None}, label : {Bl!None}, at : 1..MaxClock]
  \cup [stmt : {"record"}, url : Articles, label : Bl!Labels, at : 1..MaxClock]
  \cup [stmt : {"vote"}, url : Articles, label : Answers, at : 1..MaxClock]

Rows == [held : BOOLEAN, vote : {"up", "down", Bl!None}, at : 0..MaxClock]

LabelsTyped ==
  /\ clock \in 0..MaxClock
  /\ sample \subseteq Sampled
  /\ labelled \in [Articles -> Rows]
  /\ drawer \in [Drawers -> [pc : {"idle", "check", "insert", "delete", "over"},
                             at : 0..MaxClock, urls : SUBSET Articles]]
  /\ \/ press = Bl!Idle
     \/ press \in [pc : {"record"}, url : Articles, label : Bl!Labels, at : 1..MaxClock]
     \/ press \in [pc : {"vote", "release"}, url : Articles, label : Answers, at : 1..MaxClock]
  /\ lateLabels \subseteq Latecomers
  /\ landed \in [DOMAIN landed -> SUBSET Articles]

(* Nothing is of later than now. *)
NothingIsAhead ==
  /\ DOMAIN landed \subseteq 1..clock
  /\ press.at <= clock
  /\ \A s \in sample : s.at <= clock
  /\ \A d \in Drawers : drawer[d].at <= clock
  /\ \A c \in lateLabels : c.at <= clock

(* One draw is under way, and it is the latest. *)
OneDraws ==
  /\ \A d, f \in Drawers : d = f \/ drawer[d].pc \in {"idle", "over"} \/ drawer[f].pc \in {"idle", "over"}
  /\ \A d \in Drawers :
       /\ drawer[d].pc \in {"check", "insert"} => drawer[d].urls # {}
       /\ drawer[d].pc = "insert" => drawer[d].at >= 1 /\ \A x \in DOMAIN landed : x < drawer[d].at
       /\ drawer[d].pc = "delete" => drawer[d].at \in DOMAIN landed /\ \A x \in DOMAIN landed : x <= drawer[d].at

Latest(m) == m \in DOMAIN landed /\ \A x \in DOMAIN landed : x <= m

(* The latest draw is there, and no DELETE to come spares another. *)
DrawIsWhole(m) ==
  /\ landed[m] # {}
  /\ \A s \in sample : s.draw = m => s.url \in landed[m]
  /\ \A u \in landed[m] : \E s \in sample : s.draw = m /\ s.url = u
  /\ \A c \in lateLabels : c.stmt = "delete" => c.at = m

DrawsInv ==
  /\ OneDraws
  /\ \A s \in sample : s.draw \in DOMAIN landed
  /\ ~redrawn /\ DOMAIN landed # {} => \E m \in DOMAIN landed : Latest(m) /\ DrawIsWhole(m)

(* The answers the server, the sample and the copies to come speak of. *)
Says(at, u, l) ==
  \/ \E s \in sample : s.at = at /\ s.url = u /\ s.label = l
  \/ \E c \in lateLabels : c.stmt # "delete" /\ c.at = at /\ c.url = u /\ c.label = l
  \/ press.at = at /\ press.url = u /\ press.label = l

(* At an instant there is one. *)
OneAnswer ==
  \A at \in 1..MaxClock : \A u, w \in Articles : \A l, k \in Bl!Labels :
    Says(at, u, l) /\ Says(at, w, k) => u = w /\ l = k

(* What the server answers is the last thing anyone pressed, and before it *)
(* is recorded, it is recorded nowhere.                                    *)
PressIsNew ==
  /\ press.pc # "idle" =>
       /\ \A s \in sample : s.at <= press.at
       /\ \A c \in lateLabels : c.stmt = "record" => c.at <= press.at
  /\ press.pc = "record" =>
       /\ \A s \in sample : s.at # press.at
       /\ \A c \in lateLabels : c.stmt = "record" => c.at # press.at

AnsweredAt ==
  /\ \A s \in sample : s.label \in Bl!Labels => s.at >= 1
  /\ \A s \in sample : s.label = Bl!None => s.at = 0
  /\ \A c \in lateLabels : c.stmt = "record" => c.at \in slipped

(* An answer of the latest draw has its vote, or a later one. *)
HasItsVote(s) ==
  s.label \in Answers /\ s.at \notin slipped /\ press.at # s.at =>
    \/ labelled[s.url].at > s.at
    \/ labelled[s.url].at = s.at /\ labelled[s.url].vote = s.label

VotesThere ==
  ~redrawn => \A m \in DOMAIN landed : Latest(m) => \A s \in sample : s.draw = m => HasItsVote(s)

AnswersInv ==
  /\ OneAnswer
  /\ PressIsNew
  /\ AnsweredAt
  /\ VotesThere

LabelsInv == LabelsTyped /\ NothingIsAhead /\ DrawsInv /\ AnswersInv

-----------------------------------------------------------------------------
(* A step of the reader is one of each part, or leaves it alone. *)
LEMMA PartSteps ==
  ASSUME [ReaderNext]_all
  PROVE  [Sf!Next]_ofForms /\ [Bl!Next]_ofLabels /\ [Ar!Next]_ofAreas /\ [Oc!Next]_ofCards
<1>1. CASE OfVotes /\ Next
  BY <1>1 DEF OfVotes
<1>2. CASE OfLabels /\ Bl!Next
  BY <1>2 DEF OfLabels
<1>3. CASE OfAreas /\ Ar!Next
  BY <1>3 DEF OfAreas
<1>4. CASE OfForms /\ Sf!Next
  BY <1>4 DEF OfForms
<1>5. CASE OfCards /\ Oc!Next
  BY <1>5 DEF OfCards
<1>6. CASE UNCHANGED all
  BY <1>6 DEF all
<1> QED BY <1>1, <1>2, <1>3, <1>4, <1>5, <1>6 DEF ReaderNext

-----------------------------------------------------------------------------
(* The probed forms. *)

LEMMA InitForms == ASSUME Sf!Init PROVE FormsInv
<1>1. FormsTyped /\ ProbeIsOfForm /\ UnderWayIsCut /\ StoredIsTested
  BY DEF Sf!Init, Sf!Nothing, FormsTyped, ProbeIsOfForm, UnderWayIsCut, StoredIsTested, Sf!Free,
         Tables
<1>2. settings.provider = Sf!NoLlm /\ settings.enabled = FALSE
  BY DEF Sf!Init
<1> QED BY <1>1, <1>2 DEF FormsInv, Sf!RunMeetsTested

(* What a form says of its own kind. *)
LEMMA BodyFields ==
  ASSUME NEW body \in Sf!Bodies
  PROVE  /\ body.kind \in {"llm", "effort", "vote"}
         /\ body.kind = "llm" => /\ body.provider \in Providers \cup {Sf!NoLlm}
                                 /\ body.model \in Models \cup {Sf!NoModel}
                                 /\ DOMAIN body = {"kind", "provider", "model"}
         /\ body.kind = "effort" => body.effort \in Efforts \cup {Sf!DefaultEffort}
         /\ body.kind = "vote" => /\ body.enabled \in BOOLEAN
                                  /\ body.embedder \in Embedders /\ body.embedding \in Models
BY DEF Sf!Bodies

(* One key of the table. *)
LEMMA OneKey ==
  ASSUME settings \in Tables, NEW key, NEW v, settings' = [settings EXCEPT ![key] = v],
         \/ key = "provider" /\ v \in Providers \cup {Sf!NoLlm}
         \/ key = "model" /\ v \in Models \cup {Sf!NoModel}
         \/ key = "effort" /\ v \in Efforts \cup {Sf!DefaultEffort}
         \/ key = "enabled" /\ v \in BOOLEAN
         \/ key = "embedder" /\ v \in Embedders
         \/ key = "embedding" /\ v \in Models \cup {Sf!NoModel}
  PROVE  /\ settings' \in Tables
         /\ settings'.provider = IF key = "provider" THEN v ELSE settings.provider
         /\ settings'.model = IF key = "model" THEN v ELSE settings.model
         /\ settings'.effort = IF key = "effort" THEN v ELSE settings.effort
         /\ settings'.enabled = IF key = "enabled" THEN v ELSE settings.enabled
         /\ settings'.embedder = IF key = "embedder" THEN v ELSE settings.embedder
         /\ settings'.embedding = IF key = "embedding" THEN v ELSE settings.embedding
BY DEF Tables

(* `_store` begins with a form that was tried, or that needs no trying.     *)
LEMMA StoreBegins ==
  ASSUME FormsInv, NEW body \in Sf!Bodies, NEW with, Sf!Store(body, with),
         UNCHANGED <<settings, overtaken>>, tested \subseteq tested',
         body.kind = "llm" /\ body.provider # Sf!NoLlm =>
           with \in tested' /\ with = <<body.provider, body.model, with[3]>>,
         body.kind = "effort" => with \in tested' \/ with[1] = Sf!NoLlm,
         body.kind = "vote" /\ body.enabled =>
           with \in tested' /\ with = <<body.embedder, body.embedding>>
  PROVE  /\ storing' = [body |-> storing'.body, left |-> storing'.left]
         /\ storing'.body \in Sf!Bodies /\ storing'.left \in Rest(storing'.body.kind)
         /\ UnderWayIsCut' /\ StoredIsTested' /\ Sf!RunMeetsTested'
<1>1. /\ storing'.body = body /\ storing'.left = Sf!KeysOf(body.kind)
      /\ storing' = [body |-> storing'.body, left |-> storing'.left]
  BY DEF Sf!Store
<1>2. CASE body.kind = "llm"
  <2>1. storing'.left = <<"provider", "model">>
    BY <1>1, <1>2 DEF Sf!KeysOf
  <2>2. cut' = cut \cup {"llm"} /\ besides' = Sf!Crosses(body, with)
    BY <1>2 DEF Sf!Store
  <2>3. LlmIsStored(body, storing.left)'
    <3>1. body.provider # Sf!NoLlm /\ ~besides' => with[3] = settings.effort
      BY <1>2, <2>2 DEF Sf!Crosses
    <3>2. storing'.left # <<"model">>
      BY <2>1
    <3> QED BY <1>2, <3>1, <3>2 DEF LlmIsStored
  <2>4. StoredIsTested'
    BY <1>1, <1>2, <2>3 DEF StoredIsTested, EffortIsStored, VoteIsStored
  <2>5. Sf!RunMeetsTested'
    BY <2>2 DEF FormsInv, Sf!RunMeetsTested, Sf!EmbedderOf
  <2> QED BY <1>1, <1>2, <2>1, <2>2, <2>4, <2>5 DEF UnderWayIsCut, Rest
<1>3. CASE body.kind = "effort"
  <2>1. storing'.left = <<"effort">>
    BY <1>1, <1>3 DEF Sf!KeysOf
  <2>2. cut' = cut \cup {"effort"} /\ besides' = Sf!Crosses(body, with)
    BY <1>3 DEF Sf!Store
  <2>3. EffortIsStored(body)'
    <3>1. settings.provider # Sf!NoLlm /\ ~besides' =>
            with = <<settings.provider, settings.model, body.effort>>
      BY <1>3, <2>2 DEF Sf!Crosses
    <3> QED BY <1>3, <3>1 DEF EffortIsStored
  <2>4. StoredIsTested'
    BY <1>1, <1>3, <2>3 DEF StoredIsTested, LlmIsStored, VoteIsStored
  <2>5. Sf!RunMeetsTested'
    BY <2>2 DEF FormsInv, Sf!RunMeetsTested, Sf!EmbedderOf
  <2> QED BY <1>1, <1>3, <2>1, <2>2, <2>4, <2>5 DEF UnderWayIsCut, Rest
<1>4. CASE body.kind = "vote"
  <2>1. storing'.left = <<"enabled", "embedder", "embedding">>
    BY <1>1, <1>4 DEF Sf!KeysOf
  <2>2. besides' = besides /\ cut \subseteq cut' /\ cut' \subseteq cut \cup {"vote"}
    BY <1>4 DEF Sf!Store
  <2>3. body.enabled => "vote" \in cut'
    BY <1>4 DEF Sf!Store
  <2>4. StoredIsTested'
    BY <1>1, <1>4, <2>1 DEF StoredIsTested, LlmIsStored, EffortIsStored, VoteIsStored
  <2>5. Sf!RunMeetsTested'
    BY <2>2 DEF FormsInv, Sf!RunMeetsTested, Sf!EmbedderOf, Sf!LlmOf
  <2>6. UnderWayIsCut'
    BY <1>1, <1>4, <2>3 DEF UnderWayIsCut
  <2> QED BY <1>1, <1>4, <2>1, <2>4, <2>5, <2>6 DEF Rest
<1> QED BY <1>2, <1>3, <1>4, BodyFields

LEMMA SubmitForms ==
  ASSUME FormsInv, NEW body \in Sf!Bodies, Sf!Submit(body)
  PROVE  FormsInv'
<1> DEFINE with == Sf!Candidate(body)
<1>1. UNCHANGED <<settings, lateKeys, tested, overtaken>>
  BY DEF Sf!Submit
<1>2. /\ body.kind = "llm" => with = <<body.provider, body.model, with[3]>>
      /\ body.kind = "effort" => (Sf!NeedsProbe(body) <=> with[1] # Sf!NoLlm)
      /\ body.kind = "vote" => with = <<body.embedder, body.embedding>>
  BY DEF Sf!Candidate, Sf!NeedsProbe
<1>3. CASE Sf!NeedsProbe(body)
  <2>1. /\ UNCHANGED <<storing, besides, cut>>
        /\ probing' = probing \cup {[body |-> body, with |-> with]}
    BY <1>3 DEF Sf!Submit
  <2>2. ProbeIsOfForm'
    BY <1>2, <1>3, <2>1, BodyFields DEF FormsInv, ProbeIsOfForm
  <2>3. FormsTyped'
    BY <1>1, <2>1 DEF FormsInv, FormsTyped, Sf!Free
  <2> QED BY <1>1, <2>1, <2>2, <2>3
          DEF FormsInv, UnderWayIsCut, StoredIsTested, LlmIsStored, EffortIsStored, VoteIsStored,
              Sf!Free, Sf!RunMeetsTested
<1>4. CASE ~Sf!NeedsProbe(body)
  <2>1. Sf!Store(body, with) /\ UNCHANGED probing
    BY <1>4 DEF Sf!Submit
  <2>2. /\ body.kind = "llm" => body.provider = Sf!NoLlm
        /\ body.kind = "vote" => ~body.enabled
    BY <1>4 DEF Sf!NeedsProbe
  <2> HIDE DEF with
  <2>3. /\ storing' = [body |-> storing'.body, left |-> storing'.left]
        /\ storing'.body \in Sf!Bodies /\ storing'.left \in Rest(storing'.body.kind)
        /\ UnderWayIsCut' /\ StoredIsTested' /\ Sf!RunMeetsTested'
    BY <1>1, <1>2, <1>4, <2>1, <2>2, StoreBegins
  <2> QED BY <1>1, <2>1, <2>3 DEF FormsInv, FormsTyped, ProbeIsOfForm, Sf!Free
<1> QED BY <1>3, <1>4

LEMMA ProbeOkForms ==
  ASSUME FormsInv, NEW p, Sf!ProbeOk(p)
  PROVE  FormsInv'
<1>1. /\ p \in probing /\ p.body \in Sf!Bodies /\ probing' = probing \ {p}
      /\ UNCHANGED <<settings, lateKeys, overtaken>>
      /\ tested \subseteq tested' /\ p.with \in tested'
      /\ Sf!Store(p.body, p.with)
  BY DEF Sf!ProbeOk, FormsInv, FormsTyped
<1>2. /\ p.body.kind = "llm" => p.with = <<p.body.provider, p.body.model, p.with[3]>>
      /\ p.body.kind = "vote" => p.with = <<p.body.embedder, p.body.embedding>>
  BY <1>1 DEF FormsInv, ProbeIsOfForm
<1>3. /\ storing' = [body |-> storing'.body, left |-> storing'.left]
      /\ storing'.body \in Sf!Bodies /\ storing'.left \in Rest(storing'.body.kind)
      /\ UnderWayIsCut' /\ StoredIsTested' /\ Sf!RunMeetsTested'
  BY <1>1, <1>2, StoreBegins
<1> QED BY <1>1, <1>3 DEF FormsInv, FormsTyped, ProbeIsOfForm, Sf!Free

LEMMA ProbeFailsForms ==
  ASSUME FormsInv, NEW p, Sf!ProbeFails(p)
  PROVE  FormsInv'
BY DEF Sf!ProbeFails, FormsInv, FormsTyped, ProbeIsOfForm, UnderWayIsCut, StoredIsTested,
       LlmIsStored, EffortIsStored, VoteIsStored, Sf!Free, Sf!RunMeetsTested

(* One statement of a form: what it leaves of the form, and of the mark.   *)
LEMMA OneStatement ==
  ASSUME FormsInv, NEW fate \in Sf!Fates, Sf!StoreKey(fate)
  PROVE  /\ storing.body \in Sf!Bodies /\ storing.left \in Rest(storing.body.kind)
         /\ UNCHANGED <<probing, tested, besides, overtaken>>
         /\ \/ settings' = [settings EXCEPT ![Head(storing.left)] = storing.body[Head(storing.left)]]
            \/ settings' = settings /\ storing' = Sf!Nothing /\ cut' = cut
         /\ \/ storing' = Sf!Nothing /\ cut' = cut
            \/ Len(storing.left) = 1 /\ storing' = Sf!Nothing /\ cut' = cut \ {storing.body.kind}
            \/ /\ Len(storing.left) # 1 /\ cut' = cut
               /\ storing' = [body |-> storing.body, left |-> Tail(storing.left)]
         /\ lateKeys' \subseteq
              lateKeys \cup {[kind |-> storing.body.kind, key |-> Head(storing.left),
                              value |-> storing.body[Head(storing.left)]]}
<1>1. /\ storing.body \in Sf!Bodies /\ storing.left \in Rest(storing.body.kind)
      /\ storing = [body |-> storing.body, left |-> storing.left]
  BY DEF FormsInv, FormsTyped, Sf!StoreKey
<1>2. UNCHANGED <<probing, tested, besides, overtaken>>
  BY DEF Sf!StoreKey
<1>3. CASE Sf!Raises(fate)
  <2>1. storing' = Sf!Nothing /\ cut' = cut
    BY <1>3 DEF Sf!StoreKey
  <2> QED BY <1>1, <1>2, <2>1 DEF Sf!StoreKey
<1>4. CASE ~Sf!Raises(fate)
  <2>1. settings' = [settings EXCEPT ![Head(storing.left)] = storing.body[Head(storing.left)]]
    BY <1>4 DEF Sf!StoreKey, Sf!Raises, Sf!Ran
  <2>2. CASE Len(storing.left) = 1
    BY <1>1, <1>2, <1>4, <2>1, <2>2 DEF Sf!StoreKey
  <2>3. CASE Len(storing.left) # 1
    <3>1. storing' = [storing EXCEPT !.left = Tail(@)] /\ cut' = cut
      BY <1>4, <2>3 DEF Sf!StoreKey
    <3>2. storing' = [body |-> storing.body, left |-> Tail(storing.left)]
      BY <1>1, <3>1
    <3> QED BY <1>1, <1>2, <2>1, <2>3, <3>1, <3>2 DEF Sf!StoreKey
  <2> QED BY <2>2, <2>3
<1> QED BY <1>3, <1>4

LEMMA StoreLlmForms ==
  ASSUME FormsInv, NEW fate \in Sf!Fates, Sf!StoreKey(fate), storing.body.kind = "llm"
  PROVE  FormsInv'
<1> DEFINE body == storing.body
           left == storing.left
<1>1. /\ body \in Sf!Bodies /\ left \in Rest(body.kind)
      /\ UNCHANGED <<probing, tested, besides, overtaken>>
      /\ \/ settings' = [settings EXCEPT ![Head(left)] = body[Head(left)]]
         \/ settings' = settings /\ storing' = Sf!Nothing /\ cut' = cut
      /\ \/ storing' = Sf!Nothing /\ cut' = cut
         \/ Len(left) = 1 /\ storing' = Sf!Nothing /\ cut' = cut \ {body.kind}
         \/ Len(left) # 1 /\ cut' = cut /\ storing' = [body |-> body, left |-> Tail(left)]
      /\ lateKeys' \subseteq
           lateKeys \cup {[kind |-> body.kind, key |-> Head(left), value |-> body[Head(left)]]}
  BY OneStatement
<1>2. /\ body.provider \in Providers \cup {Sf!NoLlm} /\ body.model \in Models \cup {Sf!NoModel}
      /\ body["provider"] = body.provider /\ body["model"] = body.model
  BY <1>1, BodyFields
<1>3. settings \in Tables /\ "llm" \in cut /\ LlmIsStored(body, left) /\ ~Sf!Free
  BY DEF FormsInv, FormsTyped, UnderWayIsCut, StoredIsTested, Sf!StoreKey
<1> body.kind = "llm"
  OBVIOUS
<1> HIDE DEF body, left
<1>4. CASE left = <<"provider", "model">>
  <2>1. Head(left) = "provider" /\ Tail(left) = <<"model">> /\ Len(left) = 2
    BY <1>4
  <2>2. /\ settings' \in Tables /\ UNCHANGED <<settings.effort, settings.enabled, settings.embedder, settings.embedding>>
        /\ \/ settings'.provider = body.provider
           \/ storing' = Sf!Nothing
    <3>1. CASE settings' = settings /\ storing' = Sf!Nothing
      BY <1>3, <3>1
    <3>2. CASE settings' = [settings EXCEPT !["provider"] = body["provider"]]
      <4>1. PICK v \in Providers \cup {Sf!NoLlm} : v = body.provider
        BY <1>2
      <4>2. settings' = [settings EXCEPT !["provider"] = v]
        BY <1>2, <3>2, <4>1
      <4>3. /\ settings' \in Tables /\ settings'.provider = v
            /\ settings'.effort = settings.effort /\ settings'.enabled = settings.enabled
            /\ settings'.embedder = settings.embedder /\ settings'.embedding = settings.embedding
        BY <1>3, <4>1, <4>2 DEF Tables
      <4> QED BY <4>1, <4>3
    <3> QED BY <1>1, <1>4, <3>1, <3>2
  <2>3. /\ cut' = cut
        /\ storing' = Sf!Nothing \/ storing' = [body |-> body, left |-> <<"model">>]
    BY <1>1, <1>4
  <2>4. FormsTyped'
    <3>1. \A c \in lateKeys' : c \in lateKeys \/ (c.kind = "llm" /\ c.key = "provider" /\ c.value = body.provider)
      BY <1>1, <2>1
    <3>2. ~Sf!Free' => storing'.body \in Sf!Bodies /\ storing'.left \in Rest(storing'.body.kind)
      BY <1>1, <2>3, <1>4 DEF Sf!Free, Rest
    <3> QED BY <1>1, <1>2, <2>2, <2>3, <3>1, <3>2 DEF FormsInv, FormsTyped, Sf!Free, Sf!Nothing
  <2>5. UnderWayIsCut'
    BY <1>3, <2>3 DEF UnderWayIsCut, Sf!Free
  <2>6. StoredIsTested'
    <3>1. CASE storing' = Sf!Nothing
      BY <3>1 DEF StoredIsTested, Sf!Free
    <3>2. CASE storing' = [body |-> body, left |-> <<"model">>] /\ settings'.provider = body.provider
      <4>1. storing'.body = body /\ storing'.left = <<"model">>
        BY <3>2
      <4>2. PICK form : form = body
        OBVIOUS
      <4>3. LlmIsStored(form, <<"model">>)'
        BY <1>1, <1>3, <2>2, <3>2, <4>2 DEF LlmIsStored
      <4>4. LlmIsStored(storing.body, storing.left)'
        BY <4>1, <4>2, <4>3
      <4> QED BY <4>1, <4>4 DEF StoredIsTested, EffortIsStored, VoteIsStored
    <3>3. Sf!Nothing # [body |-> body, left |-> <<"model">>]
      BY DEF Sf!Nothing
    <3> QED BY <2>2, <2>3, <3>1, <3>2, <3>3
  <2>7. Sf!RunMeetsTested'
    BY <1>1, <1>3, <2>2, <2>3 DEF FormsInv, Sf!RunMeetsTested, Sf!EmbedderOf
  <2> QED BY <1>1, <2>4, <2>5, <2>6, <2>7 DEF FormsInv, ProbeIsOfForm
<1>5. CASE left = <<"model">>
  <2>1. Head(left) = "model" /\ Len(left) = 1
    BY <1>5
  <2>2. /\ settings' \in Tables /\ UNCHANGED <<settings.provider, settings.effort, settings.enabled, settings.embedder, settings.embedding>>
        /\ \/ settings'.model = body.model
           \/ cut' = cut
    BY <1>2, <1>3, <1>1, <2>1, OneKey
  <2>3. storing' = Sf!Nothing /\ (cut' = cut \/ cut' = cut \ {"llm"})
    BY <1>1, <2>1
  <2>4. FormsTyped'
    <3>1. \A c \in lateKeys' : c \in lateKeys \/ (c.kind = "llm" /\ c.key = "model" /\ c.value = body.model)
      BY <1>1, <2>1
    <3> QED BY <1>1, <1>2, <2>2, <2>3, <3>1 DEF FormsInv, FormsTyped, Sf!Free, Sf!Nothing
  <2>5. UnderWayIsCut' /\ StoredIsTested'
    BY <2>3 DEF UnderWayIsCut, StoredIsTested, Sf!Free
  <2>6. Sf!RunMeetsTested'
    <3>1. CASE cut' = cut
      BY <1>1, <1>3, <2>2, <3>1 DEF FormsInv, Sf!RunMeetsTested, Sf!EmbedderOf
    <3>2. CASE settings'.model = body.model /\ cut' = cut \ {"llm"}
      <4>1. ASSUME settings'.provider # Sf!NoLlm, ~besides', (cut' \cup overtaken') \cap {"llm", "effort"} = {}
            PROVE  <<settings'.provider, settings'.model, settings'.effort>> \in tested'
        <5>1. "llm" \notin overtaken /\ "effort" \notin overtaken
          BY <1>1, <4>1
        <5>2. settings.provider = body.provider /\ settings'.provider = body.provider
          BY <1>3, <1>5, <2>2, <5>1 DEF LlmIsStored
        <5> QED BY <1>1, <1>3, <2>2, <3>2, <4>1, <5>1, <5>2 DEF LlmIsStored
      <4> QED BY <1>1, <2>2, <3>2, <4>1 DEF FormsInv, Sf!RunMeetsTested, Sf!EmbedderOf, Sf!LlmOf
    <3> QED BY <2>2, <2>3, <3>1, <3>2
  <2> QED BY <1>1, <2>4, <2>5, <2>6 DEF FormsInv, ProbeIsOfForm
<1> QED BY <1>1, <1>4, <1>5 DEF Rest

LEMMA StoreEffortForms ==
  ASSUME FormsInv, NEW fate \in Sf!Fates, Sf!StoreKey(fate), storing.body.kind = "effort"
  PROVE  FormsInv'
<1> DEFINE body == storing.body
           left == storing.left
<1>1. /\ body \in Sf!Bodies /\ left \in Rest(body.kind)
      /\ UNCHANGED <<probing, tested, besides, overtaken>>
      /\ \/ settings' = [settings EXCEPT ![Head(left)] = body[Head(left)]]
         \/ settings' = settings /\ storing' = Sf!Nothing /\ cut' = cut
      /\ \/ storing' = Sf!Nothing /\ cut' = cut
         \/ Len(left) = 1 /\ storing' = Sf!Nothing /\ cut' = cut \ {body.kind}
         \/ Len(left) # 1 /\ cut' = cut /\ storing' = [body |-> body, left |-> Tail(left)]
      /\ lateKeys' \subseteq
           lateKeys \cup {[kind |-> body.kind, key |-> Head(left), value |-> body[Head(left)]]}
  BY OneStatement
<1>2. body.effort \in Efforts \cup {Sf!DefaultEffort} /\ body["effort"] = body.effort
  BY <1>1, BodyFields
<1>3. settings \in Tables /\ "effort" \in cut /\ EffortIsStored(body)
  BY DEF FormsInv, FormsTyped, UnderWayIsCut, StoredIsTested, Sf!StoreKey
<1> body.kind = "effort"
  OBVIOUS
<1> HIDE DEF body, left
<1>4. left = <<"effort">>
  BY <1>1 DEF Rest
<1>5. storing' = Sf!Nothing /\ (cut' = cut \/ cut' = cut \ {"effort"})
  BY <1>1, <1>4
<1>6. /\ settings' \in Tables
      /\ UNCHANGED <<settings.provider, settings.model, settings.enabled, settings.embedder, settings.embedding>>
      /\ settings'.effort = body.effort \/ cut' = cut
  <2>1. CASE settings' = settings /\ cut' = cut
    BY <1>3, <2>1
  <2>2. CASE settings' = [settings EXCEPT !["effort"] = body["effort"]]
    <3>1. PICK v \in Efforts \cup {Sf!DefaultEffort} : v = body.effort
      BY <1>2
    <3>2. settings' = [settings EXCEPT !["effort"] = v]
      BY <1>2, <2>2, <3>1
    <3>3. /\ settings' \in Tables /\ settings'.effort = v
          /\ settings'.provider = settings.provider /\ settings'.model = settings.model
          /\ settings'.enabled = settings.enabled
          /\ settings'.embedder = settings.embedder /\ settings'.embedding = settings.embedding
      BY <1>3, <3>1, <3>2 DEF Tables
    <3> QED BY <3>1, <3>3
  <2> QED BY <1>1, <1>4, <2>1, <2>2
<1>7. FormsTyped'
  <2>1. \A c \in lateKeys' : c \in lateKeys \/ (c.kind = "effort" /\ c.key = "effort" /\ c.value = body.effort)
    BY <1>1, <1>4
  <2> QED BY <1>1, <1>2, <1>5, <1>6, <2>1 DEF FormsInv, FormsTyped, Sf!Free, Sf!Nothing
<1>8. UnderWayIsCut' /\ StoredIsTested'
  BY <1>5 DEF UnderWayIsCut, StoredIsTested, Sf!Free
<1>9. Sf!RunMeetsTested'
  <2>1. CASE cut' = cut
    BY <1>1, <1>3, <1>6, <2>1 DEF FormsInv, Sf!RunMeetsTested, Sf!EmbedderOf
  <2>2. CASE settings'.effort = body.effort /\ cut' = cut \ {"effort"}
    <3>1. ASSUME settings'.provider # Sf!NoLlm, ~besides', (cut' \cup overtaken') \cap {"llm", "effort"} = {}
          PROVE  <<settings'.provider, settings'.model, settings'.effort>> \in tested'
      BY <1>1, <1>3, <1>6, <2>2, <3>1 DEF EffortIsStored
    <3> QED BY <1>1, <1>6, <2>2, <3>1 DEF FormsInv, Sf!RunMeetsTested, Sf!EmbedderOf, Sf!LlmOf
  <2> QED BY <1>5, <1>6, <2>1, <2>2
<1> QED BY <1>1, <1>7, <1>8, <1>9 DEF FormsInv, ProbeIsOfForm

LEMMA StoreVoteForms ==
  ASSUME FormsInv, NEW fate \in Sf!Fates, Sf!StoreKey(fate), storing.body.kind = "vote"
  PROVE  FormsInv'
<1> DEFINE body == storing.body
           left == storing.left
<1>1. /\ body \in Sf!Bodies /\ left \in Rest(body.kind)
      /\ UNCHANGED <<probing, tested, besides, overtaken>>
      /\ \/ settings' = [settings EXCEPT ![Head(left)] = body[Head(left)]]
         \/ settings' = settings /\ storing' = Sf!Nothing /\ cut' = cut
      /\ \/ storing' = Sf!Nothing /\ cut' = cut
         \/ Len(left) = 1 /\ storing' = Sf!Nothing /\ cut' = cut \ {body.kind}
         \/ Len(left) # 1 /\ cut' = cut /\ storing' = [body |-> body, left |-> Tail(left)]
      /\ lateKeys' \subseteq
           lateKeys \cup {[kind |-> body.kind, key |-> Head(left), value |-> body[Head(left)]]}
  BY OneStatement
<1>2. /\ body.enabled \in BOOLEAN /\ body.embedder \in Embedders /\ body.embedding \in Models
      /\ body["enabled"] = body.enabled /\ body["embedder"] = body.embedder
      /\ body["embedding"] = body.embedding
  BY <1>1, BodyFields
<1>3. settings \in Tables /\ ("vote" \in cut \/ ~body.enabled) /\ VoteIsStored(body, left)
  BY DEF FormsInv, FormsTyped, UnderWayIsCut, StoredIsTested, Sf!StoreKey
<1> body.kind = "vote"
  OBVIOUS
<1> HIDE DEF body, left

<1>4. CASE left = <<"enabled", "embedder", "embedding">>
  <2>1. /\ cut' = cut
        /\ storing' = Sf!Nothing \/ storing' = [body |-> body, left |-> <<"embedder", "embedding">>]
    BY <1>1, <1>4
  <2>2. /\ settings' \in Tables
        /\ UNCHANGED <<settings.provider, settings.model, settings.effort, settings.embedder, settings.embedding>>
        /\ settings'.enabled = body.enabled \/ (settings' = settings /\ storing' = Sf!Nothing)
    <3>1. CASE settings' = settings /\ storing' = Sf!Nothing
      BY <1>3, <3>1
    <3>2. CASE settings' = [settings EXCEPT !["enabled"] = body["enabled"]]
      <4>1. PICK v \in BOOLEAN : v = body.enabled
        BY <1>2
      <4>2. settings' = [settings EXCEPT !["enabled"] = v]
        BY <1>2, <3>2, <4>1
      <4>3. /\ settings' \in Tables /\ settings'.enabled = v
            /\ settings'.provider = settings.provider
            /\ settings'.model = settings.model
            /\ settings'.effort = settings.effort
            /\ settings'.embedder = settings.embedder
            /\ settings'.embedding = settings.embedding
        BY <1>3, <4>1, <4>2 DEF Tables
      <4> QED BY <4>1, <4>3
    <3> QED BY <1>1, <1>4, <3>1, <3>2
  <2>3. FormsTyped'
    <3>1. \A c \in lateKeys' : c \in lateKeys \/ (c.kind = "vote" /\ c.key = "enabled" /\ c.value = body.enabled)
      BY <1>1, <1>4
    <3>2. ~Sf!Free' => storing'.body \in Sf!Bodies /\ storing'.left \in Rest(storing'.body.kind)
      BY <1>1, <2>1, <1>4 DEF Sf!Free, Rest
    <3> QED BY <1>1, <1>2, <2>1, <2>2, <3>1, <3>2 DEF FormsInv, FormsTyped, Sf!Free, Sf!Nothing
  <2>4. UnderWayIsCut'
    BY <1>3, <2>1 DEF UnderWayIsCut, Sf!Free
  <2>5. StoredIsTested'
    <3>1. CASE storing' = Sf!Nothing
      BY <3>1 DEF StoredIsTested, Sf!Free
    <3>2. CASE storing' = [body |-> body, left |-> <<"embedder", "embedding">>] /\ storing' # Sf!Nothing
      <4>1. storing'.body = body /\ storing'.left = <<"embedder", "embedding">>
        BY <3>2
      <4>2. PICK form : form = body
        OBVIOUS
      <4>3. VoteIsStored(form, <<"embedder", "embedding">>)'
        BY <1>1, <1>3, <1>4, <2>2, <3>2, <4>2 DEF VoteIsStored
      <4>4. VoteIsStored(storing.body, storing.left)'
        BY <4>1, <4>2, <4>3
      <4> QED BY <4>1, <4>4 DEF StoredIsTested, EffortIsStored, LlmIsStored
    <3> QED BY <2>1, <3>1, <3>2
  <2>6. Sf!RunMeetsTested'
    <3>1. \/ "vote" \in cut' \/ "vote" \in overtaken' \/ ~settings'.enabled
          \/ UNCHANGED settings
      BY <1>1, <1>3, <1>4, <2>1, <2>2 DEF VoteIsStored
    <3> QED BY <1>1, <2>1, <2>2, <3>1 DEF FormsInv, Sf!RunMeetsTested, Sf!EmbedderOf, Sf!LlmOf
  <2> QED BY <1>1, <2>3, <2>4, <2>5, <2>6 DEF FormsInv, ProbeIsOfForm
<1>5. CASE left = <<"embedder", "embedding">>
  <2>1. /\ cut' = cut
        /\ storing' = Sf!Nothing \/ storing' = [body |-> body, left |-> <<"embedding">>]
    BY <1>1, <1>5
  <2>2. /\ settings' \in Tables
        /\ UNCHANGED <<settings.provider, settings.model, settings.effort, settings.enabled, settings.embedding>>
        /\ settings'.embedder = body.embedder \/ (settings' = settings /\ storing' = Sf!Nothing)
    <3>1. CASE settings' = settings /\ storing' = Sf!Nothing
      BY <1>3, <3>1
    <3>2. CASE settings' = [settings EXCEPT !["embedder"] = body["embedder"]]
      <4>1. PICK v \in Embedders : v = body.embedder
        BY <1>2
      <4>2. settings' = [settings EXCEPT !["embedder"] = v]
        BY <1>2, <3>2, <4>1
      <4>3. /\ settings' \in Tables /\ settings'.embedder = v
            /\ settings'.provider = settings.provider
            /\ settings'.model = settings.model
            /\ settings'.effort = settings.effort
            /\ settings'.enabled = settings.enabled
            /\ settings'.embedding = settings.embedding
        BY <1>3, <4>1, <4>2 DEF Tables
      <4> QED BY <4>1, <4>3
    <3> QED BY <1>1, <1>5, <3>1, <3>2
  <2>3. FormsTyped'
    <3>1. \A c \in lateKeys' : c \in lateKeys \/ (c.kind = "vote" /\ c.key = "embedder" /\ c.value = body.embedder)
      BY <1>1, <1>5
    <3>2. ~Sf!Free' => storing'.body \in Sf!Bodies /\ storing'.left \in Rest(storing'.body.kind)
      BY <1>1, <2>1, <1>5 DEF Sf!Free, Rest
    <3> QED BY <1>1, <1>2, <2>1, <2>2, <3>1, <3>2 DEF FormsInv, FormsTyped, Sf!Free, Sf!Nothing
  <2>4. UnderWayIsCut'
    BY <1>3, <2>1 DEF UnderWayIsCut, Sf!Free
  <2>5. StoredIsTested'
    <3>1. CASE storing' = Sf!Nothing
      BY <3>1 DEF StoredIsTested, Sf!Free
    <3>2. CASE storing' = [body |-> body, left |-> <<"embedding">>] /\ storing' # Sf!Nothing
      <4>1. storing'.body = body /\ storing'.left = <<"embedding">>
        BY <3>2
      <4>2. PICK form : form = body
        OBVIOUS
      <4>3. VoteIsStored(form, <<"embedding">>)'
        BY <1>1, <1>3, <1>5, <2>2, <3>2, <4>2 DEF VoteIsStored
      <4>4. VoteIsStored(storing.body, storing.left)'
        BY <4>1, <4>2, <4>3
      <4> QED BY <4>1, <4>4 DEF StoredIsTested, EffortIsStored, LlmIsStored
    <3> QED BY <2>1, <3>1, <3>2
  <2>6. Sf!RunMeetsTested'
    <3>1. \/ "vote" \in cut' \/ "vote" \in overtaken' \/ ~settings'.enabled
          \/ UNCHANGED settings
      BY <1>1, <1>3, <1>5, <2>1, <2>2 DEF VoteIsStored
    <3> QED BY <1>1, <2>1, <2>2, <3>1 DEF FormsInv, Sf!RunMeetsTested, Sf!EmbedderOf, Sf!LlmOf
  <2> QED BY <1>1, <2>3, <2>4, <2>5, <2>6 DEF FormsInv, ProbeIsOfForm
<1>6. CASE left = <<"embedding">>
  <2>1. storing' = Sf!Nothing /\ (cut' = cut \/ cut' = cut \ {"vote"})
    BY <1>1, <1>6
  <2>2. /\ settings' \in Tables
        /\ UNCHANGED <<settings.provider, settings.model, settings.effort, settings.enabled, settings.embedder>>
        /\ settings'.embedding = body.embedding \/ (settings' = settings /\ cut' = cut)
    <3>1. CASE settings' = settings /\ cut' = cut
      BY <1>3, <3>1
    <3>2. CASE settings' = [settings EXCEPT !["embedding"] = body["embedding"]]
      <4>1. PICK v \in Models : v = body.embedding
        BY <1>2
      <4>2. settings' = [settings EXCEPT !["embedding"] = v]
        BY <1>2, <3>2, <4>1
      <4>3. /\ settings' \in Tables /\ settings'.embedding = v
            /\ settings'.provider = settings.provider
            /\ settings'.model = settings.model
            /\ settings'.effort = settings.effort
            /\ settings'.enabled = settings.enabled
            /\ settings'.embedder = settings.embedder
        BY <1>3, <4>1, <4>2 DEF Tables
      <4> QED BY <4>1, <4>3
    <3> QED BY <1>1, <1>6, <3>1, <3>2
  <2>3. FormsTyped'
    <3>1. \A c \in lateKeys' : c \in lateKeys \/ (c.kind = "vote" /\ c.key = "embedding" /\ c.value = body.embedding)
      BY <1>1, <1>6
    <3> QED BY <1>1, <1>2, <2>1, <2>2, <3>1 DEF FormsInv, FormsTyped, Sf!Free, Sf!Nothing
  <2>4. UnderWayIsCut' /\ StoredIsTested'
    BY <2>1 DEF UnderWayIsCut, StoredIsTested, Sf!Free
  <2>5. Sf!RunMeetsTested'
    <3>1. settings'.provider # Sf!NoLlm /\ ~besides' /\ (cut' \cup overtaken') \cap {"llm", "effort"} = {} =>
            Sf!LlmOf(settings') \in tested'
      BY <1>1, <2>1, <2>2 DEF FormsInv, Sf!RunMeetsTested, Sf!LlmOf
    <3>2. CASE settings'.embedding = body.embedding
      <4>1. "vote" \notin overtaken =>
              settings'.enabled = body.enabled /\ settings'.embedder = body.embedder
        BY <1>3, <1>6, <2>2 DEF VoteIsStored
      <4> QED BY <1>1, <1>3, <3>1, <3>2, <4>1 DEF VoteIsStored, Sf!RunMeetsTested, Sf!EmbedderOf
    <3>3. CASE settings' = settings /\ cut' = cut
      BY <1>1, <3>3 DEF FormsInv, Sf!RunMeetsTested
    <3> QED BY <2>2, <3>2, <3>3
  <2> QED BY <1>1, <2>3, <2>4, <2>5 DEF FormsInv, ProbeIsOfForm
<1> QED BY <1>1, <1>4, <1>5, <1>6 DEF Rest

LEMMA LateKeyForms ==
  ASSUME FormsInv, NEW c, Sf!LateRuns(c)
  PROVE  FormsInv'
<1>1. /\ c \in lateKeys /\ lateKeys' \subseteq lateKeys
      /\ settings' = [settings EXCEPT ![c.key] = c.value]
      /\ UNCHANGED <<probing, storing, tested, cut, besides>>
      /\ overtaken \subseteq overtaken'
      /\ settings[c.key] # c.value => c.kind \in overtaken'
  BY DEF Sf!LateRuns
<1>2. PICK v : v = c.value
  OBVIOUS
<1>3. settings \in Tables
  BY DEF FormsInv, FormsTyped
<1>4. /\ settings' \in Tables
      /\ c.kind # "llm" => UNCHANGED <<settings.provider, settings.model>>
      /\ c.kind # "effort" => UNCHANGED settings.effort
      /\ c.kind # "vote" => UNCHANGED <<settings.enabled, settings.embedder, settings.embedding>>
  BY <1>1, <1>3 DEF FormsInv, FormsTyped, Tables
<1>5. CASE settings[c.key] = c.value
  <2>1. settings' = settings
    BY <1>1, <1>3, <1>5 DEF FormsInv, FormsTyped, Tables
  <2> QED BY <1>1, <2>1 DEF FormsInv, FormsTyped, ProbeIsOfForm, UnderWayIsCut, StoredIsTested,
             LlmIsStored, EffortIsStored, VoteIsStored, Sf!Free, Sf!RunMeetsTested
<1>6. CASE c.kind \in overtaken'
  <2>1. c.kind \in {"llm", "effort", "vote"}
    BY <1>1 DEF FormsInv, FormsTyped
  <2>2. FormsTyped' /\ ProbeIsOfForm' /\ UnderWayIsCut'
    BY <1>1, <1>4 DEF FormsInv, FormsTyped, ProbeIsOfForm, UnderWayIsCut, Sf!Free
  <2>3. StoredIsTested'
    BY <1>1, <1>4, <1>6, <2>1 DEF FormsInv, StoredIsTested, LlmIsStored, EffortIsStored, VoteIsStored, Sf!Free
  <2>4. Sf!RunMeetsTested'
    BY <1>1, <1>4, <1>6, <2>1 DEF FormsInv, Sf!RunMeetsTested, Sf!LlmOf, Sf!EmbedderOf
  <2> QED BY <2>2, <2>3, <2>4 DEF FormsInv
<1> QED BY <1>1, <1>5, <1>6

LEMMA RestartForms ==
  ASSUME FormsInv, Sf!Restart
  PROVE  FormsInv'
BY DEF Sf!Restart, Sf!Nothing, FormsInv, FormsTyped, ProbeIsOfForm, UnderWayIsCut, StoredIsTested,
       Sf!Free, Sf!RunMeetsTested

LEMMA NextForms ==
  ASSUME FormsInv, [Sf!Next]_ofForms
  PROVE  FormsInv'
<1>1. CASE UNCHANGED ofForms
  BY <1>1 DEF ofForms, FormsInv, FormsTyped, ProbeIsOfForm, UnderWayIsCut, StoredIsTested,
     LlmIsStored, EffortIsStored, VoteIsStored, Sf!Free, Sf!RunMeetsTested
<1>2. ASSUME NEW fate \in Sf!Fates, Sf!StoreKey(fate) PROVE FormsInv'
  <2>1. storing.body.kind \in {"llm", "effort", "vote"}
    BY <1>2, OneStatement, BodyFields
  <2> QED BY <1>2, <2>1, StoreLlmForms, StoreEffortForms, StoreVoteForms
<1> QED BY <1>1, <1>2, SubmitForms, ProbeOkForms, ProbeFailsForms, LateKeyForms, RestartForms
        DEF Sf!Next

(* Whenever a run reads the settings, the LLM and the embedder it finds    *)
(* have answered a call, whatever forms were probed beside each other and  *)
(* whatever failed, a half-stored form apart (triage_server.py, "nothing   *)
(* is stored until a real call comes back").                               *)
THEOREM RunsMeetTested == ReaderSpec => []RunMeetsTested
<1>1. ReaderInit => FormsInv
  BY InitForms DEF ReaderInit
<1>2. FormsInv /\ [ReaderNext]_all => FormsInv'
  BY NextForms, PartSteps
<1>3. FormsInv => RunMeetsTested
  BY DEF FormsInv, RunMeetsTested
<1> QED BY <1>1, <1>2, <1>3, PTL DEF ReaderSpec

-----------------------------------------------------------------------------
(* The blind labels. *)

LEMMA InitLabels == ASSUME Bl!Init PROVE LabelsInv
<1>1. /\ clock = 0 /\ sample = {} /\ press = Bl!Idle /\ lateLabels = {} /\ landed = <<>>
      /\ labelled = [u \in Articles |-> [held |-> TRUE, vote |-> Bl!None, at |-> 0]]
      /\ drawer = [d \in Drawers |-> [pc |-> "idle", at |-> 0, urls |-> {}]]
  BY DEF Bl!Init
<1>2. DOMAIN landed = {} /\ landed \in [DOMAIN landed -> SUBSET Articles]
  BY <1>1
<1>3. press.at = 0 /\ press.pc = "idle" /\ press.url = Bl!None
  BY <1>1 DEF Bl!Idle
<1>4. LabelsTyped
  BY <1>1, <1>2, LabelsAssumption DEF LabelsTyped, Rows
<1>5. NothingIsAhead
  BY <1>1, <1>2, <1>3 DEF NothingIsAhead
<1>6. DrawsInv
  BY <1>1, <1>2 DEF DrawsInv, OneDraws
<1>7. OneAnswer
  BY <1>1, <1>3 DEF OneAnswer, Says
<1>8. PressIsNew /\ AnsweredAt /\ VotesThere
  BY <1>1, <1>2, <1>3 DEF PressIsNew, AnsweredAt, VotesThere
<1> QED BY <1>4, <1>5, <1>6, <1>7, <1>8 DEF LabelsInv, AnswersInv

(* The page's rows are those of the latest draw. *)
LEMMA CurrentIs ==
  ASSUME LabelsInv, ~redrawn, NEW m \in DOMAIN landed, Latest(m)
  PROVE  /\ DrawIsWhole(m)
         /\ Bl!Current = {s \in sample : s.draw = m}
<1>1. DOMAIN landed \subseteq Nat
  BY LabelsAssumption DEF LabelsInv, NothingIsAhead, LabelsTyped
<1>2. PICK k \in DOMAIN landed : Latest(k) /\ DrawIsWhole(k)
  BY DEF LabelsInv, DrawsInv
<1>3. k = m
  BY <1>1, <1>2 DEF Latest
<1>4. PICK s \in sample : s.draw = m
  BY <1>2, <1>3 DEF DrawIsWhole
<1>5. \A r \in sample : r.draw \in Nat /\ r.draw <= m
  BY <1>1 DEF LabelsInv, DrawsInv, Latest
<1>6. \A r \in sample : (\A q \in sample : q.draw <= r.draw) <=> r.draw = m
  BY <1>1, <1>4, <1>5
<1> QED BY <1>2, <1>3, <1>6 DEF Bl!Current, Bl!CurrentOf

(* The draws do not notice what the answers do. *)
LEMMA DrawsUntouched ==
  ASSUME LabelsInv, UNCHANGED <<drawer, landed, redrawn>>,
         \A s \in sample' : \E r \in sample : r.draw = s.draw /\ r.url = s.url,
         \A r \in sample : \E s \in sample' : r.draw = s.draw /\ r.url = s.url,
         \A c \in lateLabels' : c \in lateLabels \/ c.stmt # "delete"
  PROVE  DrawsInv'
<1>1. OneDraws'
  BY DEF LabelsInv, DrawsInv, OneDraws
<1>2. \A s \in sample' : s.draw \in DOMAIN landed'
  BY DEF LabelsInv, DrawsInv
<1>3. ASSUME ~redrawn', DOMAIN landed' # {}
      PROVE  \E m \in DOMAIN landed' : Latest(m)' /\ DrawIsWhole(m)'
  <2>1. PICK m \in DOMAIN landed : Latest(m) /\ DrawIsWhole(m)
    BY <1>3 DEF LabelsInv, DrawsInv
  <2>2. Latest(m)'
    BY <2>1 DEF Latest
  <2>3. DrawIsWhole(m)'
    BY <2>1 DEF DrawIsWhole
  <2> QED BY <2>1, <2>2, <2>3
<1> QED BY <1>1, <1>2, <1>3 DEF DrawsInv

(* No answer comes up that was not there. *)
LEMMA AnswersUntold ==
  ASSUME LabelsInv,
         \A at \in 1..MaxClock, u \in Articles, l \in Bl!Labels : Says(at, u, l)' => Says(at, u, l)
  PROVE  OneAnswer'
BY DEF LabelsInv, AnswersInv, OneAnswer

(* The answer the sample is given. *)
LEMMA AnsweredRows ==
  ASSUME sample \subseteq Sampled, NEW p, p.label \in Bl!Labels, p.at \in 1..MaxClock,
         NEW S, S = Bl!Answered(p)
  PROVE  /\ S \subseteq Sampled
         /\ \A s \in S : \/ s \in sample
                         \/ \E r \in Bl!Open(p) : /\ r.draw = s.draw /\ r.url = s.url /\ s.url = p.url
                                                  /\ s.label = p.label /\ s.at = p.at
         /\ \A s \in S : \E r \in sample : r.draw = s.draw /\ r.url = s.url
         /\ \A r \in sample : \E s \in S : r.draw = s.draw /\ r.url = s.url
<1> DEFINE New(s) == [s EXCEPT !.label = p.label, !.at = p.at]
<1>1. S = (sample \ Bl!Open(p)) \cup {New(s) : s \in Bl!Open(p)}
  BY DEF Bl!Answered
<1>2. \A r \in Bl!Open(p) : r \in sample /\ r \in Sampled /\ r.url = p.url
  BY DEF Bl!Open, Bl!Current, Bl!CurrentOf
<1>3. \A r \in Bl!Open(p) : /\ New(r) \in Sampled /\ New(r).draw = r.draw /\ New(r).url = r.url
                            /\ New(r).label = p.label /\ New(r).at = p.at
  <2>1. p.at \in 0..MaxClock /\ p.label \in Bl!Labels \cup {Bl!None}
    BY LabelsAssumption
  <2>2. ASSUME NEW r \in Sampled
        PROVE  /\ New(r) \in Sampled /\ New(r).draw = r.draw /\ New(r).url = r.url
               /\ New(r).label = p.label /\ New(r).at = p.at
    BY <2>1 DEF Sampled
  <2> QED BY <1>2, <2>2
<1> HIDE DEF New
<1>4. S \subseteq Sampled
  BY <1>1, <1>3
<1>5. \A r \in sample : \E s \in S : r.draw = s.draw /\ r.url = s.url
  <2>1. ASSUME NEW r \in sample PROVE \E s \in S : r.draw = s.draw /\ r.url = s.url
    <3>1. CASE r \in Bl!Open(p)
      BY <1>1, <1>3, <3>1
    <3>2. CASE r \notin Bl!Open(p)
      BY <1>1, <3>2
    <3> QED BY <3>1, <3>2
  <2> QED BY <2>1
<1>6. ASSUME NEW s \in S, s \notin sample
      PROVE  \E r \in Bl!Open(p) : /\ r.draw = s.draw /\ r.url = s.url /\ s.url = p.url
                                   /\ s.label = p.label /\ s.at = p.at
  <2>1. PICK r \in Bl!Open(p) : s = New(r)
    BY <1>1, <1>6
  <2> QED BY <1>2, <1>3, <2>1
<1>7. \A s \in S : \E r \in sample : r.draw = s.draw /\ r.url = s.url
  BY <1>2, <1>6
<1> QED BY <1>4, <1>5, <1>6, <1>7

(* The vote a row is given. *)
LEMMA RowVoted ==
  ASSUME labelled \in [Articles -> Rows], NEW u \in Articles, NEW v \in Answers, NEW at \in 0..MaxClock,
         labelled' = [labelled EXCEPT ![u] = Bl!Voted(@, v, at)]
  PROVE  /\ labelled' \in [Articles -> Rows]
         /\ \A w \in Articles : w # u => labelled'[w] = labelled[w]
         /\ labelled[u].held => labelled'[u].at = at /\ labelled'[u].vote = v
         /\ ~labelled[u].held => labelled'[u] = labelled[u]
<1>1. labelled'[u] = Bl!Voted(labelled[u], v, at)
  OBVIOUS
<1>2. Bl!Voted(labelled[u], v, at) \in Rows
  BY DEF Bl!Voted, Rows, Answers
<1> QED BY <1>1, <1>2 DEF Bl!Voted

(* The answers do not notice a draw that stores nothing. *)
LEMMA AnswersUntouched ==
  ASSUME LabelsInv, UNCHANGED <<sample, labelled, press, lateLabels, landed, redrawn, slipped>>
  PROVE  AnswersInv'
BY DEF LabelsInv, AnswersInv, OneAnswer, Says, PressIsNew, AnsweredAt, VotesThere, HasItsVote, Latest

LEMMA ReadPoolLabels ==
  ASSUME LabelsInv, NEW d \in Drawers, Bl!ReadPool(d)
  PROVE  LabelsInv'
<1>1. /\ drawer[d].pc = "idle" /\ \A f \in Drawers : drawer[f].pc \in {"idle", "over"}
      /\ UNCHANGED <<clock, sample, labelled, press, lateLabels, landed, redrawn, slipped>>
  BY DEF Bl!ReadPool
<1>2. PICK urls \in (SUBSET Articles) \ {{}} :
        drawer' = [drawer EXCEPT ![d] = [pc |-> "check", at |-> 0, urls |-> urls]]
  BY DEF Bl!ReadPool, Bl!Pool
<1>3. LabelsTyped'
  <2>1. drawer' \in [Drawers -> [pc : {"idle", "check", "insert", "delete", "over"},
                                 at : 0..MaxClock, urls : SUBSET Articles]]
    BY <1>2, LabelsAssumption DEF LabelsInv, LabelsTyped
  <2> QED BY <1>1, <2>1 DEF LabelsInv, LabelsTyped
<1>4. /\ drawer'[d].pc = "check" /\ drawer'[d].urls # {} /\ drawer'[d].at = 0
      /\ \A f \in Drawers : f # d => drawer'[f] = drawer[f]
  BY <1>2 DEF LabelsInv, LabelsTyped
<1>5. NothingIsAhead'
  BY <1>1, <1>4 DEF LabelsInv, LabelsTyped, NothingIsAhead
<1>6. DrawsInv'
  <2>1. OneDraws'
    BY <1>1, <1>4 DEF OneDraws
  <2> QED BY <1>1, <2>1 DEF LabelsInv, DrawsInv, DrawIsWhole, Latest
<1> QED BY <1>1, <1>3, <1>5, <1>6, AnswersUntouched DEF LabelsInv

LEMMA CheckKeptLabels ==
  ASSUME LabelsInv, NEW d \in Drawers, Bl!CheckKept(d)
  PROVE  LabelsInv'
<1>1. /\ drawer[d].pc = "check" /\ clock < MaxClock /\ clock' = clock + 1
      /\ UNCHANGED <<sample, labelled, press, lateLabels, landed, redrawn, slipped>>
  BY DEF Bl!CheckKept
<1>2. PICK to \in {"over", "insert"} :
        drawer' = [drawer EXCEPT ![d].at = clock + 1, ![d].pc = to]
  BY <1>1 DEF Bl!CheckKept
<1>3. clock \in 0..MaxClock /\ clock + 1 \in 0..MaxClock /\ clock + 1 >= 1
  BY <1>1, LabelsAssumption DEF LabelsInv, LabelsTyped
<1>4. /\ drawer' \in [Drawers -> [pc : {"idle", "check", "insert", "delete", "over"},
                                  at : 0..MaxClock, urls : SUBSET Articles]]
      /\ drawer'[d].pc = to /\ drawer'[d].at = clock + 1 /\ drawer'[d].urls = drawer[d].urls
      /\ \A f \in Drawers : f # d => drawer'[f] = drawer[f]
  BY <1>2, <1>3 DEF LabelsInv, LabelsTyped
<1>5. LabelsTyped'
  BY <1>1, <1>3, <1>4 DEF LabelsInv, LabelsTyped
<1>6. NothingIsAhead'
  <2>1. \A x \in 0..MaxClock : x <= clock => x <= clock + 1
    BY <1>3
  <2>2. DOMAIN landed \subseteq 1..(clock + 1)
    BY <1>3 DEF LabelsInv, NothingIsAhead
  <2>3. press.at \in 0..MaxClock
    BY LabelsAssumption DEF LabelsInv, LabelsTyped, Bl!Idle
  <2>4. /\ \A s \in sample : s.at <= clock + 1
        /\ \A c \in lateLabels : c.at <= clock + 1
    BY <1>3 DEF LabelsInv, LabelsTyped, NothingIsAhead, Sampled, Latecomers
  <2>5. \A f \in Drawers : drawer'[f].at <= clock + 1
    BY <1>3, <1>4 DEF LabelsInv, LabelsTyped, NothingIsAhead
  <2> QED BY <1>1, <2>1, <2>2, <2>3, <2>4, <2>5 DEF LabelsInv, NothingIsAhead
<1>7. DrawsInv'
  <2>1. \A x \in DOMAIN landed : x < clock + 1
    BY <1>3 DEF LabelsInv, NothingIsAhead
  <2>2. \A f \in Drawers : f # d => drawer[f].pc \in {"idle", "over"}
    BY <1>1 DEF LabelsInv, DrawsInv, OneDraws
  <2>3. OneDraws'
    BY <1>1, <1>3, <1>4, <2>1, <2>2 DEF LabelsInv, DrawsInv, OneDraws
  <2> QED BY <1>1, <2>3 DEF LabelsInv, DrawsInv, DrawIsWhole, Latest
<1> QED BY <1>1, <1>5, <1>6, <1>7, AnswersUntouched DEF LabelsInv

LEMMA InsertDrawLabels ==
  ASSUME LabelsInv, NEW d \in Drawers, NEW fate \in Bl!Fates, Bl!InsertDraw(d, fate)
  PROVE  LabelsInv'
<1>1. /\ drawer[d].pc = "insert"
      /\ UNCHANGED <<clock, labelled, press, lateLabels, slipped>>
  BY DEF Bl!InsertDraw
<1>2. PICK to \in {"delete", "over"} :
        drawer' = [drawer EXCEPT ![d].pc = to] /\ (to = "delete" => Bl!Ran(fate))
  BY DEF Bl!InsertDraw, Bl!Ran
<1>3. /\ drawer' \in [Drawers -> [pc : {"idle", "check", "insert", "delete", "over"},
                                  at : 0..MaxClock, urls : SUBSET Articles]]
      /\ drawer'[d].pc = to /\ drawer'[d].at = drawer[d].at /\ drawer'[d].urls = drawer[d].urls
      /\ \A f \in Drawers : f # d => drawer'[f] = drawer[f]
  BY <1>2 DEF LabelsInv, LabelsTyped
<1>4. PICK at, urls : at = drawer[d].at /\ urls = drawer[d].urls
  OBVIOUS
<1>5. /\ at \in 1..MaxClock /\ at <= clock /\ urls # {} /\ urls \subseteq Articles
      /\ \A x \in DOMAIN landed : x < at
  BY <1>1, <1>4, LabelsAssumption DEF LabelsInv, LabelsTyped, DrawsInv, OneDraws, NothingIsAhead
<1>6. \A f \in Drawers : f # d => drawer[f].pc \in {"idle", "over"}
  BY <1>1 DEF LabelsInv, DrawsInv, OneDraws
<1>7. CASE ~Bl!Ran(fate)
  <2>1. UNCHANGED <<sample, landed, redrawn>> /\ to = "over"
    BY <1>2, <1>7 DEF Bl!InsertDraw
  <2>2. OneDraws'
    BY <1>3, <1>6, <2>1 DEF LabelsInv, DrawsInv, OneDraws
  <2>3. DrawsInv'
    BY <1>1, <2>1, <2>2 DEF LabelsInv, DrawsInv, DrawIsWhole, Latest
  <2>4. LabelsTyped'
    BY <1>1, <1>3, <2>1 DEF LabelsInv, LabelsTyped
  <2>5. NothingIsAhead'
    BY <1>1, <1>3, <2>1 DEF LabelsInv, NothingIsAhead
  <2> QED BY <1>1, <2>1, <2>3, <2>4, <2>5, AnswersUntouched DEF LabelsInv
<1>8. CASE Bl!Ran(fate)
  <2> DEFINE Row(u) == [draw |-> at, url |-> u, label |-> Bl!None, at |-> 0]
  <2>1. /\ sample' = sample \cup {Row(u) : u \in urls}
        /\ landed' = [x \in DOMAIN landed \cup {at} |-> IF x = at THEN urls ELSE landed[x]]
    BY <1>4, <1>8 DEF Bl!InsertDraw
  <2>2. redrawn \/ (\E c \in lateLabels : c.stmt = "delete") => redrawn'
    BY <1>8 DEF Bl!InsertDraw
  <2>3. \A u \in urls : Row(u) \in Sampled /\ Row(u).draw = at /\ Row(u).url = u
                        /\ Row(u).label = Bl!None /\ Row(u).at = 0
    BY <1>5, LabelsAssumption DEF Sampled
  <2> HIDE DEF Row
  <2>4. /\ DOMAIN landed' = DOMAIN landed \cup {at} /\ landed'[at] = urls
        /\ landed' \in [DOMAIN landed' -> SUBSET Articles]
    BY <1>5, <2>1 DEF LabelsInv, LabelsTyped
  <2>5. /\ sample' \subseteq Sampled
        /\ \A s \in sample' : s \in sample \/ (s.draw = at /\ s.url \in urls /\ s.label = Bl!None /\ s.at = 0)
        /\ \A u \in urls : \E s \in sample' : s.draw = at /\ s.url = u
    BY <2>1, <2>3 DEF LabelsInv, LabelsTyped
  <2>6. \A s \in sample : s.draw # at
    BY <1>5 DEF LabelsInv, DrawsInv
  <2>7. LabelsTyped'
    BY <1>1, <1>3, <2>4, <2>5 DEF LabelsInv, LabelsTyped
  <2>8. NothingIsAhead'
    <3>1. \A s \in sample' : s.at <= clock
      BY <2>5 DEF LabelsInv, LabelsTyped, NothingIsAhead
    <3>2. DOMAIN landed' \subseteq 1..clock
      BY <1>5, <2>4 DEF LabelsInv, NothingIsAhead
    <3> QED BY <1>1, <1>3, <3>1, <3>2 DEF LabelsInv, NothingIsAhead
  <2>9. \A x \in DOMAIN landed' : x \in Int /\ x <= at /\ (x = at \/ x < at)
    <3>1. DOMAIN landed \subseteq Int /\ at \in Int
      BY <1>5 DEF LabelsInv, NothingIsAhead
    <3> QED BY <1>5, <2>4, <3>1
  <2>10. DrawsInv'
    <3>1. OneDraws'
      BY <1>3, <1>4, <1>6, <2>4, <2>9 DEF OneDraws
    <3>2. \A s \in sample' : s.draw \in DOMAIN landed'
      BY <2>4, <2>5 DEF LabelsInv, DrawsInv
    <3>3. ASSUME ~redrawn' PROVE Latest(at)' /\ DrawIsWhole(at)'
      <4>1. Latest(at)'
        BY <2>4, <2>9 DEF Latest
      <4>2. \A c \in lateLabels : c.stmt # "delete"
        BY <2>2, <3>3
      <4>3. DrawIsWhole(at)'
        BY <1>1, <1>5, <2>4, <2>5, <2>6, <4>2 DEF DrawIsWhole
      <4> QED BY <4>1, <4>3
    <3> QED BY <2>4, <3>1, <3>2, <3>3 DEF DrawsInv
  <2>11. OneAnswer'
    <3>1. ASSUME NEW x \in 1..MaxClock, NEW u \in Articles, NEW l \in Bl!Labels, Says(x, u, l)'
          PROVE  Says(x, u, l)
      <4>1. x # 0
        BY <3>1
      <4> QED BY <1>1, <2>5, <3>1, <4>1 DEF Says
    <3> QED BY <3>1, AnswersUntold
  <2>12. PressIsNew'
    <3>1. press.pc # "idle" => press.at \in 1..MaxClock
      BY DEF LabelsInv, LabelsTyped, Bl!Idle
    <3>2. press.pc # "idle" => press.at # 0 /\ 0 <= press.at
      BY <3>1
    <3>3. /\ press.pc # "idle" => \A s \in sample' : s.at <= press.at
          /\ press.pc = "record" => \A s \in sample' : s.at # press.at
      BY <2>5, <3>2 DEF LabelsInv, AnswersInv, PressIsNew
    <3> QED BY <1>1, <3>3 DEF LabelsInv, AnswersInv, PressIsNew
  <2>13. AnsweredAt'
    <3>1. Bl!None \notin Bl!Labels
      BY DEF Bl!None, Bl!Labels
    <3> QED BY <1>1, <2>5, <3>1 DEF LabelsInv, AnswersInv, AnsweredAt
  <2>14. VotesThere'
    <3>1. ASSUME NEW m \in DOMAIN landed', Latest(m)', NEW s \in sample', s.draw = m PROVE HasItsVote(s)'
      <4>1. m = at
        <5>1. at \in DOMAIN landed' /\ m <= at /\ m \in Int /\ at \in Int
          BY <2>4, <2>9, <3>1
        <5>2. at <= m
          BY <3>1, <5>1 DEF Latest
        <5> QED BY <5>1, <5>2
      <4>2. s.label = Bl!None
        BY <2>5, <2>6, <3>1, <4>1
      <4> QED BY <4>2 DEF HasItsVote, Answers, Bl!None
    <3> QED BY <3>1 DEF VotesThere
  <2> QED BY <2>7, <2>8, <2>10, <2>11, <2>12, <2>13, <2>14 DEF LabelsInv, AnswersInv
<1> QED BY <1>7, <1>8

(* Rows of earlier draws go. *)
LEMMA RowsOfDrawStay ==
  ASSUME LabelsInv, NEW at, sample' = {s \in sample : s.draw = at},
         ~redrawn /\ DOMAIN landed # {} => Latest(at),
         UNCHANGED <<landed, redrawn>>,
         \A c \in lateLabels' : c \in lateLabels \/ (c.stmt = "delete" /\ c.at = at)
  PROVE  /\ \A s \in sample' : s.draw \in DOMAIN landed'
         /\ ~redrawn' /\ DOMAIN landed' # {} =>
              \E m \in DOMAIN landed' : Latest(m)' /\ DrawIsWhole(m)'
<1>1. \A s \in sample' : s.draw \in DOMAIN landed'
  BY DEF LabelsInv, DrawsInv
<1>2. ASSUME ~redrawn', DOMAIN landed' # {}
      PROVE  \E m \in DOMAIN landed' : Latest(m)' /\ DrawIsWhole(m)'
  <2>1. at \in DOMAIN landed /\ Latest(at)
    BY <1>2 DEF Latest
  <2>2. DrawIsWhole(at)
    BY <1>2, <2>1, CurrentIs
  <2>3. Latest(at)' /\ DrawIsWhole(at)'
    BY <2>1, <2>2 DEF Latest, DrawIsWhole
  <2> QED BY <2>1, <2>3
<1> QED BY <1>1, <1>2

LEMMA VotesOfRowsStay ==
  ASSUME LabelsInv, sample' \subseteq sample,
         UNCHANGED <<landed, redrawn, labelled, press>>, slipped \subseteq slipped'
  PROVE  VotesThere'
BY DEF LabelsInv, AnswersInv, VotesThere, HasItsVote, Latest

LEMMA DeleteOthersLabels ==
  ASSUME LabelsInv, NEW d \in Drawers, NEW fate \in Bl!Fates, Bl!DeleteOthers(d, fate)
  PROVE  LabelsInv'
<1>1. /\ drawer[d].pc = "delete" /\ drawer' = [drawer EXCEPT ![d].pc = "over"]
      /\ UNCHANGED <<clock, labelled, press, landed, redrawn, slipped>>
  BY DEF Bl!DeleteOthers
<1>2. /\ drawer' \in [Drawers -> [pc : {"idle", "check", "insert", "delete", "over"},
                                  at : 0..MaxClock, urls : SUBSET Articles]]
      /\ drawer'[d].pc = "over" /\ drawer'[d].at = drawer[d].at
      /\ \A f \in Drawers : f # d => drawer'[f] = drawer[f]
  BY <1>1 DEF LabelsInv, LabelsTyped
<1>3. PICK at : at = drawer[d].at
  OBVIOUS
<1>4. Latest(at) /\ at \in 1..MaxClock /\ at <= clock
  BY <1>1, <1>3, LabelsAssumption
     DEF LabelsInv, LabelsTyped, DrawsInv, OneDraws, Latest, NothingIsAhead
<1>5. sample' = sample \/ sample' = {s \in sample : s.draw = at}
  BY <1>3 DEF Bl!DeleteOthers
<1>6. lateLabels' \subseteq
        lateLabels \cup {[stmt |-> "delete", url |-> Bl!None, label |-> Bl!None, at |-> at]}
  BY <1>3 DEF Bl!DeleteOthers
<1>7. \A c \in lateLabels' : c \in lateLabels \/ (c.stmt = "delete" /\ c.at = at)
  BY <1>6
<1>8. LabelsTyped'
  <2>1. [stmt |-> "delete", url |-> Bl!None, label |-> Bl!None, at |-> at] \in Latecomers
    BY <1>4 DEF Latecomers
  <2>2. sample' \subseteq Sampled /\ lateLabels' \subseteq Latecomers
    BY <1>5, <1>6, <2>1 DEF LabelsInv, LabelsTyped
  <2> QED BY <1>1, <1>2, <2>2 DEF LabelsInv, LabelsTyped
<1>9. NothingIsAhead'
  BY <1>1, <1>2, <1>4, <1>5, <1>7 DEF LabelsInv, NothingIsAhead
<1>10. DrawsInv'
  <2>1. OneDraws'
    BY <1>1, <1>2 DEF LabelsInv, DrawsInv, OneDraws
  <2>2. CASE sample' = {s \in sample : s.draw = at}
    BY <1>1, <1>4, <1>7, <2>1, <2>2, RowsOfDrawStay DEF DrawsInv
  <2>3. CASE sample' = sample
    <3>1. ASSUME ~redrawn', DOMAIN landed' # {}
          PROVE  \E m \in DOMAIN landed' : Latest(m)' /\ DrawIsWhole(m)'
      <4>1. at \in DOMAIN landed /\ DrawIsWhole(at)
        BY <1>1, <1>4, <3>1, CurrentIs DEF Latest
      <4>2. Latest(at)' /\ DrawIsWhole(at)'
        BY <1>1, <1>4, <1>7, <2>3, <4>1 DEF Latest, DrawIsWhole
      <4> QED BY <1>1, <4>1, <4>2
    <3> QED BY <1>1, <2>1, <2>3, <3>1 DEF LabelsInv, DrawsInv
  <2> QED BY <1>5, <2>2, <2>3
<1>11. OneAnswer'
  <2>1. ASSUME NEW x \in 1..MaxClock, NEW u \in Articles, NEW l \in Bl!Labels, Says(x, u, l)'
        PROVE  Says(x, u, l)
    BY <1>1, <1>5, <1>7, <2>1 DEF Says
  <2> QED BY <2>1, AnswersUntold
<1>12. PressIsNew' /\ AnsweredAt'
  BY <1>1, <1>5, <1>7 DEF LabelsInv, AnswersInv, PressIsNew, AnsweredAt
<1>13. VotesThere'
  BY <1>1, <1>5, VotesOfRowsStay
<1> QED BY <1>8, <1>9, <1>10, <1>11, <1>12, <1>13 DEF LabelsInv, AnswersInv

LEMMA PressLabels ==
  ASSUME LabelsInv, NEW u \in Articles, NEW l \in Bl!Labels, Bl!Press(u, l)
  PROVE  LabelsInv'
<1>1. /\ press.pc = "idle" /\ clock < MaxClock /\ clock' = clock + 1
      /\ press' = [pc |-> "record", url |-> u, label |-> l, at |-> clock + 1]
      /\ UNCHANGED <<sample, labelled, drawer, landed, redrawn, lateLabels, slipped>>
  BY DEF Bl!Press, Bl!draws
<1>2. clock \in 0..MaxClock /\ clock + 1 \in 1..MaxClock /\ clock + 1 \in 0..MaxClock
  BY <1>1, LabelsAssumption DEF LabelsInv, LabelsTyped
<1>3. /\ press'.pc = "record" /\ press'.at = clock + 1 /\ press'.url = u /\ press'.label = l
      /\ press' \in [pc : {"record"}, url : Articles, label : Bl!Labels, at : 1..MaxClock]
  BY <1>1, <1>2
<1>4. LabelsTyped'
  BY <1>1, <1>2, <1>3 DEF LabelsInv, LabelsTyped
<1>5. /\ \A s \in sample : s.at \in Nat /\ s.at <= clock
      /\ \A c \in lateLabels : c.at \in Nat /\ c.at <= clock
  <2>1. /\ \A s \in sample : s.at \in 0..MaxClock
        /\ \A c \in lateLabels : c.at \in 1..MaxClock
    BY DEF LabelsInv, LabelsTyped, Sampled, Latecomers
  <2> QED BY <2>1, LabelsAssumption DEF LabelsInv, NothingIsAhead
<1>6. NothingIsAhead'
  <2>1. \A f \in Drawers : drawer[f].at <= clock + 1
    BY <1>2 DEF LabelsInv, LabelsTyped, NothingIsAhead
  <2>2. DOMAIN landed \subseteq 1..(clock + 1)
    BY <1>2 DEF LabelsInv, NothingIsAhead
  <2>3. /\ \A s \in sample : s.at <= clock + 1
        /\ \A c \in lateLabels : c.at <= clock + 1
        /\ clock + 1 <= clock + 1
    BY <1>2, <1>5
  <2> QED BY <1>1, <1>3, <2>1, <2>2, <2>3 DEF NothingIsAhead
<1>7. DrawsInv'
  BY <1>1, DrawsUntouched
<1>8. /\ \A s \in sample : s.at # clock + 1 /\ s.at <= clock + 1
      /\ \A c \in lateLabels : c.at # clock + 1 /\ c.at <= clock + 1
  BY <1>2, <1>5
<1>9. OneAnswer'
  <2>1. ASSUME NEW x \in 1..MaxClock, NEW w \in Articles, NEW k \in Bl!Labels, Says(x, w, k)'
        PROVE  IF x = clock + 1 THEN w = u /\ k = l ELSE Says(x, w, k)
    BY <1>1, <1>3, <1>8, <2>1 DEF Says
  <2> QED BY <2>1 DEF LabelsInv, AnswersInv, OneAnswer
<1>10. PressIsNew' /\ AnsweredAt'
  BY <1>1, <1>3, <1>8 DEF LabelsInv, AnswersInv, PressIsNew, AnsweredAt
<1>11. VotesThere'
  <2>1. press.at = 0
    BY <1>1 DEF LabelsInv, LabelsTyped, Bl!Idle
  <2>2. ASSUME NEW s \in sample, HasItsVote(s) PROVE HasItsVote(s)'
    <3>1. s.label \in Answers => s.at # 0
      BY DEF LabelsInv, LabelsTyped, AnswersInv, AnsweredAt, Answers, Bl!Labels
    <3> QED BY <1>1, <2>1, <2>2, <3>1 DEF HasItsVote
  <2> QED BY <1>1, <2>2 DEF LabelsInv, AnswersInv, VotesThere, Latest
<1> QED BY <1>4, <1>6, <1>7, <1>9, <1>10, <1>11 DEF LabelsInv, AnswersInv

(* The request the server is at work on. *)
LEMMA PressTyped ==
  ASSUME LabelsInv, press.pc # "idle"
  PROVE  /\ press.url \in Articles /\ press.label \in Bl!Labels /\ press.at \in 1..MaxClock
         /\ press.at \in 0..MaxClock /\ press.at # 0 /\ press.at <= clock
         /\ press.pc \in {"vote", "release"} => press.label \in Answers
         /\ press = [pc |-> press.pc, url |-> press.url, label |-> press.label, at |-> press.at]
<1>1. press # Bl!Idle
  BY DEF Bl!Idle
<1>2. press.url \in Articles /\ press.label \in Bl!Labels /\ press.at \in 1..MaxClock
  BY <1>1 DEF LabelsInv, LabelsTyped, Answers, Bl!Labels
<1>3. press.pc \in {"vote", "release"} => press.label \in Answers
  BY <1>1 DEF LabelsInv, LabelsTyped
<1>4. press = [pc |-> press.pc, url |-> press.url, label |-> press.label, at |-> press.at]
  BY <1>1 DEF LabelsInv, LabelsTyped
<1>5. press.at \in 0..MaxClock /\ press.at # 0
  BY <1>2, LabelsAssumption
<1> QED BY <1>2, <1>3, <1>4, <1>5 DEF LabelsInv, NothingIsAhead

LEMMA RecordLabels ==
  ASSUME LabelsInv, NEW fate \in Bl!Fates, Bl!Record(fate)
  PROVE  LabelsInv'
<1> DEFINE Late == [stmt |-> "record", url |-> press.url, label |-> press.label, at |-> press.at]
<1>1. /\ press.pc = "record"
      /\ sample' = Bl!Answered(press) \/ (sample' = sample /\ fate # "done")
      /\ fate = "late" => press.at \in slipped'
      /\ fate # "done" => press.at \in slipped'
      /\ slipped \subseteq slipped'
      /\ UNCHANGED <<clock, labelled, drawer, landed, redrawn>>
  BY DEF Bl!Record, Bl!draws, Bl!Ran
<1>2. lateLabels' = lateLabels \/ (fate = "late" /\ lateLabels' = lateLabels \cup {Late})
  BY DEF Bl!Record
<1>3. \/ press' = Bl!Idle /\ (fate # "done" \/ Bl!Open(press) = {} \/ press.label = "skip")
      \/ press' = [press EXCEPT !.pc = "vote"] /\ press.label # "skip"
  BY DEF Bl!Record
<1>4. /\ press.url \in Articles /\ press.label \in Bl!Labels /\ press.at \in 1..MaxClock
      /\ press.at \in 0..MaxClock /\ press.at # 0 /\ press.at <= clock
  BY <1>1, PressTyped
<1>5. PICK p : p = press
  OBVIOUS
<1>6. /\ sample' \subseteq Sampled
      /\ \A s \in sample' : s \in sample \/ (s.at = press.at /\ s.url = press.url /\ s.label = press.label
                                              /\ Bl!Open(press) # {})
      /\ \A s \in sample' : \E r \in sample : r.draw = s.draw /\ r.url = s.url
      /\ \A r \in sample : \E s \in sample' : r.draw = s.draw /\ r.url = s.url
  <2>1. CASE sample' = Bl!Answered(press)
    <3>1. PICK S : S = Bl!Answered(p)
      OBVIOUS
    <3>2. /\ S \subseteq Sampled
          /\ \A s \in S : \/ s \in sample
                          \/ \E r \in Bl!Open(p) : /\ r.draw = s.draw /\ r.url = s.url /\ s.url = p.url
                                                   /\ s.label = p.label /\ s.at = p.at
          /\ \A s \in S : \E r \in sample : r.draw = s.draw /\ r.url = s.url
          /\ \A r \in sample : \E s \in S : r.draw = s.draw /\ r.url = s.url
      BY <1>4, <1>5, <3>1, AnsweredRows DEF LabelsInv, LabelsTyped
    <3>3. S = sample'
      BY <1>5, <2>1, <3>1
    <3> QED BY <1>5, <3>2, <3>3
  <2>2. CASE sample' = sample
    BY <2>2 DEF LabelsInv, LabelsTyped
  <2> QED BY <1>1, <2>1, <2>2
<1>7. \/ press' = Bl!Idle /\ press'.at = 0 /\ press'.pc = "idle"
         /\ (fate # "done" \/ Bl!Open(press) = {} \/ press.label = "skip")
      \/ press'.at = press.at /\ press'.pc = "vote" /\ press'.url = press.url /\ press'.label = press.label
         /\ press' = [pc |-> "vote", url |-> press.url, label |-> press.label, at |-> press.at]
         /\ press.label \in Answers
  <2>1. press = [pc |-> press.pc, url |-> press.url, label |-> press.label, at |-> press.at]
    BY <1>1, PressTyped
  <2>2. CASE press' = Bl!Idle /\ (fate # "done" \/ Bl!Open(press) = {} \/ press.label = "skip")
    BY <2>2 DEF Bl!Idle
  <2>3. CASE press' = [press EXCEPT !.pc = "vote"] /\ press.label # "skip"
    <3>1. press' = [pc |-> "vote", url |-> press.url, label |-> press.label, at |-> press.at]
      BY <2>1, <2>3
    <3> QED BY <1>4, <2>3, <3>1 DEF Answers, Bl!Labels
  <2> QED BY <1>3, <2>2, <2>3
<1>8. Late \in Latecomers /\ Late.stmt = "record" /\ Late.at = press.at /\ Late.url = press.url
      /\ Late.label = press.label
  BY <1>4 DEF Latecomers
<1> HIDE DEF Late
<1>9. \A c \in lateLabels' : c \in lateLabels \/ (c = Late /\ fate = "late")
  BY <1>2
<1>10. LabelsTyped'
  <2>1. lateLabels' \subseteq Latecomers
    BY <1>8, <1>9 DEF LabelsInv, LabelsTyped
  <2>2. \/ press' = Bl!Idle
        \/ press' \in [pc : {"vote", "release"}, url : Articles, label : Answers, at : 1..MaxClock]
    BY <1>4, <1>7
  <2> QED BY <1>1, <1>6, <2>1, <2>2 DEF LabelsInv, LabelsTyped
<1>11. NothingIsAhead'
  <2>1. press'.at <= clock
    BY <1>4, <1>7 DEF LabelsInv, LabelsTyped
  <2>2. /\ \A s \in sample' : s.at <= clock
        /\ \A c \in lateLabels' : c.at <= clock
    BY <1>4, <1>6, <1>8, <1>9 DEF LabelsInv, NothingIsAhead
  <2> QED BY <1>1, <2>1, <2>2 DEF LabelsInv, NothingIsAhead
<1>12. DrawsInv'
  <2>1. \A c \in lateLabels' : c \in lateLabels \/ c.stmt # "delete"
    BY <1>8, <1>9
  <2> QED BY <1>1, <1>6, <2>1, DrawsUntouched
<1>13. OneAnswer'
  <2>1. ASSUME NEW x \in 1..MaxClock, NEW u \in Articles, NEW l \in Bl!Labels, Says(x, u, l)'
        PROVE  Says(x, u, l)
    <3>1. x # 0
      OBVIOUS
    <3> QED BY <1>6, <1>7, <1>8, <1>9, <2>1, <3>1 DEF Says
  <2> QED BY <2>1, AnswersUntold
<1>14. PressIsNew'
  <2>1. press'.pc # "record" /\ (press'.pc # "idle" => press'.at = press.at)
    BY <1>7
  <2>2. /\ \A s \in sample' : s.at <= press.at
        /\ \A c \in lateLabels' : c.stmt = "record" => c.at <= press.at
    BY <1>1, <1>4, <1>6, <1>8, <1>9 DEF LabelsInv, AnswersInv, PressIsNew
  <2> QED BY <2>1, <2>2 DEF PressIsNew
<1>15. AnsweredAt'
  <2>1. press.label # Bl!None /\ press.at >= 1
    BY <1>4 DEF Bl!Labels, Bl!None
  <2> QED BY <1>1, <1>6, <1>8, <1>9, <2>1 DEF LabelsInv, AnswersInv, AnsweredAt
<1>16. VotesThere'
  <2>1. ASSUME NEW s \in sample', s \in sample, HasItsVote(s) PROVE HasItsVote(s)'
    <3>1. s.at # press.at
      BY <1>1, <2>1 DEF LabelsInv, AnswersInv, PressIsNew
    <3> QED BY <1>1, <2>1, <3>1 DEF HasItsVote
  <2>2. ASSUME NEW s \in sample', s \notin sample PROVE HasItsVote(s)'
    <3>1. s.at = press.at /\ s.label = press.label /\ Bl!Open(press) # {}
      BY <1>6, <2>2
    <3>2. s.label = "skip" \/ s.at \in slipped' \/ press'.at = s.at
      BY <1>1, <1>7, <3>1
    <3> QED BY <3>2 DEF HasItsVote, Answers
  <2> QED BY <1>1, <2>1, <2>2, <1>6 DEF LabelsInv, AnswersInv, VotesThere, Latest
<1> QED BY <1>10, <1>11, <1>12, <1>13, <1>14, <1>15, <1>16 DEF LabelsInv, AnswersInv

LEMMA VoteLabels ==
  ASSUME LabelsInv, NEW fate \in Bl!Fates, Bl!Vote(fate)
  PROVE  LabelsInv'
<1> DEFINE Late == [stmt |-> "vote", url |-> press.url, label |-> press.label, at |-> press.at]
<1>1. /\ press.pc = "vote" /\ slipped \subseteq slipped'
      /\ ~labelled[press.url].held => press.at \in slipped'
      /\ UNCHANGED <<clock, sample, drawer, landed, redrawn>>
  BY DEF Bl!Vote, Bl!draws
<1>2. lateLabels' = lateLabels \/ lateLabels' = lateLabels \cup {Late}
  BY DEF Bl!Vote
<1>3. /\ press.url \in Articles /\ press.label \in Answers /\ press.at \in 1..MaxClock
      /\ press.at \in 0..MaxClock /\ press.at # 0 /\ press.at <= clock /\ press.label \in Bl!Labels
      /\ press = [pc |-> press.pc, url |-> press.url, label |-> press.label, at |-> press.at]
  BY <1>1, PressTyped
<1>4. PICK u, l, at : u = press.url /\ l = press.label /\ at = press.at
  OBVIOUS
<1>5. \/ labelled' = [labelled EXCEPT ![u] = Bl!Voted(@, l, at)]
      \/ labelled' = labelled /\ Bl!Raises(fate)
  BY <1>4 DEF Bl!Vote, Bl!Ran, Bl!Raises
<1>6. /\ labelled' \in [Articles -> Rows]
      /\ \A w \in Articles : \/ labelled'[w] = labelled[w]
                             \/ w = u /\ labelled'[w].at = at /\ labelled'[w].vote = l
      /\ ~Bl!Raises(fate) /\ labelled[u].held => labelled'[u].at = at /\ labelled'[u].vote = l
  <2>1. labelled \in [Articles -> Rows] /\ u \in Articles /\ l \in Answers /\ at \in 0..MaxClock
    BY <1>3, <1>4 DEF LabelsInv, LabelsTyped
  <2>2. CASE labelled' = [labelled EXCEPT ![u] = Bl!Voted(@, l, at)]
    BY <2>1, <2>2, RowVoted
  <2>3. CASE labelled' = labelled /\ Bl!Raises(fate)
    BY <2>1, <2>3
  <2> QED BY <1>5, <2>2, <2>3
<1>7. \/ press' = Bl!Idle /\ press'.at = 0 /\ press'.pc = "idle" /\ ~Bl!Raises(fate)
      \/ press'.at = press.at /\ press'.pc = "release" /\ press'.url = press.url /\ press'.label = press.label
         /\ press' = [pc |-> "release", url |-> press.url, label |-> press.label, at |-> press.at]
  <2>1. CASE press' = Bl!Idle /\ ~Bl!Raises(fate)
    BY <2>1 DEF Bl!Idle
  <2>2. CASE press' = [press EXCEPT !.pc = "release"]
    <3>1. press' = [pc |-> "release", url |-> press.url, label |-> press.label, at |-> press.at]
      BY <1>3, <2>2
    <3> QED BY <3>1
  <2> QED BY <2>1, <2>2 DEF Bl!Vote, Bl!Released
<1>8. Late \in Latecomers /\ Late.stmt = "vote" /\ Late.at = press.at /\ Late.url = press.url
      /\ Late.label = press.label
  BY <1>3 DEF Latecomers
<1> HIDE DEF Late
<1>9. \A c \in lateLabels' : c \in lateLabels \/ c = Late
  BY <1>2
<1>10. LabelsTyped'
  <2>1. lateLabels' \subseteq Latecomers
    BY <1>8, <1>9 DEF LabelsInv, LabelsTyped
  <2>2. \/ press' = Bl!Idle
        \/ press' \in [pc : {"vote", "release"}, url : Articles, label : Answers, at : 1..MaxClock]
    BY <1>3, <1>7
  <2> QED BY <1>1, <1>6, <2>1, <2>2 DEF LabelsInv, LabelsTyped
<1>11. NothingIsAhead'
  <2>1. press'.at <= clock
    BY <1>3, <1>7 DEF LabelsInv, LabelsTyped
  <2> QED BY <1>1, <1>3, <1>8, <1>9, <2>1 DEF LabelsInv, NothingIsAhead
<1>12. DrawsInv'
  <2>1. \A c \in lateLabels' : c \in lateLabels \/ c.stmt # "delete"
    BY <1>8, <1>9
  <2> QED BY <1>1, <2>1, DrawsUntouched
<1>13. OneAnswer'
  <2>1. ASSUME NEW x \in 1..MaxClock, NEW w \in Articles, NEW k \in Bl!Labels, Says(x, w, k)'
        PROVE  Says(x, w, k)
    <3>1. x # 0
      OBVIOUS
    <3> QED BY <1>1, <1>7, <1>8, <1>9, <2>1, <3>1 DEF Says
  <2> QED BY <2>1, AnswersUntold
<1>14. PressIsNew' /\ AnsweredAt'
  <2>1. press'.pc # "record" /\ (press'.pc # "idle" => press'.at = press.at)
    BY <1>7
  <2>2. \A c \in lateLabels' : c.stmt = "record" => c \in lateLabels
    BY <1>8, <1>9
  <2> QED BY <1>1, <2>1, <2>2 DEF LabelsInv, AnswersInv, PressIsNew, AnsweredAt
<1>15. VotesThere'
  <2>1. ASSUME NEW s \in sample, HasItsVote(s) PROVE HasItsVote(s)'
    <3>1. s.at \in 0..MaxClock /\ s.url \in Articles /\ s.at <= press.at /\ s.label \in Bl!Labels \cup {Bl!None}
      BY <1>1 DEF LabelsInv, LabelsTyped, Sampled, AnswersInv, PressIsNew
    <3>2. CASE s.at = press.at
      <4> SUFFICES ASSUME s.label \in Answers, s.at \notin slipped', press'.at # s.at
                   PROVE  labelled'[s.url].at = s.at /\ labelled'[s.url].vote = s.label
        BY DEF HasItsVote
      <4>1. Says(at, s.url, s.label) /\ Says(at, u, l)
        BY <1>4, <3>2 DEF Says
      <4>2. s.url = u /\ s.label = l
        BY <1>3, <1>4, <3>1, <4>1 DEF LabelsInv, AnswersInv, OneAnswer, Answers, Bl!Labels
      <4>3. labelled[u].held /\ ~Bl!Raises(fate)
        BY <1>1, <1>4, <1>7, <3>2
      <4> QED BY <1>4, <1>6, <3>2, <4>2, <4>3
    <3>3. CASE s.at # press.at
      <4>1. s.at < press.at
        BY <1>3, <3>1, <3>3
      <4>2. CASE labelled'[s.url] = labelled[s.url]
        BY <1>1, <2>1, <3>3, <4>2 DEF HasItsVote
      <4>3. CASE labelled'[s.url].at = at
        BY <1>4, <4>1, <4>3 DEF HasItsVote
      <4> QED BY <1>6, <3>1, <4>2, <4>3
    <3> QED BY <3>2, <3>3
  <2> QED BY <1>1, <2>1 DEF LabelsInv, AnswersInv, VotesThere, Latest
<1> QED BY <1>10, <1>11, <1>12, <1>13, <1>14, <1>15 DEF LabelsInv, AnswersInv

LEMMA ReleaseLabels ==
  ASSUME LabelsInv, NEW fate \in Bl!Fates, Bl!Release(fate)
  PROVE  LabelsInv'
<1> DEFINE New(s) == [s EXCEPT !.label = Bl!None, !.at = 0]
<1>1. /\ press.pc = "release" /\ slipped \subseteq slipped' /\ press' = Bl!Idle
      /\ ~Bl!Ran(fate) => press.at \in slipped' /\ sample' = sample
      /\ Bl!Ran(fate) => sample' = (sample \ Bl!Own(press)) \cup {New(s) : s \in Bl!Own(press)}
      /\ UNCHANGED <<clock, labelled, drawer, landed, redrawn, lateLabels>>
  BY DEF Bl!Release, Bl!draws
<1>2. press'.at = 0 /\ press'.pc = "idle"
  BY <1>1 DEF Bl!Idle
<1>3. /\ press.url \in Articles /\ press.label \in Bl!Labels /\ press.at \in 1..MaxClock
      /\ press.at # 0 /\ press.at <= clock
  BY <1>1, PressTyped
<1>4. \A s \in Bl!Own(press) : s \in sample
  BY DEF Bl!Own, Bl!Current, Bl!CurrentOf
<1>5. \A s \in sample : New(s) \in Sampled /\ New(s).draw = s.draw /\ New(s).url = s.url
                        /\ New(s).label = Bl!None /\ New(s).at = 0
  <2>1. 0 \in 0..MaxClock
    BY LabelsAssumption
  <2>2. \A s \in Sampled : New(s) \in Sampled /\ New(s).draw = s.draw /\ New(s).url = s.url
                           /\ New(s).label = Bl!None /\ New(s).at = 0
    BY <2>1 DEF Sampled
  <2> QED BY <2>2 DEF LabelsInv, LabelsTyped
<1> HIDE DEF New
<1>6. /\ sample' \subseteq Sampled
      /\ \A s \in sample' : s \in sample \/ (s.label = Bl!None /\ s.at = 0)
      /\ \A s \in sample' : \E r \in sample : r.draw = s.draw /\ r.url = s.url
      /\ \A r \in sample : \E s \in sample' : r.draw = s.draw /\ r.url = s.url
  <2>1. CASE Bl!Ran(fate)
    <3>1. sample' = (sample \ Bl!Own(press)) \cup {New(s) : s \in Bl!Own(press)}
      BY <1>1, <2>1
    <3>2. \A s \in sample' : s \in sample \/ \E r \in Bl!Own(press) : s = New(r)
      BY <3>1
    <3>3. \A r \in sample : r \in sample' \/ New(r) \in sample'
      BY <3>1
    <3> QED BY <1>4, <1>5, <3>2, <3>3 DEF LabelsInv, LabelsTyped
  <2>2. CASE ~Bl!Ran(fate)
    BY <1>1, <2>2 DEF LabelsInv, LabelsTyped
  <2> QED BY <2>1, <2>2
<1>7. LabelsTyped'
  BY <1>1, <1>6 DEF LabelsInv, LabelsTyped
<1>8. NothingIsAhead'
  <2>1. 0 <= clock
    BY DEF LabelsInv, LabelsTyped
  <2> QED BY <1>1, <1>2, <1>6, <2>1 DEF LabelsInv, NothingIsAhead
<1>9. DrawsInv'
  BY <1>1, <1>6, DrawsUntouched
<1>10. OneAnswer'
  <2>1. ASSUME NEW x \in 1..MaxClock, NEW w \in Articles, NEW k \in Bl!Labels, Says(x, w, k)'
        PROVE  Says(x, w, k)
    <3>1. x # 0
      OBVIOUS
    <3> QED BY <1>1, <1>2, <1>6, <2>1, <3>1 DEF Says
  <2> QED BY <2>1, AnswersUntold
<1>11. PressIsNew' /\ AnsweredAt'
  <2>1. Bl!None \notin Bl!Labels
    BY DEF Bl!None, Bl!Labels
  <2> QED BY <1>1, <1>2, <1>6, <2>1 DEF LabelsInv, AnswersInv, PressIsNew, AnsweredAt
<1>12. VotesThere'
  <2>1. ASSUME ~redrawn, NEW m \in DOMAIN landed, Latest(m), NEW s \in sample', s.draw = m
        PROVE  HasItsVote(s)'
    <3> SUFFICES ASSUME s.label \in Answers, s.at \notin slipped'
                 PROVE  \/ labelled[s.url].at > s.at
                        \/ labelled[s.url].at = s.at /\ labelled[s.url].vote = s.label
      BY <1>1 DEF HasItsVote
    <3>1. s \in sample
      BY <1>6 DEF Answers, Bl!None
    <3>2. HasItsVote(s)
      BY <2>1, <3>1 DEF LabelsInv, AnswersInv, VotesThere
    <3>3. ASSUME s.at = press.at PROVE FALSE
      <4>1. PICK at : at = press.at
        OBVIOUS
      <4>2. Says(at, s.url, s.label) /\ Says(at, press.url, press.label)
        BY <3>1, <3>3, <4>1 DEF Says
      <4>3. s.url \in Articles /\ s.label \in Bl!Labels
        BY <3>1 DEF LabelsInv, LabelsTyped, Sampled, Answers, Bl!Labels
      <4>4. s.url = press.url /\ s.label = press.label
        BY <1>3, <4>1, <4>2, <4>3 DEF LabelsInv, AnswersInv, OneAnswer
      <4>5. s \in Bl!Own(press)
        BY <2>1, <3>1, <3>3, <4>4, CurrentIs DEF Bl!Own
      <4>6. Bl!Ran(fate)
        BY <1>1, <3>3
      <4>7. s \in {New(r) : r \in Bl!Own(press)}
        BY <1>1, <4>5, <4>6
      <4>8. s.label = Bl!None
        BY <1>4, <1>5, <4>7
      <4> QED BY <4>8 DEF Answers, Bl!None
    <3> QED BY <1>1, <3>2, <3>3 DEF HasItsVote
  <2> QED BY <1>1, <2>1 DEF VotesThere, Latest
<1> QED BY <1>7, <1>8, <1>9, <1>10, <1>11, <1>12 DEF LabelsInv, AnswersInv

LEMMA KillLabels ==
  ASSUME LabelsInv, Bl!Kill
  PROVE  LabelsInv'
<1>1. /\ press.pc # "idle" /\ slipped' = slipped \cup {press.at} /\ press' = Bl!Idle
      /\ UNCHANGED <<clock, sample, labelled, drawer, landed, redrawn, lateLabels>>
  BY DEF Bl!Kill, Bl!draws
<1>2. press'.at = 0 /\ press'.pc = "idle"
  BY <1>1 DEF Bl!Idle
<1>3. LabelsTyped'
  BY <1>1 DEF LabelsInv, LabelsTyped
<1>4. NothingIsAhead'
  <2>1. 0 <= clock
    BY DEF LabelsInv, LabelsTyped
  <2> QED BY <1>1, <1>2, <2>1 DEF LabelsInv, NothingIsAhead
<1>5. DrawsInv'
  BY <1>1, DrawsUntouched
<1>6. OneAnswer'
  <2>1. ASSUME NEW x \in 1..MaxClock, NEW w \in Articles, NEW k \in Bl!Labels, Says(x, w, k)'
        PROVE  Says(x, w, k)
    <3>1. x # 0
      OBVIOUS
    <3> QED BY <1>1, <1>2, <2>1, <3>1 DEF Says
  <2> QED BY <2>1, AnswersUntold
<1>7. PressIsNew' /\ AnsweredAt'
  BY <1>1, <1>2 DEF LabelsInv, AnswersInv, PressIsNew, AnsweredAt
<1>8. VotesThere'
  BY <1>1 DEF LabelsInv, AnswersInv, VotesThere, HasItsVote, Latest
<1> QED BY <1>3, <1>4, <1>5, <1>6, <1>7, <1>8 DEF LabelsInv, AnswersInv

(* Time goes on, and only the articles change. *)
LEMMA ArticlesChange ==
  ASSUME LabelsInv, clock' \in 0..MaxClock, clock <= clock', labelled' \in [Articles -> Rows],
         UNCHANGED <<sample, drawer, landed, redrawn, press, lateLabels, slipped>>,
         \A s \in sample : HasItsVote(s) => HasItsVote(s)'
  PROVE  LabelsInv'
<1>1. LabelsTyped'
  BY DEF LabelsInv, LabelsTyped
<1>2. NothingIsAhead'
  <2>1. clock \in Int /\ clock' \in Int
    BY LabelsAssumption DEF LabelsInv, LabelsTyped
  <2>2. \A x \in Int : x <= clock => x <= clock'
    BY <2>1
  <2>3. /\ \A s \in sample : s.at \in Int
        /\ \A c \in lateLabels : c.at \in Int
        /\ \A d \in Drawers : drawer[d].at \in Int
    BY DEF LabelsInv, LabelsTyped, Sampled, Latecomers
  <2>4. press.at \in Int
    BY DEF LabelsInv, LabelsTyped, Bl!Idle
  <2>5. DOMAIN landed \subseteq 1..clock'
    BY <2>1 DEF LabelsInv, NothingIsAhead
  <2> QED BY <2>2, <2>3, <2>4, <2>5 DEF LabelsInv, NothingIsAhead
<1>3. DrawsInv'
  BY DrawsUntouched
<1>4. OneAnswer' /\ PressIsNew' /\ AnsweredAt'
  BY DEF LabelsInv, AnswersInv, OneAnswer, Says, PressIsNew, AnsweredAt
<1>5. VotesThere'
  BY DEF LabelsInv, AnswersInv, VotesThere, Latest
<1> QED BY <1>1, <1>2, <1>3, <1>4, <1>5 DEF LabelsInv, AnswersInv

LEMMA PageVoteLabels ==
  ASSUME LabelsInv, NEW u \in Articles, NEW v \in {"up", "down"}, Bl!PageVote(u, v)
  PROVE  LabelsInv'
<1>1. /\ clock < MaxClock /\ clock' = clock + 1
      /\ UNCHANGED <<sample, drawer, landed, redrawn, press, lateLabels, slipped>>
  BY DEF Bl!PageVote, Bl!draws
<1>2. clock \in 0..MaxClock /\ clock + 1 \in 0..MaxClock /\ clock <= clock + 1
  BY <1>1, LabelsAssumption DEF LabelsInv, LabelsTyped
<1>3. PICK at \in 0..MaxClock : at = clock + 1
  BY <1>2
<1>4. labelled' = [labelled EXCEPT ![u] = Bl!Voted(@, v, at)]
  BY <1>1, <1>3 DEF Bl!PageVote
<1>5. /\ labelled' \in [Articles -> Rows]
      /\ \A w \in Articles : w # u => labelled'[w] = labelled[w]
      /\ labelled[u].held => labelled'[u].at = at /\ labelled'[u].vote = v
      /\ ~labelled[u].held => labelled'[u] = labelled[u]
  BY <1>4, RowVoted DEF LabelsInv, LabelsTyped, Answers
<1>6. ASSUME NEW s \in sample, HasItsVote(s) PROVE HasItsVote(s)'
  <2>1. s.url \in Articles /\ s.at < at
    <3>1. s.url \in Articles /\ s.at \in 0..MaxClock /\ s.at <= clock
      BY DEF LabelsInv, LabelsTyped, Sampled, NothingIsAhead
    <3> QED BY <1>2, <1>3, <3>1
  <2>2. CASE labelled'[s.url] = labelled[s.url]
    BY <1>1, <1>6, <2>2 DEF HasItsVote
  <2>3. CASE labelled'[s.url].at = at
    BY <2>1, <2>3 DEF HasItsVote
  <2> QED BY <1>5, <2>1, <2>2, <2>3
<1> QED BY <1>1, <1>2, <1>5, <1>6, ArticlesChange

LEMMA HeldLabels ==
  ASSUME LabelsInv, NEW u \in Articles, Bl!Clean(u) \/ Bl!Restore(u)
  PROVE  LabelsInv'
<1>1. /\ clock' \in 0..MaxClock /\ clock <= clock'
      /\ UNCHANGED <<sample, drawer, landed, redrawn, press, lateLabels, slipped>>
  <2>1. clock \in 0..MaxClock /\ (clock < MaxClock => clock + 1 \in 0..MaxClock) /\ clock <= clock
        /\ clock <= clock + 1
    BY LabelsAssumption DEF LabelsInv, LabelsTyped
  <2> QED BY <2>1 DEF Bl!Clean, Bl!Restore, Bl!draws
<1>2. PICK h \in BOOLEAN : labelled' = [labelled EXCEPT ![u].held = h]
  BY DEF Bl!Clean, Bl!Restore
<1>3. /\ labelled' \in [Articles -> Rows]
      /\ \A w \in Articles : labelled'[w].at = labelled[w].at /\ labelled'[w].vote = labelled[w].vote
  BY <1>2 DEF LabelsInv, LabelsTyped, Rows
<1>4. ASSUME NEW s \in sample, HasItsVote(s) PROVE HasItsVote(s)'
  <2>1. s.url \in Articles
    BY DEF LabelsInv, LabelsTyped, Sampled
  <2> QED BY <1>1, <1>3, <1>4, <2>1 DEF HasItsVote
<1> QED BY <1>1, <1>3, <1>4, ArticlesChange

(* A copy that runs late. *)
LEMMA LateDeleteLabels ==
  ASSUME LabelsInv, NEW c, Bl!LateRuns(c), c.stmt = "delete"
  PROVE  LabelsInv'
<1>1. /\ c \in lateLabels /\ lateLabels' \subseteq lateLabels
      /\ sample' = {s \in sample : s.draw = c.at} /\ labelled' = labelled
      /\ UNCHANGED <<clock, press, drawer, landed, redrawn, slipped>>
  BY DEF Bl!LateRuns, Bl!draws
<1>2. LabelsTyped'
  BY <1>1 DEF LabelsInv, LabelsTyped
<1>3. NothingIsAhead'
  BY <1>1 DEF LabelsInv, NothingIsAhead
<1>4. DrawsInv'
  <2>1. ~redrawn /\ DOMAIN landed # {} => Latest(c.at)
    BY <1>1 DEF LabelsInv, DrawsInv, DrawIsWhole
  <2>2. OneDraws'
    BY <1>1 DEF LabelsInv, DrawsInv, OneDraws
  <2>3. PICK at : at = c.at
    OBVIOUS
  <2>4. /\ \A s \in sample' : s.draw \in DOMAIN landed'
        /\ ~redrawn' /\ DOMAIN landed' # {} =>
             \E m \in DOMAIN landed' : Latest(m)' /\ DrawIsWhole(m)'
    BY <1>1, <2>1, <2>3, RowsOfDrawStay
  <2> QED BY <2>2, <2>4 DEF DrawsInv
<1>5. OneAnswer'
  <2>1. ASSUME NEW x \in 1..MaxClock, NEW w \in Articles, NEW k \in Bl!Labels, Says(x, w, k)'
        PROVE  Says(x, w, k)
    BY <1>1, <2>1 DEF Says
  <2> QED BY <2>1, AnswersUntold
<1>6. PressIsNew' /\ AnsweredAt'
  BY <1>1 DEF LabelsInv, AnswersInv, PressIsNew, AnsweredAt
<1>7. VotesThere'
  BY <1>1, VotesOfRowsStay
<1> QED BY <1>2, <1>3, <1>4, <1>5, <1>6, <1>7 DEF LabelsInv, AnswersInv

LEMMA LateRecordLabels ==
  ASSUME LabelsInv, NEW c, Bl!LateRuns(c), c.stmt = "record"
  PROVE  LabelsInv'
<1>1. /\ c \in lateLabels /\ lateLabels' \subseteq lateLabels
      /\ sample' = Bl!Answered(c) /\ labelled' = labelled
      /\ UNCHANGED <<clock, press, drawer, landed, redrawn, slipped>>
  BY DEF Bl!LateRuns, Bl!draws
<1>2. c.url \in Articles /\ c.label \in Bl!Labels /\ c.at \in 1..MaxClock /\ c.at <= clock
  BY <1>1 DEF LabelsInv, LabelsTyped, Latecomers, NothingIsAhead
<1>3. PICK S : S = Bl!Answered(c)
  OBVIOUS
<1>4. /\ sample' \subseteq Sampled
      /\ \A s \in sample' : s \in sample \/ (s.at = c.at /\ s.url = c.url /\ s.label = c.label)
      /\ \A s \in sample' : \E r \in sample : r.draw = s.draw /\ r.url = s.url
      /\ \A r \in sample : \E s \in sample' : r.draw = s.draw /\ r.url = s.url
  <2>1. /\ S \subseteq Sampled
        /\ \A s \in S : \/ s \in sample
                        \/ \E r \in Bl!Open(c) : /\ r.draw = s.draw /\ r.url = s.url /\ s.url = c.url
                                                 /\ s.label = c.label /\ s.at = c.at
        /\ \A s \in S : \E r \in sample : r.draw = s.draw /\ r.url = s.url
        /\ \A r \in sample : \E s \in S : r.draw = s.draw /\ r.url = s.url
    BY <1>2, <1>3, AnsweredRows DEF LabelsInv, LabelsTyped
  <2>2. S = sample'
    BY <1>1, <1>3
  <2> QED BY <2>1, <2>2
<1>5. LabelsTyped'
  BY <1>1, <1>4 DEF LabelsInv, LabelsTyped
<1>6. NothingIsAhead'
  BY <1>1, <1>2, <1>4 DEF LabelsInv, NothingIsAhead
<1>7. DrawsInv'
  BY <1>1, <1>4, DrawsUntouched
<1>8. OneAnswer'
  <2>1. ASSUME NEW x \in 1..MaxClock, NEW w \in Articles, NEW k \in Bl!Labels, Says(x, w, k)'
        PROVE  Says(x, w, k)
    <3>1. c.stmt # "delete"
      OBVIOUS
    <3> QED BY <1>1, <1>4, <2>1, <3>1 DEF Says
  <2> QED BY <2>1, AnswersUntold
<1>9. PressIsNew' /\ AnsweredAt'
  <2>1. c.label # Bl!None /\ c.at >= 1
    BY <1>2 DEF Bl!Labels, Bl!None
  <2> QED BY <1>1, <1>4, <2>1 DEF LabelsInv, AnswersInv, PressIsNew, AnsweredAt
<1>10. VotesThere'
  <2>1. c.at \in slipped
    BY <1>1 DEF LabelsInv, AnswersInv, AnsweredAt
  <2> QED BY <1>1, <1>4, <2>1 DEF LabelsInv, AnswersInv, VotesThere, HasItsVote, Latest
<1> QED BY <1>5, <1>6, <1>7, <1>8, <1>9, <1>10 DEF LabelsInv, AnswersInv

LEMMA LateVoteLabels ==
  ASSUME LabelsInv, NEW c, Bl!LateRuns(c), c.stmt = "vote"
  PROVE  LabelsInv'
<1>1. /\ c \in lateLabels /\ lateLabels' \subseteq lateLabels
      /\ sample' = sample /\ slipped' = slipped \cup Bl!Overtaken(c)
      /\ labelled' = [labelled EXCEPT ![c.url] = Bl!Voted(@, c.label, c.at)]
      /\ UNCHANGED <<clock, press, drawer, landed, redrawn>>
  BY DEF Bl!LateRuns, Bl!draws
<1>2. /\ c.url \in Articles /\ c.label \in Answers /\ c.at \in 1..MaxClock /\ c.at \in 0..MaxClock
      /\ c.label \in Bl!Labels
  BY <1>1, LabelsAssumption DEF LabelsInv, LabelsTyped, Latecomers, Answers, Bl!Labels
<1>3. PICK u \in Articles, l \in Answers, at \in 0..MaxClock : u = c.url /\ l = c.label /\ at = c.at
  BY <1>2
<1>4. labelled' = [labelled EXCEPT ![u] = Bl!Voted(@, l, at)]
  BY <1>1, <1>3
<1>5. /\ labelled' \in [Articles -> Rows]
      /\ \A w \in Articles : w # u => labelled'[w] = labelled[w]
      /\ labelled[u].held => labelled'[u].at = at /\ labelled'[u].vote = l
      /\ ~labelled[u].held => labelled'[u] = labelled[u]
  BY <1>4, RowVoted DEF LabelsInv, LabelsTyped
<1>6. LabelsTyped'
  BY <1>1, <1>5 DEF LabelsInv, LabelsTyped
<1>7. NothingIsAhead'
  BY <1>1 DEF LabelsInv, NothingIsAhead
<1>8. DrawsInv'
  BY <1>1, DrawsUntouched
<1>9. OneAnswer'
  <2>1. ASSUME NEW x \in 1..MaxClock, NEW w \in Articles, NEW k \in Bl!Labels, Says(x, w, k)'
        PROVE  Says(x, w, k)
    BY <1>1, <2>1 DEF Says
  <2> QED BY <2>1, AnswersUntold
<1>10. PressIsNew' /\ AnsweredAt'
  BY <1>1 DEF LabelsInv, AnswersInv, PressIsNew, AnsweredAt
<1>11. VotesThere'
  <2>1. ASSUME NEW s \in sample, HasItsVote(s) PROVE HasItsVote(s)'
    <3>1. s.url \in Articles /\ s.at \in 0..MaxClock
      BY DEF LabelsInv, LabelsTyped, Sampled
    <3>2. CASE labelled'[s.url] = labelled[s.url]
      BY <1>1, <2>1, <3>2 DEF HasItsVote
    <3>3. CASE s.url = u /\ labelled'[u].at = at /\ labelled'[u].vote = l
      <4> SUFFICES ASSUME s.label \in Answers, s.at \notin slipped', press.at # s.at
                   PROVE  at > s.at \/ (at = s.at /\ l = s.label)
        BY <1>1, <3>3 DEF HasItsVote
      <4>1. labelled[u].at >= s.at
        <5>1. labelled[u].at \in 0..MaxClock
          BY DEF LabelsInv, LabelsTyped, Rows
        <5>2. labelled[u].at > s.at \/ labelled[u].at = s.at
          BY <1>1, <2>1, <3>3 DEF HasItsVote
        <5> QED BY <3>1, <5>1, <5>2
      <4>2. ~ (at < s.at)
        <5>1. s \in {x \in sample : x.url = c.url /\ c.at < x.at /\ x.at <= labelled[c.url].at} => s.at \in slipped'
          BY <1>1 DEF Bl!Overtaken
        <5>2. labelled[u].at \in 0..MaxClock
          BY DEF LabelsInv, LabelsTyped, Rows
        <5>3. s.at <= labelled[u].at
          BY <3>1, <4>1, <5>2
        <5> QED BY <1>3, <3>3, <5>1, <5>3
      <4>3. ASSUME at = s.at PROVE l = s.label
        <5>1. Says(at, u, s.label) /\ Says(at, u, l)
          BY <1>1, <1>3, <3>3, <4>3 DEF Says
        <5>2. at \in 1..MaxClock /\ s.label \in Bl!Labels /\ l \in Bl!Labels
          BY <1>2, <1>3 DEF Answers, Bl!Labels
        <5> QED BY <5>1, <5>2 DEF LabelsInv, AnswersInv, OneAnswer
      <4> QED BY <3>1, <4>2, <4>3
    <3> QED BY <1>5, <3>1, <3>2, <3>3
  <2> QED BY <1>1, <2>1 DEF LabelsInv, AnswersInv, VotesThere, Latest
<1> QED BY <1>6, <1>7, <1>8, <1>9, <1>10, <1>11 DEF LabelsInv, AnswersInv

LEMMA NextLabels ==
  ASSUME LabelsInv, [Bl!Next]_ofLabels
  PROVE  LabelsInv'
<1>1. CASE UNCHANGED ofLabels
  <2>1. UNCHANGED <<clock, sample, labelled, drawer, press, lateLabels, landed, redrawn, slipped>>
    BY <1>1 DEF ofLabels
  <2>2. AnswersInv'
    BY <2>1, AnswersUntouched
  <2> QED BY <2>1, <2>2 DEF LabelsInv, LabelsTyped, NothingIsAhead, DrawsInv, OneDraws, DrawIsWhole, Latest
<1>2. ASSUME NEW c \in lateLabels, Bl!LateRuns(c) PROVE LabelsInv'
  <2>1. c.stmt \in {"delete", "record", "vote"}
    BY DEF LabelsInv, LabelsTyped, Latecomers
  <2> QED BY <1>2, <2>1, LateDeleteLabels, LateRecordLabels, LateVoteLabels
<1>3. ASSUME NEW u \in Articles, Bl!Clean(u) \/ Bl!Restore(u) PROVE LabelsInv'
  BY <1>3, HeldLabels
<1>4. ASSUME NEW d \in Drawers, NEW fate \in Bl!Fates, Bl!InsertDraw(d, fate) \/ Bl!DeleteOthers(d, fate)
      PROVE  LabelsInv'
  BY <1>4, InsertDrawLabels, DeleteOthersLabels
<1>5. ASSUME NEW fate \in Bl!Fates, Bl!Record(fate) \/ Bl!Vote(fate) \/ Bl!Release(fate)
      PROVE  LabelsInv'
  BY <1>5, RecordLabels, VoteLabels, ReleaseLabels
<1> QED BY <1>1, <1>2, <1>3, <1>4, <1>5, ReadPoolLabels, CheckKeptLabels, PressLabels, KillLabels,
           PageVoteLabels DEF Bl!Next

(* The sample on the labels' page is a draw, whole, from its INSERT on, and *)
(* an answer it keeps has its vote or a later one on the article, however   *)
(* draws, answers, votes of the pages and slow statements interleave, the   *)
(* accidents the server cannot see apart (`replace_sample`, "all or nothing *)
(* without a transaction"; `_handle_post_label`, "rather than kept with no  *)
(* vote behind it").                                                        *)
THEOREM LabelsKeepTheirVotes == ReaderSpec => []LabelsStand
<1>1. ReaderInit => LabelsInv
  BY InitLabels DEF ReaderInit
<1>2. LabelsInv /\ [ReaderNext]_all => LabelsInv'
  BY NextLabels, PartSteps
<1>3. ASSUME LabelsInv, ~redrawn, DOMAIN landed # {}
      PROVE  Bl!SampleIsWhole /\ Bl!LabelHasItsVote
  <2>1. PICK m \in DOMAIN landed : Latest(m)
    BY <1>3 DEF LabelsInv, DrawsInv
  <2>2. DrawIsWhole(m) /\ Bl!Current = {s \in sample : s.draw = m}
    BY <1>3, <2>1, CurrentIs
  <2>3. {s.url : s \in Bl!Current} = landed[m]
    BY <2>2 DEF DrawIsWhole
  <2>4. Bl!SampleIsWhole
    BY <2>1, <2>2, <2>3 DEF Bl!SampleIsWhole, Latest
  <2>5. \A s \in Bl!Current : HasItsVote(s)
    BY <1>3, <2>1, <2>2 DEF LabelsInv, AnswersInv, VotesThere
  <2> QED BY <2>4, <2>5 DEF Bl!LabelHasItsVote, HasItsVote, Answers
<1>4. ASSUME LabelsInv, redrawn \/ DOMAIN landed = {}
      PROVE  Bl!SampleIsWhole /\ Bl!LabelHasItsVote
  <2>1. DOMAIN landed = {} => Bl!Current = {}
    BY <1>4 DEF LabelsInv, DrawsInv, Bl!Current, Bl!CurrentOf
  <2> QED BY <1>4, <2>1 DEF Bl!SampleIsWhole, Bl!LabelHasItsVote
<1>5. LabelsInv => LabelsStand
  BY <1>3, <1>4 DEF LabelsStand
<1> QED BY <1>1, <1>2, <1>5, PTL DEF ReaderSpec

-----------------------------------------------------------------------------
(* The areas. *)

AreaRows ==
  [name : MCNames, status : {"proposed", "active", "dismissed", "merged"},
   into : Ar!Ids \cup {0}, issues : Nat, last : 0..Runs]

FoldedNames == {MCFold[n] : n \in MCNames}
Rulings == {"none", "active", "dismissed"}

AreasTyped ==
  /\ areas \in Seq(AreaRows) /\ Len(areas) <= MaxAreas
  /\ named \in Seq(SUBSET (1..Runs)) /\ Len(named) = Len(areas)
  /\ source \in [SourceNames -> Ar!Ids \cup {0}]
  /\ run \in [pc : {"idle", "names"} \cup MCNames, id : 0..Runs, counts : SUBSET MCNames,
              match : Ar!Ids \cup {0}, known : SUBSET FoldedNames]
  /\ ruled \in Seq(Rulings) /\ Len(ruled) = Len(areas)
  /\ asked \subseteq [unknown : SUBSET MCNames, known : SUBSET FoldedNames]
  /\ rename \in [id : Ar!Ids, name : MCNames, known : SUBSET FoldedNames] \/ rename = Ar!NoRename
  /\ bulk \in [id : Ar!Ids \cup {0}, left : SUBSET SourceNames]
  /\ areaMishaps \in 0..Mishaps

(* What a run, a rename and an assignment under way have read still holds; *)
(* and a name to be given a row had none in what its writer read, so that  *)
(* a row of it met at the write is another writer's, written since.        *)
ReadStillHolds ==
  /\ run.pc # "idle" => run.id >= 1
  /\ run.match # 0 => run.id >= 1 /\ run.match \in DOMAIN areas
  /\ rename # Ar!NoRename => rename.id \in DOMAIN areas
  /\ bulk.id # 0 => Ar!IsActive(bulk.id) \/ Ar!IsProposed(bulk.id)
  /\ run.pc \notin {"idle", "names"} /\ run.match = 0 => MCFold[run.pc] \notin run.known
  /\ rename # Ar!NoRename => MCFold[rename.name] \notin rename.known
  /\ \A ask \in asked : \A n \in ask.unknown : MCFold[n] \notin ask.known

(* `last_seen_run` tells whether the run under way has named the area. *)
LastIsNamed ==
  \A i \in DOMAIN areas :
    /\ named[i] \subseteq 1..run.id /\ areas[i].last <= run.id
    /\ run.id >= 1 => (run.id \in named[i] <=> areas[i].last = run.id)

(* What the reader decided is what the rows say. *)
Verdict(status) == IF status = "proposed" THEN "none" ELSE Ar!Ruling(status)
RulingsHold == \A i \in DOMAIN areas : ruled[i] = Verdict(areas[i].status)

AreasKept == Ar!OneRowPerName /\ Ar!LeadsToActive /\ Ar!CountedOncePerRun /\ RulingsHold

AreasInv == AreasTyped /\ ReadStillHolds /\ LastIsNamed /\ AreasKept
-----------------------------------------------------------------------------
(* The same operator through two modules. *)
LEMMA SameCardinality == \A S : Ar!Cardinality(S) = Cardinality(S)
BY DEF Ar!Cardinality, Cardinality

LEMMA InitAreas == ASSUME Ar!Init PROVE AreasInv
<1>1. /\ areas = <<>> /\ named = <<>> /\ ruled = <<>> /\ source = [s \in SourceNames |-> 0]
      /\ run = Ar!NoRun /\ asked = {} /\ rename = Ar!NoRename /\ bulk = Ar!NoBulk /\ areaMishaps = 0
  BY DEF Ar!Init, Ar!NoArea
<1>2. AreasTyped
  BY <1>1, AreasAssumption DEF AreasTyped, Ar!NoRun, Ar!NoBulk, Ar!NoArea
<1>3. ReadStillHolds
  BY <1>1 DEF ReadStillHolds, Ar!NoRun, Ar!NoBulk, Ar!NoArea
<1>4. LastIsNamed /\ AreasKept
  BY <1>1 DEF LastIsNamed, AreasKept, Ar!OneRowPerName, Ar!LeadsToActive, Ar!CountedOncePerRun,
              RulingsHold, Ar!NoArea
<1> QED BY <1>2, <1>3, <1>4 DEF AreasInv

(* What is typed. *)
LEMMA AreaFacts ==
  ASSUME AreasInv
  PROVE  /\ DOMAIN areas = 1..Len(areas) /\ DOMAIN named = DOMAIN areas /\ Len(areas) \in Nat
         /\ DOMAIN ruled = DOMAIN areas
         /\ \A i \in DOMAIN areas : areas[i] \in AreaRows /\ named[i] \subseteq 1..Runs
         /\ DOMAIN areas \subseteq Ar!Ids /\ 0 \notin DOMAIN areas
         /\ run.id \in 0..Runs /\ Runs \in Nat /\ areaMishaps \in 0..Mishaps /\ Mishaps \in Nat
BY AreasAssumption DEF AreasInv, AreasTyped, Ar!Ids

LEMMA SufferTyped ==
  ASSUME AreasInv, NEW fate \in Ar!Fates, Ar!Suffer(fate)
  PROVE  areaMishaps' \in 0..Mishaps
BY AreaFacts DEF Ar!Suffer

(* When the table stands, what a step reads is what matters. *)
LEMMA TableStands ==
  ASSUME AreasInv, UNCHANGED <<areas, source, named, ruled, crossed, repeated>>, run'.id = run.id
  PROVE  LastIsNamed' /\ AreasKept'
<1>1. LastIsNamed'
  BY DEF AreasInv, LastIsNamed
<1>2. Ar!OneRowPerName' /\ Ar!CountedOncePerRun' /\ RulingsHold'
  BY DEF AreasInv, AreasKept, Ar!OneRowPerName, Ar!CountedOncePerRun, RulingsHold
<1>3. Ar!LeadsToActive'
  BY DEF AreasInv, AreasKept, Ar!LeadsToActive, Ar!IsActive
<1> QED BY <1>1, <1>2, <1>3 DEF AreasKept

(* The first row of a name is one of its rows. *)
LEMMA FirstMatch ==
  ASSUME AreasInv, NEW name, Ar!Matches(name) # {}
  PROVE  Ar!First(Ar!Matches(name)) \in Ar!Matches(name)
<1>1. Ar!Matches(name) \subseteq Nat
  BY AreaFacts DEF Ar!Matches
<1>2. PICK j \in Ar!Matches(name) : \A k \in Ar!Matches(name) : j <= k
  BY <1>1, LeastNat
<1> QED BY <1>2 DEF Ar!First

(* The names that have rows, and a name that has none. *)
LEMMA HeldFacts ==
  ASSUME AreasInv
  PROVE  /\ \A i : Ar!HeldBeside(i) \subseteq FoldedNames
         /\ \A name, i : Ar!Matches(name) \subseteq {i} => MCFold[name] \notin Ar!HeldBeside(i)
<1>1. \A j \in DOMAIN areas : areas[j].name \in MCNames
  BY AreaFacts DEF AreaRows
<1> QED BY <1>1 DEF Ar!HeldBeside, Ar!Matches, FoldedNames

(* One row of the table changes. *)
LEMMA OneRow ==
  ASSUME AreasInv, NEW i \in DOMAIN areas, NEW entry \in AreaRows,
         areas' = [areas EXCEPT ![i] = entry]
  PROVE  /\ areas' \in Seq(AreaRows) /\ Len(areas') = Len(areas) /\ DOMAIN areas' = DOMAIN areas
         /\ areas'[i] = entry /\ \A j \in DOMAIN areas : j # i => areas'[j] = areas[j]
<1>1. areas \in Seq(AreaRows)
  BY DEF AreasInv, AreasTyped
<1> QED BY <1>1

LEMMA NamesStay ==
  ASSUME AreasInv, DOMAIN areas' = DOMAIN areas, crossed \subseteq crossed',
         \A i \in DOMAIN areas : areas'[i].name = areas[i].name
  PROVE  Ar!OneRowPerName'
BY DEF AreasInv, AreasKept, Ar!OneRowPerName

LEMMA RulingsStay ==
  ASSUME AreasInv, DOMAIN areas' = DOMAIN areas, UNCHANGED ruled,
         \A i \in DOMAIN areas : areas'[i].status = areas[i].status
  PROVE  RulingsHold'
BY DEF AreasInv, AreasKept, RulingsHold

LEMMA CountsStay ==
  ASSUME AreasInv, DOMAIN areas' = DOMAIN areas, UNCHANGED <<named, repeated>>, run'.id = run.id,
         \A i \in DOMAIN areas : areas'[i].issues = areas[i].issues /\ areas'[i].last = areas[i].last
  PROVE  Ar!CountedOncePerRun' /\ LastIsNamed'
<1>1. Ar!CountedOncePerRun'
  BY DEF AreasInv, AreasKept, Ar!CountedOncePerRun
<1>2. LastIsNamed'
  BY DEF AreasInv, LastIsNamed
<1> QED BY <1>1, <1>2

(* No active area becomes anything else, and what is merged is merged into *)
(* one.                                                                    *)
LEMMA ActiveStays ==
  ASSUME AreasInv, DOMAIN areas \subseteq DOMAIN areas', UNCHANGED source,
         \A i \in DOMAIN areas : areas[i].status = "active" => areas'[i].status = "active",
         \A i \in DOMAIN areas' : areas'[i].status = "merged" =>
           \/ i \in DOMAIN areas /\ areas[i].status = "merged" /\ areas'[i].into = areas[i].into
           \/ Ar!IsActive(areas'[i].into)
  PROVE  Ar!LeadsToActive'
<1>1. ASSUME NEW i, Ar!IsActive(i) PROVE Ar!IsActive(i)'
  BY <1>1 DEF Ar!IsActive
<1>2. ASSUME NEW s \in SourceNames, source[s] # 0 PROVE Ar!IsActive(source[s])'
  BY <1>1, <1>2 DEF AreasInv, AreasKept, Ar!LeadsToActive, Ar!NoArea
<1>3. ASSUME NEW i \in DOMAIN areas', areas'[i].status = "merged"
      PROVE  areas'[i].into \in DOMAIN areas' /\ areas'[areas'[i].into].status = "active"
  <2>1. PICK j : j = areas'[i].into
    OBVIOUS
  <2>2. Ar!IsActive(j)
    BY <1>3, <2>1 DEF AreasInv, AreasKept, Ar!LeadsToActive
  <2> QED BY <2>1, <2>2 DEF Ar!IsActive
<1> QED BY <1>2, <1>3 DEF Ar!LeadsToActive, Ar!IsActive, Ar!NoArea

(* A step of the run, the page or the server that leaves the table alone. *)
LEMMA RunStartAreas ==
  ASSUME AreasInv, Ar!RunStart
  PROVE  AreasInv'
<1>1. /\ run.pc = "idle" /\ run.id < Runs
      /\ run' = [Ar!NoRun EXCEPT !.pc = "names", !.id = run.id + 1, !.counts = run'.counts]
      /\ run'.counts \subseteq MCNames
      /\ UNCHANGED <<areas, source, asked, rename, bulk, areaMishaps, named, ruled, crossed, repeated>>
  BY DEF Ar!RunStart, Ar!server, Ar!history, Ar!NoRun
<1>2. run'.pc = "names" /\ run'.id = run.id + 1 /\ run'.match = 0
  BY <1>1 DEF Ar!NoRun, Ar!NoArea
<1>3. run.id + 1 \in 0..Runs /\ run.id + 1 >= 1
  BY <1>1, AreaFacts
<1>4. run' = [pc |-> "names", id |-> run.id + 1, counts |-> run'.counts, match |-> 0, known |-> {}]
  BY <1>1 DEF Ar!NoRun, Ar!NoArea
<1>5. AreasTyped'
  BY <1>1, <1>3, <1>4 DEF AreasInv, AreasTyped
<1>6. ReadStillHolds'
  BY <1>1, <1>2, <1>3 DEF AreasInv, ReadStillHolds, Ar!IsActive, Ar!IsProposed
<1>7. LastIsNamed'
  <2> SUFFICES ASSUME NEW i \in DOMAIN areas
               PROVE  /\ named[i] \subseteq 1..(run.id + 1) /\ areas[i].last <= run.id + 1
                      /\ run.id + 1 \notin named[i] /\ areas[i].last # run.id + 1
    BY <1>1, <1>2 DEF LastIsNamed
  <2>1. named[i] \subseteq 1..run.id /\ areas[i].last <= run.id /\ areas[i].last \in Int
    BY AreaFacts DEF AreasInv, LastIsNamed, AreaRows
  <2> QED BY <2>1, AreaFacts
<1>8. Ar!OneRowPerName' /\ Ar!CountedOncePerRun' /\ Ar!LeadsToActive' /\ RulingsHold'
  BY <1>1 DEF AreasInv, AreasKept, Ar!OneRowPerName, Ar!CountedOncePerRun, Ar!LeadsToActive,
              Ar!IsActive, RulingsHold
<1> QED BY <1>5, <1>6, <1>7, <1>8 DEF AreasInv, AreasKept

LEMMA RunReadsAreas ==
  ASSUME AreasInv, NEW name \in MCNames, Ar!RunReads(name)
  PROVE  AreasInv'
<1> DEFINE match == IF Ar!Matches(name) = {} THEN 0 ELSE Ar!First(Ar!Matches(name))
<1> DEFINE held == Ar!HeldBeside(0)
<1>1. /\ run.pc = "names"
      /\ \/ run' = [run EXCEPT !.counts = run.counts \ {name}]
         \/ run' = [run EXCEPT !.pc = name, !.match = match, !.known = held]
      /\ UNCHANGED <<areas, source, asked, rename, bulk, areaMishaps, named, ruled, crossed, repeated>>
  BY DEF Ar!RunReads, Ar!server, Ar!history, Ar!NoArea
<1>2. /\ match = 0 \/ match \in DOMAIN areas
      /\ match = 0 => MCFold[name] \notin held
  <2>1. CASE Ar!Matches(name) # {}
    <3>1. match \in DOMAIN areas
      BY <2>1, FirstMatch DEF Ar!Matches
    <3> QED BY <3>1, AreaFacts
  <2>2. CASE Ar!Matches(name) = {}
    <3>1. MCFold[name] \notin held
      BY <2>2, HeldFacts
    <3> QED BY <2>2, <3>1
  <2> QED BY <2>1, <2>2
<1>a. held \subseteq FoldedNames
  BY HeldFacts
<1> HIDE DEF match, held
<1>3. /\ run' \in [pc : {"idle", "names"} \cup MCNames, id : 0..Runs, counts : SUBSET MCNames,
                   match : Ar!Ids \cup {0}, known : SUBSET FoldedNames]
      /\ run'.id = run.id /\ (run'.match # 0 => run'.match = run.match \/ run'.match \in DOMAIN areas)
      /\ run'.pc \notin {"idle", "names"} /\ run'.match = 0 => MCFold[run'.pc] \notin run'.known
  <2>1. /\ run \in [pc : {"idle", "names"} \cup MCNames, id : 0..Runs, counts : SUBSET MCNames,
                    match : Ar!Ids \cup {0}, known : SUBSET FoldedNames]
        /\ match \in Ar!Ids \cup {0}
    BY <1>2, AreaFacts DEF AreasInv, AreasTyped
  <2>2. CASE run' = [run EXCEPT !.counts = run.counts \ {name}]
    BY <1>1, <2>1, <2>2
  <2>3. CASE run' = [run EXCEPT !.pc = name, !.match = match, !.known = held]
    BY <1>2, <1>a, <2>1, <2>3
  <2> QED BY <1>1, <2>2, <2>3
<1>4. AreasTyped'
  BY <1>1, <1>3 DEF AreasInv, AreasTyped
<1>5. ReadStillHolds'
  BY <1>1, <1>3 DEF AreasInv, ReadStillHolds, Ar!IsActive, Ar!IsProposed
<1> QED BY <1>1, <1>3, <1>4, <1>5, TableStands DEF AreasInv

(* The requests of the page and the ends of the run. *)
LEMMA StandingAreas ==
  ASSUME AreasInv,
         \/ Ar!RunEnds \/ Ar!ProposeReads \/ Ar!Kill
         \/ \E ask \in asked : Ar!ProposeFails(ask)
         \/ \E i \in Ar!Ids, name \in MCNames : Ar!RenameChecks(i, name)
         \/ \E i \in Ar!Ids \cup {0}, names \in SUBSET SourceNames : Ar!BulkStarts(i, names)
  PROVE  AreasInv'
<1>a. /\ Ar!NoRun = [pc |-> "idle", id |-> 0, counts |-> {}, match |-> 0, known |-> {}]
      /\ Ar!NoBulk \in [id : Ar!Ids \cup {0}, left : SUBSET SourceNames] /\ Ar!NoBulk.id = 0
  BY DEF Ar!NoRun, Ar!NoBulk, Ar!NoArea
<1>1. CASE Ar!RunEnds
  <2>1. /\ run' = [Ar!NoRun EXCEPT !.id = run.id]
        /\ UNCHANGED <<areas, source, asked, rename, bulk, areaMishaps, named, ruled, crossed, repeated>>
    BY <1>1 DEF Ar!RunEnds, Ar!server, Ar!history
  <2>2. run' = [pc |-> "idle", id |-> run.id, counts |-> {}, match |-> 0, known |-> {}]
    BY <1>a, <2>1
  <2>3. AreasTyped'
    <3>1. run' \in [pc : {"idle", "names"} \cup MCNames, id : 0..Runs, counts : SUBSET MCNames,
                    match : Ar!Ids \cup {0}, known : SUBSET FoldedNames]
      BY <2>2, AreaFacts
    <3> QED BY <2>1, <3>1 DEF AreasInv, AreasTyped
  <2>4. ReadStillHolds'
    BY <2>1, <2>2 DEF AreasInv, ReadStillHolds, Ar!IsActive, Ar!IsProposed
  <2> QED BY <2>1, <2>2, <2>3, <2>4, TableStands DEF AreasInv
<1>2. CASE Ar!ProposeReads \/ \E ask \in asked : Ar!ProposeFails(ask)
  <2> DEFINE ask == [unknown |-> {n \in MCNames : Ar!Place(n) = "unknown"},
                     known |-> Ar!HeldBeside(0)]
  <2>a. ASSUME NEW n \in MCNames, Ar!Place(n) = "unknown"
        PROVE  MCFold[n] \notin Ar!HeldBeside(0)
    <3>1. CASE Ar!Matches(n) = {}
      BY <3>1, HeldFacts
    <3>2. CASE Ar!Matches(n) # {}
      <4>1. PICK i \in DOMAIN areas : i = Ar!First(Ar!Matches(n))
        BY <3>2, FirstMatch DEF Ar!Matches
      <4>2. areas[i].status \in {"proposed", "active", "dismissed", "merged"}
        BY AreaFacts DEF AreaRows
      <4> QED BY <2>a, <3>2, <4>1, <4>2 DEF Ar!Place
    <3> QED BY <3>1, <3>2
  <2>b. /\ ask \in [unknown : SUBSET MCNames, known : SUBSET FoldedNames]
        /\ \A n \in ask.unknown : MCFold[n] \notin ask.known
    BY <2>a, HeldFacts
  <2>c. asked' \subseteq asked \cup {ask}
    BY <1>2 DEF Ar!ProposeReads, Ar!ProposeFails, Ar!NoArea
  <2> HIDE DEF ask
  <2>1. /\ asked' \subseteq [unknown : SUBSET MCNames, known : SUBSET FoldedNames]
        /\ UNCHANGED <<areas, source, run, rename, bulk, areaMishaps, named, ruled, crossed, repeated>>
    BY <1>2, <2>b, <2>c DEF AreasInv, AreasTyped, Ar!ProposeReads, Ar!ProposeFails, Ar!server,
                            Ar!history
  <2>2. AreasTyped'
    BY <2>1 DEF AreasInv, AreasTyped
  <2>3. ReadStillHolds'
    BY <2>1, <2>b, <2>c DEF AreasInv, ReadStillHolds, Ar!IsActive, Ar!IsProposed
  <2> QED BY <2>1, <2>2, <2>3, TableStands DEF AreasInv
<1>3. CASE Ar!Kill
  <2>1. /\ rename' = Ar!NoRename /\ bulk' = Ar!NoBulk /\ asked' = {}
        /\ areaMishaps < Mishaps /\ areaMishaps' = areaMishaps + 1
        /\ UNCHANGED <<areas, source, run, named, ruled, crossed, repeated>>
    BY <1>3 DEF Ar!Kill, Ar!history
  <2>2. AreasTyped'
    BY <1>a, <2>1, AreaFacts DEF AreasInv, AreasTyped
  <2>3. ReadStillHolds'
    BY <1>a, <2>1 DEF AreasInv, ReadStillHolds, Ar!IsActive, Ar!IsProposed
  <2> QED BY <2>1, <2>2, <2>3, TableStands DEF AreasInv
<1>4. ASSUME NEW i \in Ar!Ids, NEW name \in MCNames, Ar!RenameChecks(i, name) PROVE AreasInv'
  <2>1. /\ i \in DOMAIN areas
        /\ rename' = [id |-> i, name |-> name, known |-> Ar!HeldBeside(i)]
        /\ Ar!HeldBeside(i) \subseteq FoldedNames /\ MCFold[name] \notin Ar!HeldBeside(i)
        /\ UNCHANGED <<areas, source, run, asked, bulk, areaMishaps, named, ruled, crossed, repeated>>
    BY <1>4, HeldFacts DEF Ar!RenameChecks, Ar!history
  <2>2. AreasTyped'
    BY <2>1 DEF AreasInv, AreasTyped
  <2>3. ReadStillHolds'
    BY <2>1 DEF AreasInv, ReadStillHolds, Ar!IsActive, Ar!IsProposed
  <2> QED BY <2>1, <2>2, <2>3, TableStands DEF AreasInv
<1>5. ASSUME NEW i \in Ar!Ids \cup {0}, NEW names \in SUBSET SourceNames, Ar!BulkStarts(i, names)
      PROVE  AreasInv'
  <2>1. /\ i = 0 \/ Ar!IsActive(i) \/ Ar!IsProposed(i)
        /\ bulk' = [id |-> i, left |-> names]
        /\ UNCHANGED <<areas, source, run, asked, rename, areaMishaps, named, ruled, crossed, repeated>>
    BY <1>5 DEF Ar!BulkStarts, Ar!history, Ar!NoArea
  <2>2. AreasTyped'
    BY <2>1 DEF AreasInv, AreasTyped
  <2>3. ReadStillHolds'
    BY <2>1 DEF AreasInv, ReadStillHolds, Ar!IsActive, Ar!IsProposed
  <2> QED BY <2>1, <2>2, <2>3, TableStands DEF AreasInv
<1> QED BY <1>1, <1>2, <1>3, <1>4, <1>5

-----------------------------------------------------------------------------
(* The table grows by proposals. *)
LEMMA TableGrows ==
  ASSUME AreasInv, areas' \in Seq(AreaRows), named' \in Seq(SUBSET (1..Runs)),
         Len(named') = Len(areas'), DOMAIN areas \subseteq DOMAIN areas',
         \A i \in DOMAIN areas : ruled'[i] = ruled[i],
         \A i \in DOMAIN areas' \ DOMAIN areas : ruled'[i] = "none",
         UNCHANGED <<source, repeated>>, run'.id = run.id,
         \A i \in DOMAIN areas : areas'[i] = areas[i] /\ named'[i] = named[i],
         \A i \in DOMAIN areas' \ DOMAIN areas :
           /\ areas'[i].status = "proposed" /\ areas'[i].issues = Cardinality(named'[i])
           /\ named'[i] \subseteq 1..run.id /\ areas'[i].last <= run.id
           /\ run.id >= 1 => (run.id \in named'[i] <=> areas'[i].last = run.id)
  PROVE  Ar!LeadsToActive' /\ Ar!CountedOncePerRun' /\ LastIsNamed' /\ RulingsHold'
<1>1. Ar!LeadsToActive'
  BY ActiveStays
<1>2. Ar!CountedOncePerRun'
  <2>1. ASSUME NEW i \in DOMAIN areas' \ repeated PROVE areas'[i].issues = Cardinality(named'[i])
    <3>1. CASE i \in DOMAIN areas
      <4>1. areas[i].issues = Cardinality(named[i])
        BY <2>1, <3>1, SameCardinality DEF AreasInv, AreasKept, Ar!CountedOncePerRun
      <4>2. areas'[i] = areas[i] /\ named'[i] = named[i]
        BY <3>1
      <4> QED BY <4>1, <4>2
    <3>2. CASE i \notin DOMAIN areas
      BY <3>2
    <3> QED BY <3>1, <3>2
  <2> QED BY <2>1, SameCardinality DEF Ar!CountedOncePerRun
<1>3. LastIsNamed'
  BY DEF AreasInv, LastIsNamed
<1>4. RulingsHold'
  BY DEF AreasInv, AreasKept, RulingsHold, Verdict
<1> QED BY <1>1, <1>2, <1>3, <1>4

(* The run goes on to its next name, or gives up. *)
LEMMA RunAfterTyped ==
  ASSUME AreasInv, NEW name \in MCNames, NEW raised \in BOOLEAN, Ar!RunAfter(name, raised), run.pc # "idle"
  PROVE  /\ run' \in [pc : {"idle", "names"} \cup MCNames, id : 0..Runs, counts : SUBSET MCNames,
                      match : Ar!Ids \cup {0}, known : SUBSET FoldedNames]
         /\ run'.id = run.id /\ run'.match = 0 /\ run'.pc = "names" /\ run.id >= 1
<1>1. run \in [pc : {"idle", "names"} \cup MCNames, id : 0..Runs, counts : SUBSET MCNames,
               match : Ar!Ids \cup {0}, known : SUBSET FoldedNames]
  BY DEF AreasInv, AreasTyped
<1>2. run.id >= 1
  BY DEF AreasInv, ReadStillHolds
<1>3. PICK c \in SUBSET MCNames : c = IF raised THEN {} ELSE run.counts \ {name}
  BY <1>1
<1>4. run' = [run EXCEPT !.pc = "names", !.match = 0, !.known = {}, !.counts = c]
  BY <1>3 DEF Ar!RunAfter, Ar!NoArea
<1> QED BY <1>1, <1>2, <1>4

LEMMA RunInsertsAreas ==
  ASSUME AreasInv, NEW name \in MCNames, NEW fate \in Ar!Fates, Ar!RunInserts(name, fate)
  PROVE  AreasInv'
<1> DEFINE entry == Ar!Proposed(name, 1, run.id)
           lands == Ar!Ran(fate) /\ Ar!Free({name})
<1>1. /\ run.pc = name /\ run.match = 0 /\ Ar!Suffer(fate) /\ Len(areas) < MaxAreas
      /\ areas' = (IF lands THEN Append(areas, entry) ELSE areas)
      /\ named' = (IF lands THEN Append(named, {run.id}) ELSE named)
      /\ ruled' = (IF lands THEN Append(ruled, "none") ELSE ruled)
      /\ crossed' = (IF lands THEN crossed \cup Ar!Crosses({name}, 0, run.known) ELSE crossed)
      /\ Ar!RunAfter(name, fate # "done" \/ ~lands)
      /\ UNCHANGED <<source, asked, rename, bulk, repeated>>
  BY DEF Ar!RunInserts, Ar!server, Ar!NoArea
<1>2. run.pc # "idle"
  BY <1>1, AreasAssumption
<1>3. /\ run' \in [pc : {"idle", "names"} \cup MCNames, id : 0..Runs, counts : SUBSET MCNames,
                   match : Ar!Ids \cup {0}, known : SUBSET FoldedNames]
      /\ run'.id = run.id /\ run'.match = 0 /\ run'.pc = "names" /\ run.id >= 1
  BY <1>1, <1>2, RunAfterTyped
<1>4. areaMishaps' \in 0..Mishaps
  BY <1>1, SufferTyped
<1>5. CASE ~lands
  <2>1. UNCHANGED <<areas, named, ruled, crossed>>
    BY <1>1, <1>5
  <2>2. AreasTyped'
    BY <1>1, <1>3, <1>4, <2>1 DEF AreasInv, AreasTyped
  <2>3. ReadStillHolds'
    BY <1>1, <1>3, <2>1 DEF AreasInv, ReadStillHolds, Ar!IsActive, Ar!IsProposed
  <2> QED BY <1>1, <1>3, <2>1, <2>2, <2>3, TableStands DEF AreasInv
<1>6. CASE lands
  <2>1. /\ entry \in AreaRows /\ entry.name = name /\ entry.status = "proposed" /\ entry.issues = 1
        /\ entry.last = run.id
    BY AreaFacts DEF Ar!Proposed, Ar!NoArea, AreaRows
  <2>2. PICK n \in Nat : n = Len(areas)
    BY AreaFacts
  <2>3. /\ areas \in Seq(AreaRows) /\ named \in Seq(SUBSET (1..Runs)) /\ Len(named) = n
        /\ ruled \in Seq(Rulings) /\ Len(ruled) = n
    BY <2>2 DEF AreasInv, AreasTyped
  <2>4. {run.id} \in SUBSET (1..Runs)
    BY <1>3, AreaFacts
  <2> HIDE DEF entry
  <2>5. /\ areas' \in Seq(AreaRows) /\ Len(areas') = n + 1 /\ areas'[n + 1] = entry
        /\ \A i \in 1..n : areas'[i] = areas[i]
    BY <1>1, <1>6, <2>1, <2>2, <2>3
  <2>6. /\ named' \in Seq(SUBSET (1..Runs)) /\ Len(named') = n + 1 /\ named'[n + 1] = {run.id}
        /\ \A i \in 1..n : named'[i] = named[i]
    BY <1>1, <1>6, <2>2, <2>3, <2>4
  <2>a. /\ ruled' \in Seq(Rulings) /\ Len(ruled') = n + 1 /\ ruled'[n + 1] = "none"
        /\ \A i \in 1..n : ruled'[i] = ruled[i]
    <3>1. ruled' = Append(ruled, "none") /\ "none" \in Rulings
      BY <1>1, <1>6 DEF Rulings
    <3> QED BY <2>2, <2>3, <3>1
  <2>7. DOMAIN areas = 1..n /\ DOMAIN areas' = 1..(n + 1) /\ 1..n \subseteq 1..(n + 1)
        /\ \A i \in 1..(n + 1) : i \in 1..n \/ i = n + 1
    BY <2>2, <2>5, AreaFacts
  <2>8. Cardinality({run.id}) = 1
    BY FS_Singleton
  <2>9. Ar!LeadsToActive' /\ Ar!CountedOncePerRun' /\ LastIsNamed' /\ RulingsHold'
    <3>1. /\ DOMAIN areas \subseteq DOMAIN areas' /\ Len(named') = Len(areas')
          /\ \A i \in DOMAIN areas : areas'[i] = areas[i] /\ named'[i] = named[i]
          /\ \A i \in DOMAIN areas : ruled'[i] = ruled[i]
          /\ \A i \in DOMAIN areas' \ DOMAIN areas : ruled'[i] = "none"
      BY <2>5, <2>6, <2>7, <2>a
    <3>2. \A i \in DOMAIN areas' \ DOMAIN areas :
           /\ areas'[i].status = "proposed" /\ areas'[i].issues = Cardinality(named'[i])
           /\ named'[i] = {run.id} /\ areas'[i].last = run.id
      BY <2>1, <2>5, <2>6, <2>7, <2>8
    <3>3. {run.id} \subseteq 1..run.id /\ run.id <= run.id
      BY <1>3, AreaFacts
    <3>4. \A i \in DOMAIN areas' \ DOMAIN areas :
           /\ areas'[i].status = "proposed" /\ areas'[i].issues = Cardinality(named'[i])
           /\ named'[i] \subseteq 1..run.id /\ areas'[i].last <= run.id
           /\ run.id >= 1 => (run.id \in named'[i] <=> areas'[i].last = run.id)
      BY <3>2, <3>3
    <3>5. /\ areas' \in Seq(AreaRows) /\ named' \in Seq(SUBSET (1..Runs))
          /\ UNCHANGED <<source, repeated>> /\ run'.id = run.id
      BY <1>1, <1>3, <2>5, <2>6
    <3> HIDE DEF AreaRows
    <3> QED BY <3>1, <3>4, <3>5, TableGrows
  <2>10. AreasTyped'
    <3>1. Len(areas') <= MaxAreas
      BY <1>1, <2>2, <2>5, AreasAssumption
    <3> QED BY <1>1, <1>3, <1>4, <2>5, <2>6, <2>a, <3>1 DEF AreasInv, AreasTyped
  <2>11. ReadStillHolds'
    BY <1>1, <1>3, <2>5, <2>7 DEF AreasInv, ReadStillHolds, Ar!IsActive, Ar!IsProposed
  <2>12. Ar!OneRowPerName'
    <3>1. ASSUME NEW i \in 1..n, MCFold[areas[i].name] = MCFold[name]
          PROVE  MCFold[name] \in crossed'
      <4>1. MCFold[name] \in Ar!HeldBeside(0)
        BY <2>7, <3>1, AreaFacts DEF Ar!HeldBeside
      <4>2. MCFold[name] \notin run.known
        BY <1>1, AreasAssumption DEF AreasInv, ReadStillHolds
      <4>3. MCFold[name] \in Ar!Crosses({name}, 0, run.known)
        BY <4>1, <4>2 DEF Ar!Crosses
      <4> QED BY <1>1, <1>6, <4>3
    <3>2. crossed \subseteq crossed'
      BY <1>1, <1>6
    <3>3. \A i, j \in 1..n : MCFold[areas[i].name] = MCFold[areas[j].name]
                             /\ MCFold[areas[i].name] \notin crossed => i = j
      BY <2>7 DEF AreasInv, AreasKept, Ar!OneRowPerName
    <3>4. ASSUME NEW i \in 1..(n + 1), NEW j \in 1..(n + 1),
                 MCFold[areas'[i].name] = MCFold[areas'[j].name], MCFold[areas'[i].name] \notin crossed'
          PROVE  i = j
      <4>1. CASE i \in 1..n /\ j \in 1..n
        BY <2>5, <3>2, <3>3, <3>4, <4>1
      <4>2. CASE i = n + 1 /\ j \in 1..n
        BY <2>1, <2>5, <3>1, <3>4, <4>2
      <4>3. CASE i \in 1..n /\ j = n + 1
        BY <2>1, <2>5, <3>1, <3>4, <4>3
      <4> QED BY <2>7, <4>1, <4>2, <4>3
    <3> QED BY <2>7, <3>4 DEF Ar!OneRowPerName
  <2> QED BY <2>9, <2>10, <2>11, <2>12 DEF AreasInv, AreasKept
<1> QED BY <1>5, <1>6

(* One area is counted. *)
LEMMA RunUpdatesAreas ==
  ASSUME AreasInv, NEW name \in MCNames, NEW fate \in Ar!Fates, Ar!RunUpdates(name, fate)
  PROVE  AreasInv'
<1> DEFINE m == run.match
           due == IF run.id = areas[m].last THEN 0 ELSE 1
           times == IF fate = "resent" THEN 2 ELSE 1
           entry == [areas[m] EXCEPT !.issues = areas[m].issues + times * due, !.last = run.id]
<1>1. /\ run.pc = name /\ m # 0 /\ Ar!Suffer(fate) /\ Ar!RunAfter(name, Ar!Raises(fate))
      /\ repeated' = (IF fate = "resent" THEN repeated \cup {m} ELSE repeated)
      /\ named' = (IF Ar!Ran(fate) THEN [named EXCEPT ![m] = named[m] \cup {run.id}] ELSE named)
      /\ UNCHANGED <<source, asked, rename, bulk, ruled, crossed>>
  BY DEF Ar!RunUpdates, Ar!server, Ar!NoArea
<1>2. run.pc # "idle" /\ m \in DOMAIN areas /\ Ar!Raises(fate) \in BOOLEAN
  BY <1>1, AreasAssumption DEF AreasInv, ReadStillHolds, Ar!Raises
<1>3. /\ run' \in [pc : {"idle", "names"} \cup MCNames, id : 0..Runs, counts : SUBSET MCNames,
                   match : Ar!Ids \cup {0}, known : SUBSET FoldedNames]
      /\ run'.id = run.id /\ run'.match = 0 /\ run'.pc = "names" /\ run.id >= 1
  BY <1>1, <1>2, RunAfterTyped
<1>4. areaMishaps' \in 0..Mishaps
  BY <1>1, SufferTyped
<1>5. CASE fate = "refused"
  <2>1. UNCHANGED <<areas, named, repeated>>
    BY <1>1, <1>5 DEF Ar!RunUpdates, Ar!Ran
  <2>2. AreasTyped'
    BY <1>1, <1>3, <1>4, <2>1 DEF AreasInv, AreasTyped
  <2>3. ReadStillHolds'
    BY <1>1, <1>3, <2>1 DEF AreasInv, ReadStillHolds, Ar!IsActive, Ar!IsProposed
  <2> QED BY <1>1, <1>3, <2>1, <2>2, <2>3, TableStands DEF AreasInv
<1>6. CASE fate # "refused"
  <2>1. Ar!Ran(fate)
    BY <1>1, <1>6 DEF Ar!Ran, Ar!Fates, Ar!Suffer
  <2>2. areas' = [areas EXCEPT ![m] = entry]
    BY <1>6 DEF Ar!RunUpdates, Ar!Counted
  <2>3. areas[m] \in AreaRows /\ named[m] \subseteq 1..Runs /\ named[m] \subseteq 1..run.id
    BY <1>2, AreaFacts DEF AreasInv, LastIsNamed
  <2>4. PICK r \in AreaRows : /\ r = entry
                              /\ r.name = areas[m].name /\ r.status = areas[m].status
                              /\ r.into = areas[m].into /\ r.last = run.id
                              /\ r.issues = areas[m].issues + times * due
    <3>1. areas[m].issues + times * due \in Nat
      BY <2>3 DEF AreaRows
    <3>2. entry \in AreaRows
      BY <2>3, <3>1, AreaFacts DEF AreaRows
    <3>3. /\ entry.name = areas[m].name /\ entry.status = areas[m].status
          /\ entry.into = areas[m].into /\ entry.last = run.id
          /\ entry.issues = areas[m].issues + times * due
      BY <2>3 DEF AreaRows
    <3> QED BY <3>2, <3>3
  <2> HIDE DEF entry
  <2>5. PICK v \in SUBSET (1..Runs) : v = named[m] \cup {run.id}
    <3>1. run.id \in 1..Runs
      BY <1>3, AreaFacts
    <3> QED BY <2>3, <3>1
  <2>6. /\ areas' \in Seq(AreaRows) /\ Len(areas') = Len(areas) /\ DOMAIN areas' = DOMAIN areas
        /\ areas'[m] = r /\ \A j \in DOMAIN areas : j # m => areas'[j] = areas[j]
    BY <1>2, <2>2, <2>4, OneRow
  <2>7. /\ named' \in Seq(SUBSET (1..Runs)) /\ Len(named') = Len(areas)
        /\ named'[m] = v /\ \A j \in DOMAIN areas : j # m => named'[j] = named[j]
    <3>1. named \in Seq(SUBSET (1..Runs)) /\ Len(named) = Len(areas)
      BY DEF AreasInv, AreasTyped
    <3>2. named' = [named EXCEPT ![m] = v]
      BY <1>1, <2>1, <2>5
    <3> QED BY <1>2, <3>1, <3>2, AreaFacts
  <2>8. AreasTyped'
    BY <1>1, <1>3, <1>4, <2>6, <2>7 DEF AreasInv, AreasTyped
  <2>9. \A i \in DOMAIN areas : /\ areas'[i].name = areas[i].name /\ areas'[i].status = areas[i].status
                                /\ areas'[i].into = areas[i].into
    BY <2>4, <2>6
  <2>10. ReadStillHolds'
    BY <1>1, <1>3, <2>6, <2>9 DEF AreasInv, ReadStillHolds, Ar!IsActive, Ar!IsProposed
  <2>11. LastIsNamed'
    <3>1. ASSUME NEW i \in DOMAIN areas
          PROVE  /\ named'[i] \subseteq 1..run.id /\ areas'[i].last <= run.id
                 /\ run.id \in named'[i] <=> areas'[i].last = run.id
      <4>1. CASE i = m
        BY <1>3, <2>3, <2>4, <2>5, <2>6, <2>7, <4>1, AreaFacts
      <4>2. CASE i # m
        BY <1>3, <2>6, <2>7, <4>2 DEF AreasInv, LastIsNamed
      <4> QED BY <4>1, <4>2
    <3> QED BY <1>3, <2>6, <3>1 DEF LastIsNamed
  <2>12. Ar!OneRowPerName'
    BY <1>1, <2>6, <2>9, NamesStay
  <2>13. Ar!LeadsToActive'
    BY <1>1, <2>6, <2>9, ActiveStays
  <2>14. Ar!CountedOncePerRun'
    <3>1. ASSUME NEW i \in DOMAIN areas, i \notin repeated'
          PROVE  areas'[i].issues = Cardinality(named'[i])
      <4>1. i \notin repeated /\ areas[i].issues = Cardinality(named[i])
        BY <1>1, <2>6, <3>1, SameCardinality DEF AreasInv, AreasKept, Ar!CountedOncePerRun
      <4>2. CASE i # m
        BY <2>6, <2>7, <4>1, <4>2
      <4>3. CASE i = m
        <5>1. times = 1
          BY <1>1, <3>1, <4>3
        <5>2. run.id \in named[m] <=> areas[m].last = run.id
          BY <1>2, <1>3 DEF AreasInv, LastIsNamed
        <5>3. IsFiniteSet(1..Runs)
          BY FS_Interval, AreaFacts
        <5>4. IsFiniteSet(named[m])
          BY <2>3, <5>3, FS_Subset
        <5>5. Cardinality(v) = IF run.id \in named[m] THEN Cardinality(named[m])
                               ELSE Cardinality(named[m]) + 1
          BY <2>5, <5>4, FS_AddElement
        <5>6. Cardinality(named[m]) \in Nat
          BY <5>4, FS_CardinalityType
        <5>7. r.issues = areas[m].issues + due
          BY <2>3, <2>4, <5>1 DEF AreaRows
        <5> QED BY <2>6, <2>7, <4>1, <4>3, <5>2, <5>5, <5>6, <5>7
      <4> QED BY <4>2, <4>3
    <3> QED BY <2>6, <3>1, SameCardinality DEF Ar!CountedOncePerRun
  <2>15. RulingsHold'
    BY <1>1, <2>6, <2>9, RulingsStay
  <2> QED BY <2>8, <2>10, <2>11, <2>12, <2>13, <2>14, <2>15 DEF AreasInv, AreasKept
<1> QED BY <1>5, <1>6

(* One row gets a status that a proposal may get. *)
LEMMA StatusChange ==
  ASSUME AreasInv, NEW i \in DOMAIN areas, areas[i].status = "proposed",
         NEW status \in {"active", "dismissed", "merged"}, NEW into \in Ar!Ids \cup {0},
         status = "merged" => Ar!IsActive(into),
         NEW entry \in AreaRows, areas' = [areas EXCEPT ![i] = entry],
         entry.name = areas[i].name, entry.issues = areas[i].issues, entry.last = areas[i].last,
         entry.status = status, entry.into = into,
         ruled' = [ruled EXCEPT ![i] = Ar!Ruling(status)],
         UNCHANGED <<source, named, crossed, repeated>>, run'.id = run.id
  PROVE  /\ areas' \in Seq(AreaRows) /\ Len(areas') = Len(areas) /\ DOMAIN areas' = DOMAIN areas
         /\ ruled' \in Seq(Rulings) /\ Len(ruled') = Len(areas)
         /\ LastIsNamed' /\ AreasKept'
         /\ \A j : Ar!IsActive(j) => Ar!IsActive(j)'
         /\ \A j : Ar!IsProposed(j) /\ j # i => Ar!IsProposed(j)'
<1>1. /\ areas' \in Seq(AreaRows) /\ Len(areas') = Len(areas) /\ DOMAIN areas' = DOMAIN areas
      /\ areas'[i] = entry /\ \A j \in DOMAIN areas : j # i => areas'[j] = areas[j]
  BY OneRow
<1>2. \A j \in DOMAIN areas : /\ areas'[j].name = areas[j].name /\ areas'[j].issues = areas[j].issues
                              /\ areas'[j].last = areas[j].last
  BY <1>1
<1>3. Ar!OneRowPerName'
  BY <1>1, <1>2, NamesStay
<1>4. Ar!CountedOncePerRun' /\ LastIsNamed'
  BY <1>1, <1>2, CountsStay
<1>5. \A j \in DOMAIN areas : areas[j].status = "active" => areas'[j].status = "active"
  BY <1>1
<1>6. ASSUME NEW j \in DOMAIN areas', areas'[j].status = "merged"
      PROVE  \/ j \in DOMAIN areas /\ areas[j].status = "merged" /\ areas'[j].into = areas[j].into
             \/ Ar!IsActive(areas'[j].into)
  <2>1. CASE j = i
    <3>1. areas'[j].into = into /\ status = "merged"
      BY <1>1, <1>6, <2>1
    <3> QED BY <3>1
  <2>2. CASE j # i
    BY <1>1, <1>6, <2>2
  <2> QED BY <2>1, <2>2
<1>7. Ar!LeadsToActive'
  BY <1>1, <1>5, <1>6, ActiveStays
<1>8. \A j : Ar!IsActive(j) => Ar!IsActive(j)'
  BY <1>1, <1>5 DEF Ar!IsActive
<1>9. \A j : Ar!IsProposed(j) /\ j # i => Ar!IsProposed(j)'
  BY <1>1 DEF Ar!IsProposed
<1>10. /\ ruled' \in Seq(Rulings) /\ Len(ruled') = Len(areas)
       /\ ruled'[i] = Ar!Ruling(status) /\ \A j \in DOMAIN areas : j # i => ruled'[j] = ruled[j]
  <2>1. ruled \in Seq(Rulings) /\ Len(ruled) = Len(areas) /\ i \in DOMAIN ruled
    BY AreaFacts DEF AreasInv, AreasTyped
  <2>2. PICK v \in Rulings : v = Ar!Ruling(status)
    BY DEF Ar!Ruling, Rulings
  <2> QED BY <2>1, <2>2, AreaFacts
<1>11. RulingsHold'
  <2>1. ASSUME NEW j \in DOMAIN areas PROVE ruled'[j] = Verdict(areas'[j].status)
    <3>1. CASE j = i
      BY <1>1, <1>10, <3>1 DEF Verdict
    <3>2. CASE j # i
      BY <1>1, <1>10, <3>2 DEF AreasInv, AreasKept, RulingsHold
    <3> QED BY <3>1, <3>2
  <2> QED BY <1>1, <2>1 DEF RulingsHold
<1> QED BY <1>1, <1>3, <1>4, <1>7, <1>8, <1>9, <1>10, <1>11 DEF AreasKept

(* A reader decides on a proposal. *)
LEMMA DecideAreas ==
  ASSUME AreasInv, NEW i \in Ar!Ids, NEW fate \in Ar!Fates,
         NEW status \in {"active", "dismissed", "merged"}, NEW into \in Ar!Ids \cup {0},
         status = "merged" => Ar!IsActive(into), Ar!Decide(i, status, into, fate)
  PROVE  AreasInv'
<1>1. /\ rename = Ar!NoRename /\ bulk = Ar!NoBulk /\ Ar!IsProposed(i) /\ Ar!Suffer(fate)
      /\ areas' = (IF Ar!Ran(fate)
                    THEN [areas EXCEPT ![i] = [areas[i] EXCEPT !.status = status, !.into = into]]
                    ELSE areas)
      /\ ruled' = (IF Ar!Ran(fate) THEN [ruled EXCEPT ![i] = Ar!Ruling(status)] ELSE ruled)
      /\ UNCHANGED <<source, run, asked, rename, bulk, named, crossed, repeated>>
  BY DEF Ar!Decide, Ar!Request, Ar!ServerFree, Ar!history
<1>2. areaMishaps' \in 0..Mishaps
  BY <1>1, SufferTyped
<1>3. Ar!NoBulk.id = 0
  BY DEF Ar!NoBulk, Ar!NoArea
<1>4. CASE ~Ar!Ran(fate)
  <2>1. UNCHANGED <<areas, ruled>>
    BY <1>1, <1>4
  <2>2. AreasTyped'
    BY <1>1, <1>2, <2>1 DEF AreasInv, AreasTyped
  <2>3. ReadStillHolds'
    BY <1>1, <2>1 DEF AreasInv, ReadStillHolds, Ar!IsActive, Ar!IsProposed
  <2> QED BY <1>1, <2>1, <2>2, <2>3, TableStands DEF AreasInv
<1>5. CASE Ar!Ran(fate)
  <2>1. i \in DOMAIN areas /\ areas[i].status = "proposed" /\ areas[i] \in AreaRows
    BY <1>1, AreaFacts DEF Ar!IsProposed
  <2>2. PICK entry \in AreaRows :
          /\ entry = [areas[i] EXCEPT !.status = status, !.into = into]
          /\ entry.name = areas[i].name /\ entry.issues = areas[i].issues /\ entry.last = areas[i].last
          /\ entry.status = status /\ entry.into = into
    <3>1. PICK r \in AreaRows : r = areas[i]
      BY <2>1
    <3>2. [r EXCEPT !.status = status, !.into = into] \in AreaRows
      BY DEF AreaRows
    <3> QED BY <3>1, <3>2 DEF AreaRows
  <2>3. areas' = [areas EXCEPT ![i] = entry]
    BY <1>1, <1>5, <2>2
  <2>4. /\ areas' \in Seq(AreaRows) /\ Len(areas') = Len(areas) /\ DOMAIN areas' = DOMAIN areas
        /\ ruled' \in Seq(Rulings) /\ Len(ruled') = Len(areas) /\ LastIsNamed' /\ AreasKept'
    <3>1. /\ UNCHANGED <<source, named, crossed, repeated>> /\ run'.id = run.id
          /\ ruled' = [ruled EXCEPT ![i] = Ar!Ruling(status)]
      BY <1>1, <1>5
    <3> HIDE DEF AreaRows
    <3> QED BY <2>1, <2>2, <2>3, <3>1, StatusChange
  <2>5. AreasTyped'
    BY <1>1, <1>2, <2>4 DEF AreasInv, AreasTyped
  <2>6. ReadStillHolds'
    BY <1>1, <1>3, <2>4 DEF AreasInv, ReadStillHolds
  <2> QED BY <2>4, <2>5, <2>6 DEF AreasInv
<1> QED BY <1>4, <1>5

(* The rename is written. *)
LEMMA RenameWritesAreas ==
  ASSUME AreasInv, NEW fate \in Ar!Fates, Ar!RenameWrites(fate)
  PROVE  AreasInv'
<1> DEFINE lands == Ar!Ran(fate)
                    /\ \A i \in DOMAIN areas \ {rename.id} : areas[i].name # rename.name
<1>1. /\ rename # Ar!NoRename /\ Ar!Suffer(fate) /\ rename' = Ar!NoRename
      /\ areas' = (IF lands THEN [areas EXCEPT ![rename.id] = [areas[rename.id] EXCEPT !.name = rename.name]]
                   ELSE areas)
      /\ crossed' = (IF lands THEN crossed \cup Ar!Crosses({rename.name}, rename.id, rename.known)
                     ELSE crossed)
      /\ UNCHANGED <<source, run, asked, bulk, named, ruled, repeated>>
  BY DEF Ar!RenameWrites
<1>2. areaMishaps' \in 0..Mishaps
  BY <1>1, SufferTyped
<1>3. PICK n \in MCNames, k \in DOMAIN areas : rename.name = n /\ rename.id = k
  BY <1>1 DEF AreasInv, AreasTyped, ReadStillHolds
<1>4. CASE ~lands
  <2>1. UNCHANGED <<areas, crossed>>
    BY <1>1, <1>4
  <2>2. AreasTyped'
    BY <1>1, <1>2, <2>1 DEF AreasInv, AreasTyped
  <2>3. ReadStillHolds'
    BY <1>1, <2>1 DEF AreasInv, ReadStillHolds, Ar!IsActive, Ar!IsProposed
  <2> QED BY <1>1, <2>1, <2>2, <2>3, TableStands DEF AreasInv
<1>5. CASE lands
  <2>1. areas[k] \in AreaRows
    BY AreaFacts
  <2>2. PICK entry \in AreaRows :
          /\ entry = [areas[k] EXCEPT !.name = n]
          /\ entry.name = n /\ entry.issues = areas[k].issues /\ entry.last = areas[k].last
          /\ entry.status = areas[k].status /\ entry.into = areas[k].into
    <3>1. PICK r \in AreaRows : r = areas[k]
      BY <2>1
    <3>2. [r EXCEPT !.name = n] \in AreaRows
      BY DEF AreaRows
    <3> QED BY <3>1, <3>2 DEF AreaRows
  <2>3. areas' = [areas EXCEPT ![k] = entry]
    BY <1>1, <1>3, <1>5, <2>2
  <2>4. /\ areas' \in Seq(AreaRows) /\ Len(areas') = Len(areas) /\ DOMAIN areas' = DOMAIN areas
        /\ areas'[k] = entry /\ \A j \in DOMAIN areas : j # k => areas'[j] = areas[j]
    BY <2>3, OneRow
  <2>5. \A j \in DOMAIN areas : /\ areas'[j].status = areas[j].status /\ areas'[j].into = areas[j].into
                                /\ areas'[j].issues = areas[j].issues /\ areas'[j].last = areas[j].last
    BY <2>2, <2>4
  <2>6. AreasTyped'
    BY <1>1, <1>2, <2>4 DEF AreasInv, AreasTyped
  <2>7. ReadStillHolds'
    BY <1>1, <2>4, <2>5 DEF AreasInv, ReadStillHolds, Ar!IsActive, Ar!IsProposed
  <2>8. Ar!CountedOncePerRun' /\ LastIsNamed'
    BY <1>1, <2>4, <2>5, CountsStay
  <2>9. Ar!LeadsToActive'
    BY <1>1, <2>4, <2>5, ActiveStays
  <2>10. Ar!OneRowPerName'
    <3>1. ASSUME NEW i \in DOMAIN areas, i # k, MCFold[areas[i].name] = MCFold[n]
          PROVE  MCFold[n] \in crossed'
      <4>1. MCFold[n] \in Ar!HeldBeside(k)
        BY <3>1 DEF Ar!HeldBeside
      <4>2. MCFold[n] \notin rename.known
        BY <1>1, <1>3 DEF AreasInv, ReadStillHolds
      <4>3. MCFold[n] \in Ar!Crosses({rename.name}, rename.id, rename.known)
        BY <1>3, <4>1, <4>2 DEF Ar!Crosses
      <4> QED BY <1>1, <1>5, <4>3
    <3>2. crossed \subseteq crossed'
      BY <1>1
    <3>3. \A i, j \in DOMAIN areas : MCFold[areas[i].name] = MCFold[areas[j].name]
                                     /\ MCFold[areas[i].name] \notin crossed => i = j
      BY DEF AreasInv, AreasKept, Ar!OneRowPerName
    <3> HIDE DEF lands
    <3>4. ASSUME NEW i \in DOMAIN areas, NEW j \in DOMAIN areas,
                 MCFold[areas'[i].name] = MCFold[areas'[j].name], MCFold[areas'[i].name] \notin crossed'
          PROVE  i = j
      <4>1. CASE i # k /\ j # k
        BY <2>4, <3>2, <3>3, <3>4, <4>1
      <4>2. CASE i = k /\ j # k
        BY <2>2, <2>4, <3>1, <3>4, <4>2
      <4>3. CASE i # k /\ j = k
        BY <2>2, <2>4, <3>1, <3>4, <4>3
      <4> QED BY <4>1, <4>2, <4>3
    <3> QED BY <2>4, <3>4 DEF Ar!OneRowPerName
  <2>11. RulingsHold'
    BY <1>1, <2>4, <2>5, RulingsStay
  <2> QED BY <2>6, <2>7, <2>8, <2>9, <2>10, <2>11 DEF AreasInv, AreasKept
<1> QED BY <1>4, <1>5

(* An assignment to a proposal makes it an area first. *)
LEMMA BulkActivatesAreas ==
  ASSUME AreasInv, NEW fate \in Ar!Fates, Ar!BulkActivates(fate)
  PROVE  AreasInv'
<1>1. /\ bulk # Ar!NoBulk /\ Ar!IsProposed(bulk.id) /\ Ar!Suffer(fate)
      /\ areas' = (IF Ar!Ran(fate)
                    THEN [areas EXCEPT ![bulk.id] = [areas[bulk.id] EXCEPT !.status = "active"]]
                    ELSE areas)
      /\ ruled' = (IF Ar!Ran(fate) THEN [ruled EXCEPT ![bulk.id] = "active"] ELSE ruled)
      /\ bulk' = (IF Ar!Raises(fate) THEN Ar!NoBulk ELSE bulk)
      /\ UNCHANGED <<source, run, asked, rename, named, crossed, repeated>>
  BY DEF Ar!BulkActivates, Ar!history
<1>2. areaMishaps' \in 0..Mishaps
  BY <1>1, SufferTyped
<1>3. /\ Ar!NoBulk \in [id : Ar!Ids \cup {0}, left : SUBSET SourceNames] /\ Ar!NoBulk.id = 0
      /\ bulk' \in [id : Ar!Ids \cup {0}, left : SUBSET SourceNames]
      /\ bulk' = Ar!NoBulk \/ bulk' = bulk
  BY <1>1 DEF AreasInv, AreasTyped, Ar!NoBulk, Ar!NoArea
<1>4. CASE ~Ar!Ran(fate)
  <2>1. UNCHANGED <<areas, ruled>>
    BY <1>1, <1>4
  <2>2. AreasTyped'
    BY <1>1, <1>2, <1>3, <2>1 DEF AreasInv, AreasTyped
  <2>3. ReadStillHolds'
    BY <1>1, <1>3, <2>1 DEF AreasInv, ReadStillHolds, Ar!IsActive, Ar!IsProposed
  <2> QED BY <1>1, <2>1, <2>2, <2>3, TableStands DEF AreasInv
<1>5. CASE Ar!Ran(fate)
  <2>1. PICK i \in DOMAIN areas : i = bulk.id /\ areas[i].status = "proposed" /\ areas[i] \in AreaRows
    BY <1>1, AreaFacts DEF Ar!IsProposed
  <2>2. PICK into \in Ar!Ids \cup {0} : into = areas[i].into
    BY <2>1 DEF AreaRows
  <2>3. PICK entry \in AreaRows :
          /\ entry = [areas[i] EXCEPT !.status = "active"]
          /\ entry.name = areas[i].name /\ entry.issues = areas[i].issues /\ entry.last = areas[i].last
          /\ entry.status = "active" /\ entry.into = into
    <3>1. PICK r \in AreaRows : r = areas[i]
      BY <2>1
    <3>2. [r EXCEPT !.status = "active"] \in AreaRows
      BY DEF AreaRows
    <3> QED BY <2>2, <3>1, <3>2 DEF AreaRows
  <2>4. areas' = [areas EXCEPT ![i] = entry]
    BY <1>1, <1>5, <2>1, <2>3
  <2>5. /\ areas' \in Seq(AreaRows) /\ Len(areas') = Len(areas) /\ DOMAIN areas' = DOMAIN areas
        /\ ruled' \in Seq(Rulings) /\ Len(ruled') = Len(areas) /\ LastIsNamed' /\ AreasKept'
    <3>1. /\ UNCHANGED <<source, named, crossed, repeated>> /\ run'.id = run.id
          /\ ruled' = [ruled EXCEPT ![i] = Ar!Ruling("active")]
      BY <1>1, <1>5, <2>1 DEF Ar!Ruling
    <3> HIDE DEF AreaRows
    <3> QED BY <2>1, <2>3, <2>4, <3>1, StatusChange
  <2>6. areas'[i].status = "active"
    BY <2>3, <2>4, OneRow
  <2>7. AreasTyped'
    BY <1>1, <1>2, <1>3, <2>5 DEF AreasInv, AreasTyped
  <2>8. ReadStillHolds'
    BY <1>1, <1>3, <2>1, <2>5, <2>6 DEF AreasInv, ReadStillHolds, Ar!IsActive
  <2> QED BY <2>5, <2>7, <2>8 DEF AreasInv
<1> QED BY <1>4, <1>5

(* A source gets its area. *)
LEMMA BulkWritesAreas ==
  ASSUME AreasInv, NEW s \in SourceNames, NEW fate \in Ar!Fates, Ar!BulkWrites(s, fate)
  PROVE  AreasInv'
<1> DEFINE left == bulk.left \ {s}
<1>1. /\ bulk # Ar!NoBulk /\ ~Ar!IsProposed(bulk.id) /\ Ar!Suffer(fate)
      /\ source' = (IF Ar!Ran(fate) THEN [source EXCEPT ![s] = bulk.id] ELSE source)
      /\ bulk' = Ar!NoBulk \/ bulk' = [bulk EXCEPT !.left = left]
      /\ UNCHANGED <<areas, run, asked, rename, named, ruled, crossed, repeated>>
  BY DEF Ar!BulkWrites, Ar!history
<1>2. areaMishaps' \in 0..Mishaps
  BY <1>1, SufferTyped
<1>3. bulk \in [id : Ar!Ids \cup {0}, left : SUBSET SourceNames]
      /\ source \in [SourceNames -> Ar!Ids \cup {0}]
  BY DEF AreasInv, AreasTyped
<1>4. /\ bulk' \in [id : Ar!Ids \cup {0}, left : SUBSET SourceNames]
      /\ bulk'.id = 0 \/ bulk'.id = bulk.id
  <2>1. CASE bulk' = Ar!NoBulk
    BY <2>1 DEF Ar!NoBulk, Ar!NoArea
  <2>2. CASE bulk' = [bulk EXCEPT !.left = left]
    BY <1>3, <2>2
  <2> QED BY <1>1, <2>1, <2>2
<1>5. PICK v \in Ar!Ids \cup {0} : v = bulk.id /\ (v # 0 => Ar!IsActive(v))
  BY <1>1, <1>3 DEF AreasInv, ReadStillHolds
<1>6. /\ source' \in [SourceNames -> Ar!Ids \cup {0}]
      /\ \A other \in SourceNames : source'[other] = source[other] \/ source'[other] = v
  <2>1. CASE Ar!Ran(fate)
    <3>1. source' = [source EXCEPT ![s] = v]
      BY <1>1, <1>5, <2>1
    <3> QED BY <1>3, <3>1
  <2>2. CASE ~Ar!Ran(fate)
    BY <1>1, <1>3, <2>2
  <2> QED BY <2>1, <2>2
<1>7. AreasTyped'
  BY <1>1, <1>2, <1>4, <1>6 DEF AreasInv, AreasTyped
<1>8. ReadStillHolds'
  BY <1>1, <1>4 DEF AreasInv, ReadStillHolds, Ar!IsActive, Ar!IsProposed
<1>9. LastIsNamed' /\ Ar!OneRowPerName' /\ Ar!CountedOncePerRun' /\ RulingsHold'
  BY <1>1 DEF AreasInv, LastIsNamed, AreasKept, Ar!OneRowPerName, Ar!CountedOncePerRun, RulingsHold
<1>10. \A j : Ar!IsActive(j)' <=> Ar!IsActive(j)
  BY <1>1 DEF Ar!IsActive
<1>11. Ar!LeadsToActive'
  <2>1. ASSUME NEW other \in SourceNames, source'[other] # 0 PROVE Ar!IsActive(source'[other])
    BY <1>5, <1>6, <2>1 DEF AreasInv, AreasKept, Ar!LeadsToActive, Ar!NoArea
  <2>2. \A i \in DOMAIN areas : areas[i].status = "merged" => Ar!IsActive(areas[i].into)
    BY DEF AreasInv, AreasKept, Ar!LeadsToActive
  <2> QED BY <1>1, <2>1, <2>2 DEF Ar!LeadsToActive, Ar!IsActive, Ar!NoArea
<1> QED BY <1>7, <1>8, <1>9, <1>11 DEF AreasInv, AreasKept

(* One sequence after the other. *)
LEMMA Joined ==
  ASSUME NEW S, NEW s \in Seq(S), NEW tail \in Seq(S)
  PROVE  /\ s \o tail \in Seq(S) /\ Len(s \o tail) = Len(s) + Len(tail)
         /\ DOMAIN (s \o tail) = 1..(Len(s) + Len(tail))
         /\ \A i \in 1..Len(s) : (s \o tail)[i] = s[i]
         /\ \A i \in 1..(Len(s) + Len(tail)) : i \notin 1..Len(s) =>
               i - Len(s) \in 1..Len(tail) /\ (s \o tail)[i] = tail[i - Len(s)]
<1>1. s \o tail \in Seq(S)
  OBVIOUS
<1>2. Len(s \o tail) = Len(s) + Len(tail)
  OBVIOUS
<1>3. DOMAIN (s \o tail) = 1..(Len(s) + Len(tail))
  OBVIOUS
<1>4. \A i \in 1..Len(s) : (s \o tail)[i] = s[i]
  OBVIOUS
<1>5. ASSUME NEW i \in 1..(Len(s) + Len(tail)), i \notin 1..Len(s)
      PROVE i - Len(s) \in 1..Len(tail) /\ (s \o tail)[i] = tail[i - Len(s)]
  <2>1. i - Len(s) \in 1..Len(tail)
    BY <1>5
  <2>2. i > Len(s) /\ i <= Len(s) + Len(tail)
    BY <1>5
  <2>3. (s \o tail)[i] = tail[i - Len(s)]
    BY <2>2
  <2> QED BY <2>1, <2>3
<1> QED BY <1>1, <1>2, <1>3, <1>4, <1>5

(* The reply's new names go in. *)
LEMMA ProposeWritesAreas ==
  ASSUME AreasInv, NEW ask \in asked, NEW reply \in SUBSET MCNames, NEW fate \in Ar!Fates,
         Ar!ProposeWrites(ask, reply, fate)
  PROVE  AreasInv'
<1> DEFINE new == (reply \cap ask.unknown) \ Unplaced
<1>1. /\ asked' = asked \ {ask} /\ \A m, n \in reply : MCFold[m] = MCFold[n] => m = n
      /\ Len(areas) + Ar!Cardinality(new) <= MaxAreas
      /\ UNCHANGED <<source, run, rename, bulk, repeated>>
  BY DEF Ar!ProposeWrites, Ar!server
<1>2. \/ UNCHANGED <<areas, named, ruled, crossed, areaMishaps>>
      \/ Ar!Suffer(fate) /\ UNCHANGED <<areas, named, ruled, crossed>>
      \/ /\ Ar!Suffer(fate)
         /\ \E rows \in Ar!SetToSeqs(new) :
              /\ areas' = areas \o [k \in DOMAIN rows |-> Ar!Proposed(rows[k], 0, 0)]
              /\ named' = named \o [k \in DOMAIN rows |-> {}]
              /\ ruled' = ruled \o [k \in DOMAIN rows |-> "none"]
              /\ crossed' = crossed \cup Ar!Crosses(new, 0, ask.known)
  BY DEF Ar!ProposeWrites, Ar!NoArea
<1>3. areaMishaps' \in 0..Mishaps
  BY <1>2, SufferTyped, AreaFacts
<1>4. CASE UNCHANGED <<areas, named, ruled, crossed>>
  <2>1. AreasTyped'
    BY <1>1, <1>3, <1>4 DEF AreasInv, AreasTyped
  <2>2. ReadStillHolds'
    BY <1>1, <1>4 DEF AreasInv, ReadStillHolds, Ar!IsActive, Ar!IsProposed
  <2> QED BY <1>1, <1>4, <2>1, <2>2, TableStands DEF AreasInv
<1>5. ASSUME NEW rows \in Ar!SetToSeqs(new),
             areas' = areas \o [k \in DOMAIN rows |-> Ar!Proposed(rows[k], 0, 0)],
             named' = named \o [k \in DOMAIN rows |-> {}],
             ruled' = ruled \o [k \in DOMAIN rows |-> "none"],
             crossed' = crossed \cup Ar!Crosses(new, 0, ask.known)
      PROVE  AreasInv'
  <2>1. new \subseteq reply /\ reply \subseteq MCNames
    OBVIOUS
  <2>2. PICK c \in Nat : c = Ar!Cardinality(new)
    <3>1. IsFiniteSet(MCNames)
      <4>1. /\ IsFiniteSet({}) /\ IsFiniteSet({e}) /\ IsFiniteSet({e, ee}) /\ IsFiniteSet({e, ee, y})
            /\ IsFiniteSet({e, ee, y, o})
        <5>1. IsFiniteSet({e})
          BY FS_Singleton
        <5>2. {e, ee} = {e} \cup {ee} /\ {e, ee, y} = {e, ee} \cup {y}
              /\ {e, ee, y, o} = {e, ee, y} \cup {o}
          OBVIOUS
        <5>3. IsFiniteSet({e} \cup {ee})
          BY <5>1, FS_AddElement
        <5>4. IsFiniteSet({e, ee} \cup {y})
          BY <5>2, <5>3, FS_AddElement
        <5>5. IsFiniteSet({e, ee, y} \cup {o})
          BY <5>2, <5>4, FS_AddElement
        <5> QED BY <5>1, <5>2, <5>3, <5>4, <5>5, FS_EmptySet
      <4> QED BY <4>1 DEF MCNames
    <3>2. IsFiniteSet(new)
      BY <2>1, <3>1, FS_Subset
    <3> QED BY <3>2, FS_CardinalityType, SameCardinality
  <2>3. /\ rows \in [1..c -> new] /\ DOMAIN rows = 1..c
        /\ \A i, j \in 1..c : i # j => rows[i] # rows[j]
    BY <2>2 DEF Ar!SetToSeqs
  <2>4. PICK n \in Nat : n = Len(areas)
    BY AreaFacts
  <2>5. /\ areas \in Seq(AreaRows) /\ named \in Seq(SUBSET (1..Runs)) /\ Len(named) = n
        /\ ruled \in Seq(Rulings) /\ Len(ruled) = n
        /\ DOMAIN areas = 1..n /\ n + c <= MaxAreas
    BY <1>1, <2>2, <2>4, AreaFacts DEF AreasInv, AreasTyped
  <2> DEFINE grown == [k \in 1..c |-> Ar!Proposed(rows[k], 0, 0)]
             unnamed == [k \in 1..c |-> {}]
             unruled == [k \in 1..c |-> "none"]
  <2>6. /\ grown \in Seq(AreaRows) /\ Len(grown) = c
        /\ \A k \in 1..c : /\ grown[k].name = rows[k] /\ grown[k].status = "proposed"
                           /\ grown[k].issues = 0 /\ grown[k].last = 0
    <3>1. ASSUME NEW r \in MCNames
          PROVE  /\ Ar!Proposed(r, 0, 0) \in AreaRows /\ Ar!Proposed(r, 0, 0).name = r
                 /\ Ar!Proposed(r, 0, 0).status = "proposed"
                 /\ Ar!Proposed(r, 0, 0).issues = 0 /\ Ar!Proposed(r, 0, 0).last = 0
      BY AreaFacts DEF Ar!Proposed, Ar!NoArea, AreaRows
    <3>2. \A k \in 1..c : rows[k] \in MCNames
      BY <2>1, <2>3
    <3> HIDE DEF AreaRows
    <3>3. grown \in [1..c -> AreaRows]
      BY <3>1, <3>2
    <3> QED BY <3>1, <3>2, <3>3
  <2>7. unnamed \in Seq(SUBSET (1..Runs)) /\ Len(unnamed) = c
    OBVIOUS
  <2>a. unruled \in Seq(Rulings) /\ Len(unruled) = c
    BY DEF Rulings
  <2>8. areas' = areas \o grown /\ named' = named \o unnamed /\ ruled' = ruled \o unruled
    BY <1>5, <2>3
  <2> HIDE DEF grown
  <2>9. /\ areas' \in Seq(AreaRows) /\ Len(areas') = n + c /\ DOMAIN areas' = 1..(n + c)
        /\ \A i \in 1..n : areas'[i] = areas[i]
        /\ \A i \in 1..(n + c) : i \notin 1..n => i - n \in 1..c /\ areas'[i] = grown[i - n]
    <3>1. /\ areas \o grown \in Seq(AreaRows) /\ Len(areas \o grown) = n + c
          /\ DOMAIN (areas \o grown) = 1..(n + c)
          /\ \A i \in 1..n : (areas \o grown)[i] = areas[i]
          /\ \A i \in 1..(n + c) : i \notin 1..n => i - n \in 1..c /\ (areas \o grown)[i] = grown[i - n]
      <4>1. areas \in Seq(AreaRows) /\ grown \in Seq(AreaRows) /\ Len(areas) = n /\ Len(grown) = c
        BY <2>4, <2>5, <2>6
      <4> HIDE DEF AreaRows
      <4> QED BY <4>1, Joined
    <3> QED BY <2>8, <3>1
  <2>10. /\ named' \in Seq(SUBSET (1..Runs)) /\ Len(named') = n + c
         /\ \A i \in 1..n : named'[i] = named[i]
         /\ \A i \in 1..(n + c) : i \notin 1..n => named'[i] = {}
    <3>1. \A i \in 1..c : unnamed[i] = {}
      OBVIOUS
    <3> DEFINE sets == SUBSET (1..Runs)
    <3>2. /\ named \in Seq(sets) /\ Len(named) = n
          /\ unnamed \in Seq(sets) /\ Len(unnamed) = c
      BY <2>4, <2>5, <2>7
    <3> HIDE DEF unnamed, unruled, sets
    <3>3. /\ named \o unnamed \in Seq(sets) /\ Len(named \o unnamed) = n + c
          /\ \A i \in 1..n : (named \o unnamed)[i] = named[i]
          /\ \A i \in 1..(n + c) : i \notin 1..n =>
                i - n \in 1..c /\ (named \o unnamed)[i] = unnamed[i - n]
      BY <3>2, Joined
    <3> QED BY <2>8, <3>1, <3>3 DEF sets
  <2>b. /\ ruled' \in Seq(Rulings) /\ Len(ruled') = n + c
        /\ \A i \in 1..n : ruled'[i] = ruled[i]
        /\ \A i \in 1..(n + c) : i \notin 1..n => ruled'[i] = "none"
    <3>1. \A i \in 1..c : unruled[i] = "none"
      OBVIOUS
    <3>a. /\ ruled \in Seq(Rulings) /\ Len(ruled) = n
          /\ unruled \in Seq(Rulings) /\ Len(unruled) = c
      BY <2>5, <2>a
    <3> HIDE DEF unnamed, unruled, Rulings
    <3>2. /\ ruled \o unruled \in Seq(Rulings) /\ Len(ruled \o unruled) = n + c
          /\ \A i \in 1..n : (ruled \o unruled)[i] = ruled[i]
          /\ \A i \in 1..(n + c) : i \notin 1..n =>
                i - n \in 1..c /\ (ruled \o unruled)[i] = unruled[i - n]
      BY <3>a, Joined
    <3> QED BY <2>8, <3>1, <3>2
  <2>11. 1..n \subseteq 1..(n + c)
    OBVIOUS
  <2> HIDE DEF unnamed, unruled
  <2>12. Ar!LeadsToActive' /\ Ar!CountedOncePerRun' /\ LastIsNamed' /\ RulingsHold'
    <3>1. /\ DOMAIN areas \subseteq DOMAIN areas' /\ Len(named') = Len(areas')
          /\ \A i \in DOMAIN areas : areas'[i] = areas[i] /\ named'[i] = named[i]
          /\ \A i \in DOMAIN areas : ruled'[i] = ruled[i]
          /\ \A i \in DOMAIN areas' \ DOMAIN areas : ruled'[i] = "none"
      BY <2>5, <2>9, <2>10, <2>11, <2>b
    <3>2. Cardinality({}) = 0 /\ run.id \in Nat
      BY FS_EmptySet, AreaFacts
    <3>3. \A i \in DOMAIN areas' \ DOMAIN areas :
           /\ areas'[i].status = "proposed" /\ areas'[i].issues = 0 /\ areas'[i].last = 0
           /\ named'[i] = {}
      BY <2>5, <2>6, <2>9, <2>10
    <3>4. \A i \in DOMAIN areas' \ DOMAIN areas :
           /\ areas'[i].status = "proposed" /\ areas'[i].issues = Cardinality(named'[i])
           /\ named'[i] \subseteq 1..run.id /\ areas'[i].last <= run.id
           /\ run.id >= 1 => (run.id \in named'[i] <=> areas'[i].last = run.id)
      <4>1. PICK r \in Nat : r = run.id
        BY <3>2
      <4>2. 0 <= r /\ (r >= 1 => 0 # r) /\ {} \subseteq 1..r
        OBVIOUS
      <4> QED BY <3>2, <3>3, <4>1, <4>2
    <3> QED BY <1>1, <2>9, <2>10, <3>1, <3>4, TableGrows
  <2>13. AreasTyped'
    <3>1. Len(areas') <= MaxAreas /\ Len(named') = Len(areas') /\ Len(ruled') = Len(areas')
      BY <2>5, <2>9, <2>10, <2>b
    <3> QED BY <1>1, <1>3, <2>9, <2>10, <2>b, <3>1 DEF AreasInv, AreasTyped
  <2>14. ReadStillHolds'
    BY <1>1, <2>5, <2>9, <2>11 DEF AreasInv, ReadStillHolds, Ar!IsActive, Ar!IsProposed
  <2>15. Ar!OneRowPerName'
    <3>1. ASSUME NEW i \in 1..n, NEW k \in 1..c, MCFold[areas[i].name] = MCFold[rows[k]]
          PROVE  MCFold[rows[k]] \in crossed'
      <4>1. rows[k] \in new /\ MCFold[rows[k]] \in Ar!HeldBeside(0)
        BY <2>3, <2>5, <3>1, AreaFacts DEF Ar!HeldBeside
      <4>2. MCFold[rows[k]] \notin ask.known
        BY <4>1 DEF AreasInv, ReadStillHolds
      <4> HIDE DEF new
      <4>3. MCFold[rows[k]] \in Ar!Crosses(new, 0, ask.known)
        BY <4>1, <4>2 DEF Ar!Crosses
      <4> QED BY <1>5, <4>3
    <3>2. crossed \subseteq crossed'
      BY <1>5
    <3>3. \A i, j \in 1..n : MCFold[areas[i].name] = MCFold[areas[j].name]
                             /\ MCFold[areas[i].name] \notin crossed => i = j
      BY <2>5 DEF AreasInv, AreasKept, Ar!OneRowPerName
    <3>4. \A k, l \in 1..c : MCFold[rows[k]] = MCFold[rows[l]] => k = l
      BY <1>1, <2>1, <2>3
    <3>5. \A i \in 1..(n + c) : i \notin 1..n => i - n \in 1..c /\ areas'[i].name = rows[i - n]
      BY <2>6, <2>9
    <3>6. ASSUME NEW i \in 1..(n + c), NEW j \in 1..(n + c),
                 MCFold[areas'[i].name] = MCFold[areas'[j].name], MCFold[areas'[i].name] \notin crossed'
          PROVE  i = j
      <4>1. CASE i \in 1..n /\ j \in 1..n
        <5>1. areas'[i].name = areas[i].name /\ areas'[j].name = areas[j].name
          BY <2>9, <4>1
        <5> QED BY <3>2, <3>3, <3>6, <4>1, <5>1
      <4>2. CASE i \notin 1..n /\ j \in 1..n
        <5>1. /\ i - n \in 1..c /\ areas'[i].name = rows[i - n] /\ areas'[j].name = areas[j].name
          BY <2>9, <3>5, <4>2
        <5> QED BY <3>1, <3>6, <4>2, <5>1
      <4>3. CASE i \in 1..n /\ j \notin 1..n
        <5>1. /\ j - n \in 1..c /\ areas'[j].name = rows[j - n] /\ areas'[i].name = areas[i].name
          BY <2>9, <3>5, <4>3
        <5> QED BY <3>1, <3>6, <4>3, <5>1
      <4>4. CASE i \notin 1..n /\ j \notin 1..n
        <5>1. /\ i - n \in 1..c /\ areas'[i].name = rows[i - n]
              /\ j - n \in 1..c /\ areas'[j].name = rows[j - n]
          BY <3>5, <4>4
        <5>2. i - n = j - n
          BY <3>4, <3>6, <5>1
        <5> QED BY <5>2
      <4> QED BY <4>1, <4>2, <4>3, <4>4
    <3> QED BY <2>9, <3>6 DEF Ar!OneRowPerName
  <2> QED BY <2>12, <2>13, <2>14, <2>15 DEF AreasInv, AreasKept
<1> QED BY <1>2, <1>4, <1>5

LEMMA NextAreas == ASSUME AreasInv, Ar!Next PROVE AreasInv'
<1>1. CASE Ar!RunStart
  BY <1>1, RunStartAreas
<1>2. CASE \/ Ar!RunEnds \/ Ar!ProposeReads \/ Ar!Kill
           \/ \E ask \in asked : Ar!ProposeFails(ask)
           \/ \E i \in Ar!Ids, name \in MCNames : Ar!RenameChecks(i, name)
           \/ \E i \in Ar!Ids \cup {0}, names \in SUBSET SourceNames : Ar!BulkStarts(i, names)
  BY <1>2, StandingAreas
<1>3. ASSUME NEW name \in MCNames, Ar!RunReads(name) PROVE AreasInv'
  BY <1>3, RunReadsAreas
<1>4. ASSUME NEW name \in MCNames, NEW fate \in Ar!Fates,
             Ar!RunInserts(name, fate) \/ Ar!RunUpdates(name, fate)
      PROVE  AreasInv'
  BY <1>4, RunInsertsAreas, RunUpdatesAreas
<1>5. ASSUME NEW i \in Ar!Ids, NEW fate \in Ar!Fates, Ar!Activate(i, fate) \/ Ar!Dismiss(i, fate)
      PROVE  AreasInv'
  BY <1>5, DecideAreas DEF Ar!Activate, Ar!Dismiss, Ar!NoArea
<1>6. ASSUME NEW i \in Ar!Ids, NEW into \in Ar!Ids, NEW fate \in Ar!Fates, Ar!Merge(i, into, fate)
      PROVE  AreasInv'
  BY <1>6, DecideAreas DEF Ar!Merge
<1>7. ASSUME NEW fate \in Ar!Fates, Ar!RenameWrites(fate) \/ Ar!BulkActivates(fate) PROVE AreasInv'
  BY <1>7, RenameWritesAreas, BulkActivatesAreas
<1>8. ASSUME NEW ask \in asked, NEW reply \in SUBSET MCNames, NEW fate \in Ar!Fates,
             Ar!ProposeWrites(ask, reply, fate)
      PROVE  AreasInv'
  BY <1>8, ProposeWritesAreas
<1>9. ASSUME NEW s \in SourceNames, NEW fate \in Ar!Fates, Ar!BulkWrites(s, fate) PROVE AreasInv'
  BY <1>9, BulkWritesAreas
<1> QED BY <1>1, <1>2, <1>3, <1>4, <1>5, <1>6, <1>7, <1>8, <1>9 DEF Ar!Next, Ar!NoArea

LEMMA SameAreas ==
  ASSUME AreasInv, UNCHANGED ofAreas
  PROVE  AreasInv'
<1>1. UNCHANGED <<areas, source, run, asked, rename, bulk, areaMishaps, named, ruled, crossed, repeated>>
  BY DEF ofAreas
<1>2. AreasTyped'
  BY <1>1 DEF AreasInv, AreasTyped
<1>3. ReadStillHolds'
  BY <1>1 DEF AreasInv, ReadStillHolds, Ar!IsActive, Ar!IsProposed
<1> QED BY <1>1, <1>2, <1>3, TableStands DEF AreasInv

(* A row that keeps the reader's decision is the only one of its name, so  *)
(* the name means it.                                                      *)
LEMMA DecisionsAreKept == ASSUME AreasInv PROVE Ar!DecisionStands
<1> SUFFICES ASSUME NEW i \in DOMAIN areas, ruled[i] # "none",
                    MCFold[areas[i].name] \notin crossed
             PROVE  Ar!Place(areas[i].name) = ruled[i]
  BY DEF Ar!DecisionStands
<1>1. Ar!Matches(areas[i].name) = {i}
  BY DEF AreasInv, AreasKept, Ar!OneRowPerName, Ar!Matches
<1>2. Ar!First(Ar!Matches(areas[i].name)) = i
  BY <1>1, FirstMatch
<1>3. /\ areas[i].status \in {"proposed", "active", "dismissed", "merged"}
      /\ ruled[i] = Verdict(areas[i].status)
      /\ areas[i].status = "merged" => areas[areas[i].into].status = "active"
  BY AreaFacts DEF AreasInv, AreasKept, RulingsHold, Ar!LeadsToActive, Ar!IsActive, AreaRows
<1> QED BY <1>1, <1>2, <1>3 DEF Ar!Place, Verdict, Ar!Ruling

(* A name is one row of the table and means what the reader decided on it, *)
(* what a source or a merged name leads to is an area the page shows, and  *)
(* a run counts once toward a proposal, however runs, the page's requests  *)
(* and the calls of the model interleave and whatever statements fail.     *)
(* Excepted are a name that another writer gave a row between a writer's   *)
(* reading and its write, and a count D1 ran twice (`record_proposals`,    *)
(* `_handle_bulk_assign`, `merge`, `dismiss`).                             *)
THEOREM AreasKeepTheirWord == ReaderSpec => []AreasAgree
<1>1. ReaderInit => AreasInv
  BY InitAreas DEF ReaderInit
<1>2. AreasInv /\ [ReaderNext]_all => AreasInv'
  <2> SUFFICES ASSUME AreasInv, [ReaderNext]_all PROVE AreasInv'
    OBVIOUS
  <2>1. CASE Ar!Next
    BY <2>1, NextAreas
  <2>2. CASE UNCHANGED ofAreas
    BY <2>2, SameAreas
  <2> QED BY <2>1, <2>2, PartSteps
<1>3. AreasInv => AreasAgree
  BY DecisionsAreKept DEF AreasInv, AreasKept, AreasAgree, Ar!AreasAgree
<1> QED BY <1>1, <1>2, <1>3, PTL DEF ReaderSpec

-----------------------------------------------------------------------------
(* The wizard's cards. *)

Ballots == UNION {[S -> Oc!Votes] : S \in SUBSET Feeds}
Posted ==
  [id : Nat, pc : {"read", "done", "failed"}, votes : Ballots, found : SUBSET Feeds,
   shown : BOOLEAN]
SaveOut == [id : Int, left : SUBSET Feeds, added : SUBSET Feeds, failed : BOOLEAN]
ShownCard == [vote : Oc!Votes \cup {"none"}, state : {"open", "recorded", "gone"}]

PageTyped ==
  /\ stray \subseteq Feeds /\ deal \in [pc : {"none", "sent", "read"}, from : SUBSET Feeds]
  /\ added \subseteq Feeds /\ step \in Oc!Steps /\ ready \in BOOLEAN /\ dealt \in BOOLEAN

CardsTyped ==
  /\ table \subseteq Feeds /\ sent \in Nat
  /\ writer \in [Feeds -> Nat] /\ article \in [Feeds -> {"absent", "pending"} \cup Oc!Votes]
  /\ saving \subseteq SaveOut
  /\ \A s \in saving : s.id <= sent /\ (s.id # -1 => s.added = {})
  /\ cardPosts \subseteq Posted
  /\ \A p \in cardPosts : p.id \in 1..sent
  /\ \A p, q \in cardPosts : p.id = q.id => p = q
  /\ cards \in UNION {[S -> ShownCard] : S \in SUBSET Feeds}
  /\ PageTyped

(* Whatever post is still to write has this vote on the article, or an     *)
(* older one than the newest that wrote it.                                *)
ReadsOn(u, vote) ==
  \A q \in cardPosts :
    q.pc = "read" /\ u \in DOMAIN q.votes => q.id < writer[u] \/ q.votes[u] = vote

Carries(u, vote) == vote \in Oc!Votes /\ article[u] = vote /\ ReadsOn(u, vote)

(* The votes of a post the page waits for are those of its cards. *)
ShownAgree ==
  \A p \in cardPosts : p.shown =>
    /\ DOMAIN p.votes \subseteq DOMAIN cards
    /\ Oc!Awaits(p) => \A u \in DOMAIN p.votes \ flipped : cards[u].vote = p.votes[u]

(* So are those of every later one. *)
LaterSaysSame ==
  \A p, q \in cardPosts : p.shown /\ Oc!Awaits(p) /\ p.id < q.id =>
    \A u \in (DOMAIN p.votes \cap DOMAIN q.votes) \ flipped : q.votes[u] = p.votes[u]

DoneIsWritten ==
  \A p \in cardPosts : p.pc = "done" =>
    /\ Oc!Awaits(p) /\ p.found \subseteq DOMAIN p.votes
    /\ p.shown => \A u \in p.found \ (flipped \cup outrun) : Carries(u, p.votes[u])

RecordedStands ==
  \A u \in DOMAIN cards :
    cards[u].state = "recorded" /\ u \notin flipped \cup outrun => Carries(u, cards[u].vote)

VotesTold == ShownAgree /\ LaterSaysSame /\ DoneIsWritten /\ RecordedStands

CardsInv == CardsTyped /\ VotesTold /\ Oc!CardsAreOfTheFeeds
-----------------------------------------------------------------------------
LEMMA BallotFacts ==
  /\ \A v \in Ballots : DOMAIN v \subseteq Feeds /\ \A u \in DOMAIN v : v[u] \in Oc!Votes
  /\ \A S \in SUBSET Feeds : \A v \in [S -> Oc!Votes] : v \in Ballots
BY DEF Ballots

LEMMA PostFacts ==
  ASSUME CardsTyped, NEW p \in cardPosts
  PROVE  /\ p \in Posted /\ p.id \in 1..sent /\ p.id \in Nat /\ p.id >= 1
         /\ DOMAIN p.votes \subseteq Feeds /\ \A u \in DOMAIN p.votes : p.votes[u] \in Oc!Votes
BY BallotFacts DEF CardsTyped, Posted

LEMMA CardFacts ==
  ASSUME CardsTyped
  PROVE  /\ DOMAIN cards \subseteq Feeds /\ cards \in [DOMAIN cards -> ShownCard]
         /\ sent \in Nat /\ saving \subseteq SaveOut
BY DEF CardsTyped

LEMMA PageFacts ==
  ASSUME CardsInv
  PROVE  /\ stray \subseteq Feeds /\ deal \in [pc : {"none", "sent", "read"}, from : SUBSET Feeds]
         /\ added \subseteq Feeds /\ step \in Oc!Steps /\ ready \in BOOLEAN /\ dealt \in BOOLEAN
BY DEF CardsInv, CardsTyped, PageTyped

LEMMA CardsAre ==
  ASSUME NEW S \in SUBSET Feeds, NEW f \in [S -> ShownCard]
  PROVE  f \in UNION {[T -> ShownCard] : T \in SUBSET Feeds}
OBVIOUS

LEMMA InitCards == ASSUME Oc!Init PROVE CardsInv
<1>1. /\ table = {} /\ article = [u \in Feeds |-> "absent"] /\ saving = {} /\ cards = <<>>
      /\ dealt = FALSE /\ cardPosts = {} /\ sent = 0 /\ writer = [u \in Feeds |-> 0]
      /\ stray = {} /\ deal = Oc!NoDeal /\ added = {} /\ step = "sources" /\ ready = TRUE
  BY DEF Oc!Init
<1>2. <<>> \in [{} -> ShownCard] /\ DOMAIN <<>> = {}
  OBVIOUS
<1>3. CardsTyped
  BY <1>1, <1>2 DEF CardsTyped, PageTyped, Oc!NoDeal, Oc!Steps
<1>4. VotesTold
  BY <1>1, <1>2 DEF VotesTold, ShownAgree, LaterSaysSame, DoneIsWritten, RecordedStands
<1>5. Oc!CardsAreOfTheFeeds
  BY <1>1 DEF Oc!CardsAreOfTheFeeds
<1> QED BY <1>3, <1>4, <1>5 DEF CardsInv

(* What a step that writes no vote keeps, if the page waits for what it    *)
(* waited for.                                                             *)
LEMMA VotesStand ==
  ASSUME VotesTold, UNCHANGED <<article, cards, cardPosts, flipped, writer, outrun>>,
         \A p \in cardPosts : Oc!Awaits(p)' <=> Oc!Awaits(p)
  PROVE  VotesTold'
<1>1. ShownAgree' /\ LaterSaysSame'
  BY DEF VotesTold, ShownAgree, LaterSaysSame
<1>2. DoneIsWritten' /\ RecordedStands'
  BY DEF VotesTold, DoneIsWritten, RecordedStands, Carries, ReadsOn
<1> QED BY <1>1, <1>2 DEF VotesTold

LEMMA AwaitsOfSame ==
  ASSUME UNCHANGED saving
  PROVE  \A p : Oc!Awaits(p)' <=> Oc!Awaits(p)
BY DEF Oc!Awaits

(* Steps between the steps of the wizard, and the deal. *)
LEMMA LoadsCards ==
  ASSUME CardsTyped, NEW s, NEW has, NEW out, Oc!LoadCards(s, has, out), out = deal \/ out = Oc!NoDeal
  PROVE  deal' \in [pc : {"none", "sent", "read"}, from : SUBSET Feeds]
<1>1. /\ deal \in [pc : {"none", "sent", "read"}, from : SUBSET Feeds]
      /\ Oc!NoDeal \in [pc : {"none", "sent", "read"}, from : SUBSET Feeds]
      /\ [pc |-> "sent", from |-> {}] \in [pc : {"none", "sent", "read"}, from : SUBSET Feeds]
  BY DEF CardsTyped, PageTyped, Oc!NoDeal
<1> QED BY <1>1 DEF Oc!LoadCards

LEMMA GoCards ==
  ASSUME CardsInv, NEW s \in Oc!Steps, Oc!Go(s)
  PROVE  CardsInv'
<1>1. /\ step' = s /\ ready' = TRUE /\ Oc!LoadCards(s, dealt, deal)
      /\ UNCHANGED <<table, article, added, saving, stray, cards, dealt, from, cardPosts, sent,
                     unseen, flipped, writer, outrun>>
  BY DEF Oc!Go, Oc!server, Oc!shown, Oc!bounds, Oc!history
<1>2. CardsTyped'
  <2>1. deal' \in [pc : {"none", "sent", "read"}, from : SUBSET Feeds]
    BY <1>1, LoadsCards DEF CardsInv
  <2> QED BY <1>1, <2>1 DEF CardsInv, CardsTyped, PageTyped
<1>3. VotesTold'
  BY <1>1, AwaitsOfSame, VotesStand DEF CardsInv
<1>4. Oc!CardsAreOfTheFeeds'
  BY <1>1 DEF CardsInv, Oc!CardsAreOfTheFeeds, Oc!AddedBySaves
<1> QED BY <1>2, <1>3, <1>4 DEF CardsInv

LEMMA DealCards ==
  ASSUME CardsInv, Oc!DealReads \/ Oc!DealFails
  PROVE  CardsInv'
<1>1. /\ deal' = Oc!NoDeal \/ deal' = [pc |-> "read", from |-> table]
      /\ UNCHANGED <<table, article, step, added, ready, saving, stray, cards, dealt, from,
                     cardPosts, sent, unseen, flipped, writer, outrun>>
  BY DEF Oc!DealReads, Oc!DealFails, Oc!server, Oc!form, Oc!shown, Oc!bounds, Oc!history
<1>2. CardsTyped'
  <2>1. deal' \in [pc : {"none", "sent", "read"}, from : SUBSET Feeds]
    BY <1>1 DEF CardsInv, CardsTyped, PageTyped, Oc!NoDeal
  <2> QED BY <1>1, <2>1 DEF CardsInv, CardsTyped, PageTyped
<1>3. VotesTold'
  BY <1>1, AwaitsOfSame, VotesStand DEF CardsInv
<1>4. Oc!CardsAreOfTheFeeds'
  BY <1>1 DEF CardsInv, Oc!CardsAreOfTheFeeds, Oc!AddedBySaves
<1> QED BY <1>2, <1>3, <1>4 DEF CardsInv

LEMMA StrayLandsCards ==
  ASSUME CardsInv, NEW f \in stray, Oc!StrayLands(f)
  PROVE  CardsInv'
<1>1. /\ stray' = stray \ {f} /\ table' = table \cup {f} /\ unseen' = unseen \cup {f}
      /\ UNCHANGED <<article, step, added, ready, saving, deal, cards, dealt, from, cardPosts, sent,
                     flipped, writer, outrun>>
  BY DEF Oc!StrayLands, Oc!shown, Oc!bounds
<1>2. CardsTyped'
  BY <1>1 DEF CardsInv, CardsTyped, PageTyped
<1>3. VotesTold'
  BY <1>1, AwaitsOfSame, VotesStand DEF CardsInv
<1>4. Oc!CardsAreOfTheFeeds'
  BY <1>1 DEF CardsInv, Oc!CardsAreOfTheFeeds, Oc!AddedBySaves
<1> QED BY <1>2, <1>3, <1>4 DEF CardsInv

-----------------------------------------------------------------------------
(* The saves of feeds. *)

LEMMA NextSourcesCards ==
  ASSUME CardsInv, NEW picked \in SUBSET Feeds, Oc!NextSources(picked)
  PROVE  CardsInv'
<1> DEFINE new == [id |-> -1, left |-> picked, added |-> {}, failed |-> FALSE]
<1>1. /\ ready' = FALSE /\ saving' = saving \cup {new}
      /\ UNCHANGED <<table, article, step, added, stray, deal, cards, dealt, from, cardPosts, sent,
                     unseen, flipped, writer, outrun>>
  BY DEF Oc!NextSources, Oc!Save, Oc!SavingSources, Oc!server, Oc!shown, Oc!bounds, Oc!history
<1>2. new \in SaveOut /\ new.id = -1
  BY DEF SaveOut
<1> HIDE DEF new
<1>3. CardsTyped'
  <2>1. saving' \subseteq SaveOut
    BY <1>1, <1>2 DEF CardsInv, CardsTyped, PageTyped
  <2>2. \A s \in saving' : s.id <= sent /\ (s.id # -1 => s.added = {})
    BY <1>1, <1>2 DEF CardsInv, CardsTyped, PageTyped
  <2> QED BY <1>1, <2>1, <2>2 DEF CardsInv, CardsTyped, PageTyped
<1>4. \A p \in cardPosts : Oc!Awaits(p)' <=> Oc!Awaits(p)
  <2>1. \A p \in cardPosts : p.id # -1
    BY PostFacts DEF CardsInv
  <2> QED BY <1>1, <1>2, <2>1 DEF Oc!Awaits
<1>5. VotesTold'
  BY <1>1, <1>4, VotesStand DEF CardsInv
<1>6. Oc!CardsAreOfTheFeeds'
  BY <1>1 DEF CardsInv, Oc!CardsAreOfTheFeeds, Oc!AddedBySaves
<1> QED BY <1>3, <1>5, <1>6 DEF CardsInv

LEMMA PostSourceCards ==
  ASSUME CardsInv, NEW s \in saving, NEW f \in Feeds, NEW fate \in Oc!Fates, Oc!PostSource(s, f, fate)
  PROVE  CardsInv'
<1> DEFINE lost == [s EXCEPT !.left = s.left \ {f}, !.failed = TRUE]
           kept == [s EXCEPT !.left = s.left \ {f}, !.added = s.added \cup {f}]
<1>1. /\ s.id = -1
      /\ fate \in {"done", "silent", "refused"}
      /\ table' = (IF Oc!Ran(fate) THEN table \cup {f} ELSE table)
      /\ IF Oc!Raises(fate) THEN saving' = (saving \ {s}) \cup {lost} /\ added' = added \ {f}
         ELSE saving' = (saving \ {s}) \cup {kept} /\ added' = added \cup {f}
      /\ unseen' = (IF fate = "silent" THEN unseen \cup {f} ELSE unseen)
      /\ UNCHANGED <<article, step, ready, stray, deal, cards, dealt, from, cardPosts, sent,
                     flipped, writer, outrun>>
  BY DEF Oc!PostSource, Oc!Saved, Oc!SavesOfSources, Oc!SavingSources, Oc!shown
<1>2. s \in SaveOut /\ s.added \subseteq Feeds /\ s.left \subseteq Feeds
  BY CardFacts DEF CardsInv, SaveOut
<1>3. PICK next \in SaveOut :
        /\ next.id = -1 /\ s.added \subseteq next.added /\ saving' = (saving \ {s}) \cup {next}
        /\ fate = "done" => f \in next.added
  <2>1. lost \in SaveOut /\ lost.id = -1 /\ lost.added = s.added
    BY <1>1, <1>2 DEF SaveOut
  <2>2. kept \in SaveOut /\ kept.id = -1 /\ kept.added = s.added \cup {f}
    BY <1>1, <1>2 DEF SaveOut
  <2> HIDE DEF lost, kept
  <2>3. CASE Oc!Raises(fate)
    <3>1. fate # "done"
      BY <2>3 DEF Oc!Raises
    <3> QED BY <1>1, <2>1, <2>3, <3>1
  <2>4. CASE ~Oc!Raises(fate)
    BY <1>1, <2>2, <2>4
  <2> QED BY <2>3, <2>4
<1>4. CardsTyped'
  <2>1. saving' \subseteq SaveOut
    BY <1>3, CardFacts DEF CardsInv
  <2>2. \A x \in saving' : x.id <= sent /\ (x.id # -1 => x.added = {})
    BY <1>3 DEF CardsInv, CardsTyped, PageTyped
  <2>3. table' \subseteq Feeds
    BY <1>1 DEF CardsInv, CardsTyped, PageTyped
  <2>4. added' \subseteq Feeds
    <3>1. added' = added \ {f} \/ added' = added \cup {f}
      BY <1>1
    <3>2. added \subseteq Feeds
      BY PageFacts
    <3> QED BY <3>1, <3>2
  <2> QED BY <1>1, <2>1, <2>2, <2>3, <2>4 DEF CardsInv, CardsTyped, PageTyped
<1>5. \A p \in cardPosts : Oc!Awaits(p)' <=> Oc!Awaits(p)
  <2>1. \A p \in cardPosts : p.id # -1
    BY PostFacts DEF CardsInv
  <2> QED BY <1>1, <1>3, <2>1 DEF Oc!Awaits
<1>6. VotesTold'
  BY <1>1, <1>5, VotesStand DEF CardsInv
<1>7. Oc!CardsAreOfTheFeeds'
  <2>1. Oc!AddedBySaves \subseteq Oc!AddedBySaves'
    BY <1>3 DEF Oc!AddedBySaves
  <2>2. fate = "done" => f \in Oc!AddedBySaves'
    BY <1>3 DEF Oc!AddedBySaves
  <2>3. fate = "refused" => table' = table
    BY <1>1 DEF Oc!Ran
  <2> QED BY <1>1, <2>1, <2>2, <2>3 DEF CardsInv, Oc!CardsAreOfTheFeeds
<1> QED BY <1>4, <1>6, <1>7 DEF CardsInv

LEMMA SourcesSavedCards ==
  ASSUME CardsInv, NEW s \in saving, Oc!SourcesSaved(s)
  PROVE  CardsInv'
<1>1. /\ s.id = -1 /\ saving' = saving \ {s} /\ ready' = TRUE
      /\ step' = step \/ step' = Oc!StepAfter(step)
      /\ \/ /\ unseen' = unseen \cup s.added
            /\ UNCHANGED <<dealt, from, deal>>
         \/ dealt' = FALSE /\ Oc!LoadCards(step', FALSE, deal)
      /\ UNCHANGED <<table, article, added, stray, cards, cardPosts, sent, flipped, writer, outrun>>
  BY DEF Oc!SourcesSaved, Oc!SavesOfSources, Oc!SavingSources, Oc!server, Oc!bounds
<1>2. CardsTyped'
  <2>1. /\ deal \in [pc : {"none", "sent", "read"}, from : SUBSET Feeds] /\ dealt \in BOOLEAN
        /\ step \in Oc!Steps
    BY PageFacts
  <2>2. step' \in Oc!Steps
    BY <1>1, <2>1 DEF Oc!StepAfter, Oc!Steps
  <2>3. deal' = deal \/ deal' = [pc |-> "sent", from |-> {}]
    BY <1>1 DEF Oc!LoadCards
  <2>4. deal' \in [pc : {"none", "sent", "read"}, from : SUBSET Feeds]
    BY <2>1, <2>3
  <2>5. dealt' \in BOOLEAN
    BY <1>1, <2>1
  <2> QED BY <1>1, <2>2, <2>4, <2>5 DEF CardsInv, CardsTyped, PageTyped
<1>3. \A p \in cardPosts : Oc!Awaits(p)' <=> Oc!Awaits(p)
  <2>1. \A p \in cardPosts : p.id # -1
    BY PostFacts DEF CardsInv
  <2> QED BY <1>1, <2>1 DEF Oc!Awaits
<1>4. VotesTold'
  BY <1>1, <1>3, VotesStand DEF CardsInv
<1>5. Oc!CardsAreOfTheFeeds'
  <2>1. Oc!AddedBySaves \subseteq Oc!AddedBySaves' \cup s.added
    BY <1>1 DEF Oc!AddedBySaves
  <2> QED BY <1>1, <2>1 DEF CardsInv, Oc!CardsAreOfTheFeeds
<1> QED BY <1>2, <1>4, <1>5 DEF CardsInv

-----------------------------------------------------------------------------
(* The cards are replaced: no post is of those shown now. *)

Hidden(p) == [p EXCEPT !.shown = FALSE]

LEMMA HiddenFacts ==
  ASSUME CardsTyped, NEW p \in cardPosts
  PROVE  /\ Hidden(p) \in Posted /\ Hidden(p).id = p.id /\ Hidden(p).pc = p.pc
         /\ Hidden(p).votes = p.votes /\ Hidden(p).found = p.found /\ Hidden(p).shown = FALSE
BY PostFacts DEF Hidden, Posted

LEMMA VotesHidden ==
  ASSUME CardsInv, NEW those, those \subseteq cardPosts, cardPosts' = {Hidden(p) : p \in those},
         \A p \in those : p.pc = "done" => Oc!Awaits(p)',
         \A u \in DOMAIN cards' : cards'[u].state # "recorded"
  PROVE  /\ VotesTold' /\ cardPosts' \subseteq Posted
         /\ \A p \in cardPosts' : p.id \in 1..sent
         /\ \A p, q \in cardPosts' : p.id = q.id => p = q
<1>1. \A h \in cardPosts' : \E p \in cardPosts :
        /\ p \in those /\ h = Hidden(p) /\ h \in Posted /\ h.id = p.id /\ h.pc = p.pc /\ h.votes = p.votes
        /\ h.found = p.found /\ h.shown = FALSE
  BY HiddenFacts DEF CardsInv
<1>2. ShownAgree' /\ LaterSaysSame'
  BY <1>1 DEF ShownAgree, LaterSaysSame
<1>3. DoneIsWritten'
  <2>1. ASSUME NEW h \in cardPosts', h.pc = "done"
        PROVE  Oc!Awaits(h)' /\ h.found \subseteq DOMAIN h.votes /\ ~h.shown
    <3>1. PICK p \in cardPosts : /\ p \in those /\ h.id = p.id /\ p.pc = "done" /\ h.votes = p.votes
                                 /\ h.found = p.found /\ h.shown = FALSE
      BY <1>1, <2>1
    <3>2. p.found \subseteq DOMAIN p.votes
      BY <3>1 DEF CardsInv, VotesTold, DoneIsWritten
    <3>3. Oc!Awaits(h)'
      BY <3>1 DEF Oc!Awaits
    <3> QED BY <3>1, <3>2, <3>3
  <2> QED BY <2>1 DEF DoneIsWritten
<1>4. RecordedStands'
  BY DEF RecordedStands
<1>5. /\ \A p \in cardPosts : p.id \in 1..sent
      /\ \A p, q \in cardPosts : p.id = q.id => p = q
  BY DEF CardsInv, CardsTyped
<1>6. cardPosts' \subseteq Posted /\ \A p \in cardPosts' : p.id \in 1..sent
  BY <1>1, <1>5
<1>7. \A p, q \in cardPosts' : p.id = q.id => p = q
  BY <1>1, <1>5
<1> QED BY <1>2, <1>3, <1>4, <1>6, <1>7 DEF VotesTold

LEMMA DealAnswersCards ==
  ASSUME CardsInv, Oc!DealAnswers
  PROVE  CardsInv'
<1> DEFINE open == [vote |-> "none", state |-> "open"]
<1>1. PICK dealing \in SUBSET deal.from :
        /\ cards' = [v \in dealing |-> open]
        /\ dealt' = TRUE /\ from' = deal.from /\ deal' = Oc!NoDeal
        /\ cardPosts' = {Hidden(p) : p \in cardPosts}
        /\ unseen' = table \ (deal.from \cup Oc!AddedBySaves)
        /\ UNCHANGED <<table, article, step, added, ready, saving, stray, sent, writer, outrun>>
  BY DEF Oc!DealAnswers, Oc!server, Oc!form, Oc!bounds, Oc!Untouched, Hidden
<1>2. deal.from \subseteq Feeds /\ deal' \in [pc : {"none", "sent", "read"}, from : SUBSET Feeds]
  BY <1>1, PageFacts DEF Oc!NoDeal
<1>3. cards' \in [dealing -> ShownCard] /\ \A v \in DOMAIN cards' : cards'[v].state # "recorded"
  BY <1>1 DEF ShownCard
<1>4. cards' \in UNION {[S -> ShownCard] : S \in SUBSET Feeds}
  <2>1. dealing \in SUBSET Feeds
    BY <1>2
  <2> QED BY <1>3, <2>1
<1>5. \A p \in cardPosts : p.pc = "done" => Oc!Awaits(p)'
  BY <1>1 DEF CardsInv, VotesTold, DoneIsWritten, Oc!Awaits
<1>6. /\ VotesTold' /\ cardPosts' \subseteq Posted
      /\ \A p \in cardPosts' : p.id \in 1..sent
      /\ \A p, q \in cardPosts' : p.id = q.id => p = q
  BY <1>1, <1>3, <1>5, VotesHidden
<1>7. PageTyped'
  BY <1>1, <1>2, PageFacts DEF PageTyped
<1>8. CardsTyped'
  BY <1>1, <1>4, <1>6, <1>7 DEF CardsInv, CardsTyped
<1>9. Oc!CardsAreOfTheFeeds'
  BY <1>1 DEF Oc!CardsAreOfTheFeeds, Oc!AddedBySaves
<1> QED BY <1>6, <1>8, <1>9 DEF CardsInv

LEMMA ReloadCards ==
  ASSUME CardsInv, Oc!Reload
  PROVE  CardsInv'
<1>1. PICK f \in SUBSET UNION {s.left : s \in saving} :
        /\ stray' = stray \cup f
        /\ added' = table /\ ready' = TRUE /\ saving' = {} /\ cards' = <<>> /\ dealt' = FALSE
        /\ Oc!LoadCards(step, FALSE, Oc!NoDeal)
        /\ cardPosts' = {Hidden(p) : p \in {q \in cardPosts : q.pc = "read"}}
        /\ UNCHANGED <<table, article, step, sent, writer, outrun>>
  BY DEF Oc!Reload, Oc!server, Hidden
<1>2. UNION {s.left : s \in saving} \subseteq Feeds
  BY CardFacts DEF CardsInv, SaveOut
<1>3. PageTyped'
  <2>1. deal' \in [pc : {"none", "sent", "read"}, from : SUBSET Feeds]
    BY <1>1, LoadsCards DEF CardsInv
  <2>2. table \subseteq Feeds
    BY DEF CardsInv, CardsTyped
  <2> QED BY <1>1, <1>2, <2>1, <2>2, PageFacts DEF PageTyped
<1>4. <<>> \in [{} -> ShownCard] /\ DOMAIN <<>> = {}
  OBVIOUS
<1>5. cards' \in UNION {[S -> ShownCard] : S \in SUBSET Feeds}
  BY <1>1, <1>4
<1>6. /\ VotesTold' /\ cardPosts' \subseteq Posted
      /\ \A p \in cardPosts' : p.id \in 1..sent
      /\ \A p, q \in cardPosts' : p.id = q.id => p = q
  <2> DEFINE reading == {q \in cardPosts : q.pc = "read"}
  <2>1. reading \subseteq cardPosts /\ \A p \in reading : p.pc # "done"
    OBVIOUS
  <2>2. \A v \in DOMAIN cards' : cards'[v].state # "recorded"
    BY <1>1, <1>4
  <2>3. cardPosts' = {Hidden(p) : p \in reading}
    BY <1>1
  <2> HIDE DEF reading
  <2> QED BY <2>1, <2>2, <2>3, VotesHidden
<1>7. CardsTyped'
  BY <1>1, <1>3, <1>5, <1>6 DEF CardsInv, CardsTyped
<1>8. Oc!CardsAreOfTheFeeds'
  BY <1>1 DEF Oc!CardsAreOfTheFeeds
<1> QED BY <1>6, <1>7, <1>8 DEF CardsInv

-----------------------------------------------------------------------------
(* A card is pressed. *)

LEMMA PressCards ==
  ASSUME CardsInv, NEW u \in Feeds, NEW v \in Oc!Votes, Oc!Press(u, v)
  PROVE  CardsInv'
<1> DEFINE vote == IF cards[u].vote = v THEN "none" ELSE v
<1>1. /\ u \in DOMAIN cards /\ cards[u].state = "open"
      /\ cards' = [cards EXCEPT ![u] = [cards[u] EXCEPT !.vote = vote]]
      /\ flipped \subseteq flipped'
      /\ (\E p \in cardPosts : Oc!Awaits(p) /\ p.shown /\ u \in DOMAIN p.votes) => u \in flipped'
      /\ UNCHANGED <<table, article, step, added, ready, saving, stray, deal, dealt, from, cardPosts,
                     sent, unseen, writer, outrun>>
  BY DEF Oc!Press, Oc!server, Oc!form, Oc!Untouched
<1>2. PICK card \in ShownCard : card = [cards[u] EXCEPT !.vote = vote] /\ card.state = "open"
  <2>1. PICK c \in ShownCard : c = cards[u]
    BY <1>1, CardFacts DEF CardsInv
  <2>2. [c EXCEPT !.vote = vote] \in ShownCard /\ [c EXCEPT !.vote = vote].state = c.state
    BY DEF ShownCard
  <2> QED BY <1>1, <2>1, <2>2
<1>3. /\ cards' \in [DOMAIN cards -> ShownCard] /\ DOMAIN cards' = DOMAIN cards /\ cards'[u] = card
      /\ \A w \in DOMAIN cards : w # u => cards'[w] = cards[w]
  BY <1>1, <1>2, CardFacts DEF CardsInv
<1>4. CardsTyped'
  <2>1. cards' \in UNION {[S -> ShownCard] : S \in SUBSET Feeds}
    BY <1>3, CardFacts, CardsAre DEF CardsInv
  <2>2. PageTyped'
    BY <1>1, PageFacts DEF PageTyped
  <2> QED BY <1>1, <2>1, <2>2 DEF CardsInv, CardsTyped
<1>5. \A p : Oc!Awaits(p)' <=> Oc!Awaits(p)
  BY <1>1, AwaitsOfSame
<1>6. ShownAgree'
  <2>1. ASSUME NEW p \in cardPosts, p.shown
        PROVE  /\ DOMAIN p.votes \subseteq DOMAIN cards
               /\ Oc!Awaits(p) => \A w \in DOMAIN p.votes \ flipped' : cards'[w].vote = p.votes[w]
    <3>1. /\ DOMAIN p.votes \subseteq DOMAIN cards
          /\ Oc!Awaits(p) => \A w \in DOMAIN p.votes \ flipped : cards[w].vote = p.votes[w]
      BY <2>1 DEF CardsInv, VotesTold, ShownAgree
    <3>2. ASSUME Oc!Awaits(p), NEW w \in DOMAIN p.votes \ flipped' PROVE cards'[w].vote = p.votes[w]
      <4>1. w # u
        BY <1>1, <2>1, <3>2
      <4> QED BY <1>1, <1>3, <3>1, <3>2, <4>1
    <3> QED BY <3>1, <3>2
  <2> QED BY <1>1, <1>3, <1>5, <2>1 DEF ShownAgree
<1>7. LaterSaysSame'
  BY <1>1, <1>5 DEF CardsInv, VotesTold, LaterSaysSame
<1>8. DoneIsWritten'
  BY <1>1, <1>5 DEF CardsInv, VotesTold, DoneIsWritten, Carries, ReadsOn
<1>9. RecordedStands'
  BY <1>1, <1>2, <1>3 DEF CardsInv, VotesTold, RecordedStands, Carries, ReadsOn
<1>10. Oc!CardsAreOfTheFeeds'
  BY <1>1 DEF CardsInv, Oc!CardsAreOfTheFeeds, Oc!AddedBySaves
<1> QED BY <1>4, <1>6, <1>7, <1>8, <1>9, <1>10 DEF CardsInv, VotesTold

-----------------------------------------------------------------------------
(* The posts of votes. *)

LEMMA NextVotesCards ==
  ASSUME CardsInv, Oc!NextVotes
  PROVE  CardsInv'
<1> DEFINE ballot == [u \in Oc!Marked |-> cards[u].vote]
           new == [id |-> sent + 1, pc |-> "read", found |-> {}, shown |-> TRUE, votes |-> ballot]
           save == [id |-> sent + 1, left |-> {}, added |-> {}, failed |-> FALSE]
<1>1. /\ sent' = sent + 1 /\ ready' = FALSE
      /\ saving' = saving \cup {save} /\ cardPosts' = cardPosts \cup {new}
      /\ UNCHANGED <<table, article, step, added, stray, deal, cards, dealt, from, unseen, flipped,
                     writer, outrun>>
  BY DEF Oc!NextVotes, Oc!Save, Oc!server, Oc!shown, Oc!history
<1>2. sent \in Nat /\ sent + 1 \in Nat /\ sent < sent + 1 /\ 1 <= sent + 1
  BY CardFacts DEF CardsInv
<1>3. /\ DOMAIN ballot \subseteq Feeds /\ DOMAIN ballot \subseteq DOMAIN cards
      /\ \A u \in DOMAIN ballot : /\ ballot[u] = cards[u].vote /\ ballot[u] \in Oc!Votes
                                 /\ cards[u].state = "open"
      /\ ballot \in Ballots
  <2>1. \A u \in Oc!Marked : /\ u \in DOMAIN cards /\ u \in Feeds /\ cards[u].vote \in Oc!Votes
                             /\ cards[u].state = "open"
    BY CardFacts DEF CardsInv, Oc!Marked, Oc!Untouched, ShownCard
  <2>2. ballot \in [Oc!Marked -> Oc!Votes] /\ Oc!Marked \in SUBSET Feeds
    BY <2>1
  <2> QED BY <2>1, <2>2, BallotFacts
<1>4. PICK said \in Ballots : said = ballot
  BY <1>3
<1> HIDE DEF ballot
<1>5. /\ new \in Posted /\ new.id = sent + 1 /\ new.pc = "read" /\ new.votes = said /\ new.shown = TRUE
      /\ save \in SaveOut /\ save.id = sent + 1 /\ save.added = {}
  BY <1>2, <1>4 DEF Posted, SaveOut
<1> HIDE DEF new, save
<1>6. CardsTyped'
  <2>1. saving' \subseteq SaveOut /\ \A s \in saving' : s.id <= sent' /\ (s.id # -1 => s.added = {})
    <3>1. \A s \in saving : s.id \in Int /\ s.id <= sent /\ (s.id # -1 => s.added = {})
      BY DEF CardsInv, CardsTyped, SaveOut
    <3>2. \A s \in saving : s.id <= sent + 1
      BY <1>2, <3>1
    <3> QED BY <1>1, <1>2, <1>5, <3>1, <3>2, CardFacts DEF CardsInv
  <2>2. cardPosts' \subseteq Posted
    BY <1>1, <1>5 DEF CardsInv, CardsTyped
  <2>3. \A p \in cardPosts : p.id \in 1..sent /\ p.id # sent + 1
    BY <1>2, PostFacts DEF CardsInv
  <2>4. \A p \in cardPosts' : p.id \in 1..sent'
    BY <1>1, <1>2, <1>5, <2>3
  <2>5. \A p, q \in cardPosts' : p.id = q.id => p = q
    BY <1>1, <1>5, <2>3 DEF CardsInv, CardsTyped
  <2>6. PageTyped'
    BY <1>1, PageFacts DEF PageTyped
  <2> QED BY <1>1, <1>2, <2>1, <2>2, <2>4, <2>5, <2>6 DEF CardsInv, CardsTyped
<1>7. \A p \in cardPosts : p.id < new.id /\ p # new /\ (Oc!Awaits(p)' <=> Oc!Awaits(p))
  <2>1. \A p \in cardPosts : p.id \in 1..sent /\ p.id < sent + 1 /\ p.id # sent + 1
    BY <1>2, PostFacts DEF CardsInv
  <2>2. \A p \in cardPosts : (Oc!Awaits(p)' <=> Oc!Awaits(p))
    BY <1>1, <1>5, <2>1 DEF Oc!Awaits
  <2> QED BY <1>5, <2>1, <2>2
<1>8. \A u \in DOMAIN said : u \in DOMAIN cards /\ said[u] = cards[u].vote /\ cards[u].state = "open"
  BY <1>3, <1>4
<1>9. ShownAgree'
  <2>1. ASSUME NEW p \in cardPosts', p.shown
        PROVE  /\ DOMAIN p.votes \subseteq DOMAIN cards
               /\ Oc!Awaits(p)' => \A u \in DOMAIN p.votes \ flipped : cards[u].vote = p.votes[u]
    <3>1. CASE p = new
      BY <1>5, <1>8, <3>1
    <3>2. CASE p \in cardPosts
      BY <1>7, <2>1, <3>2 DEF CardsInv, VotesTold, ShownAgree
    <3> QED BY <1>1, <3>1, <3>2
  <2> QED BY <1>1, <2>1 DEF ShownAgree
<1>10. LaterSaysSame'
  <2>1. ASSUME NEW p \in cardPosts', NEW q \in cardPosts', p.shown, Oc!Awaits(p)', p.id < q.id,
               NEW u \in (DOMAIN p.votes \cap DOMAIN q.votes) \ flipped
        PROVE  q.votes[u] = p.votes[u]
    <3>1. CASE p = new
      <4>1. q \in cardPosts \/ q = new
        BY <1>1
      <4>2. q.id <= new.id /\ q.id \in Int /\ new.id \in Int
        BY <1>2, <1>5, <1>7, <4>1, PostFacts DEF CardsInv
      <4> QED BY <2>1, <3>1, <4>2
    <3>2. CASE p \in cardPosts /\ q = new
      <4>1. cards[u].vote = p.votes[u]
        BY <1>7, <2>1, <3>2 DEF CardsInv, VotesTold, ShownAgree
      <4> QED BY <1>5, <1>8, <3>2, <4>1
    <3>3. CASE p \in cardPosts /\ q \in cardPosts
      BY <1>7, <2>1, <3>3 DEF CardsInv, VotesTold, LaterSaysSame
    <3> QED BY <1>1, <3>1, <3>2, <3>3
  <2> QED BY <1>1, <2>1 DEF LaterSaysSame
<1>11. ASSUME NEW u, NEW vote, Carries(u, vote), u \in DOMAIN said => said[u] = vote
       PROVE  Carries(u, vote)'
  BY <1>1, <1>5, <1>11 DEF Carries, ReadsOn
<1>12. DoneIsWritten'
  <2>1. ASSUME NEW p \in cardPosts', p.pc = "done"
        PROVE  /\ Oc!Awaits(p)' /\ p.found \subseteq DOMAIN p.votes
               /\ p.shown => \A u \in p.found \ (flipped \cup outrun) : Carries(u, p.votes[u])'
    <3>1. p \in cardPosts
      BY <1>1, <1>5, <2>1
    <3>2. Oc!Awaits(p) /\ p.found \subseteq DOMAIN p.votes
      BY <2>1, <3>1 DEF CardsInv, VotesTold, DoneIsWritten
    <3>3. ASSUME p.shown, NEW u \in p.found \ (flipped \cup outrun) PROVE Carries(u, p.votes[u])'
      <4>1. Carries(u, p.votes[u])
        BY <2>1, <3>1, <3>3 DEF CardsInv, VotesTold, DoneIsWritten
      <4>2. cards[u].vote = p.votes[u]
        BY <3>1, <3>2, <3>3 DEF CardsInv, VotesTold, ShownAgree
      <4> QED BY <1>8, <1>11, <4>1, <4>2
    <3> QED BY <1>7, <3>1, <3>2, <3>3
  <2> QED BY <1>1, <2>1 DEF DoneIsWritten
<1>13. RecordedStands'
  <2>1. ASSUME NEW u \in DOMAIN cards, cards[u].state = "recorded", u \notin flipped \cup outrun
        PROVE  Carries(u, cards[u].vote)'
    <3>1. Carries(u, cards[u].vote)
      BY <2>1 DEF CardsInv, VotesTold, RecordedStands
    <3>2. u \notin DOMAIN said
      BY <1>8, <2>1
    <3>3. PICK v : v = cards[u].vote /\ v = cards'[u].vote
      BY <1>1
    <3>4. Carries(u, v)
      BY <3>1, <3>3 DEF Carries, ReadsOn
    <3>5. Carries(u, v)'
      BY <1>11, <3>2, <3>4
    <3> QED BY <3>3, <3>5 DEF Carries, ReadsOn
  <2> QED BY <1>1, <2>1 DEF RecordedStands
<1>14. Oc!CardsAreOfTheFeeds'
  BY <1>1 DEF CardsInv, Oc!CardsAreOfTheFeeds, Oc!AddedBySaves
<1> QED BY <1>6, <1>9, <1>10, <1>12, <1>13, <1>14 DEF CardsInv, VotesTold

(* What the statements of a post run. *)
LEMMA StatementsOf ==
  ASSUME NEW p, NEW found, \A u \in found : p.votes[u] \in Oc!Votes
  PROVE  \A u \in found : \E k \in 1..Len(Oc!Statements(p, found)) :
            Oc!Statements(p, found)[k] = p.votes[u]
<1> DEFINE OfVote(v) == IF \E u \in found : p.votes[u] = v THEN <<v>> ELSE <<>>
<1>1. Oc!Statements(p, found) = <<"save">> \o OfVote("down") \o OfVote("up")
  BY DEF Oc!Statements
<1>2. ASSUME NEW u \in found
      PROVE  \E k \in 1..Len(Oc!Statements(p, found)) : Oc!Statements(p, found)[k] = p.votes[u]
  <2>1. CASE p.votes[u] = "down"
    <3>1. OfVote("down") = <<"down">>
      BY <2>1
    <3>2. CASE OfVote("up") = <<"up">>
      <4>1. Oc!Statements(p, found) = <<"save">> \o <<"down">> \o <<"up">>
        BY <1>1, <3>1, <3>2
      <4> QED BY <2>1, <4>1
    <3>3. CASE OfVote("up") = <<>>
      <4>1. Oc!Statements(p, found) = <<"save">> \o <<"down">> \o <<>>
        BY <1>1, <3>1, <3>3
      <4> QED BY <2>1, <4>1
    <3> QED BY <3>2, <3>3
  <2>2. CASE p.votes[u] = "up"
    <3>1. OfVote("up") = <<"up">>
      BY <2>2
    <3>2. CASE OfVote("down") = <<"down">>
      <4>1. Oc!Statements(p, found) = <<"save">> \o <<"down">> \o <<"up">>
        BY <1>1, <3>1, <3>2
      <4> QED BY <2>2, <4>1
    <3>3. CASE OfVote("down") = <<>>
      <4>1. Oc!Statements(p, found) = <<"save">> \o <<>> \o <<"up">>
        BY <1>1, <3>1, <3>3
      <4> QED BY <2>2, <4>1
    <3> QED BY <3>2, <3>3
  <2> QED BY <2>1, <2>2 DEF Oc!Votes
<1> QED BY <1>2

LEMMA PostWritesCards ==
  ASSUME CardsInv, NEW p \in cardPosts, Oc!PostWrites(p)
  PROVE  CardsInv'
<1>1. PICK found \in SUBSET (DOMAIN p.votes \cap table), voted \in SUBSET Feeds :
        /\ \E ran :
             /\ voted = {u \in found : p.votes[u] \in ran}
             /\ article' = [u \in Feeds |->
                              IF u \in voted THEN p.votes[u]
                              ELSE IF "save" \in ran /\ u \in found /\ article[u] = "absent" THEN "pending"
                              ELSE article[u]]
        /\ outrun' = outrun \cup {u \in voted : p.id < writer[u]}
        /\ writer' = [u \in Feeds |->
                        IF u \in voted /\ writer[u] < p.id THEN p.id ELSE writer[u]]
        /\ \/ Oc!Ended(p, "done", found) /\ voted = found
           \/ \E any \in SUBSET Feeds : Oc!Ended(p, "failed", any)
  <2>1. PICK found \in SUBSET (DOMAIN p.votes \cap table) :
          LET these == IF found = {} THEN <<>> ELSE Oc!Statements(p, found)
          IN  \E n \in 0..Len(these) :
             LET ran == {these[k] : k \in 1..n}
                 voted == {u \in found : p.votes[u] \in ran}
             IN  /\ article' = [u \in Feeds |->
                              IF u \in voted THEN p.votes[u]
                              ELSE IF "save" \in ran /\ u \in found /\ article[u] = "absent" THEN "pending"
                              ELSE article[u]]
                 /\ outrun' = outrun \cup {u \in voted : p.id < writer[u]}
                 /\ writer' = [u \in Feeds |->
                                 IF u \in voted /\ writer[u] < p.id THEN p.id ELSE writer[u]]
                 /\ \/ n = Len(these) /\ Oc!Ended(p, IF found = {} THEN "failed" ELSE "done", found)
                    \/ Oc!Ended(p, "failed", {})
    BY DEF Oc!PostWrites
  <2> DEFINE these == IF found = {} THEN <<>> ELSE Oc!Statements(p, found)
  <2>2. PICK n \in 0..Len(these) :
             LET ran == {these[k] : k \in 1..n}
                 voted == {u \in found : p.votes[u] \in ran}
             IN  /\ article' = [u \in Feeds |->
                              IF u \in voted THEN p.votes[u]
                              ELSE IF "save" \in ran /\ u \in found /\ article[u] = "absent" THEN "pending"
                              ELSE article[u]]
                 /\ outrun' = outrun \cup {u \in voted : p.id < writer[u]}
                 /\ writer' = [u \in Feeds |->
                                 IF u \in voted /\ writer[u] < p.id THEN p.id ELSE writer[u]]
                 /\ \/ n = Len(these) /\ Oc!Ended(p, IF found = {} THEN "failed" ELSE "done", found)
                    \/ Oc!Ended(p, "failed", {})
    BY <2>1
  <2> DEFINE ran == {these[k] : k \in 1..n}
             voted == {u \in found : p.votes[u] \in ran}
  <2>3. voted \in SUBSET Feeds /\ found \in SUBSET Feeds
    BY PostFacts DEF CardsInv
  <2>4. n = Len(these) /\ found # {} => voted = found
    <3>1. \A u \in found : p.votes[u] \in Oc!Votes
      BY PostFacts DEF CardsInv
    <3>2. ASSUME n = Len(these), found # {}, NEW u \in found PROVE u \in voted
      BY <3>1, <3>2, StatementsOf
    <3> QED BY <3>2
  <2> HIDE DEF these
  <2>5. /\ article' = [u \in Feeds |->
                         IF u \in voted THEN p.votes[u]
                         ELSE IF "save" \in ran /\ u \in found /\ article[u] = "absent" THEN "pending"
                         ELSE article[u]]
        /\ outrun' = outrun \cup {u \in voted : p.id < writer[u]}
        /\ writer' = [u \in Feeds |->
                        IF u \in voted /\ writer[u] < p.id THEN p.id ELSE writer[u]]
    BY <2>2
  <2>6. \/ n = Len(these) /\ Oc!Ended(p, IF found = {} THEN "failed" ELSE "done", found)
        \/ Oc!Ended(p, "failed", {})
    BY <2>2
  <2>7. voted = {u \in found : p.votes[u] \in ran}
    OBVIOUS
  <2> HIDE DEF ran, voted
  <2>8. \/ Oc!Ended(p, "done", found) /\ voted = found
        \/ \E any \in SUBSET Feeds : Oc!Ended(p, "failed", any)
    BY <2>3, <2>4, <2>6
  <2> QED BY <2>3, <2>5, <2>7, <2>8
<1>2. /\ p \in Posted /\ p.pc = "read" /\ p.id \in Nat /\ found \subseteq DOMAIN p.votes /\ voted \subseteq found
      /\ \A u \in DOMAIN p.votes : p.votes[u] \in Oc!Votes /\ u \in Feeds
      /\ \A u \in Feeds : writer[u] \in Nat
      /\ UNCHANGED <<table, step, added, ready, saving, stray, deal, cards, dealt, from, sent, unseen,
                     flipped>>
  BY <1>1, PostFacts DEF CardsInv, CardsTyped, Oc!PostWrites, Oc!form, Oc!shown
<1>3. PICK next \in Posted :
        /\ next.id = p.id /\ next.votes = p.votes /\ next.shown = p.shown /\ next.pc \in {"done", "failed"}
        /\ next.pc = "done" => next.found = found /\ voted = found
        /\ cardPosts' = cardPosts \ {p} \/ (cardPosts' = (cardPosts \ {p}) \cup {next} /\ Oc!Awaits(p))
  <2>1. ASSUME NEW end \in {"done", "failed"}, NEW any \in SUBSET Feeds, Oc!Ended(p, end, any),
               end = "done" => any = found /\ voted = found
        PROVE  \E next \in Posted :
                 /\ next.id = p.id /\ next.votes = p.votes /\ next.shown = p.shown /\ next.pc \in {"done", "failed"}
                 /\ next.pc = "done" => next.found = found /\ voted = found
                 /\ cardPosts' = cardPosts \ {p} \/ (cardPosts' = (cardPosts \ {p}) \cup {next} /\ Oc!Awaits(p))
    <3> DEFINE next == [p EXCEPT !.pc = end, !.found = any]
    <3>1. /\ next \in Posted /\ next.id = p.id /\ next.votes = p.votes /\ next.shown = p.shown
          /\ next.pc = end /\ next.found = any
      BY <1>2 DEF Posted
    <3>2. cardPosts' = cardPosts \ {p} \/ (cardPosts' = (cardPosts \ {p}) \cup {next} /\ Oc!Awaits(p))
      BY <2>1 DEF Oc!Ended
    <3> HIDE DEF next
    <3> QED BY <2>1, <3>1, <3>2
  <2>2. found \in SUBSET Feeds
    BY <1>2
  <2> QED BY <1>1, <2>1, <2>2
<1>4. \A q : Oc!Awaits(q)' <=> Oc!Awaits(q)
  BY <1>2, AwaitsOfSame
<1>5. \A q \in cardPosts' :
        (q \in cardPosts /\ q # p) \/ (q = next /\ Oc!Awaits(p) /\ Oc!Awaits(next))
  BY <1>3 DEF Oc!Awaits
<1>6. CardsTyped'
  <2>1. cardPosts' \subseteq Posted /\ \A q \in cardPosts' : q.id \in 1..sent
    BY <1>3, <1>5, PostFacts DEF CardsInv
  <2>2. \A q, r \in cardPosts' : q.id = r.id => q = r
    BY <1>3, <1>5 DEF CardsInv, CardsTyped
  <2>3. writer' \in [Feeds -> Nat]
    BY <1>1, <1>2
  <2>4. article' \in [Feeds -> {"absent", "pending"} \cup Oc!Votes]
    <3>1. \A u \in Feeds : article[u] \in {"absent", "pending"} \cup Oc!Votes
      BY DEF CardsInv, CardsTyped
    <3>2. \A u \in voted : p.votes[u] \in {"absent", "pending"} \cup Oc!Votes
      BY <1>2
    <3> QED BY <1>1, <3>1, <3>2
  <2>5. PageTyped'
    BY <1>2, PageFacts DEF PageTyped
  <2> QED BY <1>2, <2>1, <2>2, <2>3, <2>4, <2>5 DEF CardsInv, CardsTyped
<1>7. ShownAgree'
  <2>1. ASSUME NEW q \in cardPosts', q.shown
        PROVE  /\ DOMAIN q.votes \subseteq DOMAIN cards
               /\ Oc!Awaits(q) => \A u \in DOMAIN q.votes \ flipped : cards[u].vote = q.votes[u]
    BY <1>3, <1>5, <2>1 DEF CardsInv, VotesTold, ShownAgree
  <2> QED BY <1>2, <1>4, <2>1 DEF ShownAgree
<1>8. LaterSaysSame'
  <2>1. \A q \in cardPosts' : \E r \in cardPosts :
          /\ r.id = q.id /\ r.votes = q.votes /\ r.shown = q.shown /\ (Oc!Awaits(q) => Oc!Awaits(r))
    BY <1>3, <1>5
  <2>2. ASSUME NEW q \in cardPosts', NEW r \in cardPosts', q.shown, Oc!Awaits(q), q.id < r.id,
               NEW u \in (DOMAIN q.votes \cap DOMAIN r.votes) \ flipped
        PROVE  r.votes[u] = q.votes[u]
    <3>1. PICK x \in cardPosts : x.id = q.id /\ x.votes = q.votes /\ x.shown /\ Oc!Awaits(x)
      BY <2>1, <2>2
    <3>2. PICK z \in cardPosts : z.id = r.id /\ z.votes = r.votes
      BY <2>1
    <3>3. x.id < z.id /\ u \in (DOMAIN x.votes \cap DOMAIN z.votes) \ flipped
      BY <2>2, <3>1, <3>2
    <3>4. z.votes[u] = x.votes[u]
      BY <3>1, <3>3 DEF CardsInv, VotesTold, LaterSaysSame
    <3> QED BY <3>1, <3>2, <3>4
  <2> QED BY <1>2, <1>4, <2>2 DEF LaterSaysSame
<1>9. \A q \in cardPosts' : q.pc = "read" => q \in cardPosts /\ q # p
  BY <1>3, <1>5
<1>10. \A u \in Feeds : /\ writer'[u] \in Nat /\ writer[u] \in Nat /\ writer[u] <= writer'[u]
                        /\ u \in voted /\ u \notin outrun' => writer'[u] = p.id
  BY <1>1, <1>2
<1>11. ASSUME NEW u \in Feeds, NEW vote, u \notin outrun', Carries(u, vote)
       PROVE  Carries(u, vote)'
  <2>1. vote \in Oc!Votes /\ article[u] = vote /\ ReadsOn(u, vote)
    BY <1>11 DEF Carries
  <2>2. ReadsOn(u, vote)'
    <3>1. ASSUME NEW q \in cardPosts', q.pc = "read", u \in DOMAIN q.votes, ~(q.id < writer'[u])
          PROVE  q.votes[u] = vote
      <4>1. q \in cardPosts /\ q.id \in Nat /\ ~(q.id < writer[u])
        BY <1>9, <1>10, <3>1, PostFacts DEF CardsInv
      <4> QED BY <2>1, <3>1, <4>1 DEF ReadsOn
    <3> QED BY <3>1 DEF ReadsOn
  <2>3. article'[u] = vote
    <3>1. CASE u \in voted
      <4>1. u \in DOMAIN p.votes /\ ~(p.id < writer[u])
        BY <1>1, <1>2, <1>11, <3>1
      <4>2. p.votes[u] = vote
        BY <1>2, <2>1, <4>1 DEF ReadsOn
      <4> QED BY <1>1, <3>1, <4>2
    <3>2. CASE u \notin voted
      <4>1. article[u] # "absent"
        BY <2>1 DEF Oc!Votes
      <4> QED BY <1>1, <2>1, <3>2, <4>1
    <3> QED BY <3>1, <3>2
  <2> QED BY <2>1, <2>2, <2>3 DEF Carries
<1>12. outrun \subseteq outrun'
  BY <1>1
<1>13. DoneIsWritten'
  <2>1. ASSUME NEW q \in cardPosts', q.pc = "done"
        PROVE  /\ Oc!Awaits(q) /\ q.found \subseteq DOMAIN q.votes
               /\ q.shown => \A u \in q.found \ (flipped \cup outrun') : Carries(u, q.votes[u])'
    <3>1. CASE q \in cardPosts /\ q # p
      <4>1. /\ Oc!Awaits(q) /\ q.found \subseteq DOMAIN q.votes
            /\ q.shown => \A u \in q.found \ (flipped \cup outrun) : Carries(u, q.votes[u])
        BY <2>1, <3>1 DEF CardsInv, VotesTold, DoneIsWritten
      <4>2. q.found \subseteq Feeds
        BY <3>1, PostFacts DEF CardsInv, Posted
      <4> QED BY <1>11, <1>12, <4>1, <4>2
    <3>2. CASE q = next /\ Oc!Awaits(p) /\ Oc!Awaits(next)
      <4>1. q.found = found /\ voted = found
        BY <1>3, <2>1, <3>2
      <4>2. ASSUME q.shown, NEW u \in found \ (flipped \cup outrun') PROVE Carries(u, p.votes[u])'
        <5>1. u \in Feeds /\ u \in voted /\ p.votes[u] \in Oc!Votes /\ article'[u] = p.votes[u]
              /\ writer'[u] = p.id
          BY <1>1, <1>2, <1>10, <4>1, <4>2
        <5>2. ASSUME NEW r \in cardPosts', r.pc = "read", u \in DOMAIN r.votes, ~(r.id < writer'[u])
              PROVE  r.votes[u] = p.votes[u]
          <6>1. r \in cardPosts /\ r # p /\ r.id \in Nat /\ r.id # p.id
            BY <1>9, <5>2, PostFacts DEF CardsInv, CardsTyped
          <6>2. p.id < r.id
            BY <1>2, <5>1, <5>2, <6>1
          <6>3. p.shown /\ Oc!Awaits(p) /\ u \in (DOMAIN p.votes \cap DOMAIN r.votes) \ flipped
            BY <1>2, <1>3, <3>2, <4>2, <5>2
          <6> QED BY <6>1, <6>2, <6>3 DEF CardsInv, VotesTold, LaterSaysSame
        <5> QED BY <5>1, <5>2 DEF Carries, ReadsOn
      <4> QED BY <1>2, <1>3, <3>2, <4>1, <4>2
    <3> QED BY <1>5, <3>1, <3>2
  <2> QED BY <1>2, <1>4, <2>1 DEF DoneIsWritten
<1>14. RecordedStands'
  <2>1. ASSUME NEW u \in DOMAIN cards, cards[u].state = "recorded", u \notin flipped \cup outrun'
        PROVE  Carries(u, cards[u].vote)'
    <3>1. PICK v : v = cards[u].vote /\ v = cards'[u].vote
      BY <1>2
    <3>2. Carries(u, v) /\ u \in Feeds
      BY <1>12, <2>1, <3>1, CardFacts DEF CardsInv, VotesTold, RecordedStands, Carries, ReadsOn
    <3>3. Carries(u, v)'
      BY <1>11, <2>1, <3>2
    <3> QED BY <3>1, <3>3 DEF Carries, ReadsOn
  <2> QED BY <1>2, <2>1 DEF RecordedStands
<1>15. Oc!CardsAreOfTheFeeds'
  BY <1>2 DEF CardsInv, Oc!CardsAreOfTheFeeds, Oc!AddedBySaves
<1> QED BY <1>6, <1>7, <1>8, <1>13, <1>14, <1>15 DEF CardsInv, VotesTold

(* A card is settled by the answer of the post that was made of it. *)
LEMMA PostAnsweredCards ==
  ASSUME CardsInv, NEW p \in cardPosts, Oc!PostAnswered(p)
  PROVE  CardsInv'
<1>1. /\ p.pc \in {"done", "failed"} /\ cardPosts' = cardPosts \ {p}
      /\ saving' = {s \in saving : s.id # p.id} /\ ready' = TRUE
      /\ \/ p.pc = "done" /\ cards' = Oc!Settled(p)
         \/ UNCHANGED cards
      /\ \/ step' = Oc!StepAfter(step) /\ Oc!LoadCards(step', dealt, deal)
         \/ UNCHANGED <<step, deal>>
      /\ UNCHANGED <<table, article, added, stray, dealt, from, sent, unseen, flipped, writer, outrun>>
  BY DEF Oc!PostAnswered, Oc!server, Oc!bounds, Oc!history
<1>2. p.id >= 1 /\ p.id \in Nat /\ p \in Posted
  BY PostFacts DEF CardsInv
<1>3. \A q \in cardPosts' : q \in cardPosts /\ q # p /\ q.id # p.id
  BY <1>1 DEF CardsInv, CardsTyped
<1>4. \A q \in cardPosts' : Oc!Awaits(q)' <=> Oc!Awaits(q)
  BY <1>1, <1>3 DEF Oc!Awaits
<1>5. cards \in [DOMAIN cards -> ShownCard] /\ DOMAIN cards \in SUBSET Feeds
  BY CardFacts DEF CardsInv
<1>6. ASSUME NEW u \in DOMAIN cards, p.pc = "done", cards' = Oc!Settled(p)
      PROVE  /\ cards'[u].vote = cards[u].vote /\ cards'[u] \in ShownCard
             /\ \/ cards'[u] = cards[u]
                \/ p.shown /\ u \in DOMAIN p.votes /\ (cards'[u].state = "recorded" => u \in p.found)
  <2>1. PICK c \in ShownCard : c = cards[u]
    BY <1>5
  <2>2. \A x \in {"recorded", "gone"} :
          /\ [c EXCEPT !.state = x] \in ShownCard /\ [c EXCEPT !.state = x].vote = c.vote
          /\ [c EXCEPT !.state = x].state = x
    BY DEF ShownCard
  <2>3. PICK x \in {"recorded", "gone"} : x = IF u \in p.found THEN "recorded" ELSE "gone"
    OBVIOUS
  <2>4. cards'[u] = IF p.shown /\ u \in DOMAIN p.votes THEN [c EXCEPT !.state = x] ELSE c
    BY <1>6, <2>1, <2>3 DEF Oc!Settled
  <2> QED BY <2>1, <2>2, <2>3, <2>4
<1>7. cards' \in [DOMAIN cards -> ShownCard] /\ DOMAIN cards' = DOMAIN cards
  <2>1. CASE UNCHANGED cards
    BY <1>5, <2>1
  <2>2. CASE p.pc = "done" /\ cards' = Oc!Settled(p)
    <3>1. DOMAIN cards' = DOMAIN cards /\ cards' = [u \in DOMAIN cards |-> cards'[u]]
      BY <2>2 DEF Oc!Settled
    <3> QED BY <1>6, <2>2, <3>1
  <2> QED BY <1>1, <2>1, <2>2
<1>8. \A u \in DOMAIN cards : cards'[u].vote = cards[u].vote
  BY <1>1, <1>6
<1>9. CardsTyped'
  <2>1. cards' \in UNION {[S -> ShownCard] : S \in SUBSET Feeds}
    BY <1>5, <1>7
  <2>2. step' \in Oc!Steps
    BY <1>1, PageFacts DEF Oc!StepAfter, Oc!Steps
  <2>3. deal' = deal \/ deal' = [pc |-> "sent", from |-> {}]
    BY <1>1 DEF Oc!LoadCards
  <2>4. deal' \in [pc : {"none", "sent", "read"}, from : SUBSET Feeds]
    BY <2>3, PageFacts
  <2>5. PageTyped'
    BY <1>1, <2>2, <2>4, PageFacts DEF PageTyped
  <2> QED BY <1>1, <2>1, <2>5 DEF CardsInv, CardsTyped
<1>10. ShownAgree'
  <2>1. ASSUME NEW q \in cardPosts', q.shown
        PROVE  /\ DOMAIN q.votes \subseteq DOMAIN cards
               /\ Oc!Awaits(q) => \A u \in DOMAIN q.votes \ flipped : cards'[u].vote = q.votes[u]
    <3>1. /\ DOMAIN q.votes \subseteq DOMAIN cards
          /\ Oc!Awaits(q) => \A u \in DOMAIN q.votes \ flipped : cards[u].vote = q.votes[u]
      BY <1>3, <2>1 DEF CardsInv, VotesTold, ShownAgree
    <3> QED BY <1>8, <3>1
  <2> QED BY <1>1, <1>4, <1>7, <2>1 DEF ShownAgree
<1>11. LaterSaysSame'
  BY <1>1, <1>3, <1>4 DEF CardsInv, VotesTold, LaterSaysSame
<1>12. \A u, vote : Carries(u, vote) => Carries(u, vote)'
  BY <1>1, <1>3 DEF Carries, ReadsOn
<1>13. DoneIsWritten'
  BY <1>1, <1>3, <1>4, <1>12 DEF CardsInv, VotesTold, DoneIsWritten
<1>14. RecordedStands'
  <2>1. ASSUME NEW u \in DOMAIN cards, cards'[u].state = "recorded", u \notin flipped \cup outrun
        PROVE  Carries(u, cards[u].vote)'
    <3>1. PICK v : v = cards'[u].vote /\ v = cards[u].vote
      BY <1>8
    <3>2. CASE cards'[u] = cards[u]
      <4>1. Carries(u, v)
        BY <2>1, <3>1, <3>2 DEF CardsInv, VotesTold, RecordedStands, Carries, ReadsOn
      <4>2. Carries(u, v)'
        BY <1>12, <4>1
      <4> QED BY <3>1, <4>2 DEF Carries, ReadsOn
    <3>3. CASE cards'[u] # cards[u]
      <4>1. p.pc = "done" /\ p.shown /\ u \in DOMAIN p.votes /\ u \in p.found
        BY <1>1, <1>6, <2>1, <3>3
      <4>2. Oc!Awaits(p) /\ Carries(u, p.votes[u])
        BY <2>1, <4>1 DEF CardsInv, VotesTold, DoneIsWritten
      <4>3. p.votes[u] = v
        BY <2>1, <3>1, <4>1, <4>2 DEF CardsInv, VotesTold, ShownAgree
      <4>4. Carries(u, v)'
        BY <1>12, <4>2, <4>3
      <4> QED BY <3>1, <4>4 DEF Carries, ReadsOn
    <3> QED BY <3>2, <3>3
  <2> QED BY <1>1, <1>7, <2>1 DEF RecordedStands, Carries, ReadsOn
<1>15. Oc!CardsAreOfTheFeeds'
  <2>1. \A s \in saving : s.id = p.id => s.added = {}
    BY <1>2 DEF CardsInv, CardsTyped
  <2>2. Oc!AddedBySaves \subseteq Oc!AddedBySaves'
    BY <1>1, <2>1 DEF Oc!AddedBySaves
  <2> QED BY <1>1, <2>2 DEF CardsInv, Oc!CardsAreOfTheFeeds
<1> QED BY <1>9, <1>10, <1>11, <1>13, <1>14, <1>15 DEF CardsInv, VotesTold

LEMMA AnswerLostCards ==
  ASSUME CardsInv, NEW s \in saving, Oc!AnswerLost(s)
  PROVE  CardsInv'
<1>1. /\ s.id # -1 /\ saving' = saving \ {s} /\ ready' = TRUE
      /\ cardPosts' = {p \in cardPosts : p.pc = "read" \/ p.id # s.id}
      /\ UNCHANGED <<table, article, step, added, stray, deal, cards, dealt, from, sent, unseen,
                     flipped, writer, outrun>>
  BY DEF Oc!AnswerLost, Oc!SavesOfSources, Oc!SavingSources, Oc!server, Oc!shown, Oc!history
<1>2. CardsTyped'
  <2>1. PageTyped'
    BY <1>1, PageFacts DEF PageTyped
  <2> QED BY <1>1, <2>1 DEF CardsInv, CardsTyped
<1>3. \A p : Oc!Awaits(p)' => Oc!Awaits(p)
  BY <1>1 DEF Oc!Awaits
<1>4. ShownAgree' /\ LaterSaysSame'
  BY <1>1, <1>3 DEF CardsInv, VotesTold, ShownAgree, LaterSaysSame
<1>5. \A u, vote : Carries(u, vote) => Carries(u, vote)'
  BY <1>1 DEF Carries, ReadsOn
<1>6. DoneIsWritten'
  <2>1. ASSUME NEW p \in cardPosts', p.pc = "done" PROVE p \in cardPosts /\ Oc!Awaits(p)'
    <3>1. p \in cardPosts /\ p.id # s.id
      BY <1>1, <2>1
    <3>2. Oc!Awaits(p)
      BY <2>1, <3>1 DEF CardsInv, VotesTold, DoneIsWritten
    <3> QED BY <1>1, <3>1, <3>2 DEF Oc!Awaits
  <2> QED BY <1>1, <1>5, <2>1 DEF CardsInv, VotesTold, DoneIsWritten
<1>7. RecordedStands'
  BY <1>1 DEF CardsInv, VotesTold, RecordedStands, Carries, ReadsOn
<1>8. Oc!CardsAreOfTheFeeds'
  <2>1. s.added = {}
    BY <1>1 DEF CardsInv, CardsTyped
  <2>2. Oc!AddedBySaves \subseteq Oc!AddedBySaves'
    BY <1>1, <2>1 DEF Oc!AddedBySaves
  <2> QED BY <1>1, <2>2 DEF CardsInv, Oc!CardsAreOfTheFeeds
<1> QED BY <1>2, <1>4, <1>6, <1>7, <1>8 DEF CardsInv, VotesTold

LEMMA NextCards == ASSUME CardsInv, Oc!Next PROVE CardsInv'
<1>1. ASSUME NEW s \in Oc!Steps, Oc!Go(s) PROVE CardsInv'
  BY <1>1, GoCards
<1>2. CASE Oc!Reload \/ Oc!DealReads \/ Oc!DealAnswers \/ Oc!DealFails \/ Oc!NextVotes
  BY <1>2, ReloadCards, DealCards, DealAnswersCards, NextVotesCards
<1>3. ASSUME NEW s \in saving, Oc!SourcesSaved(s) \/ Oc!AnswerLost(s) PROVE CardsInv'
  BY <1>3, SourcesSavedCards, AnswerLostCards
<1>4. ASSUME NEW picked \in SUBSET Feeds, Oc!NextSources(picked) PROVE CardsInv'
  BY <1>4, NextSourcesCards
<1>5. ASSUME NEW s \in saving, NEW f \in Feeds, NEW fate \in Oc!Fates, Oc!PostSource(s, f, fate)
      PROVE  CardsInv'
  BY <1>5, PostSourceCards
<1>6. ASSUME NEW f \in stray, Oc!StrayLands(f) PROVE CardsInv'
  BY <1>6, StrayLandsCards
<1>7. ASSUME NEW u \in Feeds, NEW v \in Oc!Votes, Oc!Press(u, v) PROVE CardsInv'
  BY <1>7, PressCards
<1>8. ASSUME NEW p \in cardPosts, Oc!PostWrites(p) \/ Oc!PostAnswered(p) PROVE CardsInv'
  BY <1>8, PostWritesCards, PostAnsweredCards
<1> QED BY <1>1, <1>2, <1>3, <1>4, <1>5, <1>6, <1>7, <1>8 DEF Oc!Next

LEMMA SameCards == ASSUME CardsInv, UNCHANGED ofCards PROVE CardsInv'
<1>1. UNCHANGED <<table, article, step, added, ready, saving, stray, deal, cards, dealt,
                  cardPosts, sent, from, unseen, flipped, writer, outrun>>
  BY DEF ofCards
<1>2. CardsTyped'
  <2>1. PageTyped'
    BY <1>1, PageFacts DEF PageTyped
  <2> QED BY <1>1, <2>1 DEF CardsInv, CardsTyped
<1>3. VotesTold'
  BY <1>1, AwaitsOfSame, VotesStand DEF CardsInv
<1>4. Oc!CardsAreOfTheFeeds'
  BY <1>1 DEF CardsInv, Oc!CardsAreOfTheFeeds, Oc!AddedBySaves
<1> QED BY <1>2, <1>3, <1>4 DEF CardsInv

(* What the wizard shows as recorded is what was written, whatever fails   *)
(* and is sent again, and the cards it counts as dealt are of the table's  *)
(* feeds (onboarding.js saveSources, loadCards, saveVotes).                *)
THEOREM CardsKeepTheirWord == ReaderSpec => []CardsTellTrue
<1>1. ReaderInit => CardsInv
  BY InitCards DEF ReaderInit
<1>2. CardsInv /\ [ReaderNext]_all => CardsInv'
  BY PartSteps, NextCards, SameCards
<1>3. CardsInv => CardsTellTrue
  <2>1. ASSUME CardsInv PROVE Oc!RecordedIsWritten
    BY <2>1 DEF CardsInv, VotesTold, RecordedStands, Carries, Oc!RecordedIsWritten
  <2> QED BY <2>1 DEF CardsInv, Oc!CardsTellTrue, CardsTellTrue
<1> QED BY <1>1, <1>2, <1>3, PTL DEF ReaderSpec

-----------------------------------------------------------------------------
(* The types of the rest. *)

(* What the invariants above leave out of the types of their parts. *)
FormsRest == values \in Tables /\ cut \subseteq Sf!Kinds /\ besides \in BOOLEAN
LabelsRest ==
  labelMishaps \in 0..LabelMishaps /\ redrawn \in BOOLEAN /\ slipped \subseteq 1..MaxClock
CardsRest == \A s \in saving : s.id >= -1

LEMMA CopyIsTable ==
  ASSUME values \in Tables, NEW body \in Sf!Bodies
  PROVE  [k \in DOMAIN values |-> IF k \in DOMAIN body THEN body[k] ELSE values[k]] \in Tables
<1> DEFINE copy == [k \in DOMAIN values |-> IF k \in DOMAIN body THEN body[k] ELSE values[k]]
<1>1. DOMAIN copy = {"provider", "model", "effort", "enabled", "embedder", "embedding"}
  BY DEF Tables
<1>2. CASE body.kind = "llm"
  <2>1. /\ body \in [kind : {"llm"}, provider : Providers \cup {Sf!NoLlm}, model : Models \cup {Sf!NoModel}]
    BY <1>2 DEF Sf!Bodies
  <2>2. DOMAIN body = {"kind", "provider", "model"}
    BY <2>1
  <2>3. copy = [values EXCEPT !.provider = body.provider, !.model = body.model]
    BY <1>1, <2>2 DEF Tables
  <2> QED BY <2>1, <2>3 DEF Tables
<1>3. CASE body.kind = "effort"
  <2>1. body \in [kind : {"effort"}, effort : Efforts \cup {Sf!DefaultEffort}]
    BY <1>3 DEF Sf!Bodies
  <2>2. copy = [values EXCEPT !.effort = body.effort]
    BY <1>1, <2>1 DEF Tables
  <2> QED BY <2>1, <2>2 DEF Tables
<1>4. CASE body.kind = "vote"
  <2>1. body \in [kind : {"vote"}, enabled : BOOLEAN, embedder : Embedders, embedding : Models]
    BY <1>4 DEF Sf!Bodies
  <2>2. copy = [values EXCEPT !.enabled = body.enabled, !.embedder = body.embedder,
                              !.embedding = body.embedding]
    BY <1>1, <2>1 DEF Tables
  <2> QED BY <2>1, <2>2 DEF Tables
<1> QED BY <1>2, <1>3, <1>4, BodyFields

LEMMA NextFormsRest ==
  ASSUME FormsInv, FormsRest, [Sf!Next]_ofForms
  PROVE  FormsRest'
<1>1. CASE UNCHANGED ofForms
  BY <1>1 DEF ofForms, FormsRest
<1>2. ASSUME NEW body \in Sf!Bodies, NEW with, Sf!Store(body, with), UNCHANGED values
      PROVE  FormsRest'
  <2>1. body.kind \in Sf!Kinds
    BY BodyFields DEF Sf!Kinds
  <2>2. besides' \in BOOLEAN
    BY <1>2 DEF Sf!Store, Sf!Crosses, FormsRest
  <2>3. cut' \subseteq Sf!Kinds
    BY <1>2, <2>1 DEF Sf!Store, FormsRest
  <2> QED BY <1>2, <2>2, <2>3 DEF FormsRest
<1>3. ASSUME NEW body \in Sf!Bodies, Sf!Submit(body) PROVE FormsRest'
  <2>1. CASE Sf!NeedsProbe(body)
    BY <1>3, <2>1 DEF Sf!Submit, FormsRest
  <2>2. CASE ~Sf!NeedsProbe(body)
    BY <1>2, <1>3, <2>2 DEF Sf!Submit
  <2> QED BY <2>1, <2>2
<1>4. ASSUME NEW p \in probing, Sf!ProbeOk(p) PROVE FormsRest'
  BY <1>2, <1>4 DEF Sf!ProbeOk, FormsInv, FormsTyped
<1>5. ASSUME NEW fate \in Sf!Fates, Sf!StoreKey(fate) PROVE FormsRest'
  <2>1. storing.body \in Sf!Bodies
    BY <1>5 DEF FormsInv, FormsTyped, Sf!StoreKey
  <2>2. values' \in Tables
    BY <1>5, <2>1, CopyIsTable DEF Sf!StoreKey, FormsRest
  <2>3. cut' \subseteq cut /\ UNCHANGED besides
    BY <1>5 DEF Sf!StoreKey
  <2> QED BY <2>2, <2>3 DEF FormsRest
<1>6. ASSUME NEW c \in lateKeys, Sf!LateRuns(c) PROVE FormsRest'
  BY <1>6 DEF Sf!LateRuns, FormsRest
<1>7. CASE Sf!Restart
  BY <1>7 DEF Sf!Restart, FormsRest, FormsInv, FormsTyped
<1>8. ASSUME NEW p \in probing, Sf!ProbeFails(p) PROVE FormsRest'
  BY <1>8 DEF Sf!ProbeFails, FormsRest
<1> QED BY <1>1, <1>3, <1>4, <1>5, <1>6, <1>7, <1>8 DEF Sf!Next

LEMMA FormsTypes ==
  ASSUME FormsInv, FormsRest
  PROVE  Sf!TypeOK
<1>1. ~Sf!Free => storing.left # <<>>
  <2> SUFFICES ASSUME ~Sf!Free PROVE storing.left # <<>>
    OBVIOUS
  <2>1. storing.left \in Rest(storing.body.kind) /\ storing.body.kind \in {"llm", "effort", "vote"}
    BY BodyFields DEF FormsInv, FormsTyped
  <2> QED BY <2>1 DEF Rest
<1> QED BY <1>1 DEF FormsInv, FormsTyped, FormsRest, Tables, Sf!TypeOK

LEMMA NextLabelsRest ==
  ASSUME LabelsInv, LabelsRest, [Bl!Next]_ofLabels
  PROVE  LabelsRest'
<1>1. LabelMishaps \in Nat /\ MaxClock \in Nat
  BY LabelsAssumption
<1>2. ASSUME NEW fate, Bl!Suffer(fate) PROVE labelMishaps' \in 0..LabelMishaps
  <2>1. labelMishaps' \in {labelMishaps, labelMishaps + 1} /\ (labelMishaps' # labelMishaps => labelMishaps < LabelMishaps)
    BY <1>2 DEF Bl!Suffer
  <2> QED BY <1>1, <2>1 DEF LabelsRest
<1>3. press.pc # "idle" => press.at \in 1..MaxClock
  BY DEF LabelsInv, LabelsTyped, Bl!Idle
<1>4. CASE UNCHANGED ofLabels
  BY <1>4 DEF ofLabels, LabelsRest
<1>5. ASSUME NEW d \in Drawers, Bl!ReadPool(d) \/ Bl!CheckKept(d) PROVE LabelsRest'
  BY <1>5 DEF Bl!ReadPool, Bl!CheckKept, LabelsRest
<1>6. ASSUME NEW d \in Drawers, NEW fate, Bl!InsertDraw(d, fate) PROVE LabelsRest'
  BY <1>2, <1>6 DEF Bl!InsertDraw, LabelsRest
<1>7. ASSUME NEW d \in Drawers, NEW fate, Bl!DeleteOthers(d, fate) PROVE LabelsRest'
  BY <1>2, <1>7 DEF Bl!DeleteOthers, LabelsRest
<1>8. ASSUME NEW u \in Articles, NEW label, Bl!Press(u, label) PROVE LabelsRest'
  BY <1>8 DEF Bl!Press, Bl!draws, LabelsRest
<1>9. ASSUME NEW fate, Bl!Record(fate) \/ Bl!Vote(fate) \/ Bl!Release(fate) PROVE LabelsRest'
  <2>1. slipped' \subseteq slipped \cup {press.at} /\ press.pc # "idle"
    BY <1>9 DEF Bl!Record, Bl!Vote, Bl!Release
  <2>2. redrawn' = redrawn /\ labelMishaps' \in 0..LabelMishaps
    BY <1>2, <1>9 DEF Bl!Record, Bl!Vote, Bl!Release, Bl!draws
  <2> QED BY <1>3, <2>1, <2>2 DEF LabelsRest
<1>10. CASE Bl!Kill
  <2>1. slipped' = slipped \cup {press.at} /\ press.pc # "idle" /\ redrawn' = redrawn
    BY <1>10 DEF Bl!Kill, Bl!draws
  <2>2. labelMishaps < LabelMishaps /\ labelMishaps' = labelMishaps + 1
    BY <1>10 DEF Bl!Kill
  <2>3. labelMishaps' \in 0..LabelMishaps
    BY <1>1, <2>2 DEF LabelsRest
  <2>4. slipped' \subseteq 1..MaxClock
    BY <1>3, <2>1 DEF LabelsRest
  <2> QED BY <2>1, <2>3, <2>4 DEF LabelsRest
<1>11. ASSUME NEW u \in Articles, NEW v, Bl!PageVote(u, v) \/ Bl!Clean(u) \/ Bl!Restore(u)
       PROVE  LabelsRest'
  BY <1>11 DEF Bl!PageVote, Bl!Clean, Bl!Restore, Bl!draws, LabelsRest
<1>12. ASSUME NEW c \in lateLabels, Bl!LateRuns(c) PROVE LabelsRest'
  <2>1. c.at \in Nat /\ c.at >= 1 /\ \A s \in sample : s.at \in 0..MaxClock
    BY DEF LabelsInv, LabelsTyped, Latecomers, Sampled
  <2>2. Bl!Overtaken(c) \subseteq 1..MaxClock
    BY <1>1, <2>1 DEF Bl!Overtaken
  <2> QED BY <1>12, <2>2 DEF Bl!LateRuns, Bl!draws, LabelsRest
<1> QED BY <1>4, <1>5, <1>6, <1>7, <1>8, <1>9, <1>10, <1>11, <1>12 DEF Bl!Next

LEMMA LabelsTypes ==
  ASSUME LabelsInv, LabelsRest
  PROVE  Bl!TypeOK
<1>1. press.pc \in {"idle", "record", "vote", "release"}
  BY DEF LabelsInv, LabelsTyped, Bl!Idle
<1> QED BY <1>1 DEF LabelsInv, LabelsTyped, NothingIsAhead, LabelsRest, Sampled, Rows, Bl!TypeOK

LEMMA AreasTypes ==
  ASSUME AreasInv
  PROVE  Ar!TypeOK
<1>1. DOMAIN named = DOMAIN areas /\ DOMAIN ruled = DOMAIN areas
  BY DEF AreasInv, AreasTyped
<1>2. \A i \in DOMAIN areas : areas[i] \in AreaRows
  BY DEF AreasInv, AreasTyped
<1>3. \A i \in DOMAIN areas :
       /\ areas[i].name \in MCNames
       /\ areas[i].status \in {"proposed", "active", "dismissed", "merged"}
       /\ areas[i].into \in Ar!Ids \cup {Ar!NoArea} /\ areas[i].last \in 0..Runs
  BY <1>2 DEF AreaRows, Ar!NoArea
<1> QED BY <1>1, <1>3 DEF AreasInv, AreasTyped, Ar!TypeOK, Ar!NoArea

LEMMA NextCardsRest ==
  ASSUME CardsInv, CardsRest, [Oc!Next]_ofCards
  PROVE  CardsRest'
<1>1. sent \in Nat /\ saving \subseteq SaveOut
  BY DEF CardsInv, CardsTyped
<1>2. ASSUME UNCHANGED saving PROVE CardsRest'
  BY <1>2 DEF CardsRest
<1>3. ASSUME saving' \subseteq saving PROVE CardsRest'
  BY <1>3 DEF CardsRest
<1>4. ASSUME NEW id \in {-1, sent + 1}, NEW picked, saving' = saving \cup {Oc!Save(id, picked)}
      PROVE  CardsRest'
  BY <1>1, <1>4 DEF CardsRest, Oc!Save
<1>5. ASSUME NEW s \in saving, NEW rest, rest.id = s.id, saving' = (saving \ {s}) \cup {rest}
      PROVE  CardsRest'
  BY <1>5 DEF CardsRest
<1>6. ASSUME Oc!Reload PROVE saving' \subseteq saving
  BY <1>6 DEF Oc!Reload
<1>7. ASSUME NEW picked, Oc!NextSources(picked) PROVE CardsRest'
  BY <1>4, <1>7 DEF Oc!NextSources, Oc!SavingSources
<1>8. ASSUME Oc!NextVotes PROVE CardsRest'
  BY <1>4, <1>8 DEF Oc!NextVotes
<1>9. ASSUME NEW s \in saving, NEW f, NEW fate, Oc!PostSource(s, f, fate) PROVE CardsRest'
  <2>1. s \in SaveOut
    BY <1>1
  <2>2. PICK rest \in {[s EXCEPT !.left = @ \ {f}, !.failed = TRUE],
                       [s EXCEPT !.left = @ \ {f}, !.added = @ \cup {f}]} :
          saving' = (saving \ {s}) \cup {rest}
    BY <1>9 DEF Oc!PostSource, Oc!Saved
  <2>3. rest.id = s.id
    BY <2>1, <2>2 DEF SaveOut
  <2> QED BY <1>5, <2>2, <2>3
<1>10. ASSUME NEW s, Oc!SourcesSaved(s) \/ Oc!AnswerLost(s) PROVE saving' \subseteq saving
  BY <1>10 DEF Oc!SourcesSaved, Oc!AnswerLost
<1>11. ASSUME NEW p, Oc!PostAnswered(p) PROVE saving' \subseteq saving
  BY <1>11 DEF Oc!PostAnswered
<1>12. ASSUME NEW s, Oc!Go(s) PROVE UNCHANGED saving
  BY <1>12 DEF Oc!Go
<1>13. ASSUME NEW f, Oc!StrayLands(f) PROVE UNCHANGED saving
  BY <1>13 DEF Oc!StrayLands
<1>14. ASSUME Oc!DealReads \/ Oc!DealAnswers \/ Oc!DealFails PROVE UNCHANGED saving
  BY <1>14 DEF Oc!DealReads, Oc!DealAnswers, Oc!DealFails, Oc!form
<1>15. ASSUME NEW f, NEW v, Oc!Press(f, v) PROVE UNCHANGED saving
  BY <1>15 DEF Oc!Press, Oc!form
<1>16. ASSUME NEW p, Oc!PostWrites(p) PROVE UNCHANGED saving
  BY <1>16 DEF Oc!PostWrites, Oc!form
<1>17. CASE UNCHANGED ofCards
  BY <1>2, <1>17 DEF ofCards
<1> QED BY <1>2, <1>3, <1>6, <1>7, <1>8, <1>9, <1>10, <1>11, <1>12, <1>13, <1>14, <1>15, <1>16, <1>17
        DEF Oc!Next

LEMMA CardsTypes ==
  ASSUME CardsInv, CardsRest
  PROVE  Oc!TypeOK
<1>1. \A s \in saving : s.id \in -1..sent /\ s.left \cup s.added \subseteq Feeds
  BY DEF CardsInv, CardsTyped, CardsRest, SaveOut
<1>2. DOMAIN cards \subseteq Feeds /\ \A u \in DOMAIN cards : cards[u] \in ShownCard
  BY CardFacts DEF CardsInv
<1>3. Oc!IsInjective([q \in cardPosts |-> q.id])
  BY DEF CardsInv, CardsTyped, Oc!IsInjective
<1>4. \A u \in DOMAIN cards :
       cards[u].vote \in Oc!Votes \cup {Oc!Untouched} /\ cards[u].state \in {"open", "recorded", "gone"}
  BY <1>2 DEF ShownCard, Oc!Untouched
<1> QED BY <1>1, <1>2, <1>3, <1>4 DEF CardsInv, CardsTyped, PageTyped, Oc!TypeOK

LEMMA InitRest ==
  ASSUME ReaderInit
  PROVE  FormsRest /\ LabelsRest /\ CardsRest
<1>1. FormsRest
  <2>1. values = settings /\ cut = {} /\ besides = FALSE
    BY DEF ReaderInit, Sf!Init
  <2>2. settings \in Tables
    BY InitForms DEF ReaderInit, FormsInv, FormsTyped
  <2> QED BY <2>1, <2>2 DEF FormsRest
<1>2. LabelsRest
  <2>1. labelMishaps = 0 /\ redrawn = FALSE /\ slipped = {}
    BY DEF ReaderInit, Bl!Init
  <2>2. 0 \in 0..LabelMishaps
    BY LabelsAssumption
  <2> QED BY <2>1, <2>2 DEF LabelsRest
<1>3. CardsRest
  BY DEF ReaderInit, Oc!Init, CardsRest
<1> QED BY <1>1, <1>2, <1>3

LEMMA VoteSteps ==
  ASSUME [ReaderNext]_all
  PROVE  [Next]_vars /\ UNCHANGED part
<1>1. CASE OfVotes /\ Next
  BY <1>1 DEF OfVotes
<1>2. CASE OfLabels \/ OfAreas \/ OfForms \/ OfCards
  BY <1>2 DEF OfLabels, OfAreas, OfForms, OfCards
<1>3. CASE UNCHANGED all
  BY <1>3 DEF all
<1> QED BY <1>1, <1>2, <1>3 DEF ReaderNext

(* Every variable of the five parts has the values its code gives it. *)
THEOREM ReaderIsTyped == ReaderSpec => []ReaderTypeOK
<1> DEFINE PartIs == part \in {"votes", "labels", "areas", "forms", "cards"}
           Typed == /\ PartIs /\ TypeOK
                    /\ FormsInv /\ FormsRest
                    /\ LabelsInv /\ LabelsRest
                    /\ AreasInv
                    /\ CardsInv /\ CardsRest
<1>1. ReaderInit => Typed
  BY InitType, InitForms, InitLabels, InitAreas, InitCards, InitRest DEF ReaderInit
<1>2. Typed /\ [ReaderNext]_all => Typed'
  <2> SUFFICES ASSUME Typed, [ReaderNext]_all PROVE Typed'
    OBVIOUS
  <2>1. PartIs' /\ TypeOK'
    BY VoteSteps, NextType
  <2>2. FormsInv' /\ FormsRest'
    BY PartSteps, NextForms, NextFormsRest
  <2>3. LabelsInv' /\ LabelsRest'
    BY PartSteps, NextLabels, NextLabelsRest
  <2>4. AreasInv'
    BY PartSteps, NextAreas, SameAreas
  <2>5. CardsInv' /\ CardsRest'
    BY PartSteps, NextCards, SameCards, NextCardsRest
  <2> QED BY <2>1, <2>2, <2>3, <2>4, <2>5
<1>3. Typed => ReaderTypeOK
  <2> SUFFICES ASSUME Typed PROVE ReaderTypeOK
    OBVIOUS
  <2>1. Sf!TypeOK /\ Bl!TypeOK
    BY FormsTypes, LabelsTypes
  <2>2. Ar!TypeOK /\ Oc!TypeOK
    BY AreasTypes, CardsTypes
  <2>3. PartIs /\ TypeOK
    OBVIOUS
  <2> HIDE DEF Typed
  <2> QED BY <2>1, <2>2, <2>3, Zenon DEF ReaderTypeOK
<1> QED BY <1>1, <1>2, <1>3, PTL DEF ReaderSpec
=============================================================================
