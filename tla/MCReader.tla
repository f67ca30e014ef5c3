------------------------------- MODULE MCReader -------------------------------
(***************************************************************************)
(* What the reader does, for TLC: votes on the published pages (VoteSync), *)
(* answers of the blind labels (BlindLabels), decisions on areas (Areas),  *)
(* the probed forms of the settings page (SettingsForms) and the votes of  *)
(* the onboarding wizard (OnboardingCards).  Each is checked on its own    *)
(* state: a behaviour is one of `part`, and the others do not begin.       *)
(***************************************************************************)
EXTENDS VoteSync, TLC

CONSTANTS
  a, b, t,                                       \* VoteSync
  Articles, Drawers, MaxClock, LabelMishaps,     \* BlindLabels
  e, ee, y, o,                                   \* Areas
  Unplaced, SourceNames, Runs, MaxAreas, MaxAsked, Acts,
  Providers, Models, Efforts, Embedders, Saves,  \* SettingsForms
  Feeds, Sends, Presses, Out,                \* OnboardingCards
  Mishaps

(* A topic's group on the digest page, and one of its articles on the raw  *)
(* page: a click posts twice, or once on the same topic.                   *)
MCGroups == {{a, b}, {b}}
MCHeld == {a, b}
MCTopics == {t}
MCTopicOf == [u \in {a, b} |-> t]

(* Two spellings of one name, another name, and the page's own label. *)
MCNames == {e, ee, y, o}
MCFold == (e :> 1) @@ (ee :> 1) @@ (y :> 2) @@ (o :> 3)

(* The articles of the labels and the feeds of the wizard are alike. *)
MCSymmetry == Permutations(Articles) \cup Permutations(Feeds)

VARIABLES part,
  clock, sample, labelled, drawer, press, lateLabels, labelMishaps, landed, redrawn, slipped,
  areas, source, run, asked, rename, bulk, acts, areaMishaps, named, ruled, crossed,
    repeated,
  settings, values, probing, storing, lateKeys, tested, cut, besides, overtaken, saves,
    formMishaps,
  table, article, step, added, ready, saving, stray, deal, cards, dealt, cardPosts,
    sent, presses, cardMishaps, from, unseen, flipped, writer, outrun

ASSUME LabelsAssumption == MaxClock \in Nat /\ LabelMishaps \in Nat
ASSUME AreasAssumption ==
  Runs \in Nat /\ MaxAreas \in Nat /\ Mishaps \in Nat /\ {"idle", "names"} \cap MCNames = {}

Bl == INSTANCE BlindLabels WITH row <- labelled, late <- lateLabels, mishaps <- labelMishaps,
        crossed <- redrawn, Mishaps <- LabelMishaps
Ar == INSTANCE Areas WITH Names <- MCNames, Fold <- MCFold, mishaps <- areaMishaps
Sf == INSTANCE SettingsForms WITH table <- settings, late <- lateKeys, crossed <- besides,
        mishaps <- formMishaps
Oc == INSTANCE OnboardingCards WITH row <- article, posts <- cardPosts, mishaps <- cardMishaps,
        overtaken <- outrun

ofLabels == <<clock, sample, labelled, drawer, press, lateLabels, labelMishaps, landed, redrawn,
              slipped>>
ofAreas == <<areas, source, run, asked, rename, bulk, acts, areaMishaps, named, ruled, crossed,
             repeated>>
ofForms == <<settings, values, probing, storing, lateKeys, tested, cut, besides, overtaken, saves,
             formMishaps>>
ofCards == <<table, article, step, added, ready, saving, stray, deal, cards, dealt,
             cardPosts, sent, presses, cardMishaps, from, unseen, flipped, writer, outrun>>
all == <<part, vars, ofLabels, ofAreas, ofForms, ofCards>>

ReaderInit ==
  /\ part \in {"votes", "labels", "areas", "forms", "cards"}
  /\ Init /\ Bl!Init /\ Ar!Init /\ Sf!Init /\ Oc!Init

OfVotes  == part = "votes" /\ UNCHANGED <<part, ofLabels, ofAreas, ofForms, ofCards>>
OfLabels == part = "labels" /\ UNCHANGED <<part, vars, ofAreas, ofForms, ofCards>>
OfAreas  == part = "areas" /\ UNCHANGED <<part, vars, ofLabels, ofForms, ofCards>>
OfForms  == part = "forms" /\ UNCHANGED <<part, vars, ofLabels, ofAreas, ofCards>>
OfCards  == part = "cards" /\ UNCHANGED <<part, vars, ofLabels, ofAreas, ofForms>>

ReaderNext ==
  \/ OfVotes /\ Next
  \/ OfLabels /\ Bl!Next
  \/ OfAreas /\ Ar!Next
  \/ OfForms /\ Sf!Next
  \/ OfCards /\ Oc!Next

ReaderSpec == ReaderInit /\ [][ReaderNext]_all
-----------------------------------------------------------------------------
(* Every variable of the five parts has the values its code gives it. *)
ReaderTypeOK ==
  CASE part = "votes" -> TypeOK
    [] part = "labels" -> Bl!TypeOK
    [] part = "areas" -> Ar!TypeOK
    [] part = "forms" -> Sf!TypeOK
    [] part = "cards" -> Oc!TypeOK

(* The sample of blind labels is whole, and what it keeps as answered has  *)
(* its vote (replace_sample, _handle_post_label).                          *)
LabelsStand == part = "labels" => Bl!SampleIsWhole /\ Bl!LabelHasItsVote

(* A name of an area is one row, means what the reader decided on it,      *)
(* leads to an area the page shows, and counts a run once                  *)
(* (record_proposals, merge, _handle_bulk_assign).                         *)
AreasAgree == part = "areas" => Ar!AreasAgree

(* A run finds no model and no embedder that did not answer a call         *)
(* (_handle_post_settings, _handle_post_values, _handle_post_vote).        *)
RunMeetsTested == part = "forms" => Sf!RunMeetsTested

(* The wizard shows as recorded what was written, and as dealt what the    *)
(* table's feeds dealt (onboarding.js).                                    *)
CardsTellTrue == part = "cards" => Oc!CardsTellTrue
=============================================================================
