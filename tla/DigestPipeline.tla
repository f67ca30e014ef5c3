----------------------------- MODULE DigestPipeline -----------------------------
(***************************************************************************)
(* How a run makes an issue of the articles it loaded: scoring             *)
(* (service_layer/scoring.py), clustering of the news (cluster_news.py),   *)
(* the filter of the rest of the skim lane (filtering.py), the summaries   *)
(* of the read lane (summarize.py), the layout (domain/selection.py), and  *)
(* the verdicts (digest_pipeline.py, run_digest.py).                       *)
(*                                                                         *)
(* An article is its position in the run's list.  A model answers what it  *)
(* likes: positions twice, positions of no article (Unknown), too few, a   *)
(* reply that is no object of the expected shape, or nothing at all.       *)
(***************************************************************************)
EXTENDS Integers, FiniteSets, SequencesExt

CONSTANTS
  Count,      \* articles of the run
  Inputs,     \* bound: the lanes and groups the articles may have
  Groups,     \* first tags of the read lane, sources of the follow lane
  BatchSize,  \* BATCH_SIZE of scoring.py and filtering.py
  MaxScore,   \* scores are 1..MaxScore
  Threshold,  \* featured_threshold
  MaxParts,   \* bound: clusters, or sections, of one reply
  MaxNamed    \* bound: articles one of them names

Positions == 1..Count
Lanes == {"news", "skim", "read", "follow"}

ASSUME InputsAssumption == Inputs \subseteq [Positions -> Lanes \X Groups]
ASSUME SizesAssumption ==
  Count \in Nat /\ BatchSize \in Nat /\ MaxScore \in Nat /\ MaxParts \in Nat /\ MaxNamed \in Nat

Unknown == 0
NoScore == 0

VARIABLES
  lane, group,   \* position -> "news" (skim lane), "skim", "read" or "follow"; its group
  client,        \* an LLM client was built
  pc,
  todo,          \* what the stage has still to send: positions, or groups
  score,         \* position -> its score or NoScore
  clusters,      \* of news: each the positions its reply names
  headlines,     \* of the filter: position or Unknown
  sections,      \* of the read lane: positions, and if the model summed the group up
  featured,      \* the Top story, then the Features
  judged,        \* history: articles of the filter calls that were answered
  verdict        \* position -> the state `update_states` writes, or pending

input == <<lane, group, client>>
shown == <<clusters, headlines, sections, featured>>
vars == <<input, pc, todo, score, shown, judged, verdict>>

(* Articles in the order of the run's list. *)
Listed(S) == CHOOSE s \in SetToSeqs(S) : \A i, j \in DOMAIN s : i < j => s[i] < s[j]

OfLane(L) == {p \in Positions : lane[p] \in L}
InLane(L) == Listed(OfLane(L))

(* The news without the skim lane, the rest of it after. *)
NewsLane == InLane({"news"})
RestLane == InLane({"skim"})

Member(s, x) == x \in Range(s)
Firsts(s, n) == SubSeq(s, 1, IF Len(s) < n THEN Len(s) ELSE n)
After(s, n) == SubSeq(s, n + 1, Len(s))

(* Lists of positions a reply may hold; `echoed_position` and its like     *)
(* drop the positions of no article.                                       *)
Named(S) == SeqOf(S, MaxNamed)

(* The groups of some articles, in the order of the articles. *)
GroupsOf(s) == FoldLeft(LAMBDA seen, p : IF Member(seen, group[p]) THEN seen
                                         ELSE Append(seen, group[p]), <<>>, s)
InGroup(L, g) == {p \in Positions : lane[p] = L /\ group[p] = g}

(* `select_scorable`: not the follow lane, not the news, nothing scored.   *)
Scorable == Listed({p \in OfLane({"skim", "read"}) : score[p] = NoScore})

Init ==
  /\ \E in \in Inputs :
       /\ lane = [p \in Positions |-> in[p][1]]
       /\ group = [p \in Positions |-> in[p][2]]
  /\ client \in BOOLEAN
  /\ pc = "score"
  /\ score = [p \in Positions |-> NoScore]
  /\ todo = Scorable
  /\ clusters = <<>> /\ headlines = <<>> /\ sections = <<>>
  /\ featured = <<>>
  /\ judged = {}
  /\ verdict = [p \in Positions |-> "pending"]

-----------------------------------------------------------------------------
(* `score_in_batches`: a batch that fails costs its own scores, and what   *)
(* the reply does not name stays unscored.  Without a client, none.        *)
ScoreBatch ==
  LET batch == Firsts(todo, BatchSize) IN
  /\ pc = "score" /\ client /\ todo # <<>>
  /\ todo' = After(todo, BatchSize)
  /\ \/ /\ \E s \in [Range(batch) -> 0..MaxScore] :
             score' = [p \in Positions |-> IF Member(batch, p) THEN s[p] ELSE score[p]]
     \/ UNCHANGED score
  /\ UNCHANGED <<input, pc, shown, judged, verdict>>

Scored ==
  /\ pc = "score" /\ (~client \/ todo = <<>>)
  /\ pc' = "cluster"
  /\ todo' = NewsLane
  /\ UNCHANGED <<input, score, shown, judged, verdict>>

-----------------------------------------------------------------------------
(* `cluster_news`: the clusters that name an article; all or nothing of a  *)
(* reply.  What no cluster took goes on to the filter, behind the rest of  *)
(* the skim lane.                                                          *)
Clustered(cs) == UNION {Range(cs[i]) : i \in DOMAIN cs}

(* Mutant: the articles the reply lists as unclustered go on, no others. *)
LeftOverAsListed(cs) == IF cs = <<>> THEN NewsLane ELSE <<>>

LeftOver(cs) == Listed(OfLane({"news"}) \ Clustered(cs))

Cluster ==
  /\ pc = "cluster"
  /\ pc' = "filter"
  /\ \E cs \in (IF client THEN SeqOf(Named(OfLane({"news"})) \ {<<>>}, MaxParts) ELSE {<<>>}) :
       /\ clusters' = cs
       /\ todo' = RestLane \o LeftOver(cs)
  /\ UNCHANGED <<input, score, headlines, sections, featured, judged, verdict>>

-----------------------------------------------------------------------------
(* `filter_articles`, a batch at a time.  A call that fails keeps its      *)
(* batch as excerpts; a reply of another shape is read outside the guard   *)
(* and ends the run.                                                       *)
FilterFallsBack(batch) ==
  /\ headlines' = headlines \o batch
  /\ UNCHANGED <<pc, judged>>

FilterSelects(batch) ==
  \E named \in Named(Range(batch) \cup {Unknown}) :
    /\ headlines' = headlines \o named
    /\ judged' = judged \cup Range(batch)
    /\ UNCHANGED pc

FilterRaises ==
  /\ pc' = "raised"
  /\ UNCHANGED <<headlines, judged>>

FilterBatch ==
  LET batch == IF client THEN Firsts(todo, BatchSize) ELSE todo IN
  /\ pc = "filter" /\ todo # <<>>
  /\ todo' = IF client THEN After(todo, BatchSize) ELSE <<>>
  /\ \/ FilterFallsBack(batch)
     \/ client /\ FilterSelects(batch)
     \/ client /\ FilterRaises
  /\ UNCHANGED <<input, score, clusters, sections, featured, verdict>>

Filtered ==
  /\ pc = "filter" /\ todo = <<>>
  /\ pc' = "summarize"
  /\ todo' = GroupsOf(InLane({"read"}))
  /\ UNCHANGED <<input, score, shown, judged, verdict>>

-----------------------------------------------------------------------------
(* `summarize_articles`, a group at a time: a section names articles of    *)
(* its group, each with a summary of its own or, flagged, an excerpt.      *)
Excerpts(g) == [items |-> Listed(InGroup("read", g)), summed |-> FALSE]

SummarizeFallsBack(g) ==
  /\ sections' = Append(sections, Excerpts(g))
  /\ UNCHANGED pc

SummarizeWrites(g) ==
  \E reply \in SeqOf([items : Named(InGroup("read", g)), summed : BOOLEAN], MaxParts) :
    /\ sections' = sections \o reply
    /\ UNCHANGED pc

SummarizeRaises ==
  /\ pc' = "raised"
  /\ UNCHANGED sections

SummarizeGroup ==
  LET g == Head(todo) IN
  /\ pc = "summarize" /\ todo # <<>>
  /\ todo' = Tail(todo)
  /\ \/ SummarizeFallsBack(g)
     \/ client /\ SummarizeWrites(g)
     \/ client /\ SummarizeRaises
  /\ UNCHANGED <<input, score, clusters, headlines, featured, judged, verdict>>

-----------------------------------------------------------------------------
(* `layer_by_score`.  Between the summaries and the layout,                *)
(* `explain_follow_articles` writes texts of the follow lane, any failure  *)
(* of which keeps an excerpt.                                              *)

Best(S) == CHOOSE s \in {score[p] : p \in S} : \A p \in S : score[p] <= s

IsGroup(sec) ==
  /\ sec.summed
  /\ Cardinality({i \in DOMAIN sec.items :
                    score[sec.items[i]] # NoScore /\ score[sec.items[i]] >= Threshold}) >= 2

TheGroups == {i \in DOMAIN sections : IsGroup(sections[i])}

(* The first of the groups that hold the best article of any. *)
Lead ==
  CHOOSE i \in TheGroups :
    \A j \in TheGroups :
      LET bi == Best(Range(sections[i].items)) bj == Best(Range(sections[j].items))
      IN bi > bj \/ (bi = bj /\ i <= j)

InSections == UNION {Range(sections[i].items) : i \in DOMAIN sections}

(* The sections name p before they name q. *)
Sooner(p, q) ==
  \E i \in DOMAIN sections : \E k \in DOMAIN sections[i].items :
    /\ sections[i].items[k] = p
    /\ \A j \in 1..i : \A l \in DOMAIN sections[j].items :
         sections[j].items[l] = q => j = i /\ k < l

(* The best score first, and of equal ones the one named first. *)
Before(p, q) == score[p] > score[q] \/ (score[p] = score[q] /\ Sooner(p, q))
ByScore(S) == CHOOSE s \in SetToSeqs(S) : \A i, j \in DOMAIN s : i < j => Before(s[i], s[j])

(* Each article of the other sections is one card. *)
Cards(s) == [i \in DOMAIN s |-> <<s[i]>>]

Layer ==
  /\ pc = "summarize" /\ todo = <<>>
  /\ pc' = "order"
  /\ featured' = IF TheGroups = {} THEN Cards(ByScore(InSections))
                 ELSE LET lead == sections[Lead].items
                      IN <<lead>> \o Cards(ByScore(InSections \ Range(lead)))
  /\ UNCHANGED <<input, todo, score, clusters, headlines, sections, judged, verdict>>

-----------------------------------------------------------------------------
(* The end of `process`: the verdicts, which run_digest writes.  The       *)
(* preference that comes between orders entries and drops none.            *)
InClusters == Clustered(clusters)
InHeadlines == Range(headlines) \ {Unknown}
InFeatured == UNION {Range(featured[i]) : i \in DOMAIN featured}
Followed == {p \in Positions : lane[p] = "follow"}

(* Mutant: rejected is what the filter did not keep of any lane. *)
RejectedOfAnyLane == Positions \ (InHeadlines \cup InClusters)

Accepted == InClusters \cup InHeadlines \cup InFeatured \cup Followed
Rejected == {p \in Positions : lane[p] \in {"news", "skim"}} \ (InHeadlines \cup InClusters)

Finish ==
  /\ pc = "order"
  /\ pc' = "done"
  /\ verdict' = [p \in Positions |-> IF p \in Rejected THEN "rejected"
                                     ELSE IF p \in Accepted THEN "accepted"
                                     ELSE "pending"]
  /\ UNCHANGED <<input, todo, score, shown, judged>>

Next ==
  \/ ScoreBatch \/ Scored
  \/ Cluster
  \/ FilterBatch \/ Filtered
  \/ SummarizeGroup
  \/ Layer
  \/ Finish

Spec == Init /\ [][Next]_vars

-----------------------------------------------------------------------------
TypeOK ==
  /\ lane \in [Positions -> Lanes]
  /\ group \in [Positions -> Groups]
  /\ client \in BOOLEAN
  /\ pc \in {"score", "cluster", "filter", "summarize", "order", "done", "raised"}
  /\ score \in [Positions -> 0..MaxScore]
  /\ \A i \in DOMAIN clusters : clusters[i] # <<>> /\ Range(clusters[i]) \subseteq Positions
  /\ Range(headlines) \subseteq Positions \cup {Unknown}
  /\ judged \subseteq Positions
  /\ verdict \in [Positions -> {"pending", "accepted", "rejected"}]

(* Whatever the models answer, each article of the run gets the verdict    *)
(* its lane allows, once: no news article falls between the clusters and   *)
(* the filter, no read-lane article is rejected (cluster_news.py, what the *)
(* clusters did not take; digest_pipeline.py, rejected_urls).              *)
Abstract == INSTANCE Judgement
ImplementsJudgement == Abstract!Spec

(* Each article of a finished run has one place.  A model that fails       *)
(* rejects nothing and none is rejected unread: a rejected one was in a    *)
(* call of the filter that was answered, and is nowhere on the page        *)
(* (degrade.py; cluster_news.py, what the reply left out; filtering.py,    *)
(* the guard of each batch).  One the summarizer wrote about is on a card  *)
(* of the issue, and in two only if one section named it twice             *)
(* (selection.py, layer_by_score).                                         *)
OnePlaceEach ==
  /\ \A p \in Positions : verdict[p] = "rejected" =>
       p \in judged \ (InClusters \cup InHeadlines \cup InFeatured)
  /\ pc = "done" =>
       /\ InFeatured = InSections
       /\ \A i, j \in DOMAIN featured : i # j => Range(featured[i]) \cap Range(featured[j]) = {}
=============================================================================
