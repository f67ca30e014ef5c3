------------------------------- MODULE IssueRecords -------------------------------
(***************************************************************************)
(* The rows a run keeps beside its issue: the stories                      *)
(* (adapters/store/stories.py) and the topics with their members           *)
(* (adapters/store/topics.py), statement by statement, for there is no     *)
(* transaction; a rerun saves the issue again.  And the reader's votes on  *)
(* topics, which name a topic by an article in it.                         *)
(*                                                                         *)
(* An issue's page is a list of entries, an entry the set of its articles. *)
(* Its story id and its topic id are made of the issue and that set.       *)
(***************************************************************************)
EXTENDS Integers, FiniteSets, SequencesExt

CONSTANTS
  Urls,
  Issues,    \* bound
  Entries,   \* bound: entries of a page
  Savers,    \* containers whose runs may overlap
  Saves      \* bound; a save's number is also its stamp

Page == SeqOf((SUBSET Urls) \ {{}}, Entries)

VARIABLES
  stories,       \* stories: ids
  storyMembers,  \* story_members: id, url
  topics,        \* topics: ids
  members,       \* topic_members: topic, url, issue, seen
  votes,         \* topic_votes: topic ids
  saver,         \* saver -> where it is, its issue, page and stamp
  saves,         \* so far
  saved,         \* history: issue -> the page of the last save that finished, if it still stands
  crossed        \* history: two saves overlapped

rows == <<stories, storyMembers, topics, members>>
vars == <<rows, votes, saver, saves, saved, crossed>>

Idle == [pc |-> "idle", issue |-> 0, page |-> <<>>, stamp |-> 0]
NoPage == <<{}>>

Init ==
  /\ stories = {} /\ storyMembers = {} /\ topics = {} /\ members = {} /\ votes = {}
  /\ saver = [s \in Savers |-> Idle]
  /\ saves = 0
  /\ saved = [i \in Issues |-> NoPage]
  /\ crossed = FALSE

Id(issue, set) == [issue |-> issue, set |-> set]

(* The entries of two and more articles are the clusters of the page.      *)
StoryIds(sv) == {Id(sv.issue, sv.page[i]) : i \in {j \in DOMAIN sv.page : Cardinality(sv.page[j]) > 1}}

(* `stand_in_topics`: an entry's topic has its articles that no entry      *)
(* before it has, and there is none without one.                           *)
FreshAt(page, i) == page[i] \ UNION {page[j] : j \in 1..(i - 1)}

(* Mutant: an article is in the topic of every entry that shows it. *)
TopicsWithRepeats(sv) ==
  {<<Id(sv.issue, sv.page[i]), sv.page[i]>> : i \in DOMAIN sv.page}

TopicsOf(sv) ==
  {<<Id(sv.issue, sv.page[i]), FreshAt(sv.page, i)>> :
     i \in {j \in DOMAIN sv.page : FreshAt(sv.page, j) # {}}}

TopicIds(sv) == {t[1] : t \in TopicsOf(sv)}

(* The rows of a save: topic, article, issue, the save's stamp. *)
MemberRows(sv) ==
  UNION {{[topic |-> t[1], url |-> u, issue |-> sv.issue, seen |-> sv.stamp] : u \in t[2]} :
           t \in TopicsOf(sv)}

Key(m) == <<m.topic, m.url, m.issue>>

-----------------------------------------------------------------------------
At(s, place) == saver[s].pc = place
Goto(s, place) == saver' = [saver EXCEPT ![s].pc = place]

Save(s) ==
  \E issue \in Issues, page \in Page :
    /\ At(s, "idle") /\ saves < Saves
    /\ \A r \in Savers : saver[r].issue # issue
    /\ saves' = saves + 1
    /\ saver' = [saver EXCEPT ![s] = [pc |-> "stories", issue |-> issue, page |-> page,
                                      stamp |-> saves + 1]]
    /\ saved' = [saved EXCEPT ![issue] = NoPage]
    /\ crossed' = (crossed \/ \E r \in Savers : ~At(r, "idle"))
    /\ UNCHANGED <<rows, votes>>

(* D1StoryStore.save: the story rows, then their members. *)
InsertStories(s) ==
  /\ At(s, "stories") /\ Goto(s, "story_members")
  /\ stories' = stories \cup StoryIds(saver[s])
  /\ UNCHANGED <<storyMembers, topics, members, votes, saves, saved, crossed>>

InsertStoryMembers(s) ==
  /\ At(s, "story_members") /\ Goto(s, "stale_members")
  /\ storyMembers' = storyMembers \cup
       UNION {{id} \X id.set : id \in StoryIds(saver[s])}
  /\ UNCHANGED <<stories, topics, members, votes, saves, saved, crossed>>

Stale(s) == {id \in stories : id.issue = saver[s].issue /\ id \notin StoryIds(saver[s])}

(* Then what is stale, members first: their statement looks the rows up.   *)
DeleteStoryMembers(s) ==
  /\ At(s, "stale_members") /\ Goto(s, "stale_stories")
  /\ storyMembers' = {m \in storyMembers : m[1] \notin Stale(s)}
  /\ UNCHANGED <<stories, topics, members, votes, saves, saved, crossed>>

DeleteStories(s) ==
  /\ At(s, "stale_stories") /\ Goto(s, "topics")
  /\ stories' = stories \ Stale(s)
  /\ UNCHANGED <<storyMembers, topics, members, votes, saves, saved, crossed>>

(* D1TopicStore.save_topics.  The tags go the way of the members. *)
InsertTopics(s) ==
  /\ At(s, "topics") /\ Goto(s, "members")
  /\ topics' = topics \cup TopicIds(saver[s])
  /\ UNCHANGED <<stories, storyMembers, members, votes, saves, saved, crossed>>

InsertMembers(s) ==
  LET new == MemberRows(saver[s]) IN
  /\ At(s, "members") /\ Goto(s, "delete_members")
  /\ members' = {m \in members : Key(m) \notin {Key(n) : n \in new}} \cup new
  /\ UNCHANGED <<stories, storyMembers, topics, votes, saves, saved, crossed>>

(* Mutant: the rows of the issue go first, whatever their stamp. *)
DeleteMembersOfIssue(s) ==
  /\ At(s, "delete_members") /\ Goto(s, "delete_orphans")
  /\ members' = {m \in members : m.issue # saver[s].issue}
  /\ UNCHANGED <<stories, storyMembers, topics, votes, saves, saved, crossed>>

DeleteMembers(s) ==
  /\ At(s, "delete_members") /\ Goto(s, "delete_orphans")
  /\ members' = {m \in members : m.issue # saver[s].issue \/ m.seen = saver[s].stamp}
  /\ UNCHANGED <<stories, storyMembers, topics, votes, saves, saved, crossed>>

Orphans == {t \in topics : t \notin votes /\ \A m \in members : m.topic # t}

DeleteOrphans(s) ==
  /\ At(s, "delete_orphans")
  /\ topics' = topics \ Orphans
  /\ saver' = [saver EXCEPT ![s] = Idle]
  /\ saved' = [saved EXCEPT ![saver[s].issue] = saver[s].page]
  /\ UNCHANGED <<stories, storyMembers, members, votes, saves, crossed>>

(* A statement fails, and the run goes on: after a failed story save with  *)
(* the topics, after a failed topic save without.                          *)
Fails(s) ==
  /\ ~At(s, "idle")
  /\ IF saver[s].pc \in {"stories", "story_members", "stale_members", "stale_stories"}
     THEN Goto(s, "topics")
     ELSE saver' = [saver EXCEPT ![s] = Idle]
  /\ UNCHANGED <<rows, votes, saves, saved, crossed>>

Kill(s) ==
  /\ ~At(s, "idle")
  /\ saver' = [saver EXCEPT ![s] = Idle]
  /\ UNCHANGED <<rows, votes, saves, saved, crossed>>

(* `topics_of_urls`: of the newest row. *)
TopicOfUrl(u) ==
  {m.topic : m \in {x \in members : x.url = u /\ \A y \in members : y.url = u => y.seen <= x.seen}}

(* `record_topic_votes`, while no save is under way in the same run. *)
Vote ==
  \E u \in Urls, s \in Savers :
    /\ At(s, "idle")
    /\ votes' = votes \cup TopicOfUrl(u)
    /\ votes' # votes
    /\ UNCHANGED <<rows, saver, saves, saved, crossed>>

Next ==
  \/ \E s \in Savers :
       \/ Save(s)
       \/ InsertStories(s) \/ InsertStoryMembers(s) \/ DeleteStoryMembers(s) \/ DeleteStories(s)
       \/ InsertTopics(s) \/ InsertMembers(s) \/ DeleteMembers(s) \/ DeleteOrphans(s)
       \/ Fails(s) \/ Kill(s)
  \/ Vote

Spec == Init /\ [][Next]_vars

-----------------------------------------------------------------------------
TypeOK ==
  /\ \A id \in stories \cup topics \cup votes : id.issue \in Issues /\ id.set \subseteq Urls
  /\ \A m \in storyMembers : m[2] \in m[1].set
  /\ \A m \in members : m.url \in m.topic.set /\ m.issue = m.topic.issue /\ m.seen \in 1..saves
  /\ \A s \in Savers : saver[s].page \in Page /\ saver[s].stamp \in 0..saves
  /\ saves \in 0..Saves

MembersOf(issue) == {m \in members : m.issue = issue}
StoriesOf(issue) == {m \in storyMembers : m[1].issue = issue}
InSave(issue) == {s \in Savers : saver[s].issue = issue}

(* A save that fails or is killed part-way never leaves an issue that had  *)
(* topics or stories without any: only the save of a page without entries, *)
(* or without clusters, empties it (topics.py, save_topics; stories.py,    *)
(* save).                                                                  *)
IssueKeepsTopics ==
  [][\A i \in Issues :
       /\ MembersOf(i) # {} /\ MembersOf(i)' = {} =>
            \E s \in InSave(i) : saver[s].page = <<>>
       /\ StoriesOf(i) # {} /\ StoriesOf(i)' = {} =>
            \E s \in InSave(i) : StoryIds(saver[s]) = {}]_vars

(* Once a save of the issue has finished, each of its articles is in one   *)
(* topic, the one its page gave it, whatever earlier saves of the issue    *)
(* left when they failed (topics.py, the deletes by stamp; topics_of_urls).*)
OneTopicPerArticle ==
  \A i \in Issues : saved[i] # NoPage =>
    /\ \A m, n \in MembersOf(i) : m.url = n.url => m = n
    /\ {m.url : m \in MembersOf(i)} = UNION Range(saved[i])

(* A topic the reader voted on keeps its row when reruns leave it without  *)
(* articles, and an article's topic is there to be voted on, unless two    *)
(* saves overlapped, when one takes the other's topics, which have no      *)
(* members yet, for orphans (topics.py, orphan).                           *)
VotedTopicStays ==
  crossed \/ (votes \subseteq topics /\ \A m \in members : m.topic \in topics)

(* A vote on an article of a saved issue finds one topic, and keeps it.    *)
VoteFindsItsTopic == OneTopicPerArticle /\ VotedTopicStays
=============================================================================
