------------------------------ MODULE NewsletterQueue ------------------------------
(***************************************************************************)
(* The way of a forwarded newsletter into the article store: the Email     *)
(* Worker keeps it in KV (workers/newsletter/src/index.js), a digest run   *)
(* pulls the queue, builds articles and acknowledges what it pulled        *)
(* (newsletter_worker_source.py), merges them with the RSS articles of the *)
(* window (fetching.py) and saves them (d1_store.py with                   *)
(* newsletter_dedup.py).                                                   *)
(*                                                                         *)
(* A mail is a number, its place in the listing of its key; what it says   *)
(* is fixed but arbitrary.  Its article's id is its source and subject, as *)
(* `_generate_article_id` hashes them, and its URL the canonical link that *)
(* `newsletter_article` found, or the synthetic one of its id.             *)
(***************************************************************************)
EXTENDS Integers, FiniteSets, SequencesExt

CONSTANTS
  Mails,       \* bound: 1..n
  Sources,     \* newsletter sources
  Subjects,
  Links,       \* canonical links; RSS articles may have them too
  NoLink,      \* of an issue in which no canonical link was found
  Deliveries,  \* bound: deliveries, a mail's repeated ones included
  Runs         \* bound: digest runs

Rss == "an rss source"
Synthetic(id) == <<"newsletter", id>>

VARIABLES
  says,       \* mail -> what it says
  queue,      \* the mails in KV
  deliveries, \* so far
  taken,      \* history: mails delivered at least once
  lost,       \* history: mails a killed run had acknowledged
  displaced,  \* history: issues an RSS article with a link of theirs stood in for
  pc,         \* where the run is
  preview,    \* a dry run, wired with ack=False, which saves nothing
  pulled,     \* the mails of this run
  articles,   \* what `fetch_all_articles` returns
  rows,       \* stored_articles: URL, title and source of each row
  runs

mail == <<says, queue, deliveries, taken>>
run == <<pc, preview, pulled, articles, runs>>
vars == <<mail, lost, displaced, run, rows>>

(* An issue of a source the settings match; "other" stands for a sender    *)
(* nobody matches, a private reply, and a mail that cannot be parsed, all  *)
(* acknowledged and left out.                                              *)
Contents == [kind : {"issue"}, src : Sources, title : Subjects, link : Links \cup {NoLink}]
            \cup {[kind |-> "other"]}

Id(m) == <<says[m].src, says[m].title>>

IssueArticle(m) ==
  [id |-> Id(m), title |-> says[m].title, src |-> says[m].src, newsletter |-> TRUE,
   url |-> IF says[m].link = NoLink THEN Synthetic(Id(m)) ELSE says[m].link]

RssArticle(link) ==
  [id |-> link, title |-> "an rss title", src |-> Rss, newsletter |-> FALSE, url |-> link]

Init ==
  /\ says \in [Mails -> Contents]
  /\ queue = {} /\ deliveries = 0 /\ taken = {} /\ lost = {} /\ displaced = {}
  /\ pc = "idle" /\ preview = FALSE /\ pulled = {} /\ articles = <<>> /\ runs = 0
  /\ rows = {}

-----------------------------------------------------------------------------
(* The Worker. *)

(* `email()`: a copy delivered again overwrites its key. *)
Deliver(m) ==
  /\ deliveries < Deliveries
  /\ deliveries' = deliveries + 1
  /\ queue' = queue \cup {m}
  /\ taken' = taken \cup {m}
  /\ UNCHANGED <<says, lost, displaced, run, rows>>

-----------------------------------------------------------------------------
(* `fetch_all_articles`. *)

(* Python's d[a.key] = a, which keeps the place of a key it holds. *)
Put(dict, a, key) ==
  IF \E i \in DOMAIN dict : dict[i][key] = a[key]
  THEN [i \in DOMAIN dict |-> IF dict[i][key] = a[key] THEN a ELSE dict[i]]
  ELSE Append(dict, a)

(* Mutant: of two issues with one URL the last wins, as for RSS. *)
MergeLastWins(st, a) == [byUrl |-> Put(st.byUrl, a, "url"), siblings |-> st.siblings]

(* The last article with a URL wins, but a newsletter does not replace     *)
(* another issue with its URL: it is kept beside it.                       *)
Merge(st, a) ==
  IF \E i \in DOMAIN st.byUrl :
       st.byUrl[i].url = a.url /\ st.byUrl[i].id # a.id /\ st.byUrl[i].newsletter /\ a.newsletter
  THEN [st EXCEPT !.siblings = Put(@, a, "id")]
  ELSE [byUrl |-> Put(st.byUrl, a, "url"),
        siblings |-> RemoveFirstMatch(st.siblings, LAMBDA b : b.id = a.id)]

Merged(fetched) ==
  LET st == FoldLeft(Merge, [byUrl |-> <<>>, siblings |-> <<>>], fetched)
  IN st.byUrl \o st.siblings

Issues(S) == {m \in S : says[m].kind = "issue"}
InOrder(S) == CHOOSE s \in SetToSeqs(S) : \A i, j \in DOMAIN s : i < j => s[i] < s[j]

(* The newsletters come first, then the buffer's articles.                 *)
Fetched(S, L) ==
  LET issues == InOrder(Issues(S)) links == SetToSeq(L)
  IN [i \in DOMAIN issues |-> IssueArticle(issues[i])]
     \o [i \in DOMAIN links |-> RssArticle(links[i])]

(* An RSS article of the fetch has the link of some copy of the issue.     *)
(* The one that is left out may be another copy: when a copy takes a link  *)
(* of its own, the sibling kept for the issue is given up for it.          *)
Displaced(S, L) ==
  {m \in Issues(S) : \E c \in Issues(S) : Id(c) = Id(m) /\ says[c].link \in L}

(* GET /newsletters and the buffer's read; either may have failed.         *)
Pull ==
  \E S \in {queue, {}}, L \in SUBSET Links, dry \in BOOLEAN :
    /\ pc = "idle"
    /\ runs < Runs
    /\ runs' = runs + 1
    /\ pc' = "ack"
    /\ preview' = dry
    /\ pulled' = S
    /\ articles' = Merged(Fetched(S, L))
    /\ displaced' = displaced \cup Displaced(S, L)
    /\ UNCHANGED <<mail, lost, rows>>

(* POST /ack deletes each id by itself; its failure is logged, and a       *)
(* preview sends none.  The save comes after.                              *)
Ack ==
  /\ pc = "ack"
  /\ pc' = "save"
  /\ \E gone \in (IF preview THEN {{}} ELSE SUBSET pulled) : queue' = queue \ gone
  /\ UNCHANGED <<says, deliveries, taken, lost, displaced, preview, pulled, articles, runs, rows>>

-----------------------------------------------------------------------------
(* `save`. *)

Holder(held, url) == CHOOSE r \in held : r.url = url
Holds(held, url) == \E r \in held : r.url = url

(* `resolve_stored_url`: the URL to store the article under, if any. *)
Resolved(held, a) ==
  IF ~Holds(held, a.url) THEN {a.url}
  ELSE IF \/ ~a.newsletter
          \/ Holder(held, a.url).src # a.src
          \/ Holder(held, a.url).title = a.title
       THEN {}
  ELSE {Synthetic(a.id)} \ {r.url : r \in held}

Inserted(held, a) ==
  held \cup {[url |-> u, title |-> a.title, src |-> a.src] : u \in Resolved(held, a)}

(* The run is over; what it had acknowledged and neither stored nor left   *)
(* queued is lost when it did not get through its save.                    *)
End(savedAll) ==
  /\ pc' = "idle" /\ preview' = FALSE /\ pulled' = {} /\ articles' = <<>>
  /\ lost' = IF savedAll \/ preview THEN lost ELSE lost \cup (pulled \ queue)
  /\ UNCHANGED <<mail, displaced, runs>>

Save ==
  /\ pc = "save"
  /\ rows' = IF preview THEN rows ELSE FoldLeft(Inserted, rows, articles)
  /\ End(TRUE)

(* A kill or a failed statement: the statements before it stand. *)
SaveStops ==
  \E n \in 0..Len(articles) :
    /\ pc \in {"ack", "save"}
    /\ pc = "ack" \/ preview => n = 0
    /\ rows' = FoldLeft(Inserted, rows, SubSeq(articles, 1, n))
    /\ End(FALSE)

Next ==
  \/ \E m \in Mails : Deliver(m)
  \/ Pull \/ Ack \/ Save \/ SaveStops

Spec == Init /\ [][Next]_vars

-----------------------------------------------------------------------------
TypeOK ==
  /\ says \in [Mails -> Contents]
  /\ queue \subseteq taken /\ taken \subseteq Mails /\ lost \subseteq taken /\ displaced \subseteq taken
  /\ pulled \subseteq taken
  /\ deliveries \in 0..Deliveries /\ runs \in 0..Runs
  /\ pc \in {"idle", "ack", "save"}
  /\ preview \in BOOLEAN

HasRow(m) == \E r \in rows : r.src = says[m].src /\ r.title = says[m].title

(* Some copy of the issue has a link that another source's row holds. *)
HeldElsewhere(m) ==
  \E c \in Issues(taken), r \in rows :
    Id(c) = Id(m) /\ r.url = says[c].link /\ r.src # says[m].src

Accounted(m) == m \in queue \cup pulled \cup lost \/ HasRow(m) \/ HeldElsewhere(m)

(* An issue that came in is queued, under way, or stored, whatever link it *)
(* shares with other issues and however often it is delivered or pulled;   *)
(* it is left out only when another source's row holds its link, when an   *)
(* RSS article of the same fetch has the link of a copy of it, and lost    *)
(* only with a run that stops between the ACK and the end of its save      *)
(* (newsletter_worker_source.py, fetch_articles; newsletter_dedup.py).     *)
NoIssueIsSwallowed == \A m \in Issues(taken) \ displaced : Accounted(m)

(* "A sender's repeated nav link must not swallow an issue before the      *)
(* store, which decides how to key the second one" (fetching.py): not when *)
(* an RSS article of the same fetch has the link either.                   *)
RepeatedLinkKeepsIssues == \A m \in Issues(taken) : Accounted(m)

(* An issue is stored once: pulling it again after a lost ACK, or getting  *)
(* it again under its own link, adds no row.                               *)
OneRowPerIssue ==
  \A m \in Issues(taken) :
    Cardinality({r \in rows : r.src = says[m].src /\ r.title = says[m].title})
      <= Cardinality({says[c].link : c \in {x \in Issues(taken) : Id(x) = Id(m)}})

(* Delivered at least once, each issue is stored exactly once, but for the *)
(* exceptions above.                                                       *)
EachIssueOnce == NoIssueIsSwallowed /\ OneRowPerIssue
=============================================================================
