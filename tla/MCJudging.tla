------------------------------ MODULE MCJudging ------------------------------
(***************************************************************************)
(* What a run makes of its articles, for TLC: the page the models write    *)
(* (DigestPipeline), the holds the reader's votes put on articles          *)
(* (VoteHolds), and the records kept beside the issue (IssueRecords).      *)
(* Each is checked on its own state: a behaviour is one of `part`, and the *)
(* others do not begin.                                                    *)
(***************************************************************************)
EXTENDS DigestPipeline

CONSTANTS Articles, Horizon, Window, Clock, Misreads,
          Urls, Issues, Entries, Savers, Saves

(* Hours and days are natural numbers, and issue 0 stands for none. *)
ASSUME HoursAssumption == Horizon \in Nat /\ Clock \in Nat
ASSUME BoundsAssumption == Misreads \in Nat /\ Entries \in Nat /\ Saves \in Nat
ASSUME IssuesAssumption == 0 \notin Issues

Nws == <<"news", "g">>
Skm == <<"skim", "g">>
Rdg == <<"read", "g">>
Rdh == <<"read", "h">>
Flw == <<"follow", "g">>

(* The mixtures of lanes in which the stages meet: news beside the skim    *)
(* lane they fall back to, one and two groups of the read lane, and the    *)
(* follow lane, which nothing judges.                                      *)
MCInputs == {<<Nws, Nws, Skm>>, <<Nws, Skm, Skm>>, <<Nws, Nws, Nws>>,
             <<Rdg, Rdg, Rdh>>, <<Rdg, Rdg, Rdg>>,
             <<Nws, Rdg, Flw>>, <<Skm, Rdg, Flw>>}

(* The reader's articles, the records' articles and the savers are alike.  *)
MCSymmetry == Permutations(Articles) \cup Permutations(Urls) \cup Permutations(Savers)

VARIABLES part,
          now, fresh, state, voted, holds, inputs, turn, rerun, began, pending,
          flagged, dropped, misread, misreads, decided, live, doubled,
          stories, storyMembers, topics, members, votes, saver, saves, saved, crossed

Vh == INSTANCE VoteHolds WITH pc <- turn
Ir == INSTANCE IssueRecords

ofHolds == <<now, fresh, state, voted, holds, inputs, turn, rerun, began, pending,
             flagged, dropped, misread, misreads, decided, live, doubled>>
ofRecords == <<stories, storyMembers, topics, members, votes, saver, saves, saved, crossed>>
all == <<part, vars, ofHolds, ofRecords>>

JudgingInit ==
  /\ part \in {"page", "holds", "records"}
  /\ Init /\ Vh!Init /\ Ir!Init
  /\ part # "page" => client /\ lane = [p \in Positions |-> "news"]

JudgingNext ==
  \/ part = "page" /\ Next /\ UNCHANGED <<part, ofHolds, ofRecords>>
  \/ part = "holds" /\ Vh!Next /\ UNCHANGED <<part, vars, ofRecords>>
  \/ part = "records" /\ Ir!Next /\ UNCHANGED <<part, vars, ofHolds>>

JudgingSpec == JudgingInit /\ [][JudgingNext]_all

-----------------------------------------------------------------------------
(* Every variable of the part has the values its code gives it.            *)
JudgingTypeOK ==
  CASE part = "page" -> TypeOK [] part = "holds" -> Vh!TypeOK [] part = "records" -> Ir!TypeOK

(* An article has one hold at a time (suppressions.py, `active`), and one  *)
(* the reader has decided is not dropped (LIVE_HOLD_WHERE).                *)
HoldsKeepToVotes ==
  part = "holds" => Vh!OneClock /\ Vh!DecidedIsNotDropped

(* A held article goes into no issue (run_digest.py, "Read after judging").*)
HeldStaysOut == Vh!HeldStaysOut

(* A vote finds one topic and keeps it (topics.py, topics_of_urls).        *)
VoteFindsItsTopic == part = "records" => Ir!VoteFindsItsTopic

(* A failed save does not empty the issue's records (topics.py, stories.py)*)
IssueKeepsTopics == Ir!IssueKeepsTopics
=============================================================================
