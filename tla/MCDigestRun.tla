------------------------------- MODULE MCDigestRun -------------------------------
(* Instances of DigestRun for TLC. *)
EXTENDS DigestRun

(* Two articles: enough for a verdict to take two statements and for two   *)
(* issues to share an article.                                             *)
MCTwoArticles == 1..2

(* Three: one more than the cap lets into a run. *)
MCThreeArticles == 1..3
=============================================================================
