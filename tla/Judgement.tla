-------------------------------- MODULE Judgement --------------------------------
(***************************************************************************)
(* What a run promises of the articles it loaded, whatever the models      *)
(* answer: one step gives each its verdict.  A skim-lane article is shown  *)
(* or rejected, a followed one is shown, a read-lane one is shown or stays *)
(* pending for the next run of its window.                                 *)
(***************************************************************************)
EXTENDS Naturals

CONSTANT Positions

VARIABLES lane, verdict

Allowed(l) ==
  CASE l \in {"news", "skim"} -> {"accepted", "rejected"}
    [] l = "read"             -> {"accepted", "pending"}
    [] l = "follow"           -> {"accepted"}

Init ==
  /\ lane \in [Positions -> {"news", "skim", "read", "follow"}]
  /\ verdict = [p \in Positions |-> "pending"]

Judge ==
  \E v \in [Positions -> {"accepted", "rejected", "pending"}] :
    /\ \A p \in Positions : v[p] \in Allowed(lane[p])
    /\ verdict = [p \in Positions |-> "pending"]
    /\ verdict' = v
    /\ UNCHANGED lane

Spec == Init /\ [][Judge]_<<lane, verdict>>
=============================================================================
