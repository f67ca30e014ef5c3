------------------------------- MODULE D1Calls -------------------------------
(***************************************************************************)
(* What becomes of one statement that `D1Client.query` sends               *)
(* (adapters/store/d1.py).  `_post_with_retries` sends it again when no    *)
(* answer comes or the answer is a 5xx, at most MAX_ATTEMPTS times, and    *)
(* knows nothing of what the copies before did:                            *)
(*   done     the statement ran and its answer came                        *)
(*   resent   it ran, its answer was lost, it ran again and was answered   *)
(*   late     its answer was slow, a copy ran and was answered, and the    *)
(*            first one is still to run                                    *)
(*   silent   it ran and no answer came to any attempt: `query` raises     *)
(*   refused  it did not run: `query` raises                               *)
(***************************************************************************)
Fates == {"done", "resent", "late", "silent", "refused"}

Ran(fate) == fate # "refused"
Raises(fate) == fate \in {"silent", "refused"}
=============================================================================
