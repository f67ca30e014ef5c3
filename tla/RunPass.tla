------------------------------- MODULE RunPass ------------------------------
(***************************************************************************)
(* One pass of the run container (docker/entrypoint.sh, role run): a       *)
(* probe, `cyris run`, then `cyris promote-sync`, under a shell that is    *)
(* PID 1 and gets the platform's one SIGTERM at any instant.  A trap runs  *)
(* between two commands or ends a `wait`; each step runs in the background *)
(* so that there is a wait to end.                                         *)
(***************************************************************************)
EXTENDS Naturals

VARIABLES at,      \* where the shell is
          step,    \* the step it is in: 1 is cyris run, 2 promote-sync
          child,   \* the shell's variable, 0 when empty
          last,    \* $!, 0 when unset
          status,  \* the shell's variable: what cyris run ended with
          proc,    \* each step's process
          term,    \* the SIGTERM: not sent, pending, or trapped
          code,    \* the exit status of the pass
          cut      \* history: the trap ran before `status` was assigned

vars == <<at, step, child, last, status, proc, term, code, cut>>
-----------------------------------------------------------------------------
Steps == {1, 2}
\* Exit codes: 0, any other of the step's own, and 143.
Codes == {"ok", "failed", "terminated"}
Process == {"unborn", "live", "told"} \cup Codes
Ended(p) == proc[p] \in Codes

TypeOK ==
    /\ at \in {"probe", "before", "spawned", "waiting", "reaped", "trapped", "exited"}
    /\ step \in Steps
    /\ child \in {0} \cup Steps
    /\ last \in {0} \cup Steps
    /\ status \in Codes
    /\ proc \in [Steps -> Process]
    /\ term \in {"unsent", "pending", "trapped"}
    /\ code \in Codes \cup {"none"}
    /\ cut \in BOOLEAN

Init ==
    /\ at = "probe"
    /\ step = 1
    /\ child = 0
    /\ last = 0
    /\ status = "ok"
    /\ proc = [p \in Steps |-> "unborn"]
    /\ term = "unsent"
    /\ code = "none"
    /\ cut = FALSE
-----------------------------------------------------------------------------
(* The shell takes its next command only when no trap is due.              *)
At(place) == at = place /\ term # "pending"

(* The probe is in the foreground: a signal waits for it.                  *)
Probed ==
    /\ at = "probe"
    /\ at' = "before"
    /\ UNCHANGED <<step, child, last, status, proc, term, code, cut>>

(* "$@" &                                                                  *)
Spawn ==
    /\ At("before")
    /\ proc' = [proc EXCEPT ![step] = "live"]
    /\ last' = step
    /\ at' = "spawned"
    /\ UNCHANGED <<step, child, status, term, code, cut>>

(* child=$!                                                                *)
Note ==
    /\ At("spawned")
    /\ child' = last
    /\ at' = "waiting"
    /\ UNCHANGED <<step, last, status, proc, term, code, cut>>

(* wait "$child"; child=                                                   *)
Reap ==
    /\ At("waiting")
    /\ Ended(child)
    /\ child' = 0
    /\ at' = "reaped"
    /\ UNCHANGED <<step, last, status, proc, term, code, cut>>

(* cyris run: `|| status=$?`, and on to the votes whatever it was.         *)
RunReturns ==
    /\ At("reaped")
    /\ step = 1
    /\ status' = proc[1]
    /\ step' = 2
    /\ at' = "before"
    /\ UNCHANGED <<child, last, proc, term, code, cut>>

(* promote-sync under `set -e`, then exit "$status".                       *)
SyncReturns ==
    /\ At("reaped")
    /\ step = 2
    /\ code' = IF proc[2] # "ok" THEN proc[2] ELSE status
    /\ at' = "exited"
    /\ UNCHANGED <<step, child, last, status, proc, term, cut>>

(* Mutant: a signal between the start and child=$! finds no step. *)
TargetNoted == child

(* on_term: TERM is ignored from here on, and goes to the running step.    *)
Target == IF child # 0 THEN child ELSE last

OnTerm ==
    /\ term = "pending"
    /\ at \in {"before", "spawned", "waiting", "reaped"}
    /\ term' = "trapped"
    /\ child' = Target
    /\ proc' = [p \in Steps |-> IF p = Target /\ proc[p] = "live" THEN "told" ELSE proc[p]]
    /\ cut' = (step = 1)
    /\ at' = "trapped"
    /\ UNCHANGED <<step, last, status, code>>

(* It waits for the step it told, and exits.                               *)
ExitOnTerm ==
    /\ at = "trapped"
    /\ child # 0 => Ended(child)
    /\ code' = IF status # "ok" THEN status ELSE "terminated"
    /\ at' = "exited"
    /\ UNCHANGED <<step, child, last, status, proc, term, cut>>
-----------------------------------------------------------------------------
(* A step ends by itself, or after the signal: `cyris run` cancels its     *)
(* task, records the run and exits with 143 (cli.py), unless it was about  *)
(* to end anyway; a step without a handler dies.                           *)
End(p) ==
    /\ proc[p] \in {"live", "told"}
    /\ \E c \in Codes :
           /\ c = "terminated" => proc[p] = "told"
           /\ proc' = [proc EXCEPT ![p] = c]
    /\ UNCHANGED <<at, step, child, last, status, term, code, cut>>

(* The platform stops the container: once, at any time.                    *)
Stop ==
    /\ term = "unsent"
    /\ at # "exited"
    /\ term' = "pending"
    /\ UNCHANGED <<at, step, child, last, status, proc, code, cut>>

Shell == Probed \/ Spawn \/ Note \/ Reap \/ RunReturns \/ SyncReturns \/ OnTerm \/ ExitOnTerm

Next == Shell \/ Stop \/ \E p \in Steps : End(p)

Spec == Init /\ [][Next]_vars
-----------------------------------------------------------------------------
(* "The pass ends when that step does": a pass that is over leaves no step *)
(* running, wherever the signal met it, for an orphaned run is killed      *)
(* without its row in digest_runs.  "Votes sync even when the run stops;   *)
(* the pass still exits with the run's failure": one that is not stopped   *)
(* runs the votes' step to its end, and once the shell has taken note that *)
(* the run failed, neither that step nor a signal hides it                 *)
(* (docker/entrypoint.sh).                                                 *)
PassAnswersForItsRun ==
    at = "exited" =>
        /\ \A p \in Steps : proc[p] \notin {"live", "told"}
        /\ term = "unsent" => Ended(2)
        /\ proc[1] = "failed" /\ ~cut => code = "failed"
=============================================================================
