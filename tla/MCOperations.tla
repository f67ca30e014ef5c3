----------------------------- MODULE MCOperations ----------------------------
(***************************************************************************)
(* The parts that keep the containers going, for TLC: the Durable Object   *)
(* in front of the ui container (Lifecycle), the pass of a run container   *)
(* (RunPass), the boots that bring the database to this build's shape      *)
(* (Migrations), and an operator's regeneration beside the scheduled runs  *)
(* (Regeneration).  Each is checked on its own state: a behaviour is one   *)
(* of `part`, and the others do not begin.                                 *)
(***************************************************************************)
EXTENDS Lifecycle

CONSTANTS Booters, Faults,
          MaxIssues, Writes, Reruns, Mishaps, Tolerance

(* The bounds are natural numbers, and the first issue can be stored.      *)
ASSUME BoundsAssumption ==
    /\ Containers \in Nat /\ Polls \in Nat /\ Restarts \in Nat
    /\ Faults \in Nat /\ Reruns \in Nat /\ Mishaps \in Nat
    /\ MaxIssues \in Nat \ {0} /\ Writes \in Nat \ {0}

VARIABLES part,
          db, booters, faults,
          at, step, child, last, status, proc, term, code, cut,
          digests, lastSaved, manifest, live, slot, done, run, written, reruns, mishaps, overtaken

Mg == INSTANCE Migrations WITH Containers <- Booters, boot <- booters
Rp == INSTANCE RunPass
Rg == INSTANCE Regeneration

ofBoots == <<db, booters, faults>>
ofPass == <<at, step, child, last, status, proc, term, code, cut>>
ofSite == <<digests, lastSaved, manifest, live, slot, done, run, written, reruns, mishaps,
            overtaken>>
all == <<part, vars, ofBoots, ofPass, ofSite>>

OpsInit ==
    /\ part \in {"ui", "boot", "pass", "site"}
    /\ Init /\ Mg!Init /\ Rp!Init /\ Rg!Init
    /\ part # "boot" => db = Mg!Fresh

OfUi   == part = "ui" /\ UNCHANGED <<part, ofBoots, ofPass, ofSite>>
OfBoot == part = "boot" /\ UNCHANGED <<part, vars, ofPass, ofSite>>
OfPass == part = "pass" /\ UNCHANGED <<part, vars, ofBoots, ofSite>>
OfSite == part = "site" /\ UNCHANGED <<part, vars, ofBoots, ofPass>>

OpsNext ==
    \/ OfUi /\ Next
    \/ OfBoot /\ Mg!Next
    \/ OfPass /\ Rp!Next
    \/ OfSite /\ Rg!Next

(* The fairness of the Durable Object's event loop, and of the Cron        *)
(* Trigger and its runs.                                                   *)
OpsSpec ==
    OpsInit /\ [][OpsNext]_all /\ WF_all(OfUi /\ Turn) /\ WF_all(OfSite /\ Rg!Tick)
-----------------------------------------------------------------------------
(* Every variable of the four parts has the values its code gives it.     *)
OpsTypeOK == TypeOK /\ Mg!TypeOK /\ Rp!TypeOK /\ Rg!TypeOK

(* A booted container works on the shape of its build (migrations.py), and *)
(* containers that boot together do not abort each other (apply_steps).    *)
BootsEndInShape == Mg!ServesItsShape /\ Mg!RaceNeverAborts

(* What is taken for a container's answer is its own: a request goes to    *)
(* none that has not been heard (container.js), and a pass ends with its   *)
(* steps and with its run's status (entrypoint.sh).                        *)
AnswersForItself == ListeningWasHeard /\ Rp!PassAnswersForItsRun

(* Only publishes that overlap take pages from each other (publish_site).  *)
OnlyARaceTakesBack == Rg!OnlyARaceTakesBack

(* What they took comes back (run_digest.py, _republish_missing).          *)
RacedPageReturns == Rg!RacedPageReturns
=============================================================================
