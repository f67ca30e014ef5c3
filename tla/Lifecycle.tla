------------------------------ MODULE Lifecycle -----------------------------
(***************************************************************************)
(* The Durable Object in front of the ui container                         *)
(* (workers/app/src/container.js, and fetch of CyrisContainer in index.js).*)
(* JavaScript runs one turn at a time, so an action is what happens from   *)
(* one await to the next.  Between turns the container may begin to        *)
(* listen, stop, or be found gone; Cloudflare may restart the object,      *)
(* which then knows nothing but whether a container runs.                  *)
(***************************************************************************)
EXTENDS Naturals

CONSTANTS Requests,     \* requests that reach the object
          Containers,   \* bound: containers started
          Polls,        \* pings that fit into READY_DEADLINE_MS
          Restarts      \* bound: restarts of the object

VARIABLES box,        \* the container: its number and what it does
          watched,    \* containers whose monitor() has not been handled yet
          listening,  \* this.listening
          boot,       \* the shared promise this.booting
          request,    \* what became of each request
          restarts,   \* restarts of the object so far
          late        \* history: an answer was handled after its container stopped

vars == <<box, watched, listening, boot, request, restarts, late>>
-----------------------------------------------------------------------------
Running == box.is # "stopped"
NotBooting == [at |-> "none"]
Waiting == {r \in Requests : request[r] = "waiting"}

TypeOK ==
    /\ box \in [nr : 0 .. Containers, is : {"stopped", "silent", "up"}]
    /\ watched \subseteq 1 .. Containers
    /\ listening \in BOOLEAN
    /\ \/ boot = NotBooting
       \/ boot \in [at : {"start", "adopt", "ping", "answered"}, polls : 0 .. Polls,
                    heard : 0 .. Containers]
    /\ request \in [Requests -> {"new", "waiting", "forwarded", "answered", "refused"}]
    /\ restarts \in 0 .. Restarts
    /\ late \in BOOLEAN

Init ==
    /\ box = [nr |-> 0, is |-> "stopped"]
    /\ watched = {}
    /\ listening = FALSE
    /\ boot = NotBooting
    /\ request = [r \in Requests |-> "new"]
    /\ restarts = 0
    /\ late = FALSE
-----------------------------------------------------------------------------
(* ready: a caller joins the boot under way; #boot returns at once when    *)
(* the container runs and has been heard.                                  *)
Heard == listening /\ Running

Arrive(r) ==
    /\ request[r] = "new"
    /\ request' = [request EXCEPT ![r] = IF boot = NotBooting /\ Heard
                                         THEN "forwarded" ELSE "waiting"]
    /\ boot' = IF boot = NotBooting /\ ~Heard
               THEN [at |-> "start", polls |-> 0, heard |-> 0] ELSE boot
    /\ UNCHANGED <<box, watched, listening, restarts, late>>

(* The boot rejects: its callers get a 503.                                *)
Refuse ==
    /\ boot' = NotBooting
    /\ request' = [r \in Requests |-> IF r \in Waiting THEN "refused" ELSE request[r]]
    /\ UNCHANGED <<box, watched, listening, restarts, late>>

(* start and #start: a container that runs is left as it is; a new one is  *)
(* watched by adopt, unless the platform has none to give.                 *)
StartBox ==
    /\ boot.at = "start"
    /\ \/ /\ Running
          /\ boot' = [boot EXCEPT !.at = "ping"]
          /\ UNCHANGED <<box, watched, listening, request, restarts, late>>
       \/ /\ ~Running
          /\ box.nr < Containers
          /\ box' = [nr |-> box.nr + 1, is |-> "silent"]
          /\ watched' = watched \cup {box.nr + 1}
          /\ boot' = [boot EXCEPT !.at = "adopt"]
          /\ UNCHANGED <<listening, request, restarts, late>>
       \/ ~Running /\ box.nr = Containers /\ Refuse

(* setInactivityTimeout is answered, or fails.                             *)
Adopted ==
    /\ boot.at = "adopt"
    /\ boot' = [boot EXCEPT !.at = "ping"]
    /\ UNCHANGED <<box, watched, listening, request, restarts, late>>

AdoptFails == boot.at = "adopt" /\ Refuse

(* A ping the container answers; its handling is a turn of its own.        *)
PingAnswered ==
    /\ boot.at = "ping"
    /\ box.is = "up"
    /\ boot' = [boot EXCEPT !.at = "answered", !.heard = box.nr]
    /\ UNCHANGED <<box, watched, listening, request, restarts, late>>

Hear ==
    /\ boot.at = "answered"
    /\ listening' = TRUE
    /\ late' = (late \/ ~Running \/ box.nr # boot.heard)
    /\ boot' = NotBooting
    /\ request' = [r \in Requests |-> IF r \in Waiting THEN "forwarded" ELSE request[r]]
    /\ UNCHANGED <<box, watched, restarts>>

(* Mutant: no deadline. *)
PingFailsForever ==
    /\ boot.at = "ping"
    /\ box.is # "up"
    /\ boot' = [boot EXCEPT !.at = "start"]
    /\ UNCHANGED <<box, watched, listening, request, restarts, late>>

(* A ping without an answer: again from start(), or the deadline is over.  *)
PingFails ==
    /\ boot.at = "ping"
    /\ box.is # "up"
    /\ \/ /\ boot.polls < Polls
          /\ boot' = [boot EXCEPT !.at = "start", !.polls = @ + 1]
          /\ UNCHANGED <<box, watched, listening, request, restarts, late>>
       \/ boot.polls = Polls /\ Refuse

(* forward: an answer of the container, or a 502 of the object.            *)
Answer(r) ==
    /\ request[r] = "forwarded"
    /\ request' = [request EXCEPT ![r] = "answered"]
    /\ UNCHANGED <<box, watched, listening, boot, restarts, late>>
-----------------------------------------------------------------------------
(* The container's server comes up; the container stops, for its timeout,  *)
(* a deploy or an allocation that failed; monitor() reports it.            *)
ComesUp ==
    /\ box.is = "silent"
    /\ box' = [box EXCEPT !.is = "up"]
    /\ UNCHANGED <<watched, listening, boot, request, restarts, late>>

Stop ==
    /\ Running
    /\ box' = [box EXCEPT !.is = "stopped"]
    /\ UNCHANGED <<watched, listening, boot, request, restarts, late>>

MonitorSettles ==
    /\ \E n \in watched :
           /\ n # box.nr \/ ~Running
           /\ watched' = watched \ {n}
    /\ listening' = FALSE
    /\ UNCHANGED <<box, boot, request, restarts, late>>

(* A new object adopts a container it finds running.  What waited on the   *)
(* old one is gone.                                                        *)
RestartObject ==
    /\ restarts < Restarts
    /\ restarts' = restarts + 1
    /\ watched' = IF Running THEN {box.nr} ELSE {}
    /\ listening' = FALSE
    /\ boot' = NotBooting
    /\ request' = [r \in Requests |-> IF request[r] \in {"waiting", "forwarded"}
                                      THEN "refused" ELSE request[r]]
    /\ UNCHANGED <<box, late>>

Turn == StartBox \/ Adopted \/ PingAnswered \/ Hear \/ PingFails

Next == \/ \E r \in Requests : Arrive(r)
        \/ Turn \/ AdoptFails \/ \E r \in Requests : Answer(r)
        \/ ComesUp \/ Stop \/ MonitorSettles \/ RestartObject

(* The event loop goes on, and a ping is answered or given up: PING_MS.    *)
(* Containers and the platform owe nothing.                                *)
Fairness == WF_vars(Turn)

Spec == Init /\ [][Next]_vars /\ Fairness
-----------------------------------------------------------------------------
(* No request goes to a container that has not been heard, by the shortcut *)
(* for one that has (#boot): `listening` outlives its container only until *)
(* the monitor's report of it is handled, or when the answer to a ping was *)
(* handled after that report.                                              *)
ListeningWasHeard ==
    boot = NotBooting /\ listening /\ box.is = "silent"
        => late \/ watched # {box.nr}

(* Whatever the container does, a request is let through or refused.       *)
EveryRequestEnds ==
    \A r \in Requests : request[r] = "waiting" ~> request[r] # "waiting"
=============================================================================
