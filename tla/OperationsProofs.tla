--------------------------- MODULE OperationsProofs ---------------------------
(***************************************************************************)
(* The parts that keep the containers going, for any number of requests,   *)
(* containers, issues, faults and reruns: the types of their variables,    *)
(* what is taken for a container's answer (Lifecycle, RunPass), the shape  *)
(* a boot leaves the database in (Migrations), and what overlapping        *)
(* publishes take from each other (Regeneration).                          *)
(***************************************************************************)
EXTENDS MCOperations, Sequences, WellFoundedInduction, TLAPS

-----------------------------------------------------------------------------
(* The invariants. *)

(* A running container is watched, and whoever was heard and has stopped   *)
(* since is watched still.                                                 *)
HeardIsWatched ==
  /\ watched \subseteq 1..box.nr
  /\ Running => box.nr \in watched
  /\ boot.at = "answered" => boot.heard = box.nr /\ box.is # "silent"
  /\ listening /\ ~late => /\ box.is = "stopped" => watched # {}
                           /\ box.is = "silent" => watched # {box.nr}

LifecycleInv == TypeOK /\ HeardIsWatched

Boots == [at : {"start", "adopt", "ping", "answered"}, polls : 0 .. Polls, heard : 0 .. Containers]

(* What the shell knows of its steps, at each place. *)
Before(s) == s = 2 => Rp!Ended(1) /\ status = proc[1]
Born(s) == proc[s] # "unborn" /\ (s = 1 => proc[2] = "unborn")

ShellKnows ==
  /\ at = "probe" => step = 1 /\ last = 0
  /\ at \in {"probe", "before"} => /\ child = 0 /\ last = step - 1 /\ proc[step] = "unborn"
                                   /\ proc[2] = "unborn"
  /\ at \in {"spawned", "waiting", "reaped"} => last = step /\ Born(step)
  /\ at = "spawned" => child = 0
  /\ at = "waiting" => child = step
  /\ at = "reaped" => child = 0 /\ Rp!Ended(step)
  /\ at = "trapped" => /\ child = last /\ last \in {step - 1, step}
                       /\ child # 0 => proc[child] # "unborn"
                       /\ last # 2 => proc[2] = "unborn"
                       /\ last = 0 => proc[1] = "unborn"
                       /\ cut <=> step = 1
  /\ at # "exited" => Before(step)

(* The signal is trapped once, and only then does a step end of it.        *)
TrappedOnce ==
  /\ term = "trapped" <=> at = "trapped" \/ (at = "exited" /\ term # "unsent")
  /\ term # "trapped" => \A p \in Rp!Steps : proc[p] \notin {"told", "terminated"}

PassInv == Rp!TypeOK /\ ShellKnows /\ TrappedOnce /\ Rp!PassAnswersForItsRun

(* The database: what is not there has no columns, the renamed column      *)
(* takes no old word with it, and what is recorded is in place.            *)
DbKept ==
  /\ ~db.exists => db = Mg!Fresh
  /\ ~db.tier => db.old = {}
  /\ "lane" \in db.recorded => ~db.tier
  /\ "image" \in db.recorded => db.image

(* What a boot has found or done. *)
BootKept(b) ==
  /\ b.at \notin {"schema", "down"} => db.exists
  /\ b.at \in {"schema", "list"} => b.step = 1
  /\ b.at \in {"schema", "list", "check"} => b.done = 0
  /\ b.applied \subseteq db.recorded
  /\ b.step = 2 => ~db.tier
  /\ b.at = "run" => b.done < IF b.step = 1 THEN 3 ELSE 1
  /\ b.at = "run" /\ b.step = 1 /\ b.done > 0 => "sources" \notin db.old
  /\ b.at = "run" /\ b.step = 1 /\ b.done > 1 => "articles" \notin db.old
  /\ b.at = "record" => ~db.tier /\ (b.step = 2 => db.image)
  /\ b.at = "recheck" => b.hit \/ (~db.tier /\ (b.step = 2 => db.image))
  /\ b.at = "up" => ~db.tier /\ db.image
  /\ b.at = "down" => b.hit

BootInv == Mg!TypeOK /\ DbKept /\ \A c \in Booters : BootKept(booters[c])

(* The stored issues end with the last digest hour's, and nothing names a  *)
(* page newer than the stored one.                                         *)
StoredFirst ==
  /\ digests[slot] > 0
  /\ \A i \in Rg!Issues : /\ i > slot => digests[i] = 0
                          /\ digests[i] <= written
                          /\ manifest[i] <= digests[i]
  /\ manifest[1] > 0 /\ live.head <= slot /\ lastSaved <= slot

Loaded == {"guard", "deploy", "save"}
Publishing == {"render", "load"} \cup Loaded

(* What a publish has in hand is the manifest's, but for what was saved    *)
(* beside it.                                                              *)
InHand(x) ==
  /\ x.pc \in Publishing =>
       /\ x.lead \in 1..slot
       /\ \A i \in Rg!Issues : /\ x.new[i] <= digests[i]
                               /\ x.new[i] > 0 /\ i \notin x.raced => x.new[i] >= manifest[i]
  /\ x.pc \in Publishing \ {"render"} => x.listed # {} /\ \A i \in x.listed : i <= slot
  /\ x.pc \in Loaded =>
       /\ x.kept[1] > 0
       /\ \A i \in Rg!Issues : /\ x.kept[i] <= digests[i]
                               /\ i \notin x.raced => x.kept[i] = manifest[i]

(* The regeneration has an issue that was the newest when it began. *)
HandHas(x) ==
  /\ x.pc \in {"idle", "store"} \cup Publishing
  /\ x.pc # "idle" => x.key \in 1..slot
  /\ x.pc \in Publishing => x.lead = x.key /\ x.new[x.key] > 0
  /\ x.pc \in Publishing \ {"render"} => x.key \in x.listed

(* A run that was not overtaken leads with the last hour's issue.          *)
LeadsWithNewest(r, x) ==
  /\ r = "hand" /\ x.pc # "idle" => x.key = slot
  /\ x.pc \in Publishing => x.lead = slot
  /\ x.pc = "render" => x.new[slot] > 0 \/ manifest[slot] > 0
  /\ x.pc \in Publishing \ {"render"} => slot \in x.listed

RunKept(r, x) ==
  /\ InHand(x)
  /\ r = "hand" => HandHas(x)
  /\ ~overtaken => LeadsWithNewest(r, x)

SiteInv ==
  /\ Rg!TypeOK
  /\ StoredFirst
  /\ ~overtaken => lastSaved = slot
  /\ \A r \in Rg!Runs : RunKept(r, run[r])

-----------------------------------------------------------------------------
(* The parts change only their own state. *)
LEMMA PartSteps ==
  ASSUME [OpsNext]_all
  PROVE  [Next]_vars /\ [Mg!Next]_ofBoots /\ [Rp!Next]_ofPass /\ [Rg!Next]_ofSite
BY DEF OpsNext, OfUi, OfBoot, OfPass, OfSite, all, vars, ofBoots, ofPass, ofSite

-----------------------------------------------------------------------------
(* The Durable Object. *)

LEMMA InitLifecycle == Init => LifecycleInv
<1> SUFFICES ASSUME Init PROVE LifecycleInv
  OBVIOUS
<1>1. box \in [nr : 0 .. Containers, is : {"stopped", "silent", "up"}] /\ restarts \in 0 .. Restarts
  BY BoundsAssumption DEF Init
<1>2. TypeOK
  BY <1>1 DEF Init, TypeOK
<1>3. HeardIsWatched
  BY DEF Init, HeardIsWatched, Running, NotBooting
<1> QED BY <1>2, <1>3 DEF LifecycleInv

LEMMA NextLifecycle == LifecycleInv /\ [Next]_vars => LifecycleInv'
<1> SUFFICES ASSUME TypeOK, HeardIsWatched, [Next]_vars PROVE LifecycleInv'
  BY DEF LifecycleInv
<1> USE BoundsAssumption DEF LifecycleInv, Running, NotBooting
<1>1. ASSUME NEW r \in Requests, Arrive(r) PROVE LifecycleInv'
  BY <1>1 DEF Arrive, Heard, TypeOK, HeardIsWatched
<1>2. CASE StartBox
  BY <1>2 DEF StartBox, Refuse, TypeOK, HeardIsWatched
<1>3. CASE Adopted \/ AdoptFails
  BY <1>3 DEF Adopted, AdoptFails, Refuse, TypeOK, HeardIsWatched
<1>4. CASE PingAnswered
  <2>1. boot \in Boots /\ box.nr \in 0..Containers
    BY <1>4 DEF PingAnswered, TypeOK, Boots
  <2>2. boot' \in Boots /\ boot'.at = "answered" /\ boot'.heard = box.nr
    BY <1>4, <2>1 DEF PingAnswered, Boots
  <2>3. TypeOK'
    BY <1>4, <2>2 DEF PingAnswered, TypeOK, Boots
  <2> QED BY <1>4, <2>2, <2>3 DEF PingAnswered, HeardIsWatched
<1>5. CASE Hear
  BY <1>5 DEF Hear, TypeOK, HeardIsWatched
<1>6. CASE PingFails
  <2>1. CASE Refuse
    BY <1>6, <2>1 DEF Refuse, TypeOK, HeardIsWatched
  <2>2. CASE ~Refuse
    <3>1. /\ boot \in Boots /\ boot.polls < Polls
          /\ boot' = [boot EXCEPT !.at = "start", !.polls = @ + 1]
      BY <1>6, <2>2 DEF PingFails, TypeOK, Boots
    <3>2. boot.polls + 1 \in 0..Polls
      BY <3>1 DEF Boots
    <3>3. boot' \in Boots /\ boot'.at = "start"
      BY <3>1, <3>2 DEF Boots
    <3>4. UNCHANGED <<box, watched, listening, request, restarts, late>>
      BY <1>6, <2>2 DEF PingFails
    <3> QED BY <3>3, <3>4 DEF TypeOK, HeardIsWatched, Boots
  <2> QED BY <2>1, <2>2
<1>7. ASSUME NEW r \in Requests, Answer(r) PROVE LifecycleInv'
  BY <1>7 DEF Answer, TypeOK, HeardIsWatched
<1>8. CASE ComesUp \/ Stop
  BY <1>8 DEF ComesUp, Stop, TypeOK, HeardIsWatched
<1>9. CASE MonitorSettles
  BY <1>9 DEF MonitorSettles, TypeOK, HeardIsWatched
<1>10. CASE RestartObject
  <2>1. watched' \subseteq watched
    BY <1>10 DEF RestartObject, HeardIsWatched
  <2>2. restarts' \in 0..Restarts /\ request' \in [Requests -> {"new", "waiting", "forwarded", "answered", "refused"}]
    BY <1>10 DEF RestartObject, TypeOK
  <2>3. TypeOK'
    BY <1>10, <2>1, <2>2 DEF RestartObject, TypeOK
  <2>4. HeardIsWatched'
    BY <1>10, <2>1 DEF RestartObject, HeardIsWatched
  <2> QED BY <2>3, <2>4
<1>11. CASE UNCHANGED vars
  BY <1>11 DEF vars, TypeOK, HeardIsWatched
<1> QED BY <1>1, <1>2, <1>3, <1>4, <1>5, <1>6, <1>7, <1>8, <1>9, <1>10, <1>11 DEF Next, Turn

-----------------------------------------------------------------------------
(* The run container's pass. *)

LEMMA InitPass == Rp!Init => PassInv
<1> SUFFICES ASSUME Rp!Init PROVE PassInv
  OBVIOUS
<1>1. Rp!TypeOK
  BY DEF Rp!Init, Rp!TypeOK, Rp!Steps, Rp!Codes, Rp!Process
<1>2. ShellKnows /\ TrappedOnce /\ Rp!PassAnswersForItsRun
  BY DEF Rp!Init, ShellKnows, Before, TrappedOnce, Rp!PassAnswersForItsRun, Rp!Steps
<1> QED BY <1>1, <1>2 DEF PassInv

LEMMA NextPass == PassInv /\ [Rp!Next]_ofPass => PassInv'
<1> SUFFICES ASSUME Rp!TypeOK, ShellKnows, TrappedOnce, Rp!PassAnswersForItsRun,
                    [Rp!Next]_ofPass
             PROVE  PassInv'
  BY DEF PassInv
<1> USE DEF PassInv, Rp!TypeOK, ShellKnows, Before, Born, TrappedOnce,
       Rp!PassAnswersForItsRun, Rp!Steps, Rp!Codes, Rp!Process, Rp!Ended
<1>1. CASE Rp!Probed
  BY <1>1 DEF Rp!Probed
<1>2. CASE Rp!Spawn
  BY <1>2 DEF Rp!Spawn, Rp!At
<1>3. CASE Rp!Note
  BY <1>3 DEF Rp!Note, Rp!At
<1>4. CASE Rp!Reap
  BY <1>4 DEF Rp!Reap, Rp!At
<1>5. CASE Rp!RunReturns
  BY <1>5 DEF Rp!RunReturns, Rp!At
<1>6. CASE Rp!SyncReturns
  BY <1>6 DEF Rp!SyncReturns, Rp!At
<1>7. CASE Rp!OnTerm
  <2>1. /\ Rp!Target = last /\ last \in {step - 1, step} /\ step \in {1, 2}
        /\ last # 0 => proc[last] # "unborn"
        /\ last # 2 => proc[2] = "unborn"
        /\ last = 0 => proc[1] = "unborn"
        /\ Before(step)
    BY <1>7 DEF Rp!OnTerm, Rp!Target
  <2>2. /\ proc' = [p \in {1, 2} |-> IF p = last /\ proc[p] = "live" THEN "told" ELSE proc[p]]
        /\ term' = "trapped" /\ at' = "trapped" /\ child' = last
        /\ UNCHANGED <<step, last, status, code>>
    BY <1>7, <2>1 DEF Rp!OnTerm
  <2>3. cut' \in BOOLEAN /\ (cut' <=> step = 1)
    BY <1>7 DEF Rp!OnTerm
  <2>4. step = 2 => proc'[1] = proc[1]
    BY <2>1, <2>2
  <2>5. Rp!TypeOK'
    BY <2>2, <2>3
  <2>6. ShellKnows'
    BY <2>1, <2>2, <2>3, <2>4
  <2>7. TrappedOnce' /\ Rp!PassAnswersForItsRun'
    BY <2>2
  <2> QED BY <2>5, <2>6, <2>7
<1>8. CASE Rp!ExitOnTerm
  BY <1>8 DEF Rp!ExitOnTerm
<1>9. CASE Rp!Stop
  BY <1>9 DEF Rp!Stop
<1>10. ASSUME NEW p \in {1, 2}, Rp!End(p) PROVE PassInv'
  BY <1>10 DEF Rp!End
<1>11. CASE UNCHANGED ofPass
  BY <1>11 DEF ofPass
<1> QED BY <1>1, <1>2, <1>3, <1>4, <1>5, <1>6, <1>7, <1>8, <1>9, <1>10, <1>11 DEF Rp!Next, Rp!Shell

-----------------------------------------------------------------------------
(* The boots. *)

BootRecords ==
  [at : {"schema", "list", "check", "run", "recheck", "record", "up", "down"},
   step : 1..2, done : 0..3, applied : SUBSET {"lane", "image"}, hit : BOOLEAN]

LEMMA BootTypes ==
  Mg!TypeOK <=> /\ db \in Mg!Databases
                /\ booters \in [Booters -> BootRecords]
                /\ faults \in 0..Faults
BY DEF Mg!TypeOK, BootRecords, Mg!Steps

(* The steps and their scripts. *)
LEMMA Scripts ==
  ASSUME Mg!TypeOK, NEW c \in Booters
  PROVE  LET script == Mg!Script[Mg!Pending(c)]
             b == booters[c]
         IN  /\ b.step = 1 => /\ Mg!Pending(c) = "lane" /\ Len(script) = 3 /\ script[1] = "sources"
                              /\ script[2] = "articles" /\ script[3] = "rename"
             /\ b.step = 2 => Mg!Pending(c) = "image" /\ Len(script) = 1 /\ script[1] = "add"
             /\ b.step \in {1, 2}
<1>1. booters[c] \in BootRecords
  BY BootTypes
<1> QED BY <1>1 DEF BootRecords, Mg!Script, Mg!Pending, Mg!Steps

LEMMA InitBoots == Mg!Init => BootInv
<1> SUFFICES ASSUME Mg!Init PROVE BootInv
  OBVIOUS
<1>1. Mg!Start \in BootRecords
  BY DEF Mg!Start, BootRecords
<1>2. db \in Mg!Databases
  <2>1. Mg!Fresh \in Mg!Databases
    BY DEF Mg!Databases, Mg!Words, Mg!Fresh
  <2>2. Mg!Oldest \in Mg!Databases
    BY DEF Mg!Databases, Mg!Words, Mg!Oldest
  <2>3. Mg!NoImage \in Mg!Databases
    BY DEF Mg!Databases, Mg!Words, Mg!NoImage
  <2> QED BY <2>1, <2>2, <2>3 DEF Mg!Init
<1>3. DbKept
  BY DEF Mg!Init, Mg!Fresh, Mg!Oldest, Mg!NoImage, DbKept
<1>4. Mg!TypeOK
  BY <1>1, <1>2, BootTypes, BoundsAssumption DEF Mg!Init
<1>5. \A c \in Booters : BootKept(booters[c])
  BY DEF Mg!Init, BootKept, Mg!Start
<1> QED BY <1>3, <1>4, <1>5 DEF BootInv

(* What one boot does to the database never undoes what another relies on. *)
Forward ==
  /\ db.exists => db'.exists
  /\ db'.tier => db.tier
  /\ db.exists /\ db.image => db'.image
  /\ db'.old \subseteq db.old
  /\ db.recorded \subseteq db'.recorded

LEMMA BootGoes ==
  ASSUME BootInv, NEW c \in Booters, NEW b \in BootRecords,
         booters' = [booters EXCEPT ![c] = b], faults' \in 0..Faults,
         db' \in Mg!Databases, DbKept', Forward, BootKept(b)'
  PROVE  BootInv'
<1>1. booters \in [Booters -> BootRecords]
  BY BootTypes DEF BootInv
<1>2. Mg!TypeOK'
  BY <1>1, BootTypes DEF Mg!TypeOK, BootRecords, Mg!Steps
<1>3. booters'[c] = b
  BY <1>1
<1>4. ASSUME NEW d \in Booters, d # c PROVE BootKept(booters[d])'
  <2>1. booters'[d] = booters[d] /\ booters[d] \in BootRecords
    BY <1>1, <1>4
  <2>2. BootKept(booters[d])
    BY DEF BootInv
  <2>3. db.tier \in BOOLEAN /\ db'.tier \in BOOLEAN
    BY DEF BootInv, Mg!TypeOK, Mg!Databases
  <2> DEFINE b0 == booters[d]
  <2>4. b0 \in BootRecords /\ BootKept(b0) /\ booters'[d] = b0
    BY <2>1, <2>2
  <2> HIDE DEF b0
  <2>5. /\ b0.at \notin {"schema", "down"} => db'.exists
        /\ b0.at = "run" /\ b0.step = 1 /\ b0.done > 0 => "sources" \notin db'.old
        /\ b0.at = "run" /\ b0.step = 1 /\ b0.done > 1 => "articles" \notin db'.old
        /\ b0.applied \subseteq db'.recorded
    BY <2>4 DEF Forward, BootKept
  <2>6. /\ b0.step = 2 => ~db'.tier
        /\ b0.at = "record" => ~db'.tier /\ (b0.step = 2 => db'.image)
        /\ b0.at = "recheck" => b0.hit \/ (~db'.tier /\ (b0.step = 2 => db'.image))
        /\ b0.at = "up" => ~db'.tier /\ db'.image
    BY <2>3, <2>4 DEF Forward, BootKept
  <2> QED BY <2>4, <2>5, <2>6 DEF BootKept
<1> QED BY <1>2, <1>3, <1>4 DEF BootInv

(* A step that is in place takes the boot to the next, or ends it. *)
LEMMA Advances ==
  ASSUME Mg!TypeOK, NEW b \in BootRecords, BootKept(b),
         db.exists, b.step = 1 => ~db.tier, b.step = 2 => ~db.tier /\ db.image
  PROVE  Mg!Advanced(b) \in BootRecords /\ BootKept(Mg!Advanced(b))
<1> DEFINE x == Mg!Advanced(b)
<1>1. CASE b.step = 2
  <2>1. x = [b EXCEPT !.at = "up"]
    BY <1>1 DEF Mg!Advanced, Mg!Steps
  <2>2. x \in BootRecords /\ x.at = "up" /\ x.step = 2 /\ x.applied = b.applied
    BY <1>1, <2>1 DEF BootRecords
  <2> HIDE DEF x
  <2>3. BootKept(x)
    BY <1>1, <2>2 DEF BootKept
  <2> QED BY <2>2, <2>3 DEF x
<1>2. CASE b.step = 1
  <2>1. x = [b EXCEPT !.at = "check", !.step = 2, !.done = 0]
    BY <1>2 DEF Mg!Advanced, Mg!Steps
  <2>2. 2 \in 1..2 /\ 0 \in 0..3
    OBVIOUS
  <2>3. x \in BootRecords /\ x.at = "check" /\ x.step = 2 /\ x.done = 0 /\ x.applied = b.applied
    BY <2>1, <2>2 DEF BootRecords
  <2> HIDE DEF x
  <2>4. BootKept(x)
    BY <1>2, <2>3 DEF BootKept
  <2> QED BY <2>3, <2>4 DEF x
<1> QED BY <1>1, <1>2 DEF BootRecords

LEMMA NextBoots == BootInv /\ [Mg!Next]_ofBoots => BootInv'
<1> SUFFICES ASSUME BootInv, [Mg!Next]_ofBoots PROVE BootInv'
  OBVIOUS
<1>0. /\ Mg!TypeOK /\ DbKept
      /\ db \in Mg!Databases /\ faults \in 0..Faults
      /\ booters \in [Booters -> BootRecords]
  BY BootTypes DEF BootInv
<1>1. CASE UNCHANGED ofBoots
  BY <1>0, <1>1, BootTypes DEF BootInv, ofBoots, DbKept, BootKept, Mg!TypeOK, Mg!Fresh, Mg!Databases
<1>2. CASE \E c \in Booters : Mg!Boot(c) \/ Mg!RequestFails(c) \/ Mg!Resend(c) \/ Mg!Kill(c)
  <2> PICK c \in Booters : Mg!Boot(c) \/ Mg!RequestFails(c) \/ Mg!Resend(c) \/ Mg!Kill(c)
    BY <1>2
  <2> PICK b0 \in BootRecords : b0 = booters[c]
    BY <1>0
  <2>1. BootKept(b0)
    BY DEF BootInv
  <2>2. ASSUME UNCHANGED db PROVE db' \in Mg!Databases /\ DbKept' /\ Forward
    BY <1>0, <2>2 DEF DbKept, Forward, Mg!Fresh
  <2>3. \A place : Mg!Goes(c, place) => booters' = [booters EXCEPT ![c] = [b0 EXCEPT !.at = place]]
    BY <1>0 DEF Mg!Goes
  <2>15. Mg!Holds(Mg!Pending(c)) <=> IF b0.step = 1 THEN db.exists /\ db.tier
                                     ELSE db.exists /\ ~db.image
    BY <1>0, Scripts DEF Mg!Holds
  <2>16. 0 \in 0..3 /\ 1 \in 1..2
    OBVIOUS
  <2>4. CASE Mg!Schema(c)
    <3>1. PICK b \in BootRecords : b = [b0 EXCEPT !.at = "list"]
      BY DEF BootRecords
    <3>2. db' = Mg!Created /\ UNCHANGED faults /\ b0.at = "schema"
          /\ booters' = [booters EXCEPT ![c] = b]
      BY <2>3, <2>4, <3>1 DEF Mg!Schema
    <3>3. db' \in Mg!Databases /\ DbKept' /\ Forward /\ db'.exists
      BY <1>0, <3>2 DEF Mg!Created, Mg!Databases, DbKept, Forward, Mg!Fresh
    <3>4. BootKept(b)'
      BY <2>1, <3>1, <3>2, <3>3 DEF BootKept, Forward, BootRecords
    <3> QED BY <1>0, <3>2, <3>3, <3>4, BootGoes
  <2>5. CASE Mg!List(c)
    <3>1. PICK b \in BootRecords : b = [b0 EXCEPT !.at = "check", !.applied = db.recorded]
      BY <1>0 DEF BootRecords, Mg!Databases
    <3>2. UNCHANGED <<db, faults>> /\ b0.at = "list"
          /\ booters' = [booters EXCEPT ![c] = b]
      BY <1>0, <2>5, <3>1 DEF Mg!List
    <3>3. BootKept(b)'
      BY <2>1, <3>1, <3>2 DEF BootKept, BootRecords
    <3> QED BY <1>0, <2>2, <3>2, <3>3, BootGoes
  <2>6. CASE Mg!Check(c)
    <3>1. UNCHANGED <<db, faults>> /\ b0.at = "check"
      BY <2>6 DEF Mg!Check
    <3>2. CASE Mg!Pending(c) \in b0.applied
      <4>1. booters' = [booters EXCEPT ![c] = Mg!Advanced(b0)]
        BY <1>0, <2>6, <3>2 DEF Mg!Check
      <4>2. /\ b0.step = 1 => ~db.tier
            /\ b0.step = 2 => db.image
        BY <1>0, <2>1, <3>2, Scripts DEF BootKept, DbKept
      <4>3. PICK b \in BootRecords : b = Mg!Advanced(b0) /\ BootKept(b)
        BY <1>0, <2>1, <3>1, <4>2, Advances DEF BootKept
      <4>4. BootKept(b)'
        BY <3>1, <4>3 DEF BootKept
      <4> QED BY <1>0, <2>2, <3>1, <4>1, <4>3, <4>4, BootGoes
    <3>3. CASE Mg!Pending(c) \notin b0.applied
      <4>1. PICK b \in BootRecords :
              b = [b0 EXCEPT !.at = IF Mg!Holds(Mg!Pending(c)) THEN "run" ELSE "record"]
        BY DEF BootRecords
      <4>2. booters' = [booters EXCEPT ![c] = b]
        BY <2>3, <2>6, <3>3, <4>1 DEF Mg!Check
      <4>3. BootKept(b)'
        BY <2>1, <2>15, <3>1, <4>1 DEF BootKept, BootRecords
      <4> QED BY <1>0, <2>2, <3>1, <4>2, <4>3, BootGoes
    <3> QED BY <3>2, <3>3
  <2>7. CASE Mg!Statement(c)
    <3> DEFINE script == Mg!Script[Mg!Pending(c)]
               next == script[b0.done + 1]
    <3>1. b0.at = "run" /\ UNCHANGED faults
      BY <2>7 DEF Mg!Statement
    <3>2. /\ b0.step = 1 => /\ b0.done \in 0..2
                            /\ next = IF b0.done = 0 THEN "sources"
                                      ELSE IF b0.done = 1 THEN "articles" ELSE "rename"
                            /\ script[Len(script)] = "rename"
          /\ b0.step = 2 => b0.done = 0 /\ next = "add" /\ script[Len(script)] = "add"
          /\ b0.step \in {1, 2}
      BY <1>0, <2>1, <3>1, Scripts DEF BootKept, BootRecords
    <3>3. CASE ~Mg!Runs(next)
      <4>1. PICK b \in BootRecords : b = [b0 EXCEPT !.at = "recheck"]
        BY DEF BootRecords
      <4>2. UNCHANGED db /\ booters' = [booters EXCEPT ![c] = b]
        BY <1>0, <2>3, <2>7, <3>3, <4>1 DEF Mg!Statement
      <4>3. /\ b0.step = 1 => ~db.tier
            /\ b0.step = 2 => ~db.tier /\ db.image
        BY <2>1, <3>2, <3>3 DEF Mg!Runs, BootKept
      <4>4. BootKept(b)'
        BY <2>1, <3>1, <3>2, <4>1, <4>2, <4>3 DEF BootKept, BootRecords
      <4> QED BY <1>0, <2>2, <3>1, <4>2, <4>4, BootGoes
    <3>4. CASE Mg!Runs(next)
      <4> DEFINE place == IF next = script[Len(script)] THEN "record" ELSE "run"
      <4>1. /\ db' = Mg!After(next)
            /\ booters' = [booters EXCEPT ![c] = [b0 EXCEPT !.done = @ + 1, !.at = place]]
        <5>1. next = script[booters[c].done + 1]
          OBVIOUS
        <5> HIDE DEF place
        <5>2. /\ db' = Mg!After(next)
              /\ booters' = [booters EXCEPT ![c] = [booters[c] EXCEPT !.done = @ + 1, !.at = place]]
          BY <2>7, <3>4 DEF Mg!Statement, place
        <5> HIDE DEF next, script
        <5> QED BY <5>1, <5>2
      <4>2. b0.done + 1 \in 0..3 /\ place \in {"record", "run"}
        BY <3>2
      <4> HIDE DEF place
      <4>3. PICK b \in BootRecords : b = [b0 EXCEPT !.done = @ + 1, !.at = place]
        BY <4>2 DEF BootRecords
      <4>4. b.step = b0.step /\ b.applied = b0.applied /\ b.done = b0.done + 1 /\ b.at = place
        BY <4>3 DEF BootRecords
      <4>5. db.exists
        BY <2>1, <3>1 DEF BootKept
      <4>6. CASE b0.step = 1 /\ b0.done = 0
        <5>1. db' = [db EXCEPT !.old = @ \ {"sources"}] /\ place = "run"
          BY <3>2, <4>1, <4>6 DEF Mg!After, Mg!Words, place
        <5>2. db' \in Mg!Databases /\ DbKept' /\ Forward /\ "sources" \notin db'.old
          BY <1>0, <4>5, <5>1 DEF Mg!Databases, DbKept, Forward
        <5>3. BootKept(b)'
          BY <2>1, <4>4, <4>5, <4>6, <5>1, <5>2 DEF BootKept, Forward
        <5> QED BY <1>0, <3>1, <4>1, <4>3, <5>2, <5>3, BootGoes
      <4>7. CASE b0.step = 1 /\ b0.done = 1
        <5>1. db' = [db EXCEPT !.old = @ \ {"articles"}] /\ place = "run"
          BY <3>2, <4>1, <4>7 DEF Mg!After, Mg!Words, place
        <5>2. db' \in Mg!Databases /\ DbKept' /\ Forward /\ "articles" \notin db'.old
          BY <1>0, <4>5, <5>1 DEF Mg!Databases, DbKept, Forward
        <5>3. "sources" \notin db'.old
          BY <2>1, <3>1, <4>7, <5>2 DEF BootKept, Forward
        <5>4. BootKept(b)'
          BY <2>1, <4>4, <4>5, <4>7, <5>1, <5>2, <5>3 DEF BootKept, Forward
        <5> QED BY <1>0, <3>1, <4>1, <4>3, <5>2, <5>4, BootGoes
      <4>8. CASE b0.step = 1 /\ b0.done = 2
        <5>1. db' = [db EXCEPT !.tier = FALSE] /\ place = "record"
          BY <3>2, <4>1, <4>8 DEF Mg!After, Mg!Words, place
        <5>2. db.old = {}
          BY <1>0, <2>1, <3>1, <4>8 DEF BootKept, Mg!Databases, Mg!Words
        <5>3. db' \in Mg!Databases /\ DbKept' /\ Forward /\ ~db'.tier
          BY <1>0, <4>5, <5>1, <5>2 DEF Mg!Databases, DbKept, Forward
        <5>4. BootKept(b)'
          BY <2>1, <4>4, <4>5, <4>8, <5>1, <5>3 DEF BootKept, Forward
        <5> QED BY <1>0, <3>1, <4>1, <4>3, <5>3, <5>4, BootGoes
      <4>9. CASE b0.step = 2
        <5>1. db' = [db EXCEPT !.image = TRUE] /\ place = "record"
          BY <3>2, <4>1, <4>9 DEF Mg!After, Mg!Words, place
        <5>2. db' \in Mg!Databases /\ DbKept' /\ Forward /\ db'.image
          BY <1>0, <4>5, <5>1 DEF Mg!Databases, DbKept, Forward
        <5>3. BootKept(b)'
          BY <2>1, <4>4, <4>5, <4>9, <5>1, <5>2 DEF BootKept, Forward
        <5> QED BY <1>0, <3>1, <4>1, <4>3, <5>2, <5>3, BootGoes
      <4> QED BY <3>2, <4>6, <4>7, <4>8, <4>9
    <3> QED BY <3>3, <3>4
  <2>8. CASE Mg!Recheck(c)
    <3>1. PICK b \in BootRecords :
            b = [b0 EXCEPT !.at = IF Mg!Holds(Mg!Pending(c)) THEN "down" ELSE "record"]
      BY DEF BootRecords
    <3>2. UNCHANGED <<db, faults>> /\ b0.at = "recheck" /\ booters' = [booters EXCEPT ![c] = b]
      BY <2>3, <2>8, <3>1 DEF Mg!Recheck
    <3>3. BootKept(b)'
      BY <2>1, <2>15, <3>1, <3>2 DEF BootKept, BootRecords
    <3> QED BY <1>0, <2>2, <3>2, <3>3, BootGoes
  <2>9. CASE Mg!Record(c)
    <3>1. /\ db' = [db EXCEPT !.recorded = @ \cup {Mg!Pending(c)}] /\ UNCHANGED faults
          /\ b0.at = "record" /\ booters' = [booters EXCEPT ![c] = Mg!Advanced(b0)]
      BY <1>0, <2>9 DEF Mg!Record
    <3>2. db.exists /\ ~db.tier /\ (b0.step = 2 => db.image)
      BY <2>1, <3>1 DEF BootKept
    <3>3. Mg!Pending(c) \in {"lane", "image"} /\ (Mg!Pending(c) = "image" => db.image)
      BY <1>0, <3>2, Scripts
    <3>4. /\ db' \in Mg!Databases /\ DbKept' /\ Forward
          /\ db'.exists = db.exists /\ db'.tier = db.tier /\ db'.image = db.image /\ db'.old = db.old
      BY <1>0, <3>1, <3>2, <3>3 DEF Mg!Databases, DbKept, Forward
    <3>5. PICK b \in BootRecords : b = Mg!Advanced(b0) /\ BootKept(b)
      BY <1>0, <2>1, <3>2, Advances
    <3>6. BootKept(b)'
      BY <3>4, <3>5 DEF BootKept, Forward
    <3> QED BY <1>0, <3>1, <3>4, <3>5, <3>6, BootGoes
  <2>10. CASE Mg!Again(c)
    <3>1. PICK b \in BootRecords : b = Mg!Start
      BY <2>16 DEF BootRecords, Mg!Start
    <3>2. UNCHANGED <<db, faults>> /\ booters' = [booters EXCEPT ![c] = b]
      BY <2>10, <3>1 DEF Mg!Again
    <3>3. BootKept(b)'
      BY <3>1 DEF BootKept, Mg!Start
    <3> QED BY <1>0, <2>2, <3>2, <3>3, BootGoes
  <2>11. ASSUME NEW b \in BootRecords, Mg!Faulty(c, b), BootKept(b) PROVE BootInv'
    <3>1. UNCHANGED db /\ faults' \in 0..Faults /\ booters' = [booters EXCEPT ![c] = b]
      BY <1>0, <2>11, BoundsAssumption DEF Mg!Faulty
    <3>2. BootKept(b)'
      BY <2>11, <3>1 DEF BootKept
    <3> QED BY <2>2, <3>1, <3>2, BootGoes
  <2>12. CASE Mg!RequestFails(c)
    <3>1. PICK b \in BootRecords :
            b = [b0 EXCEPT !.at = IF @ = "run" THEN "recheck" ELSE "down", !.hit = TRUE]
      BY DEF BootRecords
    <3>2. Mg!Faulty(c, b)
      BY <2>12, <3>1 DEF Mg!RequestFails
    <3>3. BootKept(b)
      <4>1. /\ b.hit = TRUE /\ b.at \in {"recheck", "down"} /\ b.step = b0.step /\ b.applied = b0.applied
            /\ b.at = "recheck" => b0.at = "run"
        BY <3>1 DEF BootRecords
      <4>2. /\ b0.at = "run" => db.exists
            /\ b0.applied \subseteq db.recorded /\ (b0.step = 2 => ~db.tier)
        BY <2>1 DEF BootKept
      <4> QED BY <4>1, <4>2 DEF BootKept
    <3> QED BY <2>11, <3>2, <3>3
  <2>13. CASE Mg!Resend(c)
    <3>1. PICK b \in BootRecords : b = [b0 EXCEPT !.at = "run", !.done = 0]
      BY <2>16 DEF BootRecords
    <3>2. Mg!Faulty(c, b)
      BY <2>13, <3>1 DEF Mg!Resend
    <3>3. BootKept(b)
      BY <2>1, <2>13, <3>1 DEF BootKept, BootRecords, Mg!Resend
    <3> QED BY <2>11, <3>2, <3>3
  <2>14. CASE Mg!Kill(c)
    <3>1. PICK b \in BootRecords : b = [b0 EXCEPT !.at = "down", !.hit = TRUE]
      BY DEF BootRecords
    <3>2. Mg!Faulty(c, b)
      BY <2>14, <3>1 DEF Mg!Kill
    <3>3. BootKept(b)
      BY <2>1, <2>14, <3>1 DEF BootKept, BootRecords, Mg!Kill, Mg!Booting
    <3> QED BY <2>11, <3>2, <3>3
  <2> QED BY <2>4, <2>5, <2>6, <2>7, <2>8, <2>9, <2>10, <2>12, <2>13, <2>14 DEF Mg!Boot
<1> QED BY <1>1, <1>2 DEF Mg!Next

-----------------------------------------------------------------------------
(* The site. *)

RunRecords ==
  [pc : {"idle", "missing", "digest", "store", "render", "load", "guard", "deploy", "save"},
   key : 0..MaxIssues, own : BOOLEAN, new : Rg!Pages, lead : 0..MaxIssues,
   listed : SUBSET Rg!Issues, kept : Rg!Pages, raced : SUBSET Rg!Issues]

LEMMA SiteTypes ==
  Rg!TypeOK <=>
    /\ digests \in Rg!Pages /\ manifest \in Rg!Pages /\ lastSaved \in Rg!Issues
    /\ live \in [pages : Rg!Pages, index : SUBSET Rg!Issues, head : Rg!Issues]
    /\ slot \in Rg!Issues /\ done \in BOOLEAN /\ overtaken \in BOOLEAN
    /\ run \in [Rg!Runs -> RunRecords]
    /\ written \in 1..Writes /\ reruns \in 0..Reruns /\ mishaps \in 0..Mishaps
BY DEF Rg!TypeOK, RunRecords

LEMMA OnlyType ==
  ASSUME NEW i, NEW w \in 0..Writes
  PROVE  /\ Rg!Only(i, w) \in Rg!Pages
         /\ \A j \in Rg!Issues : Rg!Only(i, w)[j] = IF j = i THEN w ELSE 0
<1>1. 0 \in 0..Writes
  BY BoundsAssumption
<1> QED BY <1>1 DEF Rg!Only, Rg!Pages

LEMMA OverType ==
  ASSUME NEW kept \in Rg!Pages, NEW new \in Rg!Pages
  PROVE  /\ Rg!Over(kept, new) \in Rg!Pages
         /\ \A j \in Rg!Issues : Rg!Over(kept, new)[j] = IF new[j] > 0 THEN new[j] ELSE kept[j]
BY DEF Rg!Over, Rg!Pages

LEMMA IdleType ==
  /\ Rg!Idle \in RunRecords /\ Rg!Idle.pc = "idle"
  /\ [Rg!Idle EXCEPT !.pc = "digest"] \in RunRecords
  /\ [Rg!Idle EXCEPT !.pc = "digest"].pc = "digest"
<1>1. Rg!Only(0, 0) \in Rg!Pages /\ 0 \in 0..MaxIssues
  BY OnlyType, BoundsAssumption
<1> QED BY <1>1 DEF Rg!Idle, RunRecords

(* A set of naturals that is not empty has a least element. *)
LEMMA LeastNat ==
  ASSUME NEW T, T \subseteq Nat, T # {}
  PROVE  \E m \in T : \A n \in T : m <= n
<1> DEFINE Less == OpToRel(<, Nat)
<1>1. \E m \in T : \A n \in T : ~ (<<n, m>> \in Less)
  BY NatLessThanWellFounded, WFMin
<1>2. \A m, n \in Nat : n < m => <<n, m>> \in Less
  BY DEF OpToRel
<1>3. PICK m \in T : \A n \in T : ~ (<<n, m>> \in Less)
  BY <1>1
<1>4. ASSUME NEW n \in T PROVE m <= n
  <2>1. ~ (n < m)
    BY <1>2, <1>3
  <2> QED BY <2>1
<1> QED BY <1>4

(* The headline is one of the listed issues, the lead when it is listed.   *)
LEMMA HeadlineListed ==
  ASSUME NEW lead, NEW listed \in SUBSET Rg!Issues, listed # {}
  PROVE  /\ Rg!Headline(lead, listed) \in listed
         /\ lead \in listed => Rg!Headline(lead, listed) = lead
<1> DEFINE T == {MaxIssues - i : i \in listed}
<1>1. T \subseteq Nat /\ T # {}
  <2>1. \A i \in listed : MaxIssues - i \in Nat
    BY BoundsAssumption DEF Rg!Issues
  <2> QED BY <2>1
<1>2. PICK m \in T : \A n \in T : m <= n
  <2> HIDE DEF T
  <2> QED BY <1>1, LeastNat
<1>3. PICK i \in listed : m = MaxIssues - i
  OBVIOUS
<1>4. \A j \in listed : j <= i
  <2> SUFFICES ASSUME NEW j \in listed PROVE j <= i
    OBVIOUS
  <2>1. m <= MaxIssues - j
    BY <1>2
  <2> QED BY <1>3, <2>1, BoundsAssumption DEF Rg!Issues
<1>5. (CHOOSE k \in listed : \A j \in listed : j <= k) \in listed
  BY <1>4
<1> QED BY <1>5 DEF Rg!Headline

LEMMA InitSite == Rg!Init => SiteInv
<1> SUFFICES ASSUME Rg!Init PROVE SiteInv
  OBVIOUS
<1>1. 1 \in Rg!Issues /\ 1 \in 0..Writes /\ 1 \in 1..Writes /\ 0 \in 0..Reruns /\ 0 \in 0..Mishaps
  BY BoundsAssumption DEF Rg!Issues
<1>2. /\ Rg!Only(1, 1) \in Rg!Pages
      /\ \A j \in Rg!Issues : Rg!Only(1, 1)[j] = IF j = 1 THEN 1 ELSE 0
  BY <1>1, OnlyType
<1>3. live \in [pages : Rg!Pages, index : SUBSET Rg!Issues, head : Rg!Issues] /\ live.head = 1
  BY <1>1, <1>2 DEF Rg!Init
<1>4. run \in [Rg!Runs -> RunRecords] /\ \A r \in Rg!Runs : run[r].pc = "idle"
  BY IdleType DEF Rg!Init
<1>5. Rg!TypeOK
  BY <1>1, <1>2, <1>3, <1>4, SiteTypes DEF Rg!Init
<1>6. StoredFirst /\ lastSaved = slot
  BY <1>1, <1>2, <1>3 DEF Rg!Init, StoredFirst, Rg!Issues
<1>7. ASSUME NEW r \in Rg!Runs PROVE RunKept(r, run[r])
  BY <1>4 DEF RunKept, InHand, HandHas, LeadsWithNewest, Publishing, Loaded
<1> QED BY <1>5, <1>6, <1>7 DEF SiteInv

(* One run goes on, and the stores stay as they are.                       *)
LEMMA RunGoes ==
  ASSUME SiteInv, NEW r \in Rg!Runs, NEW x \in RunRecords,
         run' = [run EXCEPT ![r] = x], RunKept(r, x),
         live' \in [pages : Rg!Pages, index : SUBSET Rg!Issues, head : Rg!Issues],
         live'.head <= slot,
         UNCHANGED <<digests, lastSaved, manifest, slot, done, written, overtaken>>,
         reruns' \in 0..Reruns, mishaps' \in 0..Mishaps
  PROVE  SiteInv'
<1>1. run \in [Rg!Runs -> RunRecords] /\ Rg!TypeOK
  BY SiteTypes DEF SiteInv
<1>2. run' \in [Rg!Runs -> RunRecords] /\ run'[r] = x /\ \A s \in Rg!Runs : s # r => run'[s] = run[s]
  BY <1>1
<1>3. Rg!TypeOK'
  BY <1>1, <1>2, SiteTypes DEF Rg!TypeOK, RunRecords, Rg!Pages, Rg!Issues
<1>4. StoredFirst'
  BY DEF SiteInv, StoredFirst
<1>5. ASSUME NEW s \in Rg!Runs PROVE RunKept(s, run[s])'
  <2>1. PICK y : y = run'[s]
    OBVIOUS
  <2>2. RunKept(s, y)
    BY <1>2, <2>1 DEF SiteInv
  <2>3. RunKept(s, y)'
    BY <2>2 DEF RunKept, InHand, HandHas, LeadsWithNewest
  <2> QED BY <2>1, <2>3
<1>6. (~overtaken => lastSaved = slot)'
  BY DEF SiteInv
<1> QED BY <1>3, <1>4, <1>5, <1>6 DEF SiteInv

(* A run that is not publishing has nothing in hand. *)
LEMMA RestsEasy ==
  ASSUME NEW r \in Rg!Runs, NEW x, x.pc = "idle" \/ (r = "tick" /\ x.pc \in {"missing", "digest"})
  PROVE  RunKept(r, x)
BY DEF RunKept, InHand, HandHas, LeadsWithNewest, Publishing, Loaded

(* The steps of a run between its writes of the stores.                    *)
LEMMA QuietSteps ==
  ASSUME SiteInv,
         \/ Rg!StartTick \/ Rg!NothingToDigest
         \/ \E r \in Rg!Runs : Rg!PublishFails(r) \/ Rg!Kill(r)
         \/ \E r \in Rg!Runs : Rg!Guard(r) /\ Rg!Return(r)
  PROVE  SiteInv'
<1>0. /\ Rg!TypeOK /\ live.head <= slot
      /\ live \in [pages : Rg!Pages, index : SUBSET Rg!Issues, head : Rg!Issues]
      /\ run \in [Rg!Runs -> RunRecords] /\ reruns \in 0..Reruns /\ mishaps \in 0..Mishaps
  BY SiteTypes DEF SiteInv, StoredFirst
<1>1. /\ UNCHANGED <<digests, lastSaved, manifest, live, slot, done, written, overtaken, reruns>>
      /\ mishaps' = mishaps \/ (mishaps < Mishaps /\ mishaps' = mishaps + 1)
  BY DEF Rg!StartTick, Rg!NothingToDigest, Rg!PublishFails, Rg!Kill, Rg!Guard,
         Rg!stores, Rg!ticks, Rg!bounds
<1>2. mishaps' \in 0..Mishaps
  BY <1>0, <1>1, BoundsAssumption
<1>3. \E r \in Rg!Runs : \E x \in RunRecords :
        /\ run' = [run EXCEPT ![r] = x]
        /\ x.pc = "idle" \/ (r = "tick" /\ x.pc \in {"missing", "digest"})
  <2>1. CASE Rg!StartTick \/ Rg!NothingToDigest
    <3>1. PICK place \in {"missing", "idle"} : Rg!Goto("tick", place)
      BY <2>1 DEF Rg!StartTick, Rg!NothingToDigest
    <3> DEFINE x == [run["tick"] EXCEPT !.pc = place]
    <3>2. "tick" \in Rg!Runs
      BY DEF Rg!Runs
    <3>3. x \in RunRecords /\ x.pc = place
      BY <1>0, <3>1, <3>2 DEF RunRecords
    <3>4. run' = [run EXCEPT !["tick"] = x]
      BY <1>0, <3>1, <3>2 DEF Rg!Goto
    <3> HIDE DEF x
    <3> QED BY <3>2, <3>3, <3>4
  <2>2. ASSUME NEW r \in Rg!Runs, Rg!Return(r) \/ run' = [run EXCEPT ![r] = Rg!Idle]
        PROVE  \E x \in RunRecords :
                 /\ run' = [run EXCEPT ![r] = x]
                 /\ x.pc = "idle" \/ (r = "tick" /\ x.pc \in {"missing", "digest"})
    BY <2>2, IdleType DEF Rg!Return
  <2> QED BY <2>1, <2>2 DEF Rg!PublishFails, Rg!Kill
<1>4. PICK r \in Rg!Runs, x \in RunRecords :
        /\ run' = [run EXCEPT ![r] = x]
        /\ x.pc = "idle" \/ (r = "tick" /\ x.pc \in {"missing", "digest"})
  BY <1>3
<1>5. RunKept(r, x)
  BY <1>4, RestsEasy
<1> QED BY <1>0, <1>1, <1>2, <1>4, <1>5, RunGoes

(* What a run brings to its publish. *)
LEMMA Brought ==
  ASSUME run \in [Rg!Runs -> RunRecords], NEW r \in Rg!Runs, NEW key \in 0..MaxIssues, NEW own \in BOOLEAN,
         NEW new \in Rg!Pages, NEW lead \in 0..MaxIssues, Rg!Bring(r, key, own, new, lead)
  PROVE  \E x \in RunRecords :
           /\ run' = [run EXCEPT ![r] = x]
           /\ x.pc = "render" /\ x.key = key /\ x.new = new /\ x.lead = lead
<1>1. [Rg!Idle EXCEPT !.pc = "render", !.key = key, !.own = own, !.new = new, !.lead = lead]
        \in RunRecords
  BY IdleType DEF RunRecords
<1>2. \A x : x = [Rg!Idle EXCEPT !.pc = "render", !.key = key, !.own = own, !.new = new,
                                !.lead = lead] =>
        x.pc = "render" /\ x.key = key /\ x.new = new /\ x.lead = lead
  BY DEF Rg!Idle
<1> QED BY <1>1, <1>2 DEF Rg!Bring

LEMMA RepublishStep == SiteInv /\ Rg!Republish => SiteInv'
<1> SUFFICES ASSUME SiteInv, Rg!Republish PROVE SiteInv'
  OBVIOUS
<1>0. /\ Rg!TypeOK /\ StoredFirst
      /\ live \in [pages : Rg!Pages, index : SUBSET Rg!Issues, head : Rg!Issues]
      /\ run \in [Rg!Runs -> RunRecords] /\ reruns \in 0..Reruns /\ mishaps \in 0..Mishaps
      /\ digests \in Rg!Pages /\ manifest \in Rg!Pages /\ slot \in Rg!Issues /\ lastSaved \in Rg!Issues
  BY SiteTypes DEF SiteInv
<1>1. UNCHANGED <<digests, lastSaved, manifest, live, slot, done, written, overtaken, reruns, mishaps>>
  BY DEF Rg!Republish, Rg!stores, Rg!ticks, Rg!bounds
<1>2. "tick" \in Rg!Runs /\ 0 \in 0..MaxIssues /\ lastSaved \in 0..MaxIssues
  BY <1>0, BoundsAssumption DEF Rg!Runs, Rg!Issues
<1> DEFINE missing == Rg!Missing(Rg!Names(digests), Rg!Names(manifest))
           new == [i \in Rg!Issues |-> IF i \in missing THEN digests[i] ELSE 0]
<1>3. CASE missing = {}
  <2> DEFINE x == [run["tick"] EXCEPT !.pc = "digest"]
  <2>1. x \in RunRecords /\ x.pc = "digest"
    BY <1>0, <1>2 DEF RunRecords
  <2>2. run' = [run EXCEPT !["tick"] = x]
    BY <1>0, <1>2, <1>3 DEF Rg!Republish, Rg!Goto
  <2> HIDE DEF x
  <2>3. RunKept("tick", x)
    BY <1>2, <2>1, RestsEasy
  <2> QED BY <1>0, <1>1, <1>2, <2>1, <2>2, <2>3, RunGoes DEF StoredFirst
<1>4. CASE missing # {}
  <2>1. /\ new \in Rg!Pages
        /\ \A i \in Rg!Issues : /\ new[i] = 0 \/ new[i] = digests[i]
                                /\ digests[i] > 0 => new[i] > 0 \/ manifest[i] > 0
    <3>1. 0 \in 0..Writes
      BY BoundsAssumption
    <3>2. \A i \in Rg!Issues : digests[i] \in 0..Writes /\ manifest[i] \in 0..Writes
      BY <1>0 DEF Rg!Pages
    <3> QED BY <3>1, <3>2 DEF Rg!Pages, Rg!Missing, Rg!Names
  <2>2. PICK own \in BOOLEAN : Rg!Bring("tick", 0, own, new, lastSaved)
    BY <1>4 DEF Rg!Republish
  <2> HIDE DEF new, missing
  <2>3. PICK x \in RunRecords :
          /\ run' = [run EXCEPT !["tick"] = x]
          /\ x.pc = "render" /\ x.key = 0 /\ x.new = new /\ x.lead = lastSaved
    BY <1>0, <1>2, <2>1, <2>2, Brought
  <2>4. \A i \in Rg!Issues : digests[i] \in Nat /\ manifest[i] \in Nat /\ manifest[i] <= digests[i]
    BY <1>0 DEF Rg!Pages, StoredFirst
  <2>5. InHand(x)
    <3>1. lastSaved \in 1..slot
      BY <1>0 DEF StoredFirst, Rg!Issues
    <3> QED BY <2>1, <2>3, <2>4, <3>1 DEF InHand, Loaded, Publishing
  <2>6. ~overtaken => LeadsWithNewest("tick", x)
    <3>1. ~overtaken => lastSaved = slot
      BY DEF SiteInv
    <3>2. digests[slot] > 0
      BY <1>0 DEF StoredFirst
    <3> QED BY <1>0, <2>1, <2>3, <3>1, <3>2 DEF LeadsWithNewest
  <2>7. RunKept("tick", x)
    BY <2>5, <2>6 DEF RunKept
  <2> QED BY <1>0, <1>1, <1>2, <2>3, <2>7, RunGoes DEF StoredFirst
<1> QED BY <1>3, <1>4

LEMMA DigestStep == SiteInv /\ Rg!Digest => SiteInv'
<1> SUFFICES ASSUME SiteInv, Rg!Digest PROVE SiteInv'
  OBVIOUS
<1>0. /\ StoredFirst
      /\ live \in [pages : Rg!Pages, index : SUBSET Rg!Issues, head : Rg!Issues]
      /\ run \in [Rg!Runs -> RunRecords] /\ reruns \in 0..Reruns /\ mishaps \in 0..Mishaps
      /\ digests \in Rg!Pages /\ manifest \in Rg!Pages /\ slot \in Rg!Issues /\ lastSaved \in Rg!Issues
      /\ written \in 1..Writes /\ \A r \in Rg!Runs : RunKept(r, run[r])
  BY SiteTypes DEF SiteInv
<1>1. written < Writes /\ written + 1 \in 0..Writes /\ written' = written + 1 /\ written' \in 1..Writes
  BY <1>0, BoundsAssumption DEF Rg!Digest
<1>2. UNCHANGED <<manifest, live, reruns, mishaps>> /\ done' = FALSE
  BY DEF Rg!Digest
<1>3. PICK key \in Rg!Issues :
        /\ key \in {slot, slot + 1}
        /\ digests' = [digests EXCEPT ![key] = written + 1]
        /\ lastSaved' = key /\ slot' = key
        /\ Rg!Bring("tick", key, TRUE, Rg!Only(key, written + 1), key)
        /\ overtaken' = (run["hand"].pc # "idle" /\ run["hand"].key < key)
  BY DEF Rg!Digest
<1>4. "tick" \in Rg!Runs /\ "hand" \in Rg!Runs /\ key \in 0..MaxIssues
  BY DEF Rg!Runs, Rg!Issues
<1>5. /\ Rg!Only(key, written + 1) \in Rg!Pages
      /\ \A j \in Rg!Issues : Rg!Only(key, written + 1)[j] = IF j = key THEN written + 1 ELSE 0
  BY <1>1, OnlyType
<1>6. PICK own \in BOOLEAN : Rg!Bring("tick", key, own, Rg!Only(key, written + 1), key)
  BY <1>3
<1>7. PICK x \in RunRecords :
        /\ run' = [run EXCEPT !["tick"] = x]
        /\ x.pc = "render" /\ x.new = Rg!Only(key, written + 1) /\ x.lead = key
  BY <1>0, <1>4, <1>5, <1>6, Brought
<1>8. \A i \in Rg!Issues : /\ digests[i] \in Nat /\ manifest[i] \in Nat /\ digests[i] <= written
                           /\ manifest[i] <= digests[i] /\ i \in Nat /\ i >= 1
  BY <1>0 DEF Rg!Pages, StoredFirst, Rg!Issues
<1>9. /\ digests' \in Rg!Pages /\ digests'[key] = written + 1
      /\ \A i \in Rg!Issues : i # key => digests'[i] = digests[i]
  BY <1>0, <1>1, <1>3 DEF Rg!Pages
<1>10. \A i \in Rg!Issues : digests[i] <= digests'[i]
  BY <1>0, <1>8, <1>9
<1>11. slot' >= slot /\ slot' = key /\ slot \in Nat /\ key \in Nat
  BY <1>0, <1>3 DEF Rg!Issues
<1>12. StoredFirst'
  <2>1. \A i \in Rg!Issues : /\ i > slot' => digests'[i] = 0
                             /\ digests'[i] <= written'
                             /\ manifest'[i] <= digests'[i]
    <3> SUFFICES ASSUME NEW i \in Rg!Issues
                 PROVE  /\ i > slot' => digests'[i] = 0
                        /\ digests'[i] <= written' /\ manifest[i] <= digests'[i]
      BY <1>2
    <3>1. i > slot' => i # key /\ i > slot
      BY <1>8, <1>11
    <3> QED BY <1>0, <1>1, <1>8, <1>9, <1>10, <3>1 DEF StoredFirst
  <2>2. live'.head <= slot'
    BY <1>0, <1>2, <1>11 DEF StoredFirst, Rg!Issues
  <2>3. digests'[slot'] > 0 /\ lastSaved' <= slot' /\ manifest'[1] > 0
    BY <1>0, <1>2, <1>3, <1>8, <1>9 DEF StoredFirst
  <2> QED BY <2>1, <2>2, <2>3 DEF StoredFirst
<1>13. run' \in [Rg!Runs -> RunRecords] /\ run'["tick"] = x /\ run'["hand"] = run["hand"]
  BY <1>0, <1>4, <1>7
<1>14. Rg!TypeOK'
  <2>1. overtaken' \in BOOLEAN /\ done' \in BOOLEAN
    BY <1>2, <1>3
  <2>2. lastSaved' \in Rg!Issues /\ slot' \in Rg!Issues
    BY <1>3
  <2>3. /\ digests' \in Rg!Pages /\ manifest' \in Rg!Pages
        /\ live' \in [pages : Rg!Pages, index : SUBSET Rg!Issues, head : Rg!Issues]
        /\ reruns' \in 0..Reruns /\ mishaps' \in 0..Mishaps
    BY <1>0, <1>2, <1>9
  <2> QED BY <1>1, <1>13, <2>1, <2>2, <2>3 DEF Rg!TypeOK, RunRecords
<1>15. RunKept("tick", x)'
  <2>1. InHand(x)'
    <3>1. \A i \in Rg!Issues : /\ x.new[i] <= digests'[i]
                               /\ x.new[i] > 0 /\ i \notin x.raced => x.new[i] >= manifest'[i]
      BY <1>0, <1>2, <1>5, <1>7, <1>8, <1>9
    <3>2. x.lead \in 1..slot'
      BY <1>3, <1>7 DEF Rg!Issues
    <3> QED BY <1>7, <3>1, <3>2 DEF InHand, Loaded, Publishing
  <2>2. LeadsWithNewest("tick", x)'
    BY <1>0, <1>3, <1>5, <1>7 DEF LeadsWithNewest, Rg!Issues
  <2> QED BY <2>1, <2>2 DEF RunKept
<1>16. RunKept("hand", run["hand"])'
  <2>1. PICK h \in RunRecords : h = run["hand"] /\ h = run'["hand"] /\ RunKept("hand", h)
    BY <1>0, <1>4, <1>13
  <2>2. \A i \in Rg!Issues : h.new[i] \in Nat /\ h.kept[i] \in Nat /\ digests'[i] \in Nat
    BY <1>9, <2>1 DEF RunRecords, Rg!Pages
  <2>3. InHand(h)'
    <3>1. \A i \in Rg!Issues : /\ h.new[i] <= digests[i] => h.new[i] <= digests'[i]
                               /\ h.kept[i] <= digests[i] => h.kept[i] <= digests'[i]
      BY <1>8, <1>10, <2>2
    <3>2. \A i : i \in 1..slot => i \in 1..slot'
      BY <1>11
    <3>3. \A i \in Rg!Issues : i <= slot => i <= slot'
      BY <1>8, <1>11
    <3>4. h.listed \subseteq Rg!Issues
      BY DEF RunRecords
    <3> QED BY <1>2, <2>1, <3>1, <3>2, <3>3, <3>4 DEF RunKept, InHand
  <2>4. HandHas(h)'
    BY <1>11, <2>1 DEF RunKept, HandHas
  <2>5. ~overtaken' => LeadsWithNewest("hand", h)'
    <3> SUFFICES ASSUME ~overtaken' PROVE LeadsWithNewest("hand", h)'
      OBVIOUS
    <3>1. h.pc # "idle" => ~(h.key < key) /\ h.key \in 1..slot
      BY <1>3, <2>1 DEF RunKept, HandHas
    <3>2. h.pc # "idle" => h.key = slot'
      BY <1>11, <3>1
    <3> QED BY <2>1, <3>2 DEF RunKept, HandHas, LeadsWithNewest, Publishing, Loaded
  <2> QED BY <2>1, <2>3, <2>4, <2>5 DEF RunKept
<1>17. (~overtaken => lastSaved = slot)'
  BY <1>3
<1>18. \A r \in Rg!Runs : RunKept(r, run[r])'
  <2>1. RunKept("tick", run["tick"])'
    BY <1>13, <1>15 DEF RunKept, InHand, LeadsWithNewest
  <2> QED BY <1>16, <2>1 DEF Rg!Runs
<1> QED BY <1>12, <1>14, <1>17, <1>18 DEF SiteInv

LEMMA StoreRerunStep == SiteInv /\ Rg!StoreRerun => SiteInv'
<1> SUFFICES ASSUME SiteInv, Rg!StoreRerun PROVE SiteInv'
  OBVIOUS
<1>0. /\ StoredFirst
      /\ live \in [pages : Rg!Pages, index : SUBSET Rg!Issues, head : Rg!Issues]
      /\ run \in [Rg!Runs -> RunRecords] /\ reruns \in 0..Reruns /\ mishaps \in 0..Mishaps
      /\ digests \in Rg!Pages /\ manifest \in Rg!Pages /\ slot \in Rg!Issues /\ lastSaved \in Rg!Issues
      /\ written \in 1..Writes /\ overtaken \in BOOLEAN /\ done \in BOOLEAN
      /\ \A r \in Rg!Runs : RunKept(r, run[r])
  BY SiteTypes DEF SiteInv
<1>1. written < Writes /\ written + 1 \in 0..Writes /\ written' = written + 1 /\ written' \in 1..Writes
  BY <1>0, BoundsAssumption DEF Rg!StoreRerun
<1>2. UNCHANGED <<manifest, live, slot, done, reruns, mishaps, overtaken>>
  BY DEF Rg!StoreRerun, Rg!ticks
<1>3. "tick" \in Rg!Runs /\ "hand" \in Rg!Runs
  BY DEF Rg!Runs
<1>4. run["hand"].pc = "store" /\ run["hand"].key \in 1..slot
  <2>1. RunKept("hand", run["hand"]) /\ run["hand"].pc = "store"
    BY <1>0, <1>3 DEF Rg!StoreRerun
  <2> QED BY <2>1 DEF RunKept, HandHas
<1>5. PICK key \in 1..slot :
        /\ key = run["hand"].key
        /\ digests' = [digests EXCEPT ![key] = written + 1]
        /\ lastSaved' = key
        /\ Rg!Bring("hand", key, TRUE, Rg!Only(key, written + 1), key)
  BY <1>4 DEF Rg!StoreRerun
<1>6. key \in Rg!Issues /\ key \in 0..MaxIssues
  BY <1>0, BoundsAssumption DEF Rg!Issues
<1>7. /\ Rg!Only(key, written + 1) \in Rg!Pages
      /\ \A j \in Rg!Issues : Rg!Only(key, written + 1)[j] = IF j = key THEN written + 1 ELSE 0
  BY <1>1, OnlyType
<1>8. PICK own \in BOOLEAN : Rg!Bring("hand", key, own, Rg!Only(key, written + 1), key)
  BY <1>5
<1>9. PICK x \in RunRecords :
        /\ run' = [run EXCEPT !["hand"] = x]
        /\ x.pc = "render" /\ x.key = key /\ x.new = Rg!Only(key, written + 1) /\ x.lead = key
  BY <1>0, <1>3, <1>6, <1>7, <1>8, Brought
<1>10. \A i \in Rg!Issues : /\ digests[i] \in Nat /\ manifest[i] \in Nat /\ digests[i] <= written
                            /\ manifest[i] <= digests[i]
  BY <1>0 DEF Rg!Pages, StoredFirst
<1>11. /\ digests' \in Rg!Pages /\ digests'[key] = written + 1
       /\ \A i \in Rg!Issues : i # key => digests'[i] = digests[i]
       /\ \A i \in Rg!Issues : digests[i] <= digests'[i]
  BY <1>0, <1>1, <1>5, <1>6, <1>10 DEF Rg!Pages
<1>12. StoredFirst'
  <2>1. \A i \in Rg!Issues : /\ i > slot' => digests'[i] = 0
                             /\ digests'[i] <= written'
                             /\ manifest'[i] <= digests'[i]
    <3> SUFFICES ASSUME NEW i \in Rg!Issues
                 PROVE  /\ i > slot => digests'[i] = 0
                        /\ digests'[i] <= written' /\ manifest[i] <= digests'[i]
      BY <1>2
    <3>1. i > slot => i # key
      BY <1>0 DEF Rg!Issues
    <3> QED BY <1>0, <1>1, <1>10, <1>11, <3>1 DEF StoredFirst
  <2>2. digests'[slot'] > 0 /\ lastSaved' <= slot' /\ manifest'[1] > 0 /\ live'.head <= slot'
    BY <1>0, <1>1, <1>2, <1>5, <1>10, <1>11 DEF StoredFirst, Rg!Issues
  <2> QED BY <2>1, <2>2 DEF StoredFirst
<1>13. run' \in [Rg!Runs -> RunRecords] /\ run'["hand"] = x /\ run'["tick"] = run["tick"]
  BY <1>0, <1>3, <1>9
<1>14. Rg!TypeOK'
  <2>1. overtaken' \in BOOLEAN /\ done' \in BOOLEAN /\ lastSaved' \in Rg!Issues /\ slot' \in Rg!Issues
    BY <1>0, <1>2, <1>5, <1>6
  <2>2. /\ digests' \in Rg!Pages /\ manifest' \in Rg!Pages
        /\ live' \in [pages : Rg!Pages, index : SUBSET Rg!Issues, head : Rg!Issues]
        /\ reruns' \in 0..Reruns /\ mishaps' \in 0..Mishaps
    BY <1>0, <1>2, <1>11
  <2> QED BY <1>1, <1>13, <2>1, <2>2 DEF Rg!TypeOK, RunRecords
<1>15. ~overtaken => key = slot
  <2>1. RunKept("hand", run["hand"])
    BY <1>0, <1>3
  <2> QED BY <1>4, <1>5, <2>1 DEF RunKept, LeadsWithNewest
<1>16. RunKept("hand", x)'
  <2>1. InHand(x)'
    <3>1. \A i \in Rg!Issues : /\ x.new[i] <= digests'[i]
                               /\ x.new[i] > 0 /\ i \notin x.raced => x.new[i] >= manifest'[i]
      BY <1>0, <1>2, <1>7, <1>9, <1>10, <1>11
    <3> QED BY <1>2, <1>9, <3>1 DEF InHand, Loaded, Publishing
  <2>2. x.new[x.key] > 0
    BY <1>0, <1>6, <1>7, <1>9
  <2>3. HandHas(x)'
    BY <1>2, <1>9, <2>2 DEF HandHas, Publishing
  <2>4. ~overtaken' => LeadsWithNewest("hand", x)'
    BY <1>2, <1>9, <1>15, <2>2 DEF LeadsWithNewest
  <2> QED BY <2>1, <2>3, <2>4 DEF RunKept
<1>17. RunKept("tick", run["tick"])'
  <2>1. PICK h \in RunRecords : h = run["tick"] /\ h = run'["tick"] /\ RunKept("tick", h)
    BY <1>0, <1>3, <1>13
  <2>2. \A i \in Rg!Issues : h.new[i] \in Nat /\ h.kept[i] \in Nat /\ digests'[i] \in Nat
    BY <1>11, <2>1 DEF RunRecords, Rg!Pages
  <2>3. \A i \in Rg!Issues : /\ h.new[i] <= digests[i] => h.new[i] <= digests'[i]
                             /\ h.kept[i] <= digests[i] => h.kept[i] <= digests'[i]
    BY <1>10, <1>11, <2>2
  <2>4. InHand(h)'
    BY <1>2, <2>1, <2>3 DEF RunKept, InHand
  <2>5. ~overtaken' => LeadsWithNewest("tick", h)'
    BY <1>2, <2>1 DEF RunKept, LeadsWithNewest
  <2> QED BY <2>1, <2>4, <2>5 DEF RunKept
<1>18. (~overtaken => lastSaved = slot)'
  BY <1>2, <1>5, <1>15
<1>19. \A r \in Rg!Runs : RunKept(r, run[r])'
  <2>1. RunKept("hand", run["hand"])'
    BY <1>13, <1>16 DEF RunKept, InHand, HandHas, LeadsWithNewest
  <2> QED BY <1>17, <2>1 DEF Rg!Runs
<1> QED BY <1>12, <1>14, <1>18, <1>19 DEF SiteInv

(* The other steps of a publish that leave the stores alone.               *)
LEMMA PublishSteps ==
  ASSUME SiteInv, Rg!Regenerate \/ \E r \in Rg!Runs : Rg!Render(r) \/ Rg!Load(r) \/ Rg!Guard(r) \/ Rg!Deploy(r)
  PROVE  SiteInv'
<1>0. /\ StoredFirst /\ live.head <= slot
      /\ live \in [pages : Rg!Pages, index : SUBSET Rg!Issues, head : Rg!Issues]
      /\ run \in [Rg!Runs -> RunRecords] /\ reruns \in 0..Reruns /\ mishaps \in 0..Mishaps
      /\ digests \in Rg!Pages /\ manifest \in Rg!Pages /\ slot \in Rg!Issues
      /\ \A r \in Rg!Runs : RunKept(r, run[r])
  BY SiteTypes DEF SiteInv, StoredFirst
<1>1. \A i \in Rg!Issues : /\ digests[i] \in Nat /\ manifest[i] \in Nat
                           /\ manifest[i] <= digests[i] /\ (i > slot => digests[i] = 0)
                           /\ i \in Nat /\ i >= 1
  BY <1>0 DEF Rg!Pages, StoredFirst, Rg!Issues
<1>2. 1 \in Rg!Issues /\ slot \in Nat
  BY <1>0, BoundsAssumption DEF Rg!Issues
<1>3. CASE Rg!Regenerate
  <2>1. PICK key \in Rg!Regenerable(Rg!Names(digests)) :
          run' = [run EXCEPT !["hand"].pc = "store", !["hand"].key = key]
    BY <1>3 DEF Rg!Regenerate
  <2>2. key = slot
    <3>1. key \in Rg!Issues /\ digests[key] > 0 /\ \A j \in Rg!Issues : digests[j] > 0 => j <= key
      BY DEF Rg!Regenerable, Rg!Names
    <3>2. slot <= key
      BY <1>0, <3>1 DEF StoredFirst
    <3>3. ~(key > slot)
      BY <1>1, <3>1
    <3> QED BY <1>0, <3>1, <3>2, <3>3 DEF Rg!Issues
  <2>3. "hand" \in Rg!Runs /\ slot \in 0..MaxIssues /\ reruns' \in 0..Reruns
    <3>1. reruns < Reruns /\ reruns' = reruns + 1
      BY <1>3 DEF Rg!Regenerate
    <3>2. slot \in 0..MaxIssues
      BY <1>0, BoundsAssumption DEF Rg!Issues
    <3> QED BY <1>0, <3>1, <3>2, BoundsAssumption DEF Rg!Runs
  <2> DEFINE x == [run["hand"] EXCEPT !.pc = "store", !.key = slot]
  <2>4. x \in RunRecords /\ x.pc = "store" /\ x.key = slot
    BY <1>0, <2>3 DEF RunRecords
  <2>5. run' = [run EXCEPT !["hand"] = x]
    BY <1>0, <2>1, <2>2, <2>3
  <2> HIDE DEF x
  <2>6. RunKept("hand", x)
    BY <1>1, <1>0, <2>4 DEF RunKept, InHand, HandHas, LeadsWithNewest, Publishing, Loaded
  <2>7. UNCHANGED <<digests, lastSaved, manifest, live, slot, done, written, overtaken, mishaps>>
    BY <1>3 DEF Rg!Regenerate, Rg!stores, Rg!ticks
  <2> QED BY <1>0, <2>3, <2>4, <2>5, <2>6, <2>7, RunGoes
<1>4. ASSUME NEW r \in Rg!Runs, Rg!Render(r) \/ Rg!Load(r) \/ Rg!Guard(r) \/ Rg!Deploy(r)
      PROVE  SiteInv'
  <2> PICK y \in RunRecords : y = run[r]
    BY <1>0
  <2>0. RunKept(r, y)
    BY <1>0
  <2>1. UNCHANGED <<digests, lastSaved, manifest, slot, done, written, overtaken, reruns, mishaps>>
    BY <1>4 DEF Rg!Render, Rg!Load, Rg!Guard, Rg!Deploy, Rg!stores, Rg!ticks, Rg!bounds
  <2>2. y.new \in Rg!Pages /\ \A i \in Rg!Issues : y.new[i] \in Nat
    BY DEF RunRecords, Rg!Pages
  <2>3. CASE Rg!Render(r)
    <3> DEFINE l == Rg!Names(manifest) \cup Rg!Names(y.new)
               x == [y EXCEPT !.pc = "load", !.listed = l]
    <3>1. l \in SUBSET Rg!Issues
      BY DEF Rg!Names
    <3>2. \A i \in Rg!Issues : i \in l <=> manifest[i] > 0 \/ y.new[i] > 0
      BY DEF Rg!Names
    <3> HIDE DEF l
    <3>3. /\ x \in RunRecords /\ x.pc = "load" /\ x.listed = l /\ x.new = y.new /\ x.key = y.key
          /\ x.lead = y.lead /\ x.raced = y.raced
      BY <3>1 DEF RunRecords
    <3>4. run' = [run EXCEPT ![r] = x] /\ UNCHANGED live /\ y.pc = "render"
      BY <1>0, <2>3 DEF Rg!Render, l
    <3> HIDE DEF x
    <3>5. l # {} /\ \A i \in l : i <= slot
      <4>1. 1 \in l
        BY <1>0, <1>2, <3>2 DEF StoredFirst
      <4>2. ASSUME NEW i \in l PROVE ~(i > slot)
        <5>1. i \in Rg!Issues /\ (manifest[i] > 0 \/ y.new[i] > 0)
          BY <3>1, <3>2
        <5>2. y.new[i] <= digests[i]
          BY <2>0, <3>4, <5>1 DEF RunKept, InHand, Publishing
        <5> QED BY <1>1, <2>2, <5>1, <5>2
      <4>3. \A i \in l : i \in Nat
        BY <1>1, <3>1
      <4> QED BY <1>2, <4>1, <4>2, <4>3
    <3>6. InHand(x)
      BY <2>0, <3>3, <3>4, <3>5 DEF RunKept, InHand, Publishing, Loaded
    <3>7. r = "hand" => HandHas(x)
      <4> SUFFICES ASSUME r = "hand" PROVE HandHas(x)
        OBVIOUS
      <4>1. /\ y.key \in 1..slot /\ y.lead = y.key /\ y.new[y.key] > 0
        BY <2>0, <3>4 DEF RunKept, HandHas, Publishing
      <4>2. y.key \in Rg!Issues
        BY <1>0, <4>1, BoundsAssumption DEF Rg!Issues
      <4> QED BY <3>2, <3>3, <4>1, <4>2 DEF HandHas, Publishing
    <3>8. ~overtaken => LeadsWithNewest(r, x)
      BY <1>0, <2>0, <3>2, <3>3, <3>4 DEF RunKept, LeadsWithNewest, Publishing
    <3> QED BY <1>0, <2>1, <3>3, <3>4, <3>6, <3>7, <3>8, RunGoes DEF RunKept
  <2>4. CASE Rg!Load(r)
    <3> DEFINE x == [y EXCEPT !.pc = "guard", !.kept = manifest]
    <3>1. /\ x \in RunRecords /\ x.pc = "guard" /\ x.listed = y.listed /\ x.new = y.new
          /\ x.key = y.key /\ x.lead = y.lead /\ x.raced = y.raced /\ x.kept = manifest
      BY <1>0 DEF RunRecords
    <3>2. run' = [run EXCEPT ![r] = x] /\ UNCHANGED live /\ y.pc = "load"
      BY <1>0, <2>4 DEF Rg!Load
    <3> HIDE DEF x
    <3>3. InHand(x)
      <4>1. manifest[1] > 0
        BY <1>0 DEF StoredFirst
      <4> QED BY <1>1, <2>0, <3>1, <3>2, <4>1 DEF RunKept, InHand, Publishing, Loaded
    <3>4. RunKept(r, x)
      BY <2>0, <3>1, <3>2, <3>3 DEF RunKept, HandHas, LeadsWithNewest, Publishing, Loaded
    <3> QED BY <1>0, <2>1, <3>1, <3>2, <3>4, RunGoes
  <2>5. CASE Rg!Guard(r)
    <3>1. CASE Rg!Return(r)
      BY <2>5, <3>1, QuietSteps
    <3>2. CASE Rg!Goto(r, "deploy")
      <4> DEFINE x == [y EXCEPT !.pc = "deploy"]
      <4>1. /\ x \in RunRecords /\ x.pc = "deploy" /\ x.listed = y.listed /\ x.new = y.new
            /\ x.key = y.key /\ x.lead = y.lead /\ x.raced = y.raced /\ x.kept = y.kept
        BY DEF RunRecords
      <4>2. run' = [run EXCEPT ![r] = x] /\ UNCHANGED live /\ y.pc = "guard"
        BY <1>0, <2>5, <3>2 DEF Rg!Guard, Rg!Goto
      <4> HIDE DEF x
      <4>3. RunKept(r, x)
        BY <2>0, <4>1, <4>2 DEF RunKept, InHand, HandHas, LeadsWithNewest, Publishing, Loaded
      <4> QED BY <1>0, <2>1, <4>1, <4>2, <4>3, RunGoes
    <3> QED BY <2>5, <3>1, <3>2 DEF Rg!Guard
  <2>6. CASE Rg!Deploy(r)
    <3> DEFINE x == [y EXCEPT !.pc = "save"]
               head == Rg!Headline(y.lead, y.listed)
    <3>1. /\ x \in RunRecords /\ x.pc = "save" /\ x.listed = y.listed /\ x.new = y.new
          /\ x.key = y.key /\ x.lead = y.lead /\ x.raced = y.raced /\ x.kept = y.kept
      BY DEF RunRecords
    <3>2. run' = [run EXCEPT ![r] = x] /\ y.pc = "deploy"
      BY <1>0, <2>6 DEF Rg!Deploy, Rg!Goto
    <3>3. RunKept(r, x)
      <4> HIDE DEF x
      <4> QED BY <2>0, <3>1, <3>2 DEF RunKept, InHand, HandHas, LeadsWithNewest, Publishing, Loaded
    <3>4. y.listed \in SUBSET Rg!Issues /\ y.listed # {} /\ \A i \in y.listed : i <= slot
      BY <2>0, <3>2 DEF RunKept, InHand, Publishing, Loaded, RunRecords
    <3>5. head \in y.listed
      BY <3>4, HeadlineListed
    <3>6. live' = [pages |-> Rg!Over(y.kept, y.new), index |-> y.listed, head |-> head]
      BY <2>6 DEF Rg!Deploy
    <3> HIDE DEF x, head
    <3>7. live' \in [pages : Rg!Pages, index : SUBSET Rg!Issues, head : Rg!Issues] /\ live'.head <= slot
      <4>1. Rg!Over(y.kept, y.new) \in Rg!Pages
        BY OverType DEF RunRecords
      <4> QED BY <3>4, <3>5, <3>6, <4>1
    <3> QED BY <1>0, <2>1, <3>1, <3>2, <3>3, <3>7, RunGoes
  <2> QED BY <1>4, <2>3, <2>4, <2>5, <2>6
<1> QED BY <1>3, <1>4

LEMMA SaveStep ==
  ASSUME SiteInv, NEW r \in Rg!Runs, Rg!Save(r)
  PROVE  SiteInv'
<1>0. /\ StoredFirst /\ live.head <= slot
      /\ live \in [pages : Rg!Pages, index : SUBSET Rg!Issues, head : Rg!Issues]
      /\ run \in [Rg!Runs -> RunRecords] /\ reruns \in 0..Reruns /\ mishaps \in 0..Mishaps
      /\ digests \in Rg!Pages /\ manifest \in Rg!Pages /\ slot \in Rg!Issues
      /\ \A s \in Rg!Runs : RunKept(s, run[s])
  BY SiteTypes DEF SiteInv, StoredFirst
<1> PICK y \in RunRecords : y = run[r]
  BY <1>0
<1>1. UNCHANGED <<digests, lastSaved, live, slot, written, reruns, mishaps, overtaken>> /\ y.pc = "save"
  BY DEF Rg!Save, Rg!bounds
<1>2. manifest' = Rg!Over(y.kept, y.new)
  BY DEF Rg!Save
<1> DEFINE changed == {i \in Rg!Issues : manifest'[i] # manifest[i]}
           next == IF r = "tick" /\ ~run[r].own THEN [Rg!Idle EXCEPT !.pc = "digest"] ELSE Rg!Idle
<1>3. run' = [s \in Rg!Runs |->
               IF s = r THEN next
               ELSE IF run[s].pc \in {"render", "load", "guard", "deploy", "save"}
                    THEN [run[s] EXCEPT !.raced = @ \cup changed] ELSE run[s]]
  BY DEF Rg!Save
<1>4. next \in RunRecords /\ (next.pc = "idle" \/ (r = "tick" /\ next.pc = "digest"))
  BY IdleType
<1>5. changed \in SUBSET Rg!Issues
  OBVIOUS
<1>6. /\ manifest' \in Rg!Pages
      /\ \A j \in Rg!Issues : manifest'[j] = IF y.new[j] > 0 THEN y.new[j] ELSE y.kept[j]
  BY <1>2, OverType DEF RunRecords
<1>7. RunKept(r, y)
  BY <1>0
<1>8. /\ \A i \in Rg!Issues : y.new[i] <= digests[i] /\ y.kept[i] <= digests[i]
      /\ y.kept[1] > 0
  BY <1>1, <1>7 DEF RunKept, InHand, Publishing, Loaded
<1>9. /\ y.new \in Rg!Pages /\ y.kept \in Rg!Pages /\ 1 \in Rg!Issues
      /\ \A i \in Rg!Issues : y.new[i] \in Nat /\ y.kept[i] \in Nat /\ digests[i] \in Nat
  <2>1. y.new \in Rg!Pages /\ y.kept \in Rg!Pages
    BY DEF RunRecords
  <2>2. 1 \in Rg!Issues
    BY BoundsAssumption DEF Rg!Issues
  <2> QED BY <1>0, <2>1, <2>2 DEF Rg!Pages
<1> HIDE DEF next, changed
<1>10. StoredFirst'
  <2>1. \A i \in Rg!Issues : manifest'[i] <= digests[i]
    BY <1>6, <1>8
  <2>2. manifest'[1] > 0
    BY <1>6, <1>8, <1>9
  <2> QED BY <1>0, <1>1, <2>1, <2>2 DEF StoredFirst
<1>11. \A s \in Rg!Runs : run'[s] \in RunRecords
  BY <1>0, <1>3, <1>4, <1>5 DEF RunRecords
<1>12. Rg!TypeOK'
  <2>1. done' \in BOOLEAN
    BY DEF Rg!Save, SiteInv, Rg!TypeOK
  <2>2. run' \in [Rg!Runs -> RunRecords]
    BY <1>3, <1>11
  <2>3. Rg!TypeOK
    BY DEF SiteInv
  <2> QED BY <1>1, <1>6, <2>1, <2>2, <2>3 DEF Rg!TypeOK, RunRecords
<1>13. ASSUME NEW s \in Rg!Runs, s # r PROVE RunKept(s, run[s])'
  <2> PICK z \in RunRecords : z = run[s]
    BY <1>0
  <2>1. RunKept(s, z)
    BY <1>0
  <2> PICK x \in RunRecords : x = run'[s]
    BY <1>11
  <2>2. CASE z.pc \in Publishing
    <3>1. x = [z EXCEPT !.raced = @ \cup changed]
      BY <1>3, <1>13, <2>2 DEF Publishing, Loaded
    <3>2. /\ x.pc = z.pc /\ x.listed = z.listed /\ x.new = z.new /\ x.key = z.key /\ x.lead = z.lead
          /\ x.kept = z.kept /\ x.raced = z.raced \cup changed
      BY <3>1 DEF RunRecords
    <3>3. \A i \in Rg!Issues : i \notin x.raced => i \notin z.raced /\ manifest'[i] = manifest[i]
      BY <3>2 DEF changed
    <3>4. InHand(x)'
      BY <1>1, <2>1, <3>2, <3>3 DEF RunKept, InHand
    <3>5. s = "hand" => HandHas(x)'
      BY <1>1, <2>1, <3>2 DEF RunKept, HandHas
    <3>6. ~overtaken' => LeadsWithNewest(s, x)'
      <4> SUFFICES ASSUME ~overtaken PROVE LeadsWithNewest(s, x)'
        BY <1>1
      <4>1. LeadsWithNewest(s, z)
        BY <2>1 DEF RunKept
      <4>2. x.pc = "render" => x.new[slot] > 0 \/ manifest'[slot] > 0
        <5>1. CASE s = "hand"
          BY <2>1, <2>2, <3>2, <4>1, <5>1 DEF RunKept, HandHas, LeadsWithNewest, Publishing
        <5>2. CASE r = "hand"
          <6>1. y.key = slot /\ y.new[slot] > 0
            BY <1>1, <1>7, <5>2 DEF RunKept, HandHas, LeadsWithNewest, Publishing, Loaded
          <6> QED BY <1>0, <1>6, <6>1
        <5> QED BY <1>13, <5>1, <5>2 DEF Rg!Runs
      <4> QED BY <1>1, <3>2, <4>1, <4>2 DEF LeadsWithNewest
    <3> QED BY <3>4, <3>5, <3>6 DEF RunKept
  <2>3. CASE z.pc \notin Publishing
    <3>1. x = z
      BY <1>3, <1>13, <2>3 DEF Publishing, Loaded
    <3>2. RunKept(s, x)'
      BY <1>1, <2>1, <2>3, <3>1 DEF RunKept, InHand, HandHas, LeadsWithNewest, Publishing, Loaded
    <3> QED BY <3>2
  <2> QED BY <2>2, <2>3
<1>14. RunKept(r, run[r])'
  <2> PICK x \in RunRecords : x = run'[r] /\ x = next
    BY <1>3, <1>4
  <2>1. RunKept(r, x)'
    BY <1>4 DEF RunKept, InHand, HandHas, LeadsWithNewest, Publishing, Loaded
  <2> QED BY <2>1
<1>15. (~overtaken => lastSaved = slot)'
  BY <1>1 DEF SiteInv
<1> QED BY <1>10, <1>12, <1>13, <1>14, <1>15 DEF SiteInv

LEMMA NextSite == SiteInv /\ [Rg!Next]_ofSite => SiteInv'
<1> SUFFICES ASSUME SiteInv, [Rg!Next]_ofSite PROVE SiteInv'
  OBVIOUS
<1>1. CASE UNCHANGED ofSite
  <2>1. Rg!TypeOK' /\ StoredFirst' /\ (~overtaken => lastSaved = slot)'
    BY <1>1 DEF SiteInv, ofSite, Rg!TypeOK, StoredFirst
  <2>2. \A r \in Rg!Runs : RunKept(r, run[r])'
    BY <1>1 DEF SiteInv, ofSite, RunKept, InHand, HandHas, LeadsWithNewest
  <2> QED BY <2>1, <2>2 DEF SiteInv
<1>2. CASE Rg!Next
  <2>1. "tick" \in Rg!Runs /\ "hand" \in Rg!Runs
    BY DEF Rg!Runs
  <2> QED BY <1>2, <2>1, QuietSteps, RepublishStep, DigestStep, StoreRerunStep, PublishSteps, SaveStep
    DEF Rg!Next, Rg!Tick, Rg!Publish
<1> QED BY <1>1, <1>2

(* What lands or is saved takes only raced pages back. *)
LEMMA TakesBackRaced ==
  ASSUME SiteInv, [Rg!Next]_ofSite, NEW i \in Rg!Issues, Rg!TakenBack(i)
  PROVE  \E r \in Rg!Runs : Rg!Acts(r) /\ i \in run[r].raced
<1>0. /\ run \in [Rg!Runs -> RunRecords] /\ digests \in Rg!Pages /\ manifest \in Rg!Pages
      /\ live \in [pages : Rg!Pages, index : SUBSET Rg!Issues, head : Rg!Issues]
      /\ \A s \in Rg!Runs : RunKept(s, run[s])
  BY SiteTypes DEF SiteInv
<1>1. \E r \in Rg!Runs : Rg!Deploy(r) \/ Rg!Save(r)
  <2>1. manifest' # manifest \/ live' # live
    <3>1. manifest[i] \in Nat /\ live.pages[i] \in Nat
      BY <1>0 DEF Rg!Pages
    <3> QED BY <3>1 DEF Rg!TakenBack
  <2> QED BY <2>1
    DEF Rg!Next, Rg!Tick, Rg!Publish, Rg!StartTick, Rg!Republish, Rg!Digest, Rg!NothingToDigest,
        Rg!Regenerate, Rg!StoreRerun, Rg!Render, Rg!Load, Rg!Guard, Rg!PublishFails, Rg!Kill,
        Rg!stores, Rg!ticks, Rg!bounds, ofSite, Rg!Runs
<1>2. PICK r \in Rg!Runs : Rg!Deploy(r) \/ Rg!Save(r)
  BY <1>1
<1> PICK y \in RunRecords : y = run[r]
  BY <1>0
<1>3. y.pc \in {"deploy", "save"} /\ RunKept(r, y)
  BY <1>0, <1>2 DEF Rg!Deploy, Rg!Save
<1>4. /\ y.new[i] \in Nat /\ y.kept[i] \in Nat /\ manifest[i] \in Nat /\ live.pages[i] \in Nat
      /\ Rg!Over(y.kept, y.new)[i] = IF y.new[i] > 0 THEN y.new[i] ELSE y.kept[i]
  BY <1>0, OverType DEF RunRecords, Rg!Pages
<1>5. i \notin y.raced => Rg!Over(y.kept, y.new)[i] >= manifest[i]
  BY <1>3, <1>4 DEF RunKept, InHand, Publishing, Loaded
<1>6. CASE Rg!Deploy(r)
  <2>1. live'.pages = Rg!Over(y.kept, y.new) /\ UNCHANGED manifest
    BY <1>6 DEF Rg!Deploy, Rg!stores
  <2>2. i \in y.raced
    BY <1>4, <1>5, <2>1 DEF Rg!TakenBack
  <2>3. run'[r].pc = "save"
    BY <1>0, <1>6 DEF Rg!Deploy, Rg!Goto, RunRecords
  <2>4. run'[r] # run[r] /\ y.pc = "deploy"
    BY <1>6, <2>3 DEF Rg!Deploy
  <2> QED BY <2>2, <2>4 DEF Rg!Acts
<1>7. CASE Rg!Save(r)
  <2>1. manifest' = Rg!Over(y.kept, y.new) /\ UNCHANGED live /\ y.pc = "save"
    BY <1>7 DEF Rg!Save
  <2>2. i \in y.raced
    BY <1>4, <1>5, <2>1 DEF Rg!TakenBack
  <2>3. run'[r].pc \in {"idle", "digest"}
    BY <1>7, IdleType DEF Rg!Save
  <2>4. run'[r] # run[r]
    BY <2>1, <2>3
  <2> QED BY <2>1, <2>2, <2>4 DEF Rg!Acts
<1> QED BY <1>2, <1>6, <1>7

(* The index leads with an older issue only after the run was overtaken.   *)
LEMMA HeadGoesOn ==
  ASSUME SiteInv, [Rg!Next]_ofSite, live'.head < live.head
  PROVE  overtaken
<1>0. /\ run \in [Rg!Runs -> RunRecords] /\ slot \in Rg!Issues /\ live.head <= slot
      /\ live \in [pages : Rg!Pages, index : SUBSET Rg!Issues, head : Rg!Issues]
      /\ \A s \in Rg!Runs : RunKept(s, run[s])
  BY SiteTypes DEF SiteInv, StoredFirst
<1>1. \E r \in Rg!Runs : Rg!Deploy(r)
  <2>1. live.head \in Nat
    BY <1>0 DEF Rg!Issues
  <2>2. live' # live
    BY <2>1
  <2> QED BY <2>2
    DEF Rg!Next, Rg!Tick, Rg!Publish, Rg!StartTick, Rg!Republish, Rg!Digest, Rg!NothingToDigest,
        Rg!Regenerate, Rg!StoreRerun, Rg!Render, Rg!Load, Rg!Guard, Rg!Save, Rg!PublishFails, Rg!Kill,
        Rg!stores, Rg!ticks, Rg!bounds, ofSite, Rg!Runs
<1>2. PICK r \in Rg!Runs : Rg!Deploy(r)
  BY <1>1
<1> PICK y \in RunRecords : y = run[r]
  BY <1>0
<1>3. RunKept(r, y) /\ y.pc = "deploy" /\ live'.head = Rg!Headline(y.lead, y.listed)
  BY <1>0, <1>2 DEF Rg!Deploy
<1> SUFFICES ASSUME ~overtaken PROVE FALSE
  OBVIOUS
<1>4. y.lead = slot /\ slot \in y.listed
  BY <1>3 DEF RunKept, LeadsWithNewest, Publishing, Loaded
<1>5. live'.head = slot
  BY <1>3, <1>4, HeadlineListed DEF RunRecords
<1> QED BY <1>0, <1>5 DEF Rg!Issues

-----------------------------------------------------------------------------
OpsInv == LifecycleInv /\ BootInv /\ PassInv /\ SiteInv

LEMMA InitOps == OpsInit => OpsInv
BY InitLifecycle, InitBoots, InitPass, InitSite DEF OpsInit, OpsInv

LEMMA NextOps == OpsInv /\ [OpsNext]_all => OpsInv'
BY NextLifecycle, NextBoots, NextPass, NextSite, PartSteps DEF OpsInv

(* The variables of the four parts keep the values their code gives them.  *)
THEOREM TypeCorrect == OpsSpec => []OpsTypeOK
<1>1. OpsInv => OpsTypeOK
  BY DEF OpsInv, LifecycleInv, BootInv, PassInv, SiteInv, OpsTypeOK
<1> QED BY <1>1, InitOps, NextOps, PTL DEF OpsSpec

(* However many containers boot against one database, and whatever cuts    *)
(* their steps short, fails them or sends them twice, one that is up works *)
(* on the shape of its build, and none aborts but by a failing request or  *)
(* a kill of its own (migrations.py; d1.py, apply_schema).                 *)
THEOREM BootsServe == OpsSpec => []BootsEndInShape
<1>1. OpsInv => BootsEndInShape
  <2> SUFFICES ASSUME OpsInv, NEW c \in Booters
               PROVE  /\ booters[c].at = "up" => ~db.tier /\ db.image /\ db.old = {}
                      /\ booters[c].at = "down" => booters[c].hit
    BY DEF BootsEndInShape, Mg!ServesItsShape, Mg!RaceNeverAborts
  <2>1. BootKept(booters[c]) /\ DbKept
    BY DEF OpsInv, BootInv
  <2> QED BY <2>1 DEF BootKept, DbKept
<1> QED BY <1>1, InitOps, NextOps, PTL DEF OpsSpec

(* No request goes to a container that was not heard, and a pass of the    *)
(* run container that is over has left no step running, has synced the     *)
(* votes unless it was stopped, and has told of a failed run               *)
(* (container.js, #boot; entrypoint.sh).                                   *)
THEOREM AnswersAreOwn == OpsSpec => []AnswersForItself
<1>1. OpsInv => AnswersForItself
  BY DEF OpsInv, LifecycleInv, HeardIsWatched, PassInv, AnswersForItself, ListeningWasHeard,
         Running
<1> QED BY <1>1, InitOps, NextOps, PTL DEF OpsSpec

(* A published page goes back to an older write, or away, only through a   *)
(* publish that was under way when the page was saved, and the index leads *)
(* with an older issue only after a newer one was stored during its        *)
(* regeneration (publish.py, the full snapshot; run_digest.py).            *)
THEOREM RacesAlone == OpsSpec => OnlyARaceTakesBack
<1>1. OpsInv /\ [OpsNext]_all =>
        [/\ \A i \in Rg!Issues : Rg!TakenBack(i) => \E r \in Rg!Runs : Rg!Acts(r) /\ i \in run[r].raced
         /\ live'.head < live.head => overtaken]_(Rg!vars)
  BY TakesBackRaced, HeadGoesOn, PartSteps DEF OpsInv
<1> QED BY <1>1, InitOps, NextOps, PTL DEF OpsSpec, OnlyARaceTakesBack, Rg!OnlyARaceTakesBack
=============================================================================
