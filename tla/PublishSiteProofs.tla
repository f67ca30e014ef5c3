---------------------------- MODULE PublishSiteProofs ----------------------------
(***************************************************************************)
(* Proofs about PublishSite for every number of issues, deployments and    *)
(* attempts, every tolerance and every combination of faults.  The         *)
(* argument: what `publish_site` proved is in the manifest, in the live    *)
(* deployment and in every one still building, because a deployment is     *)
(* made of the manifest the run loaded and nobody else writes; a database  *)
(* that was put back costs a set of issues that the guard of the first     *)
(* publish after it has counted.                                           *)
(***************************************************************************)
EXTENDS PublishSite, TLAPS, FiniteSetTheorems, SequenceTheorems

(* What the run loaded is what D1 holds, but for its own save. *)
KeptIsLoaded ==
  /\ pc \in {"idle", "republish", "digest", "load"} => kept = {}
  /\ pc \in {"guard", "deploy", "verdict", "save"} => kept = manifest
  /\ pc = "check" => manifest = IF landed THEN kept \cup new ELSE kept

(* The page that must show is one of the new ones. *)
SlugIsNew ==
  pc \in {"load", "guard", "deploy", "verdict", "save", "check"} => slug \in new

(* What is known of the run's newest deployment: it is the last one        *)
(* building, or it is live and nothing is building behind it.              *)
MineIsNewest ==
  /\ mine = "building" =>
       building # <<>> /\ building[Len(building)] = kept \cup new
  /\ mine = "landed" => building = <<>> /\ live = kept \cup new
  /\ landed => mine = "landed" /\ pc \in {"save", "check"}
  /\ pc \notin {"verdict", "save", "check"} => mine = "none"

(* A project without deployments shows nothing. *)
NothingDeployed == ~created => live = {} /\ building = <<>>

(* The proven issues but for those of K are up, and every deployment under *)
(* way keeps them up.                                                      *)
UpBut(K) ==
  /\ Proven \ K \subseteq live
  /\ \A n \in DOMAIN building : Proven \ K \subseteq building[n]

(* Before D1 is restored every link is good. *)
AllUp == ~restored => Linked \subseteq manifest /\ UpBut({})

(* D1 was restored, and nothing was deployed since. *)
Untouched ==
  /\ UpBut({})
  /\ pc \in {"idle", "republish", "digest", "load", "guard"}
  /\ pc # "idle" => building = <<>> /\ edge = live

(* Of a database put back, the guard has counted what it costs. *)
Counted ==
  \E K \in SUBSET Issues :
    Cardinality(K) <= Tolerance /\ Proven \ K \subseteq manifest /\ UpBut(K)

LossIsCounted == ~blind => Untouched \/ Counted

IInv ==
  /\ TypeOK
  /\ KeptIsLoaded
  /\ SlugIsNew
  /\ MineIsNewest
  /\ NothingDeployed
  /\ AllUp
  /\ LossIsCounted

-----------------------------------------------------------------------------
(* What the operators on the queue of deployments return. *)

(* What is left of the queue when its n-th deployment lands. *)
LEMMA LandedQueue ==
  ASSUME NEW S, NEW b \in Seq(S), NEW n \in 1..Len(b)
  PROVE  /\ SubSeq(b, n + 1, Len(b)) \in Seq(S)
         /\ Len(SubSeq(b, n + 1, Len(b))) = Len(b) - n
         /\ \A i \in 1..(Len(b) - n) : SubSeq(b, n + 1, Len(b))[i] = b[n + i]
<1> DEFINE rest == SubSeq(b, n + 1, Len(b))
<1>1. Len(b) \in Nat /\ n \in Nat /\ n + 1 \in Int /\ Len(b) \in Int
  BY LenProperties
<1>2. \A i \in (n + 1)..Len(b) : b[i] \in S
  BY <1>1, ElementOfSeq
<1>3. /\ rest \in Seq(S)
      /\ Len(rest) = IF n + 1 <= Len(b) THEN Len(b) - (n + 1) + 1 ELSE 0
      /\ \A i \in 1..(Len(b) - (n + 1) + 1) : rest[i] = b[(n + 1) + i - 1]
  BY <1>1, <1>2, SubSeqProperties
<1>4. Len(b) - (n + 1) + 1 = Len(b) - n
  BY <1>1
<1>5. \A i \in 1..(Len(b) - n) : (n + 1) + i - 1 = n + i
  BY <1>1
<1>6. rest \in Seq(S) /\ Len(rest) = Len(b) - n
  <2> HIDE DEF rest
  <2> QED
    BY <1>1, <1>3
<1>7. ASSUME NEW i \in 1..(Len(b) - n) PROVE rest[i] = b[n + i]
  <2>1. i \in 1..(Len(b) - (n + 1) + 1)
    BY <1>4
  <2> QED
    BY <1>3, <1>5, <2>1
<1> QED
  BY <1>6, <1>7

(* What is left of it when its n-th deployment fails. *)
LEMMA FailedQueue ==
  ASSUME NEW S, NEW b \in Seq(S), NEW n \in 1..Len(b)
  PROVE  /\ RemoveAt(b, n) \in Seq(S)
         /\ Len(RemoveAt(b, n)) = Len(b) - 1
         /\ \A i \in 1..(Len(b) - 1) : RemoveAt(b, n)[i] = IF i < n THEN b[i] ELSE b[i + 1]
<1> DEFINE before == SubSeq(b, 1, n - 1)
           after == SubSeq(b, n + 1, Len(b))
<1>1. Len(b) \in Nat /\ n \in 1..Len(b)
  BY LenProperties
<1>2. \A i \in 1..(n - 1) : b[i] \in S
  BY <1>1, ElementOfSeq
<1>3. before \in Seq(S) /\ Len(before) = n - 1 /\ \A i \in 1..(n - 1) : before[i] = b[i]
  <2>1. /\ before \in Seq(S)
        /\ Len(before) = IF 1 <= n - 1 THEN (n - 1) - 1 + 1 ELSE 0
        /\ \A i \in 1..((n - 1) - 1 + 1) : before[i] = b[1 + i - 1]
    BY <1>1, <1>2, SubSeqProperties
  <2> QED
    BY <1>1, <2>1
<1>4. /\ after \in Seq(S) /\ Len(after) = Len(b) - n
      /\ \A i \in 1..(Len(b) - n) : after[i] = b[n + i]
  BY LandedQueue
<1>5. RemoveAt(b, n) = before \o after
  BY DEF RemoveAt
<1>6. /\ before \o after \in Seq(S)
      /\ Len(before \o after) = Len(before) + Len(after)
      /\ \A i \in 1..(Len(before) + Len(after)) :
           (before \o after)[i] = IF i <= Len(before) THEN before[i] ELSE after[i - Len(before)]
  BY <1>3, <1>4, ConcatProperties
<1>7. ASSUME NEW i \in 1..(Len(b) - 1)
      PROVE  RemoveAt(b, n)[i] = IF i < n THEN b[i] ELSE b[i + 1]
  <2> HIDE DEF before, after
  <2>1. CASE i < n
    <3>1. i \in 1..(n - 1) /\ i <= Len(before) /\ i \in 1..(Len(before) + Len(after))
      BY <1>1, <1>3, <1>4, <2>1
    <3> QED
      BY <1>3, <1>5, <1>6, <2>1, <3>1
  <2>2. CASE ~(i < n)
    <3>1. /\ i - (n - 1) \in 1..(Len(b) - n) /\ n + (i - (n - 1)) = i + 1
          /\ ~(i <= n - 1) /\ i \in 1..(Len(before) + Len(after))
      BY <1>1, <1>3, <1>4, <2>2
    <3>2. (before \o after)[i] = after[i - (n - 1)]
      BY <1>3, <1>6, <3>1
    <3> QED
      BY <1>4, <1>5, <2>2, <3>1, <3>2
  <2> QED
    BY <2>1, <2>2
<1>8. RemoveAt(b, n) \in Seq(S) /\ Len(RemoveAt(b, n)) = Len(b) - 1
  <2> HIDE DEF before, after
  <2> QED
    BY <1>1, <1>3, <1>4, <1>5, <1>6
<1> QED
  BY <1>7, <1>8

(* A sequence of Seq(S) with one more element. *)
LEMMA GrownQueue ==
  ASSUME NEW S, NEW b \in Seq(S), NEW x \in S
  PROVE  /\ Append(b, x) \in Seq(S)
         /\ Len(Append(b, x)) = Len(b) + 1
         /\ Append(b, x)[Len(b) + 1] = x
         /\ DOMAIN Append(b, x) = 1..(Len(b) + 1)
         /\ \A i \in DOMAIN Append(b, x) : Append(b, x)[i] = x \/ (i \in DOMAIN b /\ Append(b, x)[i] = b[i])
<1>1. /\ Append(b, x) \in Seq(S)
      /\ Len(Append(b, x)) = Len(b) + 1
      /\ \A i \in 1..Len(b) : Append(b, x)[i] = b[i]
      /\ Append(b, x)[Len(b) + 1] = x
  BY AppendProperties
<1>2. DOMAIN b = 1..Len(b) /\ Len(b) \in Nat /\ DOMAIN Append(b, x) = 1..Len(Append(b, x))
  BY <1>1, LenProperties
<1> QED
  BY <1>1, <1>2

(* There are finitely many issues. *)
LEMMA IssuesFinite ==
  ASSUME NEW S \in SUBSET Issues
  PROVE  IsFiniteSet(S) /\ Cardinality(S) \in Nat
<1>1. IsFiniteSet(Issues)
  BY FS_Interval, BoundsAssumption DEF Issues
<1> QED
  BY <1>1, FS_Subset, FS_CardinalityType

-----------------------------------------------------------------------------
LEMMA InitIInv == Init => IInv
<1> SUFFICES ASSUME Init PROVE IInv
  OBVIOUS
<1> USE DEF Init
<1>1. building \in Seq(SUBSET Issues) /\ Len(building) = 0
  BY EmptySeq
<1>2. TypeOK
  <2>1. /\ receipt \in BOOLEAN /\ restored \in BOOLEAN /\ created \in BOOLEAN
        /\ own \in BOOLEAN /\ landed \in BOOLEAN /\ blind \in BOOLEAN
    OBVIOUS
  <2>2. /\ slot \in 0..MaxIssues /\ slug \in 0..MaxIssues /\ tries \in 0..(Attempts - 1)
        /\ Len(building) <= MaxBuilding
    BY <1>1, BoundsAssumption
  <2>3. /\ digests \subseteq Issues /\ manifest \subseteq Issues /\ live \subseteq Issues
        /\ edge \subseteq Issues /\ new \subseteq Issues /\ kept \subseteq Issues
        /\ linked \subseteq [issue : Issues, landed : BOOLEAN]
    OBVIOUS
  <2>4. pc = "idle" /\ mine = "none"
    OBVIOUS
  <2> HIDE DEF Init
  <2> QED
    BY <1>1, <2>1, <2>2, <2>3, <2>4 DEF TypeOK
<1>3. Proven = {} /\ Linked = {} /\ DOMAIN building = {}
  BY DEF Proven, Linked
<1>4. AllUp /\ LossIsCounted
  BY <1>3 DEF AllUp, LossIsCounted, Untouched, UpBut
<1> QED
  BY <1>2, <1>4 DEF IInv, KeptIsLoaded, SlugIsNew, MineIsNewest, NothingDeployed

(* The type of the run and of its call of `publish_site`. *)
CallOK ==
  /\ pc \in {"idle", "republish", "digest", "load", "guard", "deploy", "verdict", "save", "check"}
  /\ own \in BOOLEAN /\ landed \in BOOLEAN
  /\ new \subseteq Issues /\ kept \subseteq Issues
  /\ slug \in 0..MaxIssues /\ tries \in 0..(Attempts - 1)
  /\ mine \in {"none", "building", "landed", "failed"}

LEMMA ForgetType ==
  ASSUME Forget, pc' \in {"idle", "digest"}
  PROVE  CallOK'
<1>1. own' \in BOOLEAN /\ landed' \in BOOLEAN
  BY DEF Forget
<1>2. new' \subseteq Issues /\ kept' \subseteq Issues
  BY DEF Forget
<1>3. slug' \in 0..MaxIssues /\ tries' \in 0..(Attempts - 1)
  BY BoundsAssumption DEF Forget
<1>4. mine' \in {"none", "building", "landed", "failed"}
  BY DEF Forget
<1> QED
  BY <1>1, <1>2, <1>3, <1>4 DEF CallOK

LEMMA ReturnType == Return => CallOK'
<1> SUFFICES ASSUME Return PROVE CallOK'
  OBVIOUS
<1>1. pc' \in {"idle", "digest"} /\ Forget
  BY DEF Return
<1> QED
  BY <1>1, ForgetType

LEMMA RetryType == CallOK /\ Retry => CallOK'
<1> SUFFICES ASSUME CallOK, Retry PROVE CallOK'
  OBVIOUS
<1>1. CASE tries + 1 = Attempts
  BY <1>1, ReturnType DEF Retry
<1>2. CASE tries + 1 # Attempts
  <2>1. tries' \in 0..(Attempts - 1) /\ pc' = "deploy" /\ mine' = "none"
    BY <1>2, BoundsAssumption DEF Retry, CallOK
  <2>2. UNCHANGED <<own, new, slug, kept, landed>>
    BY <1>2 DEF Retry
  <2> QED
    BY <2>1, <2>2 DEF CallOK
<1> QED
  BY <1>1, <1>2

(* The type of what is stored, served or remembered. *)
WorldOK ==
  /\ digests \subseteq Issues /\ manifest \subseteq Issues
  /\ receipt \in BOOLEAN /\ restored \in BOOLEAN
  /\ live \subseteq Issues /\ edge \subseteq Issues
  /\ building \in Seq(SUBSET Issues) /\ Len(building) <= MaxBuilding
  /\ created \in BOOLEAN
  /\ slot \in 0..MaxIssues
  /\ blind \in BOOLEAN /\ linked \subseteq [issue : Issues, landed : BOOLEAN]

LEMMA TypeParts == TypeOK <=> CallOK /\ WorldOK
BY DEF TypeOK, CallOK, WorldOK

LEMMA NextCallOK == TypeOK /\ [Next]_vars => CallOK'
<1> SUFFICES ASSUME TypeOK, [Next]_vars PROVE CallOK'
  OBVIOUS
<1> USE DEF call
<1>0. CallOK /\ WorldOK
  BY TypeParts
<1>1. CASE LoadFails \/ OutOfTime \/ SaveFails \/ PageIsNotLive
  BY <1>1, ReturnType DEF LoadFails, OutOfTime, SaveFails, PageIsNotLive
<1>2. CASE DeployRefused \/ SeesFailed \/ DeployUnanswered
  BY <1>0, <1>2, RetryType DEF DeployRefused, SeesFailed, DeployUnanswered
<1>3. CASE StartRun \/ NothingToDigest \/ NoVerdict
  <2>1. UNCHANGED <<own, new, slug, kept, tries, mine, landed>>
    BY <1>3 DEF StartRun, NothingToDigest, NoVerdict
  <2>2. pc' \in {"republish", "idle", "check"}
    BY <1>3 DEF StartRun, NothingToDigest, NoVerdict
  <2> QED
    BY <1>0, <2>1, <2>2 DEF CallOK
<1>4. ASSUME NEW files \in SUBSET Issues, NEW page \in files, NEW b \in BOOLEAN, Enter(files, page, b)
      PROVE  CallOK'
  <2>1. own' \in BOOLEAN /\ UNCHANGED landed
    BY <1>4 DEF Enter
  <2>2. new' \subseteq Issues /\ UNCHANGED <<kept, tries, mine>> /\ pc' = "load"
    BY <1>4 DEF Enter
  <2>3. slug' \in 0..MaxIssues
    BY <1>4, BoundsAssumption DEF Enter, Issues
  <2> QED
    BY <1>0, <2>1, <2>2, <2>3 DEF CallOK
<1>5. CASE Republish
  <2>1. digests \ manifest \in SUBSET Issues
    BY <1>0 DEF WorldOK
  <2>2. CASE digests \ manifest = {}
    <3>1. UNCHANGED <<own, new, slug, kept, tries, mine, landed>> /\ pc' = "digest"
      BY <1>5, <2>2 DEF Republish
    <3> QED
      BY <1>0, <3>1 DEF CallOK
  <2>3. CASE digests \ manifest # {}
    BY <1>4, <1>5, <2>1, <2>3 DEF Republish
  <2> QED
    BY <2>2, <2>3
<1>6. CASE Digest
  <2>1. PICK key \in Issues : Enter({key}, key, TRUE)
    BY <1>6 DEF Digest
  <2> QED
    BY <1>4, <2>1
<1>7. CASE LoadOwned
  <2>1. pc' = "guard" /\ UNCHANGED <<own, new, slug, tries, mine, landed>> /\ kept' \subseteq Issues
    BY <1>0, <1>7 DEF LoadOwned, WorldOK
  <2> QED
    BY <1>0, <2>1 DEF CallOK
<1>8. CASE LoadUnowned \/ GuardReads \/ GuardBlind
  <2>1. Return \/ (pc' = "deploy" /\ UNCHANGED <<own, new, slug, kept, tries, mine, landed>>)
    BY <1>8 DEF LoadUnowned, GuardReads, GuardBlind
  <2> QED
    BY <1>0, <2>1, ReturnType DEF CallOK
<1>9. CASE Deploy
  BY <1>0, <1>9 DEF Deploy, CallOK
<1>10. CASE SeesLanded
  BY <1>0, <1>10 DEF SeesLanded, CallOK
<1>11. CASE Save \/ PageIsLive
  <2>1. \/ Return
        \/ pc' \in {"check", "save"} /\ UNCHANGED <<own, new, slug, kept, tries, mine, landed>>
    BY <1>11 DEF Save, PageIsLive, Published
  <2> QED
    BY <1>0, <2>1, ReturnType DEF CallOK
<1>12. CASE Kill
  BY <1>12, ForgetType DEF Kill
<1>13. ASSUME NEW n \in DOMAIN building, Land(n) \/ Fails(n)
       PROVE  CallOK'
  <2>1. mine' \in {"landed", "failed", mine} /\ UNCHANGED <<pc, own, new, slug, kept, tries, landed>>
    BY <1>13 DEF Land, Fails
  <2> QED
    BY <1>0, <2>1 DEF CallOK
<1>14. CASE Propagate \/ (\E k \in 0..MaxIssues : Restore(k)) \/ UNCHANGED vars
  <2>1. UNCHANGED <<pc, own, new, slug, kept, tries, mine, landed>>
    BY <1>14 DEF Propagate, Restore, vars
  <2> QED
    BY <1>0, <2>1 DEF CallOK
<1> QED
  BY <1>1, <1>2, <1>3, <1>5, <1>6, <1>7, <1>8, <1>9, <1>10, <1>11, <1>12, <1>13, <1>14
     DEF Next, Run, Misfortune

LEMMA NextWorldOK == TypeOK /\ SlugIsNew /\ [Next]_vars => WorldOK'
<1> SUFFICES ASSUME TypeOK, SlugIsNew, [Next]_vars PROVE WorldOK'
  OBVIOUS
<1> USE DEF d1, pages, past
<1>0. CallOK /\ WorldOK
  BY TypeParts
<1>1. ASSUME UNCHANGED <<d1, pages, slot, past>>
      PROVE  WorldOK'
  BY <1>0, <1>1 DEF WorldOK
<1>2. CASE StartRun \/ Republish \/ NothingToDigest \/ LoadOwned \/ LoadFails
  BY <1>1, <1>2 DEF StartRun, Republish, NothingToDigest, LoadOwned, LoadFails
<1>3. CASE GuardReads \/ DeployRefused \/ OutOfTime \/ SeesLanded \/ SeesFailed
  BY <1>1, <1>3 DEF GuardReads, DeployRefused, OutOfTime, SeesLanded, SeesFailed
<1>4. CASE NoVerdict \/ PageIsNotLive \/ Kill \/ UNCHANGED vars
  BY <1>1, <1>4 DEF NoVerdict, PageIsNotLive, Kill, vars
<1>5. CASE Digest
  <2>1. UNCHANGED <<manifest, receipt, restored, pages, past>>
    BY <1>5 DEF Digest
  <2>2. PICK key \in Issues : slot' = key /\ digests' \in {digests, digests \cup {key}}
    BY <1>5 DEF Digest
  <2>3. digests' \subseteq Issues
    BY <1>0, <2>2 DEF WorldOK
  <2>4. slot' \in 0..MaxIssues
    BY <2>2, BoundsAssumption DEF Issues
  <2> QED
    BY <1>0, <2>1, <2>3, <2>4 DEF WorldOK
<1>6. CASE LoadUnowned
  <2>1. receipt' \in BOOLEAN
    BY <1>0, <1>6 DEF LoadUnowned, WorldOK
  <2> QED
    BY <1>0, <1>6, <2>1 DEF LoadUnowned, WorldOK
<1>7. CASE GuardBlind
  <2>1. blind' \in BOOLEAN
    BY <1>7 DEF GuardBlind
  <2>2. UNCHANGED <<d1, pages, slot, linked>>
    BY <1>7 DEF GuardBlind
  <2> QED
    BY <1>0, <2>1, <2>2 DEF WorldOK
<1>8. CASE Deploy \/ DeployUnanswered
  <2>1. kept \cup new \in SUBSET Issues /\ building \in Seq(SUBSET Issues) /\ MaxBuilding \in Nat
    BY <1>0, BoundsAssumption DEF CallOK, WorldOK
  <2>2. Len(building) \in Nat /\ Len(building) < MaxBuilding
    BY <1>8, <2>1, LenProperties DEF Deploy, DeployUnanswered
  <2>3. building' = Append(building, kept \cup new)
    BY <1>8 DEF Deploy, DeployUnanswered, Create
  <2>4. building' \in Seq(SUBSET Issues) /\ Len(building') <= MaxBuilding
    BY <2>1, <2>2, <2>3, GrownQueue
  <2>5. created' \in BOOLEAN /\ UNCHANGED <<d1, live, edge, slot, past>>
    BY <1>8 DEF Deploy, DeployUnanswered, Create
  <2> QED
    BY <1>0, <2>4, <2>5 DEF WorldOK
(* A link is to an issue. *)
<1>9. ASSUME Published, pc \in {"save", "check"}
      PROVE  linked' \subseteq [issue : Issues, landed : BOOLEAN]
  <2>1. slug \in Issues /\ landed \in BOOLEAN /\ linked \subseteq [issue : Issues, landed : BOOLEAN]
    BY <1>0, <1>9 DEF SlugIsNew, CallOK, WorldOK
  <2>2. linked' = linked \cup {[issue |-> slug, landed |-> landed]}
    BY <1>9 DEF Published
  <2>3. [issue |-> slug, landed |-> landed] \in [issue : Issues, landed : BOOLEAN]
    BY <2>1
  <2> QED
    BY <2>1, <2>2, <2>3
<1>10. CASE Save \/ PageIsLive
  <2>1. linked' \subseteq [issue : Issues, landed : BOOLEAN]
    BY <1>0, <1>9, <1>10 DEF Save, PageIsLive, WorldOK
  <2>2. /\ manifest' \in {manifest, kept \cup new}
        /\ UNCHANGED <<blind, digests, receipt, restored, pages, slot>>
    BY <1>10 DEF Save, PageIsLive
  <2>3. manifest' \subseteq Issues
    BY <1>0, <2>2 DEF CallOK, WorldOK
  <2> QED
    BY <1>0, <2>1, <2>2, <2>3 DEF WorldOK
<1>11. CASE SaveFails
  <2>1. manifest' \subseteq Issues
    BY <1>0, <1>11 DEF SaveFails, CallOK, WorldOK
  <2> QED
    BY <1>0, <1>11, <2>1 DEF SaveFails, WorldOK
<1>12. ASSUME NEW n \in DOMAIN building, Land(n) \/ Fails(n)
       PROVE  WorldOK'
  <2>1. /\ building \in Seq(SUBSET Issues) /\ n \in 1..Len(building) /\ Len(building) \in Nat
        /\ Len(building) <= MaxBuilding /\ MaxBuilding \in Nat
    BY <1>0, LenProperties, BoundsAssumption DEF WorldOK
  <2>2. building[n] \in SUBSET Issues
    BY <2>1, ElementOfSeq
  <2>3. building' \in Seq(SUBSET Issues) /\ Len(building') <= MaxBuilding
    <3>1. CASE Land(n)
      BY <2>1, <3>1, LandedQueue DEF Land
    <3>2. CASE Fails(n)
      BY <2>1, <3>2, FailedQueue DEF Fails
    <3> QED
      BY <1>12, <3>1, <3>2
  <2>4. live' \subseteq Issues /\ UNCHANGED <<d1, edge, created, slot, past>>
    BY <1>0, <1>12, <2>2 DEF Land, Fails, WorldOK
  <2> QED
    BY <1>0, <2>3, <2>4 DEF WorldOK
<1>13. CASE Propagate
  BY <1>0, <1>13 DEF Propagate, WorldOK
<1>14. ASSUME NEW k \in 0..MaxIssues, Restore(k)
       PROVE  WorldOK'
  <2>1. digests' \subseteq Issues /\ manifest' \subseteq Issues /\ UNCHANGED <<pages, slot, past>>
    BY <1>0, <1>14 DEF Restore, WorldOK
  <2>2. restored' \in BOOLEAN
    BY <1>14 DEF Restore
  <2>3. receipt' \in BOOLEAN
    BY <1>0, <1>14 DEF Restore, WorldOK
  <2> QED
    BY <1>0, <2>1, <2>2, <2>3 DEF WorldOK
<1> QED
  BY <1>2, <1>3, <1>4, <1>5, <1>6, <1>7, <1>8, <1>10, <1>11, <1>12, <1>13, <1>14
     DEF Next, Run, Misfortune

-----------------------------------------------------------------------------
(* The run's part: what it loaded, what it deployed last. *)
LEMMA NextCall ==
  ASSUME IInv, [Next]_vars
  PROVE  KeptIsLoaded' /\ SlugIsNew' /\ MineIsNewest'
<1> DEFINE Goal == KeptIsLoaded' /\ SlugIsNew' /\ MineIsNewest'
<1> USE DEF IInv, d1, pages, call, past
<1>1. ASSUME Forget, pc' \in {"idle", "digest"}
      PROVE  Goal
  <2>1. kept' = {} /\ mine' = "none"
    BY <1>1 DEF Forget
  <2>2. ~landed'
    BY <1>1 DEF Forget
  <2> QED
    BY <1>1, <2>1, <2>2 DEF KeptIsLoaded, SlugIsNew, MineIsNewest
<1>2. Return => Goal
  BY <1>1 DEF Return
<1>3. ASSUME Retry, pc \in {"deploy", "verdict"}, UNCHANGED <<manifest>>
      PROVE  Goal
  <2>1. CASE Return
    BY <1>2, <2>1
  <2>2. CASE pc' = "deploy" /\ mine' = "none" /\ UNCHANGED <<own, new, slug, kept, landed>>
    <3>1. kept = manifest /\ slug \in new /\ ~landed
      BY <1>3 DEF KeptIsLoaded, SlugIsNew, MineIsNewest
    <3> QED
      BY <1>3, <2>2, <3>1 DEF KeptIsLoaded, SlugIsNew, MineIsNewest
  <2> QED
    BY <1>3, <2>1, <2>2 DEF Retry
<1>4. CASE LoadFails \/ OutOfTime \/ SaveFails \/ PageIsNotLive
  BY <1>2, <1>4 DEF LoadFails, OutOfTime, SaveFails, PageIsNotLive
<1>5. CASE DeployRefused \/ SeesFailed \/ DeployUnanswered
  BY <1>3, <1>5 DEF DeployRefused, SeesFailed, DeployUnanswered
<1>6. CASE Kill
  BY <1>1, <1>6 DEF Kill
<1>7. CASE StartRun \/ NothingToDigest
  <2>1. UNCHANGED <<manifest, live, building, kept, new, slug, mine, landed>>
    BY <1>7 DEF StartRun, NothingToDigest
  <2>2. pc \in {"idle", "digest"} /\ pc' \in {"republish", "idle"}
    BY <1>7 DEF StartRun, NothingToDigest
  <2> QED
    BY <2>1, <2>2 DEF KeptIsLoaded, SlugIsNew, MineIsNewest
<1>8. ASSUME NEW files, NEW page \in files, NEW b, Enter(files, page, b),
             pc \in {"republish", "digest"}
      PROVE  Goal
  <2>1. pc' = "load" /\ slug' \in new' /\ UNCHANGED <<kept, mine, landed>>
    BY <1>8 DEF Enter
  <2>2. kept = {} /\ mine = "none" /\ ~landed
    BY <1>8 DEF KeptIsLoaded, MineIsNewest
  <2> QED
    BY <2>1, <2>2 DEF KeptIsLoaded, SlugIsNew, MineIsNewest
<1>9. CASE Republish
  <2>1. CASE digests \ manifest = {}
    <3>1. /\ UNCHANGED <<manifest, live, building, kept, new, slug, mine, landed>>
          /\ pc = "republish" /\ pc' = "digest"
      BY <1>9, <2>1 DEF Republish
    <3> QED
      BY <3>1 DEF KeptIsLoaded, SlugIsNew, MineIsNewest
  <2>2. CASE digests \ manifest # {}
    BY <1>8, <1>9, <2>2 DEF Republish
  <2> QED
    BY <2>1, <2>2
<1>10. CASE Digest
  BY <1>8, <1>10 DEF Digest
<1>11. CASE LoadOwned
  <2>1. /\ pc = "load" /\ pc' = "guard" /\ kept' = manifest
        /\ UNCHANGED <<manifest, new, slug, mine, landed>>
    BY <1>11 DEF LoadOwned
  <2> QED
    BY <2>1 DEF KeptIsLoaded, SlugIsNew, MineIsNewest
<1>12. CASE LoadUnowned \/ GuardReads \/ GuardBlind
  <2>1. CASE Return
    BY <1>2, <2>1
  <2>2. CASE pc' = "deploy" /\ UNCHANGED call
    <3>1. UNCHANGED <<manifest, kept, new, slug, mine, landed>>
      BY <1>12, <2>2 DEF LoadUnowned, GuardReads, GuardBlind
    <3>2. kept = manifest /\ mine = "none" /\ ~landed /\ slug \in new
      BY <1>12 DEF LoadUnowned, GuardReads, GuardBlind, KeptIsLoaded, SlugIsNew, MineIsNewest
    <3> QED
      BY <2>2, <3>1, <3>2 DEF KeptIsLoaded, SlugIsNew, MineIsNewest
  <2> QED
    BY <1>12, <2>1, <2>2 DEF LoadUnowned, GuardReads, GuardBlind
<1>13. CASE Deploy
  <2>1. /\ pc = "deploy" /\ pc' = "verdict" /\ mine' = "building"
        /\ building' = Append(building, kept \cup new)
        /\ UNCHANGED <<manifest, kept, new, slug, landed>>
    BY <1>13 DEF Deploy, Create
  <2>2. building \in Seq(SUBSET Issues) /\ kept \cup new \in SUBSET Issues
    BY DEF TypeOK
  <2>3. Len(building') = Len(building) + 1 /\ building'[Len(building')] = kept \cup new
    BY <2>1, <2>2, GrownQueue
  <2>4. building' # <<>>
    BY <2>1, <2>2, AppendProperties
  <2>5. ~landed /\ kept = manifest /\ slug \in new
    BY <2>1 DEF MineIsNewest, KeptIsLoaded, SlugIsNew
  <2> QED
    BY <2>1, <2>3, <2>4, <2>5 DEF KeptIsLoaded, SlugIsNew, MineIsNewest
<1>14. CASE SeesLanded
  <2>1. /\ pc = "verdict" /\ pc' = "save" /\ mine = "landed"
        /\ UNCHANGED <<manifest, live, building, kept, new, slug, mine>>
    BY <1>14 DEF SeesLanded
  <2> QED
    BY <2>1 DEF KeptIsLoaded, SlugIsNew, MineIsNewest
<1>15. CASE NoVerdict
  <2>1. /\ pc = "verdict" /\ pc' = "check"
        /\ UNCHANGED <<manifest, live, building, kept, new, slug, mine, landed>>
    BY <1>15 DEF NoVerdict
  <2>2. ~landed
    BY <2>1 DEF MineIsNewest
  <2> QED
    BY <2>1, <2>2 DEF KeptIsLoaded, SlugIsNew, MineIsNewest
<1>16. CASE Save
  <2>1. CASE landed
    <3>1. /\ pc = "save" /\ pc' = "check" /\ manifest' = kept \cup new
          /\ UNCHANGED <<live, building, kept, new, slug, mine, landed>>
      BY <1>16, <2>1 DEF Save
    <3> QED
      BY <2>1, <3>1 DEF KeptIsLoaded, SlugIsNew, MineIsNewest
  <2>2. CASE ~landed
    BY <1>2, <1>16, <2>2 DEF Save, Published
  <2> QED
    BY <2>1, <2>2
<1>17. CASE PageIsLive
  <2>1. CASE landed
    BY <1>2, <1>17, <2>1 DEF PageIsLive, Published
  <2>2. CASE ~landed
    <3>1. /\ pc = "check" /\ pc' = "save"
          /\ UNCHANGED <<manifest, live, building, kept, new, slug, mine, landed>>
      BY <1>17, <2>2 DEF PageIsLive
    <3> QED
      BY <2>2, <3>1 DEF KeptIsLoaded, SlugIsNew, MineIsNewest
  <2> QED
    BY <2>1, <2>2
<1>18. ASSUME NEW n \in DOMAIN building, Land(n) \/ Fails(n)
       PROVE  Goal
  <2>1. UNCHANGED <<manifest, pc, kept, new, slug, landed>>
    BY <1>18 DEF Land, Fails
  <2>2. building \in Seq(SUBSET Issues) /\ n \in 1..Len(building) /\ Len(building) \in Nat
    BY LenProperties DEF TypeOK
  <2>3. mine # "landed" /\ mine' \in {mine, "landed", "failed"} /\ (mine' # mine => mine = "building")
    <3>1. building # <<>>
      BY <2>2
    <3> QED
      BY <1>18, <3>1 DEF MineIsNewest, Land, Fails
  <2>4. ASSUME mine' = "building"
        PROVE  building' # <<>> /\ building'[Len(building')] = kept \cup new
    <3>1. mine = "building" /\ n # Len(building) /\ building[Len(building)] = kept \cup new
      BY <1>18, <2>3, <2>4 DEF MineIsNewest, Land, Fails
    <3>2. CASE Land(n)
      <4>1. /\ Len(building') = Len(building) - n
            /\ \A i \in 1..(Len(building) - n) : building'[i] = building[n + i]
        BY <2>2, <3>2, LandedQueue DEF Land
      <4>2. Len(building) - n \in 1..(Len(building) - n) /\ n + (Len(building) - n) = Len(building)
        <5>1. n # Len(building)
          BY <3>1
        <5>2. \A l \in Nat, m \in Nat : m >= 1 /\ m <= l /\ m # l =>
                l - m \in 1..(l - m) /\ m + (l - m) = l
          OBVIOUS
        <5>3. Len(building) \in Nat /\ n \in Nat /\ n >= 1 /\ n <= Len(building)
          BY <2>2
        <5> QED
          BY <5>1, <5>2, <5>3
      <4>3. building'[Len(building')] = building[Len(building)] /\ Len(building') # 0
        BY <2>2, <3>1, <4>1, <4>2
      <4> QED
        BY <3>1, <4>3
    <3>3. CASE Fails(n)
      <4>1. /\ Len(building') = Len(building) - 1
            /\ \A i \in 1..(Len(building) - 1) :
                 building'[i] = IF i < n THEN building[i] ELSE building[i + 1]
        BY <2>2, <3>3, FailedQueue DEF Fails
      <4>2. /\ Len(building) - 1 \in 1..(Len(building) - 1) /\ ~(Len(building) - 1 < n)
            /\ (Len(building) - 1) + 1 = Len(building)
        BY <2>2, <3>1
      <4>3. building'[Len(building')] = building[Len(building)] /\ Len(building') # 0
        BY <2>2, <4>1, <4>2
      <4> QED
        BY <3>1, <4>3
    <3> QED
      BY <1>18, <3>2, <3>3
  <2>5. ASSUME mine' = "landed"
        PROVE  building' = <<>> /\ live' = kept \cup new
    <3>1. mine = "building" /\ Land(n) /\ n = Len(building)
      BY <1>18, <2>3, <2>5 DEF Land, Fails
    <3>2. live' = kept \cup new
      BY <3>1 DEF Land, MineIsNewest
    <3>3. building' \in Seq(SUBSET Issues) /\ Len(building') = 0
      BY <2>2, <3>1, LandedQueue DEF Land
    <3> QED
      BY <3>2, <3>3, EmptySeq
  <2>6. ~landed
    BY <2>3 DEF MineIsNewest
  <2> QED
    BY <2>1, <2>3, <2>4, <2>5, <2>6 DEF KeptIsLoaded, SlugIsNew, MineIsNewest
<1>19. CASE Propagate \/ UNCHANGED vars
  <2>1. UNCHANGED <<manifest, live, building, pc, kept, new, slug, mine, landed>>
    BY <1>19 DEF Propagate, vars
  <2> QED
    BY <2>1 DEF KeptIsLoaded, SlugIsNew, MineIsNewest
<1>20. ASSUME NEW k \in 0..MaxIssues, Restore(k)
       PROVE  Goal
  <2>1. pc = "idle" /\ UNCHANGED <<live, building, pc, kept, new, slug, mine, landed>>
    BY <1>20 DEF Restore
  <2> QED
    BY <2>1 DEF KeptIsLoaded, SlugIsNew, MineIsNewest
<1> QED
  BY <1>4, <1>5, <1>6, <1>7, <1>9, <1>10, <1>11, <1>12, <1>13, <1>14, <1>15, <1>16, <1>17, <1>18,
     <1>19, <1>20
     DEF Next, Run, Misfortune

LEMMA NextNothingDeployed ==
  ASSUME IInv, [Next]_vars
  PROVE  NothingDeployed'
<1> USE DEF d1, pages, call, past
<1>1. ASSUME UNCHANGED <<live, building, created>>
      PROVE  NothingDeployed'
  BY <1>1 DEF IInv, NothingDeployed
<1>2. CASE StartRun \/ Republish \/ Digest \/ NothingToDigest \/ LoadOwned \/ LoadUnowned
  BY <1>1, <1>2 DEF StartRun, Republish, Digest, NothingToDigest, LoadOwned, LoadUnowned
<1>3. CASE GuardReads \/ GuardBlind \/ SeesLanded \/ SeesFailed \/ Save \/ PageIsLive
  BY <1>1, <1>3 DEF GuardReads, GuardBlind, SeesLanded, SeesFailed, Save, PageIsLive
<1>4. CASE PageIsNotLive \/ LoadFails \/ DeployRefused \/ OutOfTime \/ NoVerdict \/ SaveFails \/ Kill
  BY <1>1, <1>4
     DEF PageIsNotLive, LoadFails, DeployRefused, OutOfTime, NoVerdict, SaveFails, Kill
<1>5. CASE Deploy \/ DeployUnanswered
  BY <1>5 DEF Deploy, DeployUnanswered, Create, NothingDeployed
<1>6. ASSUME NEW n \in DOMAIN building, Land(n) \/ Fails(n)
      PROVE  NothingDeployed'
  <2>1. building # <<>>
    BY <1>6
  <2> QED
    BY <1>6, <2>1 DEF IInv, NothingDeployed, Land, Fails
<1>7. CASE Propagate \/ (\E k \in 0..MaxIssues : Restore(k)) \/ UNCHANGED vars
  BY <1>1, <1>7 DEF Propagate, Restore, vars
<1> QED
  BY <1>2, <1>3, <1>4, <1>5, <1>6, <1>7 DEF Next, Run, Misfortune

-----------------------------------------------------------------------------
(* The site's part: what is proven is up, and stays up. *)

LEMMA ManifestGrows ==
  ASSUME IInv, [Next]_vars, \A k \in 0..MaxIssues : ~Restore(k)
  PROVE  manifest \subseteq manifest' /\ restored' = restored
<1> USE DEF d1, pages, call, past
<1>1. CASE StartRun \/ Republish \/ Digest \/ NothingToDigest \/ LoadOwned \/ LoadUnowned
  BY <1>1 DEF StartRun, Republish, Digest, NothingToDigest, LoadOwned, LoadUnowned
<1>2. CASE GuardReads \/ GuardBlind \/ Deploy \/ SeesLanded \/ SeesFailed \/ PageIsLive
  BY <1>2 DEF GuardReads, GuardBlind, Deploy, SeesLanded, SeesFailed, PageIsLive
<1>3. CASE PageIsNotLive \/ LoadFails \/ DeployRefused \/ DeployUnanswered \/ OutOfTime
  BY <1>3 DEF PageIsNotLive, LoadFails, DeployRefused, DeployUnanswered, OutOfTime
<1>4. CASE Save \/ SaveFails
  <2>1. manifest' \in {manifest, kept \cup new} /\ restored' = restored /\ pc = "save"
    BY <1>4 DEF Save, SaveFails
  <2>2. kept = manifest
    BY <2>1 DEF IInv, KeptIsLoaded
  <2> QED
    BY <2>1, <2>2
<1>5. CASE NoVerdict \/ Kill \/ Propagate \/ UNCHANGED vars
  BY <1>5 DEF NoVerdict, Kill, Propagate, vars
<1>6. ASSUME NEW n \in DOMAIN building, Land(n) \/ Fails(n)
      PROVE  manifest \subseteq manifest' /\ restored' = restored
  BY <1>6 DEF Land, Fails
<1> QED
  BY <1>1, <1>2, <1>3, <1>4, <1>5, <1>6 DEF Next, Run, Misfortune

(* What `publish_site` returned True for is in the manifest. *)
LEMMA PublishedIsSaved ==
  ASSUME IInv, Published, Save \/ PageIsLive
  PROVE  /\ slug \in manifest'
         /\ landed => slug \in live /\ building = <<>> /\ UNCHANGED <<live, building>>
<1> USE DEF IInv, d1, pages
<1>1. slug \in new
  BY DEF Save, PageIsLive, SlugIsNew
<1>2. CASE Save
  BY <1>1, <1>2 DEF Save, MineIsNewest
<1>3. CASE PageIsLive /\ landed
  BY <1>1, <1>3 DEF PageIsLive, KeptIsLoaded, MineIsNewest
<1>4. CASE PageIsLive /\ ~landed
  <2>1. pc' = "save"
    BY <1>4 DEF PageIsLive
  <2>2. pc' \in {"idle", "digest"}
    BY DEF Published, Return
  <2> QED
    BY <2>1, <2>2
<1> QED
  BY <1>2, <1>3, <1>4

(* A step may add one proof, of an issue that is live and in the manifest. *)
LEMMA LinkedGrows ==
  ASSUME IInv, [Next]_vars
  PROVE  \/ linked' = linked
         \/ /\ linked' = linked \cup {[issue |-> slug, landed |-> landed]}
            /\ slug \in manifest'
            /\ landed => slug \in live /\ building = <<>> /\ UNCHANGED <<live, building>>
<1> USE DEF d1, pages, call, past
<1>1. CASE StartRun \/ Republish \/ Digest \/ NothingToDigest \/ LoadOwned \/ LoadUnowned
  BY <1>1 DEF StartRun, Republish, Digest, NothingToDigest, LoadOwned, LoadUnowned
<1>2. CASE GuardReads \/ GuardBlind \/ Deploy \/ SeesLanded \/ SeesFailed
  BY <1>2 DEF GuardReads, GuardBlind, Deploy, SeesLanded, SeesFailed
<1>3. CASE PageIsNotLive \/ LoadFails \/ DeployRefused \/ DeployUnanswered \/ OutOfTime
  BY <1>3 DEF PageIsNotLive, LoadFails, DeployRefused, DeployUnanswered, OutOfTime
<1>4. CASE SaveFails \/ NoVerdict \/ Kill \/ Propagate \/ UNCHANGED vars
  BY <1>4 DEF SaveFails, NoVerdict, Kill, Propagate, vars
<1>5. CASE Save \/ PageIsLive
  <2>1. linked' = linked \/ Published
    BY <1>5 DEF Save, PageIsLive
  <2> QED
    BY <1>5, <2>1, PublishedIsSaved DEF Published
<1>6. ASSUME NEW n \in DOMAIN building, Land(n) \/ Fails(n)
      PROVE  linked' = linked
  BY <1>6 DEF Land, Fails
<1>7. CASE \E k \in 0..MaxIssues : Restore(k)
  BY <1>7 DEF Restore
<1> QED
  BY <1>1, <1>2, <1>3, <1>4, <1>5, <1>6, <1>7 DEF Next, Run, Misfortune

(* A deployment that ends leaves the others. *)
LEMMA QueueShrinks ==
  ASSUME TypeOK, NEW n \in DOMAIN building, Land(n) \/ Fails(n)
  PROVE  \A i \in DOMAIN building' : \E m \in DOMAIN building : building'[i] = building[m]
<1>1. /\ building \in Seq(SUBSET Issues) /\ DOMAIN building = 1..Len(building)
      /\ n \in 1..Len(building) /\ Len(building) \in Nat
  BY LenProperties DEF TypeOK
<1>2. CASE Land(n)
  <2>1. /\ building' \in Seq(SUBSET Issues) /\ Len(building') = Len(building) - n
        /\ \A i \in 1..(Len(building) - n) : building'[i] = building[n + i]
    BY <1>1, <1>2, LandedQueue DEF Land
  <2>2. DOMAIN building' = 1..(Len(building) - n)
    BY <2>1, LenProperties
  <2>3. \A i \in 1..(Len(building) - n) : n + i \in 1..Len(building)
    BY <1>1
  <2> QED
    BY <1>1, <2>1, <2>2, <2>3
<1>3. CASE Fails(n)
  <2>1. /\ building' \in Seq(SUBSET Issues) /\ Len(building') = Len(building) - 1
        /\ \A i \in 1..(Len(building) - 1) :
             building'[i] = IF i < n THEN building[i] ELSE building[i + 1]
    BY <1>1, <1>3, FailedQueue DEF Fails
  <2>2. DOMAIN building' = 1..(Len(building) - 1)
    BY <2>1, LenProperties
  <2>3. \A i \in 1..(Len(building) - 1) : i \in 1..Len(building) /\ i + 1 \in 1..Len(building)
    BY <1>1
  <2> QED
    BY <1>1, <2>1, <2>2, <2>3
<1> QED
  BY <1>2, <1>3

(* What a step does to the deployments. *)
LEMMA Deployments ==
  ASSUME IInv, [Next]_vars
  PROVE  /\ live' = live \/ (\E n \in DOMAIN building : live' = building[n])
         /\ \A i \in DOMAIN building' :
              \/ \E n \in DOMAIN building : building'[i] = building[n]
              \/ building'[i] = manifest \cup new
<1> USE DEF IInv, d1, pages, call, past
<1>1. ASSUME UNCHANGED <<live, building>>
      PROVE  /\ live' = live
             /\ \A i \in DOMAIN building' : \E n \in DOMAIN building : building'[i] = building[n]
  BY <1>1
<1>2. CASE StartRun \/ Republish \/ Digest \/ NothingToDigest \/ LoadOwned \/ LoadUnowned
  BY <1>1, <1>2 DEF StartRun, Republish, Digest, NothingToDigest, LoadOwned, LoadUnowned
<1>3. CASE GuardReads \/ GuardBlind \/ SeesLanded \/ SeesFailed \/ Save \/ PageIsLive
  BY <1>1, <1>3 DEF GuardReads, GuardBlind, SeesLanded, SeesFailed, Save, PageIsLive
<1>4. CASE PageIsNotLive \/ LoadFails \/ DeployRefused \/ OutOfTime \/ NoVerdict \/ SaveFails \/ Kill
  BY <1>1, <1>4
     DEF PageIsNotLive, LoadFails, DeployRefused, OutOfTime, NoVerdict, SaveFails, Kill
<1>5. CASE Propagate \/ (\E k \in 0..MaxIssues : Restore(k)) \/ UNCHANGED vars
  BY <1>1, <1>5 DEF Propagate, Restore, vars
<1>6. CASE Deploy \/ DeployUnanswered
  <2>1. live' = live /\ building' = Append(building, kept \cup new) /\ pc = "deploy"
    BY <1>6 DEF Deploy, DeployUnanswered, Create
  <2>2. building \in Seq(SUBSET Issues) /\ kept \cup new \in SUBSET Issues
    BY DEF TypeOK
  <2>3. kept = manifest
    BY <2>1 DEF KeptIsLoaded
  <2> QED
    BY <2>1, <2>2, <2>3, GrownQueue
<1>7. ASSUME NEW n \in DOMAIN building, Land(n) \/ Fails(n)
      PROVE  live' = live \/ live' = building[n]
  BY <1>7 DEF Land, Fails
<1> QED
  BY <1>2, <1>3, <1>4, <1>5, <1>6, <1>7, QueueShrinks DEF Next, Run, Misfortune

(* Unless D1 is restored, what is up but for K stays up. *)
LEMMA StaysUp ==
  ASSUME IInv, [Next]_vars, \A k \in 0..MaxIssues : ~Restore(k),
         NEW K, Proven \ K \subseteq manifest, UpBut(K)
  PROVE  Proven' \ K \subseteq manifest' /\ UpBut(K)'
<1>1. manifest \subseteq manifest'
  BY ManifestGrows
<1>2. CASE Proven' = Proven
  <2>1. Proven \ K \subseteq live'
    BY Deployments DEF UpBut
  <2>2. ASSUME NEW i \in DOMAIN building' PROVE Proven \ K \subseteq building'[i]
    BY <2>2, Deployments DEF UpBut
  <2> QED
    BY <1>1, <1>2, <2>1, <2>2 DEF UpBut
<1>3. CASE Proven' # Proven
  <2>1. /\ linked' = linked \cup {[issue |-> slug, landed |-> landed]}
        /\ slug \in manifest'
        /\ landed => slug \in live /\ building = <<>> /\ UNCHANGED <<live, building>>
    BY <1>3, LinkedGrows DEF Proven
  <2>2. CASE landed
    <3>1. Proven' \subseteq Proven \cup {slug}
      BY <2>1 DEF Proven
    <3> QED
      BY <1>1, <2>1, <2>2, <3>1 DEF UpBut
  <2>3. CASE ~landed
    BY <1>3, <2>1, <2>3 DEF Proven
  <2> QED
    BY <2>2, <2>3
<1> QED
  BY <1>2, <1>3

LEMMA NextAllUp ==
  ASSUME IInv, [Next]_vars
  PROVE  AllUp'
<1> SUFFICES ASSUME ~restored' PROVE (Linked \subseteq manifest /\ UpBut({}))'
  BY DEF AllUp
<1>1. ASSUME NEW k \in 0..MaxIssues, Restore(k)
      PROVE  FALSE
  BY <1>1 DEF Restore
<1>2. ~restored /\ manifest \subseteq manifest'
  BY <1>1, ManifestGrows
<1>3. Linked \subseteq manifest /\ UpBut({})
  BY <1>2 DEF IInv, AllUp
<1>4. Proven \subseteq Linked
  BY DEF Proven, Linked
<1>5. UpBut({})'
  BY <1>1, <1>3, <1>4, StaysUp
<1>6. Linked' \subseteq Linked \cup {slug} /\ (Linked' = Linked \/ slug \in manifest')
  BY LinkedGrows DEF Linked
<1> QED
  BY <1>2, <1>3, <1>5, <1>6

(* Only the guard that cannot read the index risks a site unread. *)
LEMMA BlindGrows ==
  ASSUME [Next]_vars, ~GuardBlind
  PROVE  blind' = blind
<1> USE DEF d1, pages, call, past
<1>1. CASE StartRun \/ Republish \/ Digest \/ NothingToDigest \/ LoadOwned \/ LoadUnowned
  BY <1>1 DEF StartRun, Republish, Digest, NothingToDigest, LoadOwned, LoadUnowned
<1>2. CASE GuardReads \/ Deploy \/ SeesLanded \/ SeesFailed \/ Save \/ PageIsLive
  BY <1>2 DEF GuardReads, Deploy, SeesLanded, SeesFailed, Save, PageIsLive
<1>3. CASE PageIsNotLive \/ LoadFails \/ DeployRefused \/ DeployUnanswered \/ OutOfTime
  BY <1>3 DEF PageIsNotLive, LoadFails, DeployRefused, DeployUnanswered, OutOfTime
<1>4. CASE SaveFails \/ NoVerdict \/ Kill \/ Propagate \/ UNCHANGED vars
  BY <1>4 DEF SaveFails, NoVerdict, Kill, Propagate, vars
<1>5. ASSUME NEW n \in DOMAIN building, Land(n) \/ Fails(n)
      PROVE  blind' = blind
  BY <1>5 DEF Land, Fails
<1>6. CASE \E k \in 0..MaxIssues : Restore(k)
  BY <1>6 DEF Restore
<1> QED
  BY <1>1, <1>2, <1>3, <1>4, <1>5, <1>6 DEF Next, Run, Misfortune

(* A site of which nothing is proven has nothing to lose. *)
LEMMA NoneLost ==
  ASSUME Proven' = {}
  PROVE  Counted'
<1>1. {} \in SUBSET Issues /\ Cardinality({}) <= Tolerance
  BY FS_EmptySet, BoundsAssumption
<1>2. Proven' \ {} \subseteq manifest' /\ UpBut({})'
  BY DEF UpBut
<1> QED
  BY <1>1, <1>2 DEF Counted

(* Where D1 was restored, the guard counts what the next deployment costs. *)
LEMMA GuardCounts ==
  ASSUME IInv, Untouched, GuardReads \/ GuardBlind, pc' = "deploy", ~blind'
  PROVE  Counted'
<1> USE DEF IInv, d1, pages, call, past
<1>1. pc = "guard" /\ edge = live /\ building = <<>> /\ kept = manifest /\ Proven \subseteq live
  BY DEF GuardReads, GuardBlind, Untouched, UpBut, KeptIsLoaded
<1>2. UNCHANGED <<manifest, live, building, linked>>
  BY DEF GuardReads, GuardBlind
<1>3. Proven' = Proven /\ DOMAIN building' = {}
  BY <1>1, <1>2 DEF Proven
<1>4. PICK K \in SUBSET Issues : K = Proven \ manifest
  BY <1>1 DEF TypeOK
<1>5. Cardinality(K) <= Tolerance
  <2>1. CASE GuardReads
    <3>1. Cardinality(live \ manifest) <= Tolerance
      BY <1>1, <2>1 DEF GuardReads, Return
    <3>2. live \ manifest \in SUBSET Issues /\ K \subseteq live \ manifest
      BY <1>1, <1>4 DEF TypeOK
    <3>3. Cardinality(K) <= Cardinality(live \ manifest)
      BY <3>2, IssuesFinite, FS_Subset
    <3>4. Cardinality(K) \in Nat /\ Cardinality(live \ manifest) \in Nat
      BY <1>4, <3>2, IssuesFinite
    <3> QED
      BY <3>1, <3>3, <3>4, BoundsAssumption
  <2>2. CASE GuardBlind
    <3>1. kept = {}
      BY <2>2 DEF GuardBlind, Return
    <3>2. edge = {}
      BY <2>2, <3>1 DEF GuardBlind
    <3>3. K = {}
      BY <1>1, <1>4, <3>2
    <3> QED
      BY <3>3, FS_EmptySet, BoundsAssumption
  <2> QED
    BY <2>1, <2>2
<1>6. Proven' \ K \subseteq manifest' /\ UpBut(K)'
  BY <1>1, <1>2, <1>3, <1>4 DEF UpBut
<1> QED
  BY <1>4, <1>5, <1>6 DEF Counted

(* A step that does not deploy leaves a restored D1 untouched. *)
LEMMA NextUntouched ==
  ASSUME IInv, [Next]_vars, Untouched, \A k \in 0..MaxIssues : ~Restore(k), ~blind'
  PROVE  Untouched' \/ Counted'
<1> USE DEF IInv, d1, pages, call, past
<1>1. ASSUME UNCHANGED <<live, edge, building, linked>>,
             pc' \in {"idle", "republish", "digest", "load", "guard"},
             pc = "idle" /\ pc' # "idle" => building = <<>> /\ edge = live
      PROVE  Untouched'
  <2>1. Proven' = Proven
    BY <1>1 DEF Proven
  <2>2. UpBut({})'
    BY <1>1, <2>1 DEF Untouched, UpBut
  <2> QED
    BY <1>1, <2>2 DEF Untouched
<1>2. pc \in {"idle", "republish", "digest", "load", "guard"}
  BY DEF Untouched
<1>3. CASE StartRun \/ NothingToDigest \/ LoadOwned \/ LoadFails \/ Kill
  <2>1. /\ UNCHANGED <<live, edge, building, linked>>
        /\ pc' \in {"idle", "republish", "digest", "load", "guard"}
        /\ pc = "idle" /\ pc' # "idle" => building = <<>> /\ edge = live
    BY <1>2, <1>3 DEF StartRun, NothingToDigest, LoadOwned, LoadFails, Kill, Return
  <2> QED
    BY <1>1, <2>1
<1>4. CASE Republish \/ Digest
  <2>1. /\ UNCHANGED <<live, edge, building, linked>>
        /\ pc # "idle" /\ pc' \in {"digest", "load"}
    BY <1>4 DEF Republish, Digest, Enter
  <2> QED
    BY <1>1, <2>1
<1>5. CASE LoadUnowned
  <2>1. /\ UNCHANGED <<manifest, live, edge, building, created, linked>> /\ pc = "load"
        /\ IF created THEN Return ELSE pc' = "deploy"
    BY <1>5 DEF LoadUnowned
  <2>2. CASE created
    BY <1>1, <2>1, <2>2 DEF Return
  <2>3. CASE ~created
    <3>1. live = {}
      BY <2>3 DEF NothingDeployed
    <3>2. Proven' = {}
      BY <2>1, <3>1 DEF Untouched, UpBut, Proven
    <3> QED
      BY <3>2, NoneLost
  <2> QED
    BY <2>2, <2>3
<1>6. CASE GuardReads \/ GuardBlind
  <2>1. UNCHANGED <<live, edge, building, linked>> /\ pc = "guard" /\ (pc' = "deploy" \/ Return)
    BY <1>6 DEF GuardReads, GuardBlind
  <2>2. CASE pc' = "deploy"
    BY <1>6, <2>2, GuardCounts
  <2>3. CASE Return
    BY <1>1, <2>1, <2>3 DEF Return
  <2> QED
    BY <2>1, <2>2, <2>3
<1>7. ASSUME NEW n \in DOMAIN building, Land(n) \/ Fails(n)
      PROVE  Untouched'
  <2>1. building # <<>>
    BY <1>7
  <2>2. pc' = "idle" /\ linked' = linked
    BY <1>7, <2>1 DEF Untouched, Land, Fails
  <2>3. UpBut({})'
    <3>1. live' = live \/ live' = building[n]
      BY <1>7 DEF Land, Fails
    <3>2. Proven' = Proven
      BY <2>2 DEF Proven
    <3>3. \A i \in DOMAIN building' : \E m \in DOMAIN building : building'[i] = building[m]
      BY <1>7, QueueShrinks
    <3> QED
      BY <3>1, <3>2, <3>3 DEF Untouched, UpBut
  <2> QED
    BY <2>2, <2>3 DEF Untouched
<1>8. CASE Propagate
  <2>1. pc = "idle" /\ UNCHANGED <<pc, live, building, linked>>
    BY <1>8 DEF Propagate, Untouched
  <2>2. UpBut({})'
    BY <2>1 DEF Untouched, UpBut, Proven
  <2> QED
    BY <2>1, <2>2 DEF Untouched
<1>9. CASE UNCHANGED vars
  <2>1. UNCHANGED <<pc, live, edge, building, linked>>
    BY <1>9 DEF vars
  <2> QED
    BY <1>1, <1>2, <2>1
<1>10. ~ (\/ Deploy \/ SeesLanded \/ SeesFailed \/ Save \/ PageIsLive \/ PageIsNotLive
          \/ DeployRefused \/ DeployUnanswered \/ OutOfTime \/ NoVerdict \/ SaveFails)
  BY <1>2 DEF Deploy, SeesLanded, SeesFailed, Save, PageIsLive, PageIsNotLive, DeployRefused,
              DeployUnanswered, OutOfTime, NoVerdict, SaveFails
<1> QED
  BY <1>3, <1>4, <1>5, <1>6, <1>7, <1>8, <1>9, <1>10 DEF Next, Run, Misfortune

LEMMA NextLossIsCounted ==
  ASSUME IInv, [Next]_vars
  PROVE  LossIsCounted'
<1> SUFFICES ASSUME ~blind' PROVE Untouched' \/ Counted'
  BY DEF LossIsCounted
<1> USE DEF d1, pages, call, past
<1>1. ~blind
  <2>1. CASE GuardBlind
    BY <2>1 DEF GuardBlind
  <2>2. CASE ~GuardBlind
    <3>1. blind' = blind
      BY <2>2, BlindGrows
    <3> QED
      BY <3>1
  <2> QED
    BY <2>1, <2>2
<1>2. ASSUME NEW k \in 0..MaxIssues, Restore(k)
      PROVE  Untouched'
  <2>1. ~restored /\ pc = "idle" /\ UNCHANGED <<pc, live, building, linked>>
    BY <1>2 DEF Restore
  <2>2. UpBut({})
    BY <2>1 DEF IInv, AllUp
  <2>3. UpBut({})'
    BY <2>1, <2>2 DEF UpBut, Proven
  <2> QED
    BY <2>1, <2>3 DEF Untouched
<1>3. ASSUME \A k \in 0..MaxIssues : ~Restore(k), Counted
      PROVE  Counted'
  <2>1. PICK K \in SUBSET Issues :
          Cardinality(K) <= Tolerance /\ Proven \ K \subseteq manifest /\ UpBut(K)
    BY <1>3 DEF Counted
  <2>2. Proven' \ K \subseteq manifest' /\ UpBut(K)'
    BY <1>3, <2>1, StaysUp
  <2> QED
    BY <2>1, <2>2 DEF Counted
<1>4. ASSUME \A k \in 0..MaxIssues : ~Restore(k), Untouched
      PROVE  Untouched' \/ Counted'
  BY <1>4, NextUntouched
<1> QED
  BY <1>1, <1>2, <1>3, <1>4 DEF IInv, LossIsCounted

LEMMA Invariance == Spec => []IInv
<1>1. Init => IInv
  BY InitIInv
<1>2. IInv /\ [Next]_vars => IInv'
  <2> SUFFICES ASSUME IInv, [Next]_vars PROVE IInv'
    OBVIOUS
  <2>1. TypeOK'
    BY NextCallOK, NextWorldOK DEF IInv, TypeOK, CallOK, WorldOK
  <2> QED
    BY <2>1, NextCall, NextNothingDeployed, NextAllUp, NextLossIsCounted DEF IInv
<1> QED
  BY <1>1, <1>2, PTL DEF Spec

-----------------------------------------------------------------------------
(* The theorems. *)

(* The variables keep their types. *)
THEOREM TypeCorrect == Spec => []TypeOK
<1>1. IInv => TypeOK
  BY DEF IInv
<1> QED
  BY <1>1, Invariance, PTL

(* A link once given stays good: until D1 is restored, what `publish_site` *)
(* returned True for is in the manifest, and what it had seen land is on   *)
(* the newest deployment, whatever later runs deploy, lose or are killed   *)
(* in.                                                                     *)
THEOREM LinksStayGood == Spec => []LinkedStaysUp
<1>1. IInv => LinkedStaysUp
  BY DEF IInv, AllUp, UpBut, LinkedStaysUp
<1> QED
  BY <1>1, Invariance, PTL

(* A database put back costs the site no more issues than the guard        *)
(* tolerates, unless the index could not be read when the manifest was     *)
(* empty.                                                                  *)
THEOREM LossIsBounded == Spec => []LossIsTolerated
<1>1. IInv => LossIsTolerated
  <2> SUFFICES ASSUME IInv, ~blind PROVE Cardinality(Proven \ live) <= Tolerance
    BY DEF LossIsTolerated
  <2>1. CASE Untouched
    <3>1. Proven \ live = {}
      BY <2>1 DEF Untouched, UpBut
    <3> QED
      BY <3>1, FS_EmptySet, BoundsAssumption
  <2>2. CASE Counted
    <3>1. PICK K \in SUBSET Issues : Cardinality(K) <= Tolerance /\ UpBut(K)
      BY <2>2 DEF Counted
    <3>2. Proven \ live \subseteq K
      BY <3>1 DEF UpBut
    <3>3. Cardinality(Proven \ live) <= Cardinality(K)
      BY <3>1, <3>2, IssuesFinite, FS_Subset
    <3>4. Cardinality(K) \in Nat /\ Cardinality(Proven \ live) \in Nat
      BY <3>1, <3>2, IssuesFinite
    <3> QED
      BY <3>1, <3>3, <3>4, BoundsAssumption
  <2> QED
    BY <2>1, <2>2 DEF IInv, LossIsCounted
<1> QED
  BY <1>1, Invariance, PTL
=============================================================================
