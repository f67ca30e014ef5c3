----------------------------- MODULE JudgingProofs -----------------------------
(***************************************************************************)
(* Proofs about what a run makes of its articles, for any articles, bounds *)
(* and replies: the page gives each article a verdict its lane allows      *)
(* (DigestPipeline refines Judgement) and one place, a hold is neither     *)
(* doubled nor forgotten (VoteHolds), and the records of an issue are      *)
(* never emptied by a save that fails (IssueRecords).                      *)
(***************************************************************************)
EXTENDS MCJudging, FiniteSetTheorems, SequenceTheorems, WellFoundedInduction, TLAPS

(* Finite sets and their orders. *)

(* A set of naturals that is not empty has a least element. *)
LEMMA LeastNat ==
  ASSUME NEW T, T \subseteq Nat, T # {}
  PROVE  \E m \in T : \A n \in T : m <= n
<1> DEFINE Less == OpToRel(<, Nat)
<1>1. \E m \in T : \A n \in T : ~ (<<n, m>> \in Less)
  BY NatLessThanWellFounded, WFMin
<1>2. \A m, n \in Nat : n < m => <<n, m>> \in Less
  BY DEF OpToRel
<1>3. PICK m \in T : \A n \in T : ~ (<<n, m>> \in Less)
  BY <1>1
<1>4. ASSUME NEW n \in T PROVE m <= n
  <2>1. ~ (n < m)
    BY <1>2, <1>3
  <2> QED BY <2>1
<1> QED BY <1>4

(* A set of naturals that holds 0, and n + 1 with n, holds them all.       *)
LEMMA AllNat ==
  ASSUME NEW T, 0 \in T, \A n \in Nat : n \in T => n + 1 \in T
  PROVE  \A n \in Nat : n \in T
<1> DEFINE U == Nat \ T
<1> SUFFICES ASSUME U # {} PROVE FALSE
  OBVIOUS
<1>1. PICK m \in U : \A n \in U : m <= n
  <2> HIDE DEF U
  <2>1. U \subseteq Nat
    BY DEF U
  <2> QED BY <2>1, LeastNat
<1>2. m \in Nat /\ m # 0 /\ m \notin T
  BY <1>1
<1>3. m - 1 \in Nat /\ (m - 1) + 1 = m
  BY <1>2
<1>4. m - 1 \in T
  <2>1. ~ (m <= m - 1)
    BY <1>2
  <2> QED BY <1>1, <1>3, <2>1
<1> QED BY <1>2, <1>3, <1>4

(* A strict total order on a finite set has a last element, and a sequence *)
(* that names each element once, in its order.                             *)
Orders(R, S) ==
  /\ \A p, q \in S : p # q => <<p, q>> \in R \/ <<q, p>> \in R
  /\ \A p, q, r \in S : <<p, q>> \in R /\ <<q, r>> \in R => <<p, r>> \in R

LEMMA LastOne ==
  ASSUME NEW S, IsFiniteSet(S), S # {}, NEW R, Orders(R, S)
  PROVE  \E x \in S : \A y \in S \ {x} : <<y, x>> \in R
<1> DEFINE Good(T) == T # {} => \E x \in T : \A y \in T \ {x} : <<y, x>> \in R
           K == {n \in Nat : \A T \in SUBSET S : Cardinality(T) = n => Good(T)}
<1>1. 0 \in K
  <2> SUFFICES ASSUME NEW T \in SUBSET S, Cardinality(T) = 0 PROVE Good(T)
    OBVIOUS
  <2>1. IsFiniteSet(T)
    BY FS_Subset
  <2>2. T = {}
    BY <2>1, FS_EmptySet
  <2> QED BY <2>2
<1>2. ASSUME NEW n \in Nat, n \in K PROVE n + 1 \in K
  <2> SUFFICES ASSUME NEW T \in SUBSET S, Cardinality(T) = n + 1, T # {}
               PROVE  \E x \in T : \A y \in T \ {x} : <<y, x>> \in R
    OBVIOUS
  <2>1. PICK t \in T : TRUE
    OBVIOUS
  <2>2. IsFiniteSet(T)
    BY FS_Subset
  <2>3. Cardinality(T \ {t}) = n
    <3>1. Cardinality(T \ {t}) = Cardinality(T) - 1
      BY <2>1, <2>2, FS_RemoveElement
    <3> QED BY <3>1
  <2>4. Good(T \ {t})
    BY <1>2, <2>3
  <2>5. CASE T \ {t} = {}
    BY <2>1, <2>5
  <2>6. CASE T \ {t} # {}
    <3>1. PICK x \in T \ {t} : \A y \in (T \ {t}) \ {x} : <<y, x>> \in R
      BY <2>4, <2>6
    <3>2. CASE <<t, x>> \in R
      BY <3>1, <3>2
    <3>3. CASE <<x, t>> \in R
      <4>1. \A y \in T \ {t} : <<y, t>> \in R
        BY <2>1, <3>1, <3>3 DEF Orders
      <4> QED BY <2>1, <4>1
    <3> QED BY <2>1, <3>1, <3>2, <3>3 DEF Orders
  <2> QED BY <2>5, <2>6
<1>3. \A n \in Nat : n \in K
  <2> HIDE DEF K
  <2> QED BY <1>1, <1>2, AllNat
<1>4. Cardinality(S) \in Nat
  BY FS_CardinalityType
<1> QED BY <1>3, <1>4

LEMMA InItsOrder ==
  ASSUME NEW S, IsFiniteSet(S), NEW R, Orders(R, S)
  PROVE  \E s \in SetToSeqs(S) : \A i, j \in DOMAIN s : i < j => <<s[i], s[j]>> \in R
<1> DEFINE Sorted(s, n) == \A i, j \in 1..n : i < j => <<s[i], s[j]>> \in R /\ s[i] # s[j]
           K == {n \in Nat : \A T \in SUBSET S : Cardinality(T) = n =>
                   \E s \in [1..n -> T] : Sorted(s, n)}
<1>1. 0 \in K
  <2> SUFFICES ASSUME NEW T \in SUBSET S, Cardinality(T) = 0
               PROVE  \E s \in [1..0 -> T] : Sorted(s, 0)
    OBVIOUS
  <2>1. 1..0 = {}
    OBVIOUS
  <2>2. [i \in 1..0 |-> i] \in [1..0 -> T]
    BY <2>1
  <2> QED BY <2>1, <2>2
<1>2. ASSUME NEW n \in Nat, n \in K PROVE n + 1 \in K
  <2> SUFFICES ASSUME NEW T \in SUBSET S, Cardinality(T) = n + 1
               PROVE  \E s \in [1..(n + 1) -> T] : Sorted(s, n + 1)
    OBVIOUS
  <2>0. IsFiniteSet(T)
    BY FS_Subset
  <2>1. T # {}
    BY <2>0, FS_EmptySet
  <2>2. PICK x \in T : \A y \in T \ {x} : <<y, x>> \in R
    BY <2>0, <2>1, LastOne DEF Orders
  <2>3. Cardinality(T \ {x}) = n
    <3>1. x \in T
      OBVIOUS
    <3>2. Cardinality(T \ {x}) = Cardinality(T) - 1
      BY <2>0, <3>1, FS_RemoveElement
    <3> QED BY <3>2
  <2>4. PICK s \in [1..n -> T \ {x}] : Sorted(s, n)
    BY <1>2, <2>3
  <2> DEFINE t == [i \in 1..(n + 1) |-> IF i = n + 1 THEN x ELSE s[i]]
  <2>5. t \in [1..(n + 1) -> T]
    OBVIOUS
  <2>6. ASSUME NEW i \in 1..(n + 1), NEW j \in 1..(n + 1), i < j
        PROVE  <<t[i], t[j]>> \in R /\ t[i] # t[j]
    <3>1. i \in 1..n /\ t[i] = s[i] /\ s[i] \in T \ {x}
      BY <2>6
    <3>2. CASE j = n + 1
      BY <2>2, <3>1, <3>2
    <3>3. CASE j # n + 1
      <4>1. j \in 1..n /\ t[j] = s[j]
        BY <3>3
      <4> QED BY <2>4, <2>6, <3>1, <4>1
    <3> QED BY <3>2, <3>3
  <2> HIDE DEF t
  <2> QED BY <2>5, <2>6
<1>3. \A n \in Nat : n \in K
  <2> HIDE DEF K
  <2> QED BY <1>1, <1>2, AllNat
<1>4. Cardinality(S) \in Nat
  BY FS_CardinalityType
<1>5. PICK s \in [1..Cardinality(S) -> S] : Sorted(s, Cardinality(S))
  BY <1>3, <1>4
<1>6. ASSUME NEW i \in 1..Cardinality(S), NEW j \in 1..Cardinality(S), i # j
      PROVE  s[i] # s[j]
  <2>1. i < j \/ j < i
    BY <1>4, <1>6
  <2> QED BY <1>5, <2>1
<1>7. s \in SetToSeqs(S)
  BY <1>6 DEF SetToSeqs
<1> QED BY <1>5, <1>7

(* A sequence that names each element of a finite set once names them all. *)
LEMMA AllNamed ==
  ASSUME NEW S, IsFiniteSet(S), NEW s \in SetToSeqs(S)
  PROVE  s \in Seq(S) /\ Range(s) = S /\ Len(s) = Cardinality(S) /\ DOMAIN s = 1..Len(s)
         /\ \A i, j \in DOMAIN s : i # j => s[i] # s[j]
<1> DEFINE n == Cardinality(S)
<1>1. n \in Nat /\ s \in [1..n -> S] /\ \A i, j \in 1..n : i # j => s[i] # s[j]
  BY FS_CardinalityType DEF SetToSeqs
<1>2. s \in Seq(S) /\ Len(s) = n
  BY <1>1
<1>3. Range(s) = S
  <2>1. IsFiniteSet(1..n) /\ Cardinality(1..n) = n
    BY <1>1, FS_Interval
  <2> SUFFICES ASSUME NEW x \in S, \A i \in 1..n : s[i] # x PROVE FALSE
    BY <1>1 DEF Range
  <2>2. IsFiniteSet(S \ {x}) /\ Cardinality(S \ {x}) = n - 1
    BY FS_RemoveElement
  <2>3. s \in [1..n -> S \ {x}]
    BY <1>1
  <2>4. PICK i, j \in 1..n : i # j /\ s[i] = s[j]
    BY <1>1, <2>1, <2>2, <2>3, FS_PigeonHole
  <2> QED BY <1>1, <2>4
<1> QED BY <1>1, <1>2, <1>3

-----------------------------------------------------------------------------
(* The page. *)

(* Before the end of the run nothing is written. *)
UndecidedYet == pc # "done" => verdict = [p \in Positions |-> "pending"]

PageInv == lane \in [Positions -> Lanes] /\ UndecidedYet

-----------------------------------------------------------------------------
(* The holds. *)

(* The clock stands while a run is under way. *)
RunInItsHour == turn # "idle" => began = now

HoldsInTime == \A h \in holds : h.until = h.run_at + Clock /\ h.run_at <= now

(* What the run flags is undecided, and dropped. *)
FlaggedIsOpen ==
  /\ turn \in {"hold", "record", "issue"} => flagged \cap decided = {}
  /\ turn \in {"record", "issue"} => flagged \subseteq dropped

(* The run knows every hold that is live when it records its own. *)
LiveWasRead ==
  turn = "record" /\ ~misread =>
    \A h \in holds : h.until > began => h.url \in voted \/ h.url \in live

(* And what it keeps is under none. *)
KeptIsFree ==
  turn \in {"record", "issue"} /\ ~misread =>
    \A h \in holds : h.url \in pending \ dropped => h.until <= began \/ h.url \in voted

HoldsInv ==
  /\ Vh!TypeOK
  /\ Vh!OneClock
  /\ Vh!DecidedIsNotDropped
  /\ RunInItsHour
  /\ HoldsInTime
  /\ FlaggedIsOpen
  /\ LiveWasRead
  /\ KeptIsFree

LEMMA InitHolds == Vh!Init => HoldsInv
<1> SUFFICES ASSUME Vh!Init PROVE HoldsInv
  OBVIOUS
<1>1. now \in Vh!Hour /\ began \in Vh!Hour /\ fresh \in [Articles -> Vh!Hour]
  BY HoursAssumption DEF Vh!Init, Vh!Hour
<1>2. misreads = 0 /\ misreads \in 0..Misreads
  BY BoundsAssumption DEF Vh!Init
<1>3. Vh!TypeOK
  BY <1>1, <1>2 DEF Vh!Init, Vh!TypeOK
<1> QED BY <1>3
  DEF Vh!Init, HoldsInv, Vh!OneClock, Vh!DecidedIsNotDropped, RunInItsHour, HoldsInTime,
      FlaggedIsOpen, LiveWasRead, KeptIsFree

LEMMA HoldsType ==
  ASSUME HoldsInv, [Vh!Next]_ofHolds
  PROVE  Vh!TypeOK'
<1>a. Vh!TypeOK
  BY DEF HoldsInv
<1> USE DEF Vh!TypeOK
<1>1. CASE Vh!Tick
  BY <1>a, <1>1, HoursAssumption DEF Vh!Tick, Vh!data, Vh!run, Vh!Hour
<1>2. ASSUME NEW a \in Articles, Vh!Vote(a) PROVE Vh!TypeOK'
  BY <1>a, <1>2 DEF Vh!Vote, Vh!run
<1>3. ASSUME NEW a \in Articles, Vh!Arrive(a) PROVE Vh!TypeOK'
  BY <1>a, <1>3 DEF Vh!Arrive, Vh!run
<1>4. CASE Vh!Run \/ Vh!Rerun
  BY <1>a, <1>4 DEF Vh!Run, Vh!Rerun, Vh!Start, Vh!data
<1>5. CASE Vh!Judge
  BY <1>a, <1>5 DEF Vh!Judge, Vh!Candidates, Vh!data
<1>6. CASE Vh!ReadHolds
  BY <1>a, <1>6 DEF Vh!ReadHolds, Vh!Dropped, Vh!Active, Vh!Live, Vh!data
<1>7. CASE Vh!ReadFails
  BY <1>a, <1>7, BoundsAssumption DEF Vh!ReadFails, Vh!Dropped, Vh!data
<1>8. CASE Vh!Record
  BY <1>a, <1>8, HoursAssumption DEF Vh!Record, Vh!NewHolds, Vh!data, Vh!Hour
<1>9. CASE Vh!Issue
  BY <1>a, <1>9 DEF Vh!Issue
<1>10. CASE Vh!Kill
  BY <1>a, <1>10 DEF Vh!Kill, Vh!data
<1>11. CASE UNCHANGED ofHolds
  BY <1>a, <1>11 DEF ofHolds
<1> QED BY <1>1, <1>2, <1>3, <1>4, <1>5, <1>6, <1>7, <1>8, <1>9, <1>10, <1>11 DEF Vh!Next

LEMMA NextHolds ==
  ASSUME HoldsInv, [Vh!Next]_ofHolds
  PROVE  HoldsInv'
<1>a. /\ Vh!TypeOK /\ Vh!OneClock /\ Vh!DecidedIsNotDropped /\ RunInItsHour /\ HoldsInTime
      /\ FlaggedIsOpen /\ LiveWasRead /\ KeptIsFree
  BY DEF HoldsInv
<1>t. Vh!TypeOK'
  BY HoldsType
<1>b. /\ now \in Nat /\ began \in Nat /\ Clock \in Nat
      /\ \A h \in holds : h.until \in Nat /\ h.run_at \in Nat
      /\ pending \subseteq Articles /\ flagged \subseteq pending /\ decided \subseteq voted
      /\ holds \subseteq [url : Articles, run_at : Vh!Hour, until : Clock..(Horizon + Clock)]
  <2>1. \A n \in Clock..(Horizon + Clock) : n \in Nat
    BY HoursAssumption
  <2> QED BY <1>a, <2>1, HoursAssumption DEF Vh!TypeOK, Vh!Hour
<1> DEFINE Goal == /\ Vh!OneClock' /\ Vh!DecidedIsNotDropped' /\ RunInItsHour' /\ HoldsInTime'
                   /\ FlaggedIsOpen' /\ LiveWasRead' /\ KeptIsFree'
<1> SUFFICES Goal
  BY <1>t DEF HoldsInv
<1> USE DEF Vh!OneClock, Vh!DecidedIsNotDropped, RunInItsHour, HoldsInTime, FlaggedIsOpen,
            LiveWasRead, KeptIsFree
(* Between runs, and while a run leaves the holds and its choice alone.    *)
<1>1. ASSUME UNCHANGED <<holds, doubled>>, voted \subseteq voted', now \in Nat, now' \in Nat,
             now <= now'
      PROVE  Vh!OneClock' /\ HoldsInTime'
  BY <1>a, <1>b, <1>1
<1>2. ASSUME turn' = "idle" PROVE /\ Vh!DecidedIsNotDropped' /\ RunInItsHour'
                                  /\ FlaggedIsOpen' /\ LiveWasRead' /\ KeptIsFree'
  BY <1>2
<1>3. CASE Vh!Tick
  <2>1. now' \in Nat /\ now <= now'
    BY <1>b, <1>3 DEF Vh!Tick
  <2> QED BY <1>1, <1>2, <1>3, <1>b, <2>1 DEF Vh!Tick, Vh!data, Vh!run
<1>4. ASSUME NEW a \in Articles, Vh!Vote(a) PROVE Goal
  <2>1. /\ voted \subseteq voted'
        /\ UNCHANGED <<now, holds, turn, began, pending, flagged, dropped, misread, decided, live,
                       doubled>>
    BY <1>4 DEF Vh!Vote, Vh!run
  <2>2. Vh!OneClock' /\ HoldsInTime'
    BY <1>1, <1>b, <2>1
  <2>3. Vh!DecidedIsNotDropped' /\ RunInItsHour' /\ FlaggedIsOpen'
    BY <1>a, <2>1
  <2>4. LiveWasRead' /\ KeptIsFree'
    BY <1>a, <2>1
  <2> QED BY <2>2, <2>3, <2>4
<1>5. ASSUME NEW a \in Articles, Vh!Arrive(a) PROVE Goal
  BY <1>1, <1>2, <1>5, <1>b DEF Vh!Arrive, Vh!run
<1>6. CASE Vh!Run \/ Vh!Rerun
  <2>1. UNCHANGED <<holds, doubled, voted, now>> /\ turn' = "judge" /\ began' = now
    BY <1>6 DEF Vh!Run, Vh!Rerun, Vh!Start, Vh!data
  <2> QED BY <1>1, <1>b, <2>1
<1>7. CASE Vh!Judge
  <2>1. /\ UNCHANGED <<holds, doubled, voted, now, began>> /\ turn = "judge" /\ turn' = "hold"
        /\ flagged' \cap voted = {} /\ decided' = voted
    BY <1>7 DEF Vh!Judge, Vh!Candidates, Vh!data
  <2> QED BY <1>1, <1>a, <1>b, <2>1
<1>8. CASE Vh!ReadHolds
  <2>1. /\ UNCHANGED <<holds, doubled, voted, now, began, pending, flagged, misread, decided>>
        /\ turn = "hold" /\ turn' = "record"
        /\ live' = {h.url : h \in {k \in holds : k.until > began /\ k.url \notin voted}}
        /\ dropped' = flagged \cup (pending \cap live')
    BY <1>8 DEF Vh!ReadHolds, Vh!Dropped, Vh!Active, Vh!Live, Vh!data
  <2>2. live' \cap voted = {}
    BY <2>1
  <2>3. Vh!DecidedIsNotDropped' /\ FlaggedIsOpen' /\ RunInItsHour'
    BY <1>a, <1>b, <2>1, <2>2
  <2>4. LiveWasRead'
    BY <2>1
  <2>5. \A h \in holds : h.url \in pending \ dropped' => ~ (h.until > began) \/ h.url \in voted
    BY <2>1
  <2>6. KeptIsFree'
    BY <1>b, <2>1, <2>5
  <2> QED BY <1>1, <1>b, <2>1, <2>3, <2>4, <2>6
<1>9. CASE Vh!ReadFails
  <2>1. /\ UNCHANGED <<holds, doubled, voted, now, began, pending, flagged, decided>>
        /\ turn = "hold" /\ turn' = "record" /\ misread' = TRUE /\ dropped' = flagged
    BY <1>9 DEF Vh!ReadFails, Vh!Dropped, Vh!data
  <2>2. misread'
    BY <2>1
  <2>3. Vh!DecidedIsNotDropped' /\ FlaggedIsOpen' /\ RunInItsHour'
    BY <1>a, <2>1
  <2> QED BY <1>1, <1>b, <2>1, <2>2, <2>3
<1>10. CASE Vh!Record
  <2>1. PICK kept \in SUBSET Vh!NewHolds :
          /\ holds' = holds \cup {[url |-> a, run_at |-> began, until |-> began + Clock] : a \in kept}
          /\ doubled' = IF misread THEN doubled \cup kept ELSE doubled
    BY <1>10 DEF Vh!Record
  <2>2. /\ turn = "record" /\ turn' = "issue"
        /\ UNCHANGED <<voted, now, began, pending, flagged, dropped, misread, decided>>
    BY <1>10 DEF Vh!Record, Vh!data
  <2>3. kept \subseteq flagged /\ kept \cap live = {}
    BY DEF Vh!NewHolds
  <2>4. began = now /\ flagged \subseteq dropped
    BY <1>a, <2>2
  <2>5. ASSUME NEW h \in holds'
        PROVE  \/ h \in holds
               \/ h.url \in kept /\ h.run_at = began /\ h.until = began + Clock
    BY <2>1
  <2>6. HoldsInTime'
    BY <1>a, <1>b, <2>2, <2>4, <2>5
  <2>7. Vh!OneClock'
    <3> SUFFICES ASSUME NEW h \in holds', NEW k \in holds', h # k, h.url = k.url,
                        h.url \notin voted, h.run_at <= k.run_at, h.url \notin doubled'
                 PROVE  h.until <= k.run_at
      BY <2>2
    <3>1. doubled \subseteq doubled' /\ (misread => kept \subseteq doubled')
      BY <2>1
    <3>2. CASE h \in holds /\ k \in holds
      BY <1>a, <3>1, <3>2
    <3>3. CASE h \in holds /\ k \notin holds
      <4>1. k.url \in kept /\ k.run_at = began
        BY <2>5, <3>3
      <4>2. ~ misread
        BY <3>1, <4>1
      <4>3. ~ (h.until > began)
        BY <1>a, <2>2, <2>3, <3>3, <4>1, <4>2
      <4> QED BY <1>b, <3>3, <4>1, <4>3
    (* A hold of this very hour would be live, unless the clock is nothing. *)
    <3>4. CASE h \notin holds /\ k \in holds
      <4>1. h.url \in kept /\ h.run_at = began /\ h.until = began + Clock
        BY <2>5, <3>4
      <4>2. k.run_at <= began /\ k.until = k.run_at + Clock
        BY <1>a, <2>4, <3>4
      <4>3. k.run_at = began
        BY <1>b, <3>4, <4>1, <4>2
      <4>4. ~ misread
        BY <3>1, <4>1
      <4>5. ~ (k.until > began)
        BY <1>a, <2>2, <2>3, <3>4, <4>1, <4>4
      <4> QED BY <1>b, <4>1, <4>2, <4>3, <4>5
    <3>5. CASE h \notin holds /\ k \notin holds
      <4>1. \A g \in holds' : g \notin holds =>
              g = [url |-> g.url, run_at |-> began, until |-> began + Clock]
        BY <2>1
      <4> QED BY <3>5, <4>1
    <3> QED BY <3>2, <3>3, <3>4, <3>5
  <2>8. Vh!DecidedIsNotDropped' /\ FlaggedIsOpen' /\ RunInItsHour'
    BY <1>a, <2>2
  <2>9. KeptIsFree'
    BY <1>a, <2>2, <2>3, <2>4, <2>5
  <2>10. LiveWasRead'
    BY <2>2
  <2> QED BY <2>6, <2>7, <2>8, <2>9, <2>10
<1>11. CASE Vh!Issue \/ Vh!Kill
  <2>1. UNCHANGED <<holds, doubled, voted, now>> /\ turn' = "idle"
    BY <1>11 DEF Vh!Issue, Vh!Kill, Vh!data
  <2> QED BY <1>1, <1>2, <1>b, <2>1
<1>12. CASE UNCHANGED ofHolds
  BY <1>12, <1>a DEF ofHolds
<1> QED BY <1>3, <1>4, <1>5, <1>6, <1>7, <1>8, <1>9, <1>10, <1>11, <1>12 DEF Vh!Next

HeldStep ==
  \A a \in Articles : state[a] = "pending" /\ state'[a] = "accepted" /\ a \notin voted' =>
    misread \/ \A h \in holds : h.url = a => h.until <= began

LEMMA HoldsHeldStep ==
  ASSUME HoldsInv, [Vh!Next]_ofHolds
  PROVE  HeldStep
<1>a. Vh!TypeOK /\ KeptIsFree
  BY DEF HoldsInv
<1>b. state \in [Articles -> {"pending", "accepted", "rejected"}]
  BY <1>a DEF Vh!TypeOK
<1>1. ASSUME NEW a \in Articles, Vh!Vote(a) PROVE HeldStep
  BY <1>b, <1>1 DEF Vh!Vote, HeldStep
<1>2. CASE Vh!Issue
  <2>1. PICK out \in SUBSET (pending \ dropped) :
          state' = [a \in Articles |-> IF a \in out \ voted THEN "accepted" ELSE state[a]]
    BY <1>2 DEF Vh!Issue
  <2>2. turn = "issue"
    BY <1>2 DEF Vh!Issue
  <2>3. \A a \in Articles : state[a] = "pending" /\ state'[a] = "accepted" =>
          a \in pending \ dropped /\ a \notin voted
    BY <2>1
  <2> QED BY <1>a, <2>2, <2>3 DEF KeptIsFree, HeldStep
<1>3. CASE UNCHANGED state
  BY <1>3 DEF HeldStep
<1> QED BY <1>1, <1>2, <1>3
  DEF Vh!Next, ofHolds, Vh!Tick, Vh!Arrive, Vh!Run, Vh!Rerun, Vh!Start, Vh!Judge, Vh!ReadHolds,
      Vh!ReadFails, Vh!Record, Vh!Kill, Vh!data

(* A step of the composition is one of each part, or leaves it alone. *)
LEMMA PartSteps ==
  ASSUME [JudgingNext]_all
  PROVE  [Next]_vars /\ [Vh!Next]_ofHolds /\ [Ir!Next]_ofRecords
BY DEF JudgingNext, all

(* An article has one hold at a time, unless a run could not read the      *)
(* holds, and what the reader had decided when a run judged is not dropped *)
(* from its issue (suppressions.py, LIVE_HOLD_WHERE; run_digest.py,        *)
(* flagged - held).                                                        *)
THEOREM HoldsAreKept == JudgingSpec => []HoldsKeepToVotes
<1>1. JudgingInit => HoldsInv
  BY InitHolds DEF JudgingInit
<1>2. HoldsInv /\ [JudgingNext]_all => HoldsInv'
  BY NextHolds, PartSteps
<1>3. HoldsInv => HoldsKeepToVotes
  BY DEF HoldsInv, HoldsKeepToVotes
<1> QED BY <1>1, <1>2, <1>3, PTL DEF JudgingSpec

(* An article under a live hold goes into no issue, unless the run could   *)
(* not read the holds or the reader has voted on it (run_digest.py, "Read  *)
(* after judging").                                                        *)
THEOREM HoldsKeepOut == JudgingSpec => HeldStaysOut
<1>1. JudgingInit => HoldsInv
  BY InitHolds DEF JudgingInit
<1>2. HoldsInv /\ [JudgingNext]_all => HoldsInv'
  BY NextHolds, PartSteps
<1>3. HoldsInv /\ [JudgingNext]_all =>
        [\A a \in Articles : state[a] = "pending" /\ state'[a] = "accepted" /\ a \notin voted' =>
           \/ misread
           \/ \A h \in holds : h.url = a => h.until <= began]_(Vh!vars)
  BY HoldsHeldStep, PartSteps DEF HeldStep
<1> QED BY <1>1, <1>2, <1>3, PTL DEF JudgingSpec, HeldStaysOut, Vh!HeldStaysOut

-----------------------------------------------------------------------------
(* The page. *)

LEMMA PageStep ==
  ASSUME PageInv, [Next]_vars
  PROVE  PageInv' /\ [Abstract!Judge]_<<lane, verdict>>
<1>a. lane \in [Positions -> Lanes] /\ UndecidedYet
  BY DEF PageInv
<1>1. CASE Finish
  <2>1. lane' = lane /\ pc' = "done" /\ verdict = [p \in Positions |-> "pending"]
    BY <1>1, <1>a DEF Finish, input, UndecidedYet
  <2>2. verdict' = [p \in Positions |-> IF p \in Rejected THEN "rejected"
                                        ELSE IF p \in Accepted THEN "accepted"
                                        ELSE "pending"]
    BY <1>1 DEF Finish
  <2>3. verdict' \in [Positions -> {"accepted", "rejected", "pending"}]
    BY <2>2
  <2>4. \A p \in Positions : verdict'[p] \in Abstract!Allowed(lane[p])
    <3> SUFFICES ASSUME NEW p \in Positions PROVE verdict'[p] \in Abstract!Allowed(lane[p])
      OBVIOUS
    <3>1. lane[p] \in {"news", "skim", "read", "follow"}
      BY <1>a DEF Lanes
    <3>2. p \in Rejected => lane[p] \in {"news", "skim"}
      BY DEF Rejected
    <3>3. lane[p] \in {"news", "skim"} => p \in Rejected \/ p \in Accepted
      BY DEF Rejected, Accepted
    <3>4. lane[p] = "follow" => p \in Accepted
      BY DEF Accepted, Followed
    <3>5. verdict'[p] = IF p \in Rejected THEN "rejected"
                        ELSE IF p \in Accepted THEN "accepted" ELSE "pending"
      BY <2>2
    <3> QED BY <3>1, <3>2, <3>3, <3>4, <3>5 DEF Abstract!Allowed
  <2>5. Abstract!Judge
    BY <2>1, <2>3, <2>4 DEF Abstract!Judge
  <2> QED BY <1>a, <2>1, <2>5 DEF PageInv, UndecidedYet
<1>2. CASE UNCHANGED <<lane, verdict>> /\ (pc # "done" \/ pc' = pc)
  BY <1>a, <1>2 DEF PageInv, UndecidedYet
<1>3. CASE ScoreBatch \/ Scored \/ Cluster \/ Filtered \/ Layer
  BY <1>2, <1>3 DEF ScoreBatch, Scored, Cluster, Filtered, Layer, input
<1>4. CASE FilterBatch
  BY <1>2, <1>4 DEF FilterBatch, FilterFallsBack, FilterSelects, FilterRaises, input
<1>5. CASE SummarizeGroup
  BY <1>2, <1>5 DEF SummarizeGroup, SummarizeFallsBack, SummarizeWrites, SummarizeRaises, input
<1>6. CASE UNCHANGED vars
  BY <1>2, <1>6 DEF vars, input
<1> QED BY <1>1, <1>3, <1>4, <1>5, <1>6 DEF Next

LEMMA InitPage == Init => PageInv /\ Abstract!Init
<1> SUFFICES ASSUME Init PROVE PageInv /\ Abstract!Init
  OBVIOUS
<1>1. lane \in [Positions -> Lanes]
  BY InputsAssumption DEF Init
<1> QED BY <1>1 DEF Init, PageInv, UndecidedYet, Abstract!Init, Lanes

(* Whatever the models answer, a run gives each of its articles a verdict  *)
(* its lane allows, in one step: no news article falls between the         *)
(* clusters and the filter, no read-lane article is rejected               *)
(* (cluster_news.py; digest_pipeline.py, rejected_urls).                   *)
THEOREM PageImplementsJudgement == JudgingSpec => ImplementsJudgement
<1>1. JudgingInit => PageInv /\ Abstract!Init
  BY InitPage DEF JudgingInit
<1>2. PageInv /\ [JudgingNext]_all => PageInv' /\ [Abstract!Judge]_<<lane, verdict>>
  BY PageStep, PartSteps
<1> QED BY <1>1, <1>2, PTL DEF JudgingSpec, ImplementsJudgement, Abstract!Spec

-----------------------------------------------------------------------------
(* The places of the articles on the page. *)

Section == [items : Seq(OfLane({"read"})), summed : BOOLEAN]

PageTyped ==
  /\ lane \in [Positions -> Lanes]
  /\ group \in [Positions -> Groups]
  /\ client \in BOOLEAN
  /\ pc \in {"score", "cluster", "filter", "summarize", "order", "done", "raised"}
  /\ score \in [Positions -> 0..MaxScore]
  /\ clusters \in Seq(Seq(Positions) \ {<<>>})
  /\ headlines \in Seq(Positions \cup {Unknown})
  /\ sections \in Seq(Section)
  /\ judged \subseteq Positions
  /\ verdict \in [Positions -> {"pending", "accepted", "rejected"}]
  /\ pc \in {"score", "filter"} => todo \in Seq(Positions)

(* No article of the skim lane falls between the clusters and the filter:  *)
(* it is on the page, was in a call that was answered, or is still to send.*)
NoneDropped ==
  /\ pc = "filter" =>
       OfLane({"news", "skim"}) \subseteq InClusters \cup InHeadlines \cup judged \cup Range(todo)
  /\ pc \in {"summarize", "order", "done"} =>
       OfLane({"news", "skim"}) \subseteq InClusters \cup InHeadlines \cup judged

(* The layout shows what the sections name, each article on one card.      *)
CardsOnce ==
  pc \in {"order", "done"} =>
    /\ InFeatured = InSections
    /\ \A i, j \in DOMAIN featured : i # j => Range(featured[i]) \cap Range(featured[j]) = {}

RejectedAreJudged ==
  \A p \in Positions : verdict[p] = "rejected" =>
    p \in judged \ (InClusters \cup InHeadlines \cup InFeatured)

PlacesInv == PageTyped /\ UndecidedYet /\ NoneDropped /\ CardsOnce /\ RejectedAreJudged

-----------------------------------------------------------------------------
LEMMA ManyPositions == IsFiniteSet(Positions) /\ Positions \subseteq Nat
<1>1. Count \in Nat
  BY SizesAssumption
<1>2. IsFiniteSet(1..Count)
  BY <1>1, FS_Interval
<1> QED BY <1>1, <1>2 DEF Positions

(* Some articles in the order of the run's list.                           *)
LEMMA ListedIs ==
  ASSUME NEW S \in SUBSET Positions
  PROVE  Listed(S) \in Seq(S) /\ Range(Listed(S)) = S
<1> DEFINE R == {r \in S \X S : r[1] < r[2]}
<1>1. IsFiniteSet(S) /\ S \subseteq Nat
  BY ManyPositions, FS_Subset
<1>2. \A p, q \in S : <<p, q>> \in R <=> p < q
  OBVIOUS
<1>3. Orders(R, S)
  <2>1. ASSUME NEW p \in S, NEW q \in S, p # q PROVE <<p, q>> \in R \/ <<q, p>> \in R
    <3>1. p \in Nat /\ q \in Nat
      BY <1>1
    <3>2. p < q \/ q < p
      BY <2>1, <3>1
    <3> QED BY <1>2, <3>2
  <2>2. ASSUME NEW p \in S, NEW q \in S, NEW r \in S, <<p, q>> \in R, <<q, r>> \in R
        PROVE  <<p, r>> \in R
    <3>1. p \in Nat /\ q \in Nat /\ r \in Nat /\ p < q /\ q < r
      BY <1>1, <1>2, <2>2
    <3>2. p < r
      BY <3>1
    <3> QED BY <1>2, <3>2
  <2> HIDE DEF R
  <2> QED BY <2>1, <2>2 DEF Orders
<1>4. PICK s \in SetToSeqs(S) : \A i, j \in DOMAIN s : i < j => <<s[i], s[j]>> \in R
  <2> HIDE DEF R
  <2> QED BY <1>1, <1>3, InItsOrder
<1>5. \A i, j \in DOMAIN s : i < j => s[i] < s[j]
  BY <1>4
<1>6. Listed(S) \in SetToSeqs(S)
  BY <1>5 DEF Listed
<1> QED BY <1>1, <1>6, AllNamed

(* A section's items are articles of the read lane. *)
LEMMA SectionItems ==
  ASSUME sections \in Seq(Section)
  PROVE  /\ DOMAIN sections = 1..Len(sections) /\ Len(sections) \in Nat
         /\ \A i \in DOMAIN sections : sections[i].items \in Seq(OfLane({"read"}))
         /\ InSections \subseteq OfLane({"read"})
<1>1. DOMAIN sections = 1..Len(sections) /\ Len(sections) \in Nat
  OBVIOUS
<1>2. ASSUME NEW i \in DOMAIN sections PROVE sections[i].items \in Seq(OfLane({"read"}))
  <2>1. sections[i] \in Section
    BY <1>1
  <2> QED BY <2>1 DEF Section
<1>3. ASSUME NEW i \in DOMAIN sections PROVE Range(sections[i].items) \subseteq OfLane({"read"})
  <2>1. sections[i].items \in Seq(OfLane({"read"}))
    BY <1>2
  <2> QED BY <2>1 DEF Range
<1> QED BY <1>1, <1>2, <1>3 DEF InSections

(* The first of the sections that names an article, and the first place    *)
(* there.                                                                  *)
LEMMA FirstNamed ==
  ASSUME sections \in Seq(Section), NEW p \in InSections
  PROVE  \E i \in DOMAIN sections : \E k \in DOMAIN sections[i].items :
           /\ sections[i].items[k] = p
           /\ \A j \in 1..(i - 1) : p \notin Range(sections[j].items)
           /\ \A l \in 1..(k - 1) : sections[i].items[l] # p
<1> DEFINE T == {i \in DOMAIN sections : p \in Range(sections[i].items)}
<1>1. DOMAIN sections \subseteq Nat /\ DOMAIN sections = 1..Len(sections) /\ Len(sections) \in Nat
  OBVIOUS
<1>2. T # {}
  BY DEF InSections
<1>3. PICK i \in T : \A j \in T : i <= j
  <2>1. T \subseteq Nat
    BY <1>1
  <2> HIDE DEF T
  <2> QED BY <1>2, <2>1, LeastNat
<1>4. i \in DOMAIN sections /\ sections[i].items \in Seq(OfLane({"read"}))
  BY <1>3, SectionItems
<1> DEFINE s == sections[i].items
           U == {k \in DOMAIN s : s[k] = p}
<1>5. U # {}
  BY <1>3 DEF Range
<1>6. DOMAIN s \subseteq Nat /\ DOMAIN s = 1..Len(s) /\ Len(s) \in Nat
  BY <1>4
<1>7. PICK k \in U : \A l \in U : k <= l
  <2>1. U \subseteq Nat
    BY <1>6
  <2> HIDE DEF U
  <2> QED BY <1>5, <2>1, LeastNat
<1>8. ASSUME NEW j \in 1..(i - 1) PROVE p \notin Range(sections[j].items)
  <2>1. j \in DOMAIN sections /\ ~ (i <= j)
    BY <1>1, <1>4
  <2> QED BY <1>3, <2>1
<1>9. ASSUME NEW l \in 1..(k - 1) PROVE s[l] # p
  <2>1. l \in DOMAIN s /\ ~ (k <= l)
    BY <1>6
  <2> QED BY <1>7, <2>1
<1> QED BY <1>4, <1>7, <1>8, <1>9

LEMMA OneIsSooner ==
  ASSUME sections \in Seq(Section), NEW p \in InSections, NEW q \in InSections, p # q
  PROVE  Sooner(p, q) \/ Sooner(q, p)
<1>1. PICK i \in DOMAIN sections : \E k \in DOMAIN sections[i].items :
        /\ sections[i].items[k] = p
        /\ \A j \in 1..(i - 1) : p \notin Range(sections[j].items)
        /\ \A l \in 1..(k - 1) : sections[i].items[l] # p
  BY FirstNamed
<1>2. PICK k \in DOMAIN sections[i].items :
        /\ sections[i].items[k] = p
        /\ \A j \in 1..(i - 1) : p \notin Range(sections[j].items)
        /\ \A l \in 1..(k - 1) : sections[i].items[l] # p
  BY <1>1
<1>3. PICK m \in DOMAIN sections : \E n \in DOMAIN sections[m].items :
        /\ sections[m].items[n] = q
        /\ \A j \in 1..(m - 1) : q \notin Range(sections[j].items)
        /\ \A l \in 1..(n - 1) : sections[m].items[l] # q
  BY FirstNamed
<1>4. PICK n \in DOMAIN sections[m].items :
        /\ sections[m].items[n] = q
        /\ \A j \in 1..(m - 1) : q \notin Range(sections[j].items)
        /\ \A l \in 1..(n - 1) : sections[m].items[l] # q
  BY <1>3
<1>5. i \in Nat /\ m \in Nat /\ DOMAIN sections = 1..Len(sections) /\ Len(sections) \in Nat
  OBVIOUS
<1>6. /\ sections[i].items \in Seq(OfLane({"read"})) /\ sections[m].items \in Seq(OfLane({"read"}))
      /\ \A j \in 1..Len(sections) : sections[j].items \in Seq(OfLane({"read"}))
  BY <1>5, SectionItems
<1>7. k \in Nat /\ n \in Nat /\ k >= 1 /\ n >= 1
  BY <1>6
<1>8. CASE i < m \/ (i = m /\ k < n)
  <2>1. ASSUME NEW j \in 1..i, NEW l \in DOMAIN sections[j].items, sections[j].items[l] = q
        PROVE  j = i /\ k < l
    <3>1. q \in Range(sections[j].items) /\ j \in Nat
      BY <2>1, <1>5 DEF Range
    <3>2. ~ (j \in 1..(m - 1))
      BY <1>4, <3>1
    <3>3. j = i /\ i = m /\ k < n
      BY <1>5, <1>8, <3>1, <3>2
    <3>4. l \in Nat /\ l >= 1
      BY <1>5, <1>6
    <3>5. ~ (l \in 1..(n - 1))
      BY <1>4, <2>1, <3>3
    <3> QED BY <1>7, <3>3, <3>4, <3>5
  <2> QED BY <1>2, <2>1 DEF Sooner
<1>9. CASE m < i \/ (i = m /\ n < k)
  <2>1. ASSUME NEW j \in 1..m, NEW l \in DOMAIN sections[j].items, sections[j].items[l] = p
        PROVE  j = m /\ n < l
    <3>1. p \in Range(sections[j].items) /\ j \in Nat
      BY <2>1, <1>5 DEF Range
    <3>2. ~ (j \in 1..(i - 1))
      BY <1>2, <3>1
    <3>3. j = i /\ i = m /\ n < k
      BY <1>5, <1>9, <3>1, <3>2
    <3>4. l \in Nat /\ l >= 1
      BY <1>5, <1>6
    <3>5. ~ (l \in 1..(k - 1))
      BY <1>2, <2>1, <3>3
    <3> QED BY <1>7, <3>3, <3>4, <3>5
  <2> QED BY <1>4, <2>1 DEF Sooner
<1>10. ~ (i = m /\ k = n)
  BY <1>2, <1>4
<1> QED BY <1>5, <1>7, <1>8, <1>9, <1>10

LEMMA SoonerGoesOn ==
  ASSUME sections \in Seq(Section), NEW p, NEW q, NEW r, Sooner(p, q), Sooner(q, r)
  PROVE  Sooner(p, r)
<1>1. PICK i \in DOMAIN sections : \E k \in DOMAIN sections[i].items :
        /\ sections[i].items[k] = p
        /\ \A j \in 1..i : \A l \in DOMAIN sections[j].items :
             sections[j].items[l] = q => j = i /\ k < l
  BY DEF Sooner
<1>2. PICK k \in DOMAIN sections[i].items :
        /\ sections[i].items[k] = p
        /\ \A j \in 1..i : \A l \in DOMAIN sections[j].items :
             sections[j].items[l] = q => j = i /\ k < l
  BY <1>1
<1>3. PICK m \in DOMAIN sections : \E n \in DOMAIN sections[m].items :
        /\ sections[m].items[n] = q
        /\ \A j \in 1..m : \A l \in DOMAIN sections[j].items :
             sections[j].items[l] = r => j = m /\ n < l
  BY DEF Sooner
<1>4. PICK n \in DOMAIN sections[m].items :
        /\ sections[m].items[n] = q
        /\ \A j \in 1..m : \A l \in DOMAIN sections[j].items :
             sections[j].items[l] = r => j = m /\ n < l
  BY <1>3
<1>5. /\ i \in Nat /\ m \in Nat /\ m >= 1
      /\ \A j \in 1..i : j \in Nat /\ j <= i /\ sections[j].items \in Seq(OfLane({"read"}))
      /\ sections[m].items \in Seq(OfLane({"read"})) /\ sections[i].items \in Seq(OfLane({"read"}))
  <2>1. DOMAIN sections = 1..Len(sections) /\ Len(sections) \in Nat
    BY SectionItems
  <2>2. \A j \in 1..i : j \in DOMAIN sections /\ j \in Nat /\ j <= i
    BY <2>1
  <2> QED BY <2>1, <2>2, SectionItems
<1>6. k \in Nat /\ n \in Nat
  BY <1>5
<1>7. ASSUME NEW j \in 1..i, NEW l \in DOMAIN sections[j].items, sections[j].items[l] = r
      PROVE  j = i /\ k < l
  <2>1. j \in Nat /\ j >= 1 /\ j <= i /\ l \in Nat
    BY <1>5
  <2>2. m >= i
    BY <1>2, <1>4, <1>5
  <2>3. j \in 1..m
    BY <1>5, <2>1, <2>2
  <2>4. j = m /\ n < l
    BY <1>4, <1>7, <2>3
  <2>5. m = i
    BY <1>5, <2>1, <2>2, <2>4
  <2>6. k < n
    BY <1>2, <1>4, <1>5, <2>5
  <2> QED BY <1>6, <2>1, <2>4, <2>5, <2>6
<1> QED BY <1>2, <1>7 DEF Sooner

(* The cards' order is one, so each article of the sections is on one.     *)
LEMMA ByScoreIs ==
  ASSUME PageTyped, NEW S \in SUBSET InSections
  PROVE  /\ ByScore(S) \in Seq(S) /\ Range(ByScore(S)) = S
         /\ \A i, j \in DOMAIN ByScore(S) : i # j => ByScore(S)[i] # ByScore(S)[j]
<1> DEFINE R == {r \in S \X S : Before(r[1], r[2])}
<1>0. sections \in Seq(Section) /\ score \in [Positions -> 0..MaxScore] /\ MaxScore \in Nat
  BY SizesAssumption DEF PageTyped
<1>1. InSections \subseteq Positions
  BY <1>0, SectionItems DEF OfLane
<1>2. IsFiniteSet(S) /\ S \subseteq Positions
  BY <1>1, ManyPositions, FS_Subset
<1>3. \A p, q \in S : <<p, q>> \in R <=> Before(p, q)
  OBVIOUS
<1>4. Orders(R, S)
  <2>1. ASSUME NEW p \in S, NEW q \in S, p # q PROVE <<p, q>> \in R \/ <<q, p>> \in R
    <3>1. score[p] \in Nat /\ score[q] \in Nat
      BY <1>0, <1>2
    <3>2. Sooner(p, q) \/ Sooner(q, p)
      BY <1>0, <2>1, OneIsSooner
    <3>3. Before(p, q) \/ Before(q, p)
      BY <3>1, <3>2 DEF Before
    <3> QED BY <1>3, <3>3
  <2>2. ASSUME NEW p \in S, NEW q \in S, NEW r \in S, <<p, q>> \in R, <<q, r>> \in R
        PROVE  <<p, r>> \in R
    <3>1. score[p] \in Nat /\ score[q] \in Nat /\ score[r] \in Nat
      BY <1>0, <1>2
    <3>2. Before(p, q) /\ Before(q, r)
      BY <1>3, <2>2
    <3>3. Sooner(p, q) /\ Sooner(q, r) => Sooner(p, r)
      BY <1>0, SoonerGoesOn
    <3>4. Before(p, r)
      BY <3>1, <3>2, <3>3 DEF Before
    <3> QED BY <1>3, <3>4
  <2> HIDE DEF R
  <2> QED BY <2>1, <2>2 DEF Orders
<1>5. PICK s \in SetToSeqs(S) : \A i, j \in DOMAIN s : i < j => <<s[i], s[j]>> \in R
  <2> HIDE DEF R
  <2> QED BY <1>2, <1>4, InItsOrder
<1>6. \A i, j \in DOMAIN s : i < j => Before(s[i], s[j])
  BY <1>5
<1>7. ByScore(S) \in SetToSeqs(S)
  BY <1>6 DEF ByScore
<1> QED BY <1>2, <1>7, AllNamed

(* Some naturals below a bound have a greatest one.                        *)
LEMMA GreatestBelow ==
  ASSUME NEW n \in Nat, NEW T \in SUBSET (0..n), T # {}
  PROVE  \E m \in T : \A k \in T : k <= m
<1> DEFINE U == {d \in 0..n : n - d \in T}
<1>1. U # {}
  <2>1. PICK t \in T : TRUE
    OBVIOUS
  <2>2. n - t \in 0..n /\ n - (n - t) = t
    BY <2>1
  <2> QED BY <2>2
<1>2. PICK d \in U : \A e \in U : d <= e
  <2>1. U \subseteq Nat
    OBVIOUS
  <2> HIDE DEF U
  <2> QED BY <1>1, <2>1, LeastNat
<1>3. ASSUME NEW k \in T PROVE k <= n - d
  <2>1. n - k \in 0..n /\ n - (n - k) = k
    OBVIOUS
  <2>2. n - k \in U
    BY <2>1
  <2>3. d <= n - k
    BY <1>2, <2>2
  <2> QED BY <2>3
<1> QED BY <1>2, <1>3

(* Of the groups that hold the best article, one is first.                 *)
LEMMA LeadIs ==
  ASSUME PageTyped, TheGroups # {}
  PROVE  Lead \in TheGroups
<1> DEFINE B(i) == Best(Range(sections[i].items))
<1>0. sections \in Seq(Section) /\ score \in [Positions -> 0..MaxScore] /\ MaxScore \in Nat
  BY SizesAssumption DEF PageTyped
<1>1. TheGroups \subseteq DOMAIN sections /\ DOMAIN sections \subseteq Nat
  BY <1>0, SectionItems DEF TheGroups
<1>2. ASSUME NEW i \in TheGroups PROVE B(i) \in 0..MaxScore
  <2>1. i \in DOMAIN sections /\ sections[i].items \in Seq(OfLane({"read"})) /\ IsGroup(sections[i])
    BY <1>0, SectionItems DEF TheGroups
  <2> DEFINE S == Range(sections[i].items)
             T == {score[p] : p \in S}
  <2>2. S \subseteq Positions
    BY <2>1 DEF Range, OfLane
  <2>3. S # {}
    <3>1. SUFFICES ASSUME S = {} PROVE FALSE
      OBVIOUS
    <3>2. {k \in DOMAIN sections[i].items :
             score[sections[i].items[k]] # NoScore /\ score[sections[i].items[k]] >= Threshold} = {}
      BY <3>1 DEF Range
    <3>3. Cardinality({}) >= 2
      BY <2>1, <3>2 DEF IsGroup
    <3> QED BY <3>3, FS_EmptySet
  <2>4. T \subseteq 0..MaxScore /\ T # {}
    BY <1>0, <2>2, <2>3
  <2>5. PICK m \in T : \A k \in T : k <= m
    <3> HIDE DEF T
    <3> QED BY <1>0, <2>4, GreatestBelow
  <2>6. \A p \in S : score[p] <= m
    BY <2>5
  <2>7. Best(S) \in T
    BY <2>5, <2>6 DEF Best
  <2> QED BY <2>4, <2>7
<1> HIDE DEF B
<1> DEFINE V == {B(i) : i \in TheGroups}
<1>3. PICK b \in V : \A c \in V : c <= b
  <2>1. V \subseteq 0..MaxScore /\ V # {}
    BY <1>2
  <2> HIDE DEF V
  <2> QED BY <1>0, <2>1, GreatestBelow
<1> DEFINE W == {i \in TheGroups : B(i) = b}
<1>4. PICK i \in W : \A j \in W : i <= j
  <2>1. W \subseteq Nat /\ W # {}
    BY <1>1, <1>3
  <2> HIDE DEF W
  <2> QED BY <2>1, LeastNat
<1>5. ASSUME NEW j \in TheGroups PROVE B(i) > B(j) \/ (B(i) = B(j) /\ i <= j)
  <2>1. B(j) \in 0..MaxScore /\ B(j) <= b /\ b \in 0..MaxScore /\ B(i) = b
    BY <1>2, <1>3, <1>4
  <2>2. CASE B(j) = b
    BY <1>4, <2>1, <2>2
  <2>3. CASE B(j) # b
    BY <2>1, <2>3
  <2> QED BY <2>2, <2>3
<1>6. \A j \in TheGroups :
        LET bi == Best(Range(sections[i].items)) bj == Best(Range(sections[j].items))
        IN bi > bj \/ (bi = bj /\ i <= j)
  BY <1>5 DEF B
<1>7. i \in TheGroups
  BY <1>4
<1> QED BY <1>6, <1>7 DEF Lead

(* Each article of some is on one card of its own.                         *)
LEMMA CardsAre ==
  ASSUME PageTyped, NEW T \in SUBSET InSections
  PROVE  /\ Cards(ByScore(T)) \in Seq(Seq(T))
         /\ UNION {Range(Cards(ByScore(T))[i]) : i \in DOMAIN Cards(ByScore(T))} = T
         /\ \A i, j \in DOMAIN Cards(ByScore(T)) :
              i # j => Range(Cards(ByScore(T))[i]) \cap Range(Cards(ByScore(T))[j]) = {}
<1> DEFINE s == ByScore(T)
           c == [i \in DOMAIN s |-> <<s[i]>>]
<1>1. s \in Seq(T) /\ Range(s) = T /\ \A i, j \in DOMAIN s : i # j => s[i] # s[j]
  BY ByScoreIs
<1> HIDE DEF s
<1>2. DOMAIN s = 1..Len(s) /\ Len(s) \in Nat /\ \A i \in DOMAIN s : s[i] \in T
  BY <1>1
<1>3. \A i \in DOMAIN s : <<s[i]>> \in Seq(T) /\ Range(<<s[i]>>) = {s[i]}
  BY <1>2 DEF Range
<1>4. c \in Seq(Seq(T)) /\ DOMAIN c = DOMAIN s
  BY <1>2, <1>3
<1>5. \A i \in DOMAIN c : Range(c[i]) = {s[i]}
  BY <1>3, <1>4
<1>6. UNION {Range(c[i]) : i \in DOMAIN c} = T
  <2>1. ASSUME NEW i \in DOMAIN c PROVE Range(c[i]) \subseteq T
    BY <1>2, <1>4, <1>5
  <2>2. ASSUME NEW x \in T PROVE \E i \in DOMAIN c : x \in Range(c[i])
    <3>1. PICK i \in DOMAIN s : s[i] = x
      BY <1>1 DEF Range
    <3> QED BY <1>4, <1>5, <3>1
  <2> HIDE DEF c
  <2> QED BY <2>1, <2>2
<1>7. \A i, j \in DOMAIN c : i # j => Range(c[i]) \cap Range(c[j]) = {}
  BY <1>1, <1>4, <1>5
<1>8. c = Cards(ByScore(T))
  BY DEF Cards, s
<1> HIDE DEF c
<1> QED BY <1>4, <1>6, <1>7, <1>8

-----------------------------------------------------------------------------
LEMMA SplitIs ==
  ASSUME NEW T, NEW s \in Seq(T), NEW n \in Nat
  PROVE  /\ Firsts(s, n) \in Seq(T) /\ After(s, n) \in Seq(T)
         /\ Range(s) \subseteq Range(Firsts(s, n)) \cup Range(After(s, n))
         /\ Range(Firsts(s, n)) \subseteq Range(s)
<1> DEFINE k == IF Len(s) < n THEN Len(s) ELSE n
           f == SubSeq(s, 1, k)
           a == SubSeq(s, n + 1, Len(s))
<1>1. Len(s) \in Nat /\ s \in [1..Len(s) -> T] /\ k \in 0..Len(s)
  OBVIOUS
<1>2. f \in Seq(T) /\ Len(f) = k /\ \A i \in 1..k : f[i] = s[i]
  BY <1>1
<1>3. a \in Seq(T)
  BY <1>1
<1>4. n < Len(s) => Len(a) = Len(s) - n /\ \A i \in 1..(Len(s) - n) : a[i] = s[n + i]
  <2> SUFFICES ASSUME n < Len(s)
               PROVE  Len(a) = Len(s) - n /\ \A i \in 1..(Len(s) - n) : a[i] = s[n + i]
    OBVIOUS
  <2>1. n + 1 \in Int /\ Len(s) \in Int /\ n + 1 <= Len(s) /\ \A i \in (n + 1)..Len(s) : s[i] \in T
    BY <1>1
  <2>2. Len(a) = Len(s) - (n + 1) + 1 /\ \A i \in 1..(Len(s) - (n + 1) + 1) : a[i] = s[(n + 1) + i - 1]
    BY <2>1, SubSeqProperties
  <2>3. Len(s) - (n + 1) + 1 = Len(s) - n
    BY <1>1
  <2>4. ASSUME NEW i \in 1..(Len(s) - n) PROVE a[i] = s[n + i]
    <3>1. (n + 1) + i - 1 = n + i
      BY <1>1
    <3>2. a[i] = s[(n + 1) + i - 1]
      BY <2>2, <2>3
    <3> QED BY <3>1, <3>2
  <2> QED BY <2>2, <2>3, <2>4
<1> HIDE DEF f, a
<1>5. ASSUME NEW i \in 1..Len(s) PROVE s[i] \in Range(f) \cup Range(a)
  <2>1. CASE i <= k
    <3>1. i \in DOMAIN f /\ f[i] = s[i]
      BY <1>1, <1>2, <2>1
    <3> QED BY <3>1 DEF Range
  <2>2. CASE ~ (i <= k)
    <3>1. n < Len(s) /\ i - n \in 1..(Len(s) - n) /\ n + (i - n) = i
      BY <1>1, <2>2
    <3>2. i - n \in DOMAIN a /\ a[i - n] = s[i]
      BY <1>3, <1>4, <3>1
    <3> QED BY <3>2 DEF Range
  <2> QED BY <2>1, <2>2
<1>6. Range(s) \subseteq Range(f) \cup Range(a)
  BY <1>1, <1>5 DEF Range
<1>7. Range(f) \subseteq Range(s)
  BY <1>1, <1>2 DEF Range
<1> QED BY <1>2, <1>3, <1>6, <1>7 DEF Firsts, After, f, a

LEMMA LanesAre ==
  ASSUME NEW L
  PROVE  OfLane(L) \subseteq Positions /\ InLane(L) \in Seq(OfLane(L)) /\ Range(InLane(L)) = OfLane(L)
         /\ InLane(L) \in Seq(Positions)
<1>1. OfLane(L) \in SUBSET Positions
  BY DEF OfLane
<1>2. Listed(OfLane(L)) \in Seq(OfLane(L)) /\ Range(Listed(OfLane(L))) = OfLane(L)
  BY <1>1, ListedIs
<1>3. Listed(OfLane(L)) \in Seq(Positions)
  BY <1>1, <1>2, SeqMonotonic
<1> QED BY <1>1, <1>2, <1>3 DEF InLane

LEMMA InitPlaces == Init => PlacesInv
<1> SUFFICES ASSUME Init PROVE PlacesInv
  OBVIOUS
<1>1. PICK in \in Inputs : lane = [p \in Positions |-> in[p][1]] /\ group = [p \in Positions |-> in[p][2]]
  BY DEF Init
<1>2. lane \in [Positions -> Lanes] /\ group \in [Positions -> Groups]
  BY <1>1, InputsAssumption
<1>3. score = [p \in Positions |-> NoScore] /\ score \in [Positions -> 0..MaxScore]
  BY SizesAssumption DEF Init, NoScore
<1>4. todo \in Seq(Positions)
  <2>1. {p \in OfLane({"skim", "read"}) : score[p] = NoScore} \in SUBSET Positions
    BY DEF OfLane
  <2>2. Scorable \in Seq(Positions)
    BY <2>1, ListedIs, SeqMonotonic DEF Scorable
  <2> QED BY <2>2 DEF Init
<1>5. /\ clusters \in Seq(Seq(Positions) \ {<<>>}) /\ headlines \in Seq(Positions \cup {Unknown})
      /\ sections \in Seq(Section)
  BY DEF Init
<1>6. PageTyped
  BY <1>2, <1>3, <1>4, <1>5 DEF Init, PageTyped
<1>7. NoneDropped /\ CardsOnce /\ UndecidedYet /\ RejectedAreJudged
  BY DEF Init, NoneDropped, CardsOnce, UndecidedYet, RejectedAreJudged
<1> QED BY <1>6, <1>7 DEF PlacesInv

LEMMA ScoreBatchPlaces ==
  ASSUME PlacesInv, ScoreBatch \/ Scored
  PROVE  PlacesInv'
<1>0. PageTyped /\ UndecidedYet /\ RejectedAreJudged
  BY DEF PlacesInv
<1>1. CASE ScoreBatch
  <2>1. /\ UNCHANGED <<lane, group, client, pc, clusters, headlines, sections, featured, judged, verdict>>
        /\ pc = "score" /\ todo' = After(todo, BatchSize)
    BY <1>1 DEF ScoreBatch, input, shown
  <2>2. todo \in Seq(Positions) /\ score \in [Positions -> 0..MaxScore]
    BY <1>0, <2>1 DEF PageTyped
  <2>3. todo' \in Seq(Positions) /\ Firsts(todo, BatchSize) \in Seq(Positions)
    BY <2>1, <2>2, SplitIs, SizesAssumption
  <2>4. score' \in [Positions -> 0..MaxScore]
    <3>1. CASE \E s \in [Range(Firsts(todo, BatchSize)) -> 0..MaxScore] :
                 score' = [p \in Positions |->
                             IF Member(Firsts(todo, BatchSize), p) THEN s[p] ELSE score[p]]
      BY <2>2, <3>1 DEF Member
    <3>2. CASE score' = score
      BY <2>2, <3>2
    <3> QED BY <1>1, <3>1, <3>2 DEF ScoreBatch
  <2>5. PageTyped'
    BY <1>0, <2>1, <2>3, <2>4 DEF PageTyped, Section, OfLane
  <2> QED BY <1>0, <2>1, <2>5 DEF PlacesInv, UndecidedYet, NoneDropped, CardsOnce, RejectedAreJudged,
                                  InClusters, Clustered, InHeadlines, InFeatured
<1>2. CASE Scored
  <2>1. /\ UNCHANGED <<lane, group, client, score, clusters, headlines, sections, featured, judged, verdict>>
        /\ pc = "score" /\ pc' = "cluster"
    BY <1>2 DEF Scored, input, shown
  <2>2. PageTyped'
    BY <1>0, <2>1 DEF PageTyped, Section, OfLane
  <2> QED BY <1>0, <2>1, <2>2 DEF PlacesInv, UndecidedYet, NoneDropped, CardsOnce, RejectedAreJudged,
                                  InClusters, Clustered, InHeadlines, InFeatured
<1> QED BY <1>1, <1>2

LEMMA ClusterPlaces ==
  ASSUME PlacesInv, Cluster
  PROVE  PlacesInv'
<1>0. PageTyped /\ UndecidedYet
  BY DEF PlacesInv
<1>1. /\ UNCHANGED <<lane, group, client, score, headlines, sections, featured, judged, verdict>>
      /\ pc = "cluster" /\ pc' = "filter"
  BY DEF Cluster, input
<1>2. PICK cs \in (IF client THEN SeqOf(Named(OfLane({"news"})) \ {<<>>}, MaxParts) ELSE {<<>>}) :
        clusters' = cs /\ todo' = RestLane \o LeftOver(cs)
  BY DEF Cluster
<1>3. cs \in Seq(Seq(Positions) \ {<<>>})
  <2>1. CASE ~client
    BY <1>2, <2>1
  <2>2. CASE client
    <3>1. PICK n \in 0..MaxParts : cs \in [1..n -> Named(OfLane({"news"})) \ {<<>>}]
      BY <1>2, <2>2 DEF SeqOf
    <3>2. n \in Nat
      BY SizesAssumption
    <3>3. \A x \in Named(OfLane({"news"})) : x \in Seq(Positions)
      <4> SUFFICES ASSUME NEW x \in Named(OfLane({"news"})) PROVE x \in Seq(Positions)
        OBVIOUS
      <4>1. PICK m \in 0..MaxNamed : x \in [1..m -> OfLane({"news"})]
        BY DEF Named, SeqOf
      <4>2. m \in Nat /\ x \in [1..m -> Positions]
        BY <4>1, SizesAssumption, LanesAre
      <4> QED BY <4>2
    <3>4. cs \in [1..n -> Seq(Positions) \ {<<>>}]
      BY <3>1, <3>3
    <3> QED BY <3>2, <3>4
  <2> QED BY <2>1, <2>2
<1>4. LeftOver(cs) \in Seq(Positions) /\ Range(LeftOver(cs)) = OfLane({"news"}) \ Clustered(cs)
  <2>1. OfLane({"news"}) \ Clustered(cs) \in SUBSET Positions
    BY DEF OfLane
  <2> QED BY <2>1, ListedIs, SeqMonotonic DEF LeftOver
<1>5. RestLane \in Seq(Positions) /\ Range(RestLane) = OfLane({"skim"})
  BY LanesAre DEF RestLane
<1>6. todo' \in Seq(Positions) /\ Range(todo') = OfLane({"skim"}) \cup (OfLane({"news"}) \ Clustered(cs))
  BY <1>2, <1>4, <1>5, ConcatProperties, RangeConcatenation
<1>7. PageTyped'
  BY <1>0, <1>1, <1>2, <1>3, <1>6 DEF PageTyped, Section, OfLane
<1>8. NoneDropped'
  <2>1. InClusters' = Clustered(cs) /\ OfLane({"news", "skim"})' = OfLane({"news", "skim"})
    BY <1>1, <1>2 DEF InClusters, Clustered, OfLane
  <2>2. OfLane({"news", "skim"}) = OfLane({"news"}) \cup OfLane({"skim"})
    BY DEF OfLane
  <2> QED BY <1>1, <1>6, <2>1, <2>2 DEF NoneDropped
<1>9. \A p \in Positions : verdict'[p] # "rejected"
  BY <1>0, <1>1 DEF UndecidedYet
<1> QED BY <1>0, <1>1, <1>7, <1>8, <1>9 DEF PlacesInv, UndecidedYet, CardsOnce, RejectedAreJudged

LEMMA NamedIs ==
  ASSUME NEW T, NEW s \in Named(T)
  PROVE  s \in Seq(T)
<1>1. PICK m \in 0..MaxNamed : s \in [1..m -> T]
  BY DEF Named, SeqOf
<1>2. m \in Nat
  BY SizesAssumption
<1> QED BY <1>1, <1>2

LEMMA FilterBatchPlaces ==
  ASSUME PlacesInv, FilterBatch
  PROVE  PlacesInv'
<1> DEFINE batch == IF client THEN Firsts(todo, BatchSize) ELSE todo
<1>0. PageTyped /\ UndecidedYet /\ NoneDropped
  BY DEF PlacesInv
<1>1. /\ UNCHANGED <<lane, group, client, score, clusters, sections, featured, verdict>>
      /\ pc = "filter" /\ todo' = IF client THEN After(todo, BatchSize) ELSE <<>>
      /\ FilterFallsBack(batch) \/ FilterSelects(batch) \/ FilterRaises
  BY DEF FilterBatch, input
<1>2. todo \in Seq(Positions) /\ BatchSize \in Nat
  BY <1>0, <1>1, SizesAssumption DEF PageTyped
<1>3. /\ batch \in Seq(Positions) /\ todo' \in Seq(Positions)
      /\ Range(todo) \subseteq Range(batch) \cup Range(todo') /\ Range(batch) \subseteq Range(todo)
  <2>1. CASE client
    <3>1. batch = Firsts(todo, BatchSize) /\ todo' = After(todo, BatchSize)
      BY <1>1, <2>1
    <3> QED BY <1>2, <3>1, SplitIs
  <2>2. CASE ~client
    <3>1. batch = todo /\ todo' = <<>>
      BY <1>1, <2>2
    <3> QED BY <1>2, <3>1
  <2> QED BY <2>1, <2>2
<1> HIDE DEF batch
<1>4. Range(batch) \subseteq Positions /\ Unknown \notin Positions
  <2>1. Range(batch) \subseteq Positions
    BY <1>3, RangeOfSeq
  <2> QED BY <2>1 DEF Positions, Unknown
<1>5. headlines \in Seq(Positions \cup {Unknown}) /\ judged \subseteq Positions
  BY <1>0 DEF PageTyped
<1>6. /\ headlines' \in Seq(Positions \cup {Unknown}) /\ judged' \subseteq Positions
      /\ pc' = "filter" => /\ InHeadlines \subseteq InHeadlines' /\ judged \subseteq judged'
                           /\ Range(batch) \subseteq InHeadlines' \cup judged'
      /\ pc' \in {"filter", "raised"}
  <2>1. CASE FilterFallsBack(batch)
    <3>1. headlines' = headlines \o batch /\ judged' = judged /\ pc' = pc
      BY <2>1 DEF FilterFallsBack
    <3>2. batch \in Seq(Positions \cup {Unknown})
      BY <1>3, SeqMonotonic
    <3>3. headlines' \in Seq(Positions \cup {Unknown}) /\ Range(headlines') = Range(headlines) \cup Range(batch)
      BY <1>5, <3>1, <3>2, ConcatProperties, RangeConcatenation
    <3> QED BY <1>1, <1>4, <1>5, <3>1, <3>3 DEF InHeadlines
  <2>2. CASE FilterSelects(batch)
    <3>1. PICK named \in Named(Range(batch) \cup {Unknown}) :
            headlines' = headlines \o named /\ judged' = judged \cup Range(batch) /\ pc' = pc
      BY <2>2 DEF FilterSelects
    <3>2. named \in Seq(Range(batch) \cup {Unknown})
      BY NamedIs
    <3>3. named \in Seq(Positions \cup {Unknown})
      BY <1>4, <3>2, SeqMonotonic
    <3>4. headlines' \in Seq(Positions \cup {Unknown}) /\ Range(headlines') = Range(headlines) \cup Range(named)
      BY <1>5, <3>1, <3>3, ConcatProperties, RangeConcatenation
    <3> QED BY <1>1, <1>4, <1>5, <3>1, <3>4 DEF InHeadlines
  <2>3. CASE FilterRaises
    BY <1>5, <2>3 DEF FilterRaises
  <2> QED BY <1>1, <2>1, <2>2, <2>3
<1>7. PageTyped'
  BY <1>0, <1>1, <1>3, <1>6 DEF PageTyped, Section, OfLane
<1>8. NoneDropped'
  <2>1. InClusters' = InClusters /\ OfLane({"news", "skim"})' = OfLane({"news", "skim"})
    BY <1>1 DEF InClusters, Clustered, OfLane
  <2>2. OfLane({"news", "skim"}) \subseteq InClusters \cup InHeadlines \cup judged \cup Range(todo)
    BY <1>0, <1>1 DEF NoneDropped
  <2>3. CASE pc' = "filter"
    BY <1>3, <1>6, <2>1, <2>2, <2>3 DEF NoneDropped
  <2>4. CASE pc' = "raised"
    BY <2>4 DEF NoneDropped
  <2> QED BY <1>6, <2>3, <2>4
<1>9. \A p \in Positions : verdict'[p] # "rejected"
  BY <1>0, <1>1 DEF UndecidedYet
<1> QED BY <1>0, <1>1, <1>6, <1>7, <1>8, <1>9 DEF PlacesInv, UndecidedYet, CardsOnce, RejectedAreJudged

LEMMA FilteredPlaces ==
  ASSUME PlacesInv, Filtered
  PROVE  PlacesInv'
<1>0. PageTyped /\ UndecidedYet /\ NoneDropped
  BY DEF PlacesInv
<1>1. /\ UNCHANGED <<lane, group, client, score, clusters, headlines, sections, featured, judged, verdict>>
      /\ pc = "filter" /\ todo = <<>> /\ pc' = "summarize"
  BY DEF Filtered, input, shown
<1>2. PageTyped'
  BY <1>0, <1>1 DEF PageTyped, Section, OfLane
<1>3. Range(todo) = {}
  BY <1>1 DEF Range
<1>4. OfLane({"news", "skim"}) \subseteq InClusters \cup InHeadlines \cup judged
  BY <1>0, <1>1, <1>3 DEF NoneDropped
<1>5. NoneDropped'
  BY <1>1, <1>4 DEF NoneDropped, InClusters, Clustered, InHeadlines, OfLane
<1>6. \A p \in Positions : verdict'[p] # "rejected"
  BY <1>0, <1>1 DEF UndecidedYet
<1> QED BY <1>0, <1>1, <1>2, <1>5, <1>6 DEF PlacesInv, UndecidedYet, CardsOnce, RejectedAreJudged

LEMMA SummarizePlaces ==
  ASSUME PlacesInv, SummarizeGroup
  PROVE  PlacesInv'
<1> DEFINE g == Head(todo)
<1>0. PageTyped /\ UndecidedYet /\ NoneDropped
  BY DEF PlacesInv
<1>1. /\ UNCHANGED <<lane, group, client, score, clusters, headlines, featured, judged, verdict>>
      /\ pc = "summarize"
      /\ SummarizeFallsBack(g) \/ SummarizeWrites(g) \/ SummarizeRaises
  BY DEF SummarizeGroup, input
<1>2. sections \in Seq(Section)
  BY <1>0 DEF PageTyped
<1> HIDE DEF g
<1>3. InGroup("read", g) \subseteq OfLane({"read"}) /\ InGroup("read", g) \subseteq Positions
  BY DEF InGroup, OfLane
<1>4. sections' \in Seq(Section) /\ pc' \in {"summarize", "raised"}
  <2>1. CASE SummarizeFallsBack(g)
    <3>1. Listed(InGroup("read", g)) \in Seq(OfLane({"read"}))
      BY <1>3, ListedIs, SeqMonotonic
    <3>2. Excerpts(g) \in Section
      BY <3>1 DEF Excerpts, Section
    <3> QED BY <1>1, <1>2, <2>1, <3>2 DEF SummarizeFallsBack
  <2>2. CASE SummarizeWrites(g)
    <3>1. PICK reply \in SeqOf([items : Named(InGroup("read", g)), summed : BOOLEAN], MaxParts) :
            sections' = sections \o reply /\ pc' = pc
      BY <2>2 DEF SummarizeWrites
    <3>2. PICK n \in 0..MaxParts : reply \in [1..n -> [items : Named(InGroup("read", g)), summed : BOOLEAN]]
      BY DEF SeqOf
    <3>3. n \in Nat
      BY SizesAssumption
    <3>4. [items : Named(InGroup("read", g)), summed : BOOLEAN] \subseteq Section
      <4>1. \A s \in Named(InGroup("read", g)) : s \in Seq(OfLane({"read"}))
        BY <1>3, NamedIs, SeqMonotonic
      <4> QED BY <4>1 DEF Section
    <3>5. reply \in Seq(Section)
      BY <3>2, <3>3, <3>4
    <3> QED BY <1>1, <1>2, <3>1, <3>5, ConcatProperties
  <2>3. CASE SummarizeRaises
    BY <1>2, <2>3 DEF SummarizeRaises
  <2> QED BY <1>1, <2>1, <2>2, <2>3
<1>5. PageTyped'
  BY <1>0, <1>1, <1>4 DEF PageTyped, Section, OfLane
<1>6. NoneDropped'
  BY <1>0, <1>1, <1>4 DEF NoneDropped, InClusters, Clustered, InHeadlines, OfLane
<1>7. \A p \in Positions : verdict'[p] # "rejected"
  BY <1>0, <1>1 DEF UndecidedYet
<1> QED BY <1>0, <1>1, <1>4, <1>5, <1>6, <1>7 DEF PlacesInv, UndecidedYet, CardsOnce, RejectedAreJudged

LEMMA LayerPlaces ==
  ASSUME PlacesInv, Layer
  PROVE  PlacesInv'
<1>0. PageTyped /\ UndecidedYet /\ NoneDropped
  BY DEF PlacesInv
<1>1. /\ UNCHANGED <<lane, group, client, score, clusters, headlines, sections, judged, verdict>>
      /\ pc = "summarize" /\ pc' = "order"
      /\ featured' = IF TheGroups = {} THEN Cards(ByScore(InSections))
                     ELSE LET lead == sections[Lead].items
                          IN <<lead>> \o Cards(ByScore(InSections \ Range(lead)))
  BY DEF Layer, input
<1>2. PageTyped'
  BY <1>0, <1>1 DEF PageTyped, Section, OfLane
<1>3. NoneDropped'
  BY <1>0, <1>1 DEF NoneDropped, InClusters, Clustered, InHeadlines, OfLane
<1>4. \A p \in Positions : verdict'[p] # "rejected"
  BY <1>0, <1>1 DEF UndecidedYet
<1>5. InSections' = InSections
  BY <1>1 DEF InSections
<1>6. /\ UNION {Range(featured'[i]) : i \in DOMAIN featured'} = InSections
      /\ \A i, j \in DOMAIN featured' : i # j => Range(featured'[i]) \cap Range(featured'[j]) = {}
  <2>1. CASE TheGroups = {}
    BY <1>0, <1>1, <2>1, CardsAre
  <2>2. CASE TheGroups # {}
    <3> DEFINE lead == sections[Lead].items
               T == InSections \ Range(lead)
               c == Cards(ByScore(T))
    <3>1. Lead \in DOMAIN sections /\ sections \in Seq(Section)
      BY <1>0, <2>2, LeadIs DEF TheGroups, PageTyped
    <3>2. lead \in Seq(OfLane({"read"})) /\ Range(lead) \subseteq InSections
      BY <3>1, SectionItems DEF InSections
    <3>3. /\ c \in Seq(Seq(T)) /\ UNION {Range(c[i]) : i \in DOMAIN c} = T
          /\ \A i, j \in DOMAIN c : i # j => Range(c[i]) \cap Range(c[j]) = {}
      BY <1>0, CardsAre
    <3>4. featured' = <<lead>> \o c
      BY <1>1, <2>2
    <3> HIDE DEF lead, c
    <3>5. DOMAIN c = 1..Len(c) /\ Len(c) \in Nat
      BY <3>3
    <3>6. /\ DOMAIN featured' = 1..(Len(c) + 1) /\ featured'[1] = lead
          /\ \A i \in 2..(Len(c) + 1) : featured'[i] = c[i - 1] /\ i - 1 \in DOMAIN c
      BY <3>3, <3>4, <3>5
    <3>7. \A i \in DOMAIN c : Range(c[i]) \subseteq T
      BY <3>3
    <3>8. ASSUME NEW i \in DOMAIN featured', NEW j \in DOMAIN featured', i # j
          PROVE  Range(featured'[i]) \cap Range(featured'[j]) = {}
      <4>1. CASE i = 1
        <5>1. j \in 2..(Len(c) + 1)
          BY <3>5, <3>6, <3>8, <4>1
        <5> QED BY <3>6, <3>7, <4>1, <5>1
      <4>2. CASE j = 1
        <5>1. i \in 2..(Len(c) + 1)
          BY <3>5, <3>6, <3>8, <4>2
        <5> QED BY <3>6, <3>7, <4>2, <5>1
      <4>3. CASE i # 1 /\ j # 1
        <5>1. i \in 2..(Len(c) + 1) /\ j \in 2..(Len(c) + 1) /\ i - 1 # j - 1
          BY <3>5, <3>6, <3>8, <4>3
        <5> QED BY <3>3, <3>6, <5>1
      <4> QED BY <4>1, <4>2, <4>3
    <3>9. ASSUME NEW i \in DOMAIN featured' PROVE Range(featured'[i]) \subseteq InSections
      <4>1. CASE i = 1
        BY <3>2, <3>6, <4>1
      <4>2. CASE i # 1
        <5>1. i \in 2..(Len(c) + 1)
          BY <3>5, <3>6, <4>2
        <5> QED BY <3>6, <3>7, <5>1
      <4> QED BY <4>1, <4>2
    <3>10. ASSUME NEW x \in InSections PROVE \E i \in DOMAIN featured' : x \in Range(featured'[i])
      <4>1. CASE x \in Range(lead)
        <5>1. 1 \in DOMAIN featured'
          BY <3>5, <3>6
        <5> QED BY <3>6, <4>1, <5>1
      <4>2. CASE x \in T
        <5>1. PICK i \in DOMAIN c : x \in Range(c[i])
          BY <3>3, <4>2
        <5>2. i + 1 \in 2..(Len(c) + 1) /\ i + 1 \in DOMAIN featured' /\ (i + 1) - 1 = i
          BY <3>5, <3>6
        <5>3. featured'[i + 1] = c[i]
          BY <3>6, <5>2
        <5> QED BY <5>1, <5>2, <5>3
      <4> QED BY <4>1, <4>2
    <3> QED BY <3>8, <3>9, <3>10
  <2> QED BY <2>1, <2>2
<1>7. CardsOnce'
  BY <1>5, <1>6 DEF CardsOnce, InFeatured
<1> QED BY <1>0, <1>1, <1>2, <1>3, <1>4, <1>7 DEF PlacesInv, UndecidedYet, RejectedAreJudged

LEMMA FinishPlaces ==
  ASSUME PlacesInv, Finish
  PROVE  PlacesInv'
<1>0. PageTyped /\ UndecidedYet /\ NoneDropped /\ CardsOnce
  BY DEF PlacesInv
<1>1. /\ UNCHANGED <<lane, group, client, todo, score, clusters, headlines, sections, featured, judged>>
      /\ pc = "order" /\ pc' = "done"
      /\ verdict' = [p \in Positions |-> IF p \in Rejected THEN "rejected"
                                         ELSE IF p \in Accepted THEN "accepted" ELSE "pending"]
  BY DEF Finish, input, shown
<1>2. PageTyped'
  <2>1. verdict' \in [Positions -> {"pending", "accepted", "rejected"}]
    BY <1>1
  <2> QED BY <1>0, <1>1, <2>1 DEF PageTyped, Section, OfLane
<1>3. UNCHANGED <<InClusters, InHeadlines, InFeatured, InSections, OfLane({"news", "skim"})>>
  BY <1>1 DEF InClusters, Clustered, InHeadlines, InFeatured, InSections, OfLane
<1>4. NoneDropped'
  BY <1>0, <1>1, <1>3 DEF NoneDropped
<1>5. CardsOnce'
  BY <1>0, <1>1, <1>3 DEF CardsOnce
<1>6. ASSUME NEW p \in Positions, verdict'[p] = "rejected"
      PROVE  p \in judged \ (InClusters \cup InHeadlines \cup InFeatured)
  <2>1. p \in Rejected
    BY <1>1, <1>6
  <2>2. p \in OfLane({"news", "skim"}) /\ p \notin InHeadlines \cup InClusters
    BY <2>1 DEF Rejected, OfLane
  <2>3. p \in judged
    BY <1>0, <1>1, <2>2 DEF NoneDropped
  <2>4. InFeatured \subseteq OfLane({"read"})
    BY <1>0, <1>1, SectionItems DEF CardsOnce, PageTyped
  <2>5. p \notin InFeatured
    BY <2>2, <2>4 DEF OfLane
  <2> QED BY <2>2, <2>3, <2>5
<1>7. RejectedAreJudged'
  BY <1>1, <1>3, <1>6 DEF RejectedAreJudged
<1> QED BY <1>1, <1>2, <1>4, <1>5, <1>7 DEF PlacesInv, UndecidedYet

LEMMA NextPlaces ==
  ASSUME PlacesInv, [Next]_vars
  PROVE  PlacesInv'
<1>1. CASE UNCHANGED vars
  <2>1. UNCHANGED <<lane, group, client, pc, todo, score, clusters, headlines, sections, featured,
                    judged, verdict>>
    BY <1>1 DEF vars, input, shown
  <2>2. PageTyped' /\ UndecidedYet'
    BY <2>1 DEF PlacesInv, PageTyped, UndecidedYet, OfLane, Section
  <2>3. NoneDropped' /\ CardsOnce' /\ RejectedAreJudged'
    BY <2>1 DEF PlacesInv, NoneDropped, CardsOnce, RejectedAreJudged, InClusters, Clustered,
       InHeadlines, InFeatured, InSections, OfLane
  <2> QED BY <2>2, <2>3 DEF PlacesInv
<1> QED BY <1>1, ScoreBatchPlaces, ClusterPlaces, FilterBatchPlaces, FilteredPlaces, SummarizePlaces,
           LayerPlaces, FinishPlaces DEF Next

(* An article the run rejected was in a call of the filter that was        *)
(* answered and is nowhere on the page; each article the summaries name is *)
(* on one card of the issue (OnePlaceEach; cluster_news.py, what the reply *)
(* left out; selection.py, layer_by_score).                                *)
THEOREM EachInOnePlace == JudgingSpec => []OnePlaceEach
<1>1. JudgingInit => PlacesInv
  BY InitPlaces DEF JudgingInit
<1>2. PlacesInv /\ [JudgingNext]_all => PlacesInv'
  BY NextPlaces, PartSteps
<1>3. PlacesInv => OnePlaceEach
  BY DEF PlacesInv, CardsOnce, RejectedAreJudged, OnePlaceEach
<1> QED BY <1>1, <1>2, <1>3, PTL DEF JudgingSpec

-----------------------------------------------------------------------------
(* The records of an issue. *)

Places == {"idle", "stories", "story_members", "stale_members", "stale_stories",
           "topics", "members", "delete_members", "delete_orphans"}

SaverRecords == [pc : Places, issue : Issues \cup {0}, page : Ir!Page, stamp : Nat]

SaverTypes ==
  /\ saver \in [Savers -> SaverRecords]
  /\ saves \in Nat /\ crossed \in BOOLEAN
  /\ saved \in [Issues -> Ir!Page \cup {Ir!NoPage}]
  /\ \A s \in Savers : IF saver[s].pc = "idle" THEN saver[s].issue = 0 ELSE saver[s].issue \in Issues
  /\ \A s \in Savers : saver[s].stamp <= saves
  /\ \A m \in members : m.seen \in Nat /\ m.seen <= saves

(* An issue is saved by one run at a time, and a save of it has not        *)
(* finished while one is under way.                                        *)
OneSaverEach ==
  /\ \A r, s \in Savers : saver[r].issue \in Issues /\ saver[r].issue = saver[s].issue => r = s
  /\ \A i \in Issues : saved[i] # Ir!NoPage => \A s \in Savers : saver[s].issue # i
  /\ ~crossed => \A r, s \in Savers : saver[r].pc # "idle" /\ saver[s].pc # "idle" => r = s

(* What a save has done so far. *)
StampIsNew(s) ==
  saver[s].pc \in Places \ {"idle", "delete_members", "delete_orphans"} =>
    \A m \in members : m.issue = saver[s].issue => m.seen # saver[s].stamp

StoriesAreIn(s) ==
  saver[s].pc = "stale_members" =>
    \A id \in Ir!StoryIds(saver[s]) : \A u \in id.set : <<id, u>> \in storyMembers

TopicsAreIn(s) ==
  saver[s].pc = "members" /\ ~crossed => Ir!TopicIds(saver[s]) \subseteq topics

MembersAreIn(s) ==
  saver[s].pc = "delete_members" =>
    /\ Ir!MemberRows(saver[s]) \subseteq members
    /\ \A m \in members : m.issue = saver[s].issue /\ m.seen = saver[s].stamp =>
         m \in Ir!MemberRows(saver[s])

MembersAreAll(s) ==
  saver[s].pc = "delete_orphans" =>
    {m \in members : m.issue = saver[s].issue} = Ir!MemberRows(saver[s])

SoFar(s) ==
  StampIsNew(s) /\ StoriesAreIn(s) /\ TopicsAreIn(s) /\ MembersAreIn(s) /\ MembersAreAll(s)

RecordsInv ==
  /\ SaverTypes
  /\ OneSaverEach
  /\ \A s \in Savers : SoFar(s)
  /\ Ir!OneTopicPerArticle
  /\ Ir!VotedTopicStays

(* An entry's topic has the articles that no entry before it has.          *)
LEMMA PageType ==
  ASSUME NEW page \in Ir!Page
  PROVE  /\ \E n \in Nat : page \in [1..n -> (SUBSET Urls) \ {{}}]
         /\ page # Ir!NoPage
<1>1. PICK n \in 0..Entries : page \in [1..n -> (SUBSET Urls) \ {{}}]
  BY DEF Ir!Page, Ir!SeqOf
<1>2. page # Ir!NoPage
  <2> SUFFICES ASSUME page = <<{}>> PROVE FALSE
    BY DEF Ir!NoPage
  <2>1. DOMAIN page = 1..1 /\ page[1] = {}
    OBVIOUS
  <2>2. 1 \in DOMAIN page
    BY <2>1
  <2> QED BY <1>1, <2>1, <2>2
<1>3. n \in Nat
  BY BoundsAssumption
<1> QED BY <1>1, <1>2, <1>3

LEMMA EmptyPage ==
  /\ <<>> \in Ir!Page
  /\ Ir!Idle \in SaverRecords /\ Ir!Idle.pc = "idle" /\ Ir!Idle.issue = 0 /\ Ir!Idle.stamp = 0
<1>1. <<>> \in [1..0 -> (SUBSET Urls) \ {{}}]
  OBVIOUS
<1>2. 0 \in 0..Entries
  BY BoundsAssumption
<1>3. <<>> \in Ir!Page
  BY <1>1, <1>2 DEF Ir!Page, Ir!SeqOf
<1> QED BY <1>3 DEF Ir!Idle, SaverRecords, Places

LEMMA FreshOnce ==
  ASSUME NEW page \in Ir!Page, NEW i \in DOMAIN page, NEW j \in DOMAIN page,
         NEW u \in Ir!FreshAt(page, i), u \in Ir!FreshAt(page, j)
  PROVE  i = j
<1>1. PICK n \in Nat : page \in [1..n -> (SUBSET Urls) \ {{}}]
  BY PageType
<1>2. i \in 1..n /\ j \in 1..n
  BY <1>1
<1>3. ASSUME NEW k \in 1..n, NEW l \in 1..n, k < l, u \in page[k], u \in Ir!FreshAt(page, l)
      PROVE  FALSE
  <2>1. k \in 1..(l - 1)
    BY <1>3
  <2> QED BY <1>3, <2>1 DEF Ir!FreshAt
<1>4. u \in page[i] /\ u \in page[j]
  BY DEF Ir!FreshAt
<1>5. ~ (i < j) /\ ~ (j < i)
  BY <1>2, <1>3, <1>4
<1> QED BY <1>2, <1>5

LEMMA FreshSomewhere ==
  ASSUME NEW page \in Ir!Page, NEW k \in DOMAIN page, NEW u \in page[k]
  PROVE  \E i \in DOMAIN page : u \in Ir!FreshAt(page, i)
<1>1. PICK n \in Nat : page \in [1..n -> (SUBSET Urls) \ {{}}]
  BY PageType
<1> DEFINE T == {i \in 1..n : u \in page[i]}
<1>2. T \subseteq Nat /\ k \in T
  BY <1>1
<1>3. PICK i \in T : \A j \in T : i <= j
  <2> HIDE DEF T
  <2> QED BY <1>2, LeastNat
<1>4. \A j \in 1..(i - 1) : u \notin page[j]
  <2> SUFFICES ASSUME NEW j \in 1..(i - 1) PROVE j \notin T
    BY <1>3, <1>1
  <2>1. ~ (i <= j)
    BY <1>3
  <2> QED BY <1>3, <2>1
<1> QED BY <1>1, <1>3, <1>4 DEF Ir!FreshAt

(* The rows of a save: each article once, under its entry's topic.         *)
LEMMA RowsOfPage ==
  ASSUME NEW sv \in SaverRecords
  PROVE  /\ \A m \in Ir!MemberRows(sv) :
              /\ m.issue = sv.issue /\ m.seen = sv.stamp /\ m.topic \in Ir!TopicIds(sv)
              /\ m = [topic |-> m.topic, url |-> m.url, issue |-> sv.issue, seen |-> sv.stamp]
         /\ \A m, n \in Ir!MemberRows(sv) : m.url = n.url => m = n
         /\ {m.url : m \in Ir!MemberRows(sv)} = UNION Range(sv.page)
         /\ Ir!MemberRows(sv) = {} => sv.page = <<>>
<1> DEFINE Row(i, u) == [topic |-> Ir!Id(sv.issue, sv.page[i]), url |-> u, issue |-> sv.issue,
                         seen |-> sv.stamp]
<1>0. sv.page \in Ir!Page
  BY DEF SaverRecords
<1>1. \A m \in Ir!MemberRows(sv) : \E i \in DOMAIN sv.page : \E u \in Ir!FreshAt(sv.page, i) :
        m = Row(i, u) /\ m.topic \in Ir!TopicIds(sv)
  BY DEF Ir!MemberRows, Ir!TopicsOf, Ir!TopicIds
<1>2. \A i \in DOMAIN sv.page : \A u \in Ir!FreshAt(sv.page, i) : Row(i, u) \in Ir!MemberRows(sv)
  <2> SUFFICES ASSUME NEW i \in DOMAIN sv.page, NEW u \in Ir!FreshAt(sv.page, i)
               PROVE  Row(i, u) \in Ir!MemberRows(sv)
    OBVIOUS
  <2>1. <<Ir!Id(sv.issue, sv.page[i]), Ir!FreshAt(sv.page, i)>> \in Ir!TopicsOf(sv)
    BY DEF Ir!TopicsOf
  <2> QED BY <2>1 DEF Ir!MemberRows
<1>3. \A m \in Ir!MemberRows(sv) :
        /\ m.issue = sv.issue /\ m.seen = sv.stamp /\ m.topic \in Ir!TopicIds(sv)
        /\ m = [topic |-> m.topic, url |-> m.url, issue |-> sv.issue, seen |-> sv.stamp]
  BY <1>1
<1>4. ASSUME NEW m \in Ir!MemberRows(sv), NEW n \in Ir!MemberRows(sv), m.url = n.url
      PROVE  m = n
  <2>1. PICK i \in DOMAIN sv.page : m = Row(i, m.url) /\ m.url \in Ir!FreshAt(sv.page, i)
    BY <1>1
  <2>2. PICK j \in DOMAIN sv.page : n = Row(j, n.url) /\ n.url \in Ir!FreshAt(sv.page, j)
    BY <1>1
  <2>3. i = j
    BY <1>0, <1>4, <2>1, <2>2, FreshOnce
  <2> QED BY <1>4, <2>1, <2>2, <2>3
<1>5. {m.url : m \in Ir!MemberRows(sv)} = UNION Range(sv.page)
  <2>1. ASSUME NEW m \in Ir!MemberRows(sv) PROVE m.url \in UNION Range(sv.page)
    BY <1>1 DEF Range, Ir!FreshAt
  <2>2. ASSUME NEW u \in UNION Range(sv.page) PROVE \E m \in Ir!MemberRows(sv) : m.url = u
    <3>1. PICK k \in DOMAIN sv.page : u \in sv.page[k]
      BY <2>2 DEF Range
    <3>2. PICK i \in DOMAIN sv.page : u \in Ir!FreshAt(sv.page, i)
      BY <1>0, <3>1, FreshSomewhere
    <3>3. Row(i, u) \in Ir!MemberRows(sv) /\ Row(i, u).url = u
      BY <1>2, <3>2
    <3> QED BY <3>3
  <2> QED BY <2>1, <2>2
<1>6. Ir!MemberRows(sv) = {} => sv.page = <<>>
  <2> SUFFICES ASSUME sv.page # <<>> PROVE Ir!MemberRows(sv) # {}
    OBVIOUS
  <2>1. PICK n \in Nat : sv.page \in [1..n -> (SUBSET Urls) \ {{}}]
    BY <1>0, PageType
  <2>2. n # 0
    BY <2>1
  <2>3. 1 \in DOMAIN sv.page /\ sv.page[1] # {}
    BY <2>1, <2>2
  <2>4. PICK u : u \in sv.page[1]
    BY <2>3
  <2>5. PICK i \in DOMAIN sv.page : u \in Ir!FreshAt(sv.page, i)
    BY <1>0, <2>3, <2>4, FreshSomewhere
  <2> QED BY <1>2, <2>5
<1> QED BY <1>3, <1>4, <1>5, <1>6

(* What a save writes depends on its issue, its page and its stamp.        *)
LEMMA SameSave ==
  ASSUME NEW sv, NEW sw, sv.issue = sw.issue, sv.page = sw.page, sv.stamp = sw.stamp
  PROVE  /\ Ir!MemberRows(sv) = Ir!MemberRows(sw) /\ Ir!StoryIds(sv) = Ir!StoryIds(sw)
         /\ Ir!TopicIds(sv) = Ir!TopicIds(sw)
BY DEF Ir!MemberRows, Ir!StoryIds, Ir!TopicIds, Ir!TopicsOf

(* A cluster's id names its issue, and the cluster has articles.           *)
LEMMA StoryIdFacts ==
  ASSUME NEW sv, NEW id \in Ir!StoryIds(sv)
  PROVE  id.issue = sv.issue /\ id.set # {}
<1>1. PICK i \in DOMAIN sv.page : Cardinality(sv.page[i]) > 1 /\ id = Ir!Id(sv.issue, sv.page[i])
  BY DEF Ir!StoryIds, Ir!Cardinality, Cardinality
<1>2. sv.page[i] # {}
  BY <1>1, FS_EmptySet
<1> QED BY <1>1, <1>2 DEF Ir!Id

(* A saver that goes on keeps its save, and the others keep theirs.        *)
LEMMA GoesOn ==
  ASSUME SaverTypes, NEW s \in Savers, NEW place \in Places \ {"idle"}, Ir!Goto(s, place),
         saver[s].pc # "idle"
  PROVE  /\ saver' \in [Savers -> SaverRecords]
         /\ saver'[s].pc = place
         /\ \A r \in Savers : /\ saver'[r].issue = saver[r].issue /\ saver'[r].page = saver[r].page
                              /\ saver'[r].stamp = saver[r].stamp
         /\ \A r \in Savers : r # s => saver'[r] = saver[r]
         /\ \A r \in Savers : IF saver'[r].pc = "idle" THEN saver'[r].issue = 0
                              ELSE saver'[r].issue \in Issues
<1>1. saver \in [Savers -> SaverRecords]
  BY DEF SaverTypes
<1>2. saver' = [saver EXCEPT ![s] = [saver[s] EXCEPT !.pc = place]]
  BY DEF Ir!Goto
<1> DEFINE x == [saver[s] EXCEPT !.pc = place]
<1>3. /\ x \in SaverRecords /\ x.pc = place /\ x.issue = saver[s].issue /\ x.page = saver[s].page
      /\ x.stamp = saver[s].stamp
  BY <1>1 DEF SaverRecords
<1>4. saver'[s] = x /\ \A r \in Savers : r # s => saver'[r] = saver[r]
  BY <1>1, <1>2
<1>5. saver' \in [Savers -> SaverRecords]
  BY <1>1, <1>2, <1>3
<1> HIDE DEF x
<1> QED BY <1>3, <1>4, <1>5 DEF SaverTypes

(* One that stops is idle, and the others keep their saves.                *)
LEMMA Stops ==
  ASSUME SaverTypes, NEW s \in Savers, saver' = [saver EXCEPT ![s] = Ir!Idle]
  PROVE  /\ saver' \in [Savers -> SaverRecords]
         /\ saver'[s].pc = "idle" /\ saver'[s].issue = 0 /\ saver'[s].stamp = 0
         /\ \A r \in Savers : r # s => saver'[r] = saver[r]
<1>1. saver \in [Savers -> SaverRecords]
  BY DEF SaverTypes
<1> QED BY <1>1, EmptyPage

LEMMA InitRecords == Ir!Init => RecordsInv
<1> SUFFICES ASSUME Ir!Init PROVE RecordsInv
  OBVIOUS
<1>2. Ir!Idle \in SaverRecords /\ Ir!Idle.pc = "idle" /\ Ir!Idle.issue = 0 /\ Ir!Idle.stamp = 0
  BY EmptyPage
<1>3. \A s \in Savers : saver[s] = Ir!Idle
  BY DEF Ir!Init
<1>4. SaverTypes
  <2>1. saver \in [Savers -> SaverRecords] /\ saved \in [Issues -> Ir!Page \cup {Ir!NoPage}]
    BY <1>2 DEF Ir!Init
  <2>2. saves = 0 /\ crossed \in BOOLEAN /\ members = {}
    BY DEF Ir!Init
  <2> QED BY <1>2, <1>3, <2>1, <2>2 DEF SaverTypes
<1>5. OneSaverEach
  BY <1>2, <1>3, IssuesAssumption DEF Ir!Init, OneSaverEach
<1>6. \A s \in Savers : SoFar(s)
  BY <1>2, <1>3
  DEF SoFar, StampIsNew, StoriesAreIn, TopicsAreIn, MembersAreIn, MembersAreAll
<1>7. Ir!OneTopicPerArticle /\ Ir!VotedTopicStays
  BY DEF Ir!Init, Ir!OneTopicPerArticle, Ir!VotedTopicStays
<1> QED BY <1>4, <1>5, <1>6, <1>7 DEF RecordsInv

(* What a saver does to its issue's rows leaves the other savers' alone.   *)
LEMMA OthersKeep ==
  ASSUME RecordsInv, NEW s \in Savers, saver[s].pc # "idle",
         NEW r \in Savers, r # s, saver'[r] = saver[r], crossed' = crossed,
         \A m : m.issue # saver[s].issue => (m \in members' <=> m \in members),
         \A id, u : id.issue # saver[s].issue /\ <<id, u>> \in storyMembers =>
                      <<id, u>> \in storyMembers'
  PROVE  SoFar(r)'
<1>1. SaverTypes /\ OneSaverEach /\ SoFar(r)
  BY DEF RecordsInv
<1>2. CASE saver[r].pc = "idle"
  BY <1>2 DEF SoFar, StampIsNew, StoriesAreIn, TopicsAreIn, MembersAreIn, MembersAreAll
<1>3. CASE saver[r].pc # "idle"
  <2>1. saver[r].issue \in Issues /\ saver[s].issue \in Issues /\ saver[r].issue # saver[s].issue
    BY <1>1, <1>3 DEF SaverTypes, OneSaverEach
  <2>2. crossed
    BY <1>1, <1>3 DEF OneSaverEach
  <2>3. saver[r] \in SaverRecords
    BY <1>1 DEF SaverTypes
  <2>4. StampIsNew(r)' /\ TopicsAreIn(r)'
    BY <1>1, <2>1, <2>2 DEF SoFar, StampIsNew, TopicsAreIn
  <2>5. StoriesAreIn(r)'
    BY <1>1, <2>1, StoryIdFacts DEF SoFar, StoriesAreIn
  <2>6. \A m \in Ir!MemberRows(saver[r]) : m.issue # saver[s].issue
    BY <2>1, <2>3, RowsOfPage
  <2>7. MembersAreIn(r)'
    BY <1>1, <2>1, <2>6 DEF SoFar, MembersAreIn
  <2>8. MembersAreAll(r)'
    BY <1>1, <2>1, <2>6 DEF SoFar, MembersAreAll
  <2> QED BY <2>4, <2>5, <2>7, <2>8 DEF SoFar
<1> QED BY <1>2, <1>3

(* A saved issue's rows stay as they are.                                  *)
LEMMA SavedStays ==
  ASSUME RecordsInv, NEW s \in Savers, saver[s].pc # "idle", saved' = saved,
         \A m : m.issue # saver[s].issue => (m \in members' <=> m \in members)
  PROVE  Ir!OneTopicPerArticle'
<1>1. SaverTypes /\ OneSaverEach /\ Ir!OneTopicPerArticle
  BY DEF RecordsInv
<1>2. ASSUME NEW i \in Issues, saved[i] # Ir!NoPage
      PROVE  {m \in members' : m.issue = i} = {m \in members : m.issue = i}
  <2>1. i # saver[s].issue
    BY <1>1, <1>2 DEF OneSaverEach
  <2> QED BY <2>1
<1> QED BY <1>1, <1>2 DEF Ir!OneTopicPerArticle, Ir!MembersOf

(* The savers and the history, as a saver goes on or stops.                *)
LEMMA SaverSteps ==
  ASSUME RecordsInv, NEW s \in Savers, saver' \in [Savers -> SaverRecords],
         \A r \in Savers : r # s => saver'[r] = saver[r],
         \/ saver'[s].issue = saver[s].issue /\ saver'[s].stamp = saver[s].stamp
         \/ saver'[s].issue = 0 /\ saver'[s].stamp = 0,
         saver[s].pc # "idle",
         IF saver'[s].pc = "idle" THEN saver'[s].issue = 0 ELSE saver'[s].issue \in Issues,
         UNCHANGED <<saves, saved, crossed>>,
         \A m \in members' : m \in members \/ m.seen = saver[s].stamp
  PROVE  SaverTypes' /\ OneSaverEach'
<1>1. SaverTypes /\ OneSaverEach
  BY DEF RecordsInv
<1>2. saver[s].stamp \in Nat /\ saver[s].stamp <= saves /\ saves \in Nat
  BY <1>1 DEF SaverTypes, SaverRecords
<1>3. SaverTypes'
  <2>1. \A r \in Savers : saver'[r].stamp <= saves
    BY <1>1, <1>2 DEF SaverTypes
  <2>2. \A m \in members' : m.seen \in Nat /\ m.seen <= saves
    BY <1>1, <1>2 DEF SaverTypes
  <2>3. \A r \in Savers : IF saver'[r].pc = "idle" THEN saver'[r].issue = 0
                          ELSE saver'[r].issue \in Issues
    BY <1>1 DEF SaverTypes
  <2>4. saved' \in [Issues -> Ir!Page \cup {Ir!NoPage}] /\ saves' \in Nat /\ crossed' \in BOOLEAN
    BY <1>1 DEF SaverTypes
  <2> QED BY <2>1, <2>2, <2>3, <2>4 DEF SaverTypes
<1>4. OneSaverEach'
  <2>1. \A r \in Savers : /\ saver'[r].issue \in Issues => saver'[r].issue = saver[r].issue
                          /\ saver'[r].pc # "idle" => saver[r].pc # "idle"
    BY IssuesAssumption
  <2> QED BY <1>1, <2>1 DEF OneSaverEach
<1> QED BY <1>3, <1>4

LEMMA SaveStep ==
  ASSUME RecordsInv, NEW s \in Savers, Ir!Save(s)
  PROVE  RecordsInv'
<1>1. SaverTypes /\ OneSaverEach /\ (\A r \in Savers : SoFar(r)) /\ Ir!OneTopicPerArticle
      /\ Ir!VotedTopicStays
  BY DEF RecordsInv
<1> DEFINE x(issue, page) == [pc |-> "stories", issue |-> issue, page |-> page, stamp |-> saves + 1]
<1>2. PICK issue \in Issues, page \in Ir!Page :
        /\ \A r \in Savers : saver[r].issue # issue
        /\ saver' = [saver EXCEPT ![s] = x(issue, page)]
        /\ saved' = [saved EXCEPT ![issue] = Ir!NoPage]
  BY DEF Ir!Save
<1>3. /\ saver[s].pc = "idle" /\ saves' = saves + 1
      /\ crossed' = (crossed \/ \E r \in Savers : saver[r].pc # "idle")
      /\ UNCHANGED <<stories, storyMembers, topics, members, votes>>
  BY DEF Ir!Save, Ir!At, Ir!rows
<1>4. saves \in Nat /\ saves + 1 \in Nat /\ saves < saves + 1
  BY <1>1 DEF SaverTypes
<1>5. x(issue, page) \in SaverRecords
  BY <1>4 DEF SaverRecords, Places
<1>6. /\ saver' \in [Savers -> SaverRecords]
      /\ saver'[s].pc = "stories" /\ saver'[s].issue = issue /\ saver'[s].stamp = saves + 1
      /\ \A r \in Savers : r # s => saver'[r] = saver[r]
  BY <1>1, <1>2, <1>5 DEF SaverTypes
<1>7. /\ saved' \in [Issues -> Ir!Page \cup {Ir!NoPage}] /\ saved'[issue] = Ir!NoPage
      /\ \A i \in Issues : i # issue => saved'[i] = saved[i]
  BY <1>1, <1>2 DEF SaverTypes
<1>8. SaverTypes'
  <2>1. \A r \in Savers : saver[r].stamp \in Nat /\ saver[r].stamp <= saves
    BY <1>1 DEF SaverTypes, SaverRecords
  <2>2. \A r \in Savers : saver'[r].stamp <= saves'
    BY <1>3, <1>4, <1>6, <2>1
  <2>3. \A m \in members' : m.seen \in Nat /\ m.seen <= saves'
    BY <1>1, <1>3, <1>4 DEF SaverTypes
  <2>4. \A r \in Savers : IF saver'[r].pc = "idle" THEN saver'[r].issue = 0
                          ELSE saver'[r].issue \in Issues
    BY <1>1, <1>6 DEF SaverTypes
  <2>5. crossed' \in BOOLEAN
    BY <1>3
  <2> QED BY <1>3, <1>4, <1>6, <1>7, <2>2, <2>3, <2>4, <2>5 DEF SaverTypes
<1>9. OneSaverEach'
  <2>1. \A r, q \in Savers : saver'[r].issue \in Issues /\ saver'[r].issue = saver'[q].issue => r = q
    BY <1>1, <1>2, <1>6 DEF OneSaverEach
  <2>2. \A i \in Issues : saved'[i] # Ir!NoPage => \A r \in Savers : saver'[r].issue # i
    BY <1>1, <1>6, <1>7 DEF OneSaverEach
  <2>3. ~crossed' => \A r, q \in Savers : saver'[r].pc # "idle" /\ saver'[q].pc # "idle" => r = q
    BY <1>3, <1>6
  <2> QED BY <2>1, <2>2, <2>3 DEF OneSaverEach
<1>10. SoFar(s)'
  <2>1. \A m \in members : m.seen # saves + 1
    BY <1>1, <1>4 DEF SaverTypes
  <2> QED BY <1>3, <1>6, <2>1
    DEF SoFar, StampIsNew, StoriesAreIn, TopicsAreIn, MembersAreIn, MembersAreAll
<1>11. ASSUME NEW r \in Savers, r # s PROVE SoFar(r)'
  <2>1. saver'[r] = saver[r] /\ SoFar(r) /\ (crossed => crossed')
    BY <1>1, <1>3, <1>6, <1>11
  <2> QED BY <1>3, <2>1
    DEF SoFar, StampIsNew, StoriesAreIn, TopicsAreIn, MembersAreIn, MembersAreAll
<1>12. Ir!OneTopicPerArticle'
  BY <1>1, <1>3, <1>7 DEF Ir!OneTopicPerArticle, Ir!MembersOf
<1>13. Ir!VotedTopicStays'
  BY <1>1, <1>3 DEF Ir!VotedTopicStays
<1> QED BY <1>8, <1>9, <1>10, <1>11, <1>12, <1>13 DEF RecordsInv

(* The statements of the story store.                                      *)
LEMMA StoriesStep ==
  ASSUME RecordsInv, NEW s \in Savers,
         \/ Ir!InsertStories(s) \/ Ir!InsertStoryMembers(s)
         \/ Ir!DeleteStoryMembers(s) \/ Ir!DeleteStories(s)
  PROVE  RecordsInv'
<1>1. SaverTypes /\ OneSaverEach /\ SoFar(s) /\ Ir!VotedTopicStays
  BY DEF RecordsInv
<1>2. PICK place \in {"story_members", "stale_members", "stale_stories", "topics"} :
        /\ Ir!Goto(s, place)
        /\ place = "stale_members" <=> Ir!InsertStoryMembers(s)
  BY <1>1 DEF Ir!InsertStories, Ir!InsertStoryMembers, Ir!DeleteStoryMembers, Ir!DeleteStories,
              Ir!At
<1>3. /\ saver[s].pc \in {"stories", "story_members", "stale_members", "stale_stories"}
      /\ UNCHANGED <<topics, members, votes, saves, saved, crossed>>
  BY DEF Ir!InsertStories, Ir!InsertStoryMembers, Ir!DeleteStoryMembers, Ir!DeleteStories, Ir!At
<1>4. /\ saver' \in [Savers -> SaverRecords]
      /\ saver'[s].pc = place
      /\ \A r \in Savers : /\ saver'[r].issue = saver[r].issue /\ saver'[r].page = saver[r].page
                           /\ saver'[r].stamp = saver[r].stamp
      /\ \A r \in Savers : r # s => saver'[r] = saver[r]
      /\ \A r \in Savers : IF saver'[r].pc = "idle" THEN saver'[r].issue = 0
                           ELSE saver'[r].issue \in Issues
  BY <1>1, <1>2, <1>3, GoesOn DEF Places
<1>5. SaverTypes' /\ OneSaverEach'
  BY <1>3, <1>4, SaverSteps
<1>6. ASSUME NEW id, NEW u, id.issue # saver[s].issue, <<id, u>> \in storyMembers
      PROVE  <<id, u>> \in storyMembers'
  <2>1. CASE UNCHANGED storyMembers \/ storyMembers \subseteq storyMembers'
    BY <1>6, <2>1
  <2>2. CASE Ir!DeleteStoryMembers(s)
    BY <1>6, <2>2 DEF Ir!DeleteStoryMembers, Ir!Stale
  <2> QED BY <2>1, <2>2 DEF Ir!InsertStories, Ir!InsertStoryMembers, Ir!DeleteStories
<1>7. \A r \in Savers : r # s => SoFar(r)'
  BY <1>3, <1>4, <1>6, OthersKeep
<1>8. SoFar(s)'
  <2>1. Ir!StoryIds(saver'[s]) = Ir!StoryIds(saver[s])
    BY <1>4, SameSave
  <2>2. StoriesAreIn(s)'
    <3> SUFFICES ASSUME saver'[s].pc = "stale_members",
                        NEW id \in Ir!StoryIds(saver[s]), NEW u \in id.set
                 PROVE  <<id, u>> \in storyMembers'
      BY <2>1 DEF StoriesAreIn
    <3>1. Ir!InsertStoryMembers(s)
      BY <1>2, <1>4
    <3>2. <<id, u>> \in {id} \X id.set
      OBVIOUS
    <3> QED BY <3>1, <3>2 DEF Ir!InsertStoryMembers
  <2>3. StampIsNew(s)'
    BY <1>1, <1>3, <1>4 DEF SoFar, StampIsNew, Places
  <2> QED BY <1>2, <1>4, <2>2, <2>3 DEF SoFar, TopicsAreIn, MembersAreIn, MembersAreAll
<1>9. Ir!OneTopicPerArticle'
  BY <1>3, SavedStays
<1>10. Ir!VotedTopicStays'
  BY <1>1, <1>3 DEF Ir!VotedTopicStays
<1> QED BY <1>5, <1>7, <1>8, <1>9, <1>10 DEF RecordsInv

(* The statements of the topic store but for the last.                     *)
LEMMA TopicsStep ==
  ASSUME RecordsInv, NEW s \in Savers,
         Ir!InsertTopics(s) \/ Ir!InsertMembers(s) \/ Ir!DeleteMembers(s)
  PROVE  RecordsInv'
<1>1. SaverTypes /\ OneSaverEach /\ SoFar(s) /\ Ir!VotedTopicStays
  BY DEF RecordsInv
<1>2. PICK place \in {"members", "delete_members", "delete_orphans"} :
        /\ Ir!Goto(s, place)
        /\ place = "members" <=> Ir!InsertTopics(s)
        /\ place = "delete_members" <=> Ir!InsertMembers(s)
        /\ place = "delete_orphans" <=> Ir!DeleteMembers(s)
  BY DEF Ir!InsertTopics, Ir!InsertMembers, Ir!DeleteMembers, Ir!At
<1>3. /\ saver[s].pc \in {"topics", "members", "delete_members"}
      /\ Ir!InsertTopics(s) => saver[s].pc = "topics" /\ UNCHANGED members
      /\ Ir!InsertMembers(s) => saver[s].pc = "members" /\ UNCHANGED topics
      /\ Ir!DeleteMembers(s) => saver[s].pc = "delete_members" /\ UNCHANGED topics
      /\ UNCHANGED <<storyMembers, votes, saves, saved, crossed>>
  BY DEF Ir!InsertTopics, Ir!InsertMembers, Ir!DeleteMembers, Ir!At
<1>4. /\ saver' \in [Savers -> SaverRecords]
      /\ saver'[s].pc = place
      /\ \A r \in Savers : /\ saver'[r].issue = saver[r].issue /\ saver'[r].page = saver[r].page
                           /\ saver'[r].stamp = saver[r].stamp
      /\ \A r \in Savers : r # s => saver'[r] = saver[r]
      /\ \A r \in Savers : IF saver'[r].pc = "idle" THEN saver'[r].issue = 0
                           ELSE saver'[r].issue \in Issues
  BY <1>1, <1>2, <1>3, GoesOn DEF Places
<1> DEFINE new == Ir!MemberRows(saver[s])
<1>5. /\ Ir!MemberRows(saver'[s]) = new /\ Ir!TopicIds(saver'[s]) = Ir!TopicIds(saver[s])
  BY <1>4, SameSave
<1>6. saver[s] \in SaverRecords
  BY <1>1 DEF SaverTypes
<1>7. \A m \in new : m.issue = saver[s].issue /\ m.seen = saver[s].stamp
                     /\ m.topic \in Ir!TopicIds(saver[s])
  BY <1>6, RowsOfPage
<1> HIDE DEF new
<1>8. Ir!InsertMembers(s) =>
        members' = {m \in members : Ir!Key(m) \notin {Ir!Key(n) : n \in new}} \cup new
  BY DEF Ir!InsertMembers, new
<1>9. Ir!DeleteMembers(s) =>
        members' = {m \in members : m.issue # saver[s].issue \/ m.seen = saver[s].stamp}
  BY DEF Ir!DeleteMembers
<1>10. \A m : m.issue # saver[s].issue => (m \in members' <=> m \in members)
  <2>1. CASE Ir!InsertMembers(s)
    <3>1. \A m : m.issue # saver[s].issue => Ir!Key(m) \notin {Ir!Key(n) : n \in new}
      BY <1>7 DEF Ir!Key
    <3> QED BY <1>7, <1>8, <2>1, <3>1
  <2> QED BY <1>3, <1>9, <2>1
<1>11. \A m \in members' : m \in members \/ m \in new
  BY <1>3, <1>8, <1>9
<1>12. SaverTypes' /\ OneSaverEach'
  BY <1>3, <1>4, <1>7, <1>11, SaverSteps
<1>13. \A r \in Savers : r # s => SoFar(r)'
  BY <1>3, <1>4, <1>10, OthersKeep
<1>14. Ir!OneTopicPerArticle'
  BY <1>3, <1>10, SavedStays
<1>15. SoFar(s)'
  <2>1. CASE Ir!InsertTopics(s)
    <3>1. Ir!TopicIds(saver[s]) \subseteq topics'
      BY <2>1 DEF Ir!InsertTopics
    <3>2. saver'[s].pc = "members" /\ saver[s].pc = "topics" /\ UNCHANGED members
      BY <1>2, <1>3, <1>4, <2>1
    <3> QED BY <1>1, <1>4, <1>5, <3>1, <3>2
      DEF SoFar, StampIsNew, StoriesAreIn, TopicsAreIn, MembersAreIn, MembersAreAll, Places
  <2>2. CASE Ir!InsertMembers(s)
    <3>1. saver'[s].pc = "delete_members" /\ saver[s].pc = "members"
      BY <1>2, <1>3, <1>4, <2>2
    <3>2. \A m \in members : m.issue = saver[s].issue => m.seen # saver[s].stamp
      BY <1>1, <3>1 DEF SoFar, StampIsNew, Places
    <3>3. new \subseteq members'
      BY <1>8, <2>2
    <3>4. MembersAreIn(s)'
      BY <1>4, <1>5, <1>11, <3>2, <3>3 DEF MembersAreIn
    <3> QED BY <3>1, <3>4 DEF SoFar, StampIsNew, StoriesAreIn, TopicsAreIn, MembersAreAll
  <2>3. CASE Ir!DeleteMembers(s)
    <3>1. saver'[s].pc = "delete_orphans" /\ saver[s].pc = "delete_members"
      BY <1>2, <1>3, <1>4, <2>3
    <3>2. /\ new \subseteq members
          /\ \A m \in members : m.issue = saver[s].issue /\ m.seen = saver[s].stamp => m \in new
      BY <1>1, <3>1 DEF SoFar, MembersAreIn, new
    <3>3. {m \in members' : m.issue = saver[s].issue} = new
      BY <1>7, <1>9, <2>3, <3>2
    <3>4. MembersAreAll(s)'
      BY <1>4, <1>5, <3>3 DEF MembersAreAll
    <3> QED BY <3>1, <3>4 DEF SoFar, StampIsNew, StoriesAreIn, TopicsAreIn, MembersAreIn
  <2> QED BY <2>1, <2>2, <2>3
<1>16. Ir!VotedTopicStays'
  <2> SUFFICES ASSUME ~crossed PROVE votes \subseteq topics' /\ \A m \in members' : m.topic \in topics'
    BY <1>3 DEF Ir!VotedTopicStays
  <2>1. votes \subseteq topics /\ \A m \in members : m.topic \in topics
    BY <1>1 DEF Ir!VotedTopicStays
  <2>2. topics \subseteq topics'
    BY <1>3 DEF Ir!InsertTopics
  <2>3. CASE Ir!InsertMembers(s)
    <3>1. Ir!TopicIds(saver[s]) \subseteq topics
      BY <1>1, <1>3, <2>3 DEF SoFar, TopicsAreIn
    <3> QED BY <1>7, <1>11, <2>1, <2>2, <3>1
  <2>4. CASE ~Ir!InsertMembers(s)
    <3>1. members' \subseteq members
      BY <1>3, <1>9, <2>4
    <3> QED BY <2>1, <2>2, <3>1
  <2> QED BY <2>3, <2>4
<1> QED BY <1>12, <1>13, <1>14, <1>15, <1>16 DEF RecordsInv

(* The save ends, is given up or is killed.                                *)
LEMMA LastStep ==
  ASSUME RecordsInv, NEW s \in Savers, Ir!DeleteOrphans(s) \/ Ir!Fails(s) \/ Ir!Kill(s)
  PROVE  RecordsInv'
<1>1. SaverTypes /\ OneSaverEach /\ SoFar(s) /\ Ir!VotedTopicStays /\ Ir!OneTopicPerArticle
  BY DEF RecordsInv
<1>2. /\ saver[s].pc # "idle" /\ UNCHANGED <<storyMembers, members, votes, saves, crossed>>
      /\ \A m \in members : m \in members'
  BY DEF Ir!DeleteOrphans, Ir!Fails, Ir!Kill, Ir!At, Ir!rows
<1>3. CASE Ir!Fails(s) /\ Ir!Goto(s, "topics")
                       /\ saver[s].pc \in {"stories", "story_members", "stale_members", "stale_stories"}
  <2>1. UNCHANGED <<topics, saved>>
    BY <1>3 DEF Ir!Fails, Ir!rows
  <2>2. /\ saver' \in [Savers -> SaverRecords]
        /\ saver'[s].pc = "topics"
        /\ \A r \in Savers : /\ saver'[r].issue = saver[r].issue /\ saver'[r].page = saver[r].page
                             /\ saver'[r].stamp = saver[r].stamp
        /\ \A r \in Savers : r # s => saver'[r] = saver[r]
        /\ \A r \in Savers : IF saver'[r].pc = "idle" THEN saver'[r].issue = 0
                             ELSE saver'[r].issue \in Issues
    BY <1>1, <1>2, <1>3, GoesOn DEF Places
  <2>3. SaverTypes' /\ OneSaverEach'
    BY <1>2, <2>1, <2>2, SaverSteps
  <2>4. \A r \in Savers : r # s => SoFar(r)'
    BY <1>2, <2>2, OthersKeep
  <2>5. SoFar(s)'
    BY <1>1, <1>2, <1>3, <2>2
    DEF SoFar, StampIsNew, StoriesAreIn, TopicsAreIn, MembersAreIn, MembersAreAll, Places
  <2>6. Ir!OneTopicPerArticle' /\ Ir!VotedTopicStays'
    BY <1>1, <1>2, <2>1, SavedStays DEF Ir!VotedTopicStays
  <2> QED BY <2>3, <2>4, <2>5, <2>6 DEF RecordsInv
<1>4. CASE saver' = [saver EXCEPT ![s] = Ir!Idle]
  <2>1. /\ saver' \in [Savers -> SaverRecords]
        /\ saver'[s].pc = "idle" /\ saver'[s].issue = 0 /\ saver'[s].stamp = 0
        /\ \A r \in Savers : r # s => saver'[r] = saver[r]
    BY <1>1, <1>4, Stops
  <2>2. \A r \in Savers : r # s => SoFar(r)'
    BY <1>2, <2>1, OthersKeep
  <2>3. SoFar(s)'
    BY <2>1 DEF SoFar, StampIsNew, StoriesAreIn, TopicsAreIn, MembersAreIn, MembersAreAll, Places
  <2>4. CASE UNCHANGED <<topics, saved>>
    <3>1. SaverTypes' /\ OneSaverEach'
      BY <1>2, <2>1, <2>4, SaverSteps
    <3>2. Ir!OneTopicPerArticle' /\ Ir!VotedTopicStays'
      BY <1>1, <1>2, <2>4, SavedStays DEF Ir!VotedTopicStays
    <3> QED BY <2>2, <2>3, <3>1, <3>2 DEF RecordsInv
  <2>5. CASE Ir!DeleteOrphans(s)
    <3> DEFINE issue == saver[s].issue
               page == saver[s].page
    <3>1. saver[s] \in SaverRecords /\ issue \in Issues /\ saver[s].pc = "delete_orphans"
      BY <1>1, <2>5 DEF SaverTypes, Ir!DeleteOrphans, Ir!At
    <3>2. page \in Ir!Page /\ page # Ir!NoPage
      BY <3>1, PageType DEF SaverRecords
    <3>3. /\ saved' \in [Issues -> Ir!Page \cup {Ir!NoPage}] /\ saved'[issue] = page
          /\ \A i \in Issues : i # issue => saved'[i] = saved[i]
      BY <1>1, <2>5, <3>1, <3>2 DEF SaverTypes, Ir!DeleteOrphans
    <3>4. SaverTypes'
      <4>1. \A r \in Savers : saver'[r].stamp <= saves
        BY <1>1, <2>1 DEF SaverTypes
      <4>2. \A r \in Savers : IF saver'[r].pc = "idle" THEN saver'[r].issue = 0
                              ELSE saver'[r].issue \in Issues
        BY <1>1, <2>1 DEF SaverTypes
      <4> QED BY <1>1, <1>2, <2>1, <3>3, <4>1, <4>2 DEF SaverTypes
    <3>5. OneSaverEach'
      <4>1. \A r \in Savers : saver'[r].issue # issue
        BY <1>1, <2>1, <3>1, IssuesAssumption DEF OneSaverEach
      <4>2. \A r \in Savers : /\ saver'[r].issue \in Issues => saver'[r].issue = saver[r].issue
                              /\ saver'[r].pc # "idle" => saver[r].pc # "idle"
        BY <2>1, IssuesAssumption
      <4>3. \A r, q \in Savers : saver'[r].issue \in Issues /\ saver'[r].issue = saver'[q].issue => r = q
        BY <1>1, <4>2 DEF OneSaverEach
      <4>4. \A i \in Issues : saved'[i] # Ir!NoPage => \A r \in Savers : saver'[r].issue # i
        BY <1>1, <3>3, <4>1, <4>2 DEF OneSaverEach
      <4>5. ~crossed' => \A r, q \in Savers : saver'[r].pc # "idle" /\ saver'[q].pc # "idle" => r = q
        BY <1>1, <1>2, <4>2 DEF OneSaverEach
      <4> QED BY <4>3, <4>4, <4>5 DEF OneSaverEach
    <3>6. Ir!OneTopicPerArticle'
      <4>1. {m \in members : m.issue = issue} = Ir!MemberRows(saver[s])
        BY <1>1, <3>1 DEF SoFar, MembersAreAll
      <4>2. /\ \A m, n \in {k \in members : k.issue = issue} : m.url = n.url => m = n
            /\ {m.url : m \in {k \in members : k.issue = issue}} = UNION Range(page)
        BY <3>1, <4>1, RowsOfPage
      <4> HIDE DEF issue, page
      <4>3. ASSUME NEW i \in Issues, saved'[i] # Ir!NoPage
            PROVE  /\ \A m, n \in {k \in members : k.issue = i} : m.url = n.url => m = n
                   /\ {m.url : m \in {k \in members : k.issue = i}} = UNION Range(saved'[i])
        <5>1. CASE i = issue
          BY <3>3, <4>2, <5>1
        <5>2. CASE i # issue
          BY <1>1, <3>3, <4>3, <5>2 DEF Ir!OneTopicPerArticle, Ir!MembersOf, Ir!Range, Range
        <5> QED BY <5>1, <5>2
      <4> QED BY <1>2, <4>3 DEF Ir!OneTopicPerArticle, Ir!MembersOf, Ir!Range, Range
    <3>7. Ir!VotedTopicStays'
      BY <1>1, <1>2, <2>5 DEF Ir!VotedTopicStays, Ir!DeleteOrphans, Ir!Orphans
    <3> QED BY <2>2, <2>3, <3>4, <3>5, <3>6, <3>7 DEF RecordsInv
  <2> QED BY <2>4, <2>5 DEF Ir!Fails, Ir!Kill, Ir!rows
<1> QED BY <1>3, <1>4 DEF Ir!DeleteOrphans, Ir!Fails, Ir!Kill

(* The reader's vote, and a step of another part.                          *)
LEMMA VoteStep ==
  ASSUME RecordsInv, Ir!Vote \/ UNCHANGED ofRecords
  PROVE  RecordsInv'
<1>1. SaverTypes /\ OneSaverEach /\ (\A s \in Savers : SoFar(s))
      /\ Ir!OneTopicPerArticle /\ Ir!VotedTopicStays
  BY DEF RecordsInv
<1>2. UNCHANGED <<stories, storyMembers, topics, members, saver, saves, saved, crossed>>
  BY DEF Ir!Vote, Ir!rows, ofRecords
<1>3. SaverTypes' /\ OneSaverEach'
  BY <1>1, <1>2 DEF SaverTypes, OneSaverEach
<1>4. \A s \in Savers : SoFar(s)'
  BY <1>1, <1>2
  DEF SoFar, StampIsNew, StoriesAreIn, TopicsAreIn, MembersAreIn, MembersAreAll
<1>5. Ir!OneTopicPerArticle'
  BY <1>1, <1>2 DEF Ir!OneTopicPerArticle, Ir!MembersOf
<1>6. Ir!VotedTopicStays'
  <2>1. \A t \in votes' : t \in votes \/ \E m \in members : t = m.topic
    BY DEF Ir!Vote, Ir!TopicOfUrl, ofRecords
  <2> QED BY <1>1, <1>2, <2>1 DEF Ir!VotedTopicStays
<1> QED BY <1>3, <1>4, <1>5, <1>6 DEF RecordsInv

LEMMA NextRecords == RecordsInv /\ [Ir!Next]_ofRecords => RecordsInv'
BY SaveStep, StoriesStep, TopicsStep, LastStep, VoteStep DEF Ir!Next

(* A reader's vote on an article of a saved issue finds the one topic its  *)
(* page gave it, whatever saves of the issue failed or were killed before, *)
(* and the topic keeps its row through every rerun, as long as no two      *)
(* saves overlap (topics.py, topics_of_urls and the deletes of             *)
(* save_topics).                                                           *)
THEOREM VotesFindTopics == JudgingSpec => []VoteFindsItsTopic
<1>1. JudgingInit => RecordsInv
  BY InitRecords DEF JudgingInit
<1>2. RecordsInv /\ [JudgingNext]_all => RecordsInv'
  BY NextRecords, PartSteps
<1>3. RecordsInv => VoteFindsItsTopic
  BY DEF RecordsInv, VoteFindsItsTopic, Ir!VoteFindsItsTopic
<1> QED BY <1>1, <1>2, <1>3, PTL DEF JudgingSpec

(* The statements that take rows of an issue away. *)
LEMMA MembersGo ==
  ASSUME RecordsInv, [Ir!Next]_ofRecords, NEW i \in Issues,
         Ir!MembersOf(i) # {}, Ir!MembersOf(i)' = {}
  PROVE  \E s \in Ir!InSave(i) : saver[s].page = <<>>
<1>1. members' # members
  BY DEF Ir!MembersOf
<1>2. PICK s \in Savers : Ir!InsertMembers(s) \/ Ir!DeleteMembers(s)
  BY <1>1 DEF Ir!Next, Ir!Save, Ir!InsertStories, Ir!InsertStoryMembers, Ir!DeleteStoryMembers,
     Ir!DeleteStories, Ir!InsertTopics, Ir!DeleteOrphans, Ir!Fails, Ir!Kill, Ir!Vote, Ir!rows,
     ofRecords
<1>3. saver[s] \in SaverRecords /\ SoFar(s)
  BY DEF RecordsInv, SaverTypes
<1> DEFINE new == Ir!MemberRows(saver[s])
<1>4. /\ \A m \in new : m.issue = saver[s].issue /\ m.seen = saver[s].stamp
      /\ new = {} => saver[s].page = <<>>
  BY <1>3, RowsOfPage
<1>5. PICK m \in members : m.issue = i
  BY DEF Ir!MembersOf
<1>6. \A n \in members' : n.issue # i
  BY DEF Ir!MembersOf
<1>7. CASE Ir!InsertMembers(s)
  <2> HIDE DEF new
  <2>1. members' = {n \in members : Ir!Key(n) \notin {Ir!Key(k) : k \in new}} \cup new
    BY <1>7 DEF Ir!InsertMembers, new
  <2>2. PICK n \in new : Ir!Key(m) = Ir!Key(n)
    BY <1>5, <1>6, <2>1
  <2>3. n.issue = i /\ n \in members'
    BY <1>5, <2>1, <2>2 DEF Ir!Key
  <2> QED BY <1>6, <2>3
<1>8. CASE Ir!DeleteMembers(s)
  <2>1. /\ members' = {n \in members : n.issue # saver[s].issue \/ n.seen = saver[s].stamp}
        /\ saver[s].pc = "delete_members"
    BY <1>8 DEF Ir!DeleteMembers, Ir!At
  <2>2. new \subseteq members
    BY <1>3, <2>1 DEF SoFar, MembersAreIn
  <2>3. saver[s].issue = i
    BY <1>5, <1>6, <2>1
  <2>4. new = {}
    BY <1>4, <1>6, <2>1, <2>2, <2>3
  <2> QED BY <1>4, <2>3, <2>4 DEF Ir!InSave
<1> QED BY <1>2, <1>7, <1>8

LEMMA StoriesGo ==
  ASSUME RecordsInv, [Ir!Next]_ofRecords, NEW i \in Issues,
         Ir!StoriesOf(i) # {}, Ir!StoriesOf(i)' = {}
  PROVE  \E s \in Ir!InSave(i) : Ir!StoryIds(saver[s]) = {}
<1>1. PICK m \in storyMembers : m[1].issue = i
  BY DEF Ir!StoriesOf
<1>2. \A n \in storyMembers' : n[1].issue # i
  BY DEF Ir!StoriesOf
<1>3. m \notin storyMembers'
  BY <1>1, <1>2
<1>4. PICK s \in Savers : Ir!DeleteStoryMembers(s)
  BY <1>1, <1>3 DEF Ir!Next, Ir!Save, Ir!InsertStories, Ir!InsertStoryMembers,
     Ir!DeleteStories, Ir!InsertTopics, Ir!InsertMembers, Ir!DeleteMembers, Ir!DeleteOrphans,
     Ir!Fails, Ir!Kill, Ir!Vote, Ir!rows, ofRecords
<1>5. /\ storyMembers' = {n \in storyMembers : n[1] \notin Ir!Stale(s)}
      /\ saver[s].pc = "stale_members"
  BY <1>4 DEF Ir!DeleteStoryMembers, Ir!At
<1>6. saver[s].issue = i
  BY <1>1, <1>3, <1>5 DEF Ir!Stale
<1>7. StoriesAreIn(s)
  BY DEF RecordsInv, SoFar
<1>8. Ir!StoryIds(saver[s]) = {}
  <2> SUFFICES ASSUME NEW id \in Ir!StoryIds(saver[s]) PROVE FALSE
    OBVIOUS
  <2>1. id.issue = i /\ id.set # {}
    BY <1>6, StoryIdFacts
  <2>2. PICK u \in id.set : <<id, u>> \in storyMembers
    BY <1>5, <1>7, <2>1 DEF StoriesAreIn
  <2>3. <<id, u>> \in storyMembers'
    BY <1>5, <2>2 DEF Ir!Stale
  <2> QED BY <1>2, <2>1, <2>3
<1> QED BY <1>6, <1>8 DEF Ir!InSave

(* No save that fails or is killed between two statements leaves an issue  *)
(* that had topics, or stories, without any: only the save of a page       *)
(* without entries, or without clusters, takes the last of them (topics.py,*)
(* save_topics; stories.py, save).                                         *)
THEOREM FailuresKeepRecords == JudgingSpec => IssueKeepsTopics
<1>1. JudgingInit => RecordsInv
  BY InitRecords DEF JudgingInit
<1>2. RecordsInv /\ [JudgingNext]_all => RecordsInv'
  BY NextRecords, PartSteps
<1>3. RecordsInv /\ [JudgingNext]_all =>
        [\A i \in Issues :
           /\ Ir!MembersOf(i) # {} /\ Ir!MembersOf(i)' = {} =>
                \E s \in Ir!InSave(i) : saver[s].page = <<>>
           /\ Ir!StoriesOf(i) # {} /\ Ir!StoriesOf(i)' = {} =>
                \E s \in Ir!InSave(i) : Ir!StoryIds(saver[s]) = {}]_(Ir!vars)
  BY MembersGo, StoriesGo, PartSteps
<1> QED BY <1>1, <1>2, <1>3, PTL DEF JudgingSpec, IssueKeepsTopics, Ir!IssueKeepsTopics

-----------------------------------------------------------------------------
(* What the records' rows are made of.                                     *)
Ids == [issue : Issues, set : SUBSET Urls]

RowsTyped ==
  /\ stories \subseteq Ids /\ topics \subseteq Ids /\ votes \subseteq Ids
  /\ \A m \in storyMembers : m[2] \in m[1].set
  /\ \A m \in members : /\ m.topic \in Ids
                        /\ m.url \in m.topic.set /\ m.issue = m.topic.issue /\ m.seen \in 1..saves
  /\ \A s \in Savers : saver[s].pc # "idle" => saver[s].stamp \in 1..saves
  /\ saves \in 0..Saves

LEMMA IdsOfPage ==
  ASSUME NEW sv \in SaverRecords, sv.issue \in Issues
  PROVE  /\ Ir!StoryIds(sv) \subseteq Ids /\ Ir!TopicIds(sv) \subseteq Ids
         /\ \A m \in Ir!MemberRows(sv) :
              m.topic \in Ids /\ m.url \in m.topic.set /\ m.issue = m.topic.issue
<1>1. PICK n \in Nat : sv.page \in [1..n -> (SUBSET Urls) \ {{}}]
  BY PageType DEF SaverRecords
<1>2. \A i \in DOMAIN sv.page : Ir!Id(sv.issue, sv.page[i]) \in Ids
  BY <1>1 DEF Ir!Id, Ids
<1>3. Ir!StoryIds(sv) \subseteq Ids
  BY <1>2 DEF Ir!StoryIds
<1>4. Ir!TopicIds(sv) \subseteq Ids
  BY <1>2 DEF Ir!TopicIds, Ir!TopicsOf
<1>5. ASSUME NEW m \in Ir!MemberRows(sv)
      PROVE  m.topic \in Ids /\ m.url \in m.topic.set /\ m.issue = m.topic.issue
  <2>1. PICK t \in Ir!TopicsOf(sv) :
          m \in {[topic |-> t[1], url |-> u, issue |-> sv.issue, seen |-> sv.stamp] : u \in t[2]}
    BY DEF Ir!MemberRows
  <2>2. PICK i \in DOMAIN sv.page : t = <<Ir!Id(sv.issue, sv.page[i]), Ir!FreshAt(sv.page, i)>>
    BY DEF Ir!TopicsOf
  <2>3. m.topic = Ir!Id(sv.issue, sv.page[i]) /\ m.url \in sv.page[i] /\ m.issue = sv.issue
    BY <2>1, <2>2 DEF Ir!FreshAt
  <2> QED BY <1>2, <2>3 DEF Ir!Id
<1> QED BY <1>3, <1>4, <1>5

LEMMA NextRows ==
  ASSUME RecordsInv, RowsTyped, [Ir!Next]_ofRecords
  PROVE  RowsTyped'
<1>a. /\ stories \subseteq Ids /\ topics \subseteq Ids /\ votes \subseteq Ids
      /\ \A m \in storyMembers : m[2] \in m[1].set
      /\ \A m \in members : /\ m.topic \in Ids
                            /\ m.url \in m.topic.set /\ m.issue = m.topic.issue
                            /\ m.seen \in 1..saves
      /\ \A s \in Savers : saver[s].pc # "idle" => saver[s].stamp \in 1..saves
      /\ saves \in 0..Saves
  BY DEF RowsTyped
<1>b. SaverTypes
  BY DEF RecordsInv
<1>1. ASSUME NEW s \in Savers, Ir!Save(s) PROVE RowsTyped'
  <2>1. /\ UNCHANGED <<stories, storyMembers, topics, members, votes>>
        /\ saves' = saves + 1 /\ saves < Saves
    BY <1>1 DEF Ir!Save, Ir!rows
  <2>2. saves' \in 0..Saves
    BY <1>a, <2>1, BoundsAssumption
  <2>3. \A n \in 1..saves : n \in 1..saves'
    BY <1>a, <2>1
  <2>4. saves' \in 1..saves'
    BY <1>a, <2>1
  <2>5. \A r \in Savers : saver'[r].pc # "idle" =>
          saver'[r].stamp = saves' \/ (saver[r].pc # "idle" /\ saver'[r].stamp = saver[r].stamp)
    <3>1. PICK issue \in Issues, page \in Ir!Page :
            saver' = [saver EXCEPT ![s] = [pc |-> "stories", issue |-> issue, page |-> page,
                                           stamp |-> saves + 1]]
      BY <1>1 DEF Ir!Save
    <3> QED BY <1>b, <2>1, <3>1 DEF SaverTypes
  <2>6. \A r \in Savers : saver'[r].pc # "idle" => saver'[r].stamp \in 1..saves'
    BY <1>a, <2>3, <2>4, <2>5
  <2>7. \A m \in members' : m.seen \in 1..saves'
    BY <1>a, <2>1, <2>3
  <2> QED BY <1>a, <2>1, <2>2, <2>6, <2>7 DEF RowsTyped
<1>2. ASSUME NEW s \in Savers, saver[s].pc # "idle", saves' = saves,
             \/ \E place \in Places \ {"idle"} : Ir!Goto(s, place)
             \/ saver' = [saver EXCEPT ![s] = Ir!Idle]
      PROVE  /\ \A r \in Savers : saver'[r].pc # "idle" => saver'[r].stamp \in 1..saves'
             /\ saves' \in 0..Saves
  <2>1. \A r \in Savers : saver'[r].pc # "idle" =>
          saver[r].pc # "idle" /\ saver'[r].stamp = saver[r].stamp
    <3>1. CASE \E place \in Places \ {"idle"} : Ir!Goto(s, place)
      BY <1>2, <1>b, <3>1, GoesOn
    <3>2. CASE saver' = [saver EXCEPT ![s] = Ir!Idle]
      BY <1>b, <3>2, Stops
    <3> QED BY <1>2, <3>1, <3>2
  <2> QED BY <1>2, <1>a, <2>1
<1>3. ASSUME NEW s \in Savers, saver[s].pc # "idle"
      PROVE  /\ Ir!StoryIds(saver[s]) \subseteq Ids /\ Ir!TopicIds(saver[s]) \subseteq Ids
             /\ \A m \in Ir!MemberRows(saver[s]) :
                  /\ m.topic \in Ids /\ m.url \in m.topic.set /\ m.issue = m.topic.issue
                  /\ m.seen \in 1..saves
  <2>1. saver[s] \in SaverRecords /\ saver[s].issue \in Issues
    BY <1>3, <1>b DEF SaverTypes
  <2>2. \A m \in Ir!MemberRows(saver[s]) : m.seen = saver[s].stamp
    BY <2>1, RowsOfPage
  <2>3. saver[s].stamp \in 1..saves
    BY <1>3, <1>a
  <2> QED BY <2>1, <2>2, <2>3, IdsOfPage
<1>4. ASSUME NEW s \in Savers,
             \/ Ir!InsertStories(s) \/ Ir!InsertStoryMembers(s)
             \/ Ir!DeleteStoryMembers(s) \/ Ir!DeleteStories(s)
      PROVE  RowsTyped'
  <2>1. saver[s].pc # "idle" /\ UNCHANGED <<topics, members, votes, saves>>
    BY <1>4 DEF Ir!InsertStories, Ir!InsertStoryMembers, Ir!DeleteStoryMembers, Ir!DeleteStories,
                Ir!At
  <2>2. \E place \in Places \ {"idle"} : Ir!Goto(s, place)
    BY <1>4 DEF Ir!InsertStories, Ir!InsertStoryMembers, Ir!DeleteStoryMembers, Ir!DeleteStories,
                Places
  <2>3. stories' \subseteq Ids
    BY <1>3, <1>4, <1>a, <2>1
    DEF Ir!InsertStories, Ir!InsertStoryMembers, Ir!DeleteStoryMembers, Ir!DeleteStories
  <2>4. \A m \in storyMembers' : m[2] \in m[1].set
    <3>1. CASE Ir!InsertStoryMembers(s)
      <4>1. \A m \in storyMembers' :
              m \in storyMembers \/ \E id \in Ir!StoryIds(saver[s]) : m \in {id} \X id.set
        BY <3>1 DEF Ir!InsertStoryMembers
      <4> QED BY <1>a, <4>1
    <3>2. CASE storyMembers' \subseteq storyMembers
      BY <1>a, <3>2
    <3> QED BY <1>4, <3>1, <3>2 DEF Ir!InsertStories, Ir!DeleteStoryMembers, Ir!DeleteStories
  <2> QED BY <1>2, <1>a, <2>1, <2>2, <2>3, <2>4 DEF RowsTyped
<1>5. ASSUME NEW s \in Savers,
             Ir!InsertTopics(s) \/ Ir!InsertMembers(s) \/ Ir!DeleteMembers(s)
      PROVE  RowsTyped'
  <2>1. saver[s].pc # "idle" /\ UNCHANGED <<stories, storyMembers, votes, saves>>
    BY <1>5 DEF Ir!InsertTopics, Ir!InsertMembers, Ir!DeleteMembers, Ir!At
  <2>2. \E place \in Places \ {"idle"} : Ir!Goto(s, place)
    BY <1>5 DEF Ir!InsertTopics, Ir!InsertMembers, Ir!DeleteMembers, Places
  <2>3. topics' \subseteq Ids
    BY <1>3, <1>5, <1>a, <2>1 DEF Ir!InsertTopics, Ir!InsertMembers, Ir!DeleteMembers
  <2>4. \A m \in members' : m \in members \/ m \in Ir!MemberRows(saver[s])
    BY <1>5 DEF Ir!InsertTopics, Ir!InsertMembers, Ir!DeleteMembers
  <2> QED BY <1>2, <1>3, <1>a, <2>1, <2>2, <2>3, <2>4 DEF RowsTyped
<1>6. ASSUME NEW s \in Savers, Ir!DeleteOrphans(s) \/ Ir!Fails(s) \/ Ir!Kill(s)
      PROVE  RowsTyped'
  <2>1. /\ saver[s].pc # "idle" /\ topics' \subseteq topics
        /\ UNCHANGED <<stories, storyMembers, members, votes, saves>>
    BY <1>6 DEF Ir!DeleteOrphans, Ir!Fails, Ir!Kill, Ir!At, Ir!rows
  <2>2. \/ \E place \in Places \ {"idle"} : Ir!Goto(s, place)
        \/ saver' = [saver EXCEPT ![s] = Ir!Idle]
    BY <1>6 DEF Ir!DeleteOrphans, Ir!Fails, Ir!Kill, Places
  <2> QED BY <1>2, <1>a, <2>1, <2>2 DEF RowsTyped
<1>7. CASE Ir!Vote \/ UNCHANGED ofRecords
  <2>1. UNCHANGED <<stories, storyMembers, topics, members, saver, saves>>
    BY <1>7 DEF Ir!Vote, Ir!rows, ofRecords
  <2>2. \A t \in votes' : t \in votes \/ \E m \in members : t = m.topic
    BY <1>7 DEF Ir!Vote, Ir!TopicOfUrl, ofRecords
  <2> QED BY <1>a, <2>1, <2>2 DEF RowsTyped
<1> QED BY <1>1, <1>4, <1>5, <1>6, <1>7 DEF Ir!Next

LEMMA RecordsType ==
  ASSUME RecordsInv, RowsTyped
  PROVE  Ir!TypeOK
<1>1. SaverTypes
  BY DEF RecordsInv
<1>2. \A s \in Savers : saver[s].page \in Ir!Page /\ saver[s].stamp \in 0..saves
  BY <1>1 DEF SaverTypes, SaverRecords
<1>3. \A id \in stories \cup topics \cup votes : id.issue \in Issues /\ id.set \subseteq Urls
  BY DEF RowsTyped, Ids
<1> QED BY <1>2, <1>3 DEF RowsTyped, Ir!TypeOK

(* A behaviour keeps to its part, and every variable of the page, of the   *)
(* holds and of the records has the values its code gives it.              *)
TypesInv ==
  /\ part \in {"page", "holds", "records"}
  /\ part = "page" => PlacesInv
  /\ HoldsInv /\ RecordsInv /\ RowsTyped

LEMMA InitRows == Ir!Init => RowsTyped
<1> SUFFICES ASSUME Ir!Init PROVE RowsTyped
  OBVIOUS
<1>1. \A s \in Savers : saver[s].pc = "idle"
  BY EmptyPage DEF Ir!Init
<1>2. saves = 0 /\ saves \in 0..Saves
  BY BoundsAssumption DEF Ir!Init
<1> QED BY <1>1, <1>2 DEF Ir!Init, RowsTyped

LEMMA PageIsTyped ==
  ASSUME PageTyped
  PROVE  TypeOK
<1>1. ASSUME NEW i \in DOMAIN clusters
      PROVE  clusters[i] # <<>> /\ Range(clusters[i]) \subseteq Positions
  <2>1. clusters[i] \in Seq(Positions) \ {<<>>}
    BY DEF PageTyped
  <2> QED BY <2>1 DEF Range
<1>2. Range(headlines) \subseteq Positions \cup {Unknown}
  BY DEF PageTyped, Range
<1> QED BY <1>1, <1>2 DEF PageTyped, TypeOK

(* Every variable of a run's judging, of the holds and of the records has  *)
(* the values its code gives it.                                           *)
THEOREM JudgingIsTyped == JudgingSpec => []JudgingTypeOK
<1>1. JudgingInit => TypesInv
  BY InitPlaces, InitHolds, InitRecords, InitRows DEF JudgingInit, TypesInv
<1>2. TypesInv /\ [JudgingNext]_all => TypesInv'
  <2> SUFFICES ASSUME TypesInv, [JudgingNext]_all PROVE TypesInv'
    OBVIOUS
  <2>1. [Next]_vars /\ [Vh!Next]_ofHolds /\ [Ir!Next]_ofRecords
    BY PartSteps
  <2>2. part' = part
    BY DEF JudgingNext, all
  <2> QED BY <2>1, <2>2, NextPlaces, NextHolds, NextRecords, NextRows DEF TypesInv
<1>3. TypesInv => JudgingTypeOK
  <2> SUFFICES ASSUME TypesInv PROVE JudgingTypeOK
    OBVIOUS
  <2>1. part = "page" => TypeOK
    BY PageIsTyped DEF TypesInv, PlacesInv
  <2>2. Vh!TypeOK /\ Ir!TypeOK
    BY RecordsType DEF TypesInv, HoldsInv
  <2> QED BY <2>1, <2>2 DEF TypesInv, JudgingTypeOK
<1> QED BY <1>1, <1>2, <1>3, PTL DEF JudgingSpec
=============================================================================
