----------------------------- MODULE DigestRunProofs -----------------------------
(***************************************************************************)
(* Proofs about DigestRun for every set of articles, every bound and every *)
(* combination of faults.  The argument: an article in a stored issue is   *)
(* decided, a run judges only articles no issue holds, and it has decided  *)
(* all of its issue's articles when it stores the issue; the ledger says   *)
(* ok only of a slot whose page is the run's own.                          *)
(***************************************************************************)
EXTENDS DigestRun, TLAPS

(* A stamped row is decided: the stamp and the state are one statement. *)
HumanDecided == \A a \in human : state[a] \in Decided

(* The articles of a stored issue are decided. *)
IssuedDecided == \A i \in DOMAIN issues : \A a \in issues[i] : state[a] \in Decided

(* Until its issue is stored, a run's articles are in no issue. *)
ChosenUnissued ==
  pc \in {"update", "store"} =>
    \A i \in DOMAIN issues : issues[i] \cap chosen = {}

(* What `update_states` has written of the run's issue is decided. *)
ChosenDecided ==
  /\ pc = "update" => \A a \in chosen \ todo : state[a] \in Decided
  /\ pc = "store" => \A a \in chosen : state[a] \in Decided

(* What `update_states` has still to write is undecided, or a human's. *)
TodoPending ==
  pc = "update" => \A a \in todo : a \in human \/ state[a] = "pending"

(* A run under way is of a slot that is not done, and done slots are past. *)
RunNotDone ==
  /\ done \subseteq 1..slot
  /\ pc # "idle" => slot \in 1..Slots /\ slot \notin done

(* From the store on, the stored issue of the run's slot is its own, and   *)
(* so is its page once the run is ok.                                      *)
OwnIssue ==
  /\ pc = "publish" /\ "store" \notin Faults =>
       slot \in DOMAIN issues /\ issues[slot] = chosen
  /\ status = "ok" =>
       /\ pc = "record"
       /\ slot \in DOMAIN site
       /\ "store" \notin Faults => slot \in DOMAIN issues /\ site[slot] = issues[slot]

IInv ==
  /\ TypeOK
  /\ OneIssuePerArticle
  /\ DoneIsPublished
  /\ HumanDecided
  /\ IssuedDecided
  /\ ChosenUnissued
  /\ ChosenDecided
  /\ TodoPending
  /\ RunNotDone
  /\ OwnIssue

-----------------------------------------------------------------------------
LEMMA ReplacedType ==
  ASSUME NEW f \in IssueTables, NEW i \in 1..Slots, NEW v \in SUBSET Articles
  PROVE  Replaced(f, i, v) \in IssueTables
<1> DEFINE D == DOMAIN f \cup {i}
<1>1. PICK E \in SUBSET (1..Slots) : f \in [E -> SUBSET Articles]
  BY DEF IssueTables
<1>2. D \in SUBSET (1..Slots)
  BY <1>1
<1>3. Replaced(f, i, v) \in [D -> SUBSET Articles]
  BY <1>1 DEF Replaced
<1> QED
  BY <1>2, <1>3 DEF IssueTables

LEMMA InitIInv == Init => IInv
<1> SUFFICES ASSUME Init PROVE IInv
  OBVIOUS
<1> USE DEF Init
<1>1. NoIssues \in [{} -> SUBSET Articles]
  BY DEF NoIssues
<1>2. issues \in IssueTables /\ site \in IssueTables
  BY <1>1 DEF IssueTables
<1>3. TypeOK
  BY <1>2, BoundsAssumption DEF TypeOK, Stored, Decided
<1> QED
  BY <1>3 DEF IInv, OneIssuePerArticle, DoneIsPublished, HumanDecided, IssuedDecided,
              ChosenUnissued, ChosenDecided, TodoPending, RunNotDone, OwnIssue,
              NoIssues

LEMMA TableFacts ==
  ASSUME NEW f \in IssueTables
  PROVE  /\ DOMAIN f \subseteq 1..Slots
         /\ \A i \in DOMAIN f : f[i] \subseteq Articles
BY DEF IssueTables

LEMMA NextTypeOK == TypeOK /\ RunNotDone /\ [Next]_vars => TypeOK'
<1> SUFFICES ASSUME TypeOK, RunNotDone, [Next]_vars PROVE TypeOK'
  OBVIOUS
<1> USE DEF store, clock, run, Decided, Stored
<1>1. ASSUME NEW a \in Articles, Arrive(a) PROVE TypeOK'
  BY <1>1 DEF Arrive, TypeOK
<1>2. ASSUME NEW a \in Articles, NEW v \in Decided, Decide(a, v) PROVE TypeOK'
  BY <1>2 DEF Decide, TypeOK
<1>3. CASE DigestHour \/ CatchUp \/ QuietTick
  <2>1. slot' \in 0..Slots /\ hour' \in 0..CatchUpHours
    BY <1>3, BoundsAssumption DEF DigestHour, CatchUp, QuietTick, TypeOK
  <2>2. /\ UNCHANGED <<state, seen, human, issues, site, done>>
        /\ pc' \in {"idle", "republish"} /\ status' \in {"error", status}
        /\ chosen' \in {{}, chosen} /\ todo' \in {{}, todo}
    BY <1>3 DEF DigestHour, CatchUp, QuietTick, StartRun
  <2> QED
    BY <2>1, <2>2 DEF TypeOK
<1>4. CASE Republish
  <2> DEFINE missing == DOMAIN issues \ DOMAIN site
             D == DOMAIN site \cup missing
             new == [i \in D |-> IF i \in missing THEN issues[i] ELSE site[i]]
  <2>1. D \in SUBSET (1..Slots) /\ new \in [D -> SUBSET Articles]
    BY TableFacts DEF TypeOK
  <2>2. new \in IssueTables
    BY <2>1 DEF IssueTables
  <2>3. site' \in IssueTables
    BY <1>4, <2>2 DEF Republish, TypeOK
  <2> QED
    BY <1>4, <2>3 DEF Republish, Goto, TypeOK
<1>5. CASE Fetch
  BY <1>5 DEF Fetch, Goto, TypeOK
<1>6. CASE Judge
  <2>1. PICK judged \in SUBSET Loadable :
          todo' = judged /\ chosen' \in SUBSET judged
    BY <1>6 DEF Judge
  <2>2. Loadable \subseteq Articles
    BY DEF Loadable, Newest
  <2>3. todo' \subseteq Articles /\ chosen' \subseteq Articles
    BY <2>1, <2>2
  <2> QED
    BY <1>6, <2>3 DEF Judge, Goto, TypeOK
<1>7. CASE UpdateChunk
  BY <1>7 DEF UpdateChunk, TypeOK
<1>8. CASE StoreIssue
  <2>1. issues' \in IssueTables
    BY <1>8, ReplacedType DEF StoreIssue, Goto, TypeOK, RunNotDone
  <2> QED
    BY <1>8, <2>1 DEF StoreIssue, Goto, TypeOK
<1>9. CASE Publish \/ PublishFails
  <2>1. Replaced(site, slot, chosen) \in IssueTables
    BY <1>9, ReplacedType DEF Publish, PublishFails, Goto, TypeOK, RunNotDone
  <2>2. site' \in IssueTables
    BY <1>9, <2>1 DEF Publish, PublishFails, TypeOK
  <2> QED
    BY <1>9, <2>2 DEF Publish, PublishFails, Goto, TypeOK
<1>10. CASE NothingPending \/ UpdateFails \/ StoreFails
  BY <1>10 DEF NothingPending, UpdateFails, StoreFails, Goto, TypeOK
<1>11. CASE Record
  <2>1. done' \subseteq 1..Slots
    BY <1>11 DEF Record, TypeOK, RunNotDone
  <2> QED
    BY <1>11, <2>1 DEF Record, End, TypeOK
<1>12. CASE Kill
  BY <1>12 DEF Kill, End, TypeOK
<1>13. CASE UNCHANGED vars
  BY <1>13 DEF vars, TypeOK
<1> QED
  BY <1>1, <1>2, <1>3, <1>4, <1>5, <1>6, <1>7, <1>8, <1>9, <1>10, <1>11, <1>12, <1>13
     DEF Next, Reader

(* The ledger's part of the invariant. *)
LEMMA NextLedger ==
  ASSUME IInv, TypeOK', [Next]_vars
  PROVE  RunNotDone' /\ OwnIssue' /\ DoneIsPublished'
<1> USE DEF store, clock, run
<1>1. ASSUME UNCHANGED <<issues, site, done, slot, pc, chosen, status>>
      PROVE  RunNotDone' /\ OwnIssue' /\ DoneIsPublished'
  BY <1>1 DEF IInv, RunNotDone, OwnIssue, DoneIsPublished
<1>2. CASE Reader \/ QuietTick \/ (\E a \in Articles : Arrive(a)) \/ UNCHANGED vars
  BY <1>1, <1>2 DEF Reader, Decide, QuietTick, Arrive, vars
<1>3. CASE DigestHour \/ CatchUp
  <2>1. /\ UNCHANGED <<issues, site, done>>
        /\ pc' = "republish" /\ status' = "error"
        /\ slot' \in 1..Slots /\ slot' \notin done /\ slot' >= slot
    BY <1>3 DEF DigestHour, CatchUp, StartRun, IInv, TypeOK, RunNotDone
  <2>2. slot \in Nat /\ slot' \in Nat
    BY BoundsAssumption, <2>1 DEF IInv, TypeOK
  <2> QED
    BY <2>1, <2>2 DEF IInv, RunNotDone, OwnIssue, DoneIsPublished
<1>4. CASE Republish
  <2>1. /\ UNCHANGED <<issues, done, slot, chosen, status>>
        /\ pc = "republish" /\ pc' = "fetch"
        /\ \A i \in DOMAIN site : i \in DOMAIN site' /\ site'[i] = site[i]
    BY <1>4 DEF Republish, Goto
  <2> QED
    BY <2>1 DEF IInv, RunNotDone, OwnIssue, DoneIsPublished
<1>5. CASE Fetch \/ NothingPending \/ Judge \/ UpdateChunk \/ UpdateFails
  <2>1. /\ UNCHANGED <<issues, site, done, slot>>
        /\ pc # "idle" /\ pc # "record" /\ pc' # "idle" /\ pc' # "publish"
        /\ status' \in {status, "no_pending"}
    BY <1>5 DEF Fetch, NothingPending, Judge, UpdateChunk, UpdateFails, Goto
  <2> QED
    BY <2>1 DEF IInv, RunNotDone, OwnIssue, DoneIsPublished
<1>6. CASE StoreIssue \/ StoreFails
  <2>1. /\ UNCHANGED <<site, done, slot, chosen, status>>
        /\ pc = "store" /\ pc' = "publish" /\ status # "ok"
        /\ slot \notin done
    BY <1>6 DEF StoreIssue, StoreFails, Goto, IInv, OwnIssue, RunNotDone
  <2>2. /\ \A i \in DOMAIN issues : i # slot => i \in DOMAIN issues' /\ issues'[i] = issues[i]
        /\ "store" \notin Faults => slot \in DOMAIN issues' /\ issues'[slot] = chosen
    <3>1. CASE StoreIssue
      BY <3>1 DEF StoreIssue, Replaced
    <3>2. CASE StoreFails
      BY <3>2 DEF StoreFails
    <3> QED
      BY <1>6, <3>1, <3>2
  <2>3. DoneIsPublished'
    BY <2>1, <2>2 DEF IInv, DoneIsPublished
  <2>4. RunNotDone' /\ OwnIssue'
    BY <2>1, <2>2 DEF IInv, RunNotDone, OwnIssue
  <2> QED
    BY <2>3, <2>4
<1>7. CASE Publish \/ PublishFails
  <2>1. /\ UNCHANGED <<issues, done, slot, chosen>>
        /\ pc = "publish" /\ pc' = "record" /\ slot \notin done
    BY <1>7 DEF Publish, PublishFails, Goto, IInv, RunNotDone
  <2>2. /\ \A i \in DOMAIN site : i # slot => i \in DOMAIN site' /\ site'[i] = site[i]
        /\ status' = "ok" => slot \in DOMAIN site' /\ site'[slot] = chosen
    <3>1. CASE Publish
      BY <3>1 DEF Publish, Replaced
    <3>2. CASE PublishFails
      BY <3>2 DEF PublishFails, Replaced
    <3> QED
      BY <1>7, <3>1, <3>2
  <2>3. DoneIsPublished'
    BY <2>1, <2>2 DEF IInv, DoneIsPublished
  <2>4. RunNotDone' /\ OwnIssue'
    BY <2>1, <2>2 DEF IInv, RunNotDone, OwnIssue
  <2> QED
    BY <2>3, <2>4
<1>8. CASE Record \/ Kill
  <2>1. /\ UNCHANGED <<issues, site, slot>>
        /\ pc # "idle" /\ pc' = "idle" /\ status' = "error"
        /\ done' = done \/ (status = "ok" /\ done' = done \cup {slot})
    <3>1. CASE Record
      BY <3>1 DEF Record, End
    <3>2. CASE Kill
      BY <3>2 DEF Kill, End
    <3> QED
      BY <1>8, <3>1, <3>2
  <2>2. slot \in 1..Slots /\ slot \in 1..slot
    BY <2>1, BoundsAssumption DEF IInv, RunNotDone
  <2>3. RunNotDone'
    BY <2>1, <2>2 DEF IInv, RunNotDone
  <2>4. OwnIssue'
    BY <2>1 DEF OwnIssue
  <2>5. DoneIsPublished'
    BY <2>1 DEF IInv, OwnIssue, DoneIsPublished
  <2> QED
    BY <2>3, <2>4, <2>5
<1> QED
  BY <1>2, <1>3, <1>4, <1>5, <1>6, <1>7, <1>8 DEF Next

(* The articles' part: what is issued is decided, and decided once. *)
LEMMA NextIssues ==
  ASSUME IInv, TypeOK', [Next]_vars
  PROVE  OneIssuePerArticle' /\ HumanDecided' /\ IssuedDecided' /\ ChosenUnissued' /\ ChosenDecided'
<1> USE DEF store, clock, run
<1>1. /\ \A i \in DOMAIN issues : issues[i] \subseteq Articles
      /\ human \subseteq Articles /\ chosen \subseteq Articles /\ todo \subseteq Articles
  BY TableFacts DEF IInv, TypeOK
(* A step that adds no article to an issue or a run, and decides no row    *)
(* back to pending, keeps all of it.                                       *)
<1>2. ASSUME issues' = issues, chosen' = chosen, todo' = todo,
             pc' = pc \/ pc' \notin {"update", "store"},
             \A a \in Articles : state[a] \in Decided => state'[a] \in Decided,
             \A a \in human' : a \in human \/ (a \in Articles /\ state'[a] \in Decided)
      PROVE  /\ OneIssuePerArticle' /\ HumanDecided' /\ IssuedDecided'
             /\ ChosenUnissued' /\ ChosenDecided'
  <2>1. OneIssuePerArticle'
    BY <1>2 DEF IInv, OneIssuePerArticle
  <2>2. HumanDecided'
    BY <1>1, <1>2 DEF IInv, HumanDecided
  <2>3. IssuedDecided'
    BY <1>1, <1>2 DEF IInv, IssuedDecided
  <2>4. ChosenUnissued' /\ ChosenDecided'
    BY <1>1, <1>2 DEF IInv, ChosenUnissued, ChosenDecided
  <2> QED
    BY <2>1, <2>2, <2>3, <2>4
<1>3. CASE (\E a \in Articles : Arrive(a)) \/ Reader \/ UNCHANGED vars
  <2>1. /\ UNCHANGED <<issues, chosen, todo, pc>>
        /\ \A a \in Articles : state[a] \in Decided => state'[a] \in Decided
        /\ \A a \in human' : a \in human \/ (a \in Articles /\ state'[a] \in Decided)
    BY <1>3 DEF Arrive, Reader, Decide, vars, Decided, IInv, TypeOK
  <2> QED
    BY <1>2, <2>1
<1>4. CASE DigestHour \/ CatchUp \/ QuietTick \/ Record \/ Kill
  <2>1. /\ UNCHANGED <<issues, state, human>>
        /\ pc' \notin {"update", "store"}
    BY <1>4 DEF DigestHour, CatchUp, QuietTick, Record, Kill, StartRun, End
  <2> QED
    BY <2>1 DEF IInv, OneIssuePerArticle, HumanDecided, IssuedDecided, ChosenUnissued,
                ChosenDecided
<1>5. CASE Republish \/ NothingPending \/ UpdateFails \/ Publish \/ PublishFails \/ StoreFails
  <2>1. /\ UNCHANGED <<issues, state, human, chosen, todo>>
        /\ pc' \notin {"update", "store"}
    BY <1>5 DEF Republish, NothingPending, UpdateFails, Publish, PublishFails, StoreFails, Goto
  <2> QED
    BY <1>2, <2>1
<1>6. CASE Fetch
  <2>1. /\ UNCHANGED <<issues, human, chosen, todo>>
        /\ pc' \notin {"update", "store"}
        /\ \A a \in Articles : state[a] \in Decided => state'[a] = state[a]
    BY <1>6 DEF Fetch, Goto, Decided
  <2> QED
    BY <1>2, <2>1
<1>7. CASE Judge
  <2>1. /\ UNCHANGED <<issues, state, human>>
        /\ \A a \in chosen' : state[a] \notin Decided
        /\ chosen' \subseteq todo'
        /\ pc' = "store" => todo' = {}
    BY <1>7 DEF Judge, Goto, Loadable, Newest, Decided
  <2>2. OneIssuePerArticle' /\ HumanDecided' /\ IssuedDecided'
    BY <2>1 DEF IInv, OneIssuePerArticle, HumanDecided, IssuedDecided
  <2>3. ChosenUnissued' /\ ChosenDecided'
    BY <2>1 DEF IInv, IssuedDecided, ChosenUnissued, ChosenDecided
  <2> QED
    BY <2>2, <2>3
<1>8. CASE UpdateChunk
  <2>1. PICK chunk \in SUBSET todo :
          /\ UNCHANGED <<issues, human, chosen>>
          /\ pc = "update"
          /\ todo' = todo \ chunk
          /\ pc' = IF todo = chunk THEN "store" ELSE "update"
          /\ \E verdict \in Decided :
               state' = [a \in Articles |->
                           IF a \in chunk /\ a \notin human THEN verdict ELSE state[a]]
    BY <1>8 DEF UpdateChunk, Decided
  <2>2. \A a \in Articles : (state[a] \in Decided \/ a \in chunk) => state'[a] \in Decided
    BY <2>1 DEF IInv, HumanDecided
  <2>3. OneIssuePerArticle' /\ HumanDecided' /\ IssuedDecided'
    BY <1>1, <2>1, <2>2 DEF IInv, OneIssuePerArticle, HumanDecided, IssuedDecided
  <2>4. ChosenUnissued'
    BY <2>1 DEF IInv, ChosenUnissued
  <2>5. \A a \in chosen \ todo' : state'[a] \in Decided
    BY <1>1, <2>1, <2>2 DEF IInv, ChosenDecided
  <2>6. ChosenDecided'
    BY <2>1, <2>5 DEF ChosenDecided
  <2> QED
    BY <2>3, <2>4, <2>6
<1>9. CASE StoreIssue
  <2>1. /\ UNCHANGED <<state, human>>
        /\ pc = "store" /\ pc' = "publish"
        /\ issues' = Replaced(issues, slot, chosen)
    BY <1>9 DEF StoreIssue, Goto
  <2>2. /\ DOMAIN issues' = DOMAIN issues \cup {slot}
        /\ issues'[slot] = chosen
        /\ \A i \in DOMAIN issues : i # slot => issues'[i] = issues[i]
    BY <2>1 DEF Replaced
  <2>3. \A i \in DOMAIN issues : issues[i] \cap chosen = {}
    BY <2>1 DEF IInv, ChosenUnissued
  <2>4. OneIssuePerArticle'
    <3> SUFFICES ASSUME NEW i \in DOMAIN issues', NEW j \in DOMAIN issues', i # j
                 PROVE  issues'[i] \cap issues'[j] = {}
      BY DEF OneIssuePerArticle
    <3> QED
      BY <2>2, <2>3 DEF IInv, OneIssuePerArticle
  <2>5. IssuedDecided'
    BY <2>1, <2>2 DEF IInv, IssuedDecided, ChosenDecided
  <2> QED
    BY <2>1, <2>4, <2>5 DEF IInv, HumanDecided, ChosenUnissued, ChosenDecided
<1> QED
  BY <1>3, <1>4, <1>5, <1>6, <1>7, <1>8, <1>9 DEF Next

(* What is left to write stays undecided but for what a human decides. *)
LEMMA NextTodo ==
  ASSUME IInv, TypeOK', [Next]_vars
  PROVE  TodoPending'
<1> SUFFICES ASSUME pc' = "update", NEW a \in todo'
             PROVE  a \in human' \/ state'[a] = "pending"
  BY DEF TodoPending
<1> USE DEF store, clock, run
<1>1. a \in Articles
  BY DEF TypeOK
<1>2. CASE Judge
  <2>1. a \in Loadable /\ UNCHANGED state
    BY <1>2 DEF Judge
  <2> QED
    BY <2>1 DEF Loadable, Newest
<1>3. CASE UpdateChunk
  <2>1. PICK chunk \in SUBSET todo :
          /\ pc = "update" /\ UNCHANGED human
          /\ todo' = todo \ chunk
          /\ \E verdict \in Decided :
               state' = [b \in Articles |->
                           IF b \in chunk /\ b \notin human THEN verdict ELSE state[b]]
    BY <1>3 DEF UpdateChunk, Decided
  <2>2. state'[a] = state[a]
    BY <1>1, <2>1
  <2> QED
    BY <2>1, <2>2 DEF IInv, TodoPending
<1>4. CASE (\E b \in Articles : Arrive(b)) \/ UNCHANGED vars
  <2>1. /\ UNCHANGED <<pc, todo, human>>
        /\ state[a] = "pending" => state'[a] = "pending"
    BY <1>1, <1>4 DEF Arrive, vars, IInv, TypeOK
  <2> QED
    BY <2>1 DEF IInv, TodoPending
<1>5. CASE Reader
  <2>1. PICK b \in Articles, v \in Decided : Decide(b, v)
    BY <1>5 DEF Reader
  <2>2. UNCHANGED <<pc, todo>> /\ human' = human \cup {b}
    BY <2>1 DEF Decide
  <2>3. a # b => state'[a] = state[a]
    BY <1>1, <2>1 DEF Decide, IInv, TypeOK
  <2> QED
    BY <2>2, <2>3 DEF IInv, TodoPending
<1>6. CASE QuietTick
  BY <1>6 DEF QuietTick, IInv, TodoPending
<1>7. CASE DigestHour \/ CatchUp \/ Republish \/ Fetch \/ NothingPending \/ UpdateFails
  BY <1>7 DEF DigestHour, CatchUp, StartRun, Republish, Fetch, NothingPending, UpdateFails, Goto
<1>8. CASE StoreIssue \/ StoreFails \/ Publish \/ PublishFails \/ Record \/ Kill
  BY <1>8 DEF StoreIssue, StoreFails, Publish, PublishFails, Record, Kill, End, Goto
<1> QED
  BY <1>2, <1>3, <1>4, <1>5, <1>6, <1>7, <1>8 DEF Next

LEMMA Invariance == Spec => []IInv
<1>1. Init => IInv
  BY InitIInv
<1>2. IInv /\ [Next]_vars => IInv'
  <2> SUFFICES ASSUME IInv, [Next]_vars PROVE IInv'
    OBVIOUS
  <2>1. TypeOK'
    BY NextTypeOK DEF IInv
  <2> QED
    BY <2>1, NextLedger, NextIssues, NextTodo DEF IInv
<1> QED
  BY <1>1, <1>2, PTL DEF Spec

-----------------------------------------------------------------------------
(* The theorems. *)

(* The variables keep their types. *)
THEOREM TypeCorrect == Spec => []TypeOK
<1>1. IInv => TypeOK
  BY DEF IInv
<1> QED
  BY <1>1, Invariance, PTL

(* No article is digested twice: whatever fails, is killed or is retried,  *)
(* no two stored issues share an article.                                  *)
THEOREM NoArticleTwice == Spec => []OneIssuePerArticle
<1>1. IInv => OneIssuePerArticle
  BY DEF IInv
<1> QED
  BY <1>1, Invariance, PTL

(* An ok row in the ledger means a page, and the page of the stored issue. *)
THEOREM OkMeansPublished == Spec => []DoneIsPublished
<1>1. IInv => DoneIsPublished
  BY DEF IInv
<1> QED
  BY <1>1, Invariance, PTL

(* Only the reader changes a decision, the reader's own or a run's. *)
THEOREM OnlyReadersOverrule == Spec => DecisionStands
<1> DEFINE Stands == \A a \in Articles :
                       state[a] \in Decided /\ state'[a] # state[a] => Reader
<1>1. IInv /\ [Next]_vars => Stands
  <2> SUFFICES ASSUME IInv, [Next]_vars, NEW a \in Articles,
                      state[a] \in Decided, state'[a] # state[a]
               PROVE  Reader
    OBVIOUS
  <2> USE DEF store, clock, run
  <2>1. CASE UpdateChunk
    <3>1. PICK chunk \in SUBSET todo :
            /\ pc = "update"
            /\ \E verdict \in Decided :
                 state' = [b \in Articles |->
                             IF b \in chunk /\ b \notin human THEN verdict ELSE state[b]]
      BY <2>1 DEF UpdateChunk, Decided
    <3>2. a \in chunk /\ a \notin human
      BY <3>1
    <3>3. state[a] = "pending"
      BY <3>1, <3>2 DEF IInv, TodoPending
    <3> QED
      BY <3>3 DEF Decided
  <2>2. CASE Fetch
    <3>1. state'[a] = state[a] \/ state[a] = "buffered"
      BY <2>2 DEF Fetch
    <3> QED
      BY <3>1 DEF Decided
  <2>3. ASSUME NEW b \in Articles, Arrive(b) PROVE FALSE
    BY <2>3 DEF Arrive, Decided, IInv, TypeOK
  <2>4. CASE DigestHour \/ CatchUp \/ QuietTick \/ Republish \/ Judge \/ NothingPending
    BY <2>4 DEF DigestHour, CatchUp, QuietTick, Republish, Judge, NothingPending
  <2>5. CASE UpdateFails \/ StoreIssue \/ StoreFails \/ Publish \/ PublishFails \/ Record
    BY <2>5 DEF UpdateFails, StoreIssue, StoreFails, Publish, PublishFails, Record
  <2>6. CASE Kill \/ UNCHANGED vars
    BY <2>6 DEF Kill, vars
  <2> QED
    BY <2>1, <2>2, <2>3, <2>4, <2>5, <2>6 DEF Next
<1> QED
  BY <1>1, Invariance, PTL DEF Spec, DecisionStands

(* What the ledger calls ok is never rewritten: a run is only ever of a    *)
(* slot that is not done, and a republish adds pages and changes none.     *)
THEOREM DoneStays == Spec => DoneIsFinal
<1> DEFINE Final ==
      \A i \in done :
        /\ i \in DOMAIN site /\ i \in DOMAIN site' /\ site'[i] = site[i]
        /\ i \in DOMAIN issues => i \in DOMAIN issues' /\ issues'[i] = issues[i]
<1>1. IInv /\ [Next]_vars => Final
  <2> SUFFICES ASSUME IInv, [Next]_vars, NEW i \in done PROVE
                 /\ i \in DOMAIN site' /\ site'[i] = site[i]
                 /\ i \in DOMAIN issues => i \in DOMAIN issues' /\ issues'[i] = issues[i]
    BY DEF IInv, DoneIsPublished
  <2> USE DEF store, clock, run
  <2>1. i \in DOMAIN site /\ (pc # "idle" => i # slot)
    BY DEF IInv, DoneIsPublished, RunNotDone
  <2>2. CASE StoreIssue
    BY <2>1, <2>2 DEF StoreIssue, Replaced, Goto
  <2>3. CASE Publish \/ PublishFails
    BY <2>1, <2>3 DEF Publish, PublishFails, Replaced, Goto
  <2>4. CASE Republish
    BY <2>1, <2>4 DEF Republish
  <2>5. CASE (\E a \in Articles : Arrive(a)) \/ Reader \/ UNCHANGED vars
    BY <2>1, <2>5 DEF Arrive, Reader, Decide, vars
  <2>6. CASE DigestHour \/ CatchUp \/ QuietTick \/ Fetch \/ Judge \/ NothingPending
    BY <2>1, <2>6 DEF DigestHour, CatchUp, QuietTick, Fetch, Judge, NothingPending
  <2>7. CASE UpdateChunk \/ UpdateFails \/ StoreFails \/ Record \/ Kill
    BY <2>1, <2>7 DEF UpdateChunk, UpdateFails, StoreFails, Record, Kill
  <2> QED
    BY <2>2, <2>3, <2>4, <2>5, <2>6, <2>7 DEF Next
<1> QED
  BY <1>1, Invariance, PTL DEF Spec, DoneIsFinal

-----------------------------------------------------------------------------
(* When a slot has one run, and none is cut short in its writes.           *)

(* A run's slot is its own until it stores its issue, and its page until   *)
(* it publishes.                                                           *)
SlotIsFresh ==
  /\ DOMAIN issues \subseteq 1..slot /\ DOMAIN site \subseteq 1..slot
  /\ pc \in {"republish", "fetch", "load", "update", "store"} => slot \notin DOMAIN issues
  /\ pc \in {"republish", "fetch", "load", "update", "store", "publish"} => slot \notin DOMAIN site

(* The article is on the site, or in an issue the next run publishes. *)
Reached(a) ==
  \/ \E i \in DOMAIN site : a \in site[i]
  \/ \E i \in DOMAIN issues \ DOMAIN site : a \in issues[i]

(* What a run accepted has reached the reader, or is the run's to store. *)
AcceptedHeld ==
  \A a \in Articles : state[a] = "accepted" /\ a \notin human =>
    Reached(a) \/ (pc \in {"update", "store"} /\ a \in chosen)

WritesSucceed == Faults \cap {"kill", "update", "store"} = {} /\ CatchUpHours <= 1

LEMMA NextReached ==
  ASSUME WritesSucceed, IInv, SlotIsFresh, AcceptedHeld, [Next]_vars
  PROVE  SlotIsFresh' /\ AcceptedHeld'
<1> USE DEF store, clock, run
<1>1. slot \in Nat /\ hour \in Nat /\ CatchUpHours \in Nat
  BY BoundsAssumption DEF IInv, TypeOK
<1>2. ~CatchUp /\ ~UpdateFails /\ ~StoreFails /\ ~Kill
  BY <1>1 DEF WritesSucceed, CatchUp, UpdateFails, StoreFails, Kill
(* What leaves the tables alone and accepts nothing. *)
<1>3. ASSUME UNCHANGED <<issues, site, slot>>,
             \A a \in Articles : state'[a] = "accepted" /\ a \notin human' =>
               state[a] = "accepted" /\ a \notin human,
             \/ pc' = pc /\ chosen' = chosen
             \/ pc' \notin {"republish", "publish"} /\ pc \notin {"update", "store"}
             \/ pc' = "record"
             \/ pc' = "idle",
             pc' \in {"fetch", "load", "update", "store"} =>
               pc \in {"republish", "fetch", "load", "update", "store"},
             pc' \in {"record", "idle"} => pc \notin {"update", "store"}
      PROVE  SlotIsFresh' /\ AcceptedHeld'
  <2>1. SlotIsFresh'
    BY <1>3 DEF SlotIsFresh
  <2>2. \A a \in Articles : Reached(a)' <=> Reached(a)
    BY <1>3 DEF Reached
  <2> QED BY <1>3, <2>1, <2>2 DEF AcceptedHeld
<1>4. CASE (\E a \in Articles : Arrive(a)) \/ Reader \/ UNCHANGED vars
  <2>1. /\ UNCHANGED <<issues, site, slot, pc, chosen>>
        /\ \A a \in Articles : state'[a] = "accepted" /\ a \notin human' =>
               state[a] = "accepted" /\ a \notin human
    BY <1>4 DEF Arrive, Reader, Decide, vars, IInv, TypeOK
  <2> QED BY <1>3, <2>1 DEF SlotIsFresh
<1>5. CASE DigestHour
  <2>1. /\ UNCHANGED <<issues, site, state, human>> /\ slot' = slot + 1
        /\ pc = "idle" /\ pc' = "republish"
    BY <1>5 DEF DigestHour, StartRun
  <2>2. slot' \notin 1..slot /\ 1..slot \subseteq 1..slot'
    BY <1>1, <2>1
  <2>3. SlotIsFresh'
    BY <2>1, <2>2 DEF SlotIsFresh
  <2>4. AcceptedHeld'
    BY <2>1 DEF AcceptedHeld, Reached
  <2> QED BY <2>3, <2>4
<1>6. CASE QuietTick
  BY <1>3, <1>6 DEF QuietTick, SlotIsFresh
<1>7. CASE Republish
  <2> DEFINE missing == DOMAIN issues \ DOMAIN site
  <2>1. /\ pc = "republish" /\ pc' = "fetch" /\ UNCHANGED <<issues, slot, state, human>>
        /\ \/ site' = [i \in DOMAIN site \cup missing |->
                         IF i \in missing THEN issues[i] ELSE site[i]]
           \/ site' = site
    BY <1>7 DEF Republish, Goto
  <2>2. SlotIsFresh'
    BY <2>1 DEF SlotIsFresh
  <2>3. ASSUME NEW a \in Articles, Reached(a) PROVE Reached(a)'
    BY <2>1, <2>3 DEF Reached
  <2> QED BY <2>1, <2>2, <2>3 DEF AcceptedHeld
<1>8. CASE Fetch
  <2>1. /\ UNCHANGED <<issues, site, slot, human, chosen>> /\ pc = "fetch" /\ pc' = "load"
        /\ \A a \in Articles : state'[a] = "accepted" => state[a] = "accepted"
    BY <1>8 DEF Fetch, Goto
  <2> QED BY <1>3, <2>1
<1>9. CASE Judge
  <2>1. /\ UNCHANGED <<issues, site, slot, human, state>> /\ pc = "load" /\ pc' \in {"store", "update"}
    BY <1>9 DEF Judge, Goto
  <2> QED BY <1>3, <2>1
<1>10. CASE NothingPending
  BY <1>3, <1>10 DEF NothingPending, Goto
<1>11. CASE UpdateChunk
  <2>1. PICK chunk \in SUBSET todo :
          /\ pc = "update" /\ pc' \in {"store", "update"} /\ UNCHANGED <<issues, site, slot, human, chosen>>
          /\ \/ /\ chunk \subseteq chosen
                /\ state' = [a \in Articles |->
                               IF a \in chunk /\ a \notin human THEN "accepted" ELSE state[a]]
             \/ state' = [a \in Articles |->
                            IF a \in chunk /\ a \notin human THEN "rejected" ELSE state[a]]
    BY <1>11 DEF UpdateChunk
  <2>2. SlotIsFresh'
    BY <2>1 DEF SlotIsFresh
  <2>3. \A a \in Articles : state'[a] = "accepted" /\ a \notin human =>
          state[a] = "accepted" \/ a \in chosen
    BY <2>1
  <2>4. \A a \in Articles : Reached(a)' <=> Reached(a)
    BY <2>1 DEF Reached
  <2> QED BY <2>1, <2>2, <2>3, <2>4 DEF AcceptedHeld
<1>12. CASE StoreIssue
  <2>1. /\ pc = "store" /\ pc' = "publish" /\ UNCHANGED <<site, slot, state, human, chosen>>
        /\ DOMAIN issues' = DOMAIN issues \cup {slot} /\ issues'[slot] = chosen
        /\ \A i \in DOMAIN issues : i # slot => issues'[i] = issues[i]
    BY <1>12 DEF StoreIssue, Goto, Replaced
  <2>2. slot \in 1..slot /\ slot \notin DOMAIN issues /\ slot \notin DOMAIN site
    BY <1>1, <2>1 DEF SlotIsFresh, IInv, RunNotDone
  <2>3. SlotIsFresh'
    BY <2>1, <2>2 DEF SlotIsFresh
  <2>4. ASSUME NEW a \in Articles, Reached(a) \/ a \in chosen PROVE Reached(a)'
    BY <2>1, <2>2, <2>4 DEF Reached
  <2> QED BY <2>1, <2>3, <2>4 DEF AcceptedHeld
<1>13. CASE Publish \/ PublishFails
  <2>1. /\ pc = "publish" /\ pc' = "record" /\ UNCHANGED <<issues, slot, state, human>>
        /\ \/ site' = site
           \/ site' = Replaced(site, slot, chosen)
    BY <1>13 DEF Publish, PublishFails, Goto
  <2>2. slot \in 1..slot /\ slot \notin DOMAIN site /\ slot \in DOMAIN issues /\ issues[slot] = chosen
    BY <1>1, <2>1 DEF SlotIsFresh, IInv, RunNotDone, OwnIssue, WritesSucceed
  <2>3. CASE site' = site
    BY <2>1, <2>3 DEF SlotIsFresh, AcceptedHeld, Reached
  <2>4. CASE site' = Replaced(site, slot, chosen)
    <3>1. /\ DOMAIN site' = DOMAIN site \cup {slot} /\ site'[slot] = issues[slot]
          /\ \A i \in DOMAIN site : site'[i] = site[i]
      BY <2>2, <2>4 DEF Replaced
    <3>2. ASSUME NEW a \in Articles, Reached(a) PROVE Reached(a)'
      BY <2>1, <3>1, <3>2 DEF Reached
    <3>3. SlotIsFresh'
      BY <2>1, <2>2, <3>1 DEF SlotIsFresh
    <3> QED BY <2>1, <3>2, <3>3 DEF AcceptedHeld
  <2> QED BY <2>1, <2>3, <2>4
<1>14. CASE Record
  BY <1>3, <1>14 DEF Record, End
<1> QED
  BY <1>2, <1>4, <1>5, <1>6, <1>7, <1>8, <1>9, <1>10, <1>11, <1>12, <1>13, <1>14 DEF Next

(* An article a run accepted is on the site or in an issue the next run    *)
(* publishes, however fetches, publishes and ledger rows fail, as long as  *)
(* no run is cut short in its writes and no catch-up stores over its issue *)
(* (run_digest.py, `_republish_missing`).  digest_crash and                *)
(* digest_catch_up show that neither can be left out.                      *)
THEOREM AcceptedAreShown ==
  ASSUME WritesSucceed
  PROVE  Spec => []AcceptedReachesReader
<1>1. Init => SlotIsFresh /\ AcceptedHeld
  BY DEF Init, SlotIsFresh, AcceptedHeld, NoIssues
<1>2. IInv /\ SlotIsFresh /\ AcceptedHeld /\ [Next]_vars => SlotIsFresh' /\ AcceptedHeld'
  BY NextReached
<1>3. AcceptedHeld => AcceptedReachesReader
  BY DEF AcceptedHeld, Reached, AcceptedReachesReader
<1> QED
  BY <1>1, <1>2, <1>3, Invariance, PTL DEF Spec
=============================================================================
