------------------------------ MODULE IntakeProofs ------------------------------
(***************************************************************************)
(* What reaches a run and when one starts, for every value of the          *)
(* constants.                                                              *)
(*                                                                         *)
(* The RSS buffer, for any feeds, polls, digest times and lengths that fit *)
(* each other: no entry slips between the windows but by a fault, and none *)
(* comes back but by a new date (RssBuffer).                               *)
(*                                                                         *)
(* The ticks, for any publish hours, clock and window of catching up: the  *)
(* issue the wizard left stands, and a row passes for no other run's       *)
(* (Calendar).  Both rest on what `first_issue_key` is, the latest publish *)
(* hour that has begun, and on the hour a run, a plan and a wait are of.   *)
(*                                                                         *)
(* The newsletter queue, for any mails, links, deliveries and runs: each   *)
(* issue is stored once (NewsletterQueue).  It rests on the merge of a     *)
(* fetch, which keeps an article of every issue, and on what the rows of   *)
(* the store are.                                                          *)
(***************************************************************************)
EXTENDS MCIntake, FiniteSetTheorems, SequenceTheorems, WellFoundedInduction, TLAPS

-----------------------------------------------------------------------------
(* The invariants. *)

(* A poll is over before PollLimit is, and what it has to write is not     *)
(* past the retention it saw.                                              *)
PollsInTime ==
  \A p \in Pollers :
    /\ poll[p].pc # "idle" =>
         poll[p].stamp \in Time /\ poll[p].stamp <= now /\ now <= poll[p].stamp + PollLimit
    /\ poll[p].pc = "write" =>
         /\ poll[p].cutoff \in Time /\ poll[p].cutoff <= Cutoff(now)
         /\ \A r \in poll[p].rows : r[2] >= poll[p].cutoff

RunInItsHour == run.before <= now /\ (run.pc # "idle" => run.before = now)

EnteredFirst == \A e \in Entries : buffer[e] # Never => entered[e] # Never

(* The run of d is still to read the entry, or has it in hand.             *)
ToRead(e, d) ==
  \/ d > now
  \/ d = now /\ run.before # now
  \/ d = now /\ run.pc = "read"
  \/ d = now /\ run.pc = "save" /\ e \in run.read

(* An entry that is neither saved nor excused is in the buffer, and every  *)
(* digest that must find it is still to come; or the digests are over.     *)
StillToRead ==
  \A e \in Entries :
    entered[e] # Never /\ e \notin saved \cup excused =>
      IF buffer[e] = Never
        THEN Ahead(now) = {}
        ELSE \A d \in DigestTimes :
               buffer[e] + PollLimit < d /\ d <= buffer[e] + Window => ToRead(e, d)

SlipInv == TypeOK /\ PollsInTime /\ RunInItsHour /\ EnteredFirst /\ StillToRead

(* An entry that no feed has dated anew has the stamp it came with; and    *)
(* once it is pruned, nothing a poll will write of it is older than that.  *)
AsItCame ==
  \A e \in Entries \ ahead :
    /\ buffer[e] # Never => buffer[e] = entered[e]
    /\ buffer[e] = Never /\ entered[e] # Never =>
         /\ entered[e] < Cutoff(now)
         /\ \A p \in Pollers :
              poll[p].pc = "write" /\ ~poll[p].overtaken => poll[p].cutoff > entered[e]

(* What a run has read came before it, inside its window.                  *)
ReadInWindow ==
  run.pc = "save" =>
    \A e \in run.read \ ahead :
      entered[e] # Never /\ entered[e] < now /\ now <= entered[e] + Window

(* Rows are younger than their entry, and there is one as long as a window *)
(* may reach the entry.                                                    *)
RowsFollow ==
  /\ \A r \in rows : r[1] \notin ahead => entered[r[1]] # Never /\ entered[r[1]] < r[2] /\ r[2] <= now
  /\ \A e \in saved \ ahead :
       entered[e] # Never /\ (now <= entered[e] + Window => \E r \in rows : r[1] = e)

ReturnInv == SlipInv /\ AsItCame /\ ReadInWindow /\ RowsFollow

-----------------------------------------------------------------------------
(* A step of the intake is one of each part, or leaves it alone. *)
LEMMA PartSteps ==
  ASSUME [IntakeNext]_all
  PROVE  [Next]_vars
<1>1. CASE part = "feeds" /\ Next /\ UNCHANGED <<part, ofLetters, ofClock>>
  BY <1>1
<1>2. CASE part = "letters" /\ Nl!Next /\ UNCHANGED <<part, vars, ofClock>>
  BY <1>2
<1>3. CASE part = "clock" /\ Cal!Next /\ UNCHANGED <<part, vars, ofLetters>>
  BY <1>3
<1>4. CASE UNCHANGED all
  BY <1>4 DEF all
<1> QED BY <1>1, <1>2, <1>3, <1>4 DEF IntakeNext

-----------------------------------------------------------------------------
(* Times and types. *)

PollRecords ==
  [pc : {"idle", "fetch", "write"}, stamp : {Never} \cup Time, cutoff : {Never} \cup Time,
   rows : SUBSET (Entries \X Time), overtaken : BOOLEAN]

LEMMA Times ==
  /\ Time \subseteq Nat /\ 0 \in Time /\ Never \notin Time /\ {Never} \cup Time \subseteq Int
  /\ \A t \in Time : Cutoff(t) \in Time /\ (Cutoff(t) = 0 \/ Cutoff(t) = t - Retention)
  /\ \A t, w \in Time : t <= w => Cutoff(t) <= Cutoff(w)
<1>1. Horizon \in Nat /\ Retention \in Nat
  BY LengthsAssumption
<1> QED BY <1>1 DEF Time, Never, Cutoff

LEMMA IdlePollTyped == IdlePoll \in PollRecords /\ IdlePoll.pc = "idle"
BY DEF IdlePoll, PollRecords

LEMMA InitSlip == ASSUME Init PROVE ReturnInv
<1>1. /\ now = 0 /\ buffer = [e \in Entries |-> Never] /\ poll = [p \in Pollers |-> IdlePoll]
      /\ rows = {} /\ run = IdleRun /\ crashes = 0 /\ entered = [e \in Entries |-> Never]
      /\ saved = {} /\ excused = {} /\ ahead = {} /\ backend \in {"d1", "json"}
  BY DEF Init
<1>2. run.pc = "idle" /\ run.before = Never /\ run \in [pc : {"idle", "read", "save"},
          before : {Never} \cup Time, read : SUBSET Entries]
  BY <1>1 DEF IdleRun
<1>3. poll \in [Pollers -> PollRecords] /\ \A p \in Pollers : poll[p].pc = "idle"
  BY <1>1, IdlePollTyped
<1>4. TypeOK
  BY <1>1, <1>2, <1>3, Times, LengthsAssumption DEF TypeOK, PollRecords
<1>5. Never <= 0
  BY DEF Never
<1>6. PollsInTime /\ RunInItsHour /\ EnteredFirst /\ StillToRead
  BY <1>1, <1>2, <1>3, <1>5 DEF PollsInTime, RunInItsHour, EnteredFirst, StillToRead
<1>7. AsItCame /\ ReadInWindow /\ RowsFollow
  BY <1>1, <1>2 DEF AsItCame, ReadInWindow, RowsFollow
<1> QED BY <1>4, <1>6, <1>7 DEF ReturnInv, SlipInv

(* The poller whose poll changes. *)
LEMMA OnePoll ==
  ASSUME poll \in [Pollers -> PollRecords], NEW p \in Pollers, NEW q \in PollRecords,
         poll' = [poll EXCEPT ![p] = q]
  PROVE  /\ poll' \in [Pollers -> PollRecords] /\ poll'[p] = q
         /\ \A r \in Pollers : r # p => poll'[r] = poll[r]
OBVIOUS

(* When only the polls move, nothing is entered, read or saved.            *)
LEMMA PollsMove ==
  ASSUME ReturnInv, UNCHANGED <<now, buffer, rows, backend, run, crashes, history>>,
         poll' \in [Pollers -> PollRecords]
  PROVE  /\ TypeOK' /\ StillToRead' /\ RunInItsHour' /\ EnteredFirst'
         /\ ReadInWindow' /\ RowsFollow'
<1>1. UNCHANGED <<entered, saved, excused, ahead>>
  BY DEF history
<1>2. TypeOK'
  BY <1>1 DEF ReturnInv, SlipInv, TypeOK, PollRecords
<1>3. StillToRead'
  BY <1>1 DEF ReturnInv, SlipInv, StillToRead, ToRead, Ahead
<1>4. RunInItsHour' /\ EnteredFirst'
  BY <1>1 DEF ReturnInv, SlipInv, RunInItsHour, EnteredFirst
<1>5. ReadInWindow' /\ RowsFollow'
  BY <1>1 DEF ReturnInv, ReadInWindow, RowsFollow
<1> QED BY <1>2, <1>3, <1>4, <1>5

LEMMA PollTyped ==
  ASSUME ReturnInv
  PROVE  /\ poll \in [Pollers -> PollRecords] /\ now \in Time
         /\ buffer \in [Entries -> {Never} \cup Time] /\ entered \in [Entries -> {Never} \cup Time]
BY DEF ReturnInv, SlipInv, TypeOK, PollRecords

LEMMA PollStartStep ==
  ASSUME ReturnInv, NEW p \in Pollers, PollStart(p)
  PROVE  ReturnInv'
<1> DEFINE q == [IdlePoll EXCEPT !.pc = "fetch", !.stamp = now]
<1>1. poll' = [poll EXCEPT ![p] = q] /\ UNCHANGED <<now, buffer, rows, backend, run, crashes, history>>
  BY DEF PollStart
<1>2. q \in PollRecords /\ q.pc = "fetch" /\ q.stamp = now
  BY PollTyped DEF IdlePoll, PollRecords
<1>3. /\ poll' \in [Pollers -> PollRecords] /\ poll'[p].pc = "fetch" /\ poll'[p].stamp = now
      /\ \A r \in Pollers : r # p => poll'[r] = poll[r]
  BY <1>1, <1>2, PollTyped, OnePoll
<1>4. PollsInTime'
  <2>1. now \in Time /\ now <= now /\ now <= now + PollLimit
    BY PollTyped, Times, LengthsAssumption
  <2> QED BY <1>1, <1>3, <2>1 DEF ReturnInv, SlipInv, PollsInTime
<1>5. AsItCame'
  BY <1>1, <1>3 DEF ReturnInv, AsItCame, history
<1> QED BY <1>1, <1>3, <1>4, <1>5, PollsMove DEF ReturnInv, SlipInv

LEMMA PollFetchedStep ==
  ASSUME ReturnInv, NEW p \in Pollers, PollFetched(p)
  PROVE  ReturnInv'
<1>0. PICK listed \in SUBSET Entries : \E date \in [listed -> Time] :
        /\ poll[p].pc = "fetch"
        /\ poll' = [poll EXCEPT ![p] =
                      [@ EXCEPT !.pc = "write", !.cutoff = Cutoff(now),
                                !.rows = Fresh({<<e, date[e]>> : e \in listed}, Cutoff(now))]]
        /\ UNCHANGED <<now, buffer, rows, backend, run, crashes, history>>
  BY DEF PollFetched
<1>1. PICK date \in [listed -> Time] :
        /\ poll[p].pc = "fetch"
        /\ poll' = [poll EXCEPT ![p] =
                      [@ EXCEPT !.pc = "write", !.cutoff = Cutoff(now),
                                !.rows = Fresh({<<e, date[e]>> : e \in listed}, Cutoff(now))]]
        /\ UNCHANGED <<now, buffer, rows, backend, run, crashes, history>>
  BY <1>0
<1>2. Cutoff(now) \in Time
  BY PollTyped, Times
<1> DEFINE new == Fresh({<<e, date[e]>> : e \in listed}, Cutoff(now))
<1>3. new \subseteq Entries \X Time /\ \A r \in new : r[2] >= Cutoff(now)
  BY DEF Fresh
<1> HIDE DEF new
<1> DEFINE q == [poll[p] EXCEPT !.pc = "write", !.cutoff = Cutoff(now), !.rows = new]
<1>4. /\ q \in PollRecords /\ q.pc = "write" /\ q.stamp = poll[p].stamp /\ q.cutoff = Cutoff(now)
      /\ q.rows = new
  <2>1. poll[p] \in PollRecords
    BY PollTyped
  <2> QED BY <1>2, <1>3, <2>1 DEF PollRecords
<1>5. poll' = [poll EXCEPT ![p] = q]
  BY <1>1, PollTyped DEF new
<1> HIDE DEF q
<1>6. /\ poll' \in [Pollers -> PollRecords] /\ poll'[p] = q
      /\ \A r \in Pollers : r # p => poll'[r] = poll[r]
  BY <1>4, <1>5, PollTyped, OnePoll
<1>7. PollsInTime'
  <2>1. PICK c \in Time : c = Cutoff(now)
    BY <1>2
  <2>2. now' = now /\ Cutoff(now)' = c /\ c <= c
    BY <1>1, <2>1, Times DEF Cutoff
  <2>3. /\ poll'[p].pc # "idle" /\ poll'[p].stamp = poll[p].stamp /\ poll'[p].cutoff = c
        /\ \A r \in poll'[p].rows : r[2] >= c
    BY <1>3, <1>4, <1>6, <2>1
  <2>4. poll[p].stamp \in Time /\ poll[p].stamp <= now /\ now <= poll[p].stamp + PollLimit
    BY <1>1 DEF ReturnInv, SlipInv, PollsInTime
  <2>5. \A r \in Pollers : r # p =>
          /\ poll'[r].pc # "idle" => poll'[r].stamp \in Time /\ poll'[r].stamp <= now /\ now <= poll'[r].stamp + PollLimit
          /\ poll'[r].pc = "write" =>
               /\ poll'[r].cutoff \in Time /\ poll'[r].cutoff <= c
               /\ \A x \in poll'[r].rows : x[2] >= poll'[r].cutoff
    BY <1>6, <2>1 DEF ReturnInv, SlipInv, PollsInTime
  <2> QED BY <2>2, <2>3, <2>4, <2>5 DEF PollsInTime
<1>8. AsItCame'
  BY <1>1, <1>4, <1>6 DEF ReturnInv, AsItCame, history, Cutoff
<1> QED BY <1>1, <1>6, <1>7, <1>8, PollsMove DEF ReturnInv, SlipInv

LEMMA PollDiesStep ==
  ASSUME ReturnInv, NEW p \in Pollers, PollDies(p)
  PROVE  ReturnInv'
<1>1. poll' = [poll EXCEPT ![p] = IdlePoll] /\ UNCHANGED <<now, buffer, rows, backend, run, crashes, history>>
  BY DEF PollDies
<1>2. /\ poll' \in [Pollers -> PollRecords] /\ poll'[p].pc = "idle"
      /\ \A r \in Pollers : r # p => poll'[r] = poll[r]
  BY <1>1, PollTyped, IdlePollTyped, OnePoll
<1>3. PollsInTime'
  BY <1>1, <1>2 DEF ReturnInv, SlipInv, PollsInTime, Cutoff
<1>4. AsItCame'
  BY <1>1, <1>2 DEF ReturnInv, AsItCame, history, Cutoff
<1> QED BY <1>1, <1>2, <1>3, <1>4, PollsMove DEF ReturnInv, SlipInv

(* The other parts of TypeOK. *)
LEMMA RunTyped ==
  ASSUME ReturnInv
  PROVE  /\ run.pc \in {"idle", "read", "save"} /\ run.before \in {Never} \cup Time
         /\ run.read \subseteq Entries /\ rows \subseteq Entries \X Time
         /\ run \in [pc : {"idle", "read", "save"}, before : {Never} \cup Time, read : SUBSET Entries]
         /\ crashes \in 0..Crashes /\ backend \in {"d1", "json"}
         /\ saved \subseteq Entries /\ excused \subseteq Entries /\ ahead \subseteq Entries
BY DEF ReturnInv, SlipInv, TypeOK

LEMMA TickStep ==
  ASSUME ReturnInv, Tick
  PROVE  ReturnInv'
<1>1. /\ now' = now + 1 /\ now < Horizon /\ run.pc = "idle"
      /\ (now \in DigestTimes => run.before = now)
      /\ UNCHANGED <<buffer, poll, rows, backend, run, crashes, entered, saved, excused, ahead>>
      /\ \A p \in Pollers : poll[p].pc # "idle" => now < poll[p].stamp + PollLimit
  BY DEF Tick, history
<1>2. now \in Nat /\ now' \in Time /\ now' > now /\ Horizon \in Nat /\ Window \in Nat
  BY <1>1, PollTyped, LengthsAssumption DEF Time
<1>3. TypeOK'
  BY <1>1, <1>2 DEF ReturnInv, SlipInv, TypeOK
<1>4. PICK c \in Time, cc \in Time : c = Cutoff(now) /\ cc = Cutoff(now') /\ c <= cc
  BY <1>2, PollTyped, Times
<1>5. Cutoff(now)' = cc
  BY <1>4 DEF Cutoff
<1>6. PollsInTime'
  <2> SUFFICES ASSUME NEW p \in Pollers
               PROVE  /\ poll[p].pc # "idle" =>
                           poll[p].stamp \in Time /\ poll[p].stamp <= now' /\ now' <= poll[p].stamp + PollLimit
                      /\ poll[p].pc = "write" =>
                           /\ poll[p].cutoff \in Time /\ poll[p].cutoff <= cc
                           /\ \A r \in poll[p].rows : r[2] >= poll[p].cutoff
    BY <1>1, <1>5 DEF PollsInTime
  <2>1. poll[p].pc # "idle" =>
          poll[p].stamp \in Time /\ poll[p].stamp <= now /\ now < poll[p].stamp + PollLimit
    BY <1>1 DEF ReturnInv, SlipInv, PollsInTime
  <2>2. poll[p].pc = "write" =>
          /\ poll[p].cutoff \in Time /\ poll[p].cutoff <= c
          /\ \A r \in poll[p].rows : r[2] >= poll[p].cutoff
    BY <1>4 DEF ReturnInv, SlipInv, PollsInTime
  <2>3. PollLimit \in Nat
    BY LengthsAssumption
  <2>4. poll[p].pc # "idle" =>
           poll[p].stamp \in Time /\ poll[p].stamp <= now' /\ now' <= poll[p].stamp + PollLimit
    BY <1>1, <1>2, <2>1, <2>3, Times
  <2>5. poll[p].pc = "write" => poll[p].cutoff <= cc
    BY <1>4, <2>2, Times
  <2> QED BY <2>2, <2>4, <2>5
<1>7. RunInItsHour'
  <2>1. run.before \in Int /\ run.before <= now
    BY RunTyped, Times DEF ReturnInv, SlipInv, RunInItsHour
  <2> QED BY <1>1, <1>2, <2>1 DEF RunInItsHour
<1>8. EnteredFirst'
  BY <1>1 DEF ReturnInv, SlipInv, EnteredFirst
<1>9. StillToRead'
  <2>1. DigestTimes \subseteq Nat /\ run.before \in Int /\ run.before <= now
    BY LengthsAssumption, RunTyped, Times DEF ReturnInv, SlipInv, RunInItsHour
  <2>2. Ahead(now) = {} => Ahead(now)' = {}
    <3>1. \A d \in Ahead(now)' : d \in DigestTimes /\ (d > now' \/ d = now')
      BY DEF Ahead
    <3>2. \A d \in DigestTimes : (d > now' \/ d = now') => d > now
      BY <1>1, <1>2, <2>1
    <3>3. \A d \in DigestTimes : d > now => d \in Ahead(now)
      BY DEF Ahead
    <3> QED BY <3>1, <3>2, <3>3
  <2>3. ASSUME NEW e \in Entries, NEW d \in DigestTimes, ToRead(e, d)
        PROVE  ToRead(e, d)'
    BY <1>1, <1>2, <2>1, <2>3 DEF ToRead
  <2> QED BY <1>1, <2>2, <2>3 DEF ReturnInv, SlipInv, StillToRead
<1>10. AsItCame'
  <2> SUFFICES ASSUME NEW e \in Entries \ ahead
               PROVE  /\ buffer[e] # Never => buffer[e] = entered[e]
                      /\ buffer[e] = Never /\ entered[e] # Never =>
                           /\ entered[e] < cc
                           /\ \A p \in Pollers :
                                poll[p].pc = "write" /\ ~poll[p].overtaken => poll[p].cutoff > entered[e]
    BY <1>1, <1>5 DEF AsItCame
  <2>1. buffer[e] = Never /\ entered[e] # Never => entered[e] < c
    BY <1>4 DEF ReturnInv, AsItCame
  <2>2. entered[e] \in Int
    BY PollTyped, Times
  <2> QED BY <1>4, <2>1, <2>2, Times DEF ReturnInv, AsItCame
<1>11. ReadInWindow'
  BY <1>1 DEF ReadInWindow
<1>12. RowsFollow'
  <2>1. \A r \in rows : r[2] \in Nat /\ r[1] \in Entries
    BY RunTyped, Times
  <2>2. \A e \in Entries : entered[e] \in Int
    BY PollTyped, Times
  <2> QED BY <1>1, <1>2, <2>1, <2>2, RunTyped DEF ReturnInv, RowsFollow
<1> QED BY <1>3, <1>6, <1>7, <1>8, <1>9, <1>10, <1>11, <1>12 DEF ReturnInv, SlipInv

(* When the polls and the buffer stand.                                    *)
LEMMA PollsStand ==
  ASSUME ReturnInv, UNCHANGED <<now, buffer, poll, entered, ahead>>
  PROVE  PollsInTime' /\ EnteredFirst' /\ AsItCame'
<1>1. PollsInTime'
  BY DEF ReturnInv, SlipInv, PollsInTime, Cutoff
<1>2. EnteredFirst'
  BY DEF ReturnInv, SlipInv, EnteredFirst
<1>3. AsItCame'
  BY DEF ReturnInv, AsItCame, Cutoff
<1> QED BY <1>1, <1>2, <1>3

LEMMA RunStartStep ==
  ASSUME ReturnInv, RunStart
  PROVE  ReturnInv'
<1>1. /\ run.pc = "idle" /\ run' = [pc |-> "read", before |-> now, read |-> {}]
      /\ UNCHANGED <<now, buffer, poll, rows, backend, crashes, entered, saved, excused, ahead>>
  BY DEF RunStart, history
<1>2. run'.pc = "read" /\ run'.before = now
  BY <1>1
<1>3. TypeOK'
  <2>1. run' \in [pc : {"idle", "read", "save"}, before : {Never} \cup Time, read : SUBSET Entries]
    BY <1>1, PollTyped
  <2> QED BY <1>1, <2>1 DEF ReturnInv, SlipInv, TypeOK
<1>4. now <= now
  BY PollTyped, Times
<1>5. RunInItsHour'
  BY <1>1, <1>2, <1>4 DEF RunInItsHour
<1>6. StillToRead'
  <2>1. Ahead(now) = {} => Ahead(now)' = {}
    BY <1>1, <1>2 DEF Ahead
  <2>2. ASSUME NEW e \in Entries, NEW d \in DigestTimes, ToRead(e, d)
        PROVE  ToRead(e, d)'
    BY <1>1, <1>2, <2>2 DEF ToRead
  <2> QED BY <1>1, <2>1, <2>2 DEF ReturnInv, SlipInv, StillToRead
<1>7. ReadInWindow' /\ RowsFollow'
  BY <1>1, <1>2 DEF ReturnInv, ReadInWindow, RowsFollow
<1> QED BY <1>1, <1>3, <1>5, <1>6, <1>7, PollsStand DEF ReturnInv, SlipInv

(* A window the run of now reads reaches what it must find.                *)
LEMMA FoundInWindow ==
  ASSUME ReturnInv, run.before = now, NEW e \in Entries, buffer[e] # Never,
         buffer[e] + PollLimit < now, now <= buffer[e] + Window
  PROVE  InWindow(e)
<1>1. buffer[e] \in Nat /\ now \in Nat /\ PollLimit \in Nat /\ Window \in Nat
  BY PollTyped, Times, LengthsAssumption
<1> QED BY <1>1 DEF InWindow

LEMMA RunReadStep ==
  ASSUME ReturnInv, RunRead
  PROVE  ReturnInv'
<1> DEFINE windowed == {e \in Entries : InWindow(e)}
<1>1. PICK read \in Newest(windowed) :
        /\ run.pc = "read"
        /\ run' = [run EXCEPT !.pc = "save", !.read = read]
        /\ excused' = excused \cup (windowed \ read)
        /\ UNCHANGED <<now, buffer, poll, rows, backend, crashes, entered, saved, ahead>>
  BY DEF RunRead
<1>2. read \subseteq windowed /\ windowed \subseteq Entries
  BY DEF Newest
<1>3. /\ run' \in [pc : {"idle", "read", "save"}, before : {Never} \cup Time, read : SUBSET Entries]
      /\ run'.pc = "save" /\ run'.before = run.before /\ run'.read = read
  BY <1>1, <1>2, RunTyped
<1>4. run.before = now
  BY <1>1 DEF ReturnInv, SlipInv, RunInItsHour
<1>5. TypeOK'
  BY <1>1, <1>2, <1>3 DEF ReturnInv, SlipInv, TypeOK
<1>6. RunInItsHour'
  BY <1>1, <1>3, <1>4 DEF ReturnInv, SlipInv, RunInItsHour
<1>7. StillToRead'
  <2>1. Ahead(now)' = Ahead(now)
    BY <1>1, <1>3 DEF Ahead
  <2>2. ASSUME NEW e \in Entries, NEW d \in DigestTimes, ToRead(e, d),
               buffer[e] # Never, buffer[e] + PollLimit < d, d <= buffer[e] + Window,
               e \notin windowed \ read
        PROVE  ToRead(e, d)'
    <3>1. CASE d > now
      BY <1>1, <3>1 DEF ToRead
    <3>2. CASE d = now
      <4>1. e \in read
        BY <1>4, <2>2, <3>2, FoundInWindow
      <4> QED BY <1>1, <1>3, <3>2, <4>1 DEF ToRead
    <3> QED BY <2>2, <3>1, <3>2 DEF ToRead
  <2> QED BY <1>1, <2>1, <2>2 DEF ReturnInv, SlipInv, StillToRead
<1>8. ReadInWindow'
  <2> SUFFICES ASSUME NEW e \in read \ ahead
               PROVE  entered[e] # Never /\ entered[e] < now /\ now <= entered[e] + Window
    BY <1>1, <1>3 DEF ReadInWindow
  <2>1. /\ e \in Entries /\ buffer[e] # Never /\ buffer[e] >= now - Window /\ buffer[e] < now
    BY <1>2, <1>4 DEF InWindow
  <2>2. buffer[e] = entered[e]
    BY <2>1 DEF ReturnInv, AsItCame
  <2>3. buffer[e] \in Nat /\ now \in Nat /\ Window \in Nat
    BY <2>1, PollTyped, Times, LengthsAssumption
  <2> QED BY <2>1, <2>2, <2>3
<1>9. RowsFollow'
  BY <1>1 DEF ReturnInv, RowsFollow
<1> QED BY <1>1, <1>5, <1>6, <1>7, <1>8, <1>9, PollsStand DEF ReturnInv, SlipInv

LEMMA RunSaveStep ==
  ASSUME ReturnInv, RunSave
  PROVE  ReturnInv' /\ \A r \in rows' \ rows : r[1] \in saved => r[1] \in ahead
<1>1. /\ run.pc = "save" /\ rows' = rows \cup {<<e, now>> : e \in run.read \ Recognised}
      /\ saved' = saved \cup run.read /\ run' = [run EXCEPT !.pc = "idle", !.read = {}]
      /\ UNCHANGED <<now, buffer, poll, backend, crashes, entered, excused, ahead>>
  BY DEF RunSave
<1>2. /\ run' \in [pc : {"idle", "read", "save"}, before : {Never} \cup Time, read : SUBSET Entries]
      /\ run'.pc = "idle" /\ run'.before = run.before
  BY <1>1, RunTyped
<1>3. run.before = now /\ now \in Time /\ run.read \subseteq Entries
  BY <1>1, PollTyped, RunTyped DEF ReturnInv, SlipInv, RunInItsHour
<1>4. TypeOK'
  BY <1>1, <1>2, <1>3 DEF ReturnInv, SlipInv, TypeOK
<1>5. RunInItsHour'
  BY <1>1, <1>2 DEF ReturnInv, SlipInv, RunInItsHour
<1>6. StillToRead'
  <2>1. Ahead(now)' = Ahead(now)
    BY <1>1, <1>2 DEF Ahead
  <2>2. ASSUME NEW e \in Entries, NEW d \in DigestTimes, ToRead(e, d), e \notin run.read
        PROVE  ToRead(e, d)'
    BY <1>1, <1>3, <2>2 DEF ToRead
  <2> QED BY <1>1, <2>1, <2>2 DEF ReturnInv, SlipInv, StillToRead
<1>7. ReadInWindow'
  BY <1>2 DEF ReadInWindow
<1>8. \A e \in run.read \ ahead : entered[e] # Never /\ entered[e] < now /\ now <= entered[e] + Window
  BY <1>1 DEF ReturnInv, ReadInWindow
<1>9. RowsFollow'
  <2>1. \A r \in rows' : r[1] \notin ahead => entered[r[1]] # Never /\ entered[r[1]] < r[2] /\ r[2] <= now
    <3>1. \A r \in rows : r[1] \notin ahead => entered[r[1]] # Never /\ entered[r[1]] < r[2] /\ r[2] <= now
      BY DEF ReturnInv, RowsFollow
    <3>2. \A r \in rows' \ rows : r[1] \in run.read /\ r[2] = now
      BY <1>1
    <3>3. now <= now
      BY <1>3, Times
    <3> QED BY <1>8, <3>1, <3>2, <3>3
  <2>2. \A e \in saved' \ ahead :
          entered[e] # Never /\ (now <= entered[e] + Window => \E r \in rows' : r[1] = e)
    <3> SUFFICES ASSUME NEW e \in saved' \ ahead
                 PROVE  entered[e] # Never /\ (now <= entered[e] + Window => \E r \in rows' : r[1] = e)
      OBVIOUS
    <3>1. CASE e \in saved
      BY <1>1, <3>1 DEF ReturnInv, RowsFollow
    <3>2. CASE e \in run.read
      <4>1. CASE e \in Recognised
        BY <1>1, <1>8, <3>2, <4>1 DEF Recognised
      <4>2. CASE e \notin Recognised
        <5>1. <<e, now>> \in rows' /\ <<e, now>>[1] = e
          BY <1>1, <3>2, <4>2
        <5> QED BY <1>8, <3>2, <5>1
      <4> QED BY <4>1, <4>2
    <3> QED BY <1>1, <3>1, <3>2
  <2> QED BY <1>1, <2>1, <2>2 DEF RowsFollow
<1>10. ASSUME NEW r \in rows' \ rows, r[1] \in saved, r[1] \notin ahead
       PROVE  FALSE
  <2>1. r[1] \in run.read \ Recognised
    BY <1>1, <1>10
  <2>2. PICK e \in Entries : e = r[1]
    BY <1>3, <2>1
  <2>3. entered[e] # Never /\ entered[e] < now /\ now <= entered[e] + Window
    BY <1>8, <1>10, <2>1, <2>2
  <2>4. PICK w \in rows : w[1] = e /\ entered[e] < w[2] /\ w[2] <= now
    BY <1>10, <2>2, <2>3 DEF ReturnInv, RowsFollow
  <2>5. w[2] \in Time /\ w[2] \in Nat /\ now \in Nat /\ entered[e] \in Int /\ Window \in Nat
    BY <1>3, RunTyped, PollTyped, Times, LengthsAssumption
  <2>6. now < w[2] + Window
    BY <2>3, <2>4, <2>5
  <2>7. DayOf(w[2]) > DayOf(now) - ScanDays
    BY <1>3, <2>5, <2>6, ScanAssumption
  <2>8. e \in Recognised
    BY <2>4, <2>7 DEF Recognised
  <2> QED BY <2>1, <2>2, <2>8
<1> QED BY <1>1, <1>4, <1>5, <1>6, <1>7, <1>9, <1>10, PollsStand DEF ReturnInv, SlipInv

LEMMA RunCrashStep ==
  ASSUME ReturnInv, RunCrash
  PROVE  ReturnInv'
<1>1. /\ run.pc # "idle" /\ crashes < Crashes /\ crashes' = crashes + 1
      /\ excused' = excused \cup {e \in Entries : InWindow(e)}
      /\ run' = [run EXCEPT !.pc = "idle", !.read = {}]
      /\ UNCHANGED <<now, buffer, poll, rows, backend, entered, saved, ahead>>
  BY DEF RunCrash
<1>2. /\ run' \in [pc : {"idle", "read", "save"}, before : {Never} \cup Time, read : SUBSET Entries]
      /\ run'.pc = "idle" /\ run'.before = run.before
  BY <1>1, RunTyped
<1>3. run.before = now
  BY <1>1 DEF ReturnInv, SlipInv, RunInItsHour
<1>4. TypeOK'
  <2>1. crashes' \in 0..Crashes
    BY <1>1, RunTyped, LengthsAssumption
  <2> QED BY <1>1, <1>2, <2>1 DEF ReturnInv, SlipInv, TypeOK
<1>5. RunInItsHour'
  BY <1>1, <1>2 DEF ReturnInv, SlipInv, RunInItsHour
<1>6. StillToRead'
  <2>1. Ahead(now)' = Ahead(now)
    BY <1>1, <1>2 DEF Ahead
  <2>2. ASSUME NEW e \in Entries, NEW d \in DigestTimes, ToRead(e, d), buffer[e] # Never,
               buffer[e] + PollLimit < d, d <= buffer[e] + Window, ~InWindow(e)
        PROVE  ToRead(e, d)'
    BY <1>1, <1>3, <2>2, FoundInWindow DEF ToRead
  <2> QED BY <1>1, <2>1, <2>2 DEF ReturnInv, SlipInv, StillToRead
<1>7. ReadInWindow' /\ RowsFollow'
  BY <1>1, <1>2 DEF ReturnInv, ReadInWindow, RowsFollow
<1> QED BY <1>1, <1>4, <1>5, <1>6, <1>7, PollsStand DEF ReturnInv, SlipInv

LEMMA CleanStep ==
  ASSUME ReturnInv, Clean
  PROVE  ReturnInv' /\ rows' \subseteq rows
<1>1. PICK judged \in SUBSET {r \in rows : r[2] < now - CleanAge} : rows' = rows \ judged
  BY DEF Clean
<1>2. UNCHANGED <<now, buffer, poll, backend, run, crashes, entered, saved, excused, ahead>>
  BY DEF Clean, history
<1>3. TypeOK'
  BY <1>1, <1>2 DEF ReturnInv, SlipInv, TypeOK
<1>4. RunInItsHour'
  BY <1>2 DEF ReturnInv, SlipInv, RunInItsHour
<1>5. StillToRead'
  BY <1>2 DEF ReturnInv, SlipInv, StillToRead, ToRead, Ahead
<1>6. ReadInWindow'
  BY <1>2 DEF ReturnInv, ReadInWindow
<1>7. RowsFollow'
  <2>1. \A r \in rows' : r[1] \notin ahead => entered[r[1]] # Never /\ entered[r[1]] < r[2] /\ r[2] <= now
    BY <1>1 DEF ReturnInv, RowsFollow
  <2>2. ASSUME NEW e \in saved \ ahead
        PROVE  entered[e] # Never /\ (now <= entered[e] + Window => \E r \in rows' : r[1] = e)
    <3>1. entered[e] # Never
      BY DEF ReturnInv, RowsFollow
    <3>2. ASSUME now <= entered[e] + Window
          PROVE  \E r \in rows' : r[1] = e
      <4>1. PICK r \in rows : r[1] = e /\ entered[e] < r[2]
        BY <3>2 DEF ReturnInv, RowsFollow
      <4>2. /\ r[2] \in Nat /\ entered[e] \in Int /\ now \in Nat /\ Window \in Nat /\ CleanAge \in Nat
            /\ Window <= CleanAge
        BY RunTyped, PollTyped, Times, LengthsAssumption, KeepAssumption
      <4>3. ~(r[2] < now - CleanAge)
        BY <3>2, <4>1, <4>2
      <4> QED BY <1>1, <4>1, <4>3
    <3> QED BY <3>1, <3>2
  <2> QED BY <1>2, <2>1, <2>2 DEF RowsFollow
<1> QED BY <1>1, <1>2, <1>3, <1>4, <1>5, <1>6, <1>7, PollsStand DEF ReturnInv, SlipInv

LEMMA PollWriteStep ==
  ASSUME ReturnInv, NEW p \in Pollers, PollWrite(p)
  PROVE  ReturnInv'
<1>1. PICK batch \in SUBSET poll[p].rows :
        LET new == {r[1] : r \in {x \in batch : buffer[x[1]] = Never}} IN
        /\ poll[p].pc = "write"
        /\ buffer' = [e \in Entries |-> IF e \in new THEN poll[p].stamp ELSE buffer[e]]
        /\ poll' = [poll EXCEPT ![p].rows = @ \ batch]
        /\ entered' = [e \in Entries |->
                         IF e \in new /\ entered[e] = Never THEN poll[p].stamp ELSE entered[e]]
        /\ ahead' = ahead \cup {r[1] : r \in {x \in batch : \/ x[2] > entered'[x[1]]
                                                          \/ poll[p].overtaken}}
        /\ UNCHANGED <<now, rows, backend, run, crashes, saved, excused>>
  BY DEF PollWrite
<1> DEFINE new == {r[1] : r \in {x \in batch : buffer[x[1]] = Never}}
<1>2. poll[p] \in PollRecords
  BY PollTyped
<1>3. /\ poll[p].pc = "write" /\ batch \subseteq Entries \X Time /\ poll[p].stamp \in Time
      /\ poll[p].stamp <= now /\ now <= poll[p].stamp + PollLimit
      /\ poll[p].cutoff \in Time /\ \A r \in batch : r[2] >= poll[p].cutoff
  BY <1>1, <1>2 DEF PollRecords, ReturnInv, SlipInv, PollsInTime
<1>4. PICK s \in Time : s = poll[p].stamp
  BY <1>3
<1>5. s \in Nat /\ s # Never /\ now \in Nat /\ PollLimit \in Nat
  BY <1>4, PollTyped, Times, LengthsAssumption
<1>6. \A e \in Entries :
        /\ buffer'[e] = IF e \in new THEN s ELSE buffer[e]
        /\ entered'[e] = IF e \in new /\ entered[e] = Never THEN s ELSE entered[e]
  BY <1>1, <1>4
<1>7. new \subseteq Entries /\ \A e \in new : buffer[e] = Never /\ \E r \in batch : r[1] = e
  BY <1>3
<1>8. ahead \subseteq ahead' /\ ahead' \subseteq Entries
  <2>1. \A r \in batch : r[1] \in Entries
    BY <1>3
  <2>2. \A e \in ahead' : e \in ahead \/ \E r \in batch : r[1] = e
    BY <1>1
  <2>3. ahead \subseteq ahead'
    BY <1>1
  <2> QED BY <2>1, <2>2, <2>3, RunTyped
<1>9. \A r \in batch : r[1] \notin ahead' => ~(r[2] > entered'[r[1]]) /\ ~poll[p].overtaken
  BY <1>1
<1> DEFINE q == [poll[p] EXCEPT !.rows = @ \ batch]
<1>10. /\ q \in PollRecords /\ q.pc = "write" /\ q.stamp = s /\ q.cutoff = poll[p].cutoff
       /\ q.overtaken = poll[p].overtaken /\ q.rows \subseteq poll[p].rows
  BY <1>2, <1>3, <1>4 DEF PollRecords
<1>11. poll' = [poll EXCEPT ![p] = q]
  BY <1>1, PollTyped
<1> HIDE DEF q, new
<1>12. /\ poll' \in [Pollers -> PollRecords] /\ poll'[p] = q
       /\ \A r \in Pollers : r # p => poll'[r] = poll[r]
  BY <1>10, <1>11, PollTyped, OnePoll
<1>13. TypeOK'
  <2>1. buffer' \in [Entries -> {Never} \cup Time]
    BY <1>1, <1>3, PollTyped
  <2>2. entered' \in [Entries -> {Never} \cup Time]
    BY <1>1, <1>3, PollTyped
  <2> QED BY <1>1, <1>8, <1>12, <2>1, <2>2 DEF ReturnInv, SlipInv, TypeOK, PollRecords
<1>14. PollsInTime'
  BY <1>1, <1>3, <1>4, <1>10, <1>12 DEF ReturnInv, SlipInv, PollsInTime, Cutoff
<1>15. RunInItsHour'
  BY <1>1 DEF ReturnInv, SlipInv, RunInItsHour
<1>16. EnteredFirst'
  BY <1>5, <1>6 DEF ReturnInv, SlipInv, EnteredFirst
<1>17. StillToRead'
  <2> SUFFICES ASSUME NEW e \in Entries, entered'[e] # Never, e \notin saved \cup excused
               PROVE  IF buffer'[e] = Never
                        THEN Ahead(now)' = {}
                        ELSE \A d \in DigestTimes :
                               buffer'[e] + PollLimit < d /\ d <= buffer'[e] + Window => ToRead(e, d)'
    BY <1>1 DEF StillToRead
  <2>1. CASE e \in new
    <3>1. buffer'[e] = s
      BY <1>6, <2>1
    <3>2. \A d \in DigestTimes : s + PollLimit < d => d > now
      <4>1. now <= s + PollLimit
        BY <1>3, <1>4
      <4>2. DigestTimes \subseteq Nat
        BY LengthsAssumption DEF Time
      <4>3. ASSUME NEW d \in Nat, s + PollLimit < d PROVE d > now
        BY <1>5, <4>1, <4>3
      <4> QED BY <4>2, <4>3
    <3> QED BY <1>1, <1>5, <3>1, <3>2 DEF ToRead
  <2>2. CASE e \notin new
    <3>1. buffer'[e] = buffer[e] /\ entered'[e] = entered[e]
      BY <1>6, <2>2
    <3>2. Ahead(now)' = Ahead(now) /\ \A d \in DigestTimes : ToRead(e, d)' <=> ToRead(e, d)
      BY <1>1 DEF Ahead, ToRead
    <3> QED BY <3>1, <3>2 DEF ReturnInv, SlipInv, StillToRead
  <2> QED BY <2>1, <2>2
<1>18. AsItCame'
  <2>1. ASSUME NEW e \in Entries \ ahead', e \in new, entered[e] # Never
        PROVE  FALSE
    <3>1. buffer[e] = Never /\ e \notin ahead
      BY <1>7, <1>8, <2>1
    <3>2. PICK r \in batch : r[1] = e
      BY <1>7, <2>1
    <3>3. ~(r[2] > entered[e]) /\ ~poll[p].overtaken
      BY <1>6, <1>9, <2>1, <3>2
    <3>4. poll[p].cutoff > entered[e]
      BY <1>3, <2>1, <3>1, <3>3 DEF ReturnInv, AsItCame
    <3>5. r[2] \in Nat /\ entered[e] \in Int /\ poll[p].cutoff \in Nat /\ r[2] >= poll[p].cutoff
      BY <1>3, PollTyped, Times
    <3> QED BY <3>3, <3>4, <3>5
  <2>2. ASSUME NEW e \in Entries \ ahead', e \in new
        PROVE  buffer'[e] = s /\ entered'[e] = s
    BY <1>6, <2>1, <2>2
  <2>3. ASSUME NEW e \in Entries \ ahead', e \notin new
        PROVE  /\ buffer'[e] # Never => buffer'[e] = entered'[e]
               /\ buffer'[e] = Never /\ entered'[e] # Never =>
                    /\ entered'[e] < Cutoff(now)
                    /\ \A r \in Pollers :
                         poll[r].pc = "write" /\ ~poll[r].overtaken => poll[r].cutoff > entered'[e]
    BY <1>6, <1>8, <2>3 DEF ReturnInv, AsItCame
  <2>4. \A r \in Pollers : /\ poll'[r].pc = poll[r].pc /\ poll'[r].cutoff = poll[r].cutoff
                           /\ poll'[r].overtaken = poll[r].overtaken
    BY <1>3, <1>10, <1>12
  <2>5. Cutoff(now)' = Cutoff(now)
    BY <1>1 DEF Cutoff
  <2> QED BY <1>5, <2>2, <2>3, <2>4, <2>5 DEF AsItCame
<1>19. \A e \in Entries : entered[e] # Never => entered'[e] = entered[e]
  BY <1>6
<1>20. ReadInWindow'
  BY <1>1, <1>8, <1>19, RunTyped DEF ReturnInv, ReadInWindow
<1>21. RowsFollow'
  <2>1. \A r \in rows : r[1] \in Entries
    BY RunTyped
  <2>2. \A r \in rows : r[1] \notin ahead' => entered'[r[1]] # Never /\ entered'[r[1]] < r[2] /\ r[2] <= now
    BY <1>8, <1>19, <2>1 DEF ReturnInv, RowsFollow
  <2>3. \A e \in saved \ ahead' :
          entered'[e] # Never /\ (now <= entered'[e] + Window => \E r \in rows : r[1] = e)
    BY <1>8, <1>19, RunTyped DEF ReturnInv, RowsFollow
  <2> QED BY <1>1, <2>2, <2>3 DEF RowsFollow
<1> QED BY <1>13, <1>14, <1>15, <1>16, <1>17, <1>18, <1>20, <1>21 DEF ReturnInv, SlipInv

LEMMA PollPruneStep ==
  ASSUME ReturnInv, NEW p \in Pollers, PollPrune(p)
  PROVE  ReturnInv'
<1>1. /\ poll[p].pc = "write"
      /\ buffer' = [e \in Entries |-> IF buffer[e] < poll[p].cutoff THEN Never ELSE buffer[e]]
      /\ poll' = [q \in Pollers |->
                    IF q = p THEN IdlePoll
                    ELSE [poll[q] EXCEPT !.overtaken = @ \/ (poll[q].pc = "write"
                                                             /\ poll[q].cutoff < poll[p].cutoff)]]
      /\ UNCHANGED <<now, rows, backend, run, crashes, entered, saved, excused, ahead>>
  BY DEF PollPrune, history
<1>2. PICK c \in Time : c = poll[p].cutoff
  BY <1>1 DEF ReturnInv, SlipInv, PollsInTime
<1>3. c \in Nat /\ now \in Time /\ now \in Nat /\ Cutoff(now) \in Nat /\ c <= Cutoff(now)
  BY <1>1, <1>2, PollTyped, Times DEF ReturnInv, SlipInv, PollsInTime
<1>4. /\ poll'[p] = IdlePoll
      /\ \A q \in Pollers : q # p =>
           poll'[q] = [poll[q] EXCEPT !.overtaken = @ \/ (poll[q].pc = "write" /\ poll[q].cutoff < c)]
  BY <1>1, <1>2
<1>5. ASSUME NEW q \in Pollers, q # p
      PROVE  /\ poll'[q] \in PollRecords /\ poll'[q].pc = poll[q].pc /\ poll'[q].stamp = poll[q].stamp
             /\ poll'[q].cutoff = poll[q].cutoff /\ poll'[q].rows = poll[q].rows
             /\ ~poll'[q].overtaken /\ poll[q].pc = "write" => ~poll[q].overtaken /\ ~(poll[q].cutoff < c)
  <2> DEFINE o == poll[q].overtaken \/ (poll[q].pc = "write" /\ poll[q].cutoff < c)
  <2>1. poll[q] \in PollRecords /\ o \in BOOLEAN
    BY PollTyped DEF PollRecords
  <2>2. poll'[q] = [poll[q] EXCEPT !.overtaken = o]
    BY <1>4, <1>5
  <2> HIDE DEF o
  <2>3. /\ poll'[q] \in PollRecords /\ poll'[q].pc = poll[q].pc /\ poll'[q].stamp = poll[q].stamp
        /\ poll'[q].cutoff = poll[q].cutoff /\ poll'[q].rows = poll[q].rows
        /\ poll'[q].overtaken = o
    BY <2>1, <2>2 DEF PollRecords
  <2> QED BY <2>3 DEF o
<1>6. poll'[p] \in PollRecords /\ poll'[p].pc = "idle"
  BY <1>4, IdlePollTyped
<1>7. poll' \in [Pollers -> PollRecords]
  BY <1>1, <1>5, <1>6
<1>8. \A e \in Entries : buffer'[e] = IF buffer[e] < c THEN Never ELSE buffer[e]
  BY <1>1, <1>2
<1>9. TypeOK'
  <2>1. buffer' \in [Entries -> {Never} \cup Time]
    BY <1>1, PollTyped
  <2> QED BY <1>1, <1>7, <2>1 DEF ReturnInv, SlipInv, TypeOK, PollRecords
<1>10. PollsInTime'
  BY <1>1, <1>5, <1>6 DEF ReturnInv, SlipInv, PollsInTime, Cutoff
<1>11. RunInItsHour'
  BY <1>1 DEF ReturnInv, SlipInv, RunInItsHour
<1>12. EnteredFirst'
  BY <1>1, <1>8 DEF ReturnInv, SlipInv, EnteredFirst
<1>13. Ahead(now)' = Ahead(now) /\ \A e \in Entries, d \in DigestTimes : ToRead(e, d)' <=> ToRead(e, d)
  BY <1>1 DEF Ahead, ToRead
<1>14. ASSUME NEW e \in Entries, entered[e] # Never, e \notin saved \cup excused,
              buffer[e] # Never, buffer[e] < c
       PROVE  Ahead(now) = {}
  <2> SUFFICES ASSUME NEW d \in Ahead(now) PROVE FALSE
    OBVIOUS
  <2>1. d \in DigestTimes /\ d \in Nat /\ d >= now
    BY <1>3, LengthsAssumption DEF Ahead, Time
  <2>2. buffer[e] \in Time /\ buffer[e] \in Nat /\ Window \in Nat /\ Retention \in Nat /\ PollLimit \in Nat
    BY <1>14, PollTyped, Times, LengthsAssumption
  <2>3. buffer[e] + Window < now
    <3>1. Cutoff(now) # 0
      BY <1>3, <1>14, <2>2
    <3>2. Cutoff(now) = now - Retention
      BY <1>3, <3>1, Times
    <3> QED BY <1>3, <1>14, <2>2, <3>2, KeepAssumption
  <2>4. d > buffer[e] + Window
    BY <1>3, <2>1, <2>2, <2>3
  <2>5. PICK dd \in DigestTimes : buffer[e] + PollLimit < dd /\ dd <= buffer[e] + Window
    BY <2>1, <2>2, <2>4, GapAssumption
  <2>6. ToRead(e, dd)
    BY <1>14, <2>5 DEF ReturnInv, SlipInv, StillToRead
  <2>7. dd \in Nat /\ dd < now
    BY <1>3, <2>2, <2>3, <2>5, LengthsAssumption DEF Time
  <2> QED BY <1>3, <2>6, <2>7 DEF ToRead
<1>15. StillToRead'
  BY <1>1, <1>8, <1>13, <1>14 DEF ReturnInv, SlipInv, StillToRead
<1>16. AsItCame'
  <2> SUFFICES ASSUME NEW e \in Entries \ ahead
               PROVE  /\ buffer'[e] # Never => buffer'[e] = entered[e]
                      /\ buffer'[e] = Never /\ entered[e] # Never =>
                           /\ entered[e] < Cutoff(now)
                           /\ \A q \in Pollers :
                                poll'[q].pc = "write" /\ ~poll'[q].overtaken => poll'[q].cutoff > entered[e]
    BY <1>1 DEF AsItCame, Cutoff
  <2>1. buffer'[e] # Never => buffer'[e] = entered[e]
    BY <1>8 DEF ReturnInv, AsItCame
  <2>2. ASSUME buffer[e] = Never, entered[e] # Never
        PROVE  /\ entered[e] < Cutoff(now)
               /\ \A q \in Pollers :
                    poll'[q].pc = "write" /\ ~poll'[q].overtaken => poll'[q].cutoff > entered[e]
    BY <1>5, <1>6, <2>2 DEF ReturnInv, AsItCame
  <2>3. ASSUME buffer[e] # Never, buffer[e] < c
        PROVE  /\ entered[e] < Cutoff(now)
               /\ \A q \in Pollers :
                    poll'[q].pc = "write" /\ ~poll'[q].overtaken => poll'[q].cutoff > entered[e]
    <3>1. entered[e] = buffer[e] /\ entered[e] \in Int
      BY <2>3, PollTyped, Times DEF ReturnInv, AsItCame
    <3>2. entered[e] < Cutoff(now)
      BY <1>3, <2>3, <3>1
    <3>3. ASSUME NEW q \in Pollers, poll'[q].pc = "write", ~poll'[q].overtaken
          PROVE  poll'[q].cutoff > entered[e]
      <4>1. q # p
        BY <1>6, <3>3
      <4>2. poll[q].pc = "write" /\ ~(poll[q].cutoff < c) /\ poll'[q].cutoff = poll[q].cutoff
        BY <1>5, <3>3, <4>1
      <4>3. poll[q].cutoff \in Nat
        BY <4>2, Times DEF ReturnInv, SlipInv, PollsInTime
      <4> QED BY <1>3, <2>3, <3>1, <4>2, <4>3
    <3> QED BY <3>2, <3>3
  <2> QED BY <1>8, <2>1, <2>2, <2>3
<1>17. ReadInWindow'
  BY <1>1 DEF ReturnInv, ReadInWindow
<1>18. RowsFollow'
  BY <1>1 DEF ReturnInv, RowsFollow
<1> QED BY <1>9, <1>10, <1>11, <1>12, <1>15, <1>16, <1>17, <1>18 DEF ReturnInv, SlipInv

-----------------------------------------------------------------------------
LEMMA StayStep ==
  ASSUME ReturnInv, UNCHANGED vars
  PROVE  ReturnInv'
<1>1. UNCHANGED <<now, buffer, poll, rows, backend, run, crashes, entered, saved, excused, ahead>>
  BY DEF vars, history
<1>2. TypeOK'
  BY <1>1 DEF ReturnInv, SlipInv, TypeOK
<1>3. RunInItsHour' /\ StillToRead'
  BY <1>1 DEF ReturnInv, SlipInv, RunInItsHour, StillToRead, ToRead, Ahead
<1>4. ReadInWindow' /\ RowsFollow'
  BY <1>1 DEF ReturnInv, ReadInWindow, RowsFollow
<1> QED BY <1>1, <1>2, <1>3, <1>4, PollsStand DEF ReturnInv, SlipInv

LEMMA NextStep ==
  ASSUME ReturnInv, [Next]_vars
  PROVE  ReturnInv' /\ \A r \in rows' \ rows : r[1] \in saved => r[1] \in ahead
<1>1. CASE Tick
  BY <1>1, TickStep DEF Tick
<1>2. ASSUME NEW p \in Pollers, PollStart(p) \/ PollFetched(p) \/ PollWrite(p) \/ PollPrune(p) \/ PollDies(p)
      PROVE  ReturnInv' /\ rows' = rows
  <2>1. CASE PollStart(p)
    BY <2>1, PollStartStep DEF PollStart
  <2>2. CASE PollFetched(p)
    BY <2>2, PollFetchedStep DEF PollFetched
  <2>3. CASE PollWrite(p)
    BY <2>3, PollWriteStep DEF PollWrite
  <2>4. CASE PollPrune(p)
    BY <2>4, PollPruneStep DEF PollPrune
  <2>5. CASE PollDies(p)
    BY <2>5, PollDiesStep DEF PollDies
  <2> QED BY <1>2, <2>1, <2>2, <2>3, <2>4, <2>5
<1>3. CASE RunStart
  BY <1>3, RunStartStep DEF RunStart
<1>4. CASE RunRead
  BY <1>4, RunReadStep DEF RunRead
<1>5. CASE RunSave
  BY <1>5, RunSaveStep
<1>6. CASE RunCrash
  BY <1>6, RunCrashStep DEF RunCrash
<1>7. CASE Clean
  BY <1>7, CleanStep
<1>8. CASE UNCHANGED vars
  BY <1>8, StayStep DEF vars
<1> QED BY <1>1, <1>2, <1>3, <1>4, <1>5, <1>6, <1>7, <1>8 DEF Next

-----------------------------------------------------------------------------
LEMMA ReturnInvHolds == IntakeSpec => []ReturnInv
<1>1. IntakeInit => ReturnInv
  BY InitSlip DEF IntakeInit
<1>2. ReturnInv /\ [IntakeNext]_all => ReturnInv'
  BY PartSteps, NextStep
<1> QED BY <1>1, <1>2, PTL DEF IntakeSpec

(* What is in the buffer when the windows pass it was read by the digest   *)
(* that begins after its poll and inside the window of its stamp.          *)
LEMMA InvNoSlip == ReturnInv => SlipsOnlyByFault
<1> SUFFICES ASSUME ReturnInv, NEW e \in Entries,
                    entered[e] # Never, e \notin saved, Unreachable(e), e \notin excused
             PROVE  FALSE
  BY DEF SlipsOnlyByFault
<1>1. run.pc = "idle" /\ Ahead(now) # {}
      /\ (buffer[e] # Never => \A d \in Ahead(now) : buffer[e] < d - Window)
  BY DEF Unreachable
<1>2. buffer[e] # Never
  BY <1>1 DEF ReturnInv, SlipInv, StillToRead
<1>3. PICK d \in Ahead(now) : d \in DigestTimes
  BY <1>1 DEF Ahead
<1>4. buffer[e] \in Time /\ buffer[e] \in Nat /\ Window \in Nat /\ d \in Nat
  BY <1>2, <1>3, PollTyped, Times, LengthsAssumption
<1>5. d > buffer[e] + Window
  BY <1>1, <1>2, <1>3, <1>4
<1>6. PICK dd \in DigestTimes : buffer[e] + PollLimit < dd /\ dd <= buffer[e] + Window
  BY <1>3, <1>4, <1>5, GapAssumption
<1>7. ToRead(e, dd)
  BY <1>2, <1>6 DEF ReturnInv, SlipInv, StillToRead
<1>8. dd \in Ahead(now)
  BY <1>1, <1>7 DEF ToRead, Ahead
<1>9. dd \in Nat /\ buffer[e] < dd - Window
  BY <1>1, <1>2, <1>8, LengthsAssumption, Times
<1> QED BY <1>4, <1>6, <1>9

(* The feeds' entries are all saved before they are pruned or passed by    *)
(* (SlipsOnlyByFault): the window, the poll limit, the retention and the   *)
(* digest times fit whatever the feeds and the polls do.                   *)
THEOREM NothingSlips == IntakeSpec => []SlipsOnlyByFault
<1> QED BY ReturnInvHolds, InvNoSlip, PTL

(* No entry is stored a second time but one its feed dated anew or an      *)
(* overtaken poll wrote (ReturnsOnlyIfRedated), by any number of polls.    *)
THEOREM NothingReturns == IntakeSpec => ReturnsOnlyIfRedated
<1>1. ReturnInv /\ [IntakeNext]_all =>
        [\A r \in rows' \ rows : r[1] \in saved => r[1] \in ahead]_vars
  BY PartSteps, NextStep
<1> QED BY <1>1, ReturnInvHolds, PTL DEF IntakeSpec, ReturnsOnlyIfRedated

-----------------------------------------------------------------------------
(* The publish hours and the clock. *)

(* The keys of issues; the wall clock's hour, counted on from day 1, at    *)
(* which a day begins, and a key's publish hour; and the wall clock at an  *)
(* hour that passes.                                                       *)
Keyed == Int \X {"morning", "evening"}
Dawn(d) == DayLength * (d - 1)
Begins(k) == Dawn(k[1]) + IF k[2] = "morning" THEN times[1] ELSE times[2]
Wall(t) == t + zone[t]
ClockSet == zone \in Zones /\ times \in Schedules

LEMMA SetFacts ==
  ASSUME ClockSet
  PROVE  /\ times[1] \in Nat /\ times[2] \in Nat /\ times[1] < times[2] /\ times[2] < DayLength
         /\ DayLength \in Nat /\ DayLength > 0 /\ LastHour \in Nat /\ CatchUp \in Nat
         /\ zone \in [0..LastHour -> Int]
         /\ \A t \in 0..LastHour : Wall(t) \in Int
BY ClockAssumption DEF ClockSet, Wall

LEMMA Division ==
  ASSUME NEW n \in Nat, n > 0, NEW w \in Int
  PROVE  /\ w \div n \in Int /\ w % n \in Int /\ 0 <= w % n /\ w % n < n
         /\ w = n * (w \div n) + (w % n)
OBVIOUS

LEMMA Multiples ==
  ASSUME NEW n \in Nat, n > 0, NEW p \in Int, NEW q \in Int, p < q
  PROVE  n * p + n <= n * q
<1>1. q - p - 1 \in Nat
  OBVIOUS
<1>2. n * (q - p - 1) >= 0
  BY <1>1
<1>3. n * (q - p - 1) = n * q - n * p - n
  OBVIOUS
<1>4. n * p \in Int /\ n * q \in Int
  OBVIOUS
<1> QED BY <1>2, <1>3, <1>4

LEMMA Remainder ==
  ASSUME NEW n \in Nat, n > 0, NEW q \in Int, NEW r \in Nat, r < n
  PROVE  (n * q + r) % n = r /\ (n * q + r) \div n = q
<1> DEFINE w == n * q + r
<1>1. w \in Int /\ n * q \in Int
  OBVIOUS
<1>2. /\ w \div n \in Int /\ w % n \in Int /\ 0 <= w % n /\ w % n < n
      /\ w = n * (w \div n) + (w % n)
  BY <1>1, Division
<1>3. ~ (w \div n < q)
  <2>1. w \div n < q => n * (w \div n) + n <= n * q
    BY <1>2, Multiples
  <2>2. n * (w \div n) \in Int
    BY <1>2
  <2> HIDE DEF w
  <2> QED BY <1>1, <1>2, <2>1, <2>2 DEF w
<1>4. ~ (q < w \div n)
  <2>1. q < w \div n => n * q + n <= n * (w \div n)
    BY <1>2, Multiples
  <2>2. n * (w \div n) \in Int
    BY <1>2
  <2> HIDE DEF w
  <2> QED BY <1>1, <1>2, <2>1, <2>2 DEF w
<1>5. w \div n = q
  BY <1>2, <1>3, <1>4
<1> HIDE DEF w
<1>6. w = n * q + r
  BY DEF w
<1> QED BY <1>1, <1>2, <1>5, <1>6

LEMMA WallParts ==
  ASSUME ClockSet, NEW t \in 0..LastHour
  PROVE  /\ Cal!DateOf(t) \in Int /\ Cal!HourOf(t) \in Nat /\ Cal!HourOf(t) < DayLength
         /\ Wall(t) = Dawn(Cal!DateOf(t)) + Cal!HourOf(t)
         /\ Cal!HourOf(t) = Wall(t) % DayLength
<1> DEFINE w == t + zone[t]
           q == w \div DayLength
<1>1. w \in Int /\ DayLength \in Nat /\ DayLength > 0
  BY SetFacts DEF Wall
<1> HIDE DEF w
<1>2. /\ q \in Int /\ w % DayLength \in Nat /\ w % DayLength < DayLength
      /\ w = DayLength * q + (w % DayLength)
  BY <1>1, Division
<1> HIDE DEF q
<1>3. Cal!DateOf(t) = 1 + q /\ Cal!HourOf(t) = w % DayLength /\ Wall(t) = w
  BY DEF Cal!DateOf, Cal!HourOf, Wall, w, q
<1>4. (1 + q) - 1 = q /\ 1 + q \in Int
  BY <1>2
<1> QED BY <1>2, <1>3, <1>4 DEF Dawn

(* What a key is, and when it begins. *)
KeyFacts(k) ==
  /\ k = <<k[1], k[2]>> /\ k[1] \in Int /\ k[2] \in {"morning", "evening"}
  /\ Dawn(k[1]) \in Int /\ Begins(k) \in Int
  /\ k[2] = "morning" => Begins(k) = Dawn(k[1]) + times[1]
  /\ k[2] = "evening" => Begins(k) = Dawn(k[1]) + times[2]

HourFacts ==
  /\ times[1] \in Nat /\ times[2] \in Nat /\ times[1] < times[2] /\ times[2] < DayLength
  /\ DayLength \in Nat

LEMMA KeyParts ==
  ASSUME ClockSet
  PROVE  HourFacts /\ \A k \in Keyed : KeyFacts(k)
<1>1. HourFacts
  BY SetFacts DEF HourFacts
<1>2. ASSUME NEW k \in Keyed PROVE KeyFacts(k)
  <2>1. k = <<k[1], k[2]>> /\ k[1] \in Int /\ k[2] \in {"morning", "evening"}
    BY DEF Keyed
  <2>2. Dawn(k[1]) \in Int
    BY <1>1, <2>1 DEF Dawn, HourFacts
  <2>3. /\ k[2] = "morning" => Begins(k) = Dawn(k[1]) + times[1]
        /\ k[2] = "evening" => Begins(k) = Dawn(k[1]) + times[2]
    BY DEF Begins
  <2>4. Begins(k) \in Int
    BY <1>1, <2>1, <2>2, <2>3 DEF HourFacts
  <2> QED BY <2>1, <2>2, <2>3, <2>4 DEF KeyFacts
<1> QED BY <1>1, <1>2

(* A later day dawns a day later. *)
LEMMA LaterDawn ==
  ASSUME ClockSet, NEW d \in Int, NEW e \in Int, d < e
  PROVE  Dawn(d) \in Int /\ Dawn(e) \in Int /\ Dawn(d) + DayLength <= Dawn(e)
<1>1. d - 1 \in Int /\ e - 1 \in Int /\ d - 1 < e - 1
  OBVIOUS
<1>2. DayLength * (d - 1) + DayLength <= DayLength * (e - 1)
  BY <1>1, SetFacts, Multiples
<1> QED BY <1>2, SetFacts DEF Dawn

LEMMA LaterDay ==
  ASSUME ClockSet, NEW j \in Keyed, NEW k \in Keyed, j[1] < k[1]
  PROVE  Begins(j) < Begins(k)
<1>1. HourFacts /\ KeyFacts(j) /\ KeyFacts(k)
  BY KeyParts
<1>2. Dawn(j[1]) + DayLength <= Dawn(k[1])
  BY <1>1, LaterDawn DEF KeyFacts
<1> QED BY <1>1, <1>2 DEF HourFacts, KeyFacts

LEMMA OneBeginning ==
  ASSUME ClockSet, NEW j \in Keyed, NEW k \in Keyed, Begins(j) = Begins(k)
  PROVE  j = k
<1>1. HourFacts /\ KeyFacts(j) /\ KeyFacts(k)
  BY KeyParts
<1>2. ~ (j[1] < k[1]) /\ ~ (k[1] < j[1])
  BY <1>1, LaterDay DEF KeyFacts
<1>3. j[1] = k[1]
  BY <1>1, <1>2 DEF KeyFacts
<1> QED BY <1>1, <1>3 DEF HourFacts, KeyFacts

(* `first_issue_key` is the latest publish hour that has begun. *)
LEMMA FirstIsLatest ==
  ASSUME ClockSet, NEW t \in 0..LastHour
  PROVE  /\ Cal!FirstIssueKey(t) \in Keyed
         /\ Begins(Cal!FirstIssueKey(t)) <= Wall(t)
         /\ \A k \in Keyed : Begins(k) <= Wall(t) => Begins(k) <= Begins(Cal!FirstIssueKey(t))
<1> DEFINE f == Cal!FirstIssueKey(t)
           d == Cal!DateOf(t)
           h == Cal!HourOf(t)
<1>1. d \in Int /\ h \in Nat /\ h < DayLength /\ Wall(t) = Dawn(d) + h
  BY WallParts
<1>2. \/ h >= times[2] /\ f = <<d, "evening">>
      \/ h >= times[1] /\ h < times[2] /\ f = <<d, "morning">>
      \/ h < times[1] /\ f = <<d - 1, "evening">>
  BY <1>1, SetFacts DEF Cal!FirstIssueKey
<1> HIDE DEF f, d, h
<1>3. f \in Keyed
  BY <1>1, <1>2 DEF Keyed
<1>4. HourFacts /\ KeyFacts(f)
  BY <1>3, KeyParts
<1>5. Dawn(d) \in Int /\ Dawn(d - 1) \in Int /\ Dawn(d - 1) + DayLength <= Dawn(d)
  <2>1. d - 1 \in Int /\ d - 1 < d
    BY <1>1
  <2> QED BY <1>1, <2>1, LaterDawn
<1>6. Begins(f) <= Wall(t)
  BY <1>1, <1>2, <1>4, <1>5 DEF HourFacts, KeyFacts
<1>7. ASSUME NEW k \in Keyed, Begins(k) <= Wall(t) PROVE Begins(k) <= Begins(f)
  <2>1. KeyFacts(k)
    BY KeyParts
  <2>2. ~ (d < k[1])
    <3>1. d < k[1] => Dawn(d) + DayLength <= Dawn(k[1])
      BY <1>1, <2>1, LaterDawn DEF KeyFacts
    <3> QED BY <1>1, <1>4, <1>5, <1>7, <2>1, <3>1 DEF HourFacts, KeyFacts
  <2>3. CASE k[1] < f[1]
    <3>1. Begins(k) < Begins(f)
      BY <1>3, <2>3, LaterDay
    <3> QED BY <1>4, <2>1, <3>1 DEF KeyFacts
  <2>4. CASE k[1] = f[1]
    <3>1. f[2] = "evening" \/ (f[2] = "morning" /\ f[1] = d /\ h < times[2])
      BY <1>2
    <3>2. CASE f[2] = "evening"
      BY <1>4, <2>1, <2>4, <3>2 DEF HourFacts, KeyFacts
    <3>3. CASE f[2] = "morning" /\ f[1] = d /\ h < times[2]
      BY <1>1, <1>4, <1>5, <1>7, <2>1, <2>4, <3>3 DEF HourFacts, KeyFacts
    <3> QED BY <3>1, <3>2, <3>3
  <2>5. CASE f[1] < k[1]
    <3>1. f = <<d - 1, "evening">> /\ k[1] = d /\ h < times[1]
      BY <1>1, <1>2, <2>1, <2>2, <2>5 DEF KeyFacts
    <3> QED BY <1>1, <1>4, <1>5, <1>7, <2>1, <3>1 DEF HourFacts, KeyFacts
  <2> QED BY <1>4, <2>1, <2>3, <2>4, <2>5 DEF KeyFacts
<1> QED BY <1>3, <1>6, <1>7 DEF f

LEMMA HourOfKey ==
  ASSUME ClockSet, NEW k \in Keyed
  PROVE  Begins(k) % DayLength \in {times[1], times[2]}
<1>1. KeyFacts(k) /\ HourFacts
  BY KeyParts
<1>2. /\ DayLength > 0 /\ k[1] - 1 \in Int /\ times[1] < DayLength
  BY <1>1 DEF KeyFacts, HourFacts
<1>3. /\ (DayLength * (k[1] - 1) + times[1]) % DayLength = times[1]
      /\ (DayLength * (k[1] - 1) + times[2]) % DayLength = times[2]
  BY <1>1, <1>2, Remainder DEF HourFacts
<1> QED BY <1>1, <1>3 DEF KeyFacts, Dawn

LEMMA DueBegins ==
  ASSUME ClockSet, NEW t \in 0..LastHour
  PROVE  /\ Cal!DueAt(t) # Cal!None =>
              Cal!KeyAt(t) \in Keyed /\ Begins(Cal!KeyAt(t)) = Wall(t) /\ Cal!KeyAt(t) = Cal!FirstIssueKey(t)
         /\ \A k \in Keyed : Begins(k) = Wall(t) => Cal!DueAt(t) # Cal!None
<1>1. /\ Cal!DateOf(t) \in Int /\ Cal!HourOf(t) \in Nat
      /\ Wall(t) = Dawn(Cal!DateOf(t)) + Cal!HourOf(t)
      /\ Cal!HourOf(t) = Wall(t) % DayLength
  BY WallParts
<1>2. ASSUME Cal!DueAt(t) # Cal!None
      PROVE  Cal!KeyAt(t) \in Keyed /\ Begins(Cal!KeyAt(t)) = Wall(t) /\ Cal!KeyAt(t) = Cal!FirstIssueKey(t)
  <2> DEFINE d == Cal!DateOf(t)
             h == Cal!HourOf(t)
             k == Cal!KeyAt(t)
             f == Cal!FirstIssueKey(t)
  <2>1. \/ h = times[1] /\ k = <<d, "morning">>
        \/ h = times[2] /\ h # times[1] /\ k = <<d, "evening">>
    BY <1>2 DEF Cal!DueAt, Cal!KeyAt
  <2>2. \/ h >= times[2] /\ f = <<d, "evening">>
        \/ h < times[2] /\ h >= times[1] /\ f = <<d, "morning">>
        \/ h < times[2] /\ h < times[1]
    BY <1>1, SetFacts DEF Cal!FirstIssueKey
  <2> HIDE DEF d, h, k, f
  <2>3. k \in Keyed /\ KeyFacts(k) /\ HourFacts
    BY <1>1, <2>1, KeyParts DEF Keyed, d
  <2>4. k = f
    BY <1>1, <2>1, <2>2, <2>3 DEF HourFacts
  <2>5. Begins(k) = Wall(t)
    BY <1>1, <2>1, <2>3 DEF KeyFacts, d, h
  <2> QED BY <2>3, <2>4, <2>5 DEF k, f
<1>3. ASSUME NEW k \in Keyed, Begins(k) = Wall(t) PROVE Cal!DueAt(t) # Cal!None
  <2>1. Wall(t) % DayLength = times[1] \/ Wall(t) % DayLength = times[2]
    BY <1>3, HourOfKey
  <2> QED BY <1>1, <2>1 DEF Cal!DueAt, Cal!None
<1> QED BY <1>2, <1>3

(* Publish hours that follow each other are of different periods. *)
LEMMA Alternate ==
  ASSUME ClockSet, NEW j \in Keyed, NEW k \in Keyed, Begins(j) < Begins(k),
         \A i \in Keyed : ~ (Begins(j) < Begins(i) /\ Begins(i) < Begins(k))
  PROVE  j[2] # k[2]
<1> SUFFICES ASSUME j[2] = k[2] PROVE FALSE
  OBVIOUS
<1>1. HourFacts /\ KeyFacts(j) /\ KeyFacts(k)
  BY KeyParts
<1>2. j[1] < k[1]
  <2>1. j[1] # k[1]
    BY <1>1 DEF KeyFacts
  <2>2. k[1] < j[1] => Begins(k) < Begins(j)
    BY LaterDay
  <2> QED BY <1>1, <2>1, <2>2 DEF KeyFacts
<1>3. CASE j[2] = "morning"
  <2> DEFINE i == <<j[1], "evening">>
  <2>1. i \in Keyed /\ i[1] = j[1] /\ i[2] = "evening"
    BY <1>1 DEF Keyed, KeyFacts
  <2> HIDE DEF i
  <2>2. KeyFacts(i) /\ Begins(i) < Begins(k)
    BY <1>2, <2>1, LaterDay, KeyParts
  <2>3. Begins(j) < Begins(i)
    BY <1>1, <1>3, <2>1, <2>2 DEF KeyFacts, HourFacts
  <2> QED BY <2>1, <2>2, <2>3
<1>4. CASE j[2] = "evening"
  <2> DEFINE i == <<k[1], "morning">>
  <2>1. i \in Keyed /\ i[1] = k[1] /\ i[2] = "morning"
    BY <1>1 DEF Keyed, KeyFacts
  <2> HIDE DEF i
  <2>2. KeyFacts(i) /\ Begins(j) < Begins(i)
    BY <1>2, <2>1, LaterDay, KeyParts
  <2>3. Begins(i) < Begins(k)
    BY <1>1, <1>4, <2>1, <2>2 DEF KeyFacts, HourFacts
  <2> QED BY <2>1, <2>2, <2>3
<1> QED BY <1>1, <1>3, <1>4 DEF KeyFacts

-----------------------------------------------------------------------------
(* From hour to hour. *)

(* No publish hour is left out. *)
LEMMA NoneLeftOut ==
  ASSUME ClockSet, NEW t \in 1..LastHour
  PROVE  /\ t - 1 \in 0..LastHour /\ t \in 0..LastHour
         /\ Wall(t - 1) \in Int /\ Wall(t) \in Int /\ Wall(t - 1) <= Wall(t)
         /\ \A k \in Keyed : ~ (Wall(t - 1) < Begins(k) /\ Begins(k) < Wall(t))
<1>1. t - 1 \in 0..LastHour /\ t \in 0..LastHour /\ t \in Int
  BY SetFacts
<1>2. /\ Wall(t - 1) = t - 1 + zone[t - 1] /\ Wall(t) = t + zone[t]
      /\ zone[t - 1] \in Int /\ zone[t] \in Int
  BY <1>1, SetFacts DEF Wall
<1>3. /\ t - 1 + zone[t - 1] <= t + zone[t]
      /\ \A w \in (t + zone[t - 1])..(t + zone[t] - 1) : w % DayLength \notin {times[1], times[2]}
  BY SkipAssumption DEF ClockSet
<1>4. ASSUME NEW k \in Keyed, Wall(t - 1) < Begins(k), Begins(k) < Wall(t) PROVE FALSE
  <2>1. Begins(k) \in Int
    BY KeyParts DEF KeyFacts
  <2>2. Begins(k) \in (t + zone[t - 1])..(t + zone[t] - 1)
    BY <1>1, <1>2, <1>4, <2>1
  <2> QED BY <1>3, <2>2, HourOfKey
<1> QED BY <1>1, <1>2, <1>3, <1>4

LEMMA OneHourOn ==
  ASSUME ClockSet, NEW t \in 1..LastHour
  PROVE  LET f == Cal!FirstIssueKey(t)
             g == Cal!FirstIssueKey(t - 1)
         IN  f = g \/ (f[2] # g[2] /\ Cal!DueAt(t) # Cal!None)
<1> DEFINE f == Cal!FirstIssueKey(t)
           g == Cal!FirstIssueKey(t - 1)
<1>1. /\ t - 1 \in 0..LastHour /\ t \in 0..LastHour
      /\ Wall(t - 1) \in Int /\ Wall(t) \in Int /\ Wall(t - 1) <= Wall(t)
      /\ \A k \in Keyed : ~ (Wall(t - 1) < Begins(k) /\ Begins(k) < Wall(t))
  BY NoneLeftOut
<1>2. /\ f \in Keyed /\ Begins(f) <= Wall(t)
      /\ \A k \in Keyed : Begins(k) <= Wall(t) => Begins(k) <= Begins(f)
      /\ g \in Keyed /\ Begins(g) <= Wall(t - 1)
      /\ \A k \in Keyed : Begins(k) <= Wall(t - 1) => Begins(k) <= Begins(g)
  BY <1>1, FirstIsLatest
<1> HIDE DEF f, g
<1>3. \A k \in Keyed : Begins(k) \in Int
  BY KeyParts DEF KeyFacts
<1>4. Begins(g) <= Begins(f)
  BY <1>1, <1>2, <1>3
<1>5. CASE Begins(f) = Begins(g)
  BY <1>2, <1>5, OneBeginning DEF f, g
<1>6. CASE Begins(g) < Begins(f)
  <2>1. ~ (Begins(f) <= Wall(t - 1))
    BY <1>1, <1>2, <1>3, <1>6
  <2>2. Begins(f) = Wall(t)
    BY <1>1, <1>2, <1>3, <2>1
  <2>3. \A i \in Keyed : ~ (Begins(g) < Begins(i) /\ Begins(i) < Begins(f))
    BY <1>1, <1>2, <1>3, <2>2
  <2>4. g[2] # f[2]
    BY <1>2, <1>6, <2>3, Alternate
  <2>5. Cal!DueAt(t) # Cal!None
    BY <1>1, <1>2, <2>2, DueBegins
  <2> QED BY <2>4, <2>5 DEF f, g
<1> QED BY <1>2, <1>3, <1>4, <1>5, <1>6

LEMMA LeastNat ==
  ASSUME NEW T, T \subseteq Nat, T # {}
  PROVE  \E m \in T : \A n \in T : m <= n
<1> DEFINE Less == OpToRel(<, Nat)
<1>1. \E m \in T : \A n \in T : ~ (<<n, m>> \in Less)
  BY NatLessThanWellFounded, WFMin
<1>2. \A m, n \in Nat : n < m => <<n, m>> \in Less
  BY DEF OpToRel
<1>3. PICK m \in T : \A n \in T : ~ (<<n, m>> \in Less)
  BY <1>1
<1>4. ASSUME NEW n \in T PROVE m <= n
  <2>1. ~ (n < m)
    BY <1>2, <1>3
  <2> QED BY <2>1
<1> QED BY <1>4

LEMMA MissedIs ==
  ASSUME ClockSet, NEW t \in 0..LastHour, Cal!MissedHours(t) # {}
  PROVE  LET h == Cal!Missed(t)
         IN  /\ h \in 0..LastHour /\ t - CatchUp < h /\ h < t /\ Cal!DueAt(h) # Cal!None
             /\ \A g \in 0..LastHour : h < g /\ g < t => Cal!DueAt(g) = Cal!None
<1> DEFINE M == Cal!MissedHours(t)
           T == {t - g : g \in M}
<1>1. M = {h \in 0..LastHour : t - CatchUp < h /\ h < t /\ Cal!DueAt(h) # Cal!None}
  BY DEF Cal!MissedHours, Cal!Hours
<1>2. LastHour \in Nat /\ CatchUp \in Nat
  BY SetFacts
<1>3. T \subseteq Nat /\ T # {}
  BY <1>1, <1>2
<1>4. PICK m \in T : \A n \in T : m <= n
  BY <1>3, LeastNat
<1>5. PICK h \in M : m = t - h
  BY <1>4
<1>6. ASSUME NEW g \in M PROVE g <= h
  <2>1. m <= t - g
    BY <1>4
  <2>2. g \in Int /\ h \in Int /\ t \in Int
    BY <1>1, <1>2
  <2> QED BY <1>5, <2>1, <2>2
<1> DEFINE IsLast(n) == \A g \in M : g <= n
<1>7. /\ (CHOOSE n \in M : IsLast(n)) \in M
      /\ IsLast(CHOOSE n \in M : IsLast(n))
  <2>1. \E n \in M : IsLast(n)
    BY <1>6
  <2> HIDE DEF M, IsLast
  <2> QED BY <2>1
<1>8. Cal!Missed(t) \in M /\ \A g \in M : g <= Cal!Missed(t)
  BY <1>7, Zenon DEF Cal!Missed
<1> HIDE DEF M, T
<1>9. ASSUME NEW g \in 0..LastHour, Cal!Missed(t) < g, g < t PROVE Cal!DueAt(g) = Cal!None
  <2>1. g \in M => FALSE
    BY <1>1, <1>2, <1>8, <1>9
  <2>2. t - CatchUp < g
    BY <1>1, <1>2, <1>8, <1>9
  <2> QED BY <1>1, <1>9, <2>1, <2>2
<1> QED BY <1>1, <1>8, <1>9

(* Until the next publish hour the latest one stands. *)
LEMMA TillNextHour ==
  ASSUME ClockSet, NEW t \in 0..LastHour, Cal!DueAt(t) = Cal!None, Cal!MissedHours(t) # {}
  PROVE  \A g \in Cal!Missed(t)..t : Cal!FirstIssueKey(g) = Cal!KeyAt(Cal!Missed(t))
<1> DEFINE h == Cal!Missed(t)
           T == {g \in h..t : Cal!FirstIssueKey(g) # Cal!KeyAt(h)}
<1>1. /\ h \in 0..LastHour /\ h < t /\ Cal!DueAt(h) # Cal!None /\ LastHour \in Nat
      /\ \A g \in 0..LastHour : h < g /\ g < t => Cal!DueAt(g) = Cal!None
  BY MissedIs, SetFacts
<1> HIDE DEF h
<1>2. SUFFICES ASSUME T # {} PROVE FALSE
  BY DEF h
<1>3. T \subseteq Nat
  BY <1>1
<1>4. PICK m \in T : \A n \in T : m <= n
  BY <1>2, <1>3, LeastNat
<1>5. m # h
  BY <1>1, <1>4, DueBegins
<1>6. m \in 1..LastHour /\ m - 1 \in h..t /\ m - 1 \notin T /\ Cal!DueAt(m) = Cal!None
  BY <1>1, <1>4, <1>5
<1>7. Cal!FirstIssueKey(m) = Cal!FirstIssueKey(m - 1)
  BY <1>6, OneHourOn
<1> QED BY <1>4, <1>6, <1>7

(* A clock that is not set back goes on. *)
LEMMA GoesOn ==
  ASSUME ClockSet, ~ Cal!SetBack, NEW s \in 0..LastHour, NEW t \in 0..LastHour, s < t
  PROVE  Wall(s) \in Int /\ Wall(t) \in Int /\ Wall(s) < Wall(t)
<1> DEFINE T == {g \in 0..LastHour : s < g /\ zone[g] < zone[s]}
<1>1. LastHour \in Nat /\ \A g \in 0..LastHour : zone[g] \in Int
  BY SetFacts
<1>2. T = {}
  <2>1. SUFFICES ASSUME T # {} PROVE FALSE
    OBVIOUS
  <2>2. T \subseteq Nat
    BY <1>1
  <2>3. PICK m \in T : \A n \in T : m <= n
    BY <2>1, <2>2, LeastNat
  <2>4. m \in 0..LastHour /\ m - 1 \in 0..LastHour /\ m > 0 /\ s <= m - 1 /\ zone[m] < zone[s]
    BY <1>1, <2>3
  <2>5. zone[m] >= zone[m - 1]
    BY <1>1, <2>4 DEF Cal!SetBack, Cal!Hours
  <2>6. m - 1 \notin T
    BY <1>1, <2>3, <2>4
  <2>7. zone[m - 1] >= zone[s]
    BY <1>1, <2>4, <2>6
  <2> QED BY <1>1, <2>4, <2>5, <2>7
<1>3. zone[t] >= zone[s]
  BY <1>1, <1>2
<1> QED BY <1>1, <1>3 DEF Wall

-----------------------------------------------------------------------------
(* The invariants of the ticks, the runs and the wizard. *)

(* The types of the clock's part, as far as the proofs need them. *)
ClockTyped ==
  /\ ClockSet /\ hour \in 0..LastHour /\ moves \in Nat /\ ticked \in BOOLEAN
  /\ \/ plan = Cal!Asleep
     \/ plan \in [what : {"due"}, key : {Cal!NoKey}, beside : BOOLEAN]
     \/ plan \in [what : {"missed"}, key : Keyed, beside : BOOLEAN]
  /\ wizard \in [at : Cal!Steps, key : Keyed \cup {Cal!NoKey}, since : 0..LastHour,
                 heard : {"nothing", "ok", "failed"}]
  /\ \/ container = Cal!NoRun
     \/ container \in [by : Cal!Starters, key : Keyed, since : 0..LastHour,
                       began : 0..LastHour, stored : BOOLEAN]
  /\ ledger \subseteq [period : Cal!Periods, hour : 0..LastHour]

Asks == wizard.at \in {"asked", "waiting"}
Busy == container # Cal!NoRun

(* A plan is of this hour, before the tick is over; a run and a wizard's   *)
(* wait end within the hour after they were asked for; and a tick comes as *)
(* its hour begins, before a run of that hour has stored.                  *)
InTheirHour ==
  /\ plan # Cal!Asleep => ~ticked
  /\ Busy => /\ container.since <= container.began /\ container.began <= hour
             /\ hour <= container.since + 1
             /\ container.stored /\ container.began = hour => ticked
  /\ Asks => wizard.key \in Keyed /\ wizard.since <= hour /\ hour <= wizard.since + 1

(* What the wizard asks for is the issue of the hour it asked in. *)
AsksOfItsHour ==
  moves = 0 =>
    /\ Asks => wizard.key = Cal!FirstIssueKey(wizard.since)
    /\ Busy /\ container.by = "wizard" => container.key = Cal!FirstIssueKey(container.since)

ClockInv == ClockTyped /\ InTheirHour /\ AsksOfItsHour

(* As far as first_issue_key's promise goes. *)
AsSet == moves = 0 /\ ~ Cal!SetBack

(* A key kept is of an hour begun before any tick to come, and its row is  *)
(* there for as long as a tick may ask for it.                             *)
KeptHasRow ==
  AsSet => \A k \in kept : \E s, t \in 0..LastHour :
    /\ k = Cal!FirstIssueKey(s) /\ s <= t /\ t <= hour /\ (~ticked => s < hour)
    /\ hour - CatchUp < t => [period |-> k[2], hour |-> t] \in ledger

(* A tick plans a key that is kept, or is to be before its run begins,     *)
(* only beside that key's run.                                             *)
PlansBeside ==
  AsSet /\ plan.what = "missed" =>
    /\ plan.key \in kept => plan.beside
    /\ Busy /\ container.key = plan.key /\ container.began < hour => plan.beside

(* A tick's run has a key that is kept only if it was planned beside it. *)
TicksLeaveKept ==
  AsSet /\ Busy /\ container.by = "tick" /\ container.key \in kept => container.key \in overtaken

StandInv == ClockInv /\ KeptHasRow /\ PlansBeside /\ TicksLeaveKept

(* A run is for the latest issue of the hour it was asked in, and a missed *)
(* hour planned is the latest there is.                                    *)
OfTheLatest ==
  moves = 0 =>
    /\ Busy => container.key = Cal!FirstIssueKey(container.since)
    /\ Busy /\ container.stored => container.key \in stored
    /\ plan.what = "missed" => plan.key = Cal!FirstIssueKey(hour)

(* A row is of the latest issue of its hour or of the one before, and that *)
(* issue is stored.                                                        *)
RowsAreStored ==
  moves = 0 =>
    \A r \in ledger : \E s \in 0..LastHour :
      /\ s <= r.hour /\ r.hour <= s + 1 /\ r.hour <= hour
      /\ Cal!FirstIssueKey(s) \in stored /\ r.period = Cal!FirstIssueKey(s)[2]

(* The wizard hears ok, and is done, only once its issue is stored. *)
HeardIsStored ==
  moves = 0 /\ ((Asks /\ wizard.heard = "ok") \/ wizard.at = "done") => wizard.key \in stored

RowsInv == ClockInv /\ OfTheLatest /\ RowsAreStored /\ HeardIsStored

LEMMA SameIssues ==
  ASSUME UNCHANGED <<zone, times>>
  PROVE  /\ \A t : Cal!FirstIssueKey(t)' = Cal!FirstIssueKey(t)
         /\ \A t : Cal!DueAt(t)' = Cal!DueAt(t)
         /\ Cal!SetBack' <=> Cal!SetBack
         /\ ClockSet => ClockSet'
BY DEF Cal!FirstIssueKey, Cal!DueAt, Cal!DateOf, Cal!HourOf, Cal!SetBack, Cal!Hours, ClockSet

(* The keys that ticks and the wizard pick. *)
LEMMA PickedKeys ==
  ASSUME ClockTyped
  PROVE  /\ Cal!FirstIssueKey(hour) \in Keyed
         /\ Cal!DueAt(hour) # Cal!None =>
              Cal!KeyAt(hour) \in Keyed /\ Cal!KeyAt(hour) = Cal!FirstIssueKey(hour)
         /\ Cal!MissedHours(hour) # {} => Cal!KeyAt(Cal!Missed(hour)) \in Keyed
<1>1. ClockSet /\ hour \in 0..LastHour
  BY DEF ClockTyped
<1>2. Cal!FirstIssueKey(hour) \in Keyed
  BY <1>1, FirstIsLatest
<1>3. Cal!DueAt(hour) # Cal!None =>
        Cal!KeyAt(hour) \in Keyed /\ Cal!KeyAt(hour) = Cal!FirstIssueKey(hour)
  BY <1>1, DueBegins
<1>4. ASSUME Cal!MissedHours(hour) # {} PROVE Cal!KeyAt(Cal!Missed(hour)) \in Keyed
  <2>1. Cal!Missed(hour) \in 0..LastHour /\ Cal!DueAt(Cal!Missed(hour)) # Cal!None
    BY <1>1, <1>4, MissedIs
  <2> QED BY <1>1, <2>1, DueBegins
<1> QED BY <1>2, <1>3, <1>4

LEMMA InitClock ==
  ASSUME Cal!Init
  PROVE  ClockInv
<1>1. ClockSet /\ moves = 0 /\ hour = 0 /\ ticked = FALSE /\ plan = Cal!Asleep
      /\ wizard = Cal!Idle("ready") /\ container = Cal!NoRun /\ ledger = {}
  BY DEF Cal!Init, ClockSet
<1>2. 0 \in 0..LastHour
  BY ClockAssumption
<1>3. ClockTyped
  BY <1>1, <1>2 DEF ClockTyped, Cal!Idle, Cal!Steps
<1>4. ~Busy /\ ~Asks
  BY <1>1 DEF Busy, Asks, Cal!Idle
<1> QED BY <1>1, <1>3, <1>4 DEF ClockInv, InTheirHour, AsksOfItsHour

(* A run that is begun: of a key, asked for in this hour or the one before. *)
Begun(by, key, since) ==
  [by |-> by, key |-> key, since |-> since, began |-> hour, stored |-> FALSE]

LEMMA StartsTyped ==
  ASSUME ClockTyped, NEW by \in Cal!Starters, NEW key \in Keyed, NEW since \in 0..LastHour,
         Cal!Start(by, key, since)
  PROVE  \/ container # Cal!NoRun /\ container' = container
         \/ /\ container = Cal!NoRun /\ container' = Begun(by, key, since)
            /\ container' # Cal!NoRun
            /\ container' \in [by : Cal!Starters, key : Keyed, since : 0..LastHour,
                               began : 0..LastHour, stored : BOOLEAN]
BY DEF ClockTyped, Cal!Start, Begun, Cal!NoRun

LEMMA AdvanceHourClock ==
  ASSUME ClockInv, Cal!AdvanceHour
  PROVE  ClockInv'
<1>1. /\ UNCHANGED <<zone, times, moves, plan, wizard, container>>
      /\ ticked /\ ticked' = FALSE /\ hour < LastHour /\ hour' = hour + 1
      /\ container # Cal!NoRun => container.since = hour
      /\ wizard.at \in {"asked", "waiting"} => wizard.since = hour
      /\ ledger' \subseteq ledger
  BY DEF Cal!AdvanceHour
<1>2. hour' \in 0..LastHour /\ hour \in 0..LastHour /\ LastHour \in Nat
  BY <1>1, ClockAssumption DEF ClockInv, ClockTyped
<1>3. ClockTyped'
  BY <1>1, <1>2, SameIssues DEF ClockInv, ClockTyped
<1>4. InTheirHour'
  <2>1. plan' = Cal!Asleep
    BY <1>1 DEF ClockInv, InTheirHour
  <2>2. Busy => container.since \in Int /\ container.began \in Int
    BY <1>2 DEF ClockInv, ClockTyped, Busy
  <2> QED BY <1>1, <1>2, <2>1, <2>2 DEF ClockInv, InTheirHour, Busy, Asks
<1>5. AsksOfItsHour'
  BY <1>1, SameIssues DEF ClockInv, AsksOfItsHour, Busy, Asks
<1> QED BY <1>3, <1>4, <1>5 DEF ClockInv

LEMMA MoveScheduleClock ==
  ASSUME ClockInv, Cal!MoveSchedule
  PROVE  ClockInv'
<1>1. /\ UNCHANGED <<zone, hour, ticked, plan, wizard, container, ledger>>
      /\ times' \in Schedules /\ moves' = moves + 1
  BY DEF Cal!MoveSchedule, Cal!stores
<1>2. ClockTyped'
  BY <1>1 DEF ClockInv, ClockTyped, ClockSet
<1>3. InTheirHour'
  BY <1>1 DEF ClockInv, InTheirHour, Busy, Asks
<1>4. AsksOfItsHour'
  BY <1>1 DEF ClockInv, ClockTyped, AsksOfItsHour
<1> QED BY <1>2, <1>3, <1>4 DEF ClockInv

LEMMA PlanClock ==
  ASSUME ClockInv, Cal!PlanDue \/ Cal!PlanCatchUp
  PROVE  ClockInv'
<1>1. /\ UNCHANGED <<zone, times, moves, hour, ticked, wizard, container, ledger>> /\ ~ticked
      /\ \/ plan' \in [what : {"due"}, key : {Cal!NoKey}, beside : BOOLEAN]
         \/ plan' \in [what : {"missed"}, key : Keyed, beside : BOOLEAN]
  <2>1. ASSUME NEW what, NEW key, Cal!Plan(what, key)
        PROVE  /\ UNCHANGED <<zone, times, moves, hour, ticked, wizard, container, ledger>> /\ ~ticked
               /\ plan' \in [what : {what}, key : {key}, beside : BOOLEAN]
    BY <2>1 DEF Cal!Plan, Cal!clock, Cal!stores
  <2>2. CASE Cal!PlanDue
    BY <2>1, <2>2 DEF Cal!PlanDue
  <2>3. CASE Cal!PlanCatchUp
    BY <2>1, <2>3, PickedKeys DEF Cal!PlanCatchUp, ClockInv
  <2> QED BY <2>2, <2>3
<1>2. ClockTyped'
  BY <1>1, SameIssues DEF ClockInv, ClockTyped
<1>3. InTheirHour'
  BY <1>1 DEF ClockInv, InTheirHour, Busy, Asks
<1>4. AsksOfItsHour'
  BY <1>1, SameIssues DEF ClockInv, AsksOfItsHour, Busy, Asks
<1> QED BY <1>2, <1>3, <1>4 DEF ClockInv

LEMMA StayAsleepClock ==
  ASSUME ClockInv, Cal!StayAsleep
  PROVE  ClockInv'
<1>1. /\ UNCHANGED <<zone, times, moves, hour, plan, wizard, container, ledger>>
      /\ ticked' = TRUE /\ plan = Cal!Asleep
  BY DEF Cal!StayAsleep, Cal!stores
<1>2. ClockTyped'
  BY <1>1, SameIssues DEF ClockInv, ClockTyped
<1>3. InTheirHour'
  BY <1>1 DEF ClockInv, InTheirHour, Busy, Asks
<1>4. AsksOfItsHour'
  BY <1>1, SameIssues DEF ClockInv, AsksOfItsHour, Busy, Asks
<1> QED BY <1>2, <1>3, <1>4 DEF ClockInv

(* What a tick starts: nothing beside a run, the hour planned, or this one. *)
LEMMA TickStarts ==
  ASSUME ClockInv, Cal!StartTick
  PROVE  /\ UNCHANGED <<zone, times, moves, hour, wizard, ledger, stored, kept>>
         /\ plan' = Cal!Asleep /\ ticked' = TRUE /\ plan # Cal!Asleep /\ ~ticked
         /\ overtaken' = IF plan.beside THEN overtaken \cup {plan.key} ELSE overtaken
         /\ \/ container' = container
            \/ \E key \in Keyed :
                 /\ ~Busy /\ container' = Begun("tick", key, hour) /\ Busy'
                 /\ container' \in [by : Cal!Starters, key : Keyed, since : 0..LastHour,
                                    began : 0..LastHour, stored : BOOLEAN]
                 /\ \/ plan.what = "missed" /\ key = plan.key
                    \/ Cal!DueAt(hour) # Cal!None /\ key = Cal!KeyAt(hour)
<1>1. /\ UNCHANGED <<zone, times, moves, hour, wizard, ledger, stored, kept>>
      /\ plan' = Cal!Asleep /\ ticked' = TRUE /\ plan # Cal!Asleep
      /\ overtaken' = IF plan.beside THEN overtaken \cup {plan.key} ELSE overtaken
      /\ \/ plan.what = "missed" /\ Cal!Start("tick", plan.key, hour)
         \/ Cal!DueAt(hour) # Cal!None /\ Cal!Start("tick", Cal!KeyAt(hour), hour)
         \/ container' = container
  BY DEF Cal!StartTick, Cal!stores
<1>2. ClockTyped /\ hour \in 0..LastHour /\ "tick" \in Cal!Starters /\ ~ticked
  BY <1>1 DEF ClockInv, ClockTyped, InTheirHour, Cal!Starters
<1>3. CASE plan.what = "missed" /\ Cal!Start("tick", plan.key, hour)
  <2>1. plan.key \in Keyed
    BY <1>1, <1>2, <1>3 DEF ClockTyped
  <2> QED BY <1>1, <1>2, <1>3, <2>1, StartsTyped DEF Busy
<1>4. CASE Cal!DueAt(hour) # Cal!None /\ Cal!Start("tick", Cal!KeyAt(hour), hour)
  <2>1. Cal!KeyAt(hour) \in Keyed
    BY <1>2, <1>4, PickedKeys
  <2> QED BY <1>1, <1>2, <1>4, <2>1, StartsTyped DEF Busy
<1> QED BY <1>1, <1>2, <1>3, <1>4

LEMMA StartTickClock ==
  ASSUME ClockInv, Cal!StartTick
  PROVE  ClockInv'
<1>1. /\ UNCHANGED <<zone, times, moves, hour, wizard, ledger>>
      /\ plan' = Cal!Asleep /\ ticked' = TRUE
      /\ \/ container' = container
         \/ \E key \in Keyed :
              /\ ~Busy /\ container' = Begun("tick", key, hour) /\ Busy'
              /\ container' \in [by : Cal!Starters, key : Keyed, since : 0..LastHour,
                                 began : 0..LastHour, stored : BOOLEAN]
  BY TickStarts
<1>2. ClockTyped'
  BY <1>1, SameIssues DEF ClockInv, ClockTyped
<1>3. InTheirHour' /\ AsksOfItsHour'
  <2>1. hour \in Int
    BY DEF ClockInv, ClockTyped
  <2>2. CASE container' = container
    BY <1>1, <2>2, SameIssues DEF ClockInv, InTheirHour, AsksOfItsHour, Busy, Asks
  <2>3. CASE \E key \in Keyed : ~Busy /\ container' = Begun("tick", key, hour) /\ Busy'
    BY <1>1, <2>1, <2>3, SameIssues DEF ClockInv, InTheirHour, AsksOfItsHour, Begun, Asks
  <2> QED BY <1>1, <2>2, <2>3
<1> QED BY <1>2, <1>3 DEF ClockInv

LEMMA AskClock ==
  ASSUME ClockInv, Cal!Ask
  PROVE  ClockInv'
<1>1. /\ UNCHANGED <<zone, times, moves, hour, ticked, plan, container, ledger>>
      /\ wizard' = [at |-> "asked", key |-> Cal!FirstIssueKey(hour), since |-> hour,
                    heard |-> "nothing"]
  BY DEF Cal!Ask, Cal!clock, Cal!stores
<1>2. Cal!FirstIssueKey(hour) \in Keyed /\ hour \in 0..LastHour
  BY PickedKeys DEF ClockInv, ClockTyped
<1>3. ClockTyped'
  BY <1>1, <1>2, SameIssues DEF ClockInv, ClockTyped, Cal!Steps
<1>4. InTheirHour'
  BY <1>1, <1>2 DEF ClockInv, InTheirHour, Busy, Asks
<1>5. AsksOfItsHour'
  BY <1>1, SameIssues DEF ClockInv, AsksOfItsHour, Busy, Asks
<1> QED BY <1>3, <1>4, <1>5 DEF ClockInv

(* What the page's start comes to: a run of its own, or the one under way. *)
LEMMA PostStarts ==
  ASSUME ClockInv, Cal!Post
  PROVE  /\ UNCHANGED <<zone, times, moves, hour, ticked, plan, ledger, stored, kept, overtaken>>
         /\ Asks /\ wizard.at = "asked"
         /\ \/ wizard' = Cal!Idle("failed") /\ container' = container
            \/ /\ wizard' = [wizard EXCEPT !.at = "waiting"]
               /\ \/ container' = container
                  \/ /\ ~Busy /\ container' = Begun("wizard", wizard.key, wizard.since) /\ Busy'
                     /\ container' \in [by : Cal!Starters, key : Keyed, since : 0..LastHour,
                                        began : 0..LastHour, stored : BOOLEAN]
<1>1. /\ UNCHANGED <<zone, times, moves, hour, ticked, plan, ledger, stored, kept, overtaken>>
      /\ wizard.at = "asked"
      /\ \/ wizard' = Cal!Idle("failed") /\ container' = container
         \/ wizard' = [wizard EXCEPT !.at = "waiting"] /\ Cal!Start("wizard", wizard.key, wizard.since)
  BY DEF Cal!Post, Cal!clock, Cal!stores
<1>2. ClockTyped /\ wizard.key \in Keyed /\ wizard.since \in 0..LastHour /\ "wizard" \in Cal!Starters
  BY <1>1 DEF ClockInv, ClockTyped, InTheirHour, Asks, Cal!Starters
<1>3. CASE Cal!Start("wizard", wizard.key, wizard.since)
  BY <1>1, <1>2, <1>3, StartsTyped DEF Asks, Busy
<1> QED BY <1>1, <1>3 DEF Asks

LEMMA PostClock ==
  ASSUME ClockInv, Cal!Post
  PROVE  ClockInv'
<1>1. /\ UNCHANGED <<zone, times, moves, hour, ticked, plan, ledger>> /\ Asks
      /\ \/ wizard' = Cal!Idle("failed") /\ container' = container
         \/ /\ wizard' = [wizard EXCEPT !.at = "waiting"]
            /\ \/ container' = container
               \/ /\ ~Busy /\ container' = Begun("wizard", wizard.key, wizard.since) /\ Busy'
                  /\ container' \in [by : Cal!Starters, key : Keyed, since : 0..LastHour,
                                     began : 0..LastHour, stored : BOOLEAN]
  BY PostStarts
<1>2. wizard \in [at : Cal!Steps, key : Keyed \cup {Cal!NoKey}, since : 0..LastHour,
                  heard : {"nothing", "ok", "failed"}]
      /\ wizard.since \in Int /\ hour \in Int /\ 0 \in 0..LastHour
  BY ClockAssumption DEF ClockInv, ClockTyped
<1>3. /\ wizard' \in [at : Cal!Steps, key : Keyed \cup {Cal!NoKey}, since : 0..LastHour,
                      heard : {"nothing", "ok", "failed"}]
      /\ Asks' => wizard'.key = wizard.key /\ wizard'.since = wizard.since
  BY <1>1, <1>2 DEF Cal!Idle, Cal!Steps, Asks
<1>4. ClockTyped'
  BY <1>1, <1>3, SameIssues DEF ClockInv, ClockTyped
<1>5. InTheirHour' /\ AsksOfItsHour'
  <2>1. CASE container' = container
    BY <1>1, <1>3, <2>1, SameIssues DEF ClockInv, InTheirHour, AsksOfItsHour, Busy
  <2>2. CASE ~Busy /\ container' = Begun("wizard", wizard.key, wizard.since) /\ Busy'
    BY <1>1, <1>2, <1>3, <2>2, SameIssues DEF ClockInv, InTheirHour, AsksOfItsHour, Begun
  <2> QED BY <1>1, <2>1, <2>2
<1> QED BY <1>4, <1>5 DEF ClockInv

LEMMA WaitEnds ==
  ASSUME ClockInv, Cal!Hear \/ Cal!GiveUp
  PROVE  ClockInv'
<1>1. /\ UNCHANGED <<zone, times, moves, hour, ticked, plan, container, ledger>>
      /\ \/ wizard' = Cal!Idle("failed")
         \/ wizard' = [wizard EXCEPT !.at = "done"]
  BY DEF Cal!Hear, Cal!GiveUp, Cal!clock, Cal!stores
<1>2. wizard \in [at : Cal!Steps, key : Keyed \cup {Cal!NoKey}, since : 0..LastHour,
                  heard : {"nothing", "ok", "failed"}] /\ 0 \in 0..LastHour
  BY ClockAssumption DEF ClockInv, ClockTyped
<1>3. /\ wizard' \in [at : Cal!Steps, key : Keyed \cup {Cal!NoKey}, since : 0..LastHour,
                      heard : {"nothing", "ok", "failed"}]
      /\ ~Asks'
  BY <1>1, <1>2 DEF Cal!Idle, Cal!Steps, Asks
<1>4. ClockTyped'
  BY <1>1, <1>3, SameIssues DEF ClockInv, ClockTyped
<1>5. InTheirHour' /\ AsksOfItsHour'
  BY <1>1, <1>3, SameIssues DEF ClockInv, InTheirHour, AsksOfItsHour, Busy
<1> QED BY <1>4, <1>5 DEF ClockInv

LEMMA StoreIssueClock ==
  ASSUME ClockInv, Cal!StoreIssue
  PROVE  ClockInv'
<1>1. /\ UNCHANGED <<zone, times, moves, hour, ticked, plan, wizard, ledger>> /\ Busy
      /\ container' = [container EXCEPT !.stored = TRUE]
      /\ container.began = hour => ticked
  BY DEF Cal!StoreIssue, Cal!clock, Busy
<1>2. container \in [by : Cal!Starters, key : Keyed, since : 0..LastHour,
                     began : 0..LastHour, stored : BOOLEAN]
  BY <1>1 DEF ClockInv, ClockTyped, Busy
<1>3. /\ container' \in [by : Cal!Starters, key : Keyed, since : 0..LastHour,
                         began : 0..LastHour, stored : BOOLEAN]
      /\ container'.by = container.by /\ container'.key = container.key
      /\ container'.since = container.since /\ container'.began = container.began
  BY <1>1, <1>2
<1>4. ClockTyped'
  BY <1>1, <1>3, SameIssues DEF ClockInv, ClockTyped
<1>5. InTheirHour' /\ AsksOfItsHour'
  BY <1>1, <1>3, SameIssues DEF ClockInv, InTheirHour, AsksOfItsHour, Asks
<1> QED BY <1>4, <1>5 DEF ClockInv

(* A row, and who hears of it. *)
LEMMA RunReports ==
  ASSUME ClockInv, Cal!EndRun
  PROVE  /\ UNCHANGED <<zone, times, moves, hour, ticked, plan, stored, overtaken>>
         /\ Busy /\ container' = Cal!NoRun /\ ~Busy'
         /\ container \in [by : Cal!Starters, key : Keyed, since : 0..LastHour,
                           began : 0..LastHour, stored : BOOLEAN]
         /\ \E ok \in {FALSE, container.stored} :
              /\ ledger' = IF ok THEN ledger \cup {[period |-> container.key[2], hour |-> hour]}
                           ELSE ledger
              /\ kept' = IF ok /\ container.by = "wizard" THEN kept \cup {container.key} ELSE kept
              /\ wizard' \in [at : Cal!Steps, key : Keyed \cup {Cal!NoKey}, since : 0..LastHour,
                              heard : {"nothing", "ok", "failed"}]
              /\ wizard'.at = wizard.at /\ wizard'.key = wizard.key /\ wizard'.since = wizard.since
              /\ ~Asks => wizard' = wizard
              /\ Asks /\ wizard'.heard = "ok" => ok /\ container.key[2] = wizard.key[2]
<1>1. /\ UNCHANGED <<zone, times, moves, hour, ticked, plan, stored, overtaken>>
      /\ Busy /\ container' = Cal!NoRun /\ ~Busy'
  BY DEF Cal!EndRun, Cal!clock, Busy
<1>2. container \in [by : Cal!Starters, key : Keyed, since : 0..LastHour,
                     began : 0..LastHour, stored : BOOLEAN]
  BY <1>1 DEF ClockInv, ClockTyped, Busy
<1>3. wizard \in [at : Cal!Steps, key : Keyed \cup {Cal!NoKey}, since : 0..LastHour,
                  heard : {"nothing", "ok", "failed"}]
  BY DEF ClockInv, ClockTyped
<1>4. PICK ok \in {FALSE, container.stored} :
        /\ Cal!Report(container.key[2], ok)
        /\ kept' = IF ok /\ container.by = "wizard" THEN kept \cup {container.key} ELSE kept
  BY DEF Cal!EndRun
<1>5. ledger' = IF ok THEN ledger \cup {[period |-> container.key[2], hour |-> hour]} ELSE ledger
  BY <1>4 DEF Cal!Report
<1>6. \/ ~Asks /\ wizard' = wizard
      \/ Asks /\ container.key[2] # wizard.key[2] /\ wizard' = [wizard EXCEPT !.heard = "nothing"]
      \/ Asks /\ container.key[2] = wizard.key[2] /\ ok /\ wizard' = [wizard EXCEPT !.heard = "ok"]
      \/ Asks /\ container.key[2] = wizard.key[2] /\ ~ok /\ wizard' = [wizard EXCEPT !.heard = "failed"]
  BY <1>2, <1>4 DEF Cal!Report, Asks
<1>7. /\ wizard' \in [at : Cal!Steps, key : Keyed \cup {Cal!NoKey}, since : 0..LastHour,
                      heard : {"nothing", "ok", "failed"}]
      /\ wizard'.at = wizard.at /\ wizard'.key = wizard.key /\ wizard'.since = wizard.since
      /\ ~Asks => wizard' = wizard
      /\ Asks /\ wizard'.heard = "ok" => ok /\ container.key[2] = wizard.key[2]
  BY <1>3, <1>6
<1> QED BY <1>1, <1>2, <1>4, <1>5, <1>7

LEMMA EndRunClock ==
  ASSUME ClockInv, Cal!EndRun \/ Cal!Kill
  PROVE  ClockInv'
<1>1. /\ UNCHANGED <<zone, times, moves, hour, ticked, plan>> /\ container' = Cal!NoRun /\ ~Busy'
      /\ wizard' \in [at : Cal!Steps, key : Keyed \cup {Cal!NoKey}, since : 0..LastHour,
                      heard : {"nothing", "ok", "failed"}]
      /\ wizard'.at = wizard.at /\ wizard'.key = wizard.key /\ wizard'.since = wizard.since
      /\ ledger' \subseteq [period : Cal!Periods, hour : 0..LastHour]
  <2>1. CASE Cal!EndRun
    <3>1. [period |-> container.key[2], hour |-> hour] \in [period : Cal!Periods, hour : 0..LastHour]
      BY <2>1, RunReports DEF ClockInv, ClockTyped, Keyed, Cal!Periods
    <3>2. ledger' \subseteq ledger \cup {[period |-> container.key[2], hour |-> hour]}
      BY <2>1, RunReports
    <3> QED BY <2>1, <3>1, <3>2, RunReports DEF ClockInv, ClockTyped
  <2>2. CASE Cal!Kill
    BY <2>2 DEF Cal!Kill, Cal!clock, Cal!stores, ClockInv, ClockTyped, Busy
  <2> QED BY <2>1, <2>2
<1>2. ClockTyped'
  BY <1>1, SameIssues DEF ClockInv, ClockTyped
<1>3. InTheirHour' /\ AsksOfItsHour'
  BY <1>1, SameIssues DEF ClockInv, InTheirHour, AsksOfItsHour, Asks
<1> QED BY <1>2, <1>3 DEF ClockInv

LEMMA SameClock ==
  ASSUME ClockInv, UNCHANGED Cal!vars
  PROVE  ClockInv'
<1>1. UNCHANGED <<zone, times, moves, hour, ticked, plan, wizard, container, ledger>>
  BY DEF Cal!vars
<1>2. ClockTyped'
  BY <1>1, SameIssues DEF ClockInv, ClockTyped
<1>3. InTheirHour' /\ AsksOfItsHour'
  BY <1>1, SameIssues DEF ClockInv, InTheirHour, AsksOfItsHour, Asks, Busy
<1> QED BY <1>2, <1>3 DEF ClockInv

LEMMA NextClock ==
  ASSUME ClockInv, [Cal!Next]_Cal!vars
  PROVE  ClockInv'
BY AdvanceHourClock, MoveScheduleClock, PlanClock, StayAsleepClock, StartTickClock, AskClock,
   PostClock, WaitEnds, StoreIssueClock, EndRunClock, SameClock DEF Cal!Next

-----------------------------------------------------------------------------
(* The wizard's issue stands. *)

LEMMA InitStand ==
  ASSUME Cal!Init
  PROVE  StandInv
<1>1. kept = {} /\ plan = Cal!Asleep /\ container = Cal!NoRun
  BY DEF Cal!Init
<1> QED BY <1>1, InitClock DEF StandInv, KeptHasRow, PlansBeside, TicksLeaveKept, Busy, Cal!Asleep

(* The issue kept of a digest hour was asked for in that hour or later. *)
LEMMA KeptSince ==
  ASSUME ClockInv, KeptHasRow, AsSet, NEW h \in 0..LastHour,
         Cal!DueAt(h) # Cal!None, Cal!KeyAt(h) \in kept
  PROVE  \E s, t \in 0..LastHour :
           /\ h <= s /\ s <= t /\ t <= hour /\ (~ticked => s < hour)
           /\ hour - CatchUp < t => [period |-> Cal!KeyAt(h)[2], hour |-> t] \in ledger
<1>1. PICK s, t \in 0..LastHour :
        /\ Cal!KeyAt(h) = Cal!FirstIssueKey(s) /\ s <= t /\ t <= hour /\ (~ticked => s < hour)
        /\ hour - CatchUp < t => [period |-> Cal!KeyAt(h)[2], hour |-> t] \in ledger
  BY DEF KeptHasRow
<1>2. ClockSet
  BY DEF ClockInv, ClockTyped
<1>3. Begins(Cal!KeyAt(h)) = Wall(h) /\ Begins(Cal!KeyAt(h)) <= Wall(s)
  BY <1>1, <1>2, DueBegins, FirstIsLatest
<1>4. ~ (s < h)
  <2>1. SUFFICES ASSUME s < h PROVE FALSE
    OBVIOUS
  <2>2. Wall(s) \in Int /\ Wall(h) \in Int /\ Wall(s) < Wall(h)
    BY <1>2, <2>1, GoesOn DEF AsSet
  <2> QED BY <1>3, <2>2
<1>5. h <= s
  BY <1>4, ClockAssumption
<1> QED BY <1>1, <1>5

LEMMA KeptStays ==
  ASSUME KeptHasRow, UNCHANGED <<zone, times, moves, hour, kept>>, ledger \subseteq ledger',
         ticked => ticked'
  PROVE  KeptHasRow'
<1>1. SUFFICES ASSUME AsSet', NEW k \in kept'
               PROVE  \E s, t \in 0..LastHour :
                        /\ k = Cal!FirstIssueKey(s)' /\ s <= t /\ t <= hour' /\ (~ticked' => s < hour')
                        /\ hour' - CatchUp < t => [period |-> k[2], hour |-> t] \in ledger'
  BY DEF KeptHasRow
<1>2. AsSet /\ k \in kept
  BY <1>1, SameIssues DEF AsSet
<1>3. PICK s, t \in 0..LastHour :
        /\ k = Cal!FirstIssueKey(s) /\ s <= t /\ t <= hour /\ (~ticked => s < hour)
        /\ hour - CatchUp < t => [period |-> k[2], hour |-> t] \in ledger
  BY <1>2 DEF KeptHasRow
<1> QED BY <1>3, SameIssues

LEMMA AdvanceHourStand ==
  ASSUME StandInv, Cal!AdvanceHour
  PROVE  StandInv'
<1>1. /\ UNCHANGED <<zone, times, moves, plan, container, kept, overtaken>>
      /\ ticked /\ ticked' = FALSE /\ hour' = hour + 1
      /\ ledger' = {r \in ledger : r.hour > hour' - CatchUp}
  BY DEF Cal!AdvanceHour
<1>2. ClockInv'
  BY AdvanceHourClock DEF StandInv
<1>3. KeptHasRow'
  <2>1. SUFFICES ASSUME AsSet', NEW k \in kept'
                 PROVE  \E s, t \in 0..LastHour :
                          /\ k = Cal!FirstIssueKey(s)' /\ s <= t /\ t <= hour' /\ (~ticked' => s < hour')
                          /\ hour' - CatchUp < t => [period |-> k[2], hour |-> t] \in ledger'
    BY DEF KeptHasRow
  <2>2. AsSet /\ k \in kept
    BY <1>1, <2>1, SameIssues DEF AsSet
  <2>3. PICK s, t \in 0..LastHour :
          /\ k = Cal!FirstIssueKey(s) /\ s <= t /\ t <= hour
          /\ hour - CatchUp < t => [period |-> k[2], hour |-> t] \in ledger
    BY <2>2 DEF StandInv, KeptHasRow
  <2>4. hour \in Int /\ CatchUp \in Int /\ LastHour \in Int
    BY ClockAssumption DEF StandInv, ClockInv, ClockTyped
  <2>5. hour' - CatchUp < t => [period |-> k[2], hour |-> t] \in ledger'
    BY <1>1, <2>3, <2>4
  <2>6. s <= t /\ t <= hour' /\ s < hour' /\ k = Cal!FirstIssueKey(s)'
    BY <1>1, <2>3, <2>4, SameIssues
  <2> QED BY <2>5, <2>6
<1>4. PlansBeside'
  <2>1. plan' = Cal!Asleep
    BY <1>1 DEF StandInv, ClockInv, InTheirHour
  <2> QED BY <2>1 DEF PlansBeside, Cal!Asleep
<1>5. TicksLeaveKept'
  BY <1>1, SameIssues DEF StandInv, TicksLeaveKept, AsSet, Busy
<1> QED BY <1>2, <1>3, <1>4, <1>5 DEF StandInv

LEMMA MoveScheduleStand ==
  ASSUME StandInv, Cal!MoveSchedule
  PROVE  StandInv'
<1>1. ~AsSet'
  BY DEF Cal!MoveSchedule, StandInv, ClockInv, ClockTyped, AsSet
<1>2. ClockInv'
  BY MoveScheduleClock DEF StandInv
<1> QED BY <1>1, <1>2 DEF StandInv, KeptHasRow, PlansBeside, TicksLeaveKept

LEMMA PlanStand ==
  ASSUME StandInv, Cal!PlanDue \/ Cal!PlanCatchUp
  PROVE  StandInv'
<1>1. UNCHANGED <<zone, times, moves, hour, ticked, container, ledger, kept, overtaken>> /\ ~ticked
  BY DEF Cal!PlanDue, Cal!PlanCatchUp, Cal!Plan, Cal!clock, Cal!stores
<1>2. ClockInv'
  BY PlanClock DEF StandInv
<1>3. KeptHasRow'
  BY <1>1, KeptStays DEF StandInv
<1>4. TicksLeaveKept'
  BY <1>1, SameIssues DEF StandInv, TicksLeaveKept, AsSet, Busy
<1>5. CASE Cal!PlanDue
  BY <1>2, <1>3, <1>4, <1>5 DEF StandInv, PlansBeside, Cal!PlanDue, Cal!Plan
<1>6. CASE Cal!PlanCatchUp
  <2> DEFINE h == Cal!Missed(hour)
  <2>1. /\ plan'.key = Cal!KeyAt(h)
        /\ plan'.beside = (container # Cal!NoRun /\ Cal!KeyAt(h) = container.key)
        /\ Cal!MissedHours(hour) # {} /\ ~Cal!Done(h)
    BY <1>6 DEF Cal!PlanCatchUp, Cal!Plan
  <2>2. ClockSet /\ hour \in 0..LastHour /\ ClockInv
    BY DEF StandInv, ClockInv, ClockTyped
  <2>3. h \in 0..LastHour /\ hour - CatchUp < h /\ Cal!DueAt(h) # Cal!None
    BY <2>1, <2>2, MissedIs
  <2> HIDE DEF h
  <2>4. ASSUME AsSet, Cal!KeyAt(h) \in kept PROVE FALSE
    <3>1. PICK s, t \in 0..LastHour :
            /\ h <= s /\ s <= t
            /\ hour - CatchUp < t => [period |-> Cal!KeyAt(h)[2], hour |-> t] \in ledger
      BY <2>2, <2>3, <2>4, KeptSince DEF StandInv
    <3>2. [period |-> Cal!KeyAt(h)[2], hour |-> t] \in ledger /\ t >= h
      BY <2>2, <2>3, <3>1, ClockAssumption
    <3>3. Cal!KeyAt(h)[2] = Cal!DueAt(h)
      BY DEF Cal!KeyAt
    <3> QED BY <2>1, <3>2, <3>3 DEF Cal!Done, Cal!Counts
  <2>5. AsSet' => AsSet
    BY <1>1, SameIssues DEF AsSet
  <2>6. PlansBeside'
    BY <1>1, <2>1, <2>4, <2>5 DEF PlansBeside, Busy
  <2> QED BY <1>2, <1>3, <1>4, <2>6 DEF StandInv
<1> QED BY <1>5, <1>6

LEMMA StayAsleepStand ==
  ASSUME StandInv, Cal!StayAsleep
  PROVE  StandInv'
<1>1. /\ UNCHANGED <<zone, times, moves, hour, plan, container, ledger, kept, overtaken>>
      /\ ticked' = TRUE
  BY DEF Cal!StayAsleep, Cal!stores
<1>2. ClockInv' /\ KeptHasRow'
  BY <1>1, StayAsleepClock, KeptStays DEF StandInv
<1> QED BY <1>1, <1>2, SameIssues DEF StandInv, PlansBeside, TicksLeaveKept, AsSet, Busy

LEMMA StartTickStand ==
  ASSUME StandInv, Cal!StartTick
  PROVE  StandInv'
<1>1. /\ UNCHANGED <<zone, times, moves, hour, ledger, kept>>
      /\ plan' = Cal!Asleep /\ ticked' = TRUE /\ plan # Cal!Asleep /\ ~ticked
      /\ overtaken' = IF plan.beside THEN overtaken \cup {plan.key} ELSE overtaken
      /\ \/ container' = container
         \/ \E key \in Keyed :
              /\ ~Busy /\ container' = Begun("tick", key, hour)
              /\ \/ plan.what = "missed" /\ key = plan.key
                 \/ Cal!DueAt(hour) # Cal!None /\ key = Cal!KeyAt(hour)
  BY TickStarts DEF StandInv
<1>2. ClockInv' /\ KeptHasRow'
  BY <1>1, StartTickClock, KeptStays DEF StandInv
<1>3. PlansBeside'
  BY <1>1 DEF PlansBeside, Cal!Asleep
<1>4. TicksLeaveKept'
  <2>1. SUFFICES ASSUME AsSet', Busy', container'.by = "tick", container'.key \in kept
                 PROVE  container'.key \in overtaken'
    BY <1>1 DEF TicksLeaveKept
  <2>2. AsSet /\ overtaken \subseteq overtaken'
    BY <1>1, <2>1, SameIssues DEF AsSet
  <2>3. CASE container' = container
    BY <2>1, <2>2, <2>3 DEF StandInv, TicksLeaveKept, Busy
  <2>4. ASSUME NEW key \in Keyed, container' = Begun("tick", key, hour),
               plan.what = "missed" /\ key = plan.key
        PROVE  container'.key \in overtaken'
    BY <1>1, <2>1, <2>2, <2>4 DEF StandInv, PlansBeside, Begun
  <2>5. ASSUME NEW key \in Keyed, container' = Begun("tick", key, hour),
               Cal!DueAt(hour) # Cal!None /\ key = Cal!KeyAt(hour)
        PROVE  FALSE
    <3>1. hour \in 0..LastHour /\ Cal!KeyAt(hour) \in kept
      BY <2>1, <2>5 DEF StandInv, ClockInv, ClockTyped, Begun
    <3>2. \E s \in 0..LastHour : hour <= s /\ s < hour
      BY <1>1, <2>2, <2>5, <3>1, KeptSince DEF StandInv
    <3> QED BY <3>1, <3>2
  <2> QED BY <1>1, <2>3, <2>4, <2>5
<1> QED BY <1>2, <1>3, <1>4 DEF StandInv

LEMMA WizardStand ==
  ASSUME StandInv, Cal!Ask \/ Cal!Hear \/ Cal!GiveUp
  PROVE  StandInv'
<1>1. UNCHANGED <<zone, times, moves, hour, ticked, plan, container, ledger, kept, overtaken>>
  BY DEF Cal!Ask, Cal!Hear, Cal!GiveUp, Cal!clock, Cal!stores
<1>2. ClockInv' /\ KeptHasRow'
  BY <1>1, AskClock, WaitEnds, KeptStays DEF StandInv
<1> QED BY <1>1, <1>2, SameIssues DEF StandInv, PlansBeside, TicksLeaveKept, AsSet, Busy

LEMMA PostStand ==
  ASSUME StandInv, Cal!Post
  PROVE  StandInv'
<1>1. /\ UNCHANGED <<zone, times, moves, hour, ticked, plan, ledger, kept, overtaken>>
      /\ \/ container' = container
         \/ container' = Begun("wizard", wizard.key, wizard.since)
  BY PostStarts DEF StandInv
<1>2. ClockInv' /\ KeptHasRow' /\ hour \in Int
  BY <1>1, PostClock, KeptStays DEF StandInv, ClockInv, ClockTyped
<1>3. AsSet' => AsSet
  BY <1>1, SameIssues DEF AsSet
<1>4. CASE container' = container
  BY <1>1, <1>2, <1>3, <1>4 DEF StandInv, PlansBeside, TicksLeaveKept, Busy
<1>5. CASE container' = Begun("wizard", wizard.key, wizard.since)
  BY <1>1, <1>2, <1>3, <1>5 DEF StandInv, PlansBeside, TicksLeaveKept, Begun
<1> QED BY <1>1, <1>4, <1>5

LEMMA StoreIssueStand ==
  ASSUME StandInv, Cal!StoreIssue
  PROVE  StandInv'
<1>1. /\ UNCHANGED <<zone, times, moves, hour, ticked, plan, ledger, kept, overtaken>>
      /\ Busy /\ container' = [container EXCEPT !.stored = TRUE]
  BY DEF Cal!StoreIssue, Cal!clock, Busy
<1>2. /\ container'.by = container.by /\ container'.key = container.key
      /\ container'.began = container.began
  BY <1>1 DEF StandInv, ClockInv, ClockTyped, Busy
<1>3. ClockInv' /\ KeptHasRow'
  BY <1>1, StoreIssueClock, KeptStays DEF StandInv
<1> QED BY <1>1, <1>2, <1>3, SameIssues DEF StandInv, PlansBeside, TicksLeaveKept, AsSet

LEMMA EndRunStand ==
  ASSUME StandInv, Cal!EndRun
  PROVE  StandInv'
<1>1. ClockInv /\ ClockInv'
  BY EndRunClock DEF StandInv
<1>2. /\ UNCHANGED <<zone, times, moves, hour, ticked, plan, overtaken>>
      /\ Busy /\ ~Busy'
      /\ container \in [by : Cal!Starters, key : Keyed, since : 0..LastHour,
                        began : 0..LastHour, stored : BOOLEAN]
  BY <1>1, RunReports
<1>3. PICK ok \in {FALSE, container.stored} :
        /\ ledger' = IF ok THEN ledger \cup {[period |-> container.key[2], hour |-> hour]}
                     ELSE ledger
        /\ kept' = IF ok /\ container.by = "wizard" THEN kept \cup {container.key} ELSE kept
  BY <1>1, RunReports
<1>4. AsSet' => AsSet
  BY <1>2, SameIssues DEF AsSet
<1>5. /\ container.since <= container.began /\ container.began <= hour /\ hour \in 0..LastHour
      /\ container.since \in Int /\ container.began \in Int
      /\ ok /\ ~ticked => container.began < hour
  <2>1. /\ container.since <= container.began /\ container.began <= hour /\ hour \in 0..LastHour
        /\ container.since \in Int /\ container.began \in Int
        /\ container.stored /\ container.began = hour => ticked
    BY <1>1, <1>2 DEF ClockInv, ClockTyped, InTheirHour
  <2>2. ok => container.stored
    BY <1>3, Zenon
  <2>3. ok /\ ~ticked => container.began # hour
    BY <2>1, <2>2, Zenon
  <2>4. ok /\ ~ticked => container.began < hour
    BY <2>1, <2>3
  <2> QED BY <2>1, <2>4
<1>6. CASE kept' = kept
  <2>1. KeptHasRow'
    BY <1>2, <1>3, <1>6, KeptStays DEF StandInv
  <2>2. PlansBeside' /\ TicksLeaveKept'
    BY <1>2, <1>4, <1>6 DEF StandInv, PlansBeside, TicksLeaveKept
  <2> QED BY <1>1, <2>1, <2>2 DEF StandInv
<1>7. CASE ok /\ container.by = "wizard" /\ kept' = kept \cup {container.key}
  <2>1. KeptHasRow'
    <3>1. SUFFICES ASSUME AsSet', NEW k \in kept'
                   PROVE  \E s, t \in 0..LastHour :
                            /\ k = Cal!FirstIssueKey(s)' /\ s <= t /\ t <= hour' /\ (~ticked' => s < hour')
                            /\ hour' - CatchUp < t => [period |-> k[2], hour |-> t] \in ledger'
      BY DEF KeptHasRow
    <3>2. CASE k \in kept
      <4>1. PICK s, t \in 0..LastHour :
              /\ k = Cal!FirstIssueKey(s) /\ s <= t /\ t <= hour /\ (~ticked => s < hour)
              /\ hour - CatchUp < t => [period |-> k[2], hour |-> t] \in ledger
        BY <1>4, <3>1, <3>2 DEF StandInv, KeptHasRow
      <4> QED BY <1>2, <1>3, <4>1, SameIssues
    <3>3. CASE k = container.key
      <4>1. PICK s \in 0..LastHour : s = container.since
        BY <1>2
      <4>2. container.key = Cal!FirstIssueKey(s)
        BY <1>1, <1>2, <1>4, <1>7, <3>1, <4>1 DEF ClockInv, AsksOfItsHour, AsSet
      <4>3. k = Cal!FirstIssueKey(s)'
        BY <1>2, <3>3, <4>2, SameIssues
      <4>4. [period |-> k[2], hour |-> hour] \in ledger'
        BY <1>3, <1>7, <3>3
      <4>5. ~ticked' => s < hour'
        BY <1>2, <1>5, <1>7, <4>1
      <4>6. s <= hour' /\ hour' \in 0..LastHour /\ hour' = hour
        BY <1>2, <1>5, <4>1
      <4> QED BY <4>4, <4>5, <4>6, <4>3
    <3> QED BY <1>7, <3>2, <3>3
  <2>2. PlansBeside'
    <3>1. SUFFICES ASSUME AsSet', plan.what = "missed", plan.key \in kept' PROVE plan.beside
      BY <1>2 DEF PlansBeside
    <3>2. CASE plan.key \in kept
      BY <1>4, <3>1, <3>2 DEF StandInv, PlansBeside
    <3>3. CASE plan.key = container.key
      <4>1. ~ticked
        BY <1>1, <3>1 DEF ClockInv, InTheirHour, Cal!Asleep
      <4>2. container.began < hour
        BY <1>5, <1>7, <4>1
      <4> QED BY <1>2, <1>4, <3>1, <3>3, <4>2 DEF StandInv, PlansBeside
    <3> QED BY <1>7, <3>1, <3>2, <3>3
  <2>3. TicksLeaveKept'
    BY <1>2 DEF TicksLeaveKept
  <2> QED BY <1>1, <2>1, <2>2, <2>3 DEF StandInv
<1> QED BY <1>3, <1>6, <1>7

LEMMA KillStand ==
  ASSUME StandInv, Cal!Kill
  PROVE  StandInv'
<1>1. /\ UNCHANGED <<zone, times, moves, hour, ticked, plan, ledger, kept, overtaken>> /\ ~Busy'
  BY DEF Cal!Kill, Cal!clock, Cal!stores, Busy
<1>2. ClockInv' /\ KeptHasRow'
  BY <1>1, EndRunClock, KeptStays DEF StandInv
<1> QED BY <1>1, <1>2, SameIssues DEF StandInv, PlansBeside, TicksLeaveKept, AsSet

LEMMA SameStand ==
  ASSUME StandInv, UNCHANGED Cal!vars
  PROVE  StandInv'
<1>1. UNCHANGED <<zone, times, moves, hour, ticked, plan, container, ledger, kept, overtaken>>
  BY DEF Cal!vars
<1>2. ClockInv' /\ KeptHasRow'
  BY <1>1, SameClock, KeptStays DEF StandInv
<1> QED BY <1>1, <1>2, SameIssues DEF StandInv, PlansBeside, TicksLeaveKept, AsSet, Busy

LEMMA NextStand ==
  ASSUME StandInv, [Cal!Next]_Cal!vars
  PROVE  StandInv'
BY AdvanceHourStand, MoveScheduleStand, PlanStand, StayAsleepStand, StartTickStand, WizardStand,
   PostStand, StoreIssueStand, EndRunStand, KillStand, SameStand DEF Cal!Next

LEMMA ClockSteps ==
  ASSUME [IntakeNext]_all
  PROVE  [Cal!Next]_Cal!vars
<1>1. UNCHANGED ofClock => UNCHANGED Cal!vars
  BY DEF ofClock, Cal!vars
<1>2. CASE part = "feeds" /\ Next /\ UNCHANGED <<part, ofLetters, ofClock>>
  BY <1>1, <1>2
<1>3. CASE part = "letters" /\ Nl!Next /\ UNCHANGED <<part, vars, ofClock>>
  BY <1>1, <1>3
<1>4. CASE part = "clock" /\ Cal!Next /\ UNCHANGED <<part, vars, ofLetters>>
  BY <1>4
<1>5. CASE UNCHANGED all
  BY <1>1, <1>5 DEF all
<1> QED BY <1>2, <1>3, <1>4, <1>5 DEF IntakeNext

(* No tick's run stores an issue over the one the wizard's run has left    *)
(* (FirstIssueStands), unless the publish hours were moved, the clock set  *)
(* back, or the tick planned beside that run: for any publish hours, any   *)
(* clock, and any window of catching up.                                   *)
THEOREM WizardsIssueStands == IntakeSpec => FirstIssueStands
<1>1. IntakeInit => StandInv
  BY InitStand DEF IntakeInit
<1>2. StandInv /\ [IntakeNext]_all => StandInv'
  BY ClockSteps, NextStand
<1>3. StandInv /\ [IntakeNext]_all =>
        [\A k \in kept : Cal!Retaken(k) => moves > 0 \/ Cal!SetBack \/ k \in overtaken]_Cal!vars
  <2> SUFFICES ASSUME StandInv, NEW k \in kept, Cal!Retaken(k)
               PROVE  moves > 0 \/ Cal!SetBack \/ k \in overtaken
    OBVIOUS
  <2>1. Busy /\ container.by = "tick" /\ container.key = k
    BY DEF Cal!Retaken, Cal!StoreIssue, Busy
  <2>2. moves = 0 \/ moves > 0
    BY DEF StandInv, ClockInv, ClockTyped
  <2> QED BY <2>1, <2>2 DEF StandInv, TicksLeaveKept, AsSet
<1> QED BY <1>1, <1>2, <1>3, PTL DEF IntakeSpec, FirstIssueStands, Cal!FirstIssueStands

-----------------------------------------------------------------------------
(* A row passes for no other. *)

(* Two hours in a row whose latest issues are of one period have one       *)
(* latest issue.                                                           *)
LEMMA SamePeriodSameIssue ==
  ASSUME ClockSet, NEW s \in 0..LastHour, NEW t \in 0..LastHour, s <= t + 1, t <= s + 1,
         Cal!FirstIssueKey(s)[2] = Cal!FirstIssueKey(t)[2]
  PROVE  Cal!FirstIssueKey(s) = Cal!FirstIssueKey(t)
<1>1. LastHour \in Int /\ s \in Int /\ t \in Int
  BY ClockAssumption
<1>2. CASE s = t
  BY <1>2
<1>3. CASE s # t /\ t < s
  <2>1. s \in 1..LastHour /\ t = s - 1
    BY <1>1, <1>3
  <2> QED BY <2>1, OneHourOn
<1>4. CASE s # t /\ s < t
  <2>1. t \in 1..LastHour /\ s = t - 1
    BY <1>1, <1>4
  <2> QED BY <2>1, OneHourOn
<1> QED BY <1>1, <1>2, <1>3, <1>4

LEMMA InitRows ==
  ASSUME Cal!Init
  PROVE  RowsInv
<1>1. ledger = {} /\ plan = Cal!Asleep /\ container = Cal!NoRun /\ wizard = Cal!Idle("ready")
  BY DEF Cal!Init
<1> QED BY <1>1, InitClock DEF RowsInv, OfTheLatest, RowsAreStored, HeardIsStored, Busy, Asks,
           Cal!Asleep, Cal!Idle

LEMMA RowsStay ==
  ASSUME RowsAreStored, UNCHANGED <<zone, times, moves>>, ledger' \subseteq ledger,
         stored \subseteq stored', \A r \in ledger : r.hour <= hour => r.hour <= hour'
  PROVE  RowsAreStored'
<1>1. SUFFICES ASSUME moves = 0, NEW r \in ledger'
               PROVE  \E s \in 0..LastHour :
                        /\ s <= r.hour /\ r.hour <= s + 1 /\ r.hour <= hour'
                        /\ Cal!FirstIssueKey(s)' \in stored' /\ r.period = Cal!FirstIssueKey(s)'[2]
  BY DEF RowsAreStored
<1>2. PICK s \in 0..LastHour :
        /\ s <= r.hour /\ r.hour <= s + 1 /\ r.hour <= hour
        /\ Cal!FirstIssueKey(s) \in stored /\ r.period = Cal!FirstIssueKey(s)[2]
  BY <1>1 DEF RowsAreStored
<1> QED BY <1>1, <1>2, SameIssues

LEMMA AdvanceHourRows ==
  ASSUME RowsInv, Cal!AdvanceHour
  PROVE  RowsInv'
<1>1. /\ UNCHANGED <<zone, times, moves, plan, wizard, container, stored>>
      /\ ticked /\ hour' = hour + 1 /\ ledger' \subseteq ledger
  BY DEF Cal!AdvanceHour
<1>2. ClockInv'
  BY AdvanceHourClock DEF RowsInv
<1>3. RowsAreStored'
  <2>1. \A r \in ledger : r.hour <= hour => r.hour <= hour'
    BY <1>1, ClockAssumption DEF RowsInv, ClockInv, ClockTyped
  <2> QED BY <1>1, <2>1, RowsStay DEF RowsInv
<1>4. plan' = Cal!Asleep
  BY <1>1 DEF RowsInv, ClockInv, InTheirHour
<1>5. OfTheLatest'
  BY <1>1, <1>4, SameIssues DEF RowsInv, OfTheLatest, Busy, Cal!Asleep
<1> QED BY <1>1, <1>2, <1>3, <1>5 DEF RowsInv, HeardIsStored, Asks

LEMMA MoveScheduleRows ==
  ASSUME RowsInv, Cal!MoveSchedule
  PROVE  RowsInv'
<1>1. moves' # 0
  BY DEF Cal!MoveSchedule, RowsInv, ClockInv, ClockTyped
<1> QED BY <1>1, MoveScheduleClock DEF RowsInv, OfTheLatest, RowsAreStored, HeardIsStored

LEMMA PlanRows ==
  ASSUME RowsInv, Cal!PlanDue \/ Cal!PlanCatchUp
  PROVE  RowsInv'
<1>1. /\ UNCHANGED <<zone, times, moves, hour, wizard, container, ledger, stored>>
      /\ plan'.what = "missed" =>
           /\ plan'.key = Cal!KeyAt(Cal!Missed(hour))
           /\ Cal!DueAt(hour) = Cal!None /\ Cal!MissedHours(hour) # {}
  BY DEF Cal!PlanDue, Cal!PlanCatchUp, Cal!Plan, Cal!clock, Cal!stores
<1>2. ClockInv' /\ RowsAreStored'
  BY <1>1, PlanClock, RowsStay DEF RowsInv
<1>3. plan'.what = "missed" => plan'.key = Cal!FirstIssueKey(hour)
  <2> SUFFICES ASSUME plan'.what = "missed" PROVE plan'.key = Cal!FirstIssueKey(hour)
    OBVIOUS
  <2>1. ClockSet /\ hour \in 0..LastHour
    BY DEF RowsInv, ClockInv, ClockTyped
  <2>2. Cal!Missed(hour) \in 0..LastHour /\ Cal!Missed(hour) < hour
    BY <1>1, <2>1, MissedIs
  <2>3. hour \in Cal!Missed(hour)..hour
    BY <2>1, <2>2
  <2> QED BY <1>1, <2>1, <2>3, TillNextHour
<1>4. PICK h \in 0..LastHour : h = hour
  BY DEF RowsInv, ClockInv, ClockTyped
<1>5. OfTheLatest'
  BY <1>1, <1>3, <1>4, SameIssues DEF RowsInv, OfTheLatest, Busy
<1> QED BY <1>1, <1>2, <1>5 DEF RowsInv, HeardIsStored, Asks

LEMMA StayAsleepRows ==
  ASSUME RowsInv, Cal!StayAsleep
  PROVE  RowsInv'
<1>1. UNCHANGED <<zone, times, moves, hour, plan, wizard, container, ledger, stored>>
  BY DEF Cal!StayAsleep, Cal!stores
<1>2. ClockInv' /\ RowsAreStored'
  BY <1>1, StayAsleepClock, RowsStay DEF RowsInv
<1> QED BY <1>1, <1>2, SameIssues DEF RowsInv, OfTheLatest, HeardIsStored, Asks, Busy

LEMMA StartTickRows ==
  ASSUME RowsInv, Cal!StartTick
  PROVE  RowsInv'
<1>1. /\ UNCHANGED <<zone, times, moves, hour, wizard, ledger, stored>> /\ plan' = Cal!Asleep
      /\ \/ container' = container
         \/ \E key \in Keyed :
              /\ ~Busy /\ container' = Begun("tick", key, hour)
              /\ \/ plan.what = "missed" /\ key = plan.key
                 \/ Cal!DueAt(hour) # Cal!None /\ key = Cal!KeyAt(hour)
  BY TickStarts DEF RowsInv
<1>2. ClockInv' /\ RowsAreStored'
  BY <1>1, StartTickClock, RowsStay DEF RowsInv
<1>3. PICK h \in 0..LastHour : h = hour
  BY DEF RowsInv, ClockInv, ClockTyped
<1>4. ASSUME moves = 0, NEW key \in Keyed, container' = Begun("tick", key, hour),
             \/ plan.what = "missed" /\ key = plan.key
             \/ Cal!DueAt(hour) # Cal!None /\ key = Cal!KeyAt(hour)
      PROVE  container'.key = Cal!FirstIssueKey(h)' /\ container'.since = h /\ ~container'.stored
  <2>1. key = Cal!FirstIssueKey(hour)
    BY <1>4, PickedKeys DEF RowsInv, ClockInv, OfTheLatest
  <2> QED BY <1>1, <1>3, <1>4, <2>1, SameIssues DEF Begun
<1>5. OfTheLatest'
  <2>1. CASE container' = container
    BY <1>1, <2>1, SameIssues DEF RowsInv, OfTheLatest, Busy, Cal!Asleep
  <2>2. CASE container' # container
    BY <1>1, <1>4, <2>2 DEF OfTheLatest, Cal!Asleep
  <2> QED BY <2>1, <2>2
<1> QED BY <1>1, <1>2, <1>5 DEF RowsInv, HeardIsStored, Asks

LEMMA WizardRows ==
  ASSUME RowsInv, Cal!Ask \/ Cal!Hear \/ Cal!GiveUp
  PROVE  RowsInv'
<1>1. UNCHANGED <<zone, times, moves, hour, plan, container, ledger, stored>>
  BY DEF Cal!Ask, Cal!Hear, Cal!GiveUp, Cal!clock, Cal!stores
<1>2. ClockInv' /\ RowsAreStored'
  BY <1>1, AskClock, WaitEnds, RowsStay DEF RowsInv
<1>3. OfTheLatest'
  BY <1>1, SameIssues DEF RowsInv, OfTheLatest, Busy
<1>4. HeardIsStored'
  <2>1. CASE Cal!Ask
    <3>1. wizard'.at = "asked" /\ wizard'.heard = "nothing"
      BY <2>1 DEF Cal!Ask
    <3> QED BY <3>1 DEF HeardIsStored, Asks
  <2>2. CASE wizard' = Cal!Idle("failed")
    BY <2>2 DEF HeardIsStored, Asks, Cal!Idle
  <2>3. CASE Cal!Hear /\ wizard.heard = "ok"
    <3>1. Asks /\ wizard'.key = wizard.key
      BY <2>3 DEF Cal!Hear, Asks, RowsInv, ClockInv, ClockTyped
    <3> QED BY <1>1, <2>3, <3>1 DEF RowsInv, HeardIsStored
  <2> QED BY <2>1, <2>2, <2>3 DEF Cal!Hear, Cal!GiveUp
<1> QED BY <1>2, <1>3, <1>4 DEF RowsInv

LEMMA PostRows ==
  ASSUME RowsInv, Cal!Post
  PROVE  RowsInv'
<1>1. /\ UNCHANGED <<zone, times, moves, hour, plan, ledger, stored>> /\ Asks
      /\ wizard' = Cal!Idle("failed") \/ wizard' = [wizard EXCEPT !.at = "waiting"]
      /\ \/ container' = container
         \/ container' = Begun("wizard", wizard.key, wizard.since)
  BY PostStarts DEF RowsInv
<1>2. ClockInv' /\ RowsAreStored'
  BY <1>1, PostClock, RowsStay DEF RowsInv
<1>3. OfTheLatest'
  <2>1. CASE container' = container
    BY <1>1, <2>1, SameIssues DEF RowsInv, OfTheLatest, Busy
  <2>2. CASE container' = Begun("wizard", wizard.key, wizard.since)
    <3>1. PICK s \in 0..LastHour : s = wizard.since
      BY DEF RowsInv, ClockInv, ClockTyped
    <3>2. moves = 0 => wizard.key = Cal!FirstIssueKey(s)'
      BY <1>1, <3>1, SameIssues DEF RowsInv, ClockInv, AsksOfItsHour
    <3>3. container'.key = wizard.key /\ container'.since = s /\ ~container'.stored
      BY <2>2, <3>1 DEF Begun
    <3>4. plan.what = "missed" /\ moves = 0 => plan.key = Cal!FirstIssueKey(hour)'
      <4>1. PICK h \in 0..LastHour : h = hour
        BY DEF RowsInv, ClockInv, ClockTyped
      <4> QED BY <1>1, <4>1, SameIssues DEF RowsInv, OfTheLatest
    <3> QED BY <1>1, <3>2, <3>3, <3>4 DEF OfTheLatest
  <2> QED BY <1>1, <2>1, <2>2
<1>4. HeardIsStored'
  <2>1. CASE wizard' = Cal!Idle("failed")
    BY <2>1 DEF HeardIsStored, Asks, Cal!Idle
  <2>2. CASE wizard' = [wizard EXCEPT !.at = "waiting"]
    <3>1. wizard'.at = "waiting" /\ wizard'.key = wizard.key /\ wizard'.heard = wizard.heard
      BY <2>2 DEF RowsInv, ClockInv, ClockTyped
    <3> QED BY <1>1, <3>1 DEF RowsInv, HeardIsStored
  <2> QED BY <1>1, <2>1, <2>2
<1> QED BY <1>2, <1>3, <1>4 DEF RowsInv

LEMMA StoreIssueRows ==
  ASSUME RowsInv, Cal!StoreIssue
  PROVE  RowsInv'
<1>1. /\ UNCHANGED <<zone, times, moves, hour, plan, wizard, ledger>>
      /\ Busy /\ container' = [container EXCEPT !.stored = TRUE]
      /\ stored' = stored \cup {container.key}
  BY DEF Cal!StoreIssue, Cal!clock, Busy
<1>2. /\ container'.key = container.key /\ container'.since = container.since
  BY <1>1 DEF RowsInv, ClockInv, ClockTyped, Busy
<1>3. ClockInv' /\ RowsAreStored'
  BY <1>1, StoreIssueClock, RowsStay DEF RowsInv
<1>4. OfTheLatest'
  BY <1>1, <1>2, SameIssues DEF RowsInv, OfTheLatest
<1> QED BY <1>1, <1>3, <1>4 DEF RowsInv, HeardIsStored, Asks

LEMMA EndRunRows ==
  ASSUME RowsInv, Cal!EndRun
  PROVE  RowsInv'
<1>1. ClockInv /\ ClockInv'
  BY EndRunClock DEF RowsInv
<1>2. /\ UNCHANGED <<zone, times, moves, hour, ticked, plan, stored>>
      /\ Busy /\ ~Busy'
      /\ container \in [by : Cal!Starters, key : Keyed, since : 0..LastHour,
                        began : 0..LastHour, stored : BOOLEAN]
  BY <1>1, RunReports
<1>3. PICK ok \in {FALSE, container.stored} :
        /\ ledger' = IF ok THEN ledger \cup {[period |-> container.key[2], hour |-> hour]}
                     ELSE ledger
        /\ wizard'.at = wizard.at /\ wizard'.key = wizard.key /\ wizard'.since = wizard.since
        /\ ~Asks => wizard' = wizard
        /\ Asks /\ wizard'.heard = "ok" => ok /\ container.key[2] = wizard.key[2]
  BY <1>1, RunReports
<1>4. ok => container.stored
  BY <1>3, Zenon
<1>5. PICK s \in 0..LastHour : s = container.since
  BY <1>2
<1>6. s <= hour /\ hour <= s + 1 /\ hour \in 0..LastHour
  BY <1>1, <1>2, <1>5, ClockAssumption DEF ClockInv, ClockTyped, InTheirHour
<1>7. moves = 0 => container.key = Cal!FirstIssueKey(s)
  BY <1>2, <1>5 DEF RowsInv, OfTheLatest
<1>8. moves = 0 /\ ok => container.key \in stored
  BY <1>2, <1>4 DEF RowsInv, OfTheLatest
<1>9. OfTheLatest'
  <2>1. PICK h \in 0..LastHour : h = hour
    BY <1>6
  <2> QED BY <1>2, <2>1, SameIssues DEF RowsInv, OfTheLatest
<1>10. RowsAreStored'
  <2>1. SUFFICES ASSUME moves = 0, NEW r \in ledger'
                 PROVE  \E n \in 0..LastHour :
                          /\ n <= r.hour /\ r.hour <= n + 1 /\ r.hour <= hour'
                          /\ Cal!FirstIssueKey(n)' \in stored' /\ r.period = Cal!FirstIssueKey(n)'[2]
    BY <1>2 DEF RowsAreStored
  <2>2. CASE r \in ledger
    <3>1. PICK n \in 0..LastHour :
            /\ n <= r.hour /\ r.hour <= n + 1 /\ r.hour <= hour
            /\ Cal!FirstIssueKey(n) \in stored /\ r.period = Cal!FirstIssueKey(n)[2]
      BY <2>1, <2>2 DEF RowsInv, RowsAreStored
    <3> QED BY <1>2, <3>1, SameIssues
  <2>3. CASE ok /\ r = [period |-> container.key[2], hour |-> hour]
    BY <1>2, <1>6, <1>7, <1>8, <2>1, <2>3, SameIssues
  <2> QED BY <1>3, <2>1, <2>2, <2>3
<1>11. HeardIsStored'
  <2>1. ASSUME moves = 0, Asks, wizard'.heard = "ok" PROVE wizard.key \in stored
    <3>1. ok /\ container.key[2] = wizard.key[2]
      BY <1>3, <2>1
    <3>2. PICK t \in 0..LastHour : t = wizard.since
      BY <1>1 DEF ClockInv, ClockTyped
    <3>3. wizard.key = Cal!FirstIssueKey(t) /\ t <= hour /\ hour <= t + 1
      BY <1>1, <2>1, <3>2 DEF ClockInv, AsksOfItsHour, InTheirHour
    <3>4. s <= t + 1 /\ t <= s + 1 /\ ClockSet
      BY <1>1, <1>6, <3>3 DEF ClockInv, ClockTyped
    <3>5. container.key = wizard.key
      BY <1>7, <2>1, <3>1, <3>3, <3>4, SamePeriodSameIssue
    <3> QED BY <1>8, <2>1, <3>1, <3>5
  <2> QED BY <1>2, <1>3, <2>1 DEF RowsInv, HeardIsStored, Asks
<1> QED BY <1>1, <1>9, <1>10, <1>11 DEF RowsInv

LEMMA KillRows ==
  ASSUME RowsInv, Cal!Kill
  PROVE  RowsInv'
<1>1. UNCHANGED <<zone, times, moves, hour, plan, wizard, ledger, stored>> /\ ~Busy'
  BY DEF Cal!Kill, Cal!clock, Cal!stores, Busy
<1>2. ClockInv' /\ RowsAreStored'
  BY <1>1, EndRunClock, RowsStay DEF RowsInv
<1> QED BY <1>1, <1>2, SameIssues DEF RowsInv, OfTheLatest, HeardIsStored, Asks

LEMMA SameRows ==
  ASSUME RowsInv, UNCHANGED Cal!vars
  PROVE  RowsInv'
<1>1. UNCHANGED <<zone, times, moves, hour, plan, wizard, container, ledger, stored>>
  BY DEF Cal!vars
<1>2. ClockInv' /\ RowsAreStored'
  BY <1>1, SameClock, RowsStay DEF RowsInv
<1> QED BY <1>1, <1>2, SameIssues DEF RowsInv, OfTheLatest, HeardIsStored, Asks, Busy

LEMMA NextRows ==
  ASSUME RowsInv, [Cal!Next]_Cal!vars
  PROVE  RowsInv'
BY AdvanceHourRows, MoveScheduleRows, PlanRows, StayAsleepRows, StartTickRows, WizardRows,
   PostRows, StoreIssueRows, EndRunRows, KillRows, SameRows DEF Cal!Next

(* A row for which a tick leaves a digest hour alone is of a run of that   *)
(* hour's issue. *)
LEMMA RowIsOfTheHour ==
  ASSUME RowsInv
  PROVE  Cal!CatchUpIsNotFooled
<1> DEFINE h == Cal!Missed(hour)
<1> SUFFICES ASSUME moves = 0, Cal!DueAt(hour) = Cal!None, Cal!MissedHours(hour) # {},
                    NEW r \in ledger, Cal!Counts(r, h)
             PROVE  Cal!KeyAt(h) \in stored
  BY DEF Cal!CatchUpIsNotFooled
<1>1. ClockSet /\ hour \in 0..LastHour
  BY DEF RowsInv, ClockInv, ClockTyped
<1>2. /\ h \in 0..LastHour /\ h < hour /\ Cal!DueAt(h) # Cal!None
      /\ \A g \in h..hour : Cal!FirstIssueKey(g) = Cal!KeyAt(h)
  BY <1>1, MissedIs, TillNextHour
<1>3. r.period = Cal!KeyAt(h)[2] /\ r.hour >= h
  BY DEF Cal!Counts, Cal!KeyAt
<1> HIDE DEF h
<1>4. PICK s \in 0..LastHour :
        /\ s <= r.hour /\ r.hour <= s + 1 /\ r.hour <= hour
        /\ Cal!FirstIssueKey(s) \in stored /\ r.period = Cal!FirstIssueKey(s)[2]
  BY DEF RowsInv, RowsAreStored
<1>5. r.hour \in Int
  BY DEF RowsInv, ClockInv, ClockTyped
<1>6. CASE s >= h
  BY <1>1, <1>2, <1>4, <1>5, <1>6
<1>7. CASE s < h
  <2>1. Cal!FirstIssueKey(h) = Cal!KeyAt(h) /\ s <= h + 1 /\ h <= s + 1
    BY <1>1, <1>2, <1>3, <1>4, <1>5, <1>7
  <2>2. Cal!FirstIssueKey(s) = Cal!FirstIssueKey(h)
    BY <1>1, <1>2, <1>3, <1>4, <2>1, SamePeriodSameIssue
  <2> QED BY <1>4, <2>1, <2>2
<1> QED BY <1>1, <1>2, <1>6, <1>7

(* As long as the publish hours have not been moved, a row of the ledger   *)
(* passes for no other run's: not for a missed hour's, not for the one the *)
(* wizard waits for (schedule.js, onboarding.js).  Here alone no digest    *)
(* hour may be left out by the clock (SkipAssumption).                     *)
THEOREM RowsPassForTheirOwn == IntakeSpec => []RowPassesForNoOther
<1>1. IntakeInit => RowsInv
  BY InitRows DEF IntakeInit
<1>2. RowsInv /\ [IntakeNext]_all => RowsInv'
  BY ClockSteps, NextRows
<1>3. RowsInv => RowPassesForNoOther
  BY RowIsOfTheHour DEF RowsInv, HeardIsStored, Cal!WizardTellsTrue, RowPassesForNoOther
<1> QED BY <1>1, <1>2, <1>3, PTL DEF IntakeSpec

-----------------------------------------------------------------------------
(* The types of the newsletters and the clock. *)

(* The keys of issues are of days the model has. *)
KeysInv ==
  /\ plan # Cal!Asleep => /\ plan.key \in Cal!Keys \cup {Cal!NoKey}
                          /\ plan.what = "missed" \/ plan.beside => plan.key \in Cal!Keys
  /\ wizard.key \in Cal!Keys \cup {Cal!NoKey}
  /\ Busy => container.key \in Cal!Keys
  /\ stored \subseteq Cal!Keys /\ kept \subseteq Cal!Keys /\ overtaken \subseteq Cal!Keys
  /\ moves \in 0..Moves

LEMMA DaysFollow ==
  ASSUME NEW n \in Nat, n > 0, NEW l \in Nat, NEW w \in 0..(l + n)
  PROVE  w \div n \in 0..((l \div n) + 1)
<1>1. PICK a \in Int, r \in Int, p \in Int :
        a = w \div n /\ p = n * a /\ w = p + r /\ 0 <= r /\ r < n
  BY Division
<1>2. PICK b \in Int, s \in Int, q \in Int :
        b = l \div n /\ q = n * b /\ l = q + s /\ 0 <= s /\ s < n
  BY Division
<1>3. a < 0 => p + n <= 0
  <2>1. a < 0 => n * a + n <= n * 0
    BY Multiples
  <2> QED BY <1>1, <2>1
<1>4. b + 1 < a => q + n + n <= p
  <2>1. b + 1 < a => n * (b + 1) + n <= n * a
    BY Multiples
  <2>2. n * (b + 1) = q + n
    BY <1>2
  <2> QED BY <1>1, <2>1, <2>2
<1>5. a >= 0 /\ a <= b + 1
  BY <1>1, <1>2, <1>3, <1>4
<1> QED BY <1>1, <1>2, <1>5

LEMMA KeysOfHours ==
  ASSUME ClockSet, NEW t \in 0..LastHour
  PROVE  /\ Cal!FirstIssueKey(t) \in Cal!Keys
         /\ Cal!DueAt(t) # Cal!None => Cal!KeyAt(t) \in Cal!Keys
<1> DEFINE w == t + zone[t]
<1>1. /\ DayLength \in Nat /\ DayLength > 0 /\ LastHour \in Nat
      /\ w \in 0..(LastHour + DayLength)
  BY ClockAssumption, DaysAssumption DEF ClockSet
<1>2. w \div DayLength \in 0..((LastHour \div DayLength) + 1)
  BY <1>1, DaysFollow
<1>3. LastHour \div DayLength \in Int
  BY <1>1, Division
<1>4. Cal!DateOf(t) \in Cal!Days /\ Cal!DateOf(t) - 1 \in Cal!Days
  BY <1>2, <1>3 DEF Cal!DateOf, Cal!Days
<1> QED BY <1>4 DEF Cal!FirstIssueKey, Cal!KeyAt, Cal!DueAt, Cal!Keys, Cal!Periods, Cal!None

LEMMA InitKeys ==
  ASSUME Cal!Init
  PROVE  KeysInv
BY ClockAssumption DEF Cal!Init, KeysInv, Cal!Idle, Busy

LEMMA MissedKey ==
  ASSUME ClockInv, Cal!MissedHours(hour) # {}
  PROVE  Cal!KeyAt(Cal!Missed(hour)) \in Cal!Keys
<1>1. ClockSet /\ hour \in 0..LastHour
  BY DEF ClockInv, ClockTyped
<1> QED BY <1>1, MissedIs, KeysOfHours

LEMMA NextKeys ==
  ASSUME ClockInv, KeysInv, [Cal!Next]_Cal!vars
  PROVE  KeysInv'
<1>t. ClockSet /\ hour \in 0..LastHour
  BY DEF ClockInv, ClockTyped
<1>1. CASE Cal!AdvanceHour \/ Cal!StayAsleep \/ UNCHANGED Cal!vars
  BY <1>1 DEF KeysInv, Cal!AdvanceHour, Cal!StayAsleep, Cal!vars, Cal!stores, Busy
<1>2. CASE Cal!MoveSchedule
  <2>1. moves' \in 0..Moves
    BY <1>2, ClockAssumption DEF Cal!MoveSchedule, KeysInv
  <2> QED BY <1>2, <2>1 DEF KeysInv, Cal!MoveSchedule, Cal!stores, Busy
<1>3. ASSUME NEW what, NEW key, Cal!Plan(what, key),
             \/ what = "due" /\ key = Cal!NoKey
             \/ what = "missed" /\ key \in Cal!Keys
      PROVE  KeysInv'
  <2>1. /\ UNCHANGED <<moves, wizard, container, stored, kept, overtaken>>
        /\ plan' = [what |-> what, key |-> key, beside |-> Busy /\ key = container.key]
    BY <1>3 DEF Cal!Plan, Cal!clock, Cal!stores, Busy
  <2>2. Busy /\ key = container.key => key \in Cal!Keys
    BY DEF KeysInv
  <2>3. /\ plan'.key \in Cal!Keys \cup {Cal!NoKey}
        /\ plan'.what = "missed" \/ plan'.beside => plan'.key \in Cal!Keys
    BY <1>3, <2>1, <2>2
  <2> QED BY <2>1, <2>3 DEF KeysInv, Busy
<1>4. CASE Cal!PlanDue
  BY <1>3, <1>4 DEF Cal!PlanDue
<1>5. CASE Cal!PlanCatchUp
  BY <1>3, <1>5, MissedKey DEF Cal!PlanCatchUp
<1>6. CASE Cal!StartTick
  <2>1. /\ UNCHANGED <<moves, wizard, stored, kept>> /\ plan' = Cal!Asleep /\ plan # Cal!Asleep
        /\ overtaken' = IF plan.beside THEN overtaken \cup {plan.key} ELSE overtaken
        /\ \/ container' = container
           \/ \E key \in Cal!Keys : container' = Begun("tick", key, hour)
    BY <1>6, <1>t, TickStarts, KeysOfHours DEF KeysInv
  <2> QED BY <2>1 DEF KeysInv, Busy, Begun
<1>7. CASE Cal!Ask
  <2>1. UNCHANGED <<moves, plan, container, stored, kept, overtaken>> /\ wizard'.key = Cal!FirstIssueKey(hour)
    BY <1>7 DEF Cal!Ask, Cal!clock, Cal!stores
  <2> QED BY <1>t, <2>1, KeysOfHours DEF KeysInv, Busy
<1>8. CASE Cal!Post
  <2>1. /\ UNCHANGED <<moves, plan, stored, kept, overtaken>> /\ Asks
        /\ \/ wizard' = Cal!Idle("failed") /\ container' = container
           \/ /\ wizard' = [wizard EXCEPT !.at = "waiting"]
              /\ container' = container \/ container' = Begun("wizard", wizard.key, wizard.since)
    BY <1>8, PostStarts
  <2>2. wizard.key \in Cal!Keys
    <3>1. wizard.key \in Keyed /\ Cal!NoKey \notin Keyed
      BY <2>1 DEF ClockInv, InTheirHour, Keyed, Cal!NoKey
    <3> QED BY <3>1 DEF KeysInv
  <2>3. wizard'.key \in Cal!Keys \cup {Cal!NoKey}
    BY <2>1, <2>2 DEF Cal!Idle, ClockInv, ClockTyped
  <2> QED BY <2>1, <2>2, <2>3 DEF KeysInv, Busy, Begun
<1>9. CASE Cal!Hear \/ Cal!GiveUp
  <2>1. UNCHANGED <<moves, plan, container, stored, kept, overtaken>>
    BY <1>9 DEF Cal!Hear, Cal!GiveUp, Cal!clock, Cal!stores
  <2>2. wizard'.key \in {wizard.key, Cal!NoKey}
    BY <1>9 DEF Cal!Hear, Cal!GiveUp, Cal!Idle, ClockInv, ClockTyped
  <2> QED BY <2>1, <2>2 DEF KeysInv, Busy
<1>10. CASE Cal!StoreIssue
  <2>1. /\ UNCHANGED <<moves, plan, wizard, kept, overtaken>> /\ Busy
        /\ container' = [container EXCEPT !.stored = TRUE] /\ stored' = stored \cup {container.key}
    BY <1>10 DEF Cal!StoreIssue, Cal!clock, Busy
  <2>2. container'.key = container.key
    BY <2>1 DEF ClockInv, ClockTyped, Busy
  <2> QED BY <2>1, <2>2 DEF KeysInv, Busy
<1>11. CASE Cal!EndRun
  <2>1. /\ UNCHANGED <<moves, plan, stored, overtaken>> /\ Busy /\ ~Busy' /\ wizard'.key = wizard.key
        /\ kept' \subseteq kept \cup {container.key}
    <3>1. kept' \subseteq kept \cup {container.key}
      BY <1>11 DEF Cal!EndRun
    <3> QED BY <1>11, <3>1, RunReports
  <2> QED BY <2>1 DEF KeysInv
<1>12. CASE Cal!Kill
  BY <1>12 DEF Cal!Kill, Cal!clock, Cal!stores, KeysInv, Busy
<1> QED BY <1>1, <1>2, <1>4, <1>5, <1>6, <1>7, <1>8, <1>9, <1>10, <1>11, <1>12 DEF Cal!Next

LEMMA ClockTypes ==
  ASSUME ClockInv, KeysInv
  PROVE  Cal!TypeOK
<1>1. zone \in Zones /\ times \in Schedules /\ moves \in 0..Moves /\ hour \in 0..LastHour /\ ticked \in BOOLEAN
  BY DEF ClockInv, ClockTyped, ClockSet, KeysInv
<1>2. /\ plan.what \in {"asleep", "due", "missed"}
      /\ plan.what # "asleep" => plan.key \in Cal!Keys \cup {Cal!NoKey} /\ plan.beside \in BOOLEAN
  <2>1. CASE plan = Cal!Asleep
    BY <2>1 DEF Cal!Asleep
  <2>2. CASE plan # Cal!Asleep
    BY <2>2 DEF ClockInv, ClockTyped, KeysInv
  <2> QED BY <2>1, <2>2
<1>3. wizard \in [at : Cal!Steps, key : Cal!Keys \cup {Cal!NoKey}, since : 0..LastHour,
                  heard : {"nothing", "ok", "failed"}]
  BY DEF ClockInv, ClockTyped, KeysInv
<1>4. \/ container = Cal!NoRun
      \/ container \in [by : Cal!Starters, key : Cal!Keys, since : 0..LastHour,
                        began : 0..LastHour, stored : BOOLEAN]
  BY DEF ClockInv, ClockTyped, KeysInv, Busy
<1>5. ledger \subseteq Cal!Row
  BY DEF ClockInv, ClockTyped, Cal!Row, Cal!Hours
<1> QED BY <1>1, <1>2, <1>3, <1>4, <1>5 DEF Cal!TypeOK, Cal!Hours, KeysInv

LEMMA NextLetters ==
  ASSUME Nl!TypeOK, [Nl!Next]_ofLetters
  PROVE  Nl!TypeOK'
<1>1. Deliveries \in Nat /\ Runs \in Nat
  BY LettersAssumption
<1>2. CASE UNCHANGED ofLetters
  BY <1>2 DEF ofLetters, Nl!TypeOK
<1>3. ASSUME NEW m \in Mails, Nl!Deliver(m) PROVE Nl!TypeOK'
  <2>1. deliveries' \in 0..Deliveries
    BY <1>1, <1>3 DEF Nl!Deliver, Nl!TypeOK
  <2> QED BY <1>3, <2>1 DEF Nl!Deliver, Nl!run, Nl!TypeOK
<1>4. CASE Nl!Pull
  <2>1. PICK S \in {queue, {}}, L \in SUBSET Links, dry \in BOOLEAN :
          /\ runs < Runs /\ runs' = runs + 1 /\ pc' = "ack" /\ preview' = dry /\ pulled' = S
          /\ displaced' = displaced \cup Nl!Displaced(S, L)
          /\ UNCHANGED <<says, queue, deliveries, taken, lost>>
    BY <1>4 DEF Nl!Pull, Nl!mail
  <2>2. runs' \in 0..Runs
    BY <1>1, <2>1 DEF Nl!TypeOK
  <2>3. displaced' \subseteq taken /\ pulled' \subseteq taken
    BY <2>1 DEF Nl!TypeOK, Nl!Displaced, Nl!Issues
  <2> QED BY <2>1, <2>2, <2>3 DEF Nl!TypeOK
<1>5. CASE Nl!Ack
  BY <1>5 DEF Nl!Ack, Nl!TypeOK
<1>6. ASSUME NEW through \in BOOLEAN, Nl!End(through) PROVE Nl!TypeOK'
  BY <1>6 DEF Nl!End, Nl!mail, Nl!TypeOK
<1>7. CASE Nl!Save \/ Nl!SaveStops
  BY <1>6, <1>7 DEF Nl!Save, Nl!SaveStops
<1> QED BY <1>2, <1>3, <1>4, <1>5, <1>7 DEF Nl!Next

(* Every variable of the three parts has the values its code gives it. *)
THEOREM IntakeIsTyped == IntakeSpec => []IntakeTypeOK
<1> DEFINE Typed == /\ part \in {"feeds", "letters", "clock"}
                    /\ Nl!TypeOK /\ ClockInv /\ KeysInv
<1>1. IntakeInit => Typed
  <2> SUFFICES ASSUME IntakeInit PROVE Typed
    OBVIOUS
  <2>1. Nl!TypeOK
    <3>1. 0 \in 0..Deliveries /\ 0 \in 0..Runs
      BY LettersAssumption
    <3> QED BY <3>1 DEF IntakeInit, Nl!Init, Nl!TypeOK
  <2> QED BY <2>1, InitClock, InitKeys DEF IntakeInit
<1>2. Typed /\ [IntakeNext]_all => Typed'
  <2> SUFFICES ASSUME Typed, [IntakeNext]_all PROVE Typed'
    OBVIOUS
  <2>1. UNCHANGED part
    BY DEF IntakeNext, all
  <2>2. [Nl!Next]_ofLetters
    BY DEF IntakeNext, all
  <2>3. Nl!TypeOK'
    BY <2>2, NextLetters
  <2>4. ClockInv' /\ KeysInv'
    BY ClockSteps, NextClock, NextKeys
  <2> QED BY <2>1, <2>3, <2>4
<1>3. Typed /\ ReturnInv => IntakeTypeOK
  <2> SUFFICES ASSUME Typed, ReturnInv PROVE IntakeTypeOK
    OBVIOUS
  <2>1. TypeOK /\ Nl!TypeOK /\ Cal!TypeOK /\ part \in {"feeds", "letters", "clock"}
    BY ClockTypes DEF ReturnInv, SlipInv
  <2> HIDE DEF Typed
  <2> QED BY <2>1, Zenon DEF IntakeTypeOK
<1> QED BY <1>1, <1>2, <1>3, ReturnInvHolds, PTL DEF IntakeSpec

-----------------------------------------------------------------------------
(* The newsletter queue: what the library's folds compute, what the merge  *)
(* of a fetch keeps, what the store's rows are, and the run that joins     *)
(* them. *)

(* A set of naturals that holds 0, and n + 1 with n, holds them all.       *)
LEMMA AllNat ==
  ASSUME NEW T, 0 \in T, \A n \in Nat : n \in T => n + 1 \in T
  PROVE  \A n \in Nat : n \in T
<1> DEFINE U == Nat \ T
<1> SUFFICES ASSUME U # {} PROVE FALSE
  OBVIOUS
<1>1. PICK m \in U : \A n \in U : m <= n
  <2> HIDE DEF U
  <2>1. U \subseteq Nat
    BY DEF U
  <2> QED BY <2>1, LeastNat
<1>2. m \in Nat /\ m # 0 /\ m \notin T
  BY <1>1
<1>3. m - 1 \in Nat /\ (m - 1) + 1 = m
  BY <1>2
<1>4. m - 1 \in T
  <2>1. ~ (m <= m - 1)
    BY <1>2
  <2> QED BY <1>1, <1>3, <2>1
<1> QED BY <1>2, <1>3, <1>4

LEMMA SameCount == ASSUME NEW S PROVE Nl!Cardinality(S) = Cardinality(S)
BY DEF Cardinality, Nl!Cardinality

(* A finite set can be folded: the equations of a fold have a solution.    *)
IsFold(g, T, b, op, c) ==
  \A s \in SUBSET T : g[s] = IF s = {} THEN b ELSE op[<<c[s], g[s \ {c[s]}]>>]

LEMMA FoldExists ==
  ASSUME NEW T, IsFiniteSet(T), NEW A, NEW b \in A, NEW op \in [T \X A -> A],
         NEW c, \A s \in SUBSET T : s # {} => c[s] \in s
  PROVE  \E g \in [SUBSET T -> A] : IsFold(g, T, b, op, c)
<1> DEFINE Fold(g, s) == IF s = {} THEN b ELSE op[<<c[s], g[s \ {c[s]}]>>]
           K == {n \in Nat : \E g \in [SUBSET T -> A] : \A s \in SUBSET T :
                   Cardinality(s) <= n => g[s] = Fold(g, s)}
<1>0. \A s \in SUBSET T : IsFiniteSet(s) /\ Cardinality(s) \in Nat /\ Cardinality(s) <= Cardinality(T)
  BY FS_Subset, FS_CardinalityType
<1>1. 0 \in K
  <2> DEFINE g == [s \in SUBSET T |-> b]
  <2>1. g \in [SUBSET T -> A]
    OBVIOUS
  <2>2. \A s \in SUBSET T : Cardinality(s) <= 0 => s = {}
    BY <1>0, FS_EmptySet
  <2>3. \A s \in SUBSET T : Cardinality(s) <= 0 => g[s] = Fold(g, s)
    BY <2>2
  <2> HIDE DEF g, Fold
  <2> QED BY <2>1, <2>3
<1>2. ASSUME NEW n \in Nat, n \in K PROVE n + 1 \in K
  <2>1. PICK g \in [SUBSET T -> A] : \A s \in SUBSET T : Cardinality(s) <= n => g[s] = Fold(g, s)
    BY <1>2
  <2> DEFINE h == [s \in SUBSET T |-> Fold(g, s)]
  <2>2. ASSUME NEW s \in SUBSET T PROVE Fold(g, s) \in A
    <3>1. CASE s = {}
      BY <3>1
    <3>2. CASE s # {}
      <4>1. c[s] \in T /\ s \ {c[s]} \in SUBSET T
        BY <3>2
      <4>2. <<c[s], g[s \ {c[s]}]>> \in T \X A
        BY <4>1
      <4> QED BY <3>2, <4>2
    <3> QED BY <3>1, <3>2
  <2>3. h \in [SUBSET T -> A]
    <3> HIDE DEF Fold
    <3> QED BY <2>2
  <2>4. ASSUME NEW s \in SUBSET T, Cardinality(s) <= n + 1 PROVE h[s] = Fold(h, s)
    <3>1. CASE s = {}
      BY <3>1
    <3>2. CASE s # {}
      <4> DEFINE t == s \ {c[s]}
      <4>1. t \in SUBSET T /\ c[s] \in s
        BY <3>2
      <4>2. Cardinality(t) = Cardinality(s) - 1
        BY <1>0, <4>1, FS_RemoveElement
      <4>3. Cardinality(t) <= n
        BY <1>0, <2>4, <4>2
      <4>4. g[t] = Fold(g, t)
        BY <2>1, <4>1, <4>3
      <4>5. h[t] = Fold(g, t) /\ h[s] = Fold(g, s)
        BY <4>1
      <4> HIDE DEF h
      <4> QED BY <3>2, <4>4, <4>5
    <3> QED BY <3>1, <3>2
  <2> HIDE DEF h, Fold
  <2> QED BY <2>3, <2>4
<1>3. \A n \in Nat : n \in K
  <2> HIDE DEF K
  <2> QED BY <1>1, <1>2, AllNat
<1>4. Cardinality(T) \in K
  <2> HIDE DEF K
  <2> QED BY <1>3, FS_CardinalityType
<1>5. PICK g \in [SUBSET T -> A] : \A s \in SUBSET T : Cardinality(s) <= Cardinality(T) => g[s] = Fold(g, s)
  <2> HIDE DEF Fold
  <2> QED BY <1>4
<1> QED BY <1>0, <1>5 DEF IsFold

(* The greatest of the first n numbers.                                    *)
LEMMA LastOf ==
  ASSUME NEW n \in Nat, n # 0
  PROVE  Nl!Max(1..n) = n /\ (1..n) \ {n} = 1..(n - 1)
<1>1. n \in 1..n /\ \A y \in 1..n : n >= y
  OBVIOUS
<1>2. \A x \in 1..n : (\A y \in 1..n : x >= y) => x = n
  OBVIOUS
<1>3. Nl!Max(1..n) = n
  BY <1>1, <1>2 DEF Nl!Max
<1> QED BY <1>3

LEMMA GreatestOf ==
  ASSUME NEW n \in Nat, NEW s \in SUBSET (1..n), s # {}
  PROVE  Nl!Max(s) \in s
<1> DEFINE T == {k \in Nat : \A x \in s : x <= k}
<1>1. n \in T
  OBVIOUS
<1>2. PICK k \in T : \A l \in T : k <= l
  <2>1. T \subseteq Nat /\ T # {}
    BY <1>1
  <2> HIDE DEF T
  <2> QED BY <2>1, LeastNat
<1>3. k \in s
  <2> SUFFICES ASSUME k \notin s PROVE FALSE
    OBVIOUS
  <2>1. \A x \in s : x \in Nat /\ x <= k /\ x # k /\ x >= 1
    BY <1>2
  <2>2. k # 0
    <3>1. PICK x \in s : TRUE
      OBVIOUS
    <3> QED BY <2>1, <3>1
  <2>3. k - 1 \in T
    BY <1>2, <2>1, <2>2
  <2> QED BY <1>2, <2>3
<1>4. \E x \in s : \A y \in s : x >= y
  BY <1>2, <1>3
<1> QED BY <1>4 DEF Nl!Max

(* So what the library's fold over a list computes is had by taking its    *)
(* elements one by one.                                                    *)
Nothing == [byUrl |-> <<>>, siblings |-> <<>>]
States(X) == [byUrl : Seq(X), siblings : Seq(X)]
Kept(st) == Range(st.byUrl) \cup Range(st.siblings)

LEMMA PutIs ==
  ASSUME NEW X, NEW dict \in Seq(X), NEW a \in X, NEW key
  PROVE  /\ Nl!Put(dict, a, key) \in Seq(X)
         /\ a \in Range(Nl!Put(dict, a, key))
         /\ \A b \in Range(dict) : b[key] # a[key] => b \in Range(Nl!Put(dict, a, key))
<1>0. DOMAIN dict = 1..Len(dict) /\ Len(dict) \in Nat /\ \A i \in DOMAIN dict : dict[i] \in X
  OBVIOUS
<1>1. CASE \E i \in DOMAIN dict : dict[i][key] = a[key]
  <2> DEFINE t == [i \in DOMAIN dict |-> IF dict[i][key] = a[key] THEN a ELSE dict[i]]
  <2>1. Nl!Put(dict, a, key) = t
    BY <1>1 DEF Nl!Put
  <2>2. t \in Seq(X)
    <3>1. t \in [1..Len(dict) -> X]
      BY <1>0
    <3> QED BY <1>0, <3>1, SeqDef
  <2>3. a \in Range(t)
    BY <1>1 DEF Range
  <2>4. \A b \in Range(dict) : b[key] # a[key] => b \in Range(t)
    BY DEF Range
  <2> QED BY <2>1, <2>2, <2>3, <2>4
<1>2. CASE ~ \E i \in DOMAIN dict : dict[i][key] = a[key]
  <2> DEFINE t == Append(dict, a)
  <2>1. Nl!Put(dict, a, key) = t
    BY <1>2 DEF Nl!Put
  <2>2. /\ t \in Seq(X) /\ DOMAIN t = 1..(Len(dict) + 1) /\ t[Len(dict) + 1] = a
        /\ \A i \in DOMAIN dict : t[i] = dict[i] /\ i \in DOMAIN t
    BY <1>0
  <2>3. a \in Range(t) /\ \A b \in Range(dict) : b \in Range(t)
    <3> HIDE DEF t
    <3>1. Len(dict) + 1 \in DOMAIN t
      BY <1>0, <2>2
    <3> QED BY <2>2, <3>1 DEF Range
  <2> QED BY <2>1, <2>2, <2>3
<1> QED BY <1>1, <1>2

Popped(s, id) == Nl!RemoveFirstMatch(s, LAMBDA b : b.id = id)

LEMMA PopIs ==
  ASSUME NEW X, NEW s \in Seq(X), NEW id
  PROVE  /\ Popped(s, id) \in Seq(X)
         /\ \A b \in Range(s) : b.id # id => b \in Range(Popped(s, id))
<1> DEFINE I == {i \in 1..Len(s) : s[i].id = id}
           k == Nl!Min(I)
           t == Popped(s, id)
<1>0. DOMAIN s = 1..Len(s) /\ Len(s) \in Nat /\ \A i \in 1..Len(s) : s[i] \in X
  OBVIOUS
<1>1. CASE I = {}
  <2>1. t = s
    BY <1>1 DEF Popped, Nl!RemoveFirstMatch
  <2> QED BY <2>1
<1>2. CASE I # {}
  <2>1. k \in I
    <3>1. I \subseteq Nat
      OBVIOUS
    <3>2. \E i \in I : \A j \in I : i <= j
      <4> HIDE DEF I
      <4> QED BY <1>2, <3>1, LeastNat
    <3> HIDE DEF I
    <3> QED BY <3>2 DEF Nl!Min
  <2>2. t = SubSeq(s, 1, k - 1) \o SubSeq(s, k + 1, Len(s))
    BY <1>2 DEF Popped, Nl!RemoveFirstMatch, Nl!SelectInSeq, Nl!RemoveAt
  <2> DEFINE f == SubSeq(s, 1, k - 1)
             g == SubSeq(s, k + 1, Len(s))
  <2> HIDE DEF k, t
  <2>3. k \in 1..Len(s) /\ k - 1 \in Int /\ k + 1 \in Int /\ s[k].id = id
    BY <2>1
  <2>4. /\ f \in Seq(X) /\ Len(f) = k - 1
        /\ \A i \in 1..(k - 1) : f[i] = s[i]
    <3>1. \A i \in 1..(k - 1) : s[i] \in X
      BY <1>0, <2>3
    <3> QED BY <1>0, <2>3, <3>1, SubSeqProperties
  <2>5. /\ g \in Seq(X) /\ Len(g) = Len(s) - k
        /\ \A i \in 1..(Len(s) - k) : g[i] = s[k + i]
    <3>1. \A i \in (k + 1)..Len(s) : s[i] \in X
      BY <1>0, <2>3
    <3>2. /\ g \in Seq(X) /\ Len(g) = IF k + 1 <= Len(s) THEN Len(s) - (k + 1) + 1 ELSE 0
          /\ \A i \in 1..(Len(s) - (k + 1) + 1) : g[i] = s[(k + 1) + i - 1]
      BY <1>0, <2>3, <3>1, SubSeqProperties
    <3>3. Len(s) - (k + 1) + 1 = Len(s) - k /\ \A i \in Int : (k + 1) + i - 1 = k + i
      BY <1>0, <2>3
    <3>4. Len(g) = Len(s) - k
      <4>1. k \in Nat /\ Len(s) \in Nat /\ k <= Len(s)
        BY <1>0, <2>3
      <4>2. Len(g) = IF k + 1 <= Len(s) THEN Len(s) - (k + 1) + 1 ELSE 0
        BY <3>2
      <4> HIDE DEF k
      <4> QED BY <4>1, <4>2
    <3>5. ASSUME NEW i \in 1..(Len(s) - k) PROVE g[i] = s[k + i]
      <4>1. i \in 1..(Len(s) - (k + 1) + 1) /\ (k + 1) + i - 1 = k + i
        BY <3>3, <3>5
      <4> QED BY <3>2, <4>1
    <3> QED BY <3>2, <3>4, <3>5
  <2> HIDE DEF f, g
  <2>6. /\ f \o g \in Seq(X) /\ Len(f \o g) = Len(s) - 1
        /\ \A i \in 1..(Len(s) - 1) : (f \o g)[i] = IF i <= k - 1 THEN f[i] ELSE g[i - (k - 1)]
    <3>1. Len(f) + Len(g) = Len(s) - 1
      BY <1>0, <2>3, <2>4, <2>5
    <3>2. /\ f \o g \in Seq(X) /\ Len(f \o g) = Len(f) + Len(g)
          /\ \A i \in 1..(Len(f) + Len(g)) :
               (f \o g)[i] = IF i <= Len(f) THEN f[i] ELSE g[i - Len(f)]
      BY <2>4, <2>5, ConcatProperties
    <3> QED BY <2>4, <3>1, <3>2
  <2>7. ASSUME NEW i \in 1..Len(s), s[i].id # id PROVE s[i] \in Range(f \o g)
    <3>1. DOMAIN (f \o g) = 1..(Len(s) - 1)
      BY <2>6
    <3>2. CASE i < k
      <4>1. i \in 1..(k - 1) /\ i \in 1..(Len(s) - 1) /\ i <= k - 1
        BY <1>0, <2>3, <3>2
      <4>2. (f \o g)[i] = s[i]
        BY <2>4, <2>6, <4>1
      <4> QED BY <3>1, <4>1, <4>2 DEF Range
    <3>3. CASE i > k
      <4>1. /\ i - 1 \in 1..(Len(s) - 1) /\ ~ (i - 1 <= k - 1) /\ i - k \in 1..(Len(s) - k)
            /\ (i - 1) - (k - 1) = i - k /\ k + (i - k) = i
        BY <1>0, <2>3, <3>3
      <4>2. (f \o g)[i - 1] = s[i]
        BY <2>5, <2>6, <4>1
      <4> QED BY <3>1, <4>1, <4>2 DEF Range
    <3>4. i # k
      BY <2>3, <2>7
    <3> QED BY <2>3, <3>2, <3>3, <3>4
  <2>8. \A b \in Range(s) : b.id # id => b \in Range(f \o g)
    BY <1>0, <2>7 DEF Range
  <2> QED BY <2>2, <2>6, <2>8 DEF f, g, t
<1> QED BY <1>1, <1>2

LEMMA MergeIs ==
  ASSUME NEW X, NEW st \in States(X), NEW a \in X
  PROVE  /\ Nl!Merge(st, a) \in States(X)
         /\ a \in Kept(Nl!Merge(st, a))
         /\ (\A b \in Kept(st) : b.newsletter) /\ a.newsletter =>
              \A b \in Kept(st) : b.id # a.id => b \in Kept(Nl!Merge(st, a))
         /\ ~a.newsletter =>
              \A b \in Kept(st) : b.id # a.id /\ b.url # a.url => b \in Kept(Nl!Merge(st, a))
<1>0. st.byUrl \in Seq(X) /\ st.siblings \in Seq(X) /\ st = [byUrl |-> st.byUrl, siblings |-> st.siblings]
  BY DEF States
<1> DEFINE new == Nl!Merge(st, a)
           Beside == \E i \in DOMAIN st.byUrl : /\ st.byUrl[i].url = a.url /\ st.byUrl[i].id # a.id
                                               /\ st.byUrl[i].newsletter /\ a.newsletter
<1>1. CASE Beside
  <2> DEFINE t == Nl!Put(st.siblings, a, "id")
  <2>1. new = [st EXCEPT !.siblings = t]
    BY <1>1 DEF Nl!Merge
  <2>2. t \in Seq(X) /\ a \in Range(t) /\ \A b \in Range(st.siblings) : b["id"] # a["id"] => b \in Range(t)
    BY <1>0, PutIs
  <2> HIDE DEF t
  <2>3. new.byUrl = st.byUrl /\ new.siblings = t /\ new \in States(X)
    BY <1>0, <2>1, <2>2 DEF States
  <2>4. a.newsletter
    BY <1>1
  <2> HIDE DEF new
  <2> QED BY <2>2, <2>3, <2>4 DEF Kept, new
<1>2. CASE ~Beside
  <2> DEFINE t == Nl!Put(st.byUrl, a, "url")
             q == Nl!RemoveFirstMatch(st.siblings, LAMBDA b : b.id = a.id)
  <2>1. new = [byUrl |-> t, siblings |-> q]
    BY <1>2 DEF Nl!Merge
  <2>2. t \in Seq(X) /\ a \in Range(t) /\ \A b \in Range(st.byUrl) : b["url"] # a["url"] => b \in Range(t)
    BY <1>0, PutIs
  <2>3. q \in Seq(X) /\ \A b \in Range(st.siblings) : b.id # a.id => b \in Range(q)
    <3>1. q = Popped(st.siblings, a.id)
      BY DEF Popped
    <3> HIDE DEF q
    <3> QED BY <1>0, <3>1, PopIs
  <2> HIDE DEF t, q
  <2>4. new.byUrl = t /\ new.siblings = q /\ new \in States(X)
    BY <2>1, <2>2, <2>3 DEF States
  <2>5. \A b \in Range(st.byUrl) : b.newsletter /\ a.newsletter /\ b.url = a.url => b.id = a.id
    BY <1>2 DEF Range
  <2> HIDE DEF new, Beside
  <2> QED BY <2>2, <2>3, <2>4, <2>5 DEF Kept, new
<1> QED BY <1>1, <1>2

LEMMA MergeFold ==
  ASSUME NEW X, NEW xs \in Seq(X)
  PROVE  \E f \in [0..Len(xs) -> States(X)] :
           /\ f[0] = Nothing
           /\ \A k \in 1..Len(xs) : f[k] = Nl!Merge(f[k - 1], xs[k])
           /\ f[Len(xs)] = Nl!FoldLeft(Nl!Merge, Nothing, xs)
<1>0. PICK n \in Nat : n = Len(xs) /\ DOMAIN xs = 1..n /\ \A i \in 1..n : xs[i] \in X
  OBVIOUS
<1> DEFINE op == [p \in (1..n) \X States(X) |-> Nl!Merge(p[2], xs[p[1]])]
           G(g) == [s \in SUBSET (DOMAIN xs) |->
                      IF s = {} THEN Nothing ELSE Nl!Merge(g[s \ {Nl!Max(s)}], xs[Nl!Max(s)])]
           iter == CHOOSE g : g = G(g)
<1>1. Nl!FoldLeft(Nl!Merge, Nothing, xs) = iter[DOMAIN xs]
  BY DEF Nl!FoldLeft, Nl!MapThenFoldSet
<1>2. Nothing \in States(X)
  BY DEF Nothing, States
<1>3. op \in [(1..n) \X States(X) -> States(X)]
  <2>1. \A p \in (1..n) \X States(X) : Nl!Merge(p[2], xs[p[1]]) \in States(X)
    BY <1>0, MergeIs
  <2> QED BY <2>1
<1> DEFINE c == [s \in SUBSET (1..n) |-> Nl!Max(s)]
<1>4. PICK g \in [SUBSET (1..n) -> States(X)] : IsFold(g, 1..n, Nothing, op, c)
  <2> DEFINE A == States(X)
             T == 1..n
  <2>1. Nothing \in A /\ op \in [T \X A -> A] /\ IsFiniteSet(T)
    BY <1>2, <1>3, FS_Interval
  <2>2. \A s \in SUBSET T : s # {} => c[s] \in s
    BY GreatestOf
  <2> HIDE DEF op, A, T, c
  <2>3. \E g \in [SUBSET T -> A] : IsFold(g, T, Nothing, op, c)
    BY <2>1, <2>2, FoldExists
  <2> QED BY <2>3 DEF A, T
<1>5. g = G(g)
  <2>1. ASSUME NEW s \in SUBSET (1..n), s # {}
        PROVE  op[<<c[s], g[s \ {c[s]}]>>] = Nl!Merge(g[s \ {Nl!Max(s)}], xs[Nl!Max(s)])
    <3>1. Nl!Max(s) \in 1..n /\ s \ {Nl!Max(s)} \in SUBSET (1..n)
      BY <1>0, <2>1, GreatestOf
    <3>2. <<Nl!Max(s), g[s \ {Nl!Max(s)}]>> \in (1..n) \X States(X)
      BY <3>1
    <3> QED BY <3>2
  <2> HIDE DEF op, c
  <2> QED BY <1>0, <1>4, <2>1 DEF IsFold
<1>6. iter = G(iter)
  <2> HIDE DEF G
  <2> QED BY <1>5
<1>7. /\ iter[{}] = Nothing
      /\ \A s \in SUBSET (1..n) : s # {} =>
           iter[s] = Nl!Merge(iter[s \ {Nl!Max(s)}], xs[Nl!Max(s)])
  <2> HIDE DEF iter
  <2> QED BY <1>0, <1>6
<1> HIDE DEF iter
<1>8. ASSUME NEW k \in 1..n PROVE iter[1..k] = Nl!Merge(iter[1..(k - 1)], xs[k])
  <2>1. Nl!Max(1..k) = k /\ (1..k) \ {k} = 1..(k - 1) /\ 1..k # {} /\ 1..k \in SUBSET (1..n)
    BY <1>0, LastOf
  <2> QED BY <1>7, <2>1
<1>9. \A k \in 0..n : iter[1..k] \in States(X)
  <2> DEFINE K == {k \in Nat : k <= n => iter[1..k] \in States(X)}
  <2>1. 0 \in K
    <3>1. 1..0 = {}
      OBVIOUS
    <3> QED BY <1>2, <1>7, <3>1
  <2>2. ASSUME NEW k \in Nat, k \in K PROVE k + 1 \in K
    <3> SUFFICES ASSUME k + 1 <= n PROVE iter[1..(k + 1)] \in States(X)
      OBVIOUS
    <3>1. k + 1 \in 1..n /\ (k + 1) - 1 = k /\ iter[1..k] \in States(X)
      BY <1>0, <2>2
    <3>2. iter[1..(k + 1)] = Nl!Merge(iter[1..k], xs[k + 1])
      BY <1>8, <3>1
    <3> QED BY <1>0, <3>1, <3>2, MergeIs
  <2>3. \A k \in Nat : k \in K
    <3> HIDE DEF K
    <3> QED BY <2>1, <2>2, AllNat
  <2> QED BY <2>3
<1> DEFINE f == [k \in 0..n |-> iter[1..k]]
<1>10. f \in [0..n -> States(X)] /\ f[0] = Nothing /\ f[n] = iter[1..n]
  <2>1. 1..0 = {}
    OBVIOUS
  <2> QED BY <1>0, <1>7, <1>9, <2>1
<1>11. \A k \in 1..n : f[k] = Nl!Merge(f[k - 1], xs[k])
  BY <1>8
<1> HIDE DEF f
<1> QED BY <1>0, <1>1, <1>10, <1>11

LEMMA KeptIsOf == ASSUME NEW X, NEW st \in States(X) PROVE Kept(st) \subseteq X
<1>1. st.byUrl \in Seq(X) /\ st.siblings \in Seq(X)
  BY DEF States
<1> QED BY <1>1 DEF Kept, Range

(* An issue in the order of the fetch, before every article of a feed.     *)
NewslettersFirst(xs) ==
  \A i, j \in 1..Len(xs) :
    /\ i < j /\ xs[j].newsletter => xs[i].newsletter
    /\ xs[i].newsletter /\ ~xs[j].newsletter => xs[i].id # xs[j].id

(* An article of a feed has the URL of a copy of the issue.                *)
StoodIn(xs, k, i) ==
  \E j, l \in 1..k : /\ xs[j].newsletter /\ ~xs[l].newsletter
                     /\ xs[j].id = xs[i].id /\ xs[j].url = xs[l].url

LEMMA MergedKeeps ==
  ASSUME NEW X, NEW xs \in Seq(X), NewslettersFirst(xs)
  PROVE  /\ Nl!Merged(xs) \in Seq(X)
         /\ \A i \in 1..Len(xs) : xs[i].newsletter =>
              \/ \E b \in Range(Nl!Merged(xs)) : b.newsletter /\ b.id = xs[i].id
              \/ StoodIn(xs, Len(xs), i)
<1> DEFINE n == Len(xs)
           Of(k) == {xs[i] : i \in 1..k}
<1>0. n \in Nat /\ \A i \in 1..n : xs[i] \in X
  OBVIOUS
<1>1. PICK f \in [0..n -> States(X)] :
        /\ f[0] = Nothing
        /\ \A k \in 1..n : f[k] = Nl!Merge(f[k - 1], xs[k])
        /\ f[n] = Nl!FoldLeft(Nl!Merge, Nothing, xs)
  BY MergeFold
<1> HIDE DEF n
<1> DEFINE Has(k, i) == \E b \in Kept(f[k]) : b.newsletter /\ b.id = xs[i].id
           Holds(k) == /\ f[k] \in States(Of(k))
                       /\ \A i \in 1..k : xs[i].newsletter => Has(k, i) \/ StoodIn(xs, k, i)
           K == {k \in Nat : k <= n => Holds(k)}
<1>2. 0 \in K
  <2>1. 1..0 = {}
    OBVIOUS
  <2>2. f[0] \in States(Of(0))
    BY <1>1 DEF Nothing, States
  <2> HIDE DEF Of, Has
  <2> QED BY <2>1, <2>2
<1>3. ASSUME NEW k \in Nat, k \in K PROVE k + 1 \in K
  <2> SUFFICES ASSUME k + 1 <= n PROVE Holds(k + 1)
    OBVIOUS
  <2> DEFINE a == xs[k + 1]
  <2>1. /\ k + 1 \in 1..n /\ k \in 0..n /\ (k + 1) - 1 = k /\ 1..(k + 1) = (1..k) \cup {k + 1}
        /\ \A i \in 1..k : i \in 1..n /\ i < k + 1
    BY <1>0
  <2>2. Holds(k)
    BY <1>0, <1>3
  <2>3. f[k + 1] = Nl!Merge(f[k], a)
    BY <1>1, <2>1
  <2>4. Of(k) \subseteq Of(k + 1) /\ a \in Of(k + 1)
    BY <2>1
  <2>5. f[k] \in States(Of(k + 1))
    <3> HIDE DEF Of
    <3>1. \A s \in Seq(Of(k)) : s \in Seq(Of(k + 1))
      BY <2>4
    <3> QED BY <2>2, <3>1 DEF States
  <2>6. \A b \in Kept(f[k]) : \E i \in 1..k : b = xs[i]
    <3>1. Kept(f[k]) \subseteq Of(k)
      <4> HIDE DEF Of
      <4> QED BY <2>2, KeptIsOf
    <3> QED BY <3>1
  <2> HIDE DEF Of
  <2>7. /\ f[k + 1] \in States(Of(k + 1))
        /\ a \in Kept(f[k + 1])
        /\ (\A b \in Kept(f[k]) : b.newsletter) /\ a.newsletter =>
             \A b \in Kept(f[k]) : b.id # a.id => b \in Kept(f[k + 1])
        /\ ~a.newsletter =>
             \A b \in Kept(f[k]) : b.id # a.id /\ b.url # a.url => b \in Kept(f[k + 1])
    BY <2>3, <2>4, <2>5, MergeIs
  <2>8. ASSUME NEW i \in 1..(k + 1), xs[i].newsletter
        PROVE  Has(k + 1, i) \/ StoodIn(xs, k + 1, i)
    <3>1. CASE i = k + 1
      BY <2>7, <2>8, <3>1
    <3>2. CASE i \in 1..k /\ StoodIn(xs, k, i)
      BY <2>1, <3>2 DEF StoodIn
    <3>3. CASE i \in 1..k /\ Has(k, i)
      <4>1. PICK b \in Kept(f[k]) : b.newsletter /\ b.id = xs[i].id
        BY <3>3
      <4>2. CASE a.newsletter
        <5>1. \A c \in Kept(f[k]) : c.newsletter
          BY <2>1, <2>6, <4>2 DEF NewslettersFirst, n
        <5> QED BY <2>7, <4>1, <4>2, <5>1
      <4>3. CASE ~a.newsletter
        <5>1. PICK j \in 1..k : b = xs[j]
          BY <2>6, <4>1
        <5>2. b.id # a.id
          BY <2>1, <4>1, <4>3, <5>1 DEF NewslettersFirst, n
        <5>3. CASE b.url # a.url
          BY <2>7, <4>1, <4>3, <5>2, <5>3
        <5>4. CASE b.url = a.url
          <6>1. StoodIn(xs, k + 1, i)
            BY <2>1, <4>1, <4>3, <5>1, <5>4 DEF StoodIn
          <6> QED BY <6>1
        <5> QED BY <5>3, <5>4
      <4> QED BY <4>2, <4>3
    <3> QED BY <2>1, <2>2, <2>8, <3>1, <3>2, <3>3
  <2> HIDE DEF Has
  <2> QED BY <2>7, <2>8
<1>4. Holds(n)
  <2>1. \A k \in Nat : k \in K
    <3> HIDE DEF K
    <3> QED BY <1>2, <1>3, AllNat
  <2> QED BY <1>0, <2>1
<1>5. Nl!Merged(xs) = f[n].byUrl \o f[n].siblings
  BY <1>1 DEF Nl!Merged, Nothing
<1>6. f[n].byUrl \in Seq(X) /\ f[n].siblings \in Seq(X)
  BY <1>0, <1>1 DEF States
<1>7. Nl!Merged(xs) \in Seq(X) /\ Range(Nl!Merged(xs)) = Kept(f[n])
  BY <1>5, <1>6, RangeConcatenation DEF Kept
<1> HIDE DEF Of
<1> QED BY <1>4, <1>7 DEF n

(* A strict total order on a finite set has a last element, and a sequence *)
(* that names each element once, in its order.                             *)
Orders(R, S) ==
  /\ \A p, q \in S : p # q => <<p, q>> \in R \/ <<q, p>> \in R
  /\ \A p, q, r \in S : <<p, q>> \in R /\ <<q, r>> \in R => <<p, r>> \in R

LEMMA LastOne ==
  ASSUME NEW S, IsFiniteSet(S), S # {}, NEW R, Orders(R, S)
  PROVE  \E x \in S : \A y \in S \ {x} : <<y, x>> \in R
<1> DEFINE Good(T) == T # {} => \E x \in T : \A y \in T \ {x} : <<y, x>> \in R
           K == {n \in Nat : \A T \in SUBSET S : Cardinality(T) = n => Good(T)}
<1>1. 0 \in K
  <2> SUFFICES ASSUME NEW T \in SUBSET S, Cardinality(T) = 0 PROVE Good(T)
    OBVIOUS
  <2>1. IsFiniteSet(T)
    BY FS_Subset
  <2>2. T = {}
    BY <2>1, FS_EmptySet
  <2> QED BY <2>2
<1>2. ASSUME NEW n \in Nat, n \in K PROVE n + 1 \in K
  <2> SUFFICES ASSUME NEW T \in SUBSET S, Cardinality(T) = n + 1, T # {}
               PROVE  \E x \in T : \A y \in T \ {x} : <<y, x>> \in R
    OBVIOUS
  <2>1. PICK t \in T : TRUE
    OBVIOUS
  <2>2. IsFiniteSet(T)
    BY FS_Subset
  <2>3. Cardinality(T \ {t}) = n
    <3>1. Cardinality(T \ {t}) = Cardinality(T) - 1
      BY <2>1, <2>2, FS_RemoveElement
    <3> QED BY <3>1
  <2>4. Good(T \ {t})
    BY <1>2, <2>3
  <2>5. CASE T \ {t} = {}
    BY <2>1, <2>5
  <2>6. CASE T \ {t} # {}
    <3>1. PICK x \in T \ {t} : \A y \in (T \ {t}) \ {x} : <<y, x>> \in R
      BY <2>4, <2>6
    <3>2. CASE <<t, x>> \in R
      BY <3>1, <3>2
    <3>3. CASE <<x, t>> \in R
      <4>1. \A y \in T \ {t} : <<y, t>> \in R
        BY <2>1, <3>1, <3>3 DEF Orders
      <4> QED BY <2>1, <4>1
    <3> QED BY <2>1, <3>1, <3>2, <3>3 DEF Orders
  <2> QED BY <2>5, <2>6
<1>3. \A n \in Nat : n \in K
  <2> HIDE DEF K
  <2> QED BY <1>1, <1>2, AllNat
<1>4. Cardinality(S) \in Nat
  BY FS_CardinalityType
<1> QED BY <1>3, <1>4

LEMMA InItsOrder ==
  ASSUME NEW S, IsFiniteSet(S), NEW R, Orders(R, S)
  PROVE  \E s \in Nl!SetToSeqs(S) : \A i, j \in DOMAIN s : i < j => <<s[i], s[j]>> \in R
<1> DEFINE Sorted(s, n) == \A i, j \in 1..n : i < j => <<s[i], s[j]>> \in R /\ s[i] # s[j]
           K == {n \in Nat : \A T \in SUBSET S : Cardinality(T) = n =>
                   \E s \in [1..n -> T] : Sorted(s, n)}
<1>1. 0 \in K
  <2> SUFFICES ASSUME NEW T \in SUBSET S, Cardinality(T) = 0
               PROVE  \E s \in [1..0 -> T] : Sorted(s, 0)
    OBVIOUS
  <2>1. 1..0 = {}
    OBVIOUS
  <2>2. [i \in 1..0 |-> i] \in [1..0 -> T]
    BY <2>1
  <2> QED BY <2>1, <2>2
<1>2. ASSUME NEW n \in Nat, n \in K PROVE n + 1 \in K
  <2> SUFFICES ASSUME NEW T \in SUBSET S, Cardinality(T) = n + 1
               PROVE  \E s \in [1..(n + 1) -> T] : Sorted(s, n + 1)
    OBVIOUS
  <2>0. IsFiniteSet(T)
    BY FS_Subset
  <2>1. T # {}
    BY <2>0, FS_EmptySet
  <2>2. PICK x \in T : \A y \in T \ {x} : <<y, x>> \in R
    BY <2>0, <2>1, LastOne DEF Orders
  <2>3. Cardinality(T \ {x}) = n
    <3>1. x \in T
      OBVIOUS
    <3>2. Cardinality(T \ {x}) = Cardinality(T) - 1
      BY <2>0, <3>1, FS_RemoveElement
    <3> QED BY <3>2
  <2>4. PICK s \in [1..n -> T \ {x}] : Sorted(s, n)
    BY <1>2, <2>3
  <2> DEFINE t == [i \in 1..(n + 1) |-> IF i = n + 1 THEN x ELSE s[i]]
  <2>5. t \in [1..(n + 1) -> T]
    OBVIOUS
  <2>6. ASSUME NEW i \in 1..(n + 1), NEW j \in 1..(n + 1), i < j
        PROVE  <<t[i], t[j]>> \in R /\ t[i] # t[j]
    <3>1. i \in 1..n /\ t[i] = s[i] /\ s[i] \in T \ {x}
      BY <2>6
    <3>2. CASE j = n + 1
      BY <2>2, <3>1, <3>2
    <3>3. CASE j # n + 1
      <4>1. j \in 1..n /\ t[j] = s[j]
        BY <3>3
      <4> QED BY <2>4, <2>6, <3>1, <4>1
    <3> QED BY <3>2, <3>3
  <2> HIDE DEF t
  <2> QED BY <2>5, <2>6
<1>3. \A n \in Nat : n \in K
  <2> HIDE DEF K
  <2> QED BY <1>1, <1>2, AllNat
<1>4. Cardinality(S) \in Nat
  BY FS_CardinalityType
<1>5. PICK s \in [1..Cardinality(S) -> S] : Sorted(s, Cardinality(S))
  BY <1>3, <1>4
<1>6. ASSUME NEW i \in 1..Cardinality(S), NEW j \in 1..Cardinality(S), i # j
      PROVE  s[i] # s[j]
  <2>1. i < j \/ j < i
    BY <1>4, <1>6
  <2> QED BY <1>5, <2>1
<1>7. s \in Nl!SetToSeqs(S)
  BY <1>6, SameCount DEF Nl!SetToSeqs
<1> QED BY <1>5, <1>7

(* A sequence that names each element of a finite set once names them all. *)
LEMMA AllNamed ==
  ASSUME NEW S, IsFiniteSet(S), NEW s \in Nl!SetToSeqs(S)
  PROVE  s \in Seq(S) /\ Range(s) = S /\ Len(s) = Cardinality(S) /\ DOMAIN s = 1..Len(s)
         /\ \A i, j \in DOMAIN s : i # j => s[i] # s[j]
<1> DEFINE n == Cardinality(S)
<1>1. n \in Nat /\ s \in [1..n -> S] /\ \A i, j \in 1..n : i # j => s[i] # s[j]
  BY FS_CardinalityType, SameCount DEF Nl!SetToSeqs
<1>2. s \in Seq(S) /\ Len(s) = n
  BY <1>1
<1>3. Range(s) = S
  <2>1. IsFiniteSet(1..n) /\ Cardinality(1..n) = n
    BY <1>1, FS_Interval
  <2> SUFFICES ASSUME NEW x \in S, \A i \in 1..n : s[i] # x PROVE FALSE
    BY <1>1 DEF Range
  <2>2. IsFiniteSet(S \ {x}) /\ Cardinality(S \ {x}) = n - 1
    BY FS_RemoveElement
  <2>3. s \in [1..n -> S \ {x}]
    BY <1>1
  <2>4. PICK i, j \in 1..n : i # j /\ s[i] = s[j]
    BY <1>1, <2>1, <2>2, <2>3, FS_PigeonHole
  <2> QED BY <1>1, <2>4
<1> QED BY <1>1, <1>2, <1>3


LEMMA InOrderIs ==
  ASSUME NEW S, S \subseteq Mails, IsFiniteSet(S)
  PROVE  Nl!SetToSeqs(S) # {} /\
         (\E s \in Nl!SetToSeqs(S) : \A i, j \in DOMAIN s : i < j => s[i] < s[j])
<1> DEFINE R == {p \in S \X S : p[1] < p[2]}
<1>1. S \subseteq Nat
  BY LettersAssumption
<1>2. Orders(R, S)
  <2>1. \A p, q \in S : <<p, q>> \in R <=> p < q
    OBVIOUS
  <2>2. \A p, q, r \in Nat : (p # q => p < q \/ q < p) /\ (p < q /\ q < r => p < r)
    OBVIOUS
  <2> HIDE DEF R
  <2> QED BY <1>1, <2>1, <2>2 DEF Orders
<1>3. PICK s \in Nl!SetToSeqs(S) : \A i, j \in DOMAIN s : i < j => <<s[i], s[j]>> \in R
  <2> HIDE DEF R
  <2> QED BY <1>2, InItsOrder
<1> QED BY <1>3

LEMMA IssuesInOrder ==
  ASSUME NEW S, S \subseteq Mails
  PROVE  /\ IsFiniteSet(Nl!Issues(S))
         /\ Nl!InOrder(Nl!Issues(S)) \in Nl!SetToSeqs(Nl!Issues(S))
<1>1. Nl!Issues(S) \subseteq Mails
  BY DEF Nl!Issues
<1>2. IsFiniteSet(Nl!Issues(S))
  BY <1>1, LettersAssumption, FS_Subset
<1> QED BY <1>1, <1>2, InOrderIs DEF Nl!InOrder

LEMMA LinksListed ==
  ASSUME NEW L, IsFiniteSet(L)
  PROVE  Nl!SetToSeq(L) \in Nl!SetToSeqs(L)
<1> DEFINE n == Nl!Cardinality(L)
<1>1. \E f \in [1..n -> L] : Nl!IsInjective(f)
  <2>1. PICK s \in Nl!SetToSeqs(L) : TRUE
    <3>1. PICK f \in Bijection(1..Cardinality(L), L) : TRUE
      BY FS_CardinalityType DEF ExistsBijection
    <3>2. f \in [1..n -> L] /\ \A i, j \in 1..n : i # j => f[i] # f[j]
      BY <3>1, SameCount DEF Bijection, Injection, IsInjective
    <3> QED BY <3>2 DEF Nl!SetToSeqs
  <2> QED BY <2>1 DEF Nl!SetToSeqs, Nl!IsInjective
<1>2. Nl!SetToSeq(L) \in [1..n -> L] /\ Nl!IsInjective(Nl!SetToSeq(L))
  BY <1>1 DEF Nl!SetToSeq
<1> QED BY <1>2 DEF Nl!SetToSeqs, Nl!IsInjective

(* What a run fetches: the issues it pulled and the articles of its feeds. *)
IssueArticles(S) == {Nl!IssueArticle(c) : c \in Nl!Issues(S)}
RssArticles(L) == {Nl!RssArticle(l) : l \in L}

LEMMA ArticlesAre ==
  ASSUME NEW c, NEW l
  PROVE  /\ Nl!IssueArticle(c).newsletter = TRUE /\ Nl!RssArticle(l).newsletter = FALSE
         /\ Nl!IssueArticle(c).id = Nl!Id(c) /\ Nl!RssArticle(l).id = l
         /\ Nl!IssueArticle(c).url =
              (IF says[c].link = NoLink THEN Nl!Synthetic(Nl!Id(c)) ELSE says[c].link)
         /\ Nl!RssArticle(l).url = l
         /\ Nl!IssueArticle(c).src = says[c].src /\ Nl!IssueArticle(c).title = says[c].title
         /\ Nl!RssArticle(l).src = Nl!Rss
BY DEF Nl!IssueArticle, Nl!RssArticle

LEMMA IssueSays ==
  ASSUME says \in [Mails -> Nl!Contents], NEW S, S \subseteq Mails, NEW c \in Nl!Issues(S)
  PROVE  /\ c \in S /\ c \in Mails
         /\ says[c].src \in Sources /\ says[c].title \in Subjects
         /\ says[c].link \in Links \cup {NoLink}
         /\ Nl!Id(c) \in Sources \X Subjects
<1>1. c \in Mails /\ says[c].kind = "issue" /\ says[c] \in Nl!Contents /\ c \in S
  BY DEF Nl!Issues
<1>2. says[c] \in [kind : {"issue"}, src : Sources, title : Subjects, link : Links \cup {NoLink}]
  BY <1>1 DEF Nl!Contents
<1> QED BY <1>1, <1>2 DEF Nl!Id

LEMMA FetchedIs ==
  ASSUME says \in [Mails -> Nl!Contents], NEW S, S \subseteq Mails, NEW L, L \subseteq Links
  PROVE  LET xs == Nl!Fetched(S, L) IN
         /\ xs \in Seq(IssueArticles(S) \cup RssArticles(L))
         /\ NewslettersFirst(xs)
         /\ \A m \in Nl!Issues(S) : \E i \in 1..Len(xs) : xs[i] = Nl!IssueArticle(m)
<1> DEFINE s == Nl!InOrder(Nl!Issues(S))
           t == Nl!SetToSeq(L)
           X == IssueArticles(S) \cup RssArticles(L)
           n == Len(s)
           k == Len(t)
           f == [i \in DOMAIN s |-> Nl!IssueArticle(s[i])]
           g == [i \in DOMAIN t |-> Nl!RssArticle(t[i])]
           xs == Nl!Fetched(S, L)
<1>1. s \in Seq(Nl!Issues(S)) /\ Range(s) = Nl!Issues(S) /\ DOMAIN s = 1..n /\ n \in Nat
  <2> HIDE DEF s
  <2>1. s \in Nl!SetToSeqs(Nl!Issues(S)) /\ IsFiniteSet(Nl!Issues(S))
    BY IssuesInOrder DEF s
  <2>2. s \in Seq(Nl!Issues(S)) /\ Range(s) = Nl!Issues(S) /\ DOMAIN s = 1..Len(s)
    BY <2>1, AllNamed
  <2>3. Len(s) \in Nat
    BY <2>2, LenProperties
  <2> QED BY <2>2, <2>3
<1>2. t \in Seq(L) /\ DOMAIN t = 1..k /\ k \in Nat
  <2> HIDE DEF t
  <2>0. IsFiniteSet(L)
    BY LettersAssumption, FS_Subset
  <2>1. t \in Nl!SetToSeqs(L)
    BY <2>0, LinksListed DEF t
  <2>2. t \in Seq(L) /\ DOMAIN t = 1..Len(t)
    BY <2>0, <2>1, AllNamed
  <2>3. Len(t) \in Nat
    BY <2>2, LenProperties
  <2> QED BY <2>2, <2>3
<1> HIDE DEF s, t
<1>3. \A i \in 1..n : s[i] \in Nl!Issues(S)
  BY <1>1, ElementOfSeq
<1>4. \A i \in 1..k : t[i] \in L
  BY <1>2, ElementOfSeq
<1>5. f \in Seq(X) /\ Len(f) = n /\ \A i \in 1..n : f[i] = Nl!IssueArticle(s[i])
  <2>1. f \in [1..n -> X]
    BY <1>1, <1>3 DEF IssueArticles
  <2> QED BY <1>1, <2>1, SeqDef
<1>6. g \in Seq(X) /\ Len(g) = k /\ \A i \in 1..k : g[i] = Nl!RssArticle(t[i])
  <2>1. g \in [1..k -> X]
    BY <1>2, <1>4 DEF RssArticles
  <2> QED BY <1>2, <2>1, SeqDef
<1>7. xs = f \o g
  BY DEF Nl!Fetched, s, t
<1> HIDE DEF f, g, X, xs, n, k
<1>8. /\ xs \in Seq(X) /\ Len(xs) = n + k
      /\ \A i \in 1..(n + k) : xs[i] = IF i <= n THEN f[i] ELSE g[i - n]
  BY <1>5, <1>6, <1>7, ConcatProperties
<1>9. \A i \in 1..n : i \in 1..(n + k) /\ xs[i] = Nl!IssueArticle(s[i])
  <2>1. \A i \in 1..n : i \in 1..(n + k) /\ i <= n
    BY <1>1, <1>2
  <2> QED BY <1>5, <1>8, <2>1
<1>10. \A i \in 1..(n + k) : i > n => i - n \in 1..k /\ xs[i] = Nl!RssArticle(t[i - n])
  <2>1. \A i \in 1..(n + k) : i > n => i - n \in 1..k /\ ~ (i <= n)
    BY <1>1, <1>2
  <2> QED BY <1>6, <1>8, <2>1
<1>11. \A i \in 1..(n + k) : xs[i].newsletter <=> i <= n
  <2>1. \A i \in 1..(n + k) : (i <= n => i \in 1..n) /\ (i <= n \/ i > n)
    BY <1>1, <1>2
  <2>2. ASSUME NEW i \in 1..(n + k) PROVE xs[i].newsletter <=> i <= n
    <3>1. CASE i <= n
      <4>1. xs[i].newsletter = TRUE
        BY <1>9, <2>1, <3>1, ArticlesAre
      <4> QED BY <3>1, <4>1
    <3>2. CASE ~ (i <= n)
      <4>1. PICK l : xs[i] = Nl!RssArticle(l)
        BY <1>10, <2>1, <3>2
      <4>2. Nl!RssArticle(l).newsletter = FALSE
        BY DEF Nl!RssArticle
      <4>3. ~ xs[i].newsletter
        BY <4>1, <4>2
      <4> QED BY <3>2, <4>3
    <3> QED BY <3>1, <3>2
  <2> QED BY <2>2
<1>12. NewslettersFirst(xs)
  <2>1. ASSUME NEW i \in 1..(n + k), NEW j \in 1..(n + k), i < j, xs[j].newsletter
        PROVE  xs[i].newsletter
    <3>1. j <= n
      BY <1>11, <2>1
    <3>2. i <= n
      BY <1>1, <1>2, <2>1, <3>1
    <3> QED BY <1>11, <3>2
  <2>2. ASSUME NEW i \in 1..(n + k), NEW j \in 1..(n + k), xs[i].newsletter, ~xs[j].newsletter
        PROVE  xs[i].id # xs[j].id
    <3>1. i \in 1..n /\ j > n
      BY <1>1, <1>2, <1>11, <2>2
    <3>2. xs[i].id = Nl!Id(s[i]) /\ xs[j].id = t[j - n]
      BY <1>9, <1>10, <3>1, ArticlesAre
    <3>3. Nl!Id(s[i]) \in Sources \X Subjects
      BY <1>3, <3>1, IssueSays
    <3>4. t[j - n] \in Links
      BY <1>4, <1>10, <3>1
    <3> QED BY <3>2, <3>3, <3>4, NamesAssumption
  <2> QED BY <1>8, <2>1, <2>2 DEF NewslettersFirst
<1>13. ASSUME NEW m \in Nl!Issues(S) PROVE \E i \in 1..Len(xs) : xs[i] = Nl!IssueArticle(m)
  <2>1. PICK i \in 1..n : s[i] = m
    BY <1>1 DEF Range
  <2> QED BY <1>8, <1>9, <2>1
<1> QED BY <1>8, <1>12, <1>13 DEF X, xs

(* What the merge leaves of it: of each issue that no article of a feed    *)
(* stood in for, the article of one of its copies.                         *)
LEMMA PullKeeps ==
  ASSUME says \in [Mails -> Nl!Contents], NEW S, S \subseteq Mails, NEW L, L \subseteq Links
  PROVE  LET merged == Nl!Merged(Nl!Fetched(S, L)) IN
         /\ merged \in Seq(IssueArticles(S) \cup RssArticles(L))
         /\ \A m \in Nl!Issues(S) \ Nl!Displaced(S, L) :
              \E c \in Nl!Issues(S) : Nl!Id(c) = Nl!Id(m) /\ Nl!IssueArticle(c) \in Range(merged)
<1> DEFINE xs == Nl!Fetched(S, L)
           X == IssueArticles(S) \cup RssArticles(L)
           merged == Nl!Merged(xs)
<1>1. /\ xs \in Seq(X) /\ NewslettersFirst(xs)
      /\ \A m \in Nl!Issues(S) : \E i \in 1..Len(xs) : xs[i] = Nl!IssueArticle(m)
  BY FetchedIs
<1> HIDE DEF xs, X
<1>2. /\ merged \in Seq(X)
      /\ \A i \in 1..Len(xs) : xs[i].newsletter =>
           (\E b \in Range(merged) : b.newsletter /\ b.id = xs[i].id) \/ StoodIn(xs, Len(xs), i)
  BY <1>1, MergedKeeps
<1> HIDE DEF merged
<1>3. Range(merged) \subseteq X
  BY <1>2, RangeOfSeq
<1>4. \A i \in 1..Len(xs) : xs[i] \in X
  BY <1>1, ElementOfSeq
<1>5. \A b \in X : /\ b.newsletter => \E c \in Nl!Issues(S) : b = Nl!IssueArticle(c)
                   /\ ~b.newsletter => \E l \in L : b = Nl!RssArticle(l)
  BY ArticlesAre DEF X, IssueArticles, RssArticles
<1>6. ASSUME NEW m \in Nl!Issues(S), m \notin Nl!Displaced(S, L)
      PROVE  \E c \in Nl!Issues(S) : Nl!Id(c) = Nl!Id(m) /\ Nl!IssueArticle(c) \in Range(merged)
  <2>1. PICK i \in 1..Len(xs) : xs[i] = Nl!IssueArticle(m)
    BY <1>1
  <2>2. xs[i].newsletter /\ xs[i].id = Nl!Id(m)
    BY <2>1, ArticlesAre
  <2>3. ~ StoodIn(xs, Len(xs), i)
    <3> SUFFICES ASSUME StoodIn(xs, Len(xs), i) PROVE FALSE
      OBVIOUS
    <3>1. PICK j, l \in 1..Len(xs) : /\ xs[j].newsletter /\ ~xs[l].newsletter
                                     /\ xs[j].id = xs[i].id /\ xs[j].url = xs[l].url
      BY DEF StoodIn
    <3>2. PICK c \in Nl!Issues(S) : xs[j] = Nl!IssueArticle(c)
      BY <1>4, <1>5, <3>1
    <3>3. PICK link \in L : xs[l] = Nl!RssArticle(link)
      BY <1>4, <1>5, <3>1
    <3>4. Nl!Id(c) = Nl!Id(m)
      BY <2>2, <3>1, <3>2, ArticlesAre
    <3>5. Nl!IssueArticle(c).url = link
      BY <3>1, <3>2, <3>3, ArticlesAre
    <3>6. Nl!Id(c) \in Sources \X Subjects
      BY IssueSays
    <3>7. says[c].link = link
      BY <3>5, <3>6, ArticlesAre, NamesAssumption
    <3> QED BY <1>6, <3>4, <3>7 DEF Nl!Displaced
  <2>4. PICK b \in Range(merged) : b.newsletter /\ b.id = Nl!Id(m)
    BY <1>2, <2>2, <2>3
  <2>5. PICK c \in Nl!Issues(S) : b = Nl!IssueArticle(c)
    BY <1>3, <1>5, <2>4
  <2> QED BY <2>4, <2>5, ArticlesAre
<1> QED BY <1>2, <1>6 DEF X, xs, merged

Saved(held, xs) == Nl!FoldLeft(Nl!Inserted, held, xs)
GoesOnIn(A, X) == \A h \in A, a \in X : Nl!Inserted(h, a) \in A

LEMMA InsertFold ==
  ASSUME NEW X, NEW xs \in Seq(X), NEW A, NEW held \in A, GoesOnIn(A, X)
  PROVE  \E f \in [0..Len(xs) -> A] :
           /\ f[0] = held
           /\ \A k \in 1..Len(xs) : f[k] = Nl!Inserted(f[k - 1], xs[k])
           /\ f[Len(xs)] = Saved(held, xs)
<1>0. PICK n \in Nat : n = Len(xs) /\ DOMAIN xs = 1..n /\ \A i \in 1..n : xs[i] \in X
  OBVIOUS
<1> DEFINE op == [p \in (1..n) \X A |-> Nl!Inserted(p[2], xs[p[1]])]
           G(g) == [s \in SUBSET (DOMAIN xs) |->
                      IF s = {} THEN held ELSE Nl!Inserted(g[s \ {Nl!Max(s)}], xs[Nl!Max(s)])]
           iter == CHOOSE g : g = G(g)
<1>1. Saved(held, xs) = iter[DOMAIN xs]
  BY DEF Saved, Nl!FoldLeft, Nl!MapThenFoldSet
<1>2. op \in [(1..n) \X A -> A]
  <2>1. \A p \in (1..n) \X A : Nl!Inserted(p[2], xs[p[1]]) \in A
    BY <1>0 DEF GoesOnIn
  <2> QED BY <2>1
<1> DEFINE c == [s \in SUBSET (1..n) |-> Nl!Max(s)]
<1>3. PICK g \in [SUBSET (1..n) -> A] : IsFold(g, 1..n, held, op, c)
  <2> DEFINE T == 1..n
  <2>1. op \in [T \X A -> A] /\ IsFiniteSet(T)
    BY <1>2, FS_Interval
  <2>2. \A s \in SUBSET T : s # {} => c[s] \in s
    BY GreatestOf
  <2> HIDE DEF op, T, c
  <2>3. \E g \in [SUBSET T -> A] : IsFold(g, T, held, op, c)
    BY <2>1, <2>2, FoldExists
  <2> QED BY <2>3 DEF T
<1>4. g = G(g)
  <2>1. ASSUME NEW s \in SUBSET (1..n), s # {}
        PROVE  op[<<c[s], g[s \ {c[s]}]>>] = Nl!Inserted(g[s \ {Nl!Max(s)}], xs[Nl!Max(s)])
    <3>1. Nl!Max(s) \in 1..n /\ s \ {Nl!Max(s)} \in SUBSET (1..n)
      BY <1>0, <2>1, GreatestOf
    <3>2. <<Nl!Max(s), g[s \ {Nl!Max(s)}]>> \in (1..n) \X A
      BY <3>1
    <3> QED BY <3>2
  <2> HIDE DEF op, c
  <2> QED BY <1>0, <1>3, <2>1 DEF IsFold
<1>5. iter = G(iter)
  <2> HIDE DEF G
  <2> QED BY <1>4
<1>6. /\ iter[{}] = held
      /\ \A s \in SUBSET (1..n) : s # {} =>
           iter[s] = Nl!Inserted(iter[s \ {Nl!Max(s)}], xs[Nl!Max(s)])
  <2> HIDE DEF iter
  <2> QED BY <1>0, <1>5
<1> HIDE DEF iter
<1>7. ASSUME NEW k \in 1..n PROVE iter[1..k] = Nl!Inserted(iter[1..(k - 1)], xs[k])
  <2>1. Nl!Max(1..k) = k /\ (1..k) \ {k} = 1..(k - 1) /\ 1..k # {} /\ 1..k \in SUBSET (1..n)
    BY <1>0, LastOf
  <2> QED BY <1>6, <2>1
<1>8. \A k \in 0..n : iter[1..k] \in A
  <2> DEFINE K == {k \in Nat : k <= n => iter[1..k] \in A}
  <2>1. 0 \in K
    <3>1. 1..0 = {}
      OBVIOUS
    <3> QED BY <1>6, <3>1
  <2>2. ASSUME NEW k \in Nat, k \in K PROVE k + 1 \in K
    <3> SUFFICES ASSUME k + 1 <= n PROVE iter[1..(k + 1)] \in A
      OBVIOUS
    <3>1. k + 1 \in 1..n /\ (k + 1) - 1 = k /\ iter[1..k] \in A
      BY <1>0, <2>2
    <3>2. iter[1..(k + 1)] = Nl!Inserted(iter[1..k], xs[k + 1])
      BY <1>7, <3>1
    <3> QED BY <1>0, <3>1, <3>2 DEF GoesOnIn
  <2>3. \A k \in Nat : k \in K
    <3> HIDE DEF K
    <3> QED BY <2>1, <2>2, AllNat
  <2> QED BY <2>3
<1> DEFINE f == [k \in 0..n |-> iter[1..k]]
<1>9. f \in [0..n -> A] /\ f[0] = held /\ f[n] = iter[1..n]
  <2>1. 1..0 = {}
    OBVIOUS
  <2> QED BY <1>0, <1>6, <1>8, <2>1
<1>10. \A k \in 1..n : f[k] = Nl!Inserted(f[k - 1], xs[k])
  BY <1>7
<1> HIDE DEF f
<1> QED BY <1>0, <1>1, <1>9, <1>10

(* The rows: one to a URL; each is an article of a feed, or an issue under *)
(* its own URL, or under its synthetic one beside the row of another issue *)
(* of the source that has its link.                                        *)
OwnRow(held, c, r) ==
  /\ r.src = says[c].src /\ r.title = says[c].title
  /\ \/ r.url = Nl!IssueArticle(c).url
     \/ /\ r.url = Nl!Synthetic(Nl!Id(c))
        /\ \E q \in held : q.url = Nl!IssueArticle(c).url /\ q.src = r.src /\ q.title # r.title

RowsOK(held, I) ==
  /\ \A r, q \in held : r.url = q.url => r = q
  /\ \A r \in held : \/ r.src = Nl!Rss /\ r.url \in Links
                     \/ \E c \in I : OwnRow(held, c, r)

Settled(held, c) ==
  \E r \in held : \/ r.src = says[c].src /\ r.title = says[c].title
                  \/ r.url = says[c].link /\ r.src # says[c].src

(* No URL is the synthetic one of two ids.                                 *)
LEMMA SyntheticOnce ==
  ASSUME NEW id, NEW jd PROVE Nl!Synthetic(id) = Nl!Synthetic(jd) => id = jd
BY DEF Nl!Synthetic

(* The row at the synthetic URL of an issue is one of its id.              *)
LEMMA SyntheticRow ==
  ASSUME says \in [Mails -> Nl!Contents], NEW T, T \subseteq Mails, NEW held,
         RowsOK(held, Nl!Issues(T)), NEW c \in Nl!Issues(T),
         NEW r \in held, r.url = Nl!Synthetic(Nl!Id(c))
  PROVE  r.src = says[c].src /\ r.title = says[c].title
<1>1. Nl!Id(c) \in Sources \X Subjects
  BY IssueSays
<1>2. r.url \notin Links
  BY <1>1, NamesAssumption
<1>3. PICK b \in Nl!Issues(T) : OwnRow(held, b, r)
  BY <1>2 DEF RowsOK
<1>4. says[b].link \in Links \cup {NoLink} /\ Nl!Id(b) \in Sources \X Subjects
  BY IssueSays
<1>5. r.url = Nl!Synthetic(Nl!Id(b))
  BY <1>2, <1>3, <1>4, ArticlesAre DEF OwnRow
<1>6. Nl!Id(b) = Nl!Id(c)
  BY <1>5, SyntheticOnce
<1> QED BY <1>3, <1>6 DEF OwnRow, Nl!Id

LEMMA GrownRows ==
  ASSUME NEW held, NEW more, held \subseteq more, NEW c, NEW r, OwnRow(held, c, r)
  PROVE  OwnRow(more, c, r)
BY DEF OwnRow

LEMMA NewRow ==
  ASSUME NEW held, NEW I, RowsOK(held, I), NEW new, \A r \in held : r.url # new.url,
         \/ new.src = Nl!Rss /\ new.url \in Links
         \/ \E c \in I : OwnRow(held, c, new)
  PROVE  RowsOK(held \cup {new}, I)
<1> DEFINE more == held \cup {new}
<1>1. held \subseteq more
  OBVIOUS
<1>2. \A r, q \in more : r.url = q.url => r = q
  BY DEF RowsOK
<1>3. ASSUME NEW r \in more PROVE (r.src = Nl!Rss /\ r.url \in Links) \/ \E c \in I : OwnRow(more, c, r)
  <2>1. (r.src = Nl!Rss /\ r.url \in Links) \/ \E c \in I : OwnRow(held, c, r)
    BY DEF RowsOK
  <2> HIDE DEF more
  <2> QED BY <1>1, <2>1, GrownRows
<1> HIDE DEF more
<1>4. RowsOK(more, I)
  BY <1>2, <1>3 DEF RowsOK
<1> QED BY <1>4 DEF more

LEMMA InsertedIs ==
  ASSUME NEW held, NEW a, \A r, q \in held : r.url = q.url => r = q
  PROVE  /\ held \subseteq Nl!Inserted(held, a)
         /\ (\A r \in held : r.url # a.url) =>
              Nl!Inserted(held, a) = held \cup {[url |-> a.url, title |-> a.title, src |-> a.src]}
         /\ \A r \in held :
              /\ r.url = a.url
              /\ a.newsletter /\ r.src = a.src /\ r.title # a.title
              /\ \A q \in held : q.url # Nl!Synthetic(a.id)
              => Nl!Inserted(held, a) =
                   held \cup {[url |-> Nl!Synthetic(a.id), title |-> a.title, src |-> a.src]}
         /\ \A r \in held :
              /\ r.url = a.url
              /\ \/ ~a.newsletter \/ r.src # a.src \/ r.title = a.title
                 \/ \E q \in held : q.url = Nl!Synthetic(a.id)
              => Nl!Inserted(held, a) = held
<1>1. ASSUME NEW r \in held, r.url = a.url
      PROVE  Nl!Holds(held, a.url) /\ Nl!Holder(held, a.url) = r
  BY <1>1 DEF Nl!Holds, Nl!Holder
<1>2. (\A r \in held : r.url # a.url) => Nl!Resolved(held, a) = {a.url}
  BY DEF Nl!Resolved, Nl!Holds
<1>3. ASSUME NEW r \in held, r.url = a.url
      PROVE  Nl!Resolved(held, a) =
               IF ~a.newsletter \/ r.src # a.src \/ r.title = a.title THEN {}
               ELSE {Nl!Synthetic(a.id)} \ {q.url : q \in held}
  BY <1>1, <1>3 DEF Nl!Resolved
<1>4. \A x : Nl!Resolved(held, a) = {x} =>
               Nl!Inserted(held, a) = held \cup {[url |-> x, title |-> a.title, src |-> a.src]}
  BY DEF Nl!Inserted
<1>5. Nl!Resolved(held, a) = {} => Nl!Inserted(held, a) = held
  BY DEF Nl!Inserted
<1>6. held \subseteq Nl!Inserted(held, a)
  BY DEF Nl!Inserted
<1>7. ASSUME NEW r \in held, r.url = a.url,
             a.newsletter /\ r.src = a.src /\ r.title # a.title,
             \A q \in held : q.url # Nl!Synthetic(a.id)
      PROVE  Nl!Resolved(held, a) = {Nl!Synthetic(a.id)}
  BY <1>3, <1>7
<1>8. ASSUME NEW r \in held, r.url = a.url,
             \/ ~a.newsletter \/ r.src # a.src \/ r.title = a.title
             \/ \E q \in held : q.url = Nl!Synthetic(a.id)
      PROVE  Nl!Resolved(held, a) = {}
  BY <1>3, <1>8
<1> QED BY <1>2, <1>4, <1>5, <1>6, <1>7, <1>8

LEMMA InsertedKeeps ==
  ASSUME says \in [Mails -> Nl!Contents], NEW T, T \subseteq Mails, NEW held,
         RowsOK(held, Nl!Issues(T)), NEW a \in IssueArticles(T) \cup RssArticles(Links)
  PROVE  /\ RowsOK(Nl!Inserted(held, a), Nl!Issues(T)) /\ held \subseteq Nl!Inserted(held, a)
         /\ \A c \in Nl!Issues(T) : a = Nl!IssueArticle(c) => Settled(Nl!Inserted(held, a), c)
<1> DEFINE more == Nl!Inserted(held, a)
           I == Nl!Issues(T)
<1>0. \A r, q \in held : r.url = q.url => r = q
  BY DEF RowsOK
<1>1. held \subseteq more
  BY <1>0, InsertedIs
<1>2. CASE a \in RssArticles(Links)
  <2>1. PICK l \in Links : a = Nl!RssArticle(l)
    BY <1>2 DEF RssArticles
  <2>2. ~ a.newsletter /\ a.src = Nl!Rss /\ a.url \in Links
    BY <2>1 DEF Nl!RssArticle
  <2>3. \A c \in I : a # Nl!IssueArticle(c)
    BY <2>2, ArticlesAre
  <2>4. CASE \A r \in held : r.url # a.url
    <3> DEFINE new == [url |-> a.url, title |-> a.title, src |-> a.src]
    <3>1. more = held \cup {new}
      BY <1>0, <2>4, InsertedIs
    <3>2. new.src = Nl!Rss /\ new.url \in Links /\ new.url = a.url
      BY <2>2
    <3> HIDE DEF new, more
    <3>3. RowsOK(more, I)
      BY <2>4, <3>1, <3>2, NewRow
    <3> QED BY <1>1, <2>3, <3>3 DEF more
  <2>5. CASE ~ \A r \in held : r.url # a.url
    <3>1. more = held
      BY <1>0, <2>2, <2>5, InsertedIs
    <3> QED BY <1>1, <2>3, <3>1
  <2> QED BY <2>4, <2>5
<1>3. CASE a \in IssueArticles(T)
  <2>1. PICK c \in I : a = Nl!IssueArticle(c)
    BY <1>3 DEF IssueArticles
  <2>2. /\ a.newsletter = TRUE /\ a.id = Nl!Id(c)
        /\ a.src = says[c].src /\ a.title = says[c].title
        /\ a.url = IF says[c].link = NoLink THEN Nl!Synthetic(Nl!Id(c)) ELSE says[c].link
    BY <2>1, ArticlesAre
  <2>3. SUFFICES RowsOK(more, I) /\ Settled(more, c)
    <3>1. \A b \in I : a = Nl!IssueArticle(b) => says[b].src = says[c].src /\ says[b].title = says[c].title
                                               /\ Nl!Id(b) = Nl!Id(c) /\ a.url = Nl!IssueArticle(b).url
      BY <2>2, ArticlesAre
    <3>2. ASSUME RowsOK(more, I) /\ Settled(more, c), NEW b \in I, a = Nl!IssueArticle(b)
          PROVE  Settled(more, b)
      <4>1. Nl!IssueArticle(b).url = a.url /\ says[b].src = says[c].src /\ says[b].title = says[c].title
        BY <3>1, <3>2
      <4>2. PICK r \in more : \/ r.src = says[c].src /\ r.title = says[c].title
                              \/ r.url = says[c].link /\ r.src # says[c].src
        BY <3>2 DEF Settled
      <4>3. CASE r.src = says[c].src /\ r.title = says[c].title
        BY <4>1, <4>2, <4>3 DEF Settled
      <4>4. CASE r.url = says[c].link /\ r.src # says[c].src
        <5>1. CASE says[b].link = says[c].link
          BY <4>1, <4>2, <4>4, <5>1 DEF Settled
        <5>2. CASE says[b].link # says[c].link
          <6>1. says[b].link \in Links \cup {NoLink} /\ says[c].link \in Links \cup {NoLink}
            BY IssueSays
          <6>2. Nl!Id(c) \in Sources \X Subjects /\ Nl!Id(b) = Nl!Id(c)
            BY <3>1, <3>2, IssueSays
          <6>3. Nl!Synthetic(Nl!Id(c)) \notin Links
            BY <6>2, NamesAssumption
          <6>4. a.url = IF says[b].link = NoLink THEN Nl!Synthetic(Nl!Id(b)) ELSE says[b].link
            BY <3>2, ArticlesAre
          <6>5. FALSE
            BY <2>2, <5>2, <6>1, <6>2, <6>3, <6>4
          <6> QED BY <6>5
        <5> QED BY <5>1, <5>2
      <4> QED BY <4>2, <4>3, <4>4
    <3> QED BY <1>1, <3>2
  <2>4. CASE \A r \in held : r.url # a.url
    <3> DEFINE new == [url |-> a.url, title |-> a.title, src |-> a.src]
    <3>1. more = held \cup {new}
      BY <1>0, <2>4, InsertedIs
    <3>2. new.url = a.url /\ new.src = a.src /\ new.title = a.title
      OBVIOUS
    <3> HIDE DEF new, more
    <3>3. OwnRow(held, c, new)
      BY <2>1, <2>2, <3>2 DEF OwnRow
    <3>4. RowsOK(more, I)
      BY <2>4, <3>1, <3>2, <3>3, NewRow
    <3>5. Settled(more, c)
      BY <2>2, <3>1, <3>2 DEF Settled
    <3> QED BY <3>4, <3>5
  <2>5. ASSUME NEW r \in held, r.url = a.url PROVE RowsOK(more, I) /\ Settled(more, c)
    <3>1. says[c].link = NoLink => r.src = a.src /\ r.title = a.title
      BY <2>2, <2>5, SyntheticRow
    <3>2. CASE r.src # a.src \/ r.title = a.title
      <4>1. more = held
        BY <1>0, <2>5, <3>2, InsertedIs
      <4>2. Settled(held, c)
        BY <2>2, <2>5, <3>1, <3>2 DEF Settled
      <4> QED BY <4>1, <4>2
    <3>3. CASE r.src = a.src /\ r.title # a.title
      <4>1. CASE \E q \in held : q.url = Nl!Synthetic(a.id)
        <5>1. more = held
          BY <1>0, <2>5, <4>1, InsertedIs
        <5>2. Settled(held, c)
          BY <2>2, <4>1, SyntheticRow DEF Settled
        <5> QED BY <5>1, <5>2
      <4>2. CASE \A q \in held : q.url # Nl!Synthetic(a.id)
        <5> DEFINE new == [url |-> Nl!Synthetic(a.id), title |-> a.title, src |-> a.src]
        <5>1. more = held \cup {new}
          BY <1>0, <2>2, <2>5, <3>3, <4>2, InsertedIs
        <5>2. new.url = Nl!Synthetic(a.id) /\ new.src = a.src /\ new.title = a.title
          OBVIOUS
        <5> HIDE DEF new, more
        <5>3. OwnRow(held, c, new)
          BY <2>1, <2>2, <2>5, <3>3, <5>2 DEF OwnRow
        <5>4. RowsOK(more, I)
          BY <4>2, <5>1, <5>2, <5>3, NewRow
        <5>5. Settled(more, c)
          BY <2>2, <5>1, <5>2 DEF Settled
        <5> QED BY <5>4, <5>5
      <4> QED BY <4>1, <4>2
    <3> QED BY <3>2, <3>3
  <2> QED BY <2>4, <2>5
<1> QED BY <1>2, <1>3

LEMMA SavedKeeps ==
  ASSUME says \in [Mails -> Nl!Contents], NEW T, T \subseteq Mails, NEW held,
         RowsOK(held, Nl!Issues(T)), NEW xs \in Seq(IssueArticles(T) \cup RssArticles(Links))
  PROVE  /\ RowsOK(Saved(held, xs), Nl!Issues(T)) /\ held \subseteq Saved(held, xs)
         /\ \A c \in Nl!Issues(T) : Nl!IssueArticle(c) \in Range(xs) => Settled(Saved(held, xs), c)
<1> DEFINE X == IssueArticles(T) \cup RssArticles(Links)
           I == Nl!Issues(T)
           Places(a) == {[url |-> w, title |-> a.title, src |-> a.src] : w \in {a.url, Nl!Synthetic(a.id)}}
           W == held \cup UNION {Places(a) : a \in X}
           A == {h \in SUBSET W : RowsOK(h, I) /\ held \subseteq h}
           n == Len(xs)
           put == Saved(held, xs)
<1>1. held \in A
  OBVIOUS
<1>2. ASSUME NEW h \in A, NEW a \in X PROVE Nl!Inserted(h, a) \in A
  <2>1. RowsOK(Nl!Inserted(h, a), I) /\ h \subseteq Nl!Inserted(h, a)
    <3>1. RowsOK(h, I)
      OBVIOUS
    <3> QED BY <3>1, InsertedKeeps
  <2>2. Nl!Inserted(h, a) \subseteq h \cup Places(a)
    BY DEF Nl!Inserted, Nl!Resolved
  <2>3. Places(a) \subseteq W
    <3> HIDE DEF Places, X
    <3> QED OBVIOUS
  <2> HIDE DEF Places, W
  <2> QED BY <2>1, <2>2, <2>3
<1> HIDE DEF A, X
<1>3. PICK f \in [0..n -> A] :
        /\ f[0] = held
        /\ \A k \in 1..n : f[k] = Nl!Inserted(f[k - 1], xs[k])
        /\ f[n] = put
  <2>1. xs \in Seq(X)
    BY DEF X
  <2>2. GoesOnIn(A, X)
    BY <1>2 DEF GoesOnIn
  <2>3. \E f \in [0..Len(xs) -> A] :
          /\ f[0] = held
          /\ \A k \in 1..Len(xs) : f[k] = Nl!Inserted(f[k - 1], xs[k])
          /\ f[Len(xs)] = Saved(held, xs)
    BY <1>1, <2>1, <2>2, InsertFold
  <2> QED BY <2>3
<1>4. n \in Nat /\ \A i \in 1..n : xs[i] \in X
  <2>1. xs \in Seq(X)
    BY DEF X
  <2> QED BY <2>1
<1> HIDE DEF n, put
<1>5. \A k \in 0..n : RowsOK(f[k], I) /\ held \subseteq f[k]
  BY <1>3 DEF A
<1>6. ASSUME NEW k \in 1..n
      PROVE  /\ f[k - 1] \subseteq f[k]
             /\ \A c \in I : xs[k] = Nl!IssueArticle(c) => Settled(f[k], c)
  <2>1. k - 1 \in 0..n /\ f[k] = Nl!Inserted(f[k - 1], xs[k]) /\ xs[k] \in X
    BY <1>3, <1>4
  <2>2. RowsOK(f[k - 1], I)
    BY <1>5, <2>1
  <2> QED BY <2>1, <2>2, InsertedKeeps DEF X
<1> DEFINE Holds(k) == \A i \in 1..k, c \in I : xs[i] = Nl!IssueArticle(c) => Settled(f[k], c)
           K == {k \in Nat : k <= n => Holds(k)}
<1>7. 0 \in K
  <2>1. 1..0 = {}
    OBVIOUS
  <2> QED BY <2>1
<1>8. ASSUME NEW k \in Nat, k \in K PROVE k + 1 \in K
  <2> SUFFICES ASSUME k + 1 <= n, NEW i \in 1..(k + 1), NEW c \in I, xs[i] = Nl!IssueArticle(c)
               PROVE  Settled(f[k + 1], c)
    OBVIOUS
  <2>1. k + 1 \in 1..n /\ (k + 1) - 1 = k /\ k <= n
    BY <1>4
  <2>2. CASE i = k + 1
    BY <1>6, <2>1, <2>2
  <2>3. CASE i # k + 1
    <3>1. i \in 1..k
      BY <2>3
    <3>2. Settled(f[k], c)
      BY <1>8, <2>1, <3>1
    <3>3. f[k] \subseteq f[k + 1]
      BY <1>6, <2>1
    <3> QED BY <3>2, <3>3 DEF Settled
  <2> QED BY <2>2, <2>3
<1>9. Holds(n)
  <2>1. \A k \in Nat : k \in K
    <3> HIDE DEF K
    <3> QED BY <1>7, <1>8, AllNat
  <2> QED BY <1>4, <2>1
<1>10. ASSUME NEW c \in I, Nl!IssueArticle(c) \in Range(xs) PROVE Settled(put, c)
  <2>1. PICK i \in 1..n : xs[i] = Nl!IssueArticle(c)
    BY <1>10 DEF Range, n
  <2> QED BY <1>3, <1>9, <2>1
<1>11. n \in 0..n
  BY <1>4
<1> QED BY <1>3, <1>5, <1>10, <1>11 DEF put

(* As many rows of an issue as its copies have links.                      *)
LEMMA RowsAsLinks ==
  ASSUME says \in [Mails -> Nl!Contents], taken \subseteq Mails, RowsOK(issues, Nl!Issues(taken))
  PROVE  Nl!OneRowPerIssue
<1> SUFFICES ASSUME NEW m \in Nl!Issues(taken)
             PROVE  Nl!Cardinality({r \in issues : r.src = says[m].src /\ r.title = says[m].title})
                      <= Nl!Cardinality({says[c].link : c \in {x \in Nl!Issues(taken) : Nl!Id(x) = Nl!Id(m)}})
  BY DEF Nl!OneRowPerIssue
<1> DEFINE R == {r \in issues : r.src = says[m].src /\ r.title = says[m].title}
           L == {says[c].link : c \in {x \in Nl!Issues(taken) : Nl!Id(x) = Nl!Id(m)}}
           Of(r, l) == \/ r.url \in Links /\ l = r.url
                       \/ /\ r.url \notin Links
                          /\ l = NoLink \/ \E q \in issues : q.url = l /\ q.title # r.title
<1>1. says[m].src \in Sources /\ Nl!Id(m) \in Sources \X Subjects
  BY IssueSays
<1>2. L \subseteq Links \cup {NoLink}
  BY IssueSays
<1>3. IsFiniteSet(L)
  <2>1. IsFiniteSet(Links \cup {NoLink})
    BY LettersAssumption, FS_AddElement
  <2> HIDE DEF L
  <2> QED BY <1>2, <2>1, FS_Subset
<1>4. ASSUME NEW r \in R
      PROVE  /\ r.url \in Links \/ r.url = Nl!Synthetic(Nl!Id(m))
             /\ \E l \in L : Of(r, l)
  <2>1. r.src # Nl!Rss
    BY <1>1, NamesAssumption
  <2>2. PICK c \in Nl!Issues(taken) : OwnRow(issues, c, r)
    BY <2>1 DEF RowsOK
  <2>3. Nl!Id(c) = Nl!Id(m)
    BY <2>2 DEF OwnRow, Nl!Id
  <2>4. says[c].link \in L /\ says[c].link \in Links \cup {NoLink}
    BY <1>2, <2>3
  <2>5. Nl!Synthetic(Nl!Id(m)) \notin Links
    BY <1>1, NamesAssumption
  <2>6. Nl!IssueArticle(c).url =
          IF says[c].link = NoLink THEN Nl!Synthetic(Nl!Id(m)) ELSE says[c].link
    BY <2>3, ArticlesAre
  <2>7. CASE r.url = Nl!IssueArticle(c).url
    <3>1. CASE says[c].link = NoLink
      BY <2>4, <2>5, <2>6, <2>7, <3>1
    <3>2. CASE says[c].link # NoLink
      BY <2>4, <2>5, <2>6, <2>7, <3>2
    <3> QED BY <3>1, <3>2
  <2>8. CASE /\ r.url = Nl!Synthetic(Nl!Id(c))
             /\ \E q \in issues : q.url = Nl!IssueArticle(c).url /\ q.src = r.src /\ q.title # r.title
    <3>1. PICK q \in issues : q.url = Nl!IssueArticle(c).url /\ q.title # r.title
      BY <2>8
    <3>2. q.url # r.url
      BY <3>1 DEF RowsOK
    <3>3. q.url = says[c].link
      BY <2>3, <2>6, <2>8, <3>1, <3>2
    <3> QED BY <2>3, <2>4, <2>5, <2>8, <3>1, <3>3
  <2> QED BY <2>2, <2>7, <2>8 DEF OwnRow
<1>5. ASSUME NEW r \in R, NEW q \in R, NEW l \in L, Of(r, l), Of(q, l) PROVE r = q
  <2>1. CASE r.url \in Links /\ q.url \in Links
    BY <1>5, <2>1 DEF RowsOK
  <2>2. CASE r.url \notin Links /\ q.url \notin Links
    BY <1>4, <2>2 DEF RowsOK
  <2>3. ASSUME NEW x \in R, NEW y \in R, Of(x, l), Of(y, l), x.url \in Links, y.url \notin Links
        PROVE  FALSE
    <3>1. l = x.url /\ l # NoLink
      BY <2>3, NamesAssumption
    <3>2. PICK z \in issues : z.url = l /\ z.title # y.title
      BY <2>3, <3>1
    <3>3. z = x
      BY <3>1, <3>2 DEF RowsOK
    <3> QED BY <3>2, <3>3
  <2> QED BY <1>5, <2>1, <2>2, <2>3
<1> HIDE DEF R, L, Of
<1> DEFINE phi == [r \in R |-> CHOOSE l \in L : Of(r, l)]
<1>6. \A r \in R : phi[r] \in L /\ Of(r, phi[r])
  BY <1>4
<1>7. phi \in Injection(R, L)
  <2>1. phi \in [R -> L]
    BY <1>6
  <2>2. \A r, q \in R : phi[r] = phi[q] => r = q
    <3> HIDE DEF phi
    <3> QED BY <1>5, <1>6
  <2> HIDE DEF phi
  <2> QED BY <2>1, <2>2 DEF Injection, IsInjective
<1>8. Cardinality(R) <= Cardinality(L)
  BY <1>3, <1>7, FS_Injection DEF ExistsInjection
<1> QED BY <1>8, SameCount DEF R, L

(* What a run has in hand: the articles of what it pulled, one of each     *)
(* issue no article of a feed stood in for.                                *)
Carries ==
  /\ articles \in Seq(IssueArticles(pulled) \cup RssArticles(Links))
  /\ \A m \in Nl!Issues(pulled) \ displaced :
       \E c \in Nl!Issues(pulled) : Nl!Id(c) = Nl!Id(m) /\ Nl!IssueArticle(c) \in Range(articles)

LettersInv ==
  /\ Nl!TypeOK
  /\ RowsOK(issues, Nl!Issues(taken))
  /\ pc = "idle" => pulled = {}
  /\ pc # "idle" => Carries
  /\ preview => pulled \subseteq queue
  /\ Nl!NoIssueIsSwallowed

LEMMA InitLetters == ASSUME Nl!Init PROVE LettersInv
<1>1. Nl!TypeOK
  <2>1. 0 \in 0..Deliveries /\ 0 \in 0..Runs
    BY LettersAssumption
  <2> QED BY <2>1 DEF Nl!Init, Nl!TypeOK
<1> QED BY <1>1 DEF Nl!Init, LettersInv, RowsOK, Nl!NoIssueIsSwallowed, Nl!Issues

(* What is stored, or held elsewhere, stays so.                            *)
LEMMA AccountedStays ==
  ASSUME says' = says, taken \subseteq taken', issues \subseteq issues', NEW m,
         Nl!HasRow(m) \/ Nl!HeldElsewhere(m)
  PROVE  Nl!HasRow(m)' \/ Nl!HeldElsewhere(m)'
<1>1. Nl!Issues(taken) \subseteq Nl!Issues(taken)'
  BY DEF Nl!Issues
<1>2. CASE Nl!HasRow(m)
  BY <1>2 DEF Nl!HasRow
<1>3. CASE Nl!HeldElsewhere(m)
  BY <1>1, <1>3 DEF Nl!HeldElsewhere, Nl!Id
<1> QED BY <1>2, <1>3

(* Settled, an issue has its row, or another source's row has its link.    *)
LEMMA SettledIs ==
  ASSUME NEW held, NEW m, NEW c \in Nl!Issues(taken), Nl!Id(c) = Nl!Id(m), Settled(held, c),
         issues' = held, UNCHANGED <<says, taken>>
  PROVE  Nl!HasRow(m)' \/ Nl!HeldElsewhere(m)'
<1>1. says[c].src = says[m].src /\ says[c].title = says[m].title
  BY DEF Nl!Id
<1>2. PICK r \in held : \/ r.src = says[c].src /\ r.title = says[c].title
                        \/ r.url = says[c].link /\ r.src # says[c].src
  BY DEF Settled
<1>3. CASE r.src = says[c].src /\ r.title = says[c].title
  BY <1>1, <1>2, <1>3 DEF Nl!HasRow
<1>4. CASE r.url = says[c].link /\ r.src # says[c].src
  <2>1. c \in Nl!Issues(taken)' /\ Nl!Id(c)' = Nl!Id(m)'
    BY DEF Nl!Issues, Nl!Id
  <2> QED BY <1>1, <1>2, <1>4, <2>1 DEF Nl!HeldElsewhere
<1> QED BY <1>2, <1>3, <1>4

LEMMA DeliverKeeps ==
  ASSUME LettersInv, Nl!TypeOK', NEW m \in Mails, Nl!Deliver(m)
  PROVE  LettersInv'
<1>1. /\ queue' = queue \cup {m} /\ taken' = taken \cup {m}
      /\ UNCHANGED <<says, lost, displaced, pc, preview, pulled, articles, issues>>
  BY DEF Nl!Deliver, Nl!run
<1>2. Nl!Issues(taken) \subseteq Nl!Issues(taken)'
  BY <1>1 DEF Nl!Issues
<1>3. RowsOK(issues, Nl!Issues(taken))'
  <2>1. \A c, r : OwnRow(issues, c, r)' <=> OwnRow(issues, c, r)
    BY <1>1 DEF OwnRow, Nl!IssueArticle, Nl!Id
  <2> QED BY <1>1, <1>2, <2>1 DEF LettersInv, RowsOK
<1>4. pc' # "idle" => Carries'
  BY <1>1 DEF LettersInv, Carries, IssueArticles, Nl!IssueArticle, Nl!Id, Nl!Issues
<1>5. Nl!NoIssueIsSwallowed'
  <2> SUFFICES ASSUME NEW i \in Nl!Issues(taken)', i \notin displaced PROVE Nl!Accounted(i)'
    BY <1>1 DEF Nl!NoIssueIsSwallowed
  <2>1. CASE i = m
    BY <1>1, <2>1 DEF Nl!Accounted
  <2>2. CASE i # m
    <3>1. Nl!Accounted(i)
      BY <1>1, <2>2 DEF LettersInv, Nl!NoIssueIsSwallowed, Nl!Issues
    <3>2. Nl!HasRow(i) \/ Nl!HeldElsewhere(i) => Nl!HasRow(i)' \/ Nl!HeldElsewhere(i)'
      BY <1>1, AccountedStays
    <3> QED BY <1>1, <3>1, <3>2 DEF Nl!Accounted
  <2> QED BY <2>1, <2>2
<1> QED BY <1>1, <1>3, <1>4, <1>5 DEF LettersInv

(* Nothing that is stored or said changes.                                 *)
LEMMA SameRowsOK ==
  ASSUME LettersInv, UNCHANGED <<says, taken, issues>>
  PROVE  RowsOK(issues, Nl!Issues(taken))'
BY DEF LettersInv, RowsOK, OwnRow, Nl!IssueArticle, Nl!Id, Nl!Issues

LEMMA PullKeepsInv ==
  ASSUME LettersInv, Nl!TypeOK', Nl!Pull
  PROVE  LettersInv'
<1>1. PICK S \in {queue, {}}, L \in SUBSET Links, dry \in BOOLEAN :
        /\ pc = "idle" /\ pc' = "ack" /\ preview' = dry /\ pulled' = S
        /\ articles' = Nl!Merged(Nl!Fetched(S, L))
        /\ displaced' = displaced \cup Nl!Displaced(S, L)
        /\ UNCHANGED <<says, queue, taken, lost, issues>>
  BY DEF Nl!Pull, Nl!mail
<1>2. S \subseteq queue /\ S \subseteq Mails /\ L \subseteq Links /\ says \in [Mails -> Nl!Contents]
  BY DEF LettersInv, Nl!TypeOK
<1>3. /\ articles' \in Seq(IssueArticles(S) \cup RssArticles(L))
      /\ \A m \in Nl!Issues(S) \ Nl!Displaced(S, L) :
           \E c \in Nl!Issues(S) : Nl!Id(c) = Nl!Id(m) /\ Nl!IssueArticle(c) \in Range(articles')
  BY <1>1, <1>2, PullKeeps
<1>4. Carries'
  <2>1. Nl!Issues(pulled)' = Nl!Issues(S) /\ IssueArticles(pulled)' = IssueArticles(S)
    BY <1>1 DEF Nl!Issues, IssueArticles, Nl!IssueArticle, Nl!Id
  <2>2. IssueArticles(S) \cup RssArticles(L) \subseteq IssueArticles(S) \cup RssArticles(Links)
    BY DEF RssArticles
  <2>3. articles' \in Seq(IssueArticles(S) \cup RssArticles(Links))
    <3> DEFINE X == IssueArticles(S) \cup RssArticles(L)
               Y == IssueArticles(S) \cup RssArticles(Links)
    <3>1. X \subseteq Y /\ articles' \in Seq(X)
      BY <1>3, <2>2
    <3> HIDE DEF X, Y
    <3>2. articles' \in Seq(Y)
      BY <3>1
    <3> QED BY <3>2 DEF Y
  <2>4. \A m, c : /\ Nl!Id(c)' = Nl!Id(c) /\ Nl!IssueArticle(c)' = Nl!IssueArticle(c)
                  /\ m \notin displaced' => m \notin Nl!Displaced(S, L)
    BY <1>1 DEF Nl!IssueArticle, Nl!Id
  <2> QED BY <1>3, <2>1, <2>3, <2>4 DEF Carries
<1>5. Nl!NoIssueIsSwallowed'
  <2> SUFFICES ASSUME NEW i \in Nl!Issues(taken)', i \notin displaced' PROVE Nl!Accounted(i)'
    BY DEF Nl!NoIssueIsSwallowed
  <2>1. Nl!Accounted(i)
    BY <1>1 DEF LettersInv, Nl!NoIssueIsSwallowed, Nl!Issues
  <2>2. Nl!HasRow(i) \/ Nl!HeldElsewhere(i) => Nl!HasRow(i)' \/ Nl!HeldElsewhere(i)'
    BY <1>1, AccountedStays
  <2>3. pulled = {}
    BY <1>1 DEF LettersInv
  <2> QED BY <1>1, <2>1, <2>2, <2>3 DEF Nl!Accounted
<1>6. RowsOK(issues, Nl!Issues(taken))'
  BY <1>1, SameRowsOK
<1> QED BY <1>1, <1>2, <1>4, <1>5, <1>6 DEF LettersInv

LEMMA AckKeeps ==
  ASSUME LettersInv, Nl!TypeOK', Nl!Ack
  PROVE  LettersInv'
<1>1. PICK gone \in (IF preview THEN {{}} ELSE SUBSET pulled) : queue' = queue \ gone
  BY DEF Nl!Ack
<1>2. /\ pc = "ack" /\ pc' = "save"
      /\ UNCHANGED <<says, taken, lost, displaced, preview, pulled, articles, issues>>
  BY DEF Nl!Ack
<1>3. gone \subseteq pulled /\ (preview => gone = {})
  BY <1>1
<1>4. Carries'
  BY <1>2 DEF LettersInv, Carries, IssueArticles, Nl!IssueArticle, Nl!Id, Nl!Issues
<1>5. Nl!NoIssueIsSwallowed'
  <2> SUFFICES ASSUME NEW i \in Nl!Issues(taken)', i \notin displaced' PROVE Nl!Accounted(i)'
    BY DEF Nl!NoIssueIsSwallowed
  <2>1. Nl!Accounted(i)
    BY <1>2 DEF LettersInv, Nl!NoIssueIsSwallowed, Nl!Issues
  <2>2. Nl!HasRow(i) \/ Nl!HeldElsewhere(i) => Nl!HasRow(i)' \/ Nl!HeldElsewhere(i)'
    BY <1>2, AccountedStays
  <2> QED BY <1>1, <1>2, <1>3, <2>1, <2>2 DEF Nl!Accounted
<1>6. RowsOK(issues, Nl!Issues(taken))'
  BY <1>2, SameRowsOK
<1>7. preview' => pulled' \subseteq queue'
  BY <1>1, <1>2, <1>3 DEF LettersInv
<1> QED BY <1>2, <1>4, <1>5, <1>6, <1>7 DEF LettersInv

(* The end of a run: what it pulled is settled, lost or queued.            *)
LEMMA EndKeeps ==
  ASSUME LettersInv, Nl!TypeOK', UNCHANGED <<says, queue, taken, displaced>>,
         pc' = "idle", preview' = FALSE, pulled' = {},
         lost \subseteq lost', issues \subseteq issues', RowsOK(issues', Nl!Issues(taken)),
         \A i \in Nl!Issues(pulled) \ displaced :
           i \in queue \cup lost' \/ \E c \in Nl!Issues(pulled) : Nl!Id(c) = Nl!Id(i) /\ Settled(issues', c)
  PROVE  LettersInv'
<1>1. RowsOK(issues, Nl!Issues(taken))'
  <2>1. \A c, r : OwnRow(issues, c, r)' <=> OwnRow(issues', c, r)
    BY DEF OwnRow, Nl!IssueArticle, Nl!Id
  <2>2. Nl!Issues(taken)' = Nl!Issues(taken)
    BY DEF Nl!Issues
  <2> QED BY <2>1, <2>2 DEF RowsOK
<1>2. Nl!NoIssueIsSwallowed'
  <2> SUFFICES ASSUME NEW i \in Nl!Issues(taken)', i \notin displaced' PROVE Nl!Accounted(i)'
    BY DEF Nl!NoIssueIsSwallowed
  <2>0. i \in Nl!Issues(taken) /\ i \notin displaced
    BY DEF Nl!Issues
  <2>1. Nl!Accounted(i)
    BY <2>0 DEF LettersInv, Nl!NoIssueIsSwallowed
  <2>2. CASE Nl!HasRow(i) \/ Nl!HeldElsewhere(i)
    BY <2>2, AccountedStays DEF Nl!Accounted
  <2>3. CASE i \in queue \cup lost
    BY <2>3 DEF Nl!Accounted
  <2>4. CASE i \in pulled
    <3>1. i \in Nl!Issues(pulled) \ displaced
      BY <2>0, <2>4 DEF Nl!Issues
    <3>2. CASE i \in queue \cup lost'
      BY <3>2 DEF Nl!Accounted
    <3>3. ASSUME NEW c \in Nl!Issues(pulled), Nl!Id(c) = Nl!Id(i), Settled(issues', c)
          PROVE  Nl!Accounted(i)'
      <4>1. c \in Nl!Issues(taken)
        BY DEF LettersInv, Nl!TypeOK, Nl!Issues
      <4> QED BY <3>3, <4>1, SettledIs DEF Nl!Accounted
    <3> QED BY <3>1, <3>2, <3>3
  <2> QED BY <2>1, <2>2, <2>3, <2>4 DEF Nl!Accounted
<1> QED BY <1>1, <1>2 DEF LettersInv

LEMMA SaveKeeps ==
  ASSUME LettersInv, Nl!TypeOK', Nl!Save
  PROVE  LettersInv'
<1>1. /\ pc = "save" /\ pc' = "idle" /\ preview' = FALSE /\ pulled' = {} /\ lost' = lost
      /\ UNCHANGED <<says, queue, taken, displaced>>
      /\ issues' = IF preview THEN issues ELSE Saved(issues, articles)
  BY DEF Nl!Save, Nl!End, Nl!mail, Saved
<1>2. says \in [Mails -> Nl!Contents] /\ taken \subseteq Mails /\ pulled \subseteq taken
  BY DEF LettersInv, Nl!TypeOK
<1>3. Carries
  BY <1>1 DEF LettersInv
<1>4. CASE preview
  <2>1. pulled \subseteq queue /\ issues' = issues
    BY <1>1, <1>4 DEF LettersInv
  <2>2. \A i \in Nl!Issues(pulled) \ displaced : i \in queue
    BY <2>1 DEF Nl!Issues
  <2> QED BY <1>1, <2>1, <2>2, EndKeeps DEF LettersInv
<1>5. CASE ~preview
  <2>1. issues' = Saved(issues, articles)
    BY <1>1, <1>5
  <2>2. articles \in Seq(IssueArticles(taken) \cup RssArticles(Links))
    <3> DEFINE X == IssueArticles(pulled) \cup RssArticles(Links)
               Y == IssueArticles(taken) \cup RssArticles(Links)
    <3>1. X \subseteq Y
      BY <1>2 DEF IssueArticles, Nl!Issues
    <3>2. articles \in Seq(X)
      BY <1>3 DEF Carries
    <3> HIDE DEF X, Y
    <3>3. articles \in Seq(Y)
      BY <3>1, <3>2
    <3> QED BY <3>3 DEF Y
  <2>3. /\ RowsOK(issues', Nl!Issues(taken)) /\ issues \subseteq issues'
        /\ \A c \in Nl!Issues(taken) : Nl!IssueArticle(c) \in Range(articles) => Settled(issues', c)
    <3>1. RowsOK(issues, Nl!Issues(taken))
      BY DEF LettersInv
    <3>2. /\ RowsOK(Saved(issues, articles), Nl!Issues(taken)) /\ issues \subseteq Saved(issues, articles)
          /\ \A c \in Nl!Issues(taken) :
               Nl!IssueArticle(c) \in Range(articles) => Settled(Saved(issues, articles), c)
      BY <1>2, <2>2, <3>1, SavedKeeps
    <3> QED BY <2>1, <3>2
  <2>4. ASSUME NEW i \in Nl!Issues(pulled) \ displaced
        PROVE  \E c \in Nl!Issues(pulled) : Nl!Id(c) = Nl!Id(i) /\ Settled(issues', c)
    <3>1. PICK c \in Nl!Issues(pulled) : Nl!Id(c) = Nl!Id(i) /\ Nl!IssueArticle(c) \in Range(articles)
      BY <1>3 DEF Carries
    <3>2. c \in Nl!Issues(taken)
      BY <1>2 DEF Nl!Issues
    <3> QED BY <2>3, <3>1, <3>2
  <2> QED BY <1>1, <2>3, <2>4, EndKeeps
<1> QED BY <1>4, <1>5

LEMMA SaveStopsKeeps ==
  ASSUME LettersInv, Nl!TypeOK', Nl!SaveStops
  PROVE  LettersInv'
<1>1. PICK n \in 0..Len(articles) :
        /\ pc \in {"ack", "save"} /\ pc' = "idle" /\ preview' = FALSE /\ pulled' = {}
        /\ lost' = IF preview THEN lost ELSE lost \cup (pulled \ queue)
        /\ UNCHANGED <<says, queue, taken, displaced>>
        /\ issues' = Saved(issues, SubSeq(articles, 1, n))
  BY DEF Nl!SaveStops, Nl!End, Nl!mail, Saved
<1>2. says \in [Mails -> Nl!Contents] /\ taken \subseteq Mails /\ pulled \subseteq taken
  BY DEF LettersInv, Nl!TypeOK
<1>3. Carries
  BY <1>1 DEF LettersInv
<1>4. SubSeq(articles, 1, n) \in Seq(IssueArticles(taken) \cup RssArticles(Links))
  <2> DEFINE X == IssueArticles(pulled) \cup RssArticles(Links)
             Y == IssueArticles(taken) \cup RssArticles(Links)
  <2>1. X \subseteq Y
    BY <1>2 DEF IssueArticles, Nl!Issues
  <2>2. articles \in Seq(X)
    BY <1>3 DEF Carries
  <2> HIDE DEF X, Y
  <2>3. articles \in Seq(Y) /\ n \in 0..Len(articles) /\ Len(articles) \in Nat
    BY <2>1, <2>2
  <2>4. SubSeq(articles, 1, n) \in Seq(Y)
    <3>1. \A i \in 1..n : articles[i] \in Y
      BY <2>3
    <3> QED BY <2>3, <3>1, SubSeqProperties
  <2> QED BY <2>4 DEF Y
<1>5. RowsOK(issues', Nl!Issues(taken)) /\ issues \subseteq issues'
  <2>1. RowsOK(issues, Nl!Issues(taken))
    BY DEF LettersInv
  <2>2. /\ RowsOK(Saved(issues, SubSeq(articles, 1, n)), Nl!Issues(taken))
        /\ issues \subseteq Saved(issues, SubSeq(articles, 1, n))
    BY <1>2, <1>4, <2>1, SavedKeeps
  <2> QED BY <1>1, <2>2
<1>6. \A i \in Nl!Issues(pulled) : i \in queue \cup lost'
  BY <1>1 DEF LettersInv, Nl!Issues
<1>7. lost \subseteq lost'
  BY <1>1
<1> QED BY <1>1, <1>5, <1>6, <1>7, EndKeeps

LEMMA NextLettersInv ==
  ASSUME LettersInv, [Nl!Next]_ofLetters
  PROVE  LettersInv'
<1>1. Nl!TypeOK'
  BY NextLetters DEF LettersInv
<1>2. CASE UNCHANGED ofLetters
  <2>1. UNCHANGED <<says, queue, taken, lost, displaced, pc, preview, pulled, articles, issues>>
    BY <1>2 DEF ofLetters
  <2>2. Carries' <=> Carries
    BY <2>1 DEF Carries, IssueArticles, Nl!IssueArticle, Nl!Id, Nl!Issues
  <2>3. Nl!NoIssueIsSwallowed' <=> Nl!NoIssueIsSwallowed
    BY <2>1 DEF Nl!NoIssueIsSwallowed, Nl!Accounted, Nl!HasRow, Nl!HeldElsewhere, Nl!Id, Nl!Issues
  <2>4. RowsOK(issues, Nl!Issues(taken))'
    BY <2>1, SameRowsOK
  <2> QED BY <1>1, <2>1, <2>2, <2>3, <2>4 DEF LettersInv
<1> QED BY <1>1, <1>2, DeliverKeeps, PullKeepsInv, AckKeeps, SaveKeeps, SaveStopsKeeps DEF Nl!Next

(* Delivered at least once and pulled again after every lost ACK, an issue *)
(* is stored once, whatever mails share its link, source or subject, and   *)
(* however many runs die: it is queued, in hand, stored, or left out for   *)
(* one of the stated reasons, and has no more rows than its copies have    *)
(* links (fetching.py, newsletter_worker_source.py, newsletter_dedup.py).  *)
THEOREM IssuesStoredOnce == IntakeSpec => []EachIssueOnce
<1>1. IntakeInit => LettersInv
  BY InitLetters DEF IntakeInit
<1>2. LettersInv /\ [IntakeNext]_all => LettersInv'
  <2> SUFFICES ASSUME LettersInv, [IntakeNext]_all PROVE LettersInv'
    OBVIOUS
  <2>1. [Nl!Next]_ofLetters
    BY DEF IntakeNext, all
  <2> QED BY <2>1, NextLettersInv
<1>3. LettersInv => EachIssueOnce
  BY RowsAsLinks DEF LettersInv, Nl!TypeOK, EachIssueOnce, Nl!EachIssueOnce
<1> QED BY <1>1, <1>2, <1>3, PTL DEF IntakeSpec
==============================================================================
