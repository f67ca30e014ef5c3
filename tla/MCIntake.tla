------------------------------- MODULE MCIntake ------------------------------
(***************************************************************************)
(* What reaches a run and when one starts, for TLC: the RSS buffer and its *)
(* windows (RssBuffer), the newsletter queue (NewsletterQueue), and the    *)
(* ticks, keys and the wizard's first issue (Calendar).  Each is checked   *)
(* on its own state: a behaviour is one of `part`, and the others do not   *)
(* begin.                                                                  *)
(***************************************************************************)
EXTENDS RssBuffer, TLC

CONSTANTS u, Mails, Sources, Subjects, Links, NoLink, Deliveries, Runs,
          DayLength, LastHour, Schedules, Zones, CatchUp, Moves

(* The cron's feed dates entry 1 twice, and the operator's poll finds it,  *)
(* too.                                                                    *)
MCDates == "cron" :> (1 :> {0, 3} @@ 2 :> {1}) @@ "manual" :> (1 :> {0} @@ 2 :> {})

(* One clock that stands as it is, one that is set back an hour, so that   *)
(* the hour before comes twice.                                            *)
MCSchedules == {<<1, 3>>, <<2, 3>>}
MCZones == {[h \in 0..LastHour |-> 0], [h \in 0..LastHour |-> IF h >= 4 THEN -1 ELSE 0]}

(* Senders, subjects and links are alike: what the first mail says is one  *)
(* of three, the second says anything.                                     *)
First(mail) == \/ mail.kind = "other"
               \/ mail.src = "a" /\ mail.title = "s" /\ mail.link \in {u, NoLink}

VARIABLES part,
          says, queue, deliveries, taken, lost, displaced, pc, preview, pulled, articles,
          issues, runs,
          zone, times, moves, hour, ticked, plan, wizard, container, ledger, stored, kept,
          overtaken

(* validate_schedule: two distinct hours of a day, the earlier first. *)
ASSUME ClockAssumption ==
  /\ DayLength \in Nat \ {0} /\ LastHour \in Nat /\ CatchUp \in Nat /\ Moves \in Nat
  /\ \A s \in Schedules :
       /\ s = <<s[1], s[2]>> /\ s[1] \in Nat /\ s[2] \in Nat
       /\ s[1] < s[2] /\ s[2] < DayLength
  /\ Zones \subseteq [0..LastHour -> Int]

(* An hour of the wall clock may come twice; one that is left out is no    *)
(* digest hour.                                                            *)
ASSUME SkipAssumption ==
  \A z \in Zones, s \in Schedules, h \in 1..LastHour :
    /\ h - 1 + z[h - 1] <= h + z[h]
    /\ \A w \in (h + z[h - 1])..(h + z[h] - 1) : w % DayLength \notin {s[1], s[2]}

(* The first hour is of the first day or later, and no wall clock is more  *)
(* than a day ahead.                                                       *)
ASSUME DaysAssumption == \A z \in Zones, h \in 0..LastHour : h + z[h] \in 0..(LastHour + DayLength)

ASSUME LettersAssumption ==
  /\ Deliveries \in Nat /\ Runs \in Nat
  /\ Mails \subseteq Nat /\ IsFiniteSet(Mails) /\ IsFiniteSet(Links)

Nl == INSTANCE NewsletterQueue WITH rows <- issues
(* No newsletter source is RSS, and neither the synthetic URL of an issue  *)
(* nor its id, a hash, is a link.                                          *)
ASSUME NamesAssumption ==
  /\ Nl!Rss \notin Sources /\ NoLink \notin Links
  /\ \A id \in Sources \X Subjects : id \notin Links /\ Nl!Synthetic(id) \notin Links

Cal == INSTANCE Calendar WITH Horizon <- LastHour, now <- hour, run <- container

ofLetters == <<says, queue, deliveries, taken, lost, displaced, pc, preview, pulled, articles,
               issues, runs>>
ofClock == <<zone, times, moves, hour, ticked, plan, wizard, container, ledger, stored, kept,
             overtaken>>
all == <<part, vars, ofLetters, ofClock>>

IntakeInit ==
  /\ part \in {"feeds", "letters", "clock"}
  /\ Init /\ Nl!Init /\ Cal!Init
  /\ part # "feeds" => backend = "d1"
  /\ First(says[1])
  /\ part # "letters" => \A m, n \in Mails : says[m] = says[n] /\ says[m].kind = "other"
  /\ part # "clock" => times = <<1, 3>> /\ \A h \in 0..LastHour : zone[h] = 0

IntakeNext ==
  \/ part = "feeds" /\ Next /\ UNCHANGED <<part, ofLetters, ofClock>>
  \/ part = "letters" /\ Nl!Next /\ UNCHANGED <<part, vars, ofClock>>
  \/ part = "clock" /\ Cal!Next /\ UNCHANGED <<part, vars, ofLetters>>

IntakeSpec == IntakeInit /\ [][IntakeNext]_all

(* The settings page moves the digest hours early on, or not.              *)
MovesEarly == moves > 0 => hour < 2

-----------------------------------------------------------------------------
(* Every variable of the part has the values its code gives it.            *)
IntakeTypeOK ==
  CASE part = "feeds" -> TypeOK [] part = "letters" -> Nl!TypeOK [] part = "clock" -> Cal!TypeOK

(* An issue that came in is stored once (newsletter_dedup.py).             *)
EachIssueOnce == part = "letters" => Nl!EachIssueOnce

(* A row of the ledger passes for no other run's: not for a missed hour's  *)
(* (planTick), not for the one the wizard waits for (onboarding.js).       *)
RowPassesForNoOther ==
  part = "clock" => Cal!CatchUpIsNotFooled /\ Cal!WizardTellsTrue

(* No tick stores over the wizard's issue (schedule.py, first_issue_key).  *)
FirstIssueStands == Cal!FirstIssueStands
=============================================================================
