------------------------------ MODULE Calendar ------------------------------
(***************************************************************************)
(* Which issue a run writes, and who may write over it.  An issue is keyed *)
(* by (date, period).  Two parties pick keys from a clock: the Cron        *)
(* Trigger (workers/app/src/schedule.js), which also catches up a digest   *)
(* hour no run finished, and the onboarding wizard, which asks the         *)
(* settings server for the key of the first issue and posts it to the app  *)
(* Worker.  What an operator starts by hand, without a date or as a        *)
(* regeneration, is left out: its row counts like any other, so it may     *)
(* pass for the digest hour's.                                             *)
(*                                                                         *)
(* Time is counted in whole hours, the grain of the ticks.  A zone maps an *)
(* hour to the wall clock: its offset may step back or forward.  A day has *)
(* DayLength hours, fewer than 24 so that two days fit an instance; the    *)
(* code uses no property of 24 but that the digest hours lie below it.     *)
(***************************************************************************)
EXTENDS Integers

CONSTANTS DayLength,   \* hours of a day
          Horizon,     \* the last hour
          Schedules,   \* pairs <<earlier, later>> of digest hours
          Zones,       \* functions from hours to the offset of the wall clock
          CatchUp,     \* CATCH_UP_HOURS
          Moves        \* bound: changes of the schedule

VARIABLES zone,      \* the deployment's time zone
          times,     \* the stored digest_schedule
          moves,     \* changes of it so far
          now,       \* the hour under way
          ticked,    \* whether the Cron Trigger of this hour is over
          plan,      \* what planTick answered, until startRun is called
          wizard,    \* the onboarding page's first-issue step
          run,       \* the run container
          ledger,    \* digest_runs: the ok rows a tick may still ask for
          stored,    \* the keys of `digests`
          kept,      \* history: keys of the wizard's runs that ended ok
          overtaken  \* history: keys a tick planned for as their run was under way

clock == <<zone, times, moves, now, ticked>>
stores == <<ledger, stored, kept>>
vars == <<zone, times, moves, now, ticked, plan, wizard, run,
          ledger, stored, kept, overtaken>>
-----------------------------------------------------------------------------
Hours == 0 .. Horizon
Periods == {"morning", "evening"}
(* Day 1 is the first: a shift back, or yesterday, is still a date.        *)
Days == 0 .. (Horizon \div DayLength) + 2
Keys == Days \X Periods
None == "none"
Starters == {"tick", "wizard"}
NoKey == <<>>
NoRun == [by |-> None]
Idle(at) == [at |-> at, key |-> NoKey, since |-> 0, heard |-> "nothing"]
Asleep == [what |-> "asleep"]

DateOf(t) == 1 + (t + zone[t]) \div DayLength
HourOf(t) == (t + zone[t]) % DayLength

(* due_period and duePeriod.                                               *)
DueAt(t) == IF HourOf(t) = times[1] THEN "morning"
            ELSE IF HourOf(t) = times[2] THEN "evening" ELSE None
KeyAt(t) == <<DateOf(t), DueAt(t)>>

(* Mutant: before the first digest hour, the coming one. *)
FirstIssueKeyAlwaysToday(t) ==
    <<DateOf(t), IF HourOf(t) >= times[2] THEN "evening" ELSE "morning">>

(* Mutant: the period that is due at this very hour. *)
FirstIssueKeyOfTheHour(t) == KeyAt(t)

(* first_issue_key: today's latest digest hour already begun, or           *)
(* yesterday's evening.                                                    *)
FirstIssueKey(t) ==
    IF HourOf(t) >= times[2] THEN <<DateOf(t), "evening">>
    ELSE IF HourOf(t) >= times[1] THEN <<DateOf(t), "morning">>
    ELSE <<DateOf(t) - 1, "evening">>

(* missedDigestHour: the latest digest hour of the window before t.        *)
MissedHours(t) == {h \in Hours : t - CatchUp < h /\ h < t /\ DueAt(h) # None}
Missed(t) == CHOOSE h \in MissedHours(t) : \A g \in MissedHours(t) : g <= h

(* planTick's question to digest_runs: an ok row of the period since.      *)
(* Mutant: a row of the period, of any day in the window. *)
CountsOfAnyDay(row, h) == row.period = DueAt(h)
Counts(row, h) == row.period = DueAt(h) /\ row.hour >= h
Done(h) == \E row \in ledger : Counts(row, h)
-----------------------------------------------------------------------------
Row == [period : Periods, hour : Hours]
Steps == {"ready", "asked", "waiting", "failed", "done"}

TypeOK ==
    /\ zone \in Zones
    /\ times \in Schedules
    /\ moves \in 0 .. Moves
    /\ now \in Hours
    /\ ticked \in BOOLEAN
    /\ plan.what \in {"asleep", "due", "missed"}
    /\ plan.what # "asleep" => /\ plan.key \in Keys \cup {NoKey}
                              /\ plan.beside \in BOOLEAN
    /\ wizard \in [at : Steps, key : Keys \cup {NoKey}, since : Hours,
                   heard : {"nothing", "ok", "failed"}]
    /\ \/ run = NoRun
       \/ run \in [by : Starters, key : Keys, since : Hours, began : Hours,
                   stored : BOOLEAN]
    /\ ledger \subseteq Row
    /\ stored \subseteq Keys
    /\ kept \subseteq Keys
    /\ overtaken \subseteq Keys

Init ==
    /\ zone \in Zones
    /\ times \in Schedules
    /\ moves = 0
    /\ now = 0
    /\ ticked = FALSE
    /\ plan = Asleep
    /\ wizard = Idle("ready")
    /\ run = NoRun
    /\ ledger = {}
    /\ stored = {}
    /\ kept = {}
    /\ overtaken = {}
-----------------------------------------------------------------------------
(* A run ends within the hour after the one it was asked for in: the       *)
(* container is stopped when it is silent for fifteen minutes.  As long    *)
(* waits a wizard (RUN_WAIT_MS), which reads the ledger every few seconds. *)
(* Rows no later tick asks for are left out of the ledger.                 *)
AdvanceHour ==
    /\ now < Horizon
    /\ ticked
    /\ run # NoRun => run.since = now
    /\ wizard.at \in {"asked", "waiting"} => wizard.since = now
    /\ now' = now + 1
    /\ ticked' = FALSE
    /\ ledger' = {row \in ledger : row.hour > now' - CatchUp}
    /\ UNCHANGED <<zone, times, moves, plan, wizard, run, stored, kept,
                   overtaken>>

(* The settings page changes the schedule.                                 *)
MoveSchedule ==
    /\ moves < Moves
    /\ \E s \in Schedules \ {times} : times' = s
    /\ moves' = moves + 1
    /\ UNCHANGED <<zone, now, ticked, plan, wizard, run, stores, overtaken>>

(* planTick, once an hour.  `beside`: a run of the very key is under way   *)
(* as it reads digest_runs.                                                *)
Plan(what, key) ==
    /\ plan = Asleep
    /\ ~ticked
    /\ plan' = [what |-> what, key |-> key,
                beside |-> run # NoRun /\ key = run.key]
    /\ UNCHANGED <<clock, wizard, run, stores, overtaken>>

(* On a digest hour, or when the schedule cannot be read.                  *)
PlanDue == DueAt(now) # None /\ Plan("due", NoKey)

PlanCatchUp ==
    /\ DueAt(now) = None
    /\ MissedHours(now) # {}
    /\ ~Done(Missed(now))
    /\ Plan("missed", KeyAt(Missed(now)))

(* No digest hour, and none to catch up, or digest_runs cannot be read.  A *)
(* container woken because the schedule could not be read ends at once:    *)
(* `--if-due` finds no digest hour.                                        *)
StayAsleep ==
    /\ plan = Asleep
    /\ ~ticked
    /\ DueAt(now) = None
    /\ ticked' = TRUE
    /\ UNCHANGED <<zone, times, moves, now, plan, wizard, run, stores,
                   overtaken>>

(* startRun on a container that runs does nothing and answers the same.    *)
Start(by, key, since) ==
    run' = IF run = NoRun
           THEN [by |-> by, key |-> key, since |-> since, began |-> now,
                 stored |-> FALSE]
           ELSE run

(* scheduled() calls startRun; a run without a period asks due_period, and *)
(* ends at once if the schedule was moved in between.                      *)
StartTick ==
    /\ plan # Asleep
    /\ plan' = Asleep
    /\ ticked' = TRUE
    /\ IF plan.what = "missed" THEN Start("tick", plan.key, now)
       ELSE IF DueAt(now) # None THEN Start("tick", KeyAt(now), now)
       ELSE run' = run
    /\ overtaken' = IF plan.beside THEN overtaken \cup {plan.key} ELSE overtaken
    /\ UNCHANGED <<zone, times, moves, now, wizard, stores>>

(* Start pressed: the page reads the key again (startIssue, planIssue).    *)
(* A key that holds an issue ends the step, but for a retry.               *)
Ask ==
    /\ wizard.at \in {"ready", "failed"}
    /\ wizard.at = "ready" => FirstIssueKey(now) \notin stored
    /\ wizard' = [at |-> "asked", key |-> FirstIssueKey(now), since |-> now,
                  heard |-> "nothing"]
    /\ UNCHANGED <<clock, plan, run, stores, overtaken>>

(* POST /run?period=&date=: refuseRunDate takes today and yesterday.       *)
Post ==
    /\ wizard.at = "asked"
    /\ IF wizard.key[1] \in {DateOf(now), DateOf(now) - 1}
       THEN /\ Start("wizard", wizard.key, wizard.since)
            /\ wizard' = [wizard EXCEPT !.at = "waiting"]
       ELSE /\ run' = run
            /\ wizard' = Idle("failed")
    /\ UNCHANGED <<clock, plan, stores, overtaken>>

(* waitForRun: a row it takes for its own ends the step.                   *)
Hear ==
    /\ wizard.at = "waiting"
    /\ wizard.heard # "nothing"
    /\ wizard' = IF wizard.heard = "ok" THEN [wizard EXCEPT !.at = "done"] ELSE Idle("failed")
    /\ UNCHANGED <<clock, plan, run, stores, overtaken>>

(* RUN_WAIT_MS: the page gives up.                                         *)
GiveUp ==
    /\ wizard.at = "waiting"
    /\ now > wizard.since
    /\ wizard' = Idle("failed")
    /\ UNCHANGED <<clock, plan, run, stores, overtaken>>
-----------------------------------------------------------------------------
(* run_digest stores and publishes its issue.  It takes minutes, and the   *)
(* tick of an hour comes as the hour begins.                               *)
StoreIssue ==
    /\ run # NoRun
    /\ ~run.stored
    /\ run.began = now => ticked
    /\ run' = [run EXCEPT !.stored = TRUE]
    /\ stored' = stored \cup {run.key}
    /\ UNCHANGED <<clock, plan, wizard, ledger, kept, overtaken>>

(* The `finally` of run_digest writes a row, which the wizard may hear of: *)
(* the newest, if it is newer than the one the page read and of the period *)
(* it asked for, is taken for its run's.  A kill leaves no row.            *)
Report(period, ok) ==
    /\ ledger' = IF ok THEN ledger \cup {[period |-> period, hour |-> now]} ELSE ledger
    /\ wizard' = IF wizard.at \notin {"asked", "waiting"} THEN wizard
                 ELSE IF period # wizard.key[2] THEN [wizard EXCEPT !.heard = "nothing"]
                 ELSE [wizard EXCEPT !.heard = IF ok THEN "ok" ELSE "failed"]

EndRun ==
    /\ run # NoRun
    /\ \E ok \in {FALSE, run.stored} :
           /\ Report(run.key[2], ok)
           /\ kept' = IF ok /\ run.by = "wizard" THEN kept \cup {run.key} ELSE kept
    /\ run' = NoRun
    /\ UNCHANGED <<clock, plan, stored, overtaken>>

Kill ==
    /\ run # NoRun
    /\ run' = NoRun
    /\ UNCHANGED <<clock, plan, wizard, stores, overtaken>>

Next == \/ AdvanceHour \/ MoveSchedule
        \/ PlanDue \/ PlanCatchUp \/ StayAsleep \/ StartTick
        \/ Ask \/ Post \/ Hear \/ GiveUp
        \/ StoreIssue \/ EndRun \/ Kill

Spec == Init /\ [][Next]_vars
-----------------------------------------------------------------------------
(* A day on which the clock is set back has an hour twice.                 *)
SetBack == \E t \in Hours : t > 0 /\ zone[t] < zone[t - 1]

(* A tick's run stores its issue under key k.                              *)
Retaken(k) == StoreIssue /\ run.by = "tick" /\ run.key = k

(* The wizard's issue stays: what first_issue_key promises (schedule.py,   *)
(* and the page's own "no later issue today replaces it").  Once its run   *)
(* has ended ok, no tick's run stores another issue under its key, unless  *)
(* the reader moved the publish hours, the clock was set back, or the tick *)
(* had read digest_runs while that very run was under way.                 *)
FirstIssueStands ==
    [][\A k \in kept : Retaken(k) => moves > 0 \/ SetBack \/ k \in overtaken]_vars

(* The row for which a tick leaves a digest hour alone is the row of that  *)
(* hour's issue, or the issue is stored anyway: planTick looks for rows by *)
(* period and time, not by date, so a row of another day's issue could     *)
(* pass for it.                                                            *)
CatchUpIsNotFooled ==
    moves = 0 /\ DueAt(now) = None /\ MissedHours(now) # {} =>
        \A row \in ledger :
            Counts(row, Missed(now)) => KeyAt(Missed(now)) \in stored

(* What the page reports as published is stored.  It knows its run only by *)
(* the next row of the period, and a start beside a running container is   *)
(* answered like any other.  When the reader moves the publish hours after *)
(* the page asked, the run it meets may be of another day's evening, so    *)
(* nothing is said of moved hours.                                         *)
WizardTellsTrue == moves = 0 /\ wizard.at = "done" => wizard.key \in stored
=============================================================================
