------------------------------ MODULE Schedule ------------------------------
(***************************************************************************)
(* parseSchedule and nextRun (src/schedule.go) and the loop of a scheduled *)
(* worker in startQueryWorker (src/worker.go).                             *)
(*                                                                         *)
(* An instant is a number of slots, and so is a wall clock reading: the    *)
(* slot of the day is reading % DayLen, the day reading \div DayLen, and   *)
(* day 0 is a Sunday. A zone is ahead of the instants by base, and by one  *)
(* slot more from the instant spring up to the instant autumn. In spring   *)
(* one reading is left out, in autumn one comes twice.                     *)
(***************************************************************************)
EXTENDS Integers, FiniteSetsExt

CONSTANTS
    DayLen,   \* slots of a day
    At,       \* schedule.at: sets of weekdays, each with a set of slots
    Zones,    \* the zones that schedule.timezone may name
    Horizon,  \* bound: the last instant of a behaviour
    NoTime    \* no run yet

Zone == [base : Int, spring : Int, autumn : Int]

\* Summer lasts longer than the slot that it is ahead by.
ASSUME ScheduleAssumption ==
    /\ DayLen \in Nat \ {0}
    /\ At # {}
    /\ At \subseteq [weekdays : (SUBSET (0 .. 6)) \ {{}},
                     times : (SUBSET (0 .. DayLen - 1)) \ {{}}]
    /\ \A z \in Zones : z \in Zone /\ z.spring + 1 < z.autumn
    /\ Horizon \in Nat /\ Horizon >= 7 * DayLen
    /\ NoTime \notin Int

-----------------------------------------------------------------------------
(* Package time                                                            *)

IsSummer(z, t) == z.spring <= t /\ t < z.autumn

Offset(z, t) == IF IsSummer(z, t) THEN z.base + 1 ELSE z.base

Wall(z, t) == t + Offset(z, t)

SamePeriod(z, t, u) ==
    \/ t < z.spring /\ u < z.spring
    \/ IsSummer(z, t) /\ IsSummer(z, u)
    \/ t >= z.autumn /\ u >= z.autumn

(***************************************************************************)
(* time.Date: the offset is looked up as if the reading were an instant,   *)
(* and again if the instant found lies in another period. For a reading    *)
(* that does not exist this gives the one before or the one after it.      *)
(***************************************************************************)
Date(z, reading) ==
    LET guess == reading - Offset(z, reading)
    IN  IF SamePeriod(z, reading, guess) THEN guess
                                         ELSE reading - Offset(z, guess)

\* Time.AddDate(0, 0, days): the same clock reading on another day.
AddDays(z, t, days) == Date(z, Wall(z, t) + days * DayLen)

-----------------------------------------------------------------------------
(* schedule.go                                                             *)

(***************************************************************************)
(* parseSchedule: every combination of weekday and time.                   *)
(***************************************************************************)
Entries == UNION {{[weekday |-> wd, slot |-> s] : wd \in a.weekdays,
                                                  s \in a.times} : a \in At}

Day(reading) == reading \div DayLen

Weekday(reading) == Day(reading) % 7

\* Fault: a time that is now counts as still to come.
CandidateFromNow(z, now, e) ==
    LET n == Wall(z, now)
        today == Date(z, Day(n) * DayLen + e.slot)
        c == AddDays(z, today, (e.weekday - Weekday(n) + 7) % 7)
    IN  IF c >= now THEN c ELSE AddDays(z, c, 7)

\* Fault: a weekday that is past is looked for in the next week but one.
CandidateWeekLate(z, now, e) ==
    LET n == Wall(z, now)
        today == Date(z, Day(n) * DayLen + e.slot)
        c == AddDays(z, today, (e.weekday - Weekday(n) + 7) % 7)
    IN  IF c > now /\ Weekday(n) <= e.weekday THEN c ELSE AddDays(z, c, 7)

(***************************************************************************)
(* The next run for one entry: its time today, moved to its weekday and,   *)
(* if that is not in the future, by a week.                                *)
(***************************************************************************)
Candidate(z, now, e) ==
    LET n == Wall(z, now)
        today == Date(z, Day(n) * DayLen + e.slot)
        c == AddDays(z, today, (e.weekday - Weekday(n) + 7) % 7)
    IN  IF c > now THEN c ELSE AddDays(z, c, 7)

NextRun(z, now) == Min({Candidate(z, now, e) : e \in Entries})

-----------------------------------------------------------------------------
VARIABLES
    zone,     \* schedule.timezone
    now,      \* time.Now()
    planned,  \* when nextRun was last called
    due,      \* what it returned: when the timer fires
    phase,    \* the worker waits in its select, runs the query or has ended
    lastRun   \* the due of the run before

scheduleVars == <<zone, now, planned, due, phase, lastRun>>

ScheduleInit ==
    /\ zone \in Zones
    /\ now \in 0 .. 7 * DayLen - 1
    /\ planned = now
    /\ due = NextRun(zone, now)
    /\ phase = "waiting"
    /\ lastRun = NoTime

(***************************************************************************)
(* A timer fires on time: the worker does not wait past its due.           *)
(***************************************************************************)
TimePasses ==
    /\ now < Horizon
    /\ phase = "waiting" => now < due
    /\ now' = now + 1
    /\ UNCHANGED <<zone, planned, due, phase, lastRun>>

RunStarts ==
    /\ phase = "waiting" /\ now >= due
    /\ phase' = "running"
    /\ UNCHANGED <<zone, now, planned, due, lastRun>>

RunEnds ==
    /\ phase = "running"
    /\ phase' = "waiting"
    /\ planned' = now
    /\ due' = NextRun(zone, now)
    /\ lastRun' = due
    /\ UNCHANGED <<zone, now>>

\* ctx.Done: the select is left only while it waits.
WorkerStops ==
    /\ phase = "waiting"
    /\ phase' = "stopped"
    /\ UNCHANGED <<zone, now, planned, due, lastRun>>

Next ==
    \/ TimePasses
    \/ RunStarts
    \/ RunEnds
    \/ WorkerStops

Spec == ScheduleInit /\ [][Next]_scheduleVars
=============================================================================
