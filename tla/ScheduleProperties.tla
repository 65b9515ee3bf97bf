------------------------- MODULE ScheduleProperties -------------------------
(***************************************************************************)
(* When the runs of a scheduled query happen, stated about module Schedule *)
(* and independently of how nextRun computes it: by reading the wall clock *)
(* at each instant.                                                        *)
(***************************************************************************)
EXTENDS Schedule

(***************************************************************************)
(* Type correctness.                                                       *)
(***************************************************************************)
ScheduleTypeOK ==
    /\ zone \in Zones
    /\ now \in 0 .. Horizon
    /\ planned \in 0 .. now
    /\ due \in Int
    /\ phase \in {"waiting", "running", "stopped"}
    /\ lastRun \in Int \cup {NoTime}

IsScheduled(t) ==
    \E e \in Entries : /\ Weekday(Wall(zone, t)) = e.weekday
                       /\ Wall(zone, t) % DayLen = e.slot

(***************************************************************************)
(* The worker waits for a scheduled time, and for the next one: between    *)
(* the call of nextRun and its result no scheduled wall clock time goes by *)
(* for good. One that the autumn change repeats may be left to its other   *)
(* occurrence.                                                             *)
(***************************************************************************)
DueIsTheNextTime ==
    /\ due > planned
    /\ IsScheduled(due)
    /\ \A t \in planned + 1 .. due - 1 :
           IsScheduled(t) =>
               \E u \in t - 1 .. t + 1 :
                   /\ u \notin planned + 1 .. due - 1
                   /\ Wall(zone, u) = Wall(zone, t)

(***************************************************************************)
(* No wall clock time runs twice: neither because nextRun is called at the *)
(* very time that has just run, nor because autumn repeats it.             *)
(***************************************************************************)
NoTimeRunsTwice ==
    lastRun # NoTime /\ phase = "waiting" => Wall(zone, due) # Wall(zone, lastRun)

(***************************************************************************)
(* No time of the schedule is the one that spring leaves out in some zone. *)
(* nextRun takes such a time from a day that may not have it               *)
(* (schedule.go:164), so this is where it can be relied on.                *)
(***************************************************************************)
SpringIsAvoided ==
    \A z \in Zones, e \in Entries : (z.spring + z.base) % DayLen # e.slot

-----------------------------------------------------------------------------
(* What the repository says and the code does not do                       *)

(***************************************************************************)
(* schedule gives "particular days of the week and times" (README.md:221). *)
(* On the day of the spring change itself a time may not exist; on every   *)
(* other day the query has to run at a time that its schedule names.       *)
(***************************************************************************)
SpringDay == Day(Wall(zone, zone.spring))

RunsAtItsTime == IsScheduled(due) \/ Day(Wall(zone, due)) = SpringDay
=============================================================================
