----------------------------- MODULE MCSchedule -----------------------------
(***************************************************************************)
(* Small instances of Schedule for TLC: days of four slots, and zones on   *)
(* both sides of UTC that change in the first and in the second week.      *)
(***************************************************************************)
EXTENDS ScheduleProperties

(***************************************************************************)
(* The reading (3, 1) is left out, the reading (9, 3) comes twice.         *)
(***************************************************************************)
ZoneAt(base) == [base |-> base, spring |-> 3 * DayLen + 1 - base,
                 autumn |-> 9 * DayLen + 3 - base]

BothSides == {ZoneAt(base) : base \in {-2, 0, 1}}

InAutumnOnly == {[weekdays |-> {2, 4}, times |-> {0, 3}],
                 [weekdays |-> {3}, times |-> {0, 2}]}

SpringSlot == {[weekdays |-> {3, 4}, times |-> {1}]}

\* The instance that keeps clear of the spring change meets the hypothesis of
\* the theorem DueComesNext.
ASSUME AutumnAvoidsSpring == At = InAutumnOnly => SpringIsAvoided
=============================================================================
