--------------------------- MODULE ScheduleProofs ---------------------------
(***************************************************************************)
(* Theorems about Schedule, for days of any length, any zones and any      *)
(* schedule. The lemmas follow nextRun (schedule.go:157) from the inside:  *)
(* what time.Date returns, what a candidate is, and that it is the next    *)
(* one of its entry.                                                       *)
(***************************************************************************)
EXTENDS ScheduleProperties, WellFoundedInduction, TLAPS

-----------------------------------------------------------------------------
(* Arithmetic                                                              *)

LEMMA DivUnique ==
    ASSUME NEW L \in Nat \ {0}, NEW D \in Int, NEW s \in 0 .. L - 1
    PROVE  (D * L + s) \div L = D /\ (D * L + s) % L = s
OBVIOUS

LEMMA DivParts ==
    ASSUME NEW L \in Nat \ {0}, NEW n \in Int
    PROVE  /\ n \div L \in Int /\ n % L \in 0 .. L - 1
           /\ n = (n \div L) * L + (n % L)
OBVIOUS

LEMMA FirstOfWeekday ==
    ASSUME NEW n \in Int, NEW w \in 0 .. 6
    PROVE  /\ n + ((w - (n % 7) + 7) % 7) \in n .. n + 6
           /\ (n + ((w - (n % 7) + 7) % 7)) % 7 = w
<1>1. PICK m \in 0 .. 6 : m = n % 7
  OBVIOUS
<1>2. CASE w >= m
  <2>1. (w - m + 7) % 7 = w - m
    BY <1>2
  <2>2. (n + (w - m)) % 7 = w
    BY <1>1, <1>2
  <2> QED
    BY <1>1, <1>2, <2>1, <2>2
<1>3. CASE w < m
  <2>1. (w - m + 7) % 7 = w - m + 7
    BY <1>3
  <2>2. (n + (w - m + 7)) % 7 = w
    BY <1>1, <1>3
  <2> QED
    BY <1>1, <1>3, <2>1, <2>2
<1> QED
  BY <1>1, <1>2, <1>3

LEMMA ProductIsMonotonic ==
    ASSUME NEW L \in Nat \ {0}, NEW a \in Int, NEW b \in Int, a <= b
    PROVE  a * L <= b * L
OBVIOUS

\* A set of naturals has a least element, and so has one with a lower bound.
LEMMA LeastNat ==
    ASSUME NEW S \in SUBSET Nat, S # {}
    PROVE  \E x \in S : \A y \in S : x <= y
<1> DEFINE R == OpToRel(<, Nat)
<1>1. IsWellFoundedOn(R, Nat)
  BY NatLessThanWellFounded
<1>2. \E x \in S : \A y \in S : <<y, x>> \notin R
  <2> HIDE DEF R
  <2> QED
    BY <1>1, WFMin
<1>3. \A x, y \in S : <<y, x>> \notin R => x <= y
  BY DEF OpToRel
<1> QED
  BY <1>2, <1>3

LEMMA MinIsLeast ==
    ASSUME NEW S \in SUBSET Int, S # {}, NEW low \in Int, \A x \in S : low < x
    PROVE  Min(S) \in S /\ \A x \in S : Min(S) <= x
<1> DEFINE T == {x - low : x \in S}
<1>1. T \in SUBSET Nat /\ T # {}
  <2>1. \A x \in S : x - low \in Nat
    OBVIOUS
  <2>2. PICK x \in S : TRUE
    OBVIOUS
  <2>3. x - low \in T
    OBVIOUS
  <2> QED
    BY <2>1, <2>3
<1>2. PICK t \in T : \A y \in T : t <= y
  <2> HIDE DEF T
  <2> QED
    BY <1>1, LeastNat
<1>3. PICK x \in S : t = x - low
  BY <1>2
<1>4. \A y \in S : y - low \in T
  OBVIOUS
<1>5. \A y \in S : x <= y
  BY <1>2, <1>3, <1>4
<1> QED
  BY <1>5 DEF Min

-----------------------------------------------------------------------------
(* The wall clock                                                          *)

\* An offset differs by at most one slot, so larger steps keep their order.
LEMMA WallOrder ==
    ASSUME NEW z \in Zones, NEW t \in Int, NEW u \in Int
    PROVE  /\ Wall(z, t) \in Int
           /\ Wall(z, u) - Wall(z, t) <= u - t + 1
           /\ u - t <= Wall(z, u) - Wall(z, t) + 1
BY ScheduleAssumption DEF Wall, Offset, IsSummer, Zone

(***************************************************************************)
(* time.Date gives an instant with the reading asked for, unless spring    *)
(* leaves that out; then it gives the one before or after.                 *)
(***************************************************************************)
LEMMA DateReads ==
    ASSUME NEW z \in Zones, NEW r \in Int
    PROVE  /\ Date(z, r) \in Int
           /\ r # z.spring + z.base => Wall(z, Date(z, r)) = r
           /\ Wall(z, Date(z, r)) \in r - 1 .. r + 1
BY ScheduleAssumption DEF Date, SamePeriod, Wall, Offset, IsSummer, Zone

LEMMA DateIsNear ==
    ASSUME NEW z \in Zones, NEW r \in Int
    PROVE  /\ Date(z, r) \in Int /\ Wall(z, Date(z, r)) \in Int
           /\ Wall(z, Date(z, r)) >= r - 1
BY DateReads, WallOrder

\* It always takes the same one of two instants with one reading.
LEMMA DateOfItsReading ==
    ASSUME NEW z \in Zones, NEW r \in Int
    PROVE  Date(z, Wall(z, Date(z, r))) = Date(z, r)
<1>1. CASE r # z.spring + z.base
  BY <1>1, DateReads
<1>2. CASE r = z.spring + z.base
  <2>1. z \in Zone /\ z.spring + 1 < z.autumn
    BY ScheduleAssumption
  <2>2. Date(z, r) \in {z.spring - 1, z.spring}
    BY <1>2, <2>1 DEF Date, SamePeriod, Offset, IsSummer, Zone
  <2>3. Date(z, Wall(z, z.spring - 1)) = z.spring - 1
    <3>1. Wall(z, z.spring - 1) = z.spring - 1 + z.base
      BY <2>1 DEF Wall, Offset, IsSummer, Zone
    <3> QED
      BY <2>1, <3>1 DEF Date, SamePeriod, Offset, IsSummer, Zone
  <2>4. Date(z, Wall(z, z.spring)) = z.spring
    <3>1. Wall(z, z.spring) = z.spring + z.base + 1
      BY <2>1 DEF Wall, Offset, IsSummer, Zone
    <3> QED
      BY <2>1, <3>1 DEF Date, SamePeriod, Offset, IsSummer, Zone
  <2> QED
    BY <2>2, <2>3, <2>4
<1> QED
  BY <1>1, <1>2

-----------------------------------------------------------------------------
(* nextRun for one entry                                                   *)

\* The time of an entry on a day.
On(z, e, d) == Date(z, d * DayLen + e.slot)

\* The first day from now on that has the weekday of an entry.
FirstDay(z, t, e) ==
    Day(Wall(z, t)) + ((e.weekday - Weekday(Wall(z, t)) + 7) % 7)

LEMMA EntryType ==
    ASSUME NEW e \in Entries
    PROVE  /\ DayLen \in Nat \ {0}
           /\ e.slot \in 0 .. DayLen - 1 /\ e.weekday \in 0 .. 6
BY ScheduleAssumption DEF Entries

LEMMA WallParts ==
    ASSUME NEW z \in Zones, NEW t \in Int
    PROVE  /\ DayLen \in Nat \ {0}
           /\ Wall(z, t) \in Int /\ Day(Wall(z, t)) \in Int
           /\ Wall(z, t) % DayLen \in 0 .. DayLen - 1
           /\ Day(Wall(z, t)) * DayLen \in Int
           /\ Wall(z, t) = Day(Wall(z, t)) * DayLen + (Wall(z, t) % DayLen)
<1>1. Wall(z, t) \in Int
  BY WallOrder
<1>2. DayLen \in Nat \ {0}
  BY ScheduleAssumption
<1> QED
  <2> DEFINE w == Wall(z, t)
  <2>1. /\ w \div DayLen \in Int /\ w % DayLen \in 0 .. DayLen - 1
        /\ w = (w \div DayLen) * DayLen + (w % DayLen)
    <3> HIDE DEF w
    <3>1. w \in Int
      BY <1>1 DEF w
    <3> QED
      BY <3>1, <1>2, DivParts
  <2>2. (w \div DayLen) * DayLen \in Int
    BY <1>2, <2>1
  <2> QED
    BY <1>1, <1>2, <2>1, <2>2 DEF Day

LEMMA FirstDayType ==
    ASSUME NEW z \in Zones, NEW t \in Int, NEW e \in Entries
    PROVE  /\ Day(Wall(z, t)) \in Int
           /\ FirstDay(z, t, e) \in Day(Wall(z, t)) .. Day(Wall(z, t)) + 6
           /\ FirstDay(z, t, e) % 7 = e.weekday
<1> DEFINE n == Day(Wall(z, t))
<1>1. n \in Int
  BY WallParts
<1> HIDE DEF n
<1>2. /\ n + ((e.weekday - (n % 7) + 7) % 7) \in n .. n + 6
      /\ (n + ((e.weekday - (n % 7) + 7) % 7)) % 7 = e.weekday
  BY <1>1, EntryType, FirstOfWeekday
<1> QED
  BY <1>1, <1>2 DEF FirstDay, Weekday, n

\* A candidate is in the future, even where Date has to evade (schedule.go:165).
LEMMA CandidateIsLater ==
    ASSUME NEW z \in Zones, NEW t \in Int, NEW e \in Entries
    PROVE  /\ Candidate(z, t, e) \in Int
           /\ Candidate(z, t, e) > t
           /\ \E r \in Int : Candidate(z, t, e) = Date(z, r)
<1> DEFINE n == Wall(z, t)
           k == (e.weekday - Weekday(n) + 7) % 7
           today == Date(z, Day(n) * DayLen + e.slot)
           c == AddDays(z, today, k)
           later == AddDays(z, c, 7)
<1>1. /\ DayLen \in Nat \ {0} /\ n \in Int /\ Day(n) * DayLen \in Int
      /\ n < Day(n) * DayLen + DayLen /\ e.slot \in Nat
  BY WallParts, EntryType
<1>2. k \in Nat /\ k * DayLen \in Nat
  <2>1. k \in Nat
    BY WallParts, EntryType DEF Weekday
  <2> HIDE DEF k
  <2> QED
    BY <1>1, <2>1
<1>3. today \in Int /\ Wall(z, today) \in Int
      /\ Wall(z, today) >= Day(n) * DayLen - 1
  <2> HIDE DEF n
  <2>1. PICK r \in Int : r = Day(n) * DayLen + e.slot
    BY <1>1
  <2> QED
    BY <1>1, <2>1, DateIsNear
<1>4. /\ c \in Int /\ Wall(z, c) \in Int /\ Wall(z, c) >= Wall(z, today) - 1
      /\ c = Date(z, Wall(z, today) + k * DayLen)
      /\ Wall(z, today) + k * DayLen \in Int
  <2> HIDE DEF today, k
  <2>1. PICK r \in Int : r = Wall(z, today) + k * DayLen
    BY <1>2, <1>3
  <2> QED
    BY <1>2, <1>3, <2>1, DateIsNear DEF AddDays
<1>5. /\ later \in Int /\ Wall(z, later) \in Int
      /\ Wall(z, later) >= Wall(z, c) + 7 * DayLen - 1
      /\ later = Date(z, Wall(z, c) + 7 * DayLen)
      /\ Wall(z, c) + 7 * DayLen \in Int
  <2> HIDE DEF c
  <2>1. PICK r \in Int : r = Wall(z, c) + 7 * DayLen
    BY <1>1, <1>4
  <2>2. later = Date(z, r)
    BY <2>1 DEF AddDays
  <2> HIDE DEF later
  <2> QED
    BY <1>1, <1>4, <2>1, <2>2, DateIsNear
<1>6. later > t
  <2> HIDE DEF n, today, c, later
  <2>1. Wall(z, later) >= n + 2
    BY <1>1, <1>3, <1>4, <1>5
  <2> QED
    BY <1>1, <1>5, <2>1, WallOrder DEF n
<1>7. Candidate(z, t, e) = IF c > t THEN c ELSE later
  BY DEF Candidate
<1> HIDE DEF n, k, today, c, later
<1> QED
  BY <1>4, <1>5, <1>6, <1>7

\* On every day Date finds a time that is not the one left out by spring.
LEMMA OnReads ==
    ASSUME SpringIsAvoided, NEW z \in Zones, NEW e \in Entries, NEW d \in Int
    PROVE  /\ On(z, e, d) \in Int
           /\ Wall(z, On(z, e, d)) = d * DayLen + e.slot
           /\ Day(Wall(z, On(z, e, d))) = d
           /\ Wall(z, On(z, e, d)) % DayLen = e.slot
<1>1. z \in Zone
  BY ScheduleAssumption
<1>2. d * DayLen + e.slot \in Int
  BY EntryType
<1>3. /\ (d * DayLen + e.slot) \div DayLen = d
      /\ (d * DayLen + e.slot) % DayLen = e.slot
  BY EntryType, DivUnique
<1>4. d * DayLen + e.slot # z.spring + z.base
  BY <1>1, <1>3 DEF SpringIsAvoided
<1> QED
  BY <1>2, <1>3, <1>4, DateReads DEF Day, On

LEMMA AddDaysFromOn ==
    ASSUME SpringIsAvoided, NEW z \in Zones, NEW e \in Entries,
           NEW d \in Int, NEW m \in Int
    PROVE  AddDays(z, On(z, e, d), m) = On(z, e, d + m)
<1>1. d * DayLen + e.slot + m * DayLen = (d + m) * DayLen + e.slot
  BY EntryType
<1> QED
  BY <1>1, OnReads DEF AddDays, On

(***************************************************************************)
(* A candidate is on the first day with its weekday, or a week later if    *)
(* that was now or before.                                                 *)
(***************************************************************************)
LEMMA CandidateIsOn ==
    ASSUME SpringIsAvoided, NEW z \in Zones, NEW t \in Int, NEW e \in Entries
    PROVE  Candidate(z, t, e) = IF On(z, e, FirstDay(z, t, e)) > t
                                THEN On(z, e, FirstDay(z, t, e))
                                ELSE On(z, e, FirstDay(z, t, e) + 7)
<1> DEFINE n == Wall(z, t)
           k == (e.weekday - Weekday(n) + 7) % 7
<1>1. Day(n) \in Int /\ k \in Int /\ FirstDay(z, t, e) = Day(n) + k
  BY FirstDayType, EntryType DEF FirstDay, Weekday
<1>2. AddDays(z, On(z, e, Day(n)), k) = On(z, e, FirstDay(z, t, e))
  BY <1>1, AddDaysFromOn
<1>3. AddDays(z, On(z, e, FirstDay(z, t, e)), 7) = On(z, e, FirstDay(z, t, e) + 7)
  BY <1>1, AddDaysFromOn
<1>4. Candidate(z, t, e) = LET c == AddDays(z, On(z, e, Day(n)), k)
                           IN  IF c > t THEN c ELSE AddDays(z, c, 7)
  BY DEF Candidate, On
<1> QED
  BY <1>2, <1>3, <1>4

LEMMA CandidateIsScheduled ==
    ASSUME SpringIsAvoided, NEW z \in Zones, NEW t \in Int, NEW e \in Entries
    PROVE  /\ Weekday(Wall(z, Candidate(z, t, e))) = e.weekday
           /\ Wall(z, Candidate(z, t, e)) % DayLen = e.slot
<1> DEFINE d == FirstDay(z, t, e)
<1>1. d \in Int /\ d % 7 = e.weekday
  BY FirstDayType
<1>2. \A x \in {d, d + 7} : /\ Weekday(Wall(z, On(z, e, x))) = e.weekday
                            /\ Wall(z, On(z, e, x)) % DayLen = e.slot
  BY <1>1, OnReads, EntryType DEF Weekday
<1> QED
  BY <1>2, CandidateIsOn

\* A week apart on the wall clock is apart in time.
LEMMA WeeksApart ==
    ASSUME NEW z \in Zones, NEW e \in Entries, NEW t \in Int, NEW u \in Int,
           NEW a \in Int, NEW b \in Int, a + 7 <= b,
           Wall(z, t) = a * DayLen + e.slot, Wall(z, u) = b * DayLen + e.slot
    PROVE  t < u
<1>1. (a + 7) * DayLen <= b * DayLen
  BY EntryType, ProductIsMonotonic
<1>2. (a + 7) * DayLen = a * DayLen + 7 * DayLen /\ 7 * DayLen >= 7
  BY EntryType
<1>3. Wall(z, t) + 7 <= Wall(z, u)
  <2>1. /\ a * DayLen \in Int /\ b * DayLen \in Int
        /\ 7 * DayLen \in Int /\ e.slot \in Int
    BY EntryType
  <2> QED
    BY <1>1, <1>2, <2>1
<1> QED
  BY <1>3, WallOrder

(***************************************************************************)
(* A scheduled time between the call of nextRun and the candidate is one   *)
(* whose reading comes twice; the other occurrence is not in between.      *)
(***************************************************************************)
LEMMA NothingIsSkipped ==
    ASSUME SpringIsAvoided, NEW z \in Zones, NEW t \in Int, NEW e \in Entries,
           NEW u \in Int, t < u, u < Candidate(z, t, e),
           Weekday(Wall(z, u)) = e.weekday, Wall(z, u) % DayLen = e.slot
    PROVE  \E v \in {u - 1, u + 1} :
               /\ v <= t \/ v >= Candidate(z, t, e)
               /\ Wall(z, v) = Wall(z, u)
<1> DEFINE d == FirstDay(z, t, e)
           du == Day(Wall(z, u))
           dt == Day(Wall(z, t))
<1>1. /\ d \in Int /\ d % 7 = e.weekday /\ dt \in Int /\ dt <= d /\ d <= dt + 6
      /\ du \in Int /\ du % 7 = e.weekday
      /\ Wall(z, u) \in Int /\ Wall(z, t) \in Int
  BY FirstDayType, WallParts DEF Weekday
<1>2. Wall(z, u) = du * DayLen + e.slot
  BY WallParts
<1>3. PICK x \in {d, d + 7} : /\ Candidate(z, t, e) = On(z, e, x)
                              /\ x = d + 7 => On(z, e, d) <= t
  BY <1>1, CandidateIsOn, OnReads
<1>4. /\ On(z, e, x) \in Int /\ Wall(z, On(z, e, x)) = x * DayLen + e.slot
      /\ On(z, e, d) \in Int /\ Wall(z, On(z, e, d)) = d * DayLen + e.slot
  BY <1>1, OnReads
<1>5. CASE du = x
  <2>1. Wall(z, On(z, e, x)) = Wall(z, u)
    BY <1>2, <1>4, <1>5
  <2>2. On(z, e, x) = u + 1
    BY <1>1, <1>3, <1>4, <2>1, WallOrder
  <2> QED
    BY <1>3, <1>4, <2>1, <2>2
<1>6. CASE du = d /\ x = d + 7
  <2>1. Wall(z, On(z, e, d)) = Wall(z, u)
    BY <1>2, <1>4, <1>6
  <2>2. On(z, e, d) = u - 1
    BY <1>1, <1>3, <1>4, <1>6, <2>1, WallOrder
  <2> QED
    BY <1>3, <1>4, <1>6, <2>1, <2>2
<1>7. CASE x + 7 <= du
  BY <1>1, <1>2, <1>3, <1>4, <1>7, WeeksApart
<1>8. CASE du <= d - 7
  <2>1. Wall(z, t) >= dt * DayLen
    BY WallParts
  <2>2. (du + 1) * DayLen <= dt * DayLen
    <3>1. du + 1 <= dt
      BY <1>1, <1>8
    <3> QED
      BY <1>1, <3>1, EntryType, ProductIsMonotonic
  <2>3. (du + 1) * DayLen = du * DayLen + DayLen
    BY <1>1, EntryType
  <2>4. /\ du * DayLen \in Int /\ dt * DayLen \in Int
        /\ e.slot \in Int /\ e.slot < DayLen /\ DayLen \in Int
    BY <1>1, EntryType
  <2>5. Wall(z, u) < Wall(z, t)
    BY <1>1, <1>2, <2>1, <2>2, <2>3, <2>4
  <2> QED
    BY <1>1, <2>5, WallOrder
<1>9. du = x \/ (du = d /\ x = d + 7) \/ x + 7 <= du \/ du <= d - 7
  BY <1>1, <1>3
<1> QED
  BY <1>5, <1>6, <1>7, <1>8, <1>9

-----------------------------------------------------------------------------
(* nextRun                                                                 *)

LEMMA NextRunIsNext ==
    ASSUME NEW z \in Zones, NEW t \in Int
    PROVE  /\ NextRun(z, t) \in Int /\ NextRun(z, t) > t
           /\ \E e \in Entries : NextRun(z, t) = Candidate(z, t, e)
           /\ \A e \in Entries : NextRun(z, t) <= Candidate(z, t, e)
<1> DEFINE S == {Candidate(z, t, e) : e \in Entries}
<1>1. Entries # {}
  <2>1. PICK a \in At : TRUE
    BY ScheduleAssumption
  <2>2. PICK wd \in a.weekdays, s \in a.times : TRUE
    BY ScheduleAssumption
  <2>3. [weekday |-> wd, slot |-> s] \in Entries
    BY DEF Entries
  <2> QED
    BY <2>3
<1>2. S \in SUBSET Int /\ S # {} /\ \A x \in S : t < x
  BY <1>1, CandidateIsLater
<1>3. Min(S) \in S /\ \A x \in S : Min(S) <= x
  <2> HIDE DEF S
  <2> QED
    BY <1>2, MinIsLeast
<1>4. NextRun(z, t) = Min(S)
  BY DEF NextRun
<1> HIDE DEF S
<1>5. NextRun(z, t) \in Int /\ NextRun(z, t) > t
  BY <1>2, <1>3, <1>4
<1> USE DEF S
<1> QED
  BY <1>3, <1>4, <1>5

\* It is the instant that Date gives for its reading, not the other one.
LEMMA NextRunIsDate ==
    ASSUME NEW z \in Zones, NEW t \in Int
    PROVE  Date(z, Wall(z, NextRun(z, t))) = NextRun(z, t)
<1>1. PICK e \in Entries : NextRun(z, t) = Candidate(z, t, e)
  BY NextRunIsNext
<1>2. PICK r \in Int : Candidate(z, t, e) = Date(z, r)
  BY CandidateIsLater
<1> QED
  BY <1>1, <1>2, DateOfItsReading

-----------------------------------------------------------------------------
(* The loop of a scheduled worker                                          *)

(***************************************************************************)
(* The worker waits for what nextRun gave and does not run before; the run *)
(* before was planned for the instant that Date gives for its reading.     *)
(***************************************************************************)
ScheduleInv ==
    /\ ScheduleTypeOK
    /\ due = NextRun(zone, planned)
    /\ phase = "running" => due <= now
    /\ lastRun # NoTime => /\ lastRun <= planned
                           /\ Date(zone, Wall(zone, lastRun)) = lastRun

(***************************************************************************)
(* The inductive invariant of the loop holds for any schedule.             *)
(***************************************************************************)
THEOREM ScheduleInvariance == Spec => []ScheduleInv
<1>1. ScheduleInit => ScheduleInv
  BY ScheduleAssumption, NextRunIsNext
     DEF ScheduleInit, ScheduleInv, ScheduleTypeOK
<1>2. ASSUME ScheduleInv, [Next]_scheduleVars
      PROVE  ScheduleInv'
  <2>1. /\ zone \in Zones /\ now \in Int /\ planned \in Int /\ due \in Int
        /\ now <= Horizon
    BY <1>2, ScheduleAssumption DEF ScheduleInv, ScheduleTypeOK
  <2>2. CASE TimePasses
    BY <1>2, <2>1, <2>2, ScheduleAssumption
       DEF ScheduleInv, ScheduleTypeOK, TimePasses
  <2>3. CASE RunStarts
    BY <1>2, <2>1, <2>3 DEF ScheduleInv, ScheduleTypeOK, RunStarts
  <2>4. CASE RunEnds
    <3>1. NextRun(zone, now) \in Int
      BY <2>1, NextRunIsNext
    <3>2. Date(zone, Wall(zone, due)) = due
      BY <1>2, <2>1, NextRunIsDate DEF ScheduleInv
    <3> QED
      BY <1>2, <2>1, <2>4, <3>1, <3>2
         DEF ScheduleInv, ScheduleTypeOK, RunEnds
  <2>5. CASE WorkerStops
    BY <1>2, <2>5 DEF ScheduleInv, ScheduleTypeOK, WorkerStops
  <2>6. CASE UNCHANGED scheduleVars
    BY <1>2, <2>6 DEF ScheduleInv, ScheduleTypeOK, scheduleVars
  <2> QED
    BY <1>2, <2>2, <2>3, <2>4, <2>5, <2>6 DEF Next
<1> QED
  BY <1>1, <1>2, PTL DEF Spec

(***************************************************************************)
(* A reading that autumn repeats is run once, and no run is planned for    *)
(* the time that has just run, for any schedule: Date always takes the     *)
(* same occurrence, and nextRun one that is later than now                 *)
(* (schedule.go:165).                                                      *)
(***************************************************************************)
THEOREM NothingRunsTwice == Spec => []NoTimeRunsTwice
<1>1. ScheduleInv => NoTimeRunsTwice
  <2> SUFFICES ASSUME ScheduleInv, lastRun # NoTime
               PROVE  Wall(zone, due) # Wall(zone, lastRun)
    BY DEF NoTimeRunsTwice
  <2>1. zone \in Zones /\ planned \in Int
    BY ScheduleAssumption DEF ScheduleInv, ScheduleTypeOK
  <2>2. Date(zone, Wall(zone, lastRun)) = lastRun
    BY DEF ScheduleInv
  <2>3. Date(zone, Wall(zone, due)) = due
    BY <2>1, NextRunIsDate DEF ScheduleInv
  <2>4. lastRun # due
    <3>1. lastRun \in Int /\ lastRun <= planned
      BY DEF ScheduleInv, ScheduleTypeOK
    <3>2. due \in Int /\ due > planned
      BY <2>1, NextRunIsNext DEF ScheduleInv
    <3> QED
      BY <2>1, <3>1, <3>2
  <2> QED
    BY <2>2, <2>3, <2>4
<1> QED
  BY <1>1, ScheduleInvariance, PTL

(***************************************************************************)
(* The worker waits for the next scheduled time, over both changes of the  *)
(* clock, if no time of the schedule is the one that spring leaves out     *)
(* (schedule.go:164).                                                      *)
(***************************************************************************)
THEOREM DueComesNext ==
    ASSUME SpringIsAvoided
    PROVE  Spec => []DueIsTheNextTime
<1>1. ScheduleInv => DueIsTheNextTime
  <2> SUFFICES ASSUME ScheduleInv
               PROVE  DueIsTheNextTime
    OBVIOUS
  <2>1. /\ zone \in Zones /\ planned \in Int /\ due \in Int
        /\ due = NextRun(zone, planned)
    BY ScheduleAssumption DEF ScheduleInv, ScheduleTypeOK
  <2>2. due > planned
    BY <2>1, NextRunIsNext
  <2>3. IsScheduled(due)
    BY <2>1, NextRunIsNext, CandidateIsScheduled DEF IsScheduled
  <2>4. ASSUME NEW t \in planned + 1 .. due - 1, IsScheduled(t)
        PROVE  \E u \in t - 1 .. t + 1 :
                   /\ u \notin planned + 1 .. due - 1
                   /\ Wall(zone, u) = Wall(zone, t)
    <3>1. PICK e \in Entries : /\ Weekday(Wall(zone, t)) = e.weekday
                               /\ Wall(zone, t) % DayLen = e.slot
      BY <2>4 DEF IsScheduled
    <3>2. /\ Candidate(zone, planned, e) \in Int
          /\ due <= Candidate(zone, planned, e)
      BY <2>1, NextRunIsNext, CandidateIsLater
    <3>3. t \in Int /\ planned < t /\ t < due
      BY <2>1, <2>4
    <3>4. PICK u \in {t - 1, t + 1} :
              /\ u <= planned \/ u >= Candidate(zone, planned, e)
              /\ Wall(zone, u) = Wall(zone, t)
      BY <2>1, <3>1, <3>2, <3>3, NothingIsSkipped
    <3> QED
      BY <2>1, <3>2, <3>3, <3>4
  <2> QED
    BY <2>2, <2>3, <2>4 DEF DueIsTheNextTime
<1> QED
  BY <1>1, ScheduleInvariance, PTL
=============================================================================
