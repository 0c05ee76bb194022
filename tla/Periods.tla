------------------------------ MODULE Periods ------------------------------
(***************************************************************************)
(* period_bounds, the quota period a day falls in, as the calendar moves   *)
(* on.  A date is <<year, month, day>>; a moment of a day is the day, as   *)
(* bounds are midnights.                                                   *)
(***************************************************************************)
EXTENDS Naturals

CONSTANTS
    FirstYear, LastYear   \* bound: the years the calendar runs through

VARIABLES
    today,
    resetDay    \* org_quotas.reset_day, 1..31

periodVars == <<today, resetDay>>

LeapYear(y) == y % 4 = 0 /\ (y % 100 # 0 \/ y % 400 = 0)

\* calendar.monthrange
MonthLength(y, m) ==
    CASE m = 2 -> IF LeapYear(y) THEN 29 ELSE 28
      [] m \in {4, 6, 9, 11} -> 30
      [] OTHER -> 31

Ordinal(date) == 372 * date[1] + 31 * date[2] + date[3]
Earlier(a, b) == Ordinal(a) < Ordinal(b)

Clamped(y, m, d) == <<y, m, IF d > MonthLength(y, m) THEN MonthLength(y, m) ELSE d>>

MonthAfter(y, m) == IF m = 12 THEN <<y + 1, 1>> ELSE <<y, m + 1>>
MonthBefore(y, m) == IF m = 1 THEN <<y - 1, 12>> ELSE <<y, m - 1>>

\* [start, next reset)
PeriodBounds(date, day) ==
    LET this == Clamped(date[1], date[2], day)
        nxt == MonthAfter(date[1], date[2])
        prev == MonthBefore(date[1], date[2])
    IN  IF ~Earlier(date, this) THEN [start |-> this, reset |-> Clamped(nxt[1], nxt[2], day)]
        ELSE [start |-> Clamped(prev[1], prev[2], day), reset |-> this]

TypeOK ==
    /\ today[1] \in FirstYear..LastYear /\ today[2] \in 1..12
    /\ today[3] \in 1..MonthLength(today[1], today[2])
    /\ resetDay \in 1..31

Init ==
    /\ \E y \in FirstYear..LastYear, m \in 1..12 : today = <<y, m, 1>>
    /\ resetDay \in 1..31

NextDay ==
    LET y == today[1]
        m == today[2]
        d == today[3]
    IN  /\ d < MonthLength(y, m) \/ m < 12 \/ y < LastYear
        /\ today' = IF d < MonthLength(y, m) THEN <<y, m, d + 1>>
                    ELSE <<MonthAfter(y, m)[1], MonthAfter(y, m)[2], 1>>
        /\ UNCHANGED resetDay

Next == NextDay

Spec == Init /\ [][Next]_periodVars

-----------------------------------------------------------------------------
\* Periods tile time, also at month ends, in February and across the turn
\* of the year: today lies in its period, the next period begins where this
\* one ends, and a day's usage is counted in one period.  period_bounds.
PeriodsTile ==
    LET b == PeriodBounds(today, resetDay)
    IN  /\ ~Earlier(today, b.start) /\ Earlier(today, b.reset)
        /\ PeriodBounds(b.start, resetDay) = b
        /\ PeriodBounds(b.reset, resetDay).start = b.reset
=============================================================================
