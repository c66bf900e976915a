---------------------------- MODULE RewardSchedule ----------------------------
(***************************************************************************)
(* The tier table as a student meets it: a claim is made, and its file      *)
(* handed in later and later.  Compares the functions of Deadlines with the *)
(* comparison table in the docstring of tasks/deadlines.py and states what  *)
(* the services rely on.                                                    *)
(***************************************************************************)
EXTENDS Deadlines

CONSTANTS Policies,   \* deadline policies tried
          Bases,      \* base rewards tried
          Horizon     \* last instant tried

ASSUME ScheduleAssumption ==
    /\ Policies \subseteq [mode : {"FIXED", "RELATIVE"}, at : Nat]
    /\ Bases \subseteq Nat \ {0}
    /\ Horizon \in Nat /\ 2 <= Horizon

VARIABLES policy, base, claimedAt, at    \* at: when the file is handed in

scheduleVars == <<policy, base, claimedAt, at>>

Row == ClaimDeadlines(policy, claimedAt)

Fraction == RewardFraction(at, Row.deadline)
Points   == RewardPoints(base, Fraction)

ScheduleInit ==
    /\ policy \in Policies
    /\ base \in Bases
    /\ claimedAt \in 0..2
    /\ at = claimedAt

HandInLater ==
    /\ at < Horizon
    /\ ~WindowClosed(at + 1, Row.grace)
    /\ at' = at + 1
    /\ UNCHANGED <<policy, base, claimedAt>>

ScheduleSpec == ScheduleInit /\ [][HandInLater]_scheduleVars

-----------------------------------------------------------------------------
\* The docstring's table: one tier per half-open interval, full points up to
\* and at the deadline, and nothing at or after the grace deadline.
Intervals(row) ==
    [f \in Fractions |->
        CASE f = 100 -> {s \in 0..Horizon : s <= row.deadline}
          [] f = 80  -> {s \in 0..Horizon : row.deadline < s /\ s < row.deadline + EarlyWidth}
          [] f = 50  -> {s \in 0..Horizon : row.deadline + EarlyWidth <= s
                                              /\ s < row.deadline + MidWidth}
          [] f = 20  -> {s \in 0..Horizon : row.deadline + MidWidth <= s /\ s < row.grace}]

MatchesTable ==
    LET row == Row
        paid == Fraction
    IN  ~WindowClosed(at, row.grace) =>
            \A f \in Fractions : (at \in Intervals(row)[f]) <=> (paid = f)

\* Handing in later never pays more.
LaterNeverPaysMore == [][Points' <= Points]_scheduleVars

\* The floor is exact: less than one point is lost, and none at full reward.
FloorIsExact ==
    LET points == Points
        paid == Fraction
    IN  /\ 100 * points <= base * paid
        /\ base * paid < 100 * (points + 1)
        /\ paid = 100 => points = base

\* Inside its window a claim pays by the table, rounded down and never more.
PaysByTheTable == MatchesTable /\ FloorIsExact

=============================================================================
