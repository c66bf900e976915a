------------------------------ MODULE Deadlines ------------------------------
(***************************************************************************)
(* The deadline and reward arithmetic of                                   *)
(* backend/app/modules/tasks/deadlines.py, the pure functions every claim   *)
(* and every reward lock is computed with.  Instants are integers; the      *)
(* widths of the tiers are parameters (4h and 12h in the code, over a grace *)
(* period of 24h), so that a small instance can still visit every tier.     *)
(***************************************************************************)
EXTENDS Integers

CONSTANTS
    Grace,        \* grace_period_minutes of every task (CHECK = 1440)
    EarlyWidth,   \* _EARLY_TIER_WIDTH, 4 hours
    MidWidth      \* _MID_TIER_WIDTH, 12 hours

\* The order the module relies on: 0 < 4h < 12h < 24h.
ASSUME TierAssumption ==
    /\ Grace \in Nat /\ EarlyWidth \in Nat /\ MidWidth \in Nat
    /\ 0 < EarlyWidth /\ EarlyWidth < MidWidth /\ MidWidth < Grace

Fractions == {100, 80, 50, 20}     \* the tiers, in percent

FractionLate == 20                 \* FRACTION_LATE, the lowest tier

LatestOf(x, y) == IF x >= y THEN x ELSE y

-----------------------------------------------------------------------------
\* A task's deadline policy: a FIXED instant, or a duration from the claim.
FixedPolicy(at)   == [mode |-> "FIXED", at |-> at]
RelativePolicy(d) == [mode |-> "RELATIVE", at |-> d]

ClaimDeadline(policy, claimedAt) ==
    IF policy.mode = "FIXED" THEN policy.at ELSE claimedAt + policy.at

ClaimDeadlines(policy, claimedAt) ==
    LET deadline == ClaimDeadline(policy, claimedAt)
    IN  [deadline |-> deadline, grace |-> deadline + Grace]

\* The window check that reward_fraction makes first.
WindowClosed(submittedAt, grace) == submittedAt >= grace

\* Mutants of RewardFraction: the deadline instant excluded, and two tiers
\* swapped.
FractionStrictDeadline(submittedAt, deadline) ==
    IF submittedAt < deadline                    THEN 100
    ELSE IF submittedAt < deadline + EarlyWidth  THEN 80
    ELSE IF submittedAt < deadline + MidWidth    THEN 50
    ELSE FractionLate

FractionSwappedTiers(submittedAt, deadline) ==
    IF submittedAt <= deadline                   THEN 100
    ELSE IF submittedAt < deadline + EarlyWidth  THEN 50
    ELSE IF submittedAt < deadline + MidWidth    THEN 80
    ELSE FractionLate

\* The tier of a submission made inside the window.
RewardFraction(submittedAt, deadline) ==
    IF submittedAt <= deadline                   THEN 100
    ELSE IF submittedAt < deadline + EarlyWidth  THEN 80
    ELSE IF submittedAt < deadline + MidWidth    THEN 50
    ELSE FractionLate

\* ROUND_FLOOR of base_points * fraction.
RewardPoints(base, percent) == (base * percent) \div 100

=============================================================================
