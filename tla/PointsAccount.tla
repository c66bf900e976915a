----------------------------- MODULE PointsAccount -----------------------------
(***************************************************************************)
(* What the points side promises a student, without rows, locks or          *)
(* reviews: points enter and leave an account by signed entries, a          *)
(* redemption sets points aside only when the account covers it, and what   *)
(* was set aside is given back or spent, once.  Points implements this      *)
(* specification.                                                           *)
(***************************************************************************)
EXTENDS Integers

CONSTANTS
    Students, Redemptions, Null,
    Entries,     \* the amounts an entry may have
    Prices,      \* the points a redemption may cost
    Total(_, _)  \* the sum of a function over a set

VARIABLES
    balance,  \* the points of a student
    owner,    \* the student a redemption belongs to
    hold,     \* the points a redemption sets aside
    phase     \* "new", "held", then "released" or "spent"

accountVars == <<balance, owner, hold, phase>>

SetAside(u) == Total(hold, {r \in Redemptions : owner[r] = u /\ phase[r] = "held"})

AccountInit ==
    /\ balance = [u \in Students |-> 0]
    /\ owner   = [r \in Redemptions |-> Null]
    /\ hold    = [r \in Redemptions |-> 0]
    /\ phase   = [r \in Redemptions |-> "new"]

\* A reward, a reversal or a correction: the only way below zero.
Enter(u, points) ==
    /\ points # 0
    /\ balance' = [balance EXCEPT ![u] = @ + points]
    /\ UNCHANGED <<owner, hold, phase>>

Hold(u, r, points) ==
    /\ phase[r] = "new"
    /\ points > 0 /\ points <= balance[u] - SetAside(u)
    /\ owner' = [owner EXCEPT ![r] = u]
    /\ hold'  = [hold EXCEPT ![r] = points]
    /\ phase' = [phase EXCEPT ![r] = "held"]
    /\ UNCHANGED balance

Release(r) ==
    /\ phase[r] = "held"
    /\ phase' = [phase EXCEPT ![r] = "released"]
    /\ UNCHANGED <<balance, owner, hold>>

Spend(r) ==
    /\ phase[r] = "held"
    /\ phase' = [phase EXCEPT ![r] = "spent"]
    /\ balance' = [balance EXCEPT ![owner[r]] = @ - hold[r]]
    /\ UNCHANGED <<owner, hold>>

AccountNext ==
    \/ \E u \in Students, points \in Entries : Enter(u, points)
    \/ \E u \in Students, r \in Redemptions, points \in Prices : Hold(u, r, points)
    \/ \E r \in Redemptions : Release(r) \/ Spend(r)

AccountSpec == AccountInit /\ [][AccountNext]_accountVars

=============================================================================
