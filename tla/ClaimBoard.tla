------------------------------ MODULE ClaimBoard ------------------------------
(***************************************************************************)
(* What allocation promises, without deadlines, files, reviews or queues:   *)
(* a unit is in the hands of one student at a time, a student who gave it   *)
(* back never gets it again, and a claim that is done pays once, for good.  *)
(* ClaimLifecycle implements this specification.                            *)
(***************************************************************************)
EXTENDS Naturals

CONSTANTS Students, Assignments, Claims, Null, Amounts   \* what a claim may pay

VARIABLES
    phase,    \* "none", then "held", then "returned" or "done"
    holder,   \* the student of a claim
    unit,     \* the unit of a claim
    pay       \* the points a claim has paid

boardVars == <<phase, holder, unit, pay>>

Free(a) == \A c \in Claims : unit[c] = a => phase[c] = "returned"

HadBefore(u, a) == \E c \in Claims : unit[c] = a /\ holder[c] = u

BoardInit ==
    /\ phase  = [c \in Claims |-> "none"]
    /\ holder = [c \in Claims |-> Null]
    /\ unit   = [c \in Claims |-> Null]
    /\ pay    = [c \in Claims |-> 0]

TakeUnit(c, u, a) ==
    /\ phase[c] = "none"
    /\ Free(a) /\ ~HadBefore(u, a)
    /\ phase'  = [phase EXCEPT ![c] = "held"]
    /\ holder' = [holder EXCEPT ![c] = u]
    /\ unit'   = [unit EXCEPT ![c] = a]
    /\ UNCHANGED pay

ReturnUnit(c) ==
    /\ phase[c] = "held"
    /\ phase' = [phase EXCEPT ![c] = "returned"]
    /\ UNCHANGED <<holder, unit, pay>>

CompleteUnit(c, points) ==
    /\ phase[c] = "held"
    /\ phase' = [phase EXCEPT ![c] = "done"]
    /\ pay' = [pay EXCEPT ![c] = points]
    /\ UNCHANGED <<holder, unit>>

BoardNext ==
    \E c \in Claims :
        \/ \E u \in Students, a \in Assignments : TakeUnit(c, u, a)
        \/ ReturnUnit(c)
        \/ \E points \in Amounts : CompleteUnit(c, points)

BoardSpec == BoardInit /\ [][BoardNext]_boardVars

=============================================================================
