------------------------------ MODULE TaskClaims ------------------------------
(***************************************************************************)
(* The task side: the task state machine (tasks/service.py), the random     *)
(* allocation of a unit (tasks/claim_service.py), abandon                   *)
(* (tasks/abandon_service.py), expiry (the same claim_service under         *)
(* workers/jobs/expire_claims.py), and the account status these services    *)
(* read under the user's row lock (identity/account_admin_service.py).      *)
(*                                                                         *)
(* Each action is one database transaction.  That is the granularity the    *)
(* code establishes: a claim or an abandon first locks the user row, expiry *)
(* locks the claim row, and everything the guards read is read, and the     *)
(* clock sampled, after those locks are granted.                            *)
(***************************************************************************)
EXTENDS ClaimTables

CONSTANTS
    ManagedTasks,  \* tasks whose owner acts in this instance
    Suspendable,   \* accounts an administrator acts on in this instance
    MaxNow         \* bound on the clock

\* What no action of this side writes.
pipeline == <<uploadTables, queue, run>>

-----------------------------------------------------------------------------
\* The task state machine: ALLOWED_TASK_TRANSITIONS, and the publish gate
\* that every entry into PUBLISHED passes, a resume included.
AllowedTransitions ==
    [DRAFT     |-> {"PUBLISHED"},
     PUBLISHED |-> {"PAUSED", "CLOSED"},
     PAUSED    |-> {"PUBLISHED", "CLOSED"},
     CLOSED    |-> {"ARCHIVED"},
     ARCHIVED  |-> {}]

UnitsOf(t) == {a \in Assignments : TaskOf[a] = t}

Publishable(t) ==
    /\ Policy[t].mode = "FIXED" => /\ Policy[t].at > now
                                   /\ Policy[t].at >= now + Cutoff[t]
    /\ taskStatus[t] = "DRAFT" => UnitsOf(t) # {}

TransitionTask(t, target) ==
    /\ t \in ManagedTasks
    /\ target \in AllowedTransitions[taskStatus[t]]
    /\ target = "PUBLISHED" => Publishable(t)
    /\ taskStatus' = [taskStatus EXCEPT ![t] = target]
    /\ UNCHANGED <<account, availability, claimTable, paid, pipeline, now>>

-----------------------------------------------------------------------------
\* Suspending or banning an account, and reactivating it.
SuspendAccount(u) ==
    /\ u \in Suspendable
    /\ account[u] = "ACTIVE"
    /\ account' = [account EXCEPT ![u] = "SUSPENDED"]
    /\ UNCHANGED <<taskStatus, availability, claimTable, paid, pipeline, now>>

ReactivateAccount(u) ==
    /\ account[u] = "SUSPENDED"
    /\ account' = [account EXCEPT ![u] = "ACTIVE"]
    /\ UNCHANGED <<taskStatus, availability, claimTable, paid, pipeline, now>>

-----------------------------------------------------------------------------
\* ClaimEligibilityService.check, in the parts of the code.
WithinCutoff(t) == Policy[t].mode = "FIXED" => Policy[t].at >= now + Cutoff[t]

QuotaUsed(u) == Cardinality({c \in ActiveClaims(u) : Actionable(c)})

\* Mutant of HasActiveClaimOn: looks at the quota's statuses only.
HasActionableClaimOn(u, t) ==
    \E c \in ActiveClaims(u) : Actionable(c) /\ TaskOfClaim(c) = t

HasActiveClaimOn(u, t) == \E c \in ActiveClaims(u) : TaskOfClaim(c) = t

Eligible(u, t) ==
    /\ account[u] = "ACTIVE"
    /\ taskStatus[t] = "PUBLISHED"
    /\ WithinCutoff(t)
    /\ QuotaUsed(u) < MaxActiveClaims
    /\ ~HasActiveClaimOn(u, t)

\* Mutant of HandedBackBy: expiry does not count as handing back.
AbandonedBy(u) ==
    {terms[c].unit : c \in {d \in Claims :
        terms[d].user = u /\ claimStatus[d] = "ABANDONED"}}

\* The units the random draw may return: ORDER BY random() LIMIT 1 is any of
\* them, and SKIP LOCKED only makes the draw smaller.
HandedBackBy(u) ==
    {terms[c].unit : c \in {d \in Claims :
        terms[d].user = u /\ claimStatus[d] \in HandedBackStatuses}}

\* Mutant of Candidates: the units handed back are not excluded.
AvailableUnits(u, t) == {a \in UnitsOf(t) : availability[a] = "AVAILABLE"}

Candidates(u, t) ==
    {a \in UnitsOf(t) : availability[a] = "AVAILABLE"} \ HandedBackBy(u)

NewTerms(u, a) ==
    LET deadlines == ClaimDeadlines(Policy[TaskOf[a]], now)
    IN  [user |-> u, unit |-> a,
         deadline |-> deadlines.deadline, grace |-> deadlines.grace]

\* claim_random_assignment by student u on task t draws unit a.  The other
\* columns of the new row hold their defaults.
ClaimRandomAssignment(u, t, a, c) ==
    /\ claimStatus[c] = "UNUSED"
    /\ Eligible(u, t)
    /\ a \in Candidates(u, t)
    /\ availability' = [availability EXCEPT ![a] = "OCCUPIED"]
    /\ claimStatus' = [claimStatus EXCEPT ![c] = "CLAIMED"]
    /\ terms' = [terms EXCEPT ![c] = NewTerms(u, a)]
    /\ UNCHANGED <<account, taskStatus, revision, terminalAt, rewardLock, latest,
                   paid, pipeline, now>>

-----------------------------------------------------------------------------
\* Handing a unit back: abandon and expiry share this end of the claim.
Released(a) ==
    IF availability[a] = "OCCUPIED" THEN [availability EXCEPT ![a] = "AVAILABLE"]
                                    ELSE availability

HandBack(c, status) ==
    /\ availability' = Released(terms[c].unit)
    /\ claimStatus' = [claimStatus EXCEPT ![c] = status]
    /\ terminalAt' = [terminalAt EXCEPT ![c] = now]
    /\ UNCHANGED <<account, taskStatus, terms, revision, rewardLock, latest,
                   paid, pipeline, now>>

\* business_day_window, as the index of the business day.
DayOf(t) == t \div DayLength

AbandonedToday(u) ==
    {c \in Claims : /\ terms[c].user = u
                    /\ claimStatus[c] = "ABANDONED"
                    /\ DayOf(terminalAt[c]) = DayOf(now)}

\* Mutant of AbandonClaim: one abandon too many.
AbandonOneMore(u, c) ==
    /\ terms[c].user = u
    /\ account[u] = "ACTIVE"
    /\ Actionable(c)
    /\ Cardinality(AbandonedToday(u)) <= DailyAbandonLimit
    /\ HandBack(c, "ABANDONED")

\* abandon_claim by the claim's owner; replaying an ABANDONED claim is a
\* stuttering step.
AbandonClaim(u, c) ==
    /\ terms[c].user = u
    /\ account[u] = "ACTIVE"
    /\ Actionable(c)
    /\ Cardinality(AbandonedToday(u)) < DailyAbandonLimit
    /\ HandBack(c, "ABANDONED")

\* ValidatedSubmissionInspector.has_valid_submission.
HasValidSubmission(c) ==
    /\ latest[c] # Null
    /\ validation[latest[c]] = "VALIDATED"
    /\ review[latest[c]] = "PENDING_REVIEW"
    /\ submission[latest[c]].at < EffectiveExpiryDeadline(c)

\* expire_claim_if_due, run for a claim the scan discovered.
ExpireClaimIfDue(c) ==
    /\ Actionable(c)
    /\ now >= EffectiveExpiryDeadline(c)
    /\ ~HasValidSubmission(c)
    /\ HandBack(c, "EXPIRED")

\* Time passes.
Tick ==
    /\ now < MaxNow
    /\ now' = now + 1
    /\ UNCHANGED <<boardTables, claimTable, paid, pipeline>>

-----------------------------------------------------------------------------
TaskNext ==
    \/ \E t \in Tasks, target \in TaskStatuses : TransitionTask(t, target)
    \/ \E u \in Students : SuspendAccount(u) \/ ReactivateAccount(u)
    \/ \E u \in Students, t \in Tasks, a \in Assignments, c \in Claims :
          ClaimRandomAssignment(u, t, a, c)
    \/ \E u \in Students, c \in Claims : AbandonClaim(u, c)
    \/ \E c \in Claims : ExpireClaimIfDue(c)
    \/ Tick

=============================================================================
