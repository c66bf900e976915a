---------------------------- MODULE ClaimLifecycle ----------------------------
(***************************************************************************)
(* The claim lifecycle of CampusQuest: the task side and the submission     *)
(* side over the shared tables, and what has to hold of them together.      *)
(***************************************************************************)
EXTENDS TaskClaims, Submissions

Init ==
    /\ account = [u \in Students |-> "ACTIVE"]
    /\ taskStatus = [t \in Tasks |-> IF t \in ManagedTasks THEN "DRAFT" ELSE "PUBLISHED"]
    /\ availability = [a \in Assignments |-> "AVAILABLE"]
    /\ claimStatus = [c \in Claims |-> "UNUSED"]
    /\ terms = [c \in Claims |-> NoTerms]
    /\ revision = [c \in Claims |-> 0]
    /\ terminalAt = [c \in Claims |-> 0]
    /\ rewardLock = [c \in Claims |-> NoLock]
    /\ latest = [c \in Claims |-> Null]
    /\ intent = [i \in Uploads |-> NoIntent]
    /\ submission = [i \in Uploads |-> NoSubmission]
    /\ validation = [i \in Uploads |-> "UPLOADED"]
    /\ runAt = [i \in Uploads |-> 0]
    /\ review = [i \in Uploads |-> "PENDING_REVIEW"]
    /\ paid = [c \in Claims |-> 0]
    /\ queue = [i \in Uploads |-> 0]
    /\ run = [w \in Workers |-> Idle]
    /\ now = 1

Next == TaskNext \/ SubmissionNext

Spec == Init /\ [][Next]_vars

\* The workers keep running and the beat scan keeps scanning.  A job's steps
\* are strongly fair: an infrastructure fault may hit any attempt, not every
\* attempt forever.
WorkerFairness ==
    /\ \A i \in Uploads : WF_vars(RequeueStale(i))
    /\ \A i \in Uploads, w \in Workers :
          /\ SF_vars(ReplayVerdict(w, i))
          /\ SF_vars(StartValidation(w, i))
    /\ \A w \in Workers : /\ SF_vars(PassValidation(w) \/ FailValidation(w))
                          /\ SF_vars(LockReward(w) \/ RefuseLock(w))

FairSpec == Spec /\ WorkerFairness

-----------------------------------------------------------------------------
(* Allocation of the units.                                                *)

ClaimsOn(a) == {c \in Claims : terms[c].unit = a}

\* A unit is AVAILABLE, OCCUPIED or COMPLETED exactly as its claims say:
\* occupied while one claim on it is active, completed once one is, and free
\* otherwise.  Claim, abandon, expiry and approval maintain the two sides in
\* different services under different locks.
AvailabilityMatchesClaims ==
    \A a \in Assignments :
        /\ availability[a] = "OCCUPIED" <=> \E c \in ClaimsOn(a) : Active(c)
        /\ availability[a] = "COMPLETED" <=>
              \E c \in ClaimsOn(a) : claimStatus[c] = "COMPLETED"

\* No unit is worked on by two students, or again after it was completed: of
\* the claims on a unit at most one is not handed back.  The partial unique
\* index uq_assignment_claims_active_assignment is never what prevents it.
OneHolderPerUnit ==
    \A c, d \in Claims :
        /\ terms[c].unit # Null /\ terms[c].unit = terms[d].unit
        /\ claimStatus[c] \notin HandedBackStatuses
        /\ claimStatus[d] \notin HandedBackStatuses
        => c = d

\* A student holds at most one active claim per task, whatever the pipeline
\* has done to the status of the first one since
\* (uq_assignment_claims_active_user_task is only a backstop).
OneActiveClaimPerTask ==
    \A c, d \in Claims :
        /\ Active(c) /\ Active(d)
        /\ terms[c].user = terms[d].user
        /\ TaskOfClaim(c) = TaskOfClaim(d)
        => c = d

\* A unit never comes back to a student who handed it back, and never twice
\* to the same student at all (spec section 8.2).
NeverSameUnitTwice ==
    \A c, d \in Claims :
        terms[c].unit # Null /\ terms[c].unit = terms[d].unit
            /\ terms[c].user = terms[d].user => c = d

\* The two rows of a draw tell one story: a unit is out exactly while a live
\* claim holds it, to one student at a time, and never again to a student who
\* has had it.
UnitsAgree ==
    /\ AvailabilityMatchesClaims
    /\ OneHolderPerUnit
    /\ NeverSameUnitTwice

\* No student abandons more than the daily limit on one business day, however
\* abandons, expiries and new claims interleave across midnight.
AbandonedOn(u, day) ==
    {c \in Claims : /\ terms[c].user = u /\ claimStatus[c] = "ABANDONED"
                    /\ DayOf(terminalAt[c]) = day}

DailyAbandonLimitHolds ==
    \A u \in Students : \A day \in 0..DayOf(now) :
        Cardinality(AbandonedOn(u, day)) <= DailyAbandonLimit

\* The references between the tables: an identity without a row has none; the
\* latest pointer names a submission of its own claim; an intent belongs to a
\* claim that exists; only finalized submissions reach the broker and the
\* workers.
ClaimReferences ==
    \A c \in Claims :
        /\ claimStatus[c] = "UNUSED" =>
              /\ terms[c] = NoTerms /\ rewardLock[c] = NoLock
              /\ revision[c] = 0 /\ terminalAt[c] = 0 /\ latest[c] = Null
        /\ claimStatus[c] # "UNUSED" =>
              terms[c].unit \in Assignments /\ terms[c].user \in Students
        /\ latest[c] # Null => latest[c] \in SubmissionsOf(c)

UploadReferences ==
    \A i \in Uploads : intent[i].state # "UNUSED" =>
        intent[i].claim \in Claims /\ claimStatus[intent[i].claim] # "UNUSED"

JobReferences ==
    /\ \A i \in Uploads : queue[i] > 0 => Finalized(i)
    /\ \A w \in Workers : run[w].pc # "idle" =>
          run[w].upload \in Uploads /\ Finalized(run[w].upload)

ReferencesHold == ClaimReferences /\ UploadReferences /\ JobReferences

-----------------------------------------------------------------------------
(* The reward.                                                             *)

\* Exactly the completed claims are paid, exactly the points their confirmed
\* lock holds: no second grant by a repeated or a concurrent decision, and no
\* grant whose claim later loses its completion.
PaidIffCompleted ==
    \A c \in Claims :
        /\ paid[c] = IF claimStatus[c] = "COMPLETED" THEN rewardLock[c].points ELSE 0
        /\ rewardLock[c].status = "CONFIRMED" <=> claimStatus[c] = "COMPLETED"
        /\ claimStatus[c] = "COMPLETED" => paid[c] > 0

\* A standing lock was earned by a submission of the claim: it carries that
\* submission's instant and the points of its tier, or of the lowest tier for
\* a submission past the grace period, however late the job ran and whatever
\* was invalidated before.
EarnedBy(c, i) ==
    /\ rewardLock[c].at = submission[i].at
    /\ rewardLock[c].points = RewardPoints(BaseReward[TaskOfClaim(c)],
          IF submission[i].at >= terms[c].grace THEN FractionLate
          ELSE RewardFraction(submission[i].at, terms[c].deadline))

LockIsEarned ==
    \A c \in Claims : rewardLock[c].status \in {"PROVISIONAL", "CONFIRMED"} =>
        \E i \in SubmissionsOf(c) : EarnedBy(c, i)

\* A lock that stands is confirmed as it is or invalidated by a reviewer; no
\* later submission, replayed job or decision rewrites its points.
LockPreserved ==
    [][\A c \in Claims : rewardLock[c].status = "PROVISIONAL" =>
          \/ rewardLock'[c].status \in {"PROVISIONAL", "CONFIRMED"}
             /\ rewardLock'[c].points = rewardLock[c].points
             /\ rewardLock'[c].at = rewardLock[c].at
          \/ rewardLock'[c].status = "INVALIDATED" /\ rewardLock'[c].points = 0]_vars

-----------------------------------------------------------------------------
(* The claim and its submissions.                                          *)

RowOf(c) == <<claimStatus[c], terms[c], revision[c], terminalAt[c], rewardLock[c],
              latest[c]>>

\* A claim that ended is never touched again: no job that finishes late, no
\* replay and no review resurrects it or moves anything on it.
TerminalClaimsFrozen ==
    [][\A c \in Claims : Terminal(c) => RowOf(c)' = RowOf(c)]_vars

\* The latest-submission pointer names the newest version, also after an old
\* job finishes late, and no two submissions of a claim share a version.
LatestIsNewest ==
    \A c \in Claims : \A i \in SubmissionsOf(c) :
        /\ latest[c] \in SubmissionsOf(c)
        /\ submission[i].version >= 1
        /\ i # latest[c] => submission[i].version < submission[latest[c]].version
        /\ \A j \in SubmissionsOf(c) : submission[i].version = submission[j].version => i = j

\* The tables keep their shape together: a reference is what makes an update
\* well typed, and the numbering is what makes the next version a new one.
Shape == TypeOK /\ ReferencesHold /\ LatestIsNewest

\* A claim whose latest submission is with the validator waits for it: it is
\* not actionable, so neither expiry, nor abandon, nor a new upload can take
\* the file away from under a running job.
ValidatingIsProtected ==
    \A c \in Claims : latest[c] # Null =>
        (validation[latest[c]] = "VALIDATING" => ~Actionable(c))

\* A submission never returns to the queue of unvalidated files once it has a
\* verdict, and is finalized once.
VerdictNotRevoked ==
    [][\A i \in Uploads : validation[i] \in Verdicts =>
          validation'[i] \in Verdicts]_vars

\* What the pipeline has granted it does not take back: neither the points of
\* a lock nor the verdict of a file, by a late job, a twin or a redelivery.
NothingTakenBack == LockPreserved /\ VerdictNotRevoked

\* Every finalized submission gets a verdict: a dispatch lost after the
\* commit, a dead worker or an exhausted retry is found by the scan.
SubmissionGetsVerdict ==
    \A i \in Uploads : Finalized(i) ~> validation[i] \in Verdicts

-----------------------------------------------------------------------------
(* The lifecycle implements the board of units.                            *)

PhaseOf(status) ==
    CASE status = "UNUSED"                 -> "none"
      [] status \in ActiveStatuses         -> "held"
      [] status \in HandedBackStatuses     -> "returned"
      [] status = "COMPLETED"              -> "done"

Board == INSTANCE ClaimBoard WITH
            phase   <- [c \in Claims |-> PhaseOf(claimStatus[c])],
            holder  <- [c \in Claims |-> terms[c].user],
            unit    <- [c \in Claims |-> terms[c].unit],
            pay     <- paid,
            Amounts <- PayScale \ {0}

\* Whatever the validation pipeline, the reviewers, the clock and the faults
\* do, the units move as ClaimBoard promises: claim, abandon, expiry and
\* approval are its steps and everything else is invisible to it.
ImplementsClaimBoard == Board!BoardSpec

-----------------------------------------------------------------------------
(* What the documents and comments say and the code does not keep.  Each of *)
(* these is checked in a run of its own that finds the counterexample.      *)

\* validation_service.py: a terminal failure must hand the claim back to the
\* student.  It does only for the submission the claim still points to.
FailureHandsClaimBack ==
    \A c \in Claims :
        /\ SubmissionsOf(c) # {}
        /\ \A i \in SubmissionsOf(c) : validation[i] = "VALIDATION_FAILED"
        => claimStatus[c] # "VALIDATING"

\* requeue_stale_validating.py: a finalized row always has a scheduled path
\* back into the pipeline.  A claim that waits for its job has a delivery, a
\* worker, or a submission the scan can discover.
InPipeline(i) ==
    \/ validation[i] \notin Verdicts
    \/ queue[i] > 0
    \/ \E w \in Workers : run[w].upload = i

RowExistenceImpliesRecovery ==
    \A c \in Claims : claimStatus[c] = "VALIDATING" =>
        \E i \in SubmissionsOf(c) : InPipeline(i)

=============================================================================
