----------------------------- MODULE Submissions -----------------------------
(***************************************************************************)
(* The submission side: single-use upload intents (upload_service.py), the  *)
(* two-transaction validation job and the recovery scan                     *)
(* (validation_service.py, workers/jobs/validate_submission.py and          *)
(* requeue_stale_validating.py), the reward lock (reward_lock_service.py),  *)
(* and the reviewer's three decisions (review_service.py).                  *)
(*                                                                         *)
(* Each action is one transaction, or one step outside the database.  A     *)
(* validation job is three of them: tx1, tx2 after the sandbox has run with *)
(* no row locked, and the chained reward lock; other sessions and other     *)
(* copies of the job run in between.  The broker delivers at least once.    *)
(***************************************************************************)
EXTENDS ClaimTables

CONSTANTS
    MaxDeliveries, \* bound on the deliveries waiting for one submission
    FaultKinds     \* the faults this instance injects, see JobFaults

JobFaults == {"worker_lost", "job_failed"}

ASSUME FaultAssumption == FaultKinds \subseteq JobFaults /\ MaxDeliveries \in Nat

\* What the steps of the pipeline leave alone beside what they name.
rows == <<boardTables, claimTable, uploadTables, paid>>

-----------------------------------------------------------------------------
\* UploadPolicyService.check: submission_window_open judges a revision by its
\* own deadline and anything else by the grace deadline.
SubmissionDeadline(c) ==
    IF claimStatus[c] = "REVISION_REQUIRED" THEN revision[c] ELSE terms[c].grace

MaySubmit(c) ==
    /\ Actionable(c)
    /\ account[terms[c].user] = "ACTIVE"
    /\ now < SubmissionDeadline(c)

\* create_upload_intent for claim c.
CreateUploadIntent(c, i) ==
    /\ intent[i].state = "UNUSED"
    /\ MaySubmit(c)
    /\ intent' = [intent EXCEPT ![i] =
                    [state |-> "OPEN", claim |-> c, expires |-> now + IntentTtl]]
    /\ UNCHANGED <<boardTables, claimTable, submission, validation, runAt, review,
                   paid, queue, run, now>>

-----------------------------------------------------------------------------
\* finalize_upload, once the gates under the account, claim and intent locks
\* have passed.
Finalizable(i) ==
    /\ intent[i].state = "OPEN"
    /\ MaySubmit(intent[i].claim)
    /\ now < intent[i].expires

\* The intent's single use, by its submission or by nothing.
Consumed(i, state) ==
    [intent EXCEPT ![i] = [state |-> state, claim |-> intent[i].claim, expires |-> 0]]

\* max(version) of the claim's submissions, 0 when it has none.
NewestVersion(c) ==
    CHOOSE v \in {0} \cup {submission[i].version : i \in SubmissionsOf(c)} :
        \A i \in SubmissionsOf(c) : submission[i].version <= v

\* The enqueue after the commit either reaches the broker or is lost.
Enqueue(i) ==
    /\ queue[i] < MaxDeliveries
    /\ queue' = [queue EXCEPT ![i] = @ + 1]

FinalizeUpload(i) ==
    /\ Finalizable(i)
    /\ intent' = Consumed(i, "FINALIZED")
    /\ submission' = [submission EXCEPT ![i] =
                        [version |-> NewestVersion(intent[i].claim) + 1, at |-> now]]
    /\ latest' = [latest EXCEPT ![intent[i].claim] = i]
    /\ Enqueue(i) \/ UNCHANGED queue
    /\ UNCHANGED <<boardTables, claimStatus, terms, revision, terminalAt, rewardLock,
                   validation, runAt, review, paid, run, now>>

\* The stored object's size or type is not what was declared: the intent is
\* consumed without a submission (_burn_intent).
BurnIntent(i) ==
    /\ Finalizable(i)
    /\ intent' = Consumed(i, "BURNED")
    /\ UNCHANGED <<boardTables, claimTable, submission, validation, runAt, review,
                   paid, queue, run, now>>

\* finalize_upload of an intent that is finalized already: the submission is
\* returned, and dispatched again while its validation has not started.
ReplayFinalize(i) ==
    /\ Finalized(i)
    /\ account[terms[intent[i].claim].user] = "ACTIVE"
    /\ validation[i] = "UPLOADED"
    /\ Enqueue(i)
    /\ UNCHANGED <<rows, run, now>>

-----------------------------------------------------------------------------
\* requeue_stale_validating, for one row it discovers.
StaleValidating(i) ==
    /\ validation[i] = "VALIDATING"
    /\ runAt[i] <= now - RequeueAfter

StaleUploaded(i) ==
    /\ validation[i] = "UPLOADED"
    /\ submission[i].at <= now - DispatchGrace

\* Mutant of RequeueStale: the scan forgets lost dispatches.
RequeueStaleValidating(i) ==
    /\ Finalized(i)
    /\ StaleValidating(i)
    /\ Enqueue(i)
    /\ UNCHANGED <<rows, run, now>>

RequeueStale(i) ==
    /\ Finalized(i)
    /\ StaleValidating(i) \/ StaleUploaded(i)
    /\ Enqueue(i)
    /\ UNCHANGED <<rows, run, now>>

-----------------------------------------------------------------------------
\* A worker takes a delivery: tx1 of validate_submission.  A terminal
\* submission is replayed from its stored report, and a VALIDATED one goes on
\* to the chained reward lock again.
Take(w, i) ==
    /\ run[w].pc = "idle"
    /\ queue[i] > 0
    /\ queue' = [queue EXCEPT ![i] = @ - 1]

ReplayVerdict(w, i) ==
    /\ Take(w, i)
    /\ validation[i] \in Verdicts
    /\ run' = IF validation[i] = "VALIDATED"
              THEN [run EXCEPT ![w] = [pc |-> "locking", upload |-> i]]
              ELSE run
    /\ UNCHANGED <<rows, now>>

StartValidation(w, i) ==
    /\ Take(w, i)
    /\ validation[i] \notin Verdicts
    /\ validation' = [validation EXCEPT ![i] = "VALIDATING"]
    /\ runAt' = [runAt EXCEPT ![i] = now]
    /\ claimStatus' = IF Actionable(intent[i].claim)
                      THEN [claimStatus EXCEPT ![intent[i].claim] = "VALIDATING"]
                      ELSE claimStatus
    /\ run' = [run EXCEPT ![w] = [pc |-> "parsing", upload |-> i]]
    /\ UNCHANGED <<boardTables, terms, revision, terminalAt, rewardLock, latest,
                   intent, submission, review, paid, now>>

\* The job's last step.  A worker that dies after its last commit and before
\* the acknowledgement leaves the delivery to another worker (acks_late).
Finish(w) ==
    /\ run' = [run EXCEPT ![w] = Idle]
    /\ \/ UNCHANGED queue
       \/ "worker_lost" \in FaultKinds /\ Enqueue(run[w].upload)

\* tx2: the last writer wins, there is no second look at the status.  Which
\* verdict the sandbox reaches is open: a timeout or a memory kill fails a
\* file that another run passes.
Verdict(i, outcome) ==
    /\ validation' = [validation EXCEPT ![i] = outcome]
    /\ runAt' = [runAt EXCEPT ![i] = 0]
    /\ UNCHANGED <<boardTables, terms, revision, terminalAt, rewardLock, latest,
                   intent, submission, review, paid, now>>

PassValidation(w) ==
    /\ run[w].pc = "parsing"
    /\ Verdict(run[w].upload, "VALIDATED")
    /\ run' = [run EXCEPT ![w] = [pc |-> "locking", upload |-> run[w].upload]]
    /\ UNCHANGED <<claimStatus, queue>>

\* _restore_actionable_claim: back to the student, unless the claim has
\* moved on to another submission or another status.
RestoredStatus(c) == IF revision[c] # 0 THEN "REVISION_REQUIRED" ELSE "CLAIMED"

\* Mutant of RestoreActionableClaim: any failed submission hands back.
RestoreAnyClaim(i) ==
    LET c == intent[i].claim
    IN  claimStatus' = IF claimStatus[c] = "VALIDATING"
                       THEN [claimStatus EXCEPT ![c] = RestoredStatus(c)]
                       ELSE claimStatus

RestoreActionableClaim(i) ==
    LET c == intent[i].claim
    IN  claimStatus' = IF latest[c] = i /\ claimStatus[c] = "VALIDATING"
                       THEN [claimStatus EXCEPT ![c] = RestoredStatus(c)]
                       ELSE claimStatus

FailValidation(w) ==
    /\ run[w].pc = "parsing"
    /\ Verdict(run[w].upload, "VALIDATION_FAILED")
    /\ RestoreActionableClaim(run[w].upload)
    /\ Finish(w)

-----------------------------------------------------------------------------
\* Mutant of LockOpen: every pass locks again.
LockNotConfirmed(c) == rewardLock[c].status # "CONFIRMED"

\* on_validation_passed, the transaction the job chains after a pass.  A lock
\* is established when there is none or the last one was invalidated; only
\* the re-lock may clamp a submission made after the grace period.
LockOpen(c) == rewardLock[c].status \in {"NONE", "INVALIDATED"}

OutsideWindow(i) == WindowClosed(submission[i].at, terms[intent[i].claim].grace)

\* Mutant of LockFraction: the tier of the instant the worker runs.
FractionNow(i) ==
    IF OutsideWindow(i) THEN FractionLate
    ELSE RewardFraction(now, terms[intent[i].claim].deadline)

LockFraction(i) ==
    IF OutsideWindow(i) THEN FractionLate
    ELSE RewardFraction(submission[i].at, terms[intent[i].claim].deadline)

EarnedLock(i) ==
    [status |-> "PROVISIONAL",
     points |-> RewardPoints(BaseReward[TaskOfClaim(intent[i].claim)], LockFraction(i)),
     at     |-> submission[i].at]

\* Mutant of BumpedLatest: the last job to pass takes the pointer.
LastPassed(i) == i

\* _bump_latest: the pointer never moves back to an older version.
BumpedLatest(i) ==
    LET newest == latest[intent[i].claim]
    IN  IF newest # Null /\ submission[newest].version >= submission[i].version
        THEN newest ELSE i

\* Mutant of LockRefused: a claim that ended is locked too.
LockRefusedIfLive(i) ==
    \/ validation[i] # "VALIDATED"
    \/ rewardLock[intent[i].claim].status = "NONE" /\ OutsideWindow(i)

\* The calls that write nothing: a terminal claim, and the two errors.
LockRefused(i) ==
    \/ Terminal(intent[i].claim)
    \/ validation[i] # "VALIDATED"
    \/ rewardLock[intent[i].claim].status = "NONE" /\ OutsideWindow(i)

LockReward(w) ==
    LET i == run[w].upload
        c == intent[i].claim
    IN  /\ run[w].pc = "locking"
        /\ ~LockRefused(i)
        /\ claimStatus' = [claimStatus EXCEPT ![c] = "UNDER_REVIEW"]
        /\ latest' = [latest EXCEPT ![c] = BumpedLatest(i)]
        /\ rewardLock' = IF LockOpen(c) THEN [rewardLock EXCEPT ![c] = EarnedLock(i)]
                         ELSE rewardLock
        /\ Finish(w)
        /\ UNCHANGED <<boardTables, terms, revision, terminalAt, uploadTables, paid, now>>

RefuseLock(w) ==
    /\ run[w].pc = "locking"
    /\ LockRefused(run[w].upload)
    /\ Finish(w)
    /\ UNCHANGED <<rows, now>>

-----------------------------------------------------------------------------
\* Faults of a running job.  Its worker dies and the broker redelivers; or a
\* transaction fails for good (a database error is not retried, a cleanup
\* conflict or a storage error only five times) and the delivery is gone.
WorkerLost(w) ==
    /\ "worker_lost" \in FaultKinds
    /\ run[w].pc # "idle"
    /\ Enqueue(run[w].upload)
    /\ run' = [run EXCEPT ![w] = Idle]
    /\ UNCHANGED <<rows, now>>

JobFailed(w) ==
    /\ "job_failed" \in FaultKinds
    /\ run[w].pc # "idle"
    /\ run' = [run EXCEPT ![w] = Idle]
    /\ UNCHANGED <<rows, queue, now>>

\* tx1 itself fails until the retries are exhausted.
DeliveryFailed(w, i) ==
    /\ "job_failed" \in FaultKinds
    /\ Take(w, i)
    /\ UNCHANGED <<rows, run, now>>

-----------------------------------------------------------------------------
\* Mutant of Reviewable: a claim that ended is reviewed too.
ReviewableAnytime(i) ==
    /\ Finalized(i)
    /\ validation[i] = "VALIDATED"
    /\ latest[intent[i].claim] = i

\* The reviewer.  _locked_reviewable takes the claim row, then demands a live
\* claim and its latest, validated submission; it does not look at the
\* claim's status beyond that.
Reviewable(i) ==
    /\ Finalized(i)
    /\ ~Terminal(intent[i].claim)
    /\ validation[i] = "VALIDATED"
    /\ latest[intent[i].claim] = i

\* _revision_deadline: never shortened.
NewRevisionDeadline(c) ==
    LatestOf(IF revision[c] # 0 THEN revision[c] ELSE terms[c].grace,
             now + RevisionWindow)

SendBack(i) ==
    LET c == intent[i].claim
    IN  /\ claimStatus' = [claimStatus EXCEPT ![c] = "REVISION_REQUIRED"]
        /\ revision' = [revision EXCEPT ![c] = NewRevisionDeadline(c)]
        /\ review' = [review EXCEPT ![i] = "REVISION_REQUIRED"]
        /\ UNCHANGED <<boardTables, terms, terminalAt, latest, intent, submission,
                       validation, runAt, paid, queue, run, now>>

RequireRevision(i) ==
    /\ Reviewable(i)
    /\ SendBack(i)
    /\ UNCHANGED rewardLock

InvalidateRewardLock(i) ==
    LET c == intent[i].claim
    IN  /\ Reviewable(i)
        /\ rewardLock[c].status = "PROVISIONAL"
        /\ rewardLock' = [rewardLock EXCEPT ![c] =
                            [status |-> "INVALIDATED", points |-> 0, at |-> 0]]
        /\ SendBack(i)

\* approve_submission: completion, lock confirmation, the unit's completion
\* and the grant commit together.  grant_assignment_reward refuses an amount
\* of 0, which rolls all of it back; a replayed approval writes nothing.
ApproveSubmission(i) ==
    LET c == intent[i].claim
        a == terms[c].unit
        points == rewardLock[c].points
    IN  /\ Reviewable(i)
        /\ rewardLock[c].status = "PROVISIONAL"
        /\ points > 0
        /\ review' = [review EXCEPT ![i] = "APPROVED"]
        /\ claimStatus' = [claimStatus EXCEPT ![c] = "COMPLETED"]
        /\ terminalAt' = [terminalAt EXCEPT ![c] = now]
        /\ rewardLock' = [rewardLock EXCEPT ![c] =
              [status |-> "CONFIRMED", points |-> points, at |-> rewardLock[c].at]]
        /\ availability' = IF availability[a] = "OCCUPIED"
                           THEN [availability EXCEPT ![a] = "COMPLETED"]
                           ELSE availability
        /\ paid' = [paid EXCEPT ![c] = points]
        /\ UNCHANGED <<account, taskStatus, terms, revision, latest, intent, submission,
                       validation, runAt, queue, run, now>>

-----------------------------------------------------------------------------
SubmissionNext ==
    \/ \E c \in Claims, i \in Uploads : CreateUploadIntent(c, i)
    \/ \E i \in Uploads : \/ FinalizeUpload(i) \/ BurnIntent(i) \/ ReplayFinalize(i)
                          \/ RequeueStale(i)
                          \/ RequireRevision(i) \/ InvalidateRewardLock(i)
                          \/ ApproveSubmission(i)
    \/ \E w \in Workers, i \in Uploads :
          ReplayVerdict(w, i) \/ StartValidation(w, i) \/ DeliveryFailed(w, i)
    \/ \E w \in Workers : \/ PassValidation(w) \/ FailValidation(w)
                          \/ LockReward(w) \/ RefuseLock(w)
                          \/ WorkerLost(w) \/ JobFailed(w)

=============================================================================
