------------------------- MODULE ClaimLifecycleProofs -------------------------
(***************************************************************************)
(* The claim lifecycle keeps its promises for every set of students, units, *)
(* claims, uploads and workers, every deadline policy and every combination *)
(* of faults.  First the shape of the tables: types, references between the *)
(* rows and the version numbering, which go together, for a reference makes *)
(* an update type correct and the numbering makes max(version) + 1 new.     *)
(* Then the safety of allocation and of payment, the end of a claim and the *)
(* refinement of ClaimBoard; last, what the lifecycle promises beyond that: *)
(* one active claim per student and task, the daily limit of abandons, the  *)
(* protection of a file being validated, and where a reward lock is from.   *)
(***************************************************************************)
EXTENDS ClaimLifecycle, FiniteSetTheorems, TLAPS

-----------------------------------------------------------------------------
(* Values the operators return.                                            *)

LEMMA TierPoints ==
    ASSUME NEW t \in Tasks, NEW f \in Fractions
    PROVE  RewardPoints(BaseReward[t], f) \in PayScale
BY DEF PayScale

LEMMA NewTermsType ==
    ASSUME now \in Nat, NEW u \in Students, NEW a \in Assignments
    PROVE  /\ NewTerms(u, a) \in Terms
           /\ NewTerms(u, a).user = u
           /\ NewTerms(u, a).unit = a
<1>1. TaskOf[a] \in Tasks BY TablesAssumption
<1>2. Policy[TaskOf[a]].at \in Int
  BY <1>1, TablesAssumption
<1>3. LET d == ClaimDeadlines(Policy[TaskOf[a]], now)
      IN  d.deadline \in Int /\ d.grace \in Int
  BY <1>2, TierAssumption DEF ClaimDeadlines, ClaimDeadline
<1> QED BY <1>3 DEF NewTerms, Terms

\* max(version) is a number, and no submission of the claim is above it.
LEMMA NewestVersionType ==
    ASSUME Shape, NEW c \in Claims
    PROVE  /\ NewestVersion(c) \in Nat
           /\ \A i \in SubmissionsOf(c) : submission[i].version <= NewestVersion(c)
<1> DEFINE P(v) == \A i \in SubmissionsOf(c) : submission[i].version <= v
           V    == {0} \cup {submission[i].version : i \in SubmissionsOf(c)}
<1>1. \A i \in SubmissionsOf(c) : submission[i].version \in Nat
  BY DEF Shape, TypeOK, Submission, SubmissionsOf, LatestIsNewest
<1>2. \E v \in V : P(v)
  <2>1. CASE SubmissionsOf(c) = {} BY <2>1
  <2>2. CASE SubmissionsOf(c) # {}
    <3>1. latest[c] \in SubmissionsOf(c)
      BY <2>2 DEF Shape, LatestIsNewest
    <3>2. \A i \in SubmissionsOf(c) : submission[i].version <= submission[latest[c]].version
      BY <1>1, <3>1 DEF Shape, LatestIsNewest
    <3> QED BY <3>1, <3>2
  <2> QED BY <2>1, <2>2
<1>3. NewestVersion(c) = CHOOSE v \in V : P(v) BY DEF NewestVersion
<1>4. NewestVersion(c) \in V /\ P(NewestVersion(c))
  <2> HIDE DEF P, V
  <2> QED BY <1>2, <1>3
<1> QED BY <1>1, <1>4

LEMMA EarnedLockType ==
    ASSUME Shape, NEW i \in Uploads, Finalized(i)
    PROVE  EarnedLock(i) \in RewardLock
<1>1. /\ intent[i].claim \in Claims
      /\ terms[intent[i].claim].unit \in Assignments
  BY DEF Shape, TypeOK, ReferencesHold, ClaimReferences, UploadReferences, JobReferences, Finalized
<1>2. TaskOfClaim(intent[i].claim) \in Tasks
  BY <1>1, TablesAssumption DEF TaskOfClaim
<1>3. LockFraction(i) \in Fractions
  BY DEF LockFraction, RewardFraction, Fractions, FractionLate
<1>4. RewardPoints(BaseReward[TaskOfClaim(intent[i].claim)], LockFraction(i)) \in PayScale
  BY <1>2, <1>3, TierPoints
<1>5. submission[i].at \in Int
  BY DEF Shape, TypeOK, Submission
<1> QED BY <1>4, <1>5 DEF EarnedLock, RewardLock, LockStatuses

\* _bump_latest never has to move the pointer: finalize_upload set it.
LEMMA BumpKeepsLatest ==
    ASSUME Shape, NEW i \in Uploads, Finalized(i)
    PROVE  BumpedLatest(i) = latest[intent[i].claim]
<1>1. intent[i].claim \in Claims /\ i \in SubmissionsOf(intent[i].claim)
  BY DEF Shape, ReferencesHold, ClaimReferences, UploadReferences, JobReferences, Finalized, SubmissionsOf
<1>2. latest[intent[i].claim] \in SubmissionsOf(intent[i].claim)
  BY <1>1 DEF Shape, LatestIsNewest
<1>3. latest[intent[i].claim] # Null
  BY <1>2, TablesAssumption DEF SubmissionsOf
<1>4. \A j \in Uploads : submission[j].version \in Int
  BY DEF Shape, TypeOK, Submission
<1>5. i # latest[intent[i].claim] =>
          submission[i].version < submission[latest[intent[i].claim]].version
  BY <1>1 DEF Shape, LatestIsNewest
<1> QED BY <1>1, <1>2, <1>3, <1>4, <1>5 DEF BumpedLatest, SubmissionsOf

-----------------------------------------------------------------------------
(* The types are preserved.                                                *)

LEMMA BoardStepTypes ==
    ASSUME Shape, TaskNext
    PROVE  TypeOK'
<1> USE DEF Shape, boardTables, claimTable, uploadTables, pipeline
<1>1. ASSUME NEW t \in Tasks, NEW target \in TaskStatuses, TransitionTask(t, target)
      PROVE  TypeOK'
  BY <1>1 DEF TypeOK, TransitionTask
<1>2. ASSUME NEW u \in Students, SuspendAccount(u) \/ ReactivateAccount(u)
      PROVE  TypeOK'
  BY <1>2 DEF TypeOK, SuspendAccount, ReactivateAccount
<1>3. ASSUME NEW u \in Students, NEW t \in Tasks, NEW a \in Assignments,
             NEW c \in Claims, ClaimRandomAssignment(u, t, a, c)
      PROVE  TypeOK'
  <2>1. NewTerms(u, a) \in Terms BY NewTermsType DEF TypeOK
  <2> QED
    BY <1>3, <2>1 DEF TypeOK, ClaimRandomAssignment, Availabilities,
       ClaimStatuses, ActiveStatuses, ActionableStatuses
<1>4. ASSUME NEW c \in Claims, NEW s \in HandedBackStatuses, HandBack(c, s)
      PROVE  TypeOK'
  <2>1. availability' \in [Assignments -> Availabilities]
    BY <1>4 DEF TypeOK, HandBack, Released, Availabilities
  <2>2. claimStatus' \in [Claims -> ClaimStatuses \cup {"UNUSED"}]
    BY <1>4 DEF TypeOK, HandBack, ClaimStatuses, TerminalStatuses
  <2>3. terminalAt' \in [Claims -> Int]
    BY <1>4 DEF TypeOK, HandBack
  <2> QED BY <1>4, <2>1, <2>2, <2>3 DEF TypeOK, HandBack
<1>5. ASSUME Tick PROVE TypeOK'
  BY <1>5 DEF TypeOK, Tick
<1> QED
  BY <1>1, <1>2, <1>3, <1>4, <1>5 DEF TaskNext, AbandonClaim, ExpireClaimIfDue,
     HandedBackStatuses

\* The claim a finalized submission belongs to is a row with a unit.
LEMMA ClaimOfSubmission ==
    ASSUME Shape, NEW i \in Uploads, intent[i].state # "UNUSED"
    PROVE  /\ intent[i].claim \in Claims
           /\ claimStatus[intent[i].claim] # "UNUSED"
           /\ terms[intent[i].claim].unit \in Assignments
           /\ terms[intent[i].claim].user \in Students
BY DEF Shape, ReferencesHold, ClaimReferences, UploadReferences, JobReferences

\* A worker that runs a job runs it for a finalized submission.
LEMMA RunningUpload ==
    ASSUME Shape, NEW w \in Workers, run[w].pc # "idle"
    PROVE  run[w].upload \in Uploads /\ Finalized(run[w].upload)
BY DEF Shape, ReferencesHold, ClaimReferences, UploadReferences, JobReferences

LEMMA FinishTypes ==
    ASSUME TypeOK, NEW w \in Workers, run[w].upload \in Uploads, Finish(w)
    PROVE  /\ run' \in [Workers -> WorkerStates]
           /\ queue' \in [Uploads -> Nat]
<1>1. Idle \in WorkerStates BY DEF Idle, WorkerStates
<1>2. run' \in [Workers -> WorkerStates]
  BY <1>1 DEF TypeOK, Finish
<1>3. queue' \in [Uploads -> Nat]
  BY DEF TypeOK, Finish, Enqueue
<1> QED BY <1>2, <1>3

LEMMA PipelineStepTypes ==
    ASSUME Shape, SubmissionNext
    PROVE  TypeOK'
<1> USE DEF boardTables, claimTable, uploadTables, rows
<1>0. TypeOK BY DEF Shape
<1>1. ASSUME NEW c \in Claims, NEW i \in Uploads, CreateUploadIntent(c, i)
      PROVE  TypeOK'
  BY <1>0, <1>1, TablesAssumption DEF TypeOK, CreateUploadIntent, Intent
<1>2. ASSUME NEW i \in Uploads, FinalizeUpload(i)
      PROVE  TypeOK'
  <2>1. intent[i].claim \in Claims
    BY <1>2, ClaimOfSubmission DEF FinalizeUpload, Finalizable
  <2>2. NewestVersion(intent[i].claim) + 1 \in Int BY <2>1, NewestVersionType
  <2>3. intent' \in [Uploads -> Intent]
    BY <1>0, <1>2, <2>1 DEF TypeOK, FinalizeUpload, Consumed, Intent
  <2>4. submission' \in [Uploads -> Submission]
    BY <1>0, <1>2, <2>2 DEF TypeOK, FinalizeUpload, Submission
  <2>5. queue' \in [Uploads -> Nat]
    BY <1>0, <1>2 DEF TypeOK, FinalizeUpload, Enqueue
  <2>6. latest' \in [Claims -> Uploads \cup {Null}]
    BY <1>0, <1>2 DEF TypeOK, FinalizeUpload
  <2> QED BY <1>0, <1>2, <2>3, <2>4, <2>5, <2>6 DEF TypeOK, FinalizeUpload
<1>3. ASSUME NEW i \in Uploads, BurnIntent(i) PROVE TypeOK'
  <2>1. intent[i].claim \in Claims
    BY <1>3, ClaimOfSubmission DEF BurnIntent, Finalizable
  <2> QED BY <1>0, <1>3, <2>1 DEF TypeOK, BurnIntent, Consumed, Intent
<1>4. ASSUME NEW i \in Uploads, ReplayFinalize(i) \/ RequeueStale(i) PROVE TypeOK'
  BY <1>0, <1>4 DEF TypeOK, ReplayFinalize, RequeueStale, Enqueue
<1>5. ASSUME NEW w \in Workers, NEW i \in Uploads, ReplayVerdict(w, i) PROVE TypeOK'
  BY <1>0, <1>5 DEF TypeOK, ReplayVerdict, Take, WorkerStates
<1>6. ASSUME NEW w \in Workers, NEW i \in Uploads, StartValidation(w, i) PROVE TypeOK'
  <2>1. run' \in [Workers -> WorkerStates] /\ queue' \in [Uploads -> Nat]
    BY <1>0, <1>6 DEF TypeOK, StartValidation, Take, WorkerStates
  <2>2. claimStatus' \in [Claims -> ClaimStatuses \cup {"UNUSED"}]
    BY <1>0, <1>6 DEF TypeOK, StartValidation, ClaimStatuses, ActiveStatuses
  <2>3. /\ validation' \in [Uploads -> ValidationStatuses]
        /\ runAt' \in [Uploads -> Int]
    BY <1>0, <1>6 DEF TypeOK, StartValidation, ValidationStatuses
  <2> QED BY <1>0, <1>6, <2>1, <2>2, <2>3 DEF TypeOK, StartValidation
<1>7. ASSUME NEW w \in Workers, NEW i \in Uploads, DeliveryFailed(w, i) PROVE TypeOK'
  BY <1>0, <1>7 DEF TypeOK, DeliveryFailed, Take
<1>8. ASSUME NEW w \in Workers, PassValidation(w) PROVE TypeOK'
  <2>1. run[w].upload \in Uploads BY <1>8, RunningUpload DEF PassValidation
  <2>2. run' \in [Workers -> WorkerStates]
    BY <1>0, <1>8, <2>1 DEF TypeOK, PassValidation, WorkerStates
  <2>3. validation' \in [Uploads -> ValidationStatuses]
    BY <1>0, <1>8 DEF TypeOK, PassValidation, Verdict, ValidationStatuses, Verdicts
  <2> QED BY <1>0, <1>8, <2>2, <2>3 DEF TypeOK, PassValidation, Verdict
<1>9. ASSUME NEW w \in Workers, FailValidation(w) PROVE TypeOK'
  <2>1. run[w].upload \in Uploads BY <1>9, RunningUpload DEF FailValidation
  <2>2. run' \in [Workers -> WorkerStates] /\ queue' \in [Uploads -> Nat]
    BY <1>0, <1>9, <2>1, FinishTypes DEF FailValidation
  <2>3. validation' \in [Uploads -> ValidationStatuses]
    BY <1>0, <1>9 DEF TypeOK, FailValidation, Verdict, ValidationStatuses, Verdicts
  <2>4. claimStatus' \in [Claims -> ClaimStatuses \cup {"UNUSED"}]
    BY <1>0, <1>9 DEF TypeOK, FailValidation, RestoreActionableClaim, RestoredStatus,
       ClaimStatuses, ActiveStatuses, ActionableStatuses
  <2> QED BY <1>0, <1>9, <2>2, <2>3, <2>4 DEF TypeOK, FailValidation, Verdict
<1>10. ASSUME NEW w \in Workers, LockReward(w) PROVE TypeOK'
  <2> DEFINE i == run[w].upload
  <2>1. i \in Uploads /\ Finalized(i) BY <1>10, RunningUpload DEF LockReward
  <2>2. run' \in [Workers -> WorkerStates] /\ queue' \in [Uploads -> Nat]
    BY <1>0, <1>10, <2>1, FinishTypes DEF LockReward
  <2>3. EarnedLock(i) \in RewardLock BY <2>1, EarnedLockType
  <2>4. rewardLock' \in [Claims -> RewardLock]
    <3> HIDE DEF i
    <3> QED BY <1>0, <1>10, <2>3 DEF TypeOK, LockReward, i
  <2>5. latest' \in [Claims -> Uploads \cup {Null}]
    BY <1>0, <1>10, <2>1, BumpKeepsLatest DEF TypeOK, LockReward
  <2>6. claimStatus' \in [Claims -> ClaimStatuses \cup {"UNUSED"}]
    BY <1>0, <1>10 DEF TypeOK, LockReward, ClaimStatuses, ActiveStatuses
  <2> QED BY <1>0, <1>10, <2>2, <2>4, <2>5, <2>6 DEF TypeOK, LockReward
<1>11. ASSUME NEW w \in Workers, RefuseLock(w) PROVE TypeOK'
  <2>1. run[w].upload \in Uploads BY <1>11, RunningUpload DEF RefuseLock
  <2>2. run' \in [Workers -> WorkerStates] /\ queue' \in [Uploads -> Nat]
    BY <1>0, <1>11, <2>1, FinishTypes DEF RefuseLock
  <2> QED BY <1>0, <1>11, <2>2 DEF TypeOK, RefuseLock
<1>12. ASSUME NEW w \in Workers, WorkerLost(w) \/ JobFailed(w) PROVE TypeOK'
  <2>1. run[w].upload \in Uploads BY <1>12, RunningUpload DEF WorkerLost, JobFailed
  <2>2. Idle \in WorkerStates BY DEF Idle, WorkerStates
  <2> QED BY <1>0, <1>12, <2>1, <2>2 DEF TypeOK, WorkerLost, JobFailed, Enqueue
<1>13. ASSUME NEW i \in Uploads, RequireRevision(i) \/ InvalidateRewardLock(i) PROVE TypeOK'
  <2> DEFINE c == intent[i].claim
  <2>1. c \in Claims
    BY <1>13, ClaimOfSubmission DEF RequireRevision, InvalidateRewardLock, Reviewable, Finalized
  <2>2. NewRevisionDeadline(c) \in Int
    BY <1>0, <2>1, TablesAssumption DEF TypeOK, NewRevisionDeadline, LatestOf, Terms
  <2>3. SendBack(i) BY <1>13 DEF RequireRevision, InvalidateRewardLock
  <2>4. /\ revision' \in [Claims -> Int]
        /\ review' \in [Uploads -> ReviewStatuses]
    <3> HIDE DEF c
    <3> QED BY <1>0, <2>2, <2>3 DEF TypeOK, SendBack, ReviewStatuses, c
  <2>5. claimStatus' \in [Claims -> ClaimStatuses \cup {"UNUSED"}]
    BY <1>0, <2>3 DEF TypeOK, SendBack, ClaimStatuses, ActiveStatuses, ActionableStatuses
  <2>6. rewardLock' \in [Claims -> RewardLock]
    <3>1. CASE RequireRevision(i)
      BY <1>0, <3>1 DEF TypeOK, RequireRevision
    <3>2. CASE InvalidateRewardLock(i)
      <4>1. rewardLock \in [Claims -> RewardLock] BY <1>0 DEF TypeOK
      <4>2. rewardLock' = [rewardLock EXCEPT ![c] =
                              [status |-> "INVALIDATED", points |-> 0, at |-> 0]]
        BY <3>2 DEF InvalidateRewardLock
      <4>3. [status |-> "INVALIDATED", points |-> 0, at |-> 0] \in RewardLock
        BY DEF RewardLock, LockStatuses
      <4> QED BY <4>1, <4>2, <4>3
    <3> QED BY <1>13, <3>1, <3>2
  <2> QED BY <1>0, <2>3, <2>4, <2>5, <2>6 DEF TypeOK, SendBack
<1>14. ASSUME NEW i \in Uploads, ApproveSubmission(i) PROVE TypeOK'
  <2> DEFINE c == intent[i].claim
  <2>1. c \in Claims
    BY <1>14, ClaimOfSubmission DEF ApproveSubmission, Reviewable, Finalized
  <2>2. rewardLock[c] \in RewardLock BY <1>0, <2>1 DEF TypeOK
  <2>3. rewardLock' \in [Claims -> RewardLock] /\ paid' \in [Claims -> PayScale \cup {0}]
    BY <1>0, <1>14, <2>2 DEF TypeOK, ApproveSubmission, RewardLock, LockStatuses
  <2>4. review' \in [Uploads -> ReviewStatuses]
    BY <1>0, <1>14 DEF TypeOK, ApproveSubmission, ReviewStatuses
  <2>7. terminalAt' \in [Claims -> Int]
    <3>1. terminalAt' = [terminalAt EXCEPT ![c] = now] BY <1>14 DEF ApproveSubmission
    <3>2. terminalAt \in [Claims -> Int] /\ now \in Int BY <1>0 DEF TypeOK
    <3> QED BY <3>1, <3>2
  <2>5. claimStatus' \in [Claims -> ClaimStatuses \cup {"UNUSED"}]
    BY <1>0, <1>14 DEF TypeOK, ApproveSubmission, ClaimStatuses, TerminalStatuses
  <2>6. availability' \in [Assignments -> Availabilities]
    <3>1. \/ availability' = availability
          \/ availability' = [availability EXCEPT ![terms[c].unit] = "COMPLETED"]
      BY <1>14 DEF ApproveSubmission
    <3> QED BY <1>0, <3>1 DEF TypeOK, Availabilities
  <2> QED BY <1>0, <1>14, <2>3, <2>4, <2>5, <2>6, <2>7 DEF TypeOK, ApproveSubmission
<1> QED
  BY <1>1, <1>2, <1>3, <1>4, <1>5, <1>6, <1>7, <1>8, <1>9, <1>10, <1>11, <1>12,
     <1>13, <1>14 DEF SubmissionNext

-----------------------------------------------------------------------------
(* What most steps may do to a claim.                                      *)

\* A quiet step changes only claims that are active, and they stay active:
\* no unit, no terms, no end of a claim, no payment and no confirmation.
Quiet ==
    /\ UNCHANGED <<availability, terms, terminalAt, paid>>
    /\ \A c \in Claims :
          \/ /\ claimStatus'[c] = claimStatus[c]
             /\ revision'[c] = revision[c]
             /\ rewardLock'[c] = rewardLock[c]
             /\ latest'[c] = latest[c]
          \/ /\ Active(c) /\ claimStatus'[c] \in ActiveStatuses
             /\ \/ rewardLock'[c] = rewardLock[c]
                \/ /\ rewardLock[c].status # "CONFIRMED"
                   /\ rewardLock'[c].status # "CONFIRMED"

\* A claim that exists and has not ended is active.
LEMMA LiveIsActive ==
    ASSUME TypeOK, NEW c \in Claims, claimStatus[c] # "UNUSED", ~Terminal(c)
    PROVE  Active(c)
BY DEF TypeOK, ClaimStatuses, Active, Terminal

\* Every step of the pipeline is quiet, except the approval.
LEMMA PipelineIsQuiet ==
    ASSUME Shape, SubmissionNext
    PROVE  Quiet \/ \E i \in Uploads : ApproveSubmission(i)
<1> USE DEF boardTables, claimTable, uploadTables, rows
<1>0. TypeOK BY DEF Shape
<1>1. ASSUME NEW c \in Claims, NEW i \in Uploads, CreateUploadIntent(c, i)
      PROVE  Quiet
  BY <1>1 DEF Quiet, CreateUploadIntent
<1>2. ASSUME NEW i \in Uploads, FinalizeUpload(i)
      PROVE  Quiet
  <2>1. intent[i].claim \in Claims /\ Actionable(intent[i].claim)
    BY <1>2, ClaimOfSubmission DEF FinalizeUpload, Finalizable, MaySubmit
  <2>2. Active(intent[i].claim)
    BY <2>1 DEF Actionable, Active, ActiveStatuses
  <2>3. \A c \in Claims : c # intent[i].claim => latest'[c] = latest[c]
    BY <1>0, <1>2 DEF TypeOK, FinalizeUpload
  <2> QED BY <1>2, <2>2, <2>3 DEF Quiet, FinalizeUpload, Active
<1>3. ASSUME NEW i \in Uploads,
             BurnIntent(i) \/ ReplayFinalize(i) \/ RequeueStale(i)
      PROVE  Quiet
  BY <1>3 DEF Quiet, BurnIntent, ReplayFinalize, RequeueStale
<1>4. ASSUME NEW w \in Workers, NEW i \in Uploads,
             ReplayVerdict(w, i) \/ DeliveryFailed(w, i)
      PROVE  Quiet
  BY <1>4 DEF Quiet, ReplayVerdict, DeliveryFailed
<1>5. ASSUME NEW w \in Workers, NEW i \in Uploads, StartValidation(w, i)
      PROVE  Quiet
  <2>1. \A c \in Claims : \/ claimStatus'[c] = claimStatus[c]
                          \/ Active(c) /\ claimStatus'[c] = "VALIDATING"
    BY <1>0, <1>5 DEF TypeOK, StartValidation, Actionable, Active, ActiveStatuses
  <2> QED BY <1>5, <2>1 DEF Quiet, StartValidation, ActiveStatuses
<1>6. ASSUME NEW w \in Workers, PassValidation(w)
      PROVE  Quiet
  BY <1>6 DEF Quiet, PassValidation, Verdict
<1>7. ASSUME NEW w \in Workers, FailValidation(w)
      PROVE  Quiet
  <2>1. \A c \in Claims : \/ claimStatus'[c] = claimStatus[c]
                          \/ /\ claimStatus[c] = "VALIDATING"
                             /\ claimStatus'[c] \in ActionableStatuses
    BY <1>0, <1>7 DEF TypeOK, FailValidation, RestoreActionableClaim, RestoredStatus,
       ActionableStatuses
  <2> QED
    BY <1>7, <2>1 DEF Quiet, FailValidation, Verdict, Active, ActiveStatuses
<1>8. ASSUME NEW w \in Workers, LockReward(w)
      PROVE  Quiet
  <2> DEFINE i == run[w].upload
             d == intent[i].claim
  <2>1. i \in Uploads /\ Finalized(i) BY <1>8, RunningUpload DEF LockReward
  <2>2. d \in Claims /\ Active(d)
    BY <1>0, <1>8, <2>1, ClaimOfSubmission, LiveIsActive
       DEF LockReward, LockRefused, Finalized
  <2>3. \A c \in Claims : c # d => /\ claimStatus'[c] = claimStatus[c]
                                   /\ latest'[c] = latest[c]
                                   /\ rewardLock'[c] = rewardLock[c]
    BY <1>0, <1>8 DEF TypeOK, LockReward
  <2>4. claimStatus'[d] = "UNDER_REVIEW"
    BY <1>0, <1>8, <2>2 DEF TypeOK, LockReward
  <2>5. \/ rewardLock'[d] = rewardLock[d]
        \/ /\ rewardLock[d].status # "CONFIRMED"
           /\ rewardLock'[d].status = "PROVISIONAL"
    BY <1>0, <1>8, <2>2 DEF TypeOK, LockReward, LockOpen, EarnedLock
  <2> HIDE DEF i, d
  <2> QED BY <1>8, <2>2, <2>3, <2>4, <2>5 DEF Quiet, LockReward, ActiveStatuses
<1>9. ASSUME NEW w \in Workers, RefuseLock(w) \/ WorkerLost(w) \/ JobFailed(w)
      PROVE  Quiet
  BY <1>9 DEF Quiet, RefuseLock, WorkerLost, JobFailed
<1>10. ASSUME NEW i \in Uploads, RequireRevision(i) \/ InvalidateRewardLock(i)
       PROVE  Quiet
  <2> DEFINE d == intent[i].claim
  <2>1. Reviewable(i) /\ SendBack(i)
    BY <1>10 DEF RequireRevision, InvalidateRewardLock
  <2>2. d \in Claims /\ Active(d)
    BY <1>0, <2>1, ClaimOfSubmission, LiveIsActive DEF Reviewable, Finalized
  <2>3. \A c \in Claims : c # d => /\ claimStatus'[c] = claimStatus[c]
                                   /\ revision'[c] = revision[c]
    BY <1>0, <2>1 DEF TypeOK, SendBack
  <2>4. claimStatus'[d] = "REVISION_REQUIRED"
    BY <1>0, <2>1, <2>2 DEF TypeOK, SendBack
  <2>5. \A c \in Claims : \/ rewardLock'[c] = rewardLock[c]
                          \/ /\ c = d
                             /\ rewardLock[c].status = "PROVISIONAL"
                             /\ rewardLock'[c].status = "INVALIDATED"
    BY <1>0, <1>10, <2>2 DEF TypeOK, RequireRevision, InvalidateRewardLock
  <2> HIDE DEF d
  <2> QED
    BY <2>1, <2>2, <2>3, <2>4, <2>5 DEF Quiet, SendBack, ActiveStatuses,
       ActionableStatuses
<1> QED
  BY <1>1, <1>2, <1>3, <1>4, <1>5, <1>6, <1>7, <1>8, <1>9, <1>10 DEF SubmissionNext

-----------------------------------------------------------------------------
(* The references and the numbering are preserved.                         *)

\* finalize_upload adds one submission to one claim, numbered above all its
\* others, and points the claim at it.
LEMMA FinalizeEffect ==
    ASSUME Shape, NEW i \in Uploads, FinalizeUpload(i)
    PROVE  /\ intent[i].claim \in Claims
           /\ ~Finalized(i)
           /\ \A j \in Uploads : intent'[j].claim = intent[j].claim
           /\ \A j \in Uploads : j # i => intent'[j] = intent[j]
           /\ intent'[i].state = "FINALIZED"
           /\ \A j \in Uploads : j # i => submission'[j] = submission[j]
           /\ submission'[i].version = NewestVersion(intent[i].claim) + 1
           /\ \A c \in Claims : c # intent[i].claim => latest'[c] = latest[c]
           /\ latest'[intent[i].claim] = i
<1>1. intent[i].claim \in Claims
  BY ClaimOfSubmission DEF FinalizeUpload, Finalizable
<1>2. intent \in [Uploads -> Intent] /\ submission \in [Uploads -> Submission]
      /\ latest \in [Claims -> Uploads \cup {Null}]
  BY DEF Shape, TypeOK
<1>3. intent' = [intent EXCEPT ![i] = [state |-> "FINALIZED",
                                       claim |-> intent[i].claim, expires |-> 0]]
  BY DEF FinalizeUpload, Consumed
<1>4. submission' = [submission EXCEPT ![i] =
                        [version |-> NewestVersion(intent[i].claim) + 1, at |-> now]]
  BY DEF FinalizeUpload
<1>5. latest' = [latest EXCEPT ![intent[i].claim] = i]
  BY DEF FinalizeUpload
<1>6. ~Finalized(i) BY DEF FinalizeUpload, Finalizable, Finalized
<1>7. \A j \in Uploads : /\ intent'[j].claim = intent[j].claim
                         /\ j # i => intent'[j] = intent[j]
  BY <1>2, <1>3
<1>8. intent'[i].state = "FINALIZED" BY <1>2, <1>3
<1>9. \A j \in Uploads : j # i => submission'[j] = submission[j]
  BY <1>2, <1>4
<1>10. submission'[i].version = NewestVersion(intent[i].claim) + 1
  BY <1>2, <1>4
<1>11. /\ \A c \in Claims : c # intent[i].claim => latest'[c] = latest[c]
       /\ latest'[intent[i].claim] = i
  BY <1>1, <1>2, <1>5
<1> QED BY <1>1, <1>6, <1>7, <1>8, <1>9, <1>10, <1>11

\* Every other step leaves the submissions and the pointers to them alone.
LEMMA SameSubmissions ==
    ASSUME Shape, Next, \A i \in Uploads : ~FinalizeUpload(i)
    PROVE  /\ \A i \in Uploads : Finalized(i)' <=> Finalized(i)
           /\ \A i \in Uploads : intent[i].state # "UNUSED" =>
                 intent'[i].claim = intent[i].claim
           /\ \A i \in Uploads : intent'[i].state # "UNUSED" =>
                 \/ intent[i].state # "UNUSED"
                 \/ intent'[i].claim \in Claims /\ Active(intent'[i].claim)
           /\ submission' = submission
           /\ latest' = latest
<1> DEFINE Goal == /\ \A i \in Uploads : Finalized(i)' <=> Finalized(i)
                   /\ \A i \in Uploads : intent[i].state # "UNUSED" =>
                         intent'[i].claim = intent[i].claim
                   /\ \A i \in Uploads : intent'[i].state # "UNUSED" =>
                         \/ intent[i].state # "UNUSED"
                         \/ intent'[i].claim \in Claims /\ Active(intent'[i].claim)
                   /\ submission' = submission
                   /\ latest' = latest
<1>0. TypeOK BY DEF Shape
<1>1. CASE UNCHANGED <<intent, submission, latest>>
  BY <1>1 DEF Finalized
<1>2. ASSUME NEW c \in Claims, NEW i \in Uploads, CreateUploadIntent(c, i)
      PROVE  Goal
  <2>1. intent' = [intent EXCEPT ![i] =
                      [state |-> "OPEN", claim |-> c, expires |-> now + IntentTtl]]
    BY <1>2 DEF CreateUploadIntent
  <2>2. intent[i].state = "UNUSED" /\ Active(c)
    BY <1>2 DEF CreateUploadIntent, MaySubmit, Actionable, Active, ActiveStatuses
  <2>3. intent \in [Uploads -> Intent] BY <1>0 DEF TypeOK
  <2>4. submission' = submission /\ latest' = latest
    BY <1>2 DEF CreateUploadIntent, claimTable
  <2> QED BY <2>1, <2>2, <2>3, <2>4 DEF Finalized
<1>3. ASSUME NEW i \in Uploads, BurnIntent(i)
      PROVE  Goal
  <2>1. intent' = [intent EXCEPT ![i] =
                      [state |-> "BURNED", claim |-> intent[i].claim, expires |-> 0]]
    BY <1>3 DEF BurnIntent, Consumed
  <2>2. intent[i].state = "OPEN" BY <1>3 DEF BurnIntent, Finalizable
  <2>3. intent \in [Uploads -> Intent] BY <1>0 DEF TypeOK
  <2>4. submission' = submission /\ latest' = latest
    BY <1>3 DEF BurnIntent, claimTable
  <2> QED BY <2>1, <2>2, <2>3, <2>4 DEF Finalized
<1>4. ASSUME NEW w \in Workers, LockReward(w)
      PROVE  UNCHANGED <<intent, submission, latest>>
  <2>1. run[w].upload \in Uploads /\ Finalized(run[w].upload)
    BY <1>4, RunningUpload DEF LockReward
  <2>2. intent[run[w].upload].claim \in Claims
    BY <2>1, ClaimOfSubmission DEF Finalized
  <2>3. latest' = latest
    BY <1>0, <1>4, <2>1, <2>2, BumpKeepsLatest DEF TypeOK, LockReward
  <2> QED BY <1>4, <2>3 DEF LockReward, uploadTables
<1>5. ASSUME TaskNext PROVE UNCHANGED <<intent, submission, latest>>
  BY <1>5 DEF TaskNext, TransitionTask, SuspendAccount, ReactivateAccount,
     ClaimRandomAssignment, AbandonClaim, ExpireClaimIfDue, HandBack, Tick,
     pipeline, claimTable, uploadTables
<1>6. ASSUME SubmissionNext,
             \A c \in Claims, i \in Uploads : ~CreateUploadIntent(c, i),
             \A i \in Uploads : ~BurnIntent(i),
             \A w \in Workers : ~LockReward(w)
      PROVE  UNCHANGED <<intent, submission, latest>>
  BY <1>6 DEF SubmissionNext, ReplayFinalize, RequeueStale, ReplayVerdict,
     StartValidation, DeliveryFailed, PassValidation, FailValidation, Verdict,
     RefuseLock, WorkerLost, JobFailed, RequireRevision, InvalidateRewardLock,
     SendBack, ApproveSubmission, rows, claimTable, uploadTables
<1> HIDE DEF Goal
<1>7. Goal BY <1>1, <1>2, <1>3, <1>4, <1>5, <1>6 DEF Next, Goal
<1> QED BY <1>7 DEF Goal

LEMMA NumberingStep ==
    ASSUME Shape, Next
    PROVE  LatestIsNewest'
<1>0. \A i \in Uploads : submission[i].version \in Int
  BY DEF Shape, TypeOK, Submission
<1>1. CASE \A i \in Uploads : ~FinalizeUpload(i)
  <2>1. \A c \in Claims : SubmissionsOf(c)' = SubmissionsOf(c)
    BY <1>1, SameSubmissions DEF SubmissionsOf, Finalized
  <2>2. submission' = submission /\ latest' = latest
    BY <1>1, SameSubmissions
  <2> QED BY <2>1, <2>2 DEF Shape, LatestIsNewest
<1>2. ASSUME NEW i \in Uploads, FinalizeUpload(i)
      PROVE  LatestIsNewest'
  <2>1. PICK d \in Claims : d = intent[i].claim BY <1>2, FinalizeEffect
  <2>2. \A c \in Claims : c # d => /\ SubmissionsOf(c)' = SubmissionsOf(c)
                                   /\ i \notin SubmissionsOf(c)
    BY <1>2, <2>1, FinalizeEffect DEF SubmissionsOf, Finalized
  <2>3. SubmissionsOf(d)' = SubmissionsOf(d) \cup {i} /\ i \notin SubmissionsOf(d)
    BY <1>2, <2>1, FinalizeEffect DEF SubmissionsOf, Finalized
  <2>4. \A j \in Uploads : j # i => submission'[j] = submission[j]
    BY <1>2, <2>1, FinalizeEffect
  <2>5. /\ NewestVersion(d) \in Nat
        /\ \A j \in SubmissionsOf(d) : submission[j].version <= NewestVersion(d)
    BY <2>1, NewestVersionType
  <2>6. submission'[i].version = NewestVersion(d) + 1 /\ latest'[d] = i
    BY <1>2, <2>1, FinalizeEffect
  <2>7. \A c \in Claims : c # d => latest'[c] = latest[c]
    BY <1>2, <2>1, FinalizeEffect
  <2>8. \A c \in Claims : SubmissionsOf(c) \subseteq Uploads
    BY DEF SubmissionsOf
  <2>9. LatestIsNewest BY DEF Shape
    <2>10. ASSUME NEW c \in Claims, c # d, NEW j \in SubmissionsOf(c)
         PROVE  /\ latest'[c] \in SubmissionsOf(c)
                /\ submission'[j].version >= 1
                /\ j # latest'[c] => submission'[j].version < submission'[latest'[c]].version
                /\ \A k \in SubmissionsOf(c) :
                      submission'[j].version = submission'[k].version => j = k
    <3>1. latest'[c] = latest[c] /\ latest[c] \in SubmissionsOf(c)
      BY <2>7, <2>9, <2>10 DEF LatestIsNewest
    <3>2. \A k \in SubmissionsOf(c) : submission'[k] = submission[k]
      BY <2>2, <2>4, <2>8, <2>10
    <3> QED BY <2>9, <2>10, <3>1, <3>2 DEF LatestIsNewest
  <2>11. ASSUME NEW j \in SubmissionsOf(d)'
         PROVE  /\ latest'[d] \in SubmissionsOf(d)'
                /\ submission'[j].version >= 1
                /\ j # latest'[d] => submission'[j].version < submission'[latest'[d]].version
                /\ \A k \in SubmissionsOf(d)' :
                      submission'[j].version = submission'[k].version => j = k
    <3>1. \A k \in SubmissionsOf(d) :
             /\ submission'[k] = submission[k] /\ submission[k].version \in Int
             /\ submission[k].version < submission'[i].version
             /\ submission[k].version >= 1
      BY <1>0, <2>1, <2>3, <2>4, <2>5, <2>6, <2>8, <2>9 DEF LatestIsNewest
    <3>2. submission'[i].version \in Int /\ submission'[i].version >= 1
      BY <2>5, <2>6
    <3>3. \A k, l \in SubmissionsOf(d) :
             submission[k].version = submission[l].version => k = l
      BY <2>1, <2>9 DEF LatestIsNewest
    <3> QED BY <2>3, <2>6, <2>11, <3>1, <3>2, <3>3
  <2> QED BY <2>2, <2>10, <2>11 DEF LatestIsNewest
<1> QED BY <1>1, <1>2

LEMMA ClaimStatusEffect ==
    ASSUME Shape, Next
    PROVE  \A c \in Claims : claimStatus[c] # "UNUSED" => claimStatus'[c] # "UNUSED"
<1>0. TypeOK BY DEF Shape
<1>1. ASSUME SubmissionNext
      PROVE  \A c \in Claims : claimStatus[c] # "UNUSED" => claimStatus'[c] # "UNUSED"
  <2>1. CASE Quiet BY <2>1 DEF Quiet, ActiveStatuses, ActionableStatuses
  <2>2. ASSUME NEW i \in Uploads, ApproveSubmission(i)
        PROVE  \A c \in Claims : claimStatus[c] # "UNUSED" => claimStatus'[c] # "UNUSED"
    BY <1>0, <2>2 DEF TypeOK, ApproveSubmission
  <2> QED BY <1>1, <2>1, <2>2, PipelineIsQuiet
<1>2. ASSUME TaskNext
      PROVE  \A c \in Claims : claimStatus[c] # "UNUSED" => claimStatus'[c] # "UNUSED"
  BY <1>0, <1>2 DEF TypeOK, TaskNext, TransitionTask, SuspendAccount,
     ReactivateAccount, ClaimRandomAssignment, AbandonClaim, ExpireClaimIfDue,
     HandBack, Tick, claimTable
<1> QED BY <1>1, <1>2 DEF Next

LEMMA UploadReferencesStep ==
    ASSUME Shape, Next
    PROVE  UploadReferences'
<1>0. UploadReferences BY DEF Shape, ReferencesHold
<1>1. CASE \A i \in Uploads : ~FinalizeUpload(i)
  <2>1. ASSUME NEW i \in Uploads, intent'[i].state # "UNUSED"
        PROVE  intent'[i].claim \in Claims /\ claimStatus[intent'[i].claim] # "UNUSED"
    <3>1. CASE intent[i].state # "UNUSED"
      BY <1>0, <1>1, <3>1, SameSubmissions DEF UploadReferences
    <3>2. CASE intent[i].state = "UNUSED"
      BY <1>1, <2>1, <3>2, SameSubmissions DEF Active, ActiveStatuses, ActionableStatuses
    <3> QED BY <3>1, <3>2
  <2> QED BY <2>1, ClaimStatusEffect DEF UploadReferences
<1>2. ASSUME NEW i \in Uploads, FinalizeUpload(i)
      PROVE  UploadReferences'
  <2>1. intent[i].state # "UNUSED"
    BY <1>2 DEF FinalizeUpload, Finalizable
  <2>2. \A j \in Uploads : intent'[j].state # "UNUSED" =>
            intent[j].state # "UNUSED" /\ intent'[j].claim = intent[j].claim
    BY <1>2, <2>1, FinalizeEffect
  <2> QED BY <1>0, <2>2, ClaimStatusEffect DEF UploadReferences
<1> QED BY <1>1, <1>2

\* The submissions a claim has, it keeps.
LEMMA SubmissionsStay ==
    ASSUME Shape, Next, NEW i \in Uploads, Finalized(i)
    PROVE  Finalized(i)' /\ intent'[i].claim = intent[i].claim
<1>1. CASE \A j \in Uploads : ~FinalizeUpload(j)
  BY <1>1, SameSubmissions DEF Finalized
<1>2. ASSUME NEW j \in Uploads, FinalizeUpload(j)
      PROVE  Finalized(i)' /\ intent'[i].claim = intent[i].claim
  BY <1>2, FinalizeEffect DEF Finalized
<1> QED BY <1>1, <1>2

LEMMA ClaimReferencesStep ==
    ASSUME Shape, Next
    PROVE  ClaimReferences'
<1>0. TypeOK /\ ClaimReferences /\ UploadReferences
  BY DEF Shape, ReferencesHold
<1>1. \A c \in Claims : latest'[c] # Null => latest'[c] \in SubmissionsOf(c)'
  <2>1. CASE \A i \in Uploads : ~FinalizeUpload(i)
    BY <1>0, <2>1, SameSubmissions, SubmissionsStay DEF ClaimReferences, SubmissionsOf
  <2>2. ASSUME NEW i \in Uploads, FinalizeUpload(i), NEW c \in Claims, latest'[c] # Null
        PROVE  latest'[c] \in SubmissionsOf(c)'
    <3>1. CASE c = intent[i].claim
      BY <2>2, <3>1, FinalizeEffect DEF SubmissionsOf, Finalized
    <3>2. CASE c # intent[i].claim
      BY <1>0, <2>2, <3>2, FinalizeEffect, SubmissionsStay DEF ClaimReferences, SubmissionsOf
    <3> QED BY <3>1, <3>2
  <2> QED BY <2>1, <2>2
<1> DEFINE RowHolds(c) ==
              /\ claimStatus[c] = "UNUSED" =>
                    /\ terms[c] = NoTerms /\ rewardLock[c] = NoLock
                    /\ revision[c] = 0 /\ terminalAt[c] = 0
              /\ claimStatus[c] # "UNUSED" =>
                    terms[c].unit \in Assignments /\ terms[c].user \in Students
<1>2. \A c \in Claims : RowHolds(c) BY <1>0 DEF ClaimReferences
<1>3. ASSUME TaskNext PROVE \A c \in Claims : RowHolds(c)'
  <2> USE DEF boardTables, claimTable, uploadTables, pipeline
  <2>1. ASSUME NEW u \in Students, NEW t \in Tasks, NEW a \in Assignments,
               NEW d \in Claims, ClaimRandomAssignment(u, t, a, d)
        PROVE  \A c \in Claims : RowHolds(c)'
    <3>1. NewTerms(u, a).unit = a /\ NewTerms(u, a).user = u
      BY <1>0, NewTermsType DEF TypeOK
    <3>2. terms'[d] = NewTerms(u, a) /\ claimStatus'[d] = "CLAIMED"
      BY <1>0, <2>1 DEF TypeOK, ClaimRandomAssignment
    <3>3. \A c \in Claims : c # d =>
             terms'[c] = terms[c] /\ claimStatus'[c] = claimStatus[c]
      BY <1>0, <2>1 DEF TypeOK, ClaimRandomAssignment
    <3>4. UNCHANGED <<rewardLock, revision, terminalAt>>
      BY <2>1 DEF ClaimRandomAssignment
    <3> QED BY <1>2, <3>1, <3>2, <3>3, <3>4
  <2>2. ASSUME NEW d \in Claims, NEW s \in HandedBackStatuses, HandBack(d, s),
               Actionable(d)
        PROVE  \A c \in Claims : RowHolds(c)'
    <3>1. \A c \in Claims : c # d =>
             terminalAt'[c] = terminalAt[c] /\ claimStatus'[c] = claimStatus[c]
      BY <1>0, <2>2 DEF TypeOK, HandBack
    <3>2. claimStatus[d] # "UNUSED" /\ claimStatus'[d] # "UNUSED"
      BY <1>0, <2>2 DEF TypeOK, HandBack, Actionable, ActionableStatuses, HandedBackStatuses
    <3>3. UNCHANGED <<rewardLock, revision, terms>> BY <2>2 DEF HandBack
    <3> QED BY <1>2, <3>1, <3>2, <3>3
  <2>3. CASE UNCHANGED claimTable BY <1>2, <2>3
  <2> QED
    BY <1>3, <2>1, <2>2, <2>3 DEF TaskNext, TransitionTask, SuspendAccount,
       ReactivateAccount, AbandonClaim, ExpireClaimIfDue, Tick, HandedBackStatuses
<1>4. ASSUME SubmissionNext PROVE \A c \in Claims : RowHolds(c)'
  <2>1. CASE Quiet
    BY <1>2, <2>1 DEF Quiet, Active, ActiveStatuses, ActionableStatuses
  <2>2. ASSUME NEW i \in Uploads, ApproveSubmission(i)
        PROVE  \A c \in Claims : RowHolds(c)'
    <3>1. PICK d \in Claims : d = intent[i].claim /\ claimStatus[d] # "UNUSED"
      BY <2>2, ClaimOfSubmission DEF ApproveSubmission, Reviewable, Finalized
    <3>2. \A c \in Claims : c # d => /\ claimStatus'[c] = claimStatus[c]
                                     /\ terminalAt'[c] = terminalAt[c]
                                     /\ rewardLock'[c] = rewardLock[c]
      BY <1>0, <2>2, <3>1 DEF TypeOK, ApproveSubmission
    <3>3. claimStatus'[d] # "UNUSED"
      BY <1>0, <2>2, <3>1 DEF TypeOK, ApproveSubmission
    <3>4. UNCHANGED <<terms, revision>> BY <2>2 DEF ApproveSubmission
    <3> QED BY <1>2, <3>1, <3>2, <3>3, <3>4
  <2> QED BY <1>4, <2>1, <2>2, PipelineIsQuiet
<1>5. \A c \in Claims : RowHolds(c)' BY <1>3, <1>4 DEF Next
<1>6. \A c \in Claims : claimStatus'[c] = "UNUSED" => latest'[c] = Null
  <2>1. \A c \in Claims : latest'[c] # Null =>
            latest'[c] \in Uploads /\ intent'[latest'[c]].state = "FINALIZED"
            /\ intent'[latest'[c]].claim = c
    BY <1>1 DEF SubmissionsOf, Finalized
  <2> QED BY <2>1, UploadReferencesStep DEF UploadReferences
<1> QED BY <1>1, <1>5, <1>6 DEF ClaimReferences

\* Whatever a step puts on the queue or hands to a worker is finalized.
LEMMA JobReferencesStep ==
    ASSUME Shape, Next
    PROVE  JobReferences'
<1> USE DEF boardTables, claimTable, uploadTables, pipeline, rows
<1>0. TypeOK /\ JobReferences BY DEF Shape, ReferencesHold
<1>1. queue \in [Uploads -> Nat] /\ run \in [Workers -> WorkerStates]
  BY <1>0 DEF TypeOK
\* Deliveries and jobs stay where they are, or belong to upload i.
<1>2. ASSUME NEW i \in Uploads, Finalized(i)',
             \A j \in Uploads : j # i => queue'[j] = queue[j],
             \A w \in Workers : \/ run'[w] = run[w]
                                \/ run'[w].pc = "idle"
                                \/ run'[w].upload = i
      PROVE  JobReferences'
  <2>1. \A j \in Uploads : Finalized(j) => Finalized(j)' BY SubmissionsStay
  <2> QED BY <1>0, <1>2, <2>1 DEF JobReferences, Finalized
<1>3. CASE UNCHANGED <<queue, run>>
  <2>1. \A j \in Uploads : Finalized(j) => Finalized(j)' BY SubmissionsStay
  <2> QED BY <1>0, <1>3, <2>1 DEF JobReferences, Finalized
<1>4. ASSUME NEW i \in Uploads, FinalizeUpload(i) PROVE JobReferences'
  <2>1. Finalized(i)' BY <1>4, FinalizeEffect DEF Finalized
  <2>2. run' = run BY <1>4 DEF FinalizeUpload
  <2>3. \A j \in Uploads : j # i => queue'[j] = queue[j]
    BY <1>1, <1>4 DEF FinalizeUpload, Enqueue
  <2> QED BY <1>2, <2>1, <2>2, <2>3
<1>5. ASSUME NEW i \in Uploads, ReplayFinalize(i) \/ RequeueStale(i) PROVE JobReferences'
  <2>1. Finalized(i)' BY <1>5, SubmissionsStay DEF ReplayFinalize, RequeueStale
  <2>2. run' = run BY <1>5 DEF ReplayFinalize, RequeueStale
  <2>3. \A j \in Uploads : j # i => queue'[j] = queue[j]
    BY <1>1, <1>5 DEF ReplayFinalize, RequeueStale, Enqueue
  <2> QED BY <1>2, <2>1, <2>2, <2>3
<1>6. ASSUME NEW w \in Workers, NEW i \in Uploads, Take(w, i),
             \/ run' = run
             \/ \E pc \in {"parsing", "locking"} :
                   run' = [run EXCEPT ![w] = [pc |-> pc, upload |-> i]]
      PROVE  JobReferences'
  <2>1. Finalized(i)' BY <1>0, <1>6, SubmissionsStay DEF Take, JobReferences
  <2>2. \A v \in Workers : run'[v] = run[v] \/ run'[v].upload = i
    BY <1>1, <1>6
  <2>3. \A j \in Uploads : j # i => queue'[j] = queue[j]
    BY <1>1, <1>6 DEF Take
  <2> QED BY <1>2, <2>1, <2>2, <2>3
<1>7. ASSUME NEW w \in Workers, run[w].pc # "idle",
             \/ run' = [run EXCEPT ![w] = Idle]
             \/ run' = [run EXCEPT ![w] = [pc |-> "locking", upload |-> run[w].upload]],
             queue' = queue \/ Enqueue(run[w].upload)
      PROVE  JobReferences'
  <2>1. PICK i \in Uploads : i = run[w].upload /\ Finalized(i)'
    BY <1>7, RunningUpload, SubmissionsStay
  <2>2. \A v \in Workers : \/ run'[v] = run[v]
                           \/ run'[v].pc = "idle"
                           \/ run'[v].upload = i
    BY <1>1, <1>7, <2>1 DEF Idle
  <2>3. \A j \in Uploads : j # i => queue'[j] = queue[j]
    BY <1>1, <1>7, <2>1 DEF Enqueue
  <2> QED BY <1>2, <2>1, <2>2, <2>3
<1>8. ASSUME NEW w \in Workers, NEW i \in Uploads,
             ReplayVerdict(w, i) \/ StartValidation(w, i) \/ DeliveryFailed(w, i)
      PROVE  JobReferences'
  BY <1>6, <1>8 DEF ReplayVerdict, StartValidation, DeliveryFailed
<1>9. ASSUME NEW w \in Workers, PassValidation(w) PROVE JobReferences'
  BY <1>7, <1>9 DEF PassValidation
<1>10. ASSUME NEW w \in Workers, run[w].pc # "idle", Finish(w) PROVE JobReferences'
  BY <1>7, <1>10 DEF Finish
<1>11. ASSUME NEW w \in Workers, WorkerLost(w) \/ JobFailed(w) PROVE JobReferences'
  BY <1>7, <1>11 DEF WorkerLost, JobFailed
<1>12. ASSUME TaskNext PROVE UNCHANGED <<queue, run>>
  BY <1>12 DEF TaskNext, TransitionTask, SuspendAccount, ReactivateAccount,
     ClaimRandomAssignment, AbandonClaim, ExpireClaimIfDue, HandBack, Tick
<1>13. ASSUME SubmissionNext PROVE JobReferences'
  <2>1. ASSUME NEW i \in Uploads,
               \/ \E c \in Claims : CreateUploadIntent(c, i)
               \/ BurnIntent(i) \/ RequireRevision(i) \/ InvalidateRewardLock(i)
               \/ ApproveSubmission(i)
        PROVE  UNCHANGED <<queue, run>>
    BY <2>1 DEF CreateUploadIntent, BurnIntent, RequireRevision,
       InvalidateRewardLock, SendBack, ApproveSubmission
  <2>2. ASSUME NEW w \in Workers, FailValidation(w) \/ LockReward(w) \/ RefuseLock(w)
        PROVE  run[w].pc # "idle" /\ Finish(w)
    BY <2>2 DEF FailValidation, LockReward, RefuseLock
  <2> QED
    BY <1>3, <1>4, <1>5, <1>8, <1>9, <1>10, <1>11, <1>13, <2>1, <2>2
       DEF SubmissionNext
<1> QED BY <1>3, <1>12, <1>13 DEF Next

-----------------------------------------------------------------------------
(* The shape holds of every behaviour.                                     *)

LEMMA ShapeInit == Init => Shape
<1> SUFFICES ASSUME Init PROVE Shape OBVIOUS
<1>1. NoTerms \in Terms /\ NoLock \in RewardLock
  BY DEF NoTerms, Terms, NoLock, RewardLock, LockStatuses
<1>2. NoIntent \in Intent /\ NoSubmission \in Submission /\ Idle \in WorkerStates
  BY DEF NoIntent, Intent, NoSubmission, Submission, Idle, WorkerStates
<1>3. TypeOK
  BY <1>1, <1>2 DEF Init, TypeOK, TaskStatuses, Availabilities, ValidationStatuses,
     ReviewStatuses
<1>4. \A i \in Uploads : intent[i].state = "UNUSED"
  BY DEF Init, NoIntent
<1>5. UploadReferences /\ LatestIsNewest
  BY <1>4 DEF UploadReferences, LatestIsNewest, SubmissionsOf, Finalized
<1>6. ClaimReferences /\ JobReferences
  BY DEF Init, ClaimReferences, JobReferences, Idle
<1> QED BY <1>3, <1>5, <1>6 DEF Shape, ReferencesHold

LEMMA ShapeStep == Shape /\ [Next]_vars => Shape'
<1>1. ASSUME Shape, Next PROVE Shape'
  <2>1. TypeOK' BY <1>1, BoardStepTypes, PipelineStepTypes DEF Next
  <2>2. ReferencesHold'
    BY <1>1, ClaimReferencesStep, UploadReferencesStep, JobReferencesStep
       DEF ReferencesHold
  <2>3. LatestIsNewest' BY <1>1, NumberingStep
  <2> QED BY <2>1, <2>2, <2>3 DEF Shape
<1>2. ASSUME Shape, UNCHANGED vars PROVE Shape'
  <2> USE DEF vars, boardTables, claimTable, uploadTables
  <2>1. TypeOK' BY <1>2 DEF Shape, TypeOK
  <2>2. ClaimReferences' /\ UploadReferences' /\ JobReferences'
    BY <1>2 DEF Shape, ReferencesHold, ClaimReferences, UploadReferences,
       JobReferences, SubmissionsOf, Finalized
  <2>3. LatestIsNewest' BY <1>2 DEF Shape, LatestIsNewest, SubmissionsOf, Finalized
  <2> QED BY <2>1, <2>2, <2>3 DEF Shape, ReferencesHold
<1> QED BY <1>1, <1>2

\* The tables keep their shape in every behaviour: types, references and
\* numbering hold together, and none of them would hold alone.
THEOREM ShapeHolds == Spec => []Shape
BY ShapeInit, ShapeStep, PTL DEF Spec

\* Every column always holds a value of its type.
THEOREM TypesHold == Spec => []TypeOK
<1>1. Shape => TypeOK BY DEF Shape
<1> QED BY <1>1, ShapeHolds, PTL

\* No row ever refers to one that does not exist or belongs elsewhere, and
\* nothing but a finalized submission is ever validated.
THEOREM ReferencesAlwaysHold == Spec => []ReferencesHold
<1>1. Shape => ReferencesHold BY DEF Shape
<1> QED BY <1>1, ShapeHolds, PTL

\* The pointer of a claim always names its newest submission, and versions of
\* one claim never collide, whatever order the validation jobs end in.
THEOREM NewestAlwaysLatest == Spec => []LatestIsNewest
<1>1. Shape => LatestIsNewest BY DEF Shape
<1> QED BY <1>1, ShapeHolds, PTL

-----------------------------------------------------------------------------
(* Allocation, payment and the end of a claim.                              *)

\* The inductive invariant.  AvailabilityMatchesClaims is what lets the guard
\* availability = AVAILABLE stand for "no one holds the unit";
\* OneHolderPerUnit is what makes setting the unit free on a hand-back right.
IInv ==
    /\ Shape
    /\ AvailabilityMatchesClaims
    /\ OneHolderPerUnit
    /\ NeverSameUnitTwice
    /\ PaidIffCompleted

-----------------------------------------------------------------------------
(* The four kinds of step, and what each writes.                           *)

GiveBack(c, s) == Actionable(c) /\ HandBack(c, s)

LEMMA StepKinds ==
    ASSUME Shape, Next
    PROVE  \/ Quiet
           \/ \E u \in Students, t \in Tasks, a \in Assignments, c \in Claims :
                 ClaimRandomAssignment(u, t, a, c)
           \/ \E c \in Claims, s \in HandedBackStatuses : GiveBack(c, s)
           \/ \E i \in Uploads : ApproveSubmission(i)
<1>1. ASSUME NEW t \in Tasks, NEW target \in TaskStatuses, TransitionTask(t, target)
      PROVE  Quiet
  BY <1>1 DEF TransitionTask, Quiet, claimTable
<1>2. ASSUME NEW u \in Students, SuspendAccount(u) \/ ReactivateAccount(u)
      PROVE  Quiet
  BY <1>2 DEF SuspendAccount, ReactivateAccount, Quiet, claimTable
<1>3. ASSUME Tick PROVE Quiet
  BY <1>3 DEF Tick, Quiet, claimTable, boardTables
<1>4. ASSUME NEW c \in Claims, ExpireClaimIfDue(c) \/ \E u \in Students : AbandonClaim(u, c)
      PROVE  \E s \in HandedBackStatuses : GiveBack(c, s)
  BY <1>4 DEF ExpireClaimIfDue, AbandonClaim, HandedBackStatuses, GiveBack
<1> QED BY <1>1, <1>2, <1>3, <1>4, PipelineIsQuiet DEF Next, TaskNext

LEMMA AllocationEffect ==
    ASSUME Shape, NEW u \in Students, NEW t \in Tasks, NEW a \in Assignments,
           NEW c \in Claims, ClaimRandomAssignment(u, t, a, c)
    PROVE  /\ claimStatus[c] = "UNUSED" /\ terms[c] = NoTerms
           /\ availability[a] = "AVAILABLE"
           /\ \A d \in Claims : terms[d].user = u /\ terms[d].unit = a =>
                 claimStatus[d] \notin HandedBackStatuses
           /\ claimStatus' = [claimStatus EXCEPT ![c] = "CLAIMED"]
           /\ terms' = [terms EXCEPT ![c] = NewTerms(u, a)]
           /\ NewTerms(u, a).user = u /\ NewTerms(u, a).unit = a
           /\ availability' = [availability EXCEPT ![a] = "OCCUPIED"]
           /\ UNCHANGED <<revision, terminalAt, rewardLock, latest, paid>>
<1>1. NewTerms(u, a).user = u /\ NewTerms(u, a).unit = a
  BY NewTermsType DEF Shape, TypeOK
<1>2. a \in Candidates(u, t) /\ claimStatus[c] = "UNUSED"
  BY DEF ClaimRandomAssignment
<1>3. terms[c] = NoTerms
  BY <1>2 DEF Shape, ReferencesHold, ClaimReferences
<1>4. a \notin HandedBackBy(u) /\ availability[a] = "AVAILABLE"
  BY <1>2 DEF Candidates
<1>5. \A d \in Claims : terms[d].user = u /\ terms[d].unit = a =>
          claimStatus[d] \notin HandedBackStatuses
  BY <1>4 DEF HandedBackBy
<1> QED BY <1>1, <1>2, <1>3, <1>4, <1>5 DEF ClaimRandomAssignment

\* An active claim's unit is occupied, and it is the only one not handed back.
LEMMA ActiveHoldsUnit ==
    ASSUME IInv, NEW c \in Claims, Active(c)
    PROVE  /\ terms[c].unit \in Assignments
           /\ terms[c].unit # Null
           /\ availability[terms[c].unit] = "OCCUPIED"
           /\ \A d \in Claims : d # c /\ terms[d].unit = terms[c].unit =>
                 claimStatus[d] \in HandedBackStatuses
<1>1. claimStatus[c] # "UNUSED" /\ claimStatus[c] \notin HandedBackStatuses
  BY DEF Active, ActiveStatuses, ActionableStatuses, HandedBackStatuses
<1>2. terms[c].unit \in Assignments /\ terms[c].unit # Null
  BY <1>1, TablesAssumption DEF IInv, Shape, ReferencesHold, ClaimReferences
<1>3. availability[terms[c].unit] = "OCCUPIED"
  BY <1>2 DEF IInv, AvailabilityMatchesClaims, ClaimsOn
<1> QED BY <1>1, <1>2, <1>3 DEF IInv, OneHolderPerUnit

LEMMA GiveBackEffect ==
    ASSUME IInv, NEW c \in Claims, NEW s \in HandedBackStatuses, GiveBack(c, s)
    PROVE  /\ Active(c)
           /\ claimStatus' = [claimStatus EXCEPT ![c] = s]
           /\ availability' = [availability EXCEPT ![terms[c].unit] = "AVAILABLE"]
           /\ \A d \in Claims : d # c => terminalAt'[d] = terminalAt[d]
           /\ UNCHANGED <<terms, revision, rewardLock, latest, paid>>
<1>1. Active(c) BY DEF GiveBack, Actionable, Active, ActiveStatuses
<1>2. availability' = [availability EXCEPT ![terms[c].unit] = "AVAILABLE"]
  BY <1>1, ActiveHoldsUnit DEF GiveBack, HandBack, Released
<1>3. \A d \in Claims : d # c => terminalAt'[d] = terminalAt[d]
  <2>1. terminalAt \in [Claims -> Int] BY DEF IInv, Shape, TypeOK
  <2>2. terminalAt' = [terminalAt EXCEPT ![c] = now] BY DEF GiveBack, HandBack
  <2> QED BY <2>1, <2>2
<1> QED BY <1>1, <1>2, <1>3 DEF GiveBack, HandBack

LEMMA ApprovalEffect ==
    ASSUME IInv, NEW i \in Uploads, ApproveSubmission(i)
    PROVE  \E c \in Claims :
              /\ Active(c)
              /\ rewardLock[c].status # "CONFIRMED"
              /\ rewardLock[c].points \in PayScale \ {0} /\ rewardLock[c].points > 0
              /\ claimStatus' = [claimStatus EXCEPT ![c] = "COMPLETED"]
              /\ availability' = [availability EXCEPT ![terms[c].unit] = "COMPLETED"]
              /\ rewardLock'[c].status = "CONFIRMED"
              /\ rewardLock'[c].points = rewardLock[c].points
              /\ \A d \in Claims : d # c => /\ rewardLock'[d] = rewardLock[d]
                                            /\ terminalAt'[d] = terminalAt[d]
              /\ paid' = [paid EXCEPT ![c] = rewardLock[c].points]
              /\ UNCHANGED <<terms, revision, latest>>
<1>0. TypeOK /\ Shape BY DEF IInv, Shape
<1>1. PICK c \in Claims : c = intent[i].claim /\ Active(c)
  BY <1>0, ClaimOfSubmission, LiveIsActive DEF ApproveSubmission, Reviewable, Finalized
<1>2. /\ rewardLock[c].status = "PROVISIONAL" /\ rewardLock[c].points > 0
      /\ claimStatus' = [claimStatus EXCEPT ![c] = "COMPLETED"]
      /\ terminalAt' = [terminalAt EXCEPT ![c] = now]
      /\ rewardLock' = [rewardLock EXCEPT ![c] =
            [status |-> "CONFIRMED", points |-> rewardLock[c].points,
             at |-> rewardLock[c].at]]
      /\ paid' = [paid EXCEPT ![c] = rewardLock[c].points]
      /\ UNCHANGED <<terms, revision, latest>>
  BY <1>1 DEF ApproveSubmission
<1>3. availability' = [availability EXCEPT ![terms[c].unit] = "COMPLETED"]
  BY <1>1, ActiveHoldsUnit DEF ApproveSubmission
<1>4. rewardLock[c].points \in PayScale \ {0}
  <2>1. rewardLock[c].points \in PayScale \cup {0} BY <1>0 DEF TypeOK, RewardLock
  <2> QED BY <1>2, <2>1
<1>5. rewardLock \in [Claims -> RewardLock] /\ terminalAt \in [Claims -> Int]
  BY <1>0 DEF TypeOK
<1>6. /\ rewardLock'[c].status = "CONFIRMED"
      /\ rewardLock'[c].points = rewardLock[c].points
      /\ \A d \in Claims : d # c => /\ rewardLock'[d] = rewardLock[d]
                                    /\ terminalAt'[d] = terminalAt[d]
  BY <1>2, <1>5
<1> QED BY <1>1, <1>2, <1>3, <1>4, <1>6

-----------------------------------------------------------------------------
(* Each kind of step preserves the invariant.                              *)

LEMMA QuietKeepsInvariant ==
    ASSUME IInv, Quiet
    PROVE  /\ AvailabilityMatchesClaims' /\ OneHolderPerUnit'
           /\ NeverSameUnitTwice' /\ PaidIffCompleted'
<1>1. \A c \in Claims :
         /\ Active(c)' <=> Active(c)
         /\ claimStatus'[c] \in HandedBackStatuses <=> claimStatus[c] \in HandedBackStatuses
         /\ claimStatus'[c] = "COMPLETED" <=> claimStatus[c] = "COMPLETED"
  BY DEF Quiet, Active, ActiveStatuses, ActionableStatuses, HandedBackStatuses
<1>2. terms' = terms /\ availability' = availability /\ paid' = paid
  BY DEF Quiet
<1>3. AvailabilityMatchesClaims'
  BY <1>1, <1>2 DEF IInv, AvailabilityMatchesClaims, ClaimsOn
<1>4. OneHolderPerUnit' /\ NeverSameUnitTwice'
  BY <1>1, <1>2 DEF IInv, OneHolderPerUnit, NeverSameUnitTwice
<1>5. \A c \in Claims : \/ rewardLock'[c] = rewardLock[c]
                        \/ /\ claimStatus[c] # "COMPLETED"
                           /\ rewardLock[c].status # "CONFIRMED"
                           /\ rewardLock'[c].status # "CONFIRMED"
  BY DEF Quiet, Active, ActiveStatuses, ActionableStatuses
<1>6. PaidIffCompleted'
  BY <1>1, <1>2, <1>5 DEF IInv, PaidIffCompleted
<1> QED BY <1>3, <1>4, <1>6

LEMMA AllocationKeepsInvariant ==
    ASSUME IInv, NEW u \in Students, NEW t \in Tasks, NEW a \in Assignments,
           NEW c \in Claims, ClaimRandomAssignment(u, t, a, c)
    PROVE  /\ AvailabilityMatchesClaims' /\ OneHolderPerUnit'
           /\ NeverSameUnitTwice' /\ PaidIffCompleted'
<1>0. TypeOK BY DEF IInv, Shape
<1>1. /\ claimStatus[c] = "UNUSED" /\ terms[c].unit = Null
      /\ claimStatus'[c] = "CLAIMED" /\ terms'[c].unit = a /\ terms'[c].user = u
      /\ \A d \in Claims : d # c => /\ claimStatus'[d] = claimStatus[d]
                                    /\ terms'[d] = terms[d]
  BY <1>0, AllocationEffect DEF IInv, TypeOK, NoTerms
<1>2. /\ availability[a] = "AVAILABLE" /\ availability'[a] = "OCCUPIED"
      /\ \A b \in Assignments : b # a => availability'[b] = availability[b]
  BY <1>0, AllocationEffect DEF IInv, TypeOK
<1>3. a # Null BY TablesAssumption
\* The unit was free: every earlier claim on it was handed back, none by u.
<1>4. \A d \in Claims : d # c /\ terms[d].unit = a =>
         /\ claimStatus[d] \in HandedBackStatuses
         /\ terms[d].user # u
  <2>1. \A d \in Claims : terms[d].unit = a =>
           ~Active(d) /\ claimStatus[d] # "COMPLETED"
    BY <1>2 DEF IInv, AvailabilityMatchesClaims, ClaimsOn
  <2>2. \A d \in Claims : terms[d].unit = a => claimStatus[d] # "UNUSED"
    BY <1>3 DEF IInv, Shape, ReferencesHold, ClaimReferences, NoTerms
  <2>3. \A d \in Claims : terms[d].unit = a => claimStatus[d] \in HandedBackStatuses
    BY <1>0, <2>1, <2>2 DEF TypeOK, ClaimStatuses, TerminalStatuses, Active
  <2>4. \A d \in Claims : terms[d].user = u /\ terms[d].unit = a =>
           claimStatus[d] \notin HandedBackStatuses
    BY AllocationEffect DEF IInv
  <2> QED BY <2>3, <2>4
<1>5. AvailabilityMatchesClaims'
  <2>1. ASSUME NEW b \in Assignments, b # a
        PROVE  /\ availability'[b] = "OCCUPIED" <=> \E d \in ClaimsOn(b)' : Active(d)'
               /\ availability'[b] = "COMPLETED" <=>
                     \E d \in ClaimsOn(b)' : claimStatus'[d] = "COMPLETED"
    <3>1. b # Null BY TablesAssumption
    <3>2. ClaimsOn(b)' = ClaimsOn(b) /\ c \notin ClaimsOn(b)
      BY <1>1, <2>1, <3>1 DEF ClaimsOn
    <3>3. \A d \in ClaimsOn(b) : claimStatus'[d] = claimStatus[d] /\ Active(d)' = Active(d)
      BY <1>1, <3>2 DEF ClaimsOn, Active
    <3> QED BY <1>2, <2>1, <3>2, <3>3 DEF IInv, AvailabilityMatchesClaims
  <2>2. c \in ClaimsOn(a)' /\ Active(c)'
    BY <1>1 DEF ClaimsOn, Active, ActiveStatuses, ActionableStatuses
  <2>3. \A d \in ClaimsOn(a)' : claimStatus'[d] # "COMPLETED"
    BY <1>1, <1>4 DEF ClaimsOn, HandedBackStatuses
  <2> QED BY <1>2, <2>1, <2>2, <2>3 DEF AvailabilityMatchesClaims
<1>6. OneHolderPerUnit'
  BY <1>1, <1>4 DEF IInv, OneHolderPerUnit
<1>7. NeverSameUnitTwice'
  BY <1>1, <1>4 DEF IInv, NeverSameUnitTwice
<1>8. PaidIffCompleted'
  <2>1. UNCHANGED <<rewardLock, paid>> BY AllocationEffect DEF IInv
  <2>2. \A d \in Claims : claimStatus'[d] = "COMPLETED" <=> claimStatus[d] = "COMPLETED"
    BY <1>1
  <2> QED BY <2>1, <2>2 DEF IInv, PaidIffCompleted
<1> QED BY <1>5, <1>6, <1>7, <1>8

\* Hand-back and approval both end the one active claim on a unit; "end" is
\* what the claim becomes and "free" what the unit becomes.
LEMMA EndKeepsBoard ==
    ASSUME IInv, NEW c \in Claims, Active(c),
           NEW end \in TerminalStatuses, NEW free \in {"AVAILABLE", "COMPLETED"},
           end = "COMPLETED" <=> free = "COMPLETED",
           claimStatus' = [claimStatus EXCEPT ![c] = end],
           availability' = [availability EXCEPT ![terms[c].unit] = free],
           terms' = terms
    PROVE  AvailabilityMatchesClaims' /\ OneHolderPerUnit' /\ NeverSameUnitTwice'
<1>0. TypeOK BY DEF IInv, Shape
<1>1. /\ claimStatus'[c] = end /\ ~Active(c)'
      /\ \A d \in Claims : d # c => claimStatus'[d] = claimStatus[d] /\ Active(d)' = Active(d)
  <2>1. /\ claimStatus'[c] = end
        /\ \A d \in Claims : d # c => claimStatus'[d] = claimStatus[d]
    BY <1>0 DEF TypeOK
  <2> QED
    BY <2>1 DEF Active, ActiveStatuses, ActionableStatuses, TerminalStatuses,
       HandedBackStatuses
<1>2. PICK a \in Assignments : a = terms[c].unit /\ a # Null
  BY ActiveHoldsUnit
<1>3. /\ availability'[a] = free
      /\ \A b \in Assignments : b # a => availability'[b] = availability[b]
  BY <1>0, <1>2 DEF TypeOK
<1>4. \A d \in Claims : d # c /\ terms[d].unit = a => claimStatus[d] \in HandedBackStatuses
  BY <1>2, ActiveHoldsUnit
<1>5. AvailabilityMatchesClaims'
  <2>1. ASSUME NEW b \in Assignments, b # a
        PROVE  /\ availability'[b] = "OCCUPIED" <=> \E d \in ClaimsOn(b)' : Active(d)'
               /\ availability'[b] = "COMPLETED" <=>
                     \E d \in ClaimsOn(b)' : claimStatus'[d] = "COMPLETED"
    <3>1. ClaimsOn(b)' = ClaimsOn(b) /\ c \notin ClaimsOn(b)
      BY <1>2, <2>1 DEF ClaimsOn
    <3>2. \A d \in ClaimsOn(b) : claimStatus'[d] = claimStatus[d] /\ Active(d)' = Active(d)
      BY <1>1, <3>1 DEF ClaimsOn
    <3> QED BY <1>3, <2>1, <3>1, <3>2 DEF IInv, AvailabilityMatchesClaims
  <2>2. \A d \in ClaimsOn(a)' : d # c =>
           ~Active(d)' /\ claimStatus'[d] # "COMPLETED"
    BY <1>1, <1>4 DEF ClaimsOn, HandedBackStatuses, Active, ActiveStatuses, ActionableStatuses
  <2>3. c \in ClaimsOn(a)' BY <1>2 DEF ClaimsOn
  <2> QED BY <1>1, <1>3, <2>1, <2>2, <2>3 DEF AvailabilityMatchesClaims
<1>6. OneHolderPerUnit'
  BY <1>1, <1>2, <1>4 DEF IInv, OneHolderPerUnit
<1>7. NeverSameUnitTwice' BY DEF IInv, NeverSameUnitTwice
<1> QED BY <1>5, <1>6, <1>7

LEMMA GiveBackKeepsInvariant ==
    ASSUME IInv, NEW c \in Claims, NEW s \in HandedBackStatuses, GiveBack(c, s)
    PROVE  /\ AvailabilityMatchesClaims' /\ OneHolderPerUnit'
           /\ NeverSameUnitTwice' /\ PaidIffCompleted'
<1>1. s \in TerminalStatuses /\ s # "COMPLETED"
  BY DEF TerminalStatuses, HandedBackStatuses
<1>2. AvailabilityMatchesClaims' /\ OneHolderPerUnit' /\ NeverSameUnitTwice'
  BY <1>1, GiveBackEffect, EndKeepsBoard
<1>3. \A d \in Claims : claimStatus'[d] = "COMPLETED" <=> claimStatus[d] = "COMPLETED"
  BY <1>1, GiveBackEffect DEF IInv, Shape, TypeOK, Active, ActiveStatuses, ActionableStatuses
<1>4. PaidIffCompleted'
  <2>1. UNCHANGED <<rewardLock, paid>> BY GiveBackEffect
  <2> QED BY <1>3, <2>1 DEF IInv, PaidIffCompleted
<1> QED BY <1>2, <1>4

LEMMA ApprovalKeepsInvariant ==
    ASSUME IInv, NEW i \in Uploads, ApproveSubmission(i)
    PROVE  /\ AvailabilityMatchesClaims' /\ OneHolderPerUnit'
           /\ NeverSameUnitTwice' /\ PaidIffCompleted'
<1>1. PICK c \in Claims :
         /\ Active(c)
         /\ rewardLock[c].points > 0
         /\ claimStatus' = [claimStatus EXCEPT ![c] = "COMPLETED"]
         /\ availability' = [availability EXCEPT ![terms[c].unit] = "COMPLETED"]
         /\ rewardLock'[c].status = "CONFIRMED"
         /\ rewardLock'[c].points = rewardLock[c].points
         /\ \A d \in Claims : d # c => rewardLock'[d] = rewardLock[d]
         /\ paid' = [paid EXCEPT ![c] = rewardLock[c].points]
         /\ terms' = terms
  BY ApprovalEffect
<1>2. AvailabilityMatchesClaims' /\ OneHolderPerUnit' /\ NeverSameUnitTwice'
  BY <1>1, EndKeepsBoard DEF TerminalStatuses
<1>3. /\ claimStatus'[c] = "COMPLETED" /\ paid'[c] = rewardLock[c].points
      /\ \A d \in Claims : d # c => claimStatus'[d] = claimStatus[d] /\ paid'[d] = paid[d]
  BY <1>1 DEF IInv, Shape, TypeOK
<1>4. PaidIffCompleted'
  BY <1>1, <1>3 DEF IInv, PaidIffCompleted
<1> QED BY <1>2, <1>4

-----------------------------------------------------------------------------
(* The invariants, for every instance.                                     *)

LEMMA InvariantInit == Init => IInv
<1> SUFFICES ASSUME Init PROVE IInv OBVIOUS
<1>1. Shape BY ShapeInit
<1>2. \A c \in Claims : /\ claimStatus[c] = "UNUSED" /\ terms[c].unit = Null
                        /\ rewardLock[c].status = "NONE" /\ paid[c] = 0
  BY DEF Init, NoTerms, NoLock
<1>3. \A a \in Assignments : availability[a] = "AVAILABLE" /\ a # Null
  BY TablesAssumption DEF Init
<1>4. AvailabilityMatchesClaims
  BY <1>2, <1>3 DEF AvailabilityMatchesClaims, ClaimsOn
<1>5. OneHolderPerUnit /\ NeverSameUnitTwice /\ PaidIffCompleted
  BY <1>2 DEF OneHolderPerUnit, NeverSameUnitTwice, PaidIffCompleted
<1> QED BY <1>1, <1>4, <1>5 DEF IInv

LEMMA InvariantStep == IInv /\ [Next]_vars => IInv'
<1> SUFFICES ASSUME IInv, [Next]_vars PROVE IInv' OBVIOUS
<1>1. Shape' BY ShapeStep DEF IInv
<1>2. CASE Next
  <2>1. /\ AvailabilityMatchesClaims' /\ OneHolderPerUnit'
        /\ NeverSameUnitTwice' /\ PaidIffCompleted'
    BY <1>2, StepKinds, QuietKeepsInvariant, AllocationKeepsInvariant,
       GiveBackKeepsInvariant, ApprovalKeepsInvariant DEF IInv
  <2> QED BY <1>1, <2>1 DEF IInv
<1>3. CASE UNCHANGED vars
  <2>1. Quiet
    BY <1>3 DEF vars, boardTables, claimTable, Quiet
  <2> QED BY <1>1, <2>1, QuietKeepsInvariant DEF IInv
<1> QED BY <1>2, <1>3

LEMMA InvariantAlways == Spec => []IInv
BY InvariantInit, InvariantStep, PTL DEF Spec

\* The two records of who works on what, assignments.availability_status and
\* assignment_claims.status, never disagree.
THEOREM AvailabilityAlwaysMatches == Spec => []AvailabilityMatchesClaims
<1>1. IInv => AvailabilityMatchesClaims BY DEF IInv
<1> QED BY <1>1, InvariantAlways, PTL

\* A unit is never in the hands of two students, and never claimed again once
\* a claim on it is completed.
THEOREM NeverTwoHolders == Spec => []OneHolderPerUnit
<1>1. IInv => OneHolderPerUnit BY DEF IInv
<1> QED BY <1>1, InvariantAlways, PTL

\* No student ever draws the same unit a second time.
THEOREM UnitNeverComesBack == Spec => []NeverSameUnitTwice
<1>1. IInv => NeverSameUnitTwice BY DEF IInv
<1> QED BY <1>1, InvariantAlways, PTL

\* A unit is out exactly while one live claim holds it, and never again to a
\* student who has had it.
THEOREM UnitsAlwaysAgree == Spec => []UnitsAgree
<1>1. IInv => UnitsAgree BY DEF IInv, UnitsAgree
<1> QED BY <1>1, InvariantAlways, PTL

\* A claim is paid exactly when it is completed, the positive amount its
\* confirmed lock shows, and so at most once.
THEOREM PaidExactlyOnce == Spec => []PaidIffCompleted
<1>1. IInv => PaidIffCompleted BY DEF IInv
<1> QED BY <1>1, InvariantAlways, PTL

-----------------------------------------------------------------------------
(* The end of a claim.                                                     *)

LEMMA TerminalRowStays ==
    ASSUME IInv, Next, NEW c \in Claims, Terminal(c)
    PROVE  RowOf(c)' = RowOf(c)
<1>0. TypeOK /\ Shape BY DEF IInv, Shape
<1>1. ~Active(c) /\ claimStatus[c] # "UNUSED"
  BY DEF Terminal, TerminalStatuses, HandedBackStatuses, Active, ActiveStatuses,
     ActionableStatuses
<1>2. CASE Quiet
  BY <1>1, <1>2 DEF Quiet, RowOf
<1>3. ASSUME NEW u \in Students, NEW t \in Tasks, NEW a \in Assignments,
             NEW d \in Claims, ClaimRandomAssignment(u, t, a, d)
      PROVE  RowOf(c)' = RowOf(c)
  <2>1. d # c BY <1>0, <1>1, <1>3, AllocationEffect
  <2>2. claimStatus'[c] = claimStatus[c] /\ terms'[c] = terms[c]
    BY <1>0, <1>3, <2>1, AllocationEffect DEF TypeOK
  <2>3. UNCHANGED <<revision, terminalAt, rewardLock, latest>>
    BY <1>0, <1>3, AllocationEffect
  <2> QED BY <2>2, <2>3 DEF RowOf
<1>4. ASSUME NEW d \in Claims, NEW s \in HandedBackStatuses, GiveBack(d, s)
      PROVE  RowOf(c)' = RowOf(c)
  <2>1. d # c BY <1>1, <1>4, GiveBackEffect
  <2>2. claimStatus'[c] = claimStatus[c]
    BY <1>0, <1>4, <2>1, GiveBackEffect DEF TypeOK
  <2> QED BY <1>4, <2>1, <2>2, GiveBackEffect DEF RowOf
<1>5. ASSUME NEW i \in Uploads, ApproveSubmission(i)
      PROVE  RowOf(c)' = RowOf(c)
  <2>1. PICK d \in Claims :
           /\ Active(d)
           /\ claimStatus' = [claimStatus EXCEPT ![d] = "COMPLETED"]
           /\ \A e \in Claims : e # d => /\ rewardLock'[e] = rewardLock[e]
                                         /\ terminalAt'[e] = terminalAt[e]
           /\ UNCHANGED <<terms, revision, latest>>
    BY <1>5, ApprovalEffect
  <2>2. d # c BY <1>1, <2>1
  <2>3. claimStatus'[c] = claimStatus[c]
    BY <1>0, <2>1, <2>2 DEF TypeOK
  <2> QED BY <2>1, <2>2, <2>3 DEF RowOf
<1> QED BY <1>0, <1>2, <1>3, <1>4, <1>5, StepKinds

\* A claim that was abandoned, expired or completed is never written again,
\* however many of its validation jobs are still on their way.
THEOREM TerminalForever == Spec => TerminalClaimsFrozen
<1>1. ASSUME IInv, [Next]_vars
      PROVE  \A c \in Claims : Terminal(c) => RowOf(c)' = RowOf(c)
  <2>1. CASE Next BY <1>1, <2>1, TerminalRowStays
  <2>2. CASE UNCHANGED vars BY <2>2 DEF vars, claimTable, RowOf
  <2> QED BY <1>1, <2>1, <2>2
<1>2. IInv /\ [Next]_vars =>
          [\A c \in Claims : Terminal(c) => RowOf(c)' = RowOf(c)]_vars
  BY <1>1
<1>3. Spec => [][Next]_vars BY DEF Spec
<1> QED BY <1>2, <1>3, InvariantAlways, PTL DEF TerminalClaimsFrozen

-----------------------------------------------------------------------------
(* The refinement of ClaimBoard.                                           *)

\* A claim's phase, by status.
LEMMA Phases ==
    /\ PhaseOf("UNUSED") = "none" /\ PhaseOf("COMPLETED") = "done"
    /\ \A s \in ActiveStatuses : PhaseOf(s) = "held"
    /\ \A s \in HandedBackStatuses : PhaseOf(s) = "returned"
BY DEF PhaseOf, ActiveStatuses, ActionableStatuses, HandedBackStatuses

LEMMA BoardStart == Init => Board!BoardInit
BY Phases DEF Init, Board!BoardInit, NoTerms

LEMMA QuietIsInvisible ==
    ASSUME Shape, Quiet
    PROVE  UNCHANGED Board!boardVars
<1>1. \A c \in Claims : PhaseOf(claimStatus'[c]) = PhaseOf(claimStatus[c])
  BY Phases DEF Quiet, Active
<1>2. terms' = terms /\ paid' = paid BY DEF Quiet
<1> QED BY <1>1, <1>2 DEF Board!boardVars

LEMMA AllocationTakesUnit ==
    ASSUME IInv, NEW u \in Students, NEW t \in Tasks, NEW a \in Assignments,
           NEW c \in Claims, ClaimRandomAssignment(u, t, a, c)
    PROVE  Board!TakeUnit(c, u, a)
<1>0. TypeOK /\ Shape BY DEF IInv, Shape
<1>1. /\ claimStatus[c] = "UNUSED"
      /\ claimStatus'[c] = "CLAIMED" /\ terms'[c].unit = a /\ terms'[c].user = u
      /\ \A d \in Claims : d # c => /\ claimStatus'[d] = claimStatus[d]
                                    /\ terms'[d] = terms[d]
      /\ paid' = paid
  BY <1>0, AllocationEffect DEF TypeOK
<1>2. a # Null BY TablesAssumption
<1>3. \A d \in Claims : terms[d].unit = a =>
          claimStatus[d] \in HandedBackStatuses /\ terms[d].user # u
  <2>1. availability[a] = "AVAILABLE" BY <1>0, AllocationEffect
  <2>2. \A d \in Claims : terms[d].unit = a =>
           ~Active(d) /\ claimStatus[d] # "COMPLETED"
    BY <2>1 DEF IInv, AvailabilityMatchesClaims, ClaimsOn
  <2>3. \A d \in Claims : terms[d].unit = a => claimStatus[d] # "UNUSED"
    BY <1>0, <1>2 DEF Shape, ReferencesHold, ClaimReferences, NoTerms
  <2>4. \A d \in Claims : terms[d].unit = a => claimStatus[d] \in HandedBackStatuses
    BY <1>0, <2>2, <2>3 DEF TypeOK, ClaimStatuses, TerminalStatuses, Active
  <2>5. \A d \in Claims : terms[d].user = u /\ terms[d].unit = a =>
           claimStatus[d] \notin HandedBackStatuses
    BY <1>0, AllocationEffect
  <2> QED BY <2>4, <2>5
<1>4. "CLAIMED" \in ActiveStatuses BY DEF ActiveStatuses, ActionableStatuses
<1> QED BY <1>1, <1>3, <1>4, Phases DEF Board!TakeUnit, Board!Free, Board!HadBefore

LEMMA GiveBackReturnsUnit ==
    ASSUME IInv, NEW c \in Claims, NEW s \in HandedBackStatuses, GiveBack(c, s)
    PROVE  Board!ReturnUnit(c)
<1>1. /\ claimStatus'[c] = s
      /\ \A d \in Claims : d # c => claimStatus'[d] = claimStatus[d]
      /\ terms' = terms /\ paid' = paid
  BY GiveBackEffect DEF IInv, Shape, TypeOK
<1>2. claimStatus[c] \in ActiveStatuses BY GiveBackEffect DEF Active
<1> QED BY <1>1, <1>2, Phases DEF Board!ReturnUnit

LEMMA ApprovalCompletesUnit ==
    ASSUME IInv, NEW i \in Uploads, ApproveSubmission(i)
    PROVE  \E c \in Claims, points \in PayScale \ {0} : Board!CompleteUnit(c, points)
<1>1. PICK c \in Claims :
         /\ Active(c)
         /\ rewardLock[c].points \in PayScale \ {0}
         /\ claimStatus' = [claimStatus EXCEPT ![c] = "COMPLETED"]
         /\ paid' = [paid EXCEPT ![c] = rewardLock[c].points]
         /\ terms' = terms
  BY ApprovalEffect
<1>2. /\ claimStatus'[c] = "COMPLETED"
      /\ \A d \in Claims : d # c => claimStatus'[d] = claimStatus[d]
  BY <1>1 DEF IInv, Shape, TypeOK
<1>3. PICK points \in PayScale \ {0} : paid' = [paid EXCEPT ![c] = points] BY <1>1
<1>4. claimStatus[c] \in ActiveStatuses /\ terms' = terms BY <1>1 DEF Active
<1>5. Board!CompleteUnit(c, points)
  BY <1>2, <1>3, <1>4, Phases DEF Board!CompleteUnit
<1> QED BY <1>5

\* Every step of the lifecycle is a step of the board or invisible to it.
THEOREM LifecycleRefinesBoard == Spec => ImplementsClaimBoard
<1>1. ASSUME IInv, [Next]_vars
      PROVE  [Board!BoardNext]_Board!boardVars
  <2>0. Shape BY <1>1 DEF IInv
  <2>1. CASE Quiet BY <2>0, <2>1, QuietIsInvisible
  <2>2. CASE UNCHANGED vars
    <3>1. Quiet BY <2>2 DEF vars, boardTables, claimTable, Quiet
    <3> QED BY <2>0, <3>1, QuietIsInvisible
  <2>3. ASSUME NEW u \in Students, NEW t \in Tasks, NEW a \in Assignments,
               NEW c \in Claims, ClaimRandomAssignment(u, t, a, c)
        PROVE  Board!BoardNext
    BY <1>1, <2>3, AllocationTakesUnit DEF Board!BoardNext
  <2>4. ASSUME NEW c \in Claims, NEW s \in HandedBackStatuses, GiveBack(c, s)
        PROVE  Board!BoardNext
    BY <1>1, <2>4, GiveBackReturnsUnit DEF Board!BoardNext
  <2>5. ASSUME NEW i \in Uploads, ApproveSubmission(i)
        PROVE  Board!BoardNext
    BY <1>1, <2>5, ApprovalCompletesUnit DEF Board!BoardNext
  <2> QED BY <1>1, <2>0, <2>1, <2>2, <2>3, <2>4, <2>5, StepKinds
<1>2. IInv /\ [Next]_vars => [Board!BoardNext]_Board!boardVars BY <1>1
<1>3. Spec => Init /\ [][Next]_vars BY DEF Spec
<1> QED BY <1>2, <1>3, BoardStart, InvariantAlways, PTL DEF ImplementsClaimBoard, Board!BoardSpec

-----------------------------------------------------------------------------
(* One active claim per student and task.                                  *)

LEMMA OneActiveInit == Init => OneActiveClaimPerTask
BY DEF Init, OneActiveClaimPerTask, Active, ActiveStatuses, ActionableStatuses

\* The draw looks at every active claim of the student, whatever its status,
\* and the new claim's unit is one of the task's.
LEMMA AllocationKeepsOneActive ==
    ASSUME IInv, OneActiveClaimPerTask, NEW u \in Students, NEW t \in Tasks,
           NEW a \in Assignments, NEW c \in Claims, ClaimRandomAssignment(u, t, a, c)
    PROVE  OneActiveClaimPerTask'
<1>0. TypeOK /\ Shape BY DEF IInv, Shape
<1>1. /\ terms'[c].unit = a /\ terms'[c].user = u
      /\ \A d \in Claims : d # c => /\ claimStatus'[d] = claimStatus[d]
                                    /\ terms'[d] = terms[d]
  BY <1>0, AllocationEffect DEF TypeOK
<1>2. TaskOf[a] = t /\ ~HasActiveClaimOn(u, t)
  BY DEF ClaimRandomAssignment, Eligible, Candidates, UnitsOf
<1>3. \A d \in Claims : d # c => /\ Active(d)' <=> Active(d)
                                 /\ TaskOfClaim(d)' = TaskOfClaim(d)
  BY <1>1 DEF Active, TaskOfClaim
<1>4. TaskOfClaim(c)' = t BY <1>1, <1>2 DEF TaskOfClaim
<1>5. \A d \in Claims : d # c /\ Active(d)' /\ terms'[d].user = u => TaskOfClaim(d)' # t
  BY <1>1, <1>2, <1>3 DEF HasActiveClaimOn, ActiveClaims
<1> QED BY <1>1, <1>3, <1>4, <1>5 DEF OneActiveClaimPerTask

\* No other step activates a claim or moves one to another unit.
LEMMA OneActiveStep ==
    ASSUME IInv, OneActiveClaimPerTask, [Next]_vars
    PROVE  OneActiveClaimPerTask'
<1>0. TypeOK /\ Shape BY DEF IInv, Shape
<1>1. ASSUME terms' = terms, \A c \in Claims : Active(c)' => Active(c)
      PROVE  OneActiveClaimPerTask'
  BY <1>1 DEF OneActiveClaimPerTask, TaskOfClaim
<1>2. CASE Quiet
  BY <1>1, <1>2 DEF Quiet, Active
<1>3. ASSUME NEW c \in Claims, NEW s \in TerminalStatuses, terms' = terms,
             claimStatus' = [claimStatus EXCEPT ![c] = s]
      PROVE  OneActiveClaimPerTask'
  BY <1>0, <1>1, <1>3 DEF TypeOK, Active, ActiveStatuses, ActionableStatuses,
     TerminalStatuses, HandedBackStatuses
<1>4. ASSUME NEW c \in Claims, NEW s \in HandedBackStatuses, GiveBack(c, s)
      PROVE  OneActiveClaimPerTask'
  BY <1>3, <1>4, GiveBackEffect DEF TerminalStatuses
<1>5. ASSUME NEW i \in Uploads, ApproveSubmission(i)
      PROVE  OneActiveClaimPerTask'
  BY <1>3, <1>5, ApprovalEffect DEF TerminalStatuses
<1>6. CASE UNCHANGED vars
  BY <1>2, <1>6 DEF vars, boardTables, claimTable, Quiet
<1>7. CASE Next
  BY <1>0, <1>2, <1>4, <1>5, <1>7, StepKinds, AllocationKeepsOneActive
<1> QED BY <1>6, <1>7

\* A student never holds two active claims on one task: the count made under
\* the user's row lock is never overtaken, so the partial unique index
\* uq_assignment_claims_active_user_task never fires.
THEOREM OneActiveAlways == Spec => []OneActiveClaimPerTask
BY OneActiveInit, OneActiveStep, InvariantAlways, PTL DEF Spec

-----------------------------------------------------------------------------
(* The daily limit of abandons.                                            *)

\* Every day, past ones included: what was counted once is never recounted.
AbandonBound ==
    \A u \in Students : \A day \in Int :
        /\ IsFiniteSet(AbandonedOn(u, day))
        /\ Cardinality(AbandonedOn(u, day)) <= DailyAbandonLimit

LEMMA AbandonBoundInit == Init => AbandonBound
<1> SUFFICES ASSUME Init, NEW u \in Students, NEW day \in Int
             PROVE  /\ IsFiniteSet(AbandonedOn(u, day))
                    /\ Cardinality(AbandonedOn(u, day)) <= DailyAbandonLimit
  BY DEF AbandonBound
<1>1. AbandonedOn(u, day) = {} BY DEF Init, AbandonedOn
<1>2. DailyAbandonLimit \in Nat BY TablesAssumption
<1> QED BY <1>1, <1>2, FS_EmptySet

\* Only abandon_claim makes a claim ABANDONED, and nothing rewrites the row
\* of one that is.
LEMMA AbandonedRowsStay ==
    ASSUME IInv, Next, \A u \in Students, c \in Claims : ~AbandonClaim(u, c),
           NEW c \in Claims
    PROVE  /\ claimStatus'[c] = "ABANDONED" <=> claimStatus[c] = "ABANDONED"
           /\ claimStatus[c] = "ABANDONED" =>
                 terms'[c] = terms[c] /\ terminalAt'[c] = terminalAt[c]
<1>0. TypeOK /\ Shape BY DEF IInv, Shape
<1>1. claimStatus[c] = "ABANDONED" => RowOf(c)' = RowOf(c)
  BY TerminalRowStays DEF Terminal, TerminalStatuses, HandedBackStatuses
<1>2. claimStatus'[c] = "ABANDONED" => claimStatus[c] = "ABANDONED"
  <2>1. CASE Quiet BY <2>1 DEF Quiet, ActiveStatuses, ActionableStatuses
  <2>2. ASSUME NEW i \in Uploads, ApproveSubmission(i)
        PROVE  claimStatus'[c] = "ABANDONED" => claimStatus[c] = "ABANDONED"
    BY <1>0, <2>2 DEF TypeOK, ApproveSubmission
  <2>3. CASE SubmissionNext BY <1>0, <2>1, <2>2, <2>3, PipelineIsQuiet
  <2>4. CASE TaskNext
    BY <1>0, <2>4 DEF TypeOK, TaskNext, TransitionTask, SuspendAccount,
       ReactivateAccount, ClaimRandomAssignment, ExpireClaimIfDue, HandBack, Tick,
       claimTable
  <2> QED BY <2>3, <2>4 DEF Next
<1> QED BY <1>1, <1>2 DEF RowOf

LEMMA AbandonBoundStep ==
    ASSUME IInv, AbandonBound, [Next]_vars
    PROVE  AbandonBound'
<1>0. TypeOK BY DEF IInv, Shape
<1> SUFFICES ASSUME NEW u \in Students, NEW day \in Int
             PROVE  /\ IsFiniteSet(AbandonedOn(u, day)')
                    /\ Cardinality(AbandonedOn(u, day)') <= DailyAbandonLimit
  BY DEF AbandonBound
<1>1. CASE UNCHANGED vars
  <2>1. AbandonedOn(u, day)' = AbandonedOn(u, day)
    BY <1>1 DEF vars, claimTable, AbandonedOn
  <2> QED BY <2>1 DEF AbandonBound
<1>2. CASE Next /\ \A v \in Students, c \in Claims : ~AbandonClaim(v, c)
  <2>1. AbandonedOn(u, day)' = AbandonedOn(u, day)
    BY <1>2, AbandonedRowsStay DEF AbandonedOn
  <2> QED BY <2>1 DEF AbandonBound
<1>3. ASSUME NEW v \in Students, NEW c \in Claims, AbandonClaim(v, c)
      PROVE  /\ IsFiniteSet(AbandonedOn(u, day)')
             /\ Cardinality(AbandonedOn(u, day)') <= DailyAbandonLimit
  <2>1. /\ Actionable(c) /\ terms[c].user = v /\ terms' = terms
        /\ claimStatus' = [claimStatus EXCEPT ![c] = "ABANDONED"]
        /\ terminalAt' = [terminalAt EXCEPT ![c] = now]
        /\ Cardinality(AbandonedToday(v)) < DailyAbandonLimit
    BY <1>3 DEF AbandonClaim, HandBack
  <2>2. /\ claimStatus'[c] = "ABANDONED" /\ terminalAt'[c] = now
        /\ \A d \in Claims : d # c => /\ claimStatus'[d] = claimStatus[d]
                                      /\ terminalAt'[d] = terminalAt[d]
    <3>1. claimStatus \in [Claims -> ClaimStatuses \cup {"UNUSED"}]
          /\ terminalAt \in [Claims -> Int]
      BY <1>0 DEF TypeOK
    <3> QED BY <2>1, <3>1
  <2>3. claimStatus[c] # "ABANDONED" BY <2>1 DEF Actionable, ActionableStatuses
  <2>4. CASE v = u /\ DayOf(now) = day
    <3>1. AbandonedOn(u, day)' = AbandonedOn(u, day) \cup {c}
      BY <2>1, <2>2, <2>4 DEF AbandonedOn, DayOf
    <3>2. c \notin AbandonedOn(u, day) BY <2>3 DEF AbandonedOn
    <3>3. AbandonedToday(u) = AbandonedOn(u, day)
      BY <2>4 DEF AbandonedToday, AbandonedOn
    <3>4. IsFiniteSet(AbandonedOn(u, day)) BY DEF AbandonBound
    <3>5. /\ IsFiniteSet(AbandonedOn(u, day) \cup {c})
          /\ Cardinality(AbandonedOn(u, day) \cup {c}) = Cardinality(AbandonedOn(u, day)) + 1
      BY <3>2, <3>4, FS_AddElement
    <3>6. Cardinality(AbandonedOn(u, day)) \in Nat /\ DailyAbandonLimit \in Nat
      BY <3>4, FS_CardinalityType, TablesAssumption
    <3>7. Cardinality(AbandonedOn(u, day)) < DailyAbandonLimit
      BY <2>1, <2>4, <3>3
    <3> QED BY <3>1, <3>5, <3>6, <3>7
  <2>5. CASE ~(v = u /\ DayOf(now) = day)
    <3>1. AbandonedOn(u, day)' = AbandonedOn(u, day)
      BY <2>1, <2>2, <2>3, <2>5 DEF AbandonedOn, DayOf
    <3> QED BY <3>1 DEF AbandonBound
  <2> QED BY <2>4, <2>5
<1> QED BY <1>1, <1>2, <1>3

\* No student abandons more than the daily limit on any one business day,
\* whatever else the student, the expiry scan and the clock do in between.
THEOREM AbandonLimitAlways == Spec => []DailyAbandonLimitHolds
<1>1. IInv /\ AbandonBound => DailyAbandonLimitHolds
  <2>1. ASSUME IInv PROVE 0..DayOf(now) \subseteq Int OBVIOUS
  <2> QED BY <2>1 DEF AbandonBound, DailyAbandonLimitHolds
<1> QED BY <1>1, AbandonBoundInit, AbandonBoundStep, InvariantAlways, PTL DEF Spec

-----------------------------------------------------------------------------
(* The rows a lock was computed from do not move.                          *)

\* The terms of a claim are written once, when it is drawn.
LEMMA TermsStay ==
    ASSUME IInv, Next, NEW c \in Claims, claimStatus[c] # "UNUSED"
    PROVE  terms'[c] = terms[c]
<1>0. TypeOK /\ Shape BY DEF IInv, Shape
<1>1. ASSUME NEW u \in Students, NEW t \in Tasks, NEW a \in Assignments,
             NEW d \in Claims, ClaimRandomAssignment(u, t, a, d)
      PROVE  terms'[c] = terms[c]
  BY <1>0, <1>1, AllocationEffect DEF TypeOK
<1> QED BY <1>0, <1>1, StepKinds, GiveBackEffect, ApprovalEffect DEF Quiet

\* A finalized submission keeps its instant.
LEMMA SubmittedAtStays ==
    ASSUME Shape, Next, NEW i \in Uploads, Finalized(i)
    PROVE  submission'[i] = submission[i]
BY SameSubmissions, FinalizeEffect

\* A step of a lock is one of three: earned when there is none that stands,
\* invalidated by a reviewer, or confirmed as it is.
LEMMA LockEffect ==
    ASSUME IInv, Next, NEW c \in Claims
    PROVE  \/ rewardLock'[c] = rewardLock[c]
           \/ /\ LockOpen(c)
              /\ \E i \in SubmissionsOf(c) : rewardLock'[c] = EarnedLock(i)
           \/ /\ rewardLock[c].status = "PROVISIONAL"
              /\ rewardLock'[c].status = "INVALIDATED" /\ rewardLock'[c].points = 0
           \/ /\ rewardLock[c].status = "PROVISIONAL"
              /\ rewardLock'[c].status = "CONFIRMED"
              /\ rewardLock'[c].points = rewardLock[c].points
              /\ rewardLock'[c].at = rewardLock[c].at
<1>0. TypeOK /\ Shape BY DEF IInv, Shape
<1>1. rewardLock \in [Claims -> RewardLock] BY <1>0 DEF TypeOK
<1> DEFINE Goal == \/ rewardLock'[c] = rewardLock[c]
                   \/ /\ LockOpen(c)
                      /\ \E i \in SubmissionsOf(c) : rewardLock'[c] = EarnedLock(i)
                   \/ /\ rewardLock[c].status = "PROVISIONAL"
                      /\ rewardLock'[c].status = "INVALIDATED" /\ rewardLock'[c].points = 0
                   \/ /\ rewardLock[c].status = "PROVISIONAL"
                      /\ rewardLock'[c].status = "CONFIRMED"
                      /\ rewardLock'[c].points = rewardLock[c].points
                      /\ rewardLock'[c].at = rewardLock[c].at
<1>2. ASSUME NEW w \in Workers, LockReward(w) PROVE Goal
  <2>1. PICK i \in Uploads : i = run[w].upload /\ Finalized(i)
    BY <1>0, <1>2, RunningUpload DEF LockReward
  <2>2. intent[i].claim \in Claims BY <1>0, <2>1, ClaimOfSubmission DEF Finalized
  <2>3. \/ rewardLock' = rewardLock
        \/ /\ LockOpen(intent[i].claim)
           /\ rewardLock' = [rewardLock EXCEPT ![intent[i].claim] = EarnedLock(i)]
    BY <1>2, <2>1 DEF LockReward
  <2>4. CASE c = intent[i].claim
    <3>1. i \in SubmissionsOf(c) BY <2>1, <2>4 DEF SubmissionsOf
    <3> QED BY <1>1, <2>3, <2>4, <3>1
  <2>5. CASE c # intent[i].claim BY <1>1, <2>3, <2>5
  <2> QED BY <2>4, <2>5
<1>3. ASSUME NEW i \in Uploads, InvalidateRewardLock(i) PROVE Goal
  BY <1>1, <1>3 DEF InvalidateRewardLock
<1>4. ASSUME NEW i \in Uploads, ApproveSubmission(i) PROVE Goal
  BY <1>1, <1>4 DEF ApproveSubmission
<1>5. ASSUME TaskNext PROVE Goal
  BY <1>5 DEF TaskNext, TransitionTask, SuspendAccount, ReactivateAccount,
     ClaimRandomAssignment, AbandonClaim, ExpireClaimIfDue, HandBack, Tick, claimTable
<1>6. ASSUME SubmissionNext,
             \A w \in Workers : ~LockReward(w),
             \A i \in Uploads : ~InvalidateRewardLock(i) /\ ~ApproveSubmission(i)
      PROVE  rewardLock' = rewardLock
  BY <1>6 DEF SubmissionNext, CreateUploadIntent, FinalizeUpload, BurnIntent,
     ReplayFinalize, RequeueStale, ReplayVerdict, StartValidation, DeliveryFailed,
     PassValidation, FailValidation, Verdict, RefuseLock, WorkerLost, JobFailed,
     RequireRevision, rows, claimTable
<1> HIDE DEF Goal
<1>7. Goal
  <2>1. rewardLock' = rewardLock => Goal BY DEF Goal
  <2>2. CASE TaskNext BY <1>5, <2>2
  <2>3. CASE SubmissionNext BY <1>2, <1>3, <1>4, <1>6, <2>1, <2>3
  <2> QED BY <2>2, <2>3 DEF Next
<1> QED BY <1>7 DEF Goal

-----------------------------------------------------------------------------
(* Every lock that stands was earned, and stands until a reviewer acts.     *)

Standing == {"PROVISIONAL", "CONFIRMED"}

\* What EarnedLock computes is what EarnedBy asks for.
LEMMA EarnedLockIsEarned ==
    ASSUME NEW c \in Claims, NEW i \in SubmissionsOf(c), rewardLock'[c] = EarnedLock(i)
    PROVE  /\ rewardLock'[c].at = submission[i].at
           /\ rewardLock'[c].points = RewardPoints(BaseReward[TaskOfClaim(c)],
                 IF submission[i].at >= terms[c].grace THEN FractionLate
                 ELSE RewardFraction(submission[i].at, terms[c].deadline))
<1>1. intent[i].claim = c BY DEF SubmissionsOf
<1> QED BY <1>1 DEF EarnedLock, LockFraction, OutsideWindow, WindowClosed

LEMMA LockIsEarnedStep ==
    ASSUME IInv, LockIsEarned, [Next]_vars
    PROVE  LockIsEarned'
<1>0. TypeOK /\ Shape BY DEF IInv, Shape
<1>1. CASE UNCHANGED vars
  BY <1>1 DEF vars, claimTable, uploadTables, LockIsEarned, SubmissionsOf, Finalized,
     EarnedBy, TaskOfClaim
<1>2. CASE Next
  <2> SUFFICES ASSUME NEW c \in Claims, rewardLock'[c].status \in Standing
               PROVE  \E i \in SubmissionsOf(c)' : EarnedBy(c, i)'
    BY DEF LockIsEarned, Standing
  <2>1. ASSUME NEW i \in SubmissionsOf(c),
               rewardLock'[c].at = submission[i].at,
               rewardLock'[c].points = RewardPoints(BaseReward[TaskOfClaim(c)],
                  IF submission[i].at >= terms[c].grace THEN FractionLate
                  ELSE RewardFraction(submission[i].at, terms[c].deadline))
        PROVE  \E j \in SubmissionsOf(c)' : EarnedBy(c, j)'
    <3>1. i \in Uploads /\ Finalized(i) /\ intent[i].claim = c
      BY <2>1 DEF SubmissionsOf
    <3>2. i \in SubmissionsOf(c)'
      BY <1>0, <1>2, <3>1, SubmissionsStay DEF SubmissionsOf
    <3>3. submission'[i] = submission[i]
      BY <1>0, <1>2, <3>1, SubmittedAtStays
    <3>4. claimStatus[c] # "UNUSED"
      BY <1>0, <3>1, ClaimOfSubmission DEF Finalized
    <3>5. terms'[c] = terms[c] BY <1>2, <3>4, TermsStay
    <3>6. EarnedBy(c, i)' BY <2>1, <3>3, <3>5 DEF EarnedBy, TaskOfClaim
    <3> QED BY <3>2, <3>6
  <2>2. ASSUME rewardLock[c].status \in Standing,
               rewardLock'[c].at = rewardLock[c].at,
               rewardLock'[c].points = rewardLock[c].points
        PROVE  \E i \in SubmissionsOf(c)' : EarnedBy(c, i)'
    <3>1. PICK i \in SubmissionsOf(c) : EarnedBy(c, i)
      BY <2>2 DEF LockIsEarned, Standing
    <3> QED BY <2>1, <2>2, <3>1 DEF EarnedBy
  <2>3. ASSUME NEW i \in SubmissionsOf(c), rewardLock'[c] = EarnedLock(i)
        PROVE  \E j \in SubmissionsOf(c)' : EarnedBy(c, j)'
    BY <2>1, <2>3, EarnedLockIsEarned
  <2> QED BY <1>2, <2>2, <2>3, LockEffect DEF Standing
<1> QED BY <1>1, <1>2

\* Whatever a lock holds was computed from one submission of its own claim,
\* at the instant that submission was made; nothing a late, repeated or
\* overtaken job does gives it the points of another instant.
THEOREM LocksAreEarned == Spec => []LockIsEarned
<1>1. Init => LockIsEarned BY DEF Init, LockIsEarned, NoLock
<1> QED BY <1>1, LockIsEarnedStep, InvariantAlways, PTL DEF Spec

\* The points of a provisional lock are confirmed as they are or taken away
\* by a reviewer, and by nobody else.
THEOREM LocksArePreserved == Spec => LockPreserved
<1> DEFINE Kept(c) ==
              rewardLock[c].status = "PROVISIONAL" =>
              \/ rewardLock'[c].status \in {"PROVISIONAL", "CONFIRMED"}
                 /\ rewardLock'[c].points = rewardLock[c].points
                 /\ rewardLock'[c].at = rewardLock[c].at
              \/ rewardLock'[c].status = "INVALIDATED" /\ rewardLock'[c].points = 0
<1>1. ASSUME IInv, [Next]_vars PROVE \A c \in Claims : Kept(c)
  <2>1. CASE Next BY <1>1, <2>1, LockEffect DEF LockOpen
  <2>2. CASE UNCHANGED vars BY <2>2 DEF vars, claimTable
  <2> QED BY <1>1, <2>1, <2>2
<1>2. IInv /\ [Next]_vars => [\A c \in Claims : Kept(c)]_vars BY <1>1
<1>3. Spec => [][Next]_vars BY DEF Spec
<1> QED BY <1>2, <1>3, InvariantAlways, PTL DEF LockPreserved

-----------------------------------------------------------------------------
(* The verdicts, and the file under validation.                            *)

\* Only finalized submissions are validated, and a verdict is replaced by
\* another verdict or not at all.
LEMMA ValidationEffect ==
    ASSUME Shape, Next, NEW i \in Uploads
    PROVE  \/ validation'[i] = validation[i]
           \/ Finalized(i) /\ validation'[i] \in Verdicts
           \/ /\ Finalized(i)
              /\ validation[i] \notin Verdicts /\ validation'[i] = "VALIDATING"
              /\ ~Actionable(intent[i].claim)'
<1>0. TypeOK BY DEF Shape
<1> DEFINE Goal == \/ validation'[i] = validation[i]
                   \/ Finalized(i) /\ validation'[i] \in Verdicts
                   \/ /\ Finalized(i)
                      /\ validation[i] \notin Verdicts /\ validation'[i] = "VALIDATING"
                      /\ ~Actionable(intent[i].claim)'
<1>1. ASSUME NEW w \in Workers, NEW j \in Uploads, StartValidation(w, j) PROVE Goal
  <2>1. Finalized(j)
    BY <1>1 DEF StartValidation, Take, Shape, ReferencesHold, JobReferences
  <2>2. intent[j].claim \in Claims /\ intent' = intent
    BY <1>1, <2>1, ClaimOfSubmission DEF StartValidation, Finalized
  <2>3. /\ validation' = [validation EXCEPT ![j] = "VALIDATING"]
        /\ validation[j] \notin Verdicts
    BY <1>1 DEF StartValidation
  <2>4. claimStatus'[intent[j].claim] \notin ActionableStatuses
    <3>1. CASE Actionable(intent[j].claim)
      BY <1>0, <1>1, <2>2, <3>1 DEF TypeOK, StartValidation, ActionableStatuses
    <3>2. CASE ~Actionable(intent[j].claim)
      BY <1>1, <3>2 DEF StartValidation, Actionable
    <3> QED BY <3>1, <3>2
  <2>5. CASE i = j
    BY <1>0, <2>1, <2>2, <2>3, <2>4, <2>5 DEF TypeOK, Actionable
  <2>6. CASE i # j BY <1>0, <2>3, <2>6 DEF TypeOK
  <2> QED BY <2>5, <2>6
<1>2. ASSUME NEW w \in Workers, PassValidation(w) \/ FailValidation(w) PROVE Goal
  <2>1. PICK j \in Uploads : j = run[w].upload /\ Finalized(j)
    BY <1>2, RunningUpload DEF PassValidation, FailValidation
  <2>2. PICK outcome \in Verdicts : validation' = [validation EXCEPT ![j] = outcome]
    BY <1>2, <2>1 DEF PassValidation, FailValidation, Verdict, Verdicts
  <2> QED BY <1>0, <2>1, <2>2 DEF TypeOK
<1>3. ASSUME TaskNext PROVE Goal
  BY <1>3 DEF TaskNext, TransitionTask, SuspendAccount, ReactivateAccount,
     ClaimRandomAssignment, AbandonClaim, ExpireClaimIfDue, HandBack, Tick, pipeline,
     uploadTables
<1>4. ASSUME SubmissionNext,
             \A w \in Workers, j \in Uploads : ~StartValidation(w, j),
             \A w \in Workers : ~PassValidation(w) /\ ~FailValidation(w)
      PROVE  validation' = validation
  BY <1>4 DEF SubmissionNext, CreateUploadIntent, FinalizeUpload, BurnIntent,
     ReplayFinalize, RequeueStale, ReplayVerdict, DeliveryFailed, LockReward, RefuseLock,
     WorkerLost, JobFailed, RequireRevision, InvalidateRewardLock, SendBack,
     ApproveSubmission, rows, uploadTables
<1> HIDE DEF Goal
<1>5. Goal
  <2>1. validation' = validation => Goal BY DEF Goal
  <2>2. CASE TaskNext BY <1>3, <2>2
  <2>3. CASE SubmissionNext BY <1>1, <1>2, <1>4, <2>1, <2>3
  <2> QED BY <2>2, <2>3 DEF Next
<1> QED BY <1>5 DEF Goal

\* A verdict may be overwritten by a twin of the job, but no scan, redelivery
\* or late job makes a judged file an unjudged one.
THEOREM VerdictsAreKept == Spec => VerdictNotRevoked
<1> DEFINE Kept == \A i \in Uploads : validation[i] \in Verdicts => validation'[i] \in Verdicts
<1>1. ASSUME IInv, [Next]_vars PROVE Kept
  <2>1. CASE Next BY <1>1, <2>1, ValidationEffect DEF IInv
  <2>2. CASE UNCHANGED vars BY <2>2 DEF vars, uploadTables
  <2> QED BY <1>1, <2>1, <2>2
<1>2. IInv /\ [Next]_vars => [Kept]_vars BY <1>1
<1>3. Spec => [][Next]_vars BY DEF Spec
<1> QED BY <1>2, <1>3, InvariantAlways, PTL DEF VerdictNotRevoked

\* What the pipeline granted, points or verdict, it does not take back.
THEOREM NothingIsTakenBack == Spec => NothingTakenBack
BY LocksArePreserved, VerdictsAreKept DEF NothingTakenBack

\* A file that was not finalized has not been looked at: without it a claim
\* could be pointed at a file that is already being validated.
UnfinalizedIsFresh ==
    \A i \in Uploads : ~Finalized(i) => validation[i] = "UPLOADED"

LEMMA UnfinalizedStep ==
    ASSUME Shape, UnfinalizedIsFresh, [Next]_vars
    PROVE  UnfinalizedIsFresh'
<1>1. CASE Next
  BY <1>1, SubmissionsStay, ValidationEffect DEF UnfinalizedIsFresh
<1>2. CASE UNCHANGED vars
  BY <1>2 DEF vars, uploadTables, UnfinalizedIsFresh, Finalized
<1> QED BY <1>1, <1>2

\* The steps that put a claim into the student's hands: a draw, a verdict
\* that fails its newest file, and a reviewer of a validated one.
LEMMA ActionableEffect ==
    ASSUME Shape, Next, NEW c \in Claims, Actionable(c)', ~Actionable(c)
    PROVE  \/ claimStatus[c] = "UNUSED"
           \/ /\ latest' = latest /\ latest[c] \in Uploads
              /\ validation'[latest[c]] \in Verdicts
<1>0. TypeOK BY DEF Shape
<1> DEFINE Goal == \/ claimStatus[c] = "UNUSED"
                   \/ /\ latest' = latest /\ latest[c] \in Uploads
                      /\ validation'[latest[c]] \in Verdicts
<1>1. ASSUME claimStatus'[c] = claimStatus[c] PROVE FALSE
  BY <1>1 DEF Actionable
<1>2. ASSUME TaskNext PROVE Goal
  <2>1. ASSUME NEW u \in Students, NEW t \in Tasks, NEW a \in Assignments,
               NEW d \in Claims, ClaimRandomAssignment(u, t, a, d)
        PROVE  Goal
    BY <1>0, <1>1, <2>1 DEF TypeOK, ClaimRandomAssignment
  <2>2. ASSUME NEW d \in Claims, NEW s \in HandedBackStatuses, HandBack(d, s)
        PROVE  FALSE
    BY <1>0, <1>1, <2>2 DEF TypeOK, HandBack, Actionable, ActionableStatuses,
       HandedBackStatuses
  <2> HIDE DEF Goal
  <2> QED
    BY <1>1, <1>2, <2>1, <2>2 DEF TaskNext, TransitionTask, SuspendAccount,
       ReactivateAccount, AbandonClaim, ExpireClaimIfDue, Tick, HandedBackStatuses,
       claimTable
<1>3. ASSUME NEW w \in Workers, FailValidation(w) PROVE Goal
  <2>1. PICK i \in Uploads : i = run[w].upload
    BY <1>3, RunningUpload DEF FailValidation
  <2>2. /\ validation' = [validation EXCEPT ![i] = "VALIDATION_FAILED"]
        /\ latest' = latest
        /\ RestoreActionableClaim(i)
    BY <1>3, <2>1 DEF FailValidation, Verdict
  <2>3. latest[c] = i
    BY <1>0, <1>1, <2>2 DEF TypeOK, RestoreActionableClaim
  <2> QED BY <1>0, <2>1, <2>2, <2>3 DEF TypeOK, Verdicts
<1>4. ASSUME NEW i \in Uploads, RequireRevision(i) \/ InvalidateRewardLock(i) PROVE Goal
  <2>1. Reviewable(i) /\ SendBack(i)
    BY <1>4 DEF RequireRevision, InvalidateRewardLock
  <2>2. c = intent[i].claim BY <1>0, <1>1, <2>1 DEF TypeOK, SendBack
  <2> QED BY <2>1, <2>2 DEF SendBack, Reviewable, Verdicts
<1>5. ASSUME NEW w \in Workers, NEW i \in Uploads, StartValidation(w, i) PROVE FALSE
  BY <1>0, <1>1, <1>5 DEF TypeOK, StartValidation, Actionable, ActionableStatuses
<1>6. ASSUME NEW w \in Workers, LockReward(w) PROVE FALSE
  BY <1>0, <1>1, <1>6 DEF TypeOK, LockReward, Actionable, ActionableStatuses
<1>7. ASSUME NEW i \in Uploads, ApproveSubmission(i) PROVE FALSE
  BY <1>0, <1>1, <1>7 DEF TypeOK, ApproveSubmission, Actionable, ActionableStatuses
<1>8. ASSUME SubmissionNext,
             \A w \in Workers, i \in Uploads : ~StartValidation(w, i),
             \A w \in Workers : ~FailValidation(w) /\ ~LockReward(w),
             \A i \in Uploads : /\ ~RequireRevision(i) /\ ~InvalidateRewardLock(i)
                                /\ ~ApproveSubmission(i)
      PROVE  claimStatus' = claimStatus
  BY <1>8 DEF SubmissionNext, CreateUploadIntent, FinalizeUpload, BurnIntent,
     ReplayFinalize, RequeueStale, ReplayVerdict, DeliveryFailed, PassValidation,
     RefuseLock, WorkerLost, JobFailed, rows, claimTable
<1> HIDE DEF Goal
<1>9. ASSUME SubmissionNext PROVE Goal
  BY <1>1, <1>3, <1>4, <1>5, <1>6, <1>7, <1>8, <1>9
<1> QED BY <1>2, <1>9 DEF Next, Goal

LEMMA ValidatingIsProtectedStep ==
    ASSUME Shape, UnfinalizedIsFresh, ValidatingIsProtected, [Next]_vars
    PROVE  ValidatingIsProtected'
<1>1. CASE UNCHANGED vars
  BY <1>1 DEF vars, claimTable, uploadTables, ValidatingIsProtected, Actionable
<1>2. CASE Next
  <2> SUFFICES ASSUME NEW c \in Claims, latest'[c] # Null,
                      validation'[latest'[c]] = "VALIDATING", Actionable(c)'
               PROVE  FALSE
    BY DEF ValidatingIsProtected
  <2>1. ASSUME NEW i \in Uploads, FinalizeUpload(i) PROVE FALSE
    <3>1. claimStatus' = claimStatus /\ validation' = validation
      BY <2>1 DEF FinalizeUpload
    <3>2. CASE c = intent[i].claim
      BY <2>1, <3>1, <3>2, FinalizeEffect DEF UnfinalizedIsFresh
    <3>3. CASE c # intent[i].claim
      BY <2>1, <3>1, <3>3, FinalizeEffect DEF ValidatingIsProtected, Actionable
    <3> QED BY <3>2, <3>3
  <2>2. CASE \A i \in Uploads : ~FinalizeUpload(i)
    <3>1. latest' = latest BY <1>2, <2>2, SameSubmissions
    <3>2. PICK i \in SubmissionsOf(c) : i = latest[c]
      BY <3>1 DEF Shape, ReferencesHold, ClaimReferences
    <3>3. i \in Uploads /\ intent[i].claim = c BY <3>2 DEF SubmissionsOf
    <3>4. validation'[i] \notin Verdicts BY <3>1, <3>2 DEF Verdicts
    <3>5. intent'[i].claim = c
      BY <1>2, <3>2, <3>3, SubmissionsStay DEF SubmissionsOf
    <3>6. validation[i] = "VALIDATING"
      BY <1>2, <3>1, <3>2, <3>3, <3>4, <3>5, ValidationEffect
    <3>7. ~Actionable(c) BY <3>1, <3>2, <3>6 DEF ValidatingIsProtected
    <3>8. claimStatus[c] = "UNUSED"
      BY <1>2, <3>2, <3>4, <3>7, ActionableEffect
    <3> QED BY <3>1, <3>8 DEF Shape, ReferencesHold, ClaimReferences
  <2> QED BY <2>1, <2>2
<1> QED BY <1>1, <1>2

\* While the newest file of a claim is being validated the claim cannot be
\* expired, abandoned or given another file.
THEOREM ValidatingAlwaysProtected == Spec => []ValidatingIsProtected
<1>1. Init => UnfinalizedIsFresh /\ ValidatingIsProtected
  BY DEF Init, UnfinalizedIsFresh, ValidatingIsProtected
<1>2. IInv => Shape BY DEF IInv
<1> QED
  BY <1>1, <1>2, UnfinalizedStep, ValidatingIsProtectedStep, InvariantAlways, PTL DEF Spec

=============================================================================
