----------------------------- MODULE ClaimTables -----------------------------
(***************************************************************************)
(* The rows that the task side and the submission side of CampusQuest share *)
(* (tasks/models.py, submissions/models.py), the queries both sides make of *)
(* them, and the broker's view of the validation jobs.                      *)
(*                                                                         *)
(* A claim or upload identity is allocated once and never reused, like the  *)
(* UUID keys of the tables.  An upload is the UploadIntent row together     *)
(* with the Submission row it is consumed by: the code pairs them one to    *)
(* one (finalized_submission_id).  Instants start at 1; 0 stands for NULL.  *)
(***************************************************************************)
EXTENDS Deadlines, FiniteSets

CONSTANTS
    Students,          \* the student accounts
    Tasks,             \* the tasks
    Assignments,       \* the task units
    Claims,            \* identities for assignment_claims rows
    Uploads,           \* identities for upload intents and their submissions
    Workers,           \* Celery worker processes that run validation jobs
    Null,              \* the NULL of a foreign key
    TaskOf,            \* the task of a unit
    Policy,            \* the deadline policy of a task
    Cutoff,            \* claim_cutoff_minutes of a task
    BaseReward,        \* base_reward_points of a task
    MaxActiveClaims,   \* MAX_ACTIVE_CLAIMS, 3 in the code
    DailyAbandonLimit, \* ABANDON_DAILY_LIMIT, 2 in the code
    DayLength,         \* length of a business day
    RevisionWindow,    \* _REVISION_WINDOW, 24 hours in the code
    IntentTtl,         \* intent_ttl of an upload intent
    RequeueAfter,      \* stale_validating_requeue_seconds
    DispatchGrace      \* uploaded_dispatch_grace_seconds

ASSUME TablesAssumption ==
    /\ Null \notin Students \cup Assignments \cup Claims \cup Uploads
    /\ TaskOf \in [Assignments -> Tasks]
    /\ Policy \in [Tasks -> [mode : {"FIXED", "RELATIVE"}, at : Nat \ {0}]]
    /\ Cutoff \in [Tasks -> Nat]
    /\ BaseReward \in [Tasks -> Nat \ {0}]
    /\ {MaxActiveClaims, DailyAbandonLimit, RequeueAfter, DispatchGrace} \subseteq Nat
    /\ {DayLength, RevisionWindow, IntentTtl} \subseteq Nat \ {0}

VARIABLES
    account,       \* users.status, ACTIVE or not
    taskStatus,    \* tasks.status
    availability,  \* assignments.availability_status
    \* assignment_claims, the columns fixed at the insert in one record
    claimStatus, terms, revision, terminalAt, rewardLock, latest,
    \* upload_intents and submissions, likewise
    intent, submission, validation, runAt, review,
    paid,          \* points granted by the ASSIGNMENT_REWARD entry of a claim
    queue,         \* deliveries of validate_submission waiting per submission
    run,           \* what each worker is doing
    now            \* the database clock

boardTables  == <<account, taskStatus, availability>>
claimTable   == <<claimStatus, terms, revision, terminalAt, rewardLock, latest>>
uploadTables == <<intent, submission, validation, runAt, review>>

vars == <<boardTables, claimTable, uploadTables, paid, queue, run, now>>

-----------------------------------------------------------------------------
TaskStatuses   == {"DRAFT", "PUBLISHED", "PAUSED", "CLOSED", "ARCHIVED"}
Availabilities == {"AVAILABLE", "OCCUPIED", "COMPLETED"}   \* RETIRED is never written

\* QUOTA_OCCUPYING_STATUSES, which expiry, abandon and upload share.
ActionableStatuses == {"CLAIMED", "REVISION_REQUIRED"}
ActiveStatuses     == ActionableStatuses \cup {"VALIDATING", "UNDER_REVIEW"}
\* REASSIGN_EXCLUDED_STATUSES: the unit was handed back.
HandedBackStatuses == {"ABANDONED", "EXPIRED"}
TerminalStatuses   == HandedBackStatuses \cup {"COMPLETED"}
ClaimStatuses      == ActiveStatuses \cup TerminalStatuses

\* A claim's student and unit, and its deadlines, computed at the claim.
Terms == [user : Students \cup {Null}, unit : Assignments \cup {Null},
          deadline : Int, grace : Int]

NoTerms == [user |-> Null, unit |-> Null, deadline |-> 0, grace |-> 0]

\* What a lock may hold: a tier of some task's base reward, or nothing.
PayScale == {RewardPoints(BaseReward[t], f) : t \in Tasks, f \in Fractions}

LockStatuses == {"NONE", "PROVISIONAL", "CONFIRMED", "INVALIDATED"}
RewardLock   == [status : LockStatuses, points : PayScale \cup {0}, at : Int]

NoLock == [status |-> "NONE", points |-> 0, at |-> 0]

\* OPEN: an unconsumed intent; BURNED: consumed without a submission;
\* FINALIZED: consumed by its submission.  expires is kept while the intent
\* is open, and runAt, the start of the newest run, while the submission is
\* VALIDATING: nothing reads them at other times.
Intent   == [state : {"UNUSED", "OPEN", "BURNED", "FINALIZED"},
             claim : Claims \cup {Null}, expires : Int]
NoIntent == [state |-> "UNUSED", claim |-> Null, expires |-> 0]

Submission   == [version : Int, at : Int]      \* at: submitted_at
NoSubmission == [version |-> 0, at |-> 0]

Verdicts            == {"VALIDATED", "VALIDATION_FAILED"}
ValidationStatuses  == {"UPLOADED", "VALIDATING"} \cup Verdicts
ReviewStatuses      == {"PENDING_REVIEW", "APPROVED", "REVISION_REQUIRED"}

\* A job is between the two transactions of validate_submission ("parsing"),
\* or between validate_submission and on_validation_passed ("locking").
WorkerStates == [pc : {"idle", "parsing", "locking"}, upload : Uploads \cup {Null}]
Idle         == [pc |-> "idle", upload |-> Null]

TypeOK ==
    /\ account \in [Students -> {"ACTIVE", "SUSPENDED"}]
    /\ taskStatus \in [Tasks -> TaskStatuses]
    /\ availability \in [Assignments -> Availabilities]
    /\ claimStatus \in [Claims -> ClaimStatuses \cup {"UNUSED"}]
    /\ terms \in [Claims -> Terms]
    /\ revision \in [Claims -> Int]
    /\ terminalAt \in [Claims -> Int]
    /\ rewardLock \in [Claims -> RewardLock]
    /\ latest \in [Claims -> Uploads \cup {Null}]
    /\ intent \in [Uploads -> Intent]
    /\ submission \in [Uploads -> Submission]
    /\ validation \in [Uploads -> ValidationStatuses]
    /\ runAt \in [Uploads -> Int]
    /\ review \in [Uploads -> ReviewStatuses]
    /\ paid \in [Claims -> PayScale \cup {0}]
    /\ queue \in [Uploads -> Nat]
    /\ run \in [Workers -> WorkerStates]
    /\ now \in Nat

-----------------------------------------------------------------------------
\* Queries that several services make.  "UNUSED" marks a claim identity that
\* has no row yet.
Actionable(c) == claimStatus[c] \in ActionableStatuses
Active(c)     == claimStatus[c] \in ActiveStatuses
Terminal(c)   == claimStatus[c] \in TerminalStatuses

ActiveClaims(u) == {c \in Claims : terms[c].user = u /\ Active(c)}
TaskOfClaim(c)  == TaskOf[terms[c].unit]

Finalized(i)      == intent[i].state = "FINALIZED"
SubmissionsOf(c)  == {i \in Uploads : Finalized(i) /\ intent[i].claim = c}

\* effective_expiry_deadline: the revision window extends the grace period.
EffectiveExpiryDeadline(c) == LatestOf(terms[c].grace, revision[c])

=============================================================================
