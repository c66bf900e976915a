# CampusQuest: verification project

CampusQuest (`backend/app`, FastAPI + PostgreSQL + Redis + Celery) hands task units to
students, validates the files they upload, locks and pays point rewards, and lets
them redeem points; around this core it has accounts with several ways to log in,
administration, notifications, file retention, boards and honors, a community, and
project teams with reviews and recruitment. This directory holds TLA+ models of
these parts, TLC configurations that check them on small instances, and TLAPS
proofs of what matters most for every value of the constants.

Paths below are relative to `src/backend/app` unless they start with `src/`.

## 1. Inventory

| Part | State it keeps | Operations | Hard behaviour | What makes it correct |
|---|---|---|---|---|
| Deadline and reward arithmetic (`modules/tasks/deadlines.py`) | none | claim deadlines, tier, floor of points | boundaries | table of the docstring; lateness never pays |
| Task state machine (`tasks/service.py`, `collaborator_service.py`) | `tasks`, collaborators | create, edit, publish, pause, resume, close, archive, grant | publish gate, two desks at one task | a published contract stays whole; nobody gives more than they have |
| Allocation, abandon, expiry (`tasks/claim_service.py`, `abandon_service.py`, `workers/jobs/expire_claims.py`) | `assignments`, `assignment_claims` | random draw, abandon, expiry scan | row locks of user, task, unit and claim; `SKIP LOCKED`; clock sampled under locks | one holder; never the same unit twice; limits |
| Uploads (`submissions/upload_service.py`) | `upload_intents`, `submissions`, `latest_submission_id` | create intent, finalize, replay, burn | commit first, enqueue after | single use, dense versions, newest is latest |
| Validation job (`validation_service.py`, `workers/jobs/validate_submission.py`) | `validation_status`, run rows, claim status | tx1, sandbox, tx2, chained reward lock | at-least-once delivery, worker death, twins | every file gets a verdict; a running file keeps its claim |
| Recovery scan (`workers/jobs/requeue_stale_validating.py`) | none | re-dispatch of stale rows | races with live jobs | nothing is stranded |
| Reward lock (`reward_lock_service.py`) | reward columns of the claim | first lock, re-lock with clamp, preserve | jobs finishing out of order | the lock is earned and stands |
| Teacher review (`review_service.py`) | `review_status`, claim, unit, grant | require revision, invalidate, approve | decisions race jobs, expiry and each other | paid exactly once, iff completed |
| Points ledger and wallet (`points/ledger_service.py`) | append-only ledger, wallets | post, grant, reverse | idempotent grant, reversal races | wallet equals the ledger; one reversal |
| Reward shop (`points/redemption_service.py`, `admin_service.py`) | items, redemptions, reservations, the right to review | request, decide, fulfil, edit; grant and revoke the right | row-lock order; derived stock and limits | no oversell, no double charge; history explains the rights |
| Notifications (`notifications/`) | deliveries with attempts and a claim instant | record, send, finalize, retry, recover | provider call between two transactions | bounded attempts, one live sender, everything resolved |
| File cleanup (`files/cleanup_service.py`, `workers/jobs/cleanup_files.py`) | lease columns of submissions and intents | claim, delete, release, mark | lease expiry, fencing token, review entry | no file deleted that is needed; everything reclaimed |
| Boards and honors (`rankings/`) | Redis projection, honor rows | project, rebuild, evaluate | best effort after commit, Redis lost | projection of the ledger; honors deserved |
| Sessions (`identity/session_service.py`) | refresh-token rows | login, rotate, replay, logout, revoke | lost and late replies | one live successor per token; ended is ended |
| Codes and ways in (`identity/otp.py`, `login_failure_guard.py`, `*_login_service.py`, `unified_login_service.py`) | Redis keys with a time to live, challenges, devices | request, verify, consume, lock | Redis commands one by one; crashes; message failures | one proof per code; limits that end |
| Staff and roles (`staff_service.py`, `admin_power_service.py`) | invitations, authenticators, roles | invite, enrol, change roles, kick | two windows; last administrator | one account per link; an administrator is left |
| Contacts and passwords (`profile_service.py`, `email_verification.py`) | phone, e-mail, password, stamps | bind, verify, change, reset | a proof spent after the world changed | a ticket serves once, for what it proved |
| Admission (routers, `identity/dependencies.py`, `core/admin_network_policy.py`, `integrations/rate_limit.py`) | rows of the caller, policy, limiter windows | every endpoint's gate | statements of a gate interleave with changes | the gate's rule, under the policy in force |
| System settings (`system/service.py`) | settings, audit trail | read, write | two keys that must fit together | a loadable policy; a chain of audit rows |
| Community (`community/`) | comments, votes, reports, ratings | post, edit, delete, hide, moderate, vote | concurrent inserts, hiding a subtree | moderation is audited and reaches all |
| Innovation (`innovation/`) | projects, recruitment, talent, reviews, evidence | versioned edits, review workflow, leases | stale tabs, checks outside transactions | what is decided, shown and published is what was seen |
| Import and parsers (`tasks/import_*`, `submissions/validation_runner.py`) | preview tokens | preview, confirm; parse in a sandbox | races of confirmations | lands whole or not at all |
| Integrations, configuration, front end, migrations | provider state | I/O | provider failure | not modelled |

How the parts meet: all services share PostgreSQL and serialise on row locks in
short transactions (READ COMMITTED). The API commits and then enqueues Celery
jobs; jobs are delivered at least once (`acks_late`, reject on worker loss), and
beat scans rediscover rows whose job was lost. The claim row is the meeting point
of allocation, the validation pipeline and review; the grant at approval is the
only way from it into the ledger; boards and honors follow the ledger by jobs after
the commit. Redis keys (codes, counters, boards) are changed command by command and
belong to no transaction.

## 2. Modules

| Module | Models | From |
|---|---|---|
| `Deadlines`, `RewardSchedule` | the arithmetic with the tier widths as parameters; one claim handed in later and later | `tasks/deadlines.py` |
| `ClaimTables` | the rows both halves of the lifecycle share, one function per column, and the queries several services make | `tasks/models.py`, `submissions/models.py` |
| `TaskClaims` | draw, abandon, expiry, task transitions, account status, the clock | `tasks/`, `workers/jobs/expire_claims.py` |
| `Submissions` | intents, the validation job with its faults, recovery scan, reward lock, review | `submissions/`, `workers/jobs/` |
| `ClaimLifecycle` | the composition of the two over the shared tables, its fairness and properties | the above together |
| `ClaimBoard` | the abstract promise: units are taken, returned or completed | implemented by `ClaimLifecycle` |
| `Points` | ledger, wallet, redemptions, catalogue, adjustments, as sessions that take row locks one by one | `points/`, `system/service.py` |
| `PointsAccount` | the abstract promise: entries, holds the balance covers, each released or spent once | implemented by `Points` |
| `Notifications` | recording, the two transactions of a send, both scans, the ladder of retries, read marks, forced failure | `notifications/`, `workers/jobs/` |
| `FileCleanup` | both pipelines of the cleanup with lease, token and takeover, against finalize and review | `files/cleanup_service.py`, `submissions/` |
| `Rankings`, `Honors` | boards under lost, doubled and failing jobs; approvals that commit out of the order of their times, evaluations racing for the rows of the catalogue | `rankings/`, `submissions/review_service.py` |
| `Sessions` | rotation, replay within the grace window, logout, revocation of an account | `identity/session_service.py` |
| `Otp` | phone challenges, caps and the failure counter, one Redis command per step | `identity/otp.py`, `login_failure_guard.py` |
| `Doors` | every way of logging in: cooldown, code row, message, proof, token | `identity/*_login_service.py` |
| `Staff`, `AdminRoles` | invitations, authenticators and recovery codes; role changes under the counting trigger | `identity/staff_service.py`, `admin_power_service.py` |
| `Credentials` | tickets that change a phone, an address or a password | `identity/profile_service.py` and others |
| `Access`, `Settings`, `RateLimit`, `Admission` | each endpoint's gate statement by statement; two editors of the settings; the limiter; the three together | routers, `identity/dependencies.py`, `core/`, `system/`, `integrations/rate_limit.py` |
| `Delegation` | the right to review rewards: guard, grant, revocation, audit | `points/admin_service.py` |
| `Comments`, `Feedback` | threads, edits, deletion, hiding; reports, votes, ratings, reactions | `community/` |
| `Recruitment`, `Reviews`, `Evidence`, `Talent` | a recruitment post and its scheduler; review cases; proofs checked under leases; profiles and their works | `innovation/` |
| `TaskDesk`, `TaskImport` | one task from several desks; imports previewed and confirmed side by side | `tasks/` |
| `MCClaimLifecycle`, `MCPoints`, `MCBackground`, `MCIdentity`, `MCCollaboration`, `MCRewards` | instances for TLC | |
| `ClaimLifecycleProofs`, `PointsProofs`, `RewardsProofs` | theorems about the lifecycle, the points, what a reward is, the boards and the honors | |
| `BackgroundProofs`, `IdentityProofs`, `AdmissionProofs`, `CollaborationProofs`, `CommunityProofs` | theorems about the other parts | |

**The lifecycle.** A row of `assignment_claims` is six columns of `ClaimTables`
(`claimStatus`, `terms`, `revision`, `terminalAt`, `rewardLock`, `latest`); an upload
identity is an intent together with the submission that consumes it, which the
code pairs one to one. `queue[i]` counts the deliveries of a submission's job that
wait at the broker, `run[w]` is the job a worker holds: `parsing` between tx1 and
tx2, `locking` between tx2 and the chained reward lock. An action is one
transaction, because the code makes it one: claim and abandon lock the user row
first and sample the clock after their last lock; expiry and review lock the claim
row and re-read everything they test; finalize holds account, claim and intent.
What the code does in several transactions is several actions: finalize and the
enqueue (which may be lost), tx1, the sandbox, tx2, the chained lock, the
acknowledgement. Between any two of them every other session runs.

**`Points`.** There the question is whether the row locks are enough, so a
transaction is several steps of a session: `Begin...` is what the code reads before
its first lock; `LockWallet` and `LockItem` take one lock and read what the code
reads under it into `seen`; the commit computes what it writes from `seen` alone, so
a value that has gone stale is written stale. Every refusal, every idempotent
replay and a lost connection is `Rollback`. `lock` is external: PostgreSQL's row locks,
held to the end of the transaction. The claims that are paid and their amounts are
constants here; that each is granted once, with a confirmed lock, is
`PaidIffCompleted` of the lifecycle.

**The other modules** follow one of these two grains, by the same rule. Where the code
holds a row lock from its first read to its commit, a step is the transaction
(`Recruitment`, `Reviews`, `FileCleanup`; an owner's page of `Reviews` is three requests, so a
submission may name versions that never were together); where it reads first and locks or
writes later, each statement is a step and what was read is kept in the record of the running
request (`Sessions` splits the snapshot of `revoke_all` from its write; `Delegation`,
`AdminRoles`, `TaskDesk`, `Access`; `Feedback` keeps the values a row has had since a request read
it; `Credentials` reads a row and later writes what it changed of it; an approval of `Honors` takes
its time in one step and commits in another; the recovery scan of `Notifications` selects a row in
one step and overwrites it in another); where a key lives in Redis, each
command is a step, crashes strike between any two, and a time to live is a
counter that runs down (`Otp`, `RateLimit`). A login-code handler is one step whose
uncommitted effects are rolled back when it refuses. A provider call lies between
two transactions and may succeed, fail or end unknown (`Notifications`, `FileCleanup`,
`Doors`).

Abstractions, and why they do not decide a property:

- Instants are integers, 0 is NULL; the clock advances by one and its bound is
  `MaxNow` (`MaxClock`, `MaxTime`). Only comparisons and sums of instants occur in the
  code. A lease or a time to live that would end past the bound ends at it.
- Request bodies, names and texts are tokens. A file is a token of its bytes; the
  sandbox verdict is open, also for two runs of one file, because a wall-clock
  timeout or a memory kill fails a file that passes elsewhere.
- Whoever may make a decision may make it at any time; who may is the subject of
  `Access`, `TaskDesk` and `Delegation`. `"OFF"` in these stands for SUSPENDED, BANNED
  and PENDING_PHONE alike, which every gate refuses alike.
- A unit is never `RETIRED`: no code writes that status. The repair of an occupied unit
  without a claim has no action: the invariants of `ClaimLifecycle` show that the
  state it repairs is unreachable.
- A job's transient retries are either a later delivery or, when exhausted,
  `JobFailed`. `now` of an expiry scan is the instant it locks; the scan's own
  clock is earlier by at most its run, which only delays an expiry.
- What another modelled part owns and a part only reads is read
  nondeterministically: the claim's status and the account in `Notifications`, the
  terms of a redemption in `Delegation`.
- Audit rows and events are modelled where a property or another part reads them
  (`Settings`, `Staff`, `AdminRoles`, `Credentials`, `Comments`, `Delegation`).
- `RateLimit` assumes that a call stalls less than one window between reading its
  clock and its INCR; the fallback to environment values in `Settings` is fixed.
- `Credentials` takes a code in one atomic spend (`Otp` shows why a code proves once) and
  joins the two locks and the write of a phone confirmation, with a lost code as an
  outcome of its own.

## 3. Runs

Twelve runs. A run about several machines that share no state puts them side by side:
a variable `area` names the one that moves in a behaviour, so every behaviour is one of
that machine alone, and a property of the sum is a property of each. Where the
product of two dimensions would only repeat itself, an area is split in two: `delivery` (two
workers, first texts) and `texts` (one worker, an administrator changes the texts);
`overlap` (jobs that overlap, one day) and `months` (one job at a time, the days of a
month); the proofs of a case and the uploads repeated after one; in `Points` the scopes "one
term" (every operation) and "no adjustment" (two terms, the points of the claim); `honors` (two
students) and `streak` (three approvals of one); `credentials` (every ticket, one request) and
`addresses` (two requests about e-mail addresses).
A contract gathers the type invariant, the invariants and the step properties
of one module; each of its conjuncts was broken by a mutant of its own when it was
written, and `PROJECT.json` records one of them.

| Run | Instance | Checks |
|---|---|---|
| `Alloc` | 2 students, 2 tasks (FIXED, RELATIVE), 2 units, 3 claims, business days of 3 instants, clock to 6 | `UnitsAgree`: availability and claims agree, one holder, never the same unit twice; `DailyAbandonLimitHolds` |
| `Pipeline` | 1 claim, 2 uploads, 2 workers, all faults, clock through every tier | `LockIsEarned`; `ValidatingIsProtected`; `NothingTakenBack`: a lock's amount and basis, and a verdict, stay |
| `Handover` | 2 units of one task, 2 students, 2 claims, 2 uploads, 1 worker, lost workers and failed jobs | `Shape`: types, references, numbering; `PaidIffCompleted`; `OneActiveClaimPerTask`; `TerminalClaimsFrozen`; `ImplementsClaimBoard` |
| `Recovery` | 1 claim, 2 uploads, 1 worker, all faults, fairness | `SubmissionGetsVerdict` |
| `Points` | 2 sessions, 2 students, 1 item offered scarce (price 2, stock 1) or limited (price 1, one per term), 2 redemptions, 1 claim worth 2, 1 adjustment, 2 terms | `WalletMatchesLedger`; `RowsAgree`: charged once, reversal cancels; `NoLockCycle`; `WithinLimits`: stock and term limit; `HistoryStands`: ledger append-only, decisions final; `ImplementsAccount` |
| `Background` | a reminder by SMS and one in the app, 2 workers, 2 attempts; 1 upload, 2 cleanup runs, clock to 4; fairness | `DeliveryContract`; `ResolvedEventually`; `CleanupContract`; `ObjectsReclaimed` |
| `Identity` | nine machines: sessions, codes, staff, roles, ways in, gates, settings, limiter, delegation | `EnrolmentSound`, `AdmissionSound`, `SessionContract`, `OtpContract` (with the liveness of the caps), `RolesContract`, `DoorContract`, `DelegationContract` |
| `Collaboration` | nine machines: threads, feedback, recruitment, reviews, evidence, talent, task desks, imports, credentials | `CommentContract`, `FeedbackContract`, `RecruitmentContract`, `ReviewContract`, `EvidenceContract`, `TalentContract`, `TasksContract`, `CredentialsContract` |
| `Rewards` | four policies, bases around the floors, every instant to grace; 2 students, 2 entries of 1 or 2 points, 2 projection jobs; 2 approvals at a time, up to 3 begun, 3 rules | `PaysByTheTable`, `LaterNeverPaysMore`, `BoardsSound`, `HonorsSound` |
| `OldFailure`, `LostLock`, `LockDissolves` | as `Pipeline` with 1 worker; as `Identity` | a statement of the code's own comments each, refuted (section 4) |

What the contracts say, in the order of the modules:

- `DeliveryContract`: SENT only after a message went out; given up only after the last
  attempt; one live sender; SENT and FAILED are final, except for a row the recovery scan had selected
  before it was settled (section 4); a read message stays read while it is in the inbox; its text
  is final.
- `CleanupContract`: a retained file exists, a file marked gone is gone, nothing is
  deleted while under review, a lease is released by its owner only.
- `EnrolmentSound`: one account from one accepted link, a confirmed authenticator was
  proven, the recovery codes shown last are the ones that work.
- `AdmissionSound`: each endpoint serves whom its gate names, a pending administrator
  only looks, the way back in stays open to everybody entitled; the pair of network keys
  stays loadable and its audit rows form a chain; a window of the limiter admits
  at most its limit and a refusal means that it did.
- `SessionContract`: one live token per login, a replay within the grace window finds
  it when it is not more rows ahead than a replay follows, an ended login stays ended. `OtpContract`: a code proves once, wrong attempts
  are bounded, a cap opens again. `DoorContract`: a stored code was sent, a failed
  message costs nothing, a token fits the account that was proved.
- `RolesContract`: among demotions, promotions, suspensions and reactivations a demotion leaves
  an active administrator, unless somebody became one between the two statements of its trigger
  (section 4).
  `DelegationContract`: a verdict passes under a grant that is there, audit rows
  explain the grants.
- `CommentContract`: versions complete, threads connected, each hiding audited and
  reaching the whole subtree, a first deletion stands. `FeedbackContract`: one closure per
  report; the row of a mark says what the request that committed last answers, unless that is that
  the vote was taken back; every answer was true at an instant of its request; a double click
  adds nothing twice.
- `RecruitmentContract`: revoked contacts stay hidden, EXPIRED is past its deadline, an
  open post has a contact, no burst of reminders, no refusal of what was applied, no
  question about what was confirmed.
- `ReviewContract`: one open case, decided by its holder; the achievement of a case stays as it
  was submitted, while the project may be saved meanwhile; revisions follow the saved versions of
  both and never go back; the public revision is the newest approved. `EvidenceContract`: what was cited stands, loose
  proofs are bounded, the bytes shown are the bytes cited.
- `TalentContract`: visible works are usable, contacts as shown, no lost edit, a file
  delivered was offered. `TasksContract`: a published contract is whole, its trail
  is a path, a grant comes from the giver's own; an import lands whole or not at all, a
  clash has a cause, inserts do not wait in a circle, a token serves once.
- `CredentialsContract`: a ticket serves once; a stamp is proved for its address, but for the two
  races of section 4 between a confirmation and an edit; phones are proved; a password
  change ends the authority of what came before it.
- `BoardsSound`: a board shows a sum the ledger has had, a board nobody is updating
  shows today's, ranks and neighbours fit. `HonorsSound`: an honor was reached, for a
  streak by the first so many claims to commit; what a finished evaluation has counted is granted;
  evaluations do not wait for each other.

**Deadlock.** `Points` and `Background` check it: a session can always begin or roll back,
the beat goes on. The other runs set `CHECK_DEADLOCK FALSE`: an instance does stop, when
the clock reaches its bound and the identities are used up. That nothing is stuck
earlier is what the liveness properties ask, and whether transactions wait for each
other is stated where locks are modelled one by one (`NoLockCycle`, `NoWaitCycle`, `NoInsertCycle`).

**Why the bounds are enough.** Two students and one unit are all a double allocation
needs; three claims let a unit go away and come back. Two submissions and two workers
give every order in which an old and a new job, or two copies of one job, can finish.
The clock passes the deadline, both tier boundaries, grace and the revision window. One
delivery in the queue plus one per worker is a duplicate of each job. `Recovery` sets
the two staleness thresholds to 0 because its clock stops: the scan must still be
enabled then, and a threshold only postpones it. In `Points` two sessions are every
pair of transactions; two redemptions compete for the last piece, the last use in a
term and the same points, and the administrator changes offer, shelf and term at
any moment. In `Background` the clock lasts for a stale claim, its takeover and the
second attempt, and for a retention, a lease and its expiry; two runs are the one that
sleeps past its lease and the one that takes over. Everywhere two requests of a kind
meet in every order of their steps, and a third is there where the property is about
a third seeing the outcome of a race (members, calls of the limiter, errands of the delegation).
`MaxStamps` = 3 lets two approvals on time commit around a late one that began before them. Awards
of 1 and 2, the first one 1, let a later entry tie or overtake. `Alloc` has no uploads: the half of
`UnitsAgree` about units completed by an approval is exercised in `Handover`, whose
approvals are steps of `ClaimBoard`, and proved in `UnitsAlwaysAgree`. `MaxCalls` bounds the
windows and checks of a profile together. The contracts with a theorem hold for every bound.

**Symmetry**, in runs without liveness only: workers and uploads in `Pipeline`; students, uploads,
units and claims in `Handover`; sessions, redemptions and terms in `Points`; projection jobs,
students and approvals in `Rewards`; in `Collaboration` the concurrent calls of every area, which share their names for this. The formulas checked there are
symmetric in them.

**Fairness.** Nothing people do is fair: nobody has to submit, review or log in.

- `WorkerFairness` (`Recovery`): beat runs the scan periodically (`workers/celery_app.py`),
  weak fairness of `RequeueStale`. A worker keeps taking deliveries and its steps end (the
  sandbox has a wall-clock limit): strong fairness of the job's steps, because a fault
  may disable a step for a while; faults have none, and may strike any attempt but
  not every attempt for ever.
- `NotificationFairness`: clock and both scans, of the recovery scan both its selection and its
  write, weakly; taking a message strongly, as a worker may
  be busy with another; a send that has begun ends; that it ends in time is strongly
  fair, because the provider timeouts are far below `StuckAfter`.
- `CleanupFairness`: the clock and the beginning and end of runs weakly; collecting and
  deleting strongly, since one run may be lost but not every run. The end of a claim is not
  fair: a review waits for a person, and `OldFailure` and `LostLock` show claims that stay open.
  So `ObjectsReclaimed` says of intents, unconditionally, that an object without a submission
  goes, and of the files of a claim that they go if the claim leaves the review for good.
- `OtpFairness`: time passes (weakly), a phone keeps asking and not every request dies between
  two commands (strongly). The counterexample to `LockDissolves` holds under it. In
  the sum of `Identity` it restricts only behaviours of the area `otp`; the others are
  free of liveness properties.

## 4. Where the code departs from its documents

Three runs check one statement of a comment each and find the counterexample;
`PROJECT.json` quotes the lines.

| Run | Statement | What happens |
|---|---|---|
| `OldFailure` | a terminal failure hands the claim back | the older of two files fails last and the claim stays VALIDATING |
| `LostLock` | row existence implies recovery | the chained lock fails for good after the verdict; no scan looks for it |
| `LockDissolves` | the lock dissolves 15 minutes after the first failure | a login dies between INCR and EXPIRE; the counter has no end and locks the account |

Others were met while modelling. The models do what the code does, and the properties
state what does hold.

- Lifecycle: the quota of claims bounds only the draw, a failed validation returns a claim
  above it. The slower of two runs of one file overwrites the verdict, and the two may differ.
  A base reward below 5 floors to 0 and can never be approved. A reversal does not
  lower `earned_points` (`points/models.py:221` against `points/ledger_service.py:475`). An older
  file that passes after the newest failed takes the claim under review although only the
  newest can be reviewed. A redelivered job takes a claim that was sent back under
  review again; no payment depends on it. The file validated first sets the tier. The
  first lock past its window, which `reward_lock_service.py` calls unreachable, is met when
  an earlier one was lost for good and a revision was required; it is refused.
- Notifications: a reminder to a recruiting owner with a phone or an address is recorded
  for a provider channel too; each send raises after its claim (`delivery_service.py:484`)
  and is tried again without end. The recovery scan says that once a finalize has locked a row "the
  other's predicate (status = SENDING) no longer matches" (`recover_stuck_sending.py:31`), but the
  predicate is in a subquery that locks nothing (`:135-154`): a row settled while the UPDATE waits is
  made RETRYABLE, and a message that was sent is sent again, or unread again. `FinalForever` exempts that step alone.
- Sessions and roles: `revoke_all` works on a snapshot and misses a rotation or login that
  commits meanwhile (`session_service.py:525`). A kick deletes the devices in a second
  transaction. An account that is promoted or reactivated between the two statements of the
  trigger of migration 0031 is counted without a lock, so that a demotion racing its
  suspension can leave no active administrator. `RolesContract` exempts exactly a demotion
  whose trigger has met somebody new in this way (the history variable `met`), and holds with
  promotions and reactivations.
- Codes: recovery codes cannot be used at login (`email_login_service.py:536-551`,
  `mobile_login_service.py:686-696`). Wrong codes of an e-mail login are counted in a
  transaction that is rolled back (`email_login_service.py:357-367`). The administrator's leg and
  the unregistered leg of the phone login do not commit the deletion of the code.
  Two verifications of one code at once may both pass.
- Credentials: the confirmation of an address stamps a row read before (`email_verification.py:222-268`).
  Conversely, `request_email` and the unbinding read the account without a lock and their UPDATE writes
  only the columns that change (`email_verification.py:171-188`): when the stamp was read as NULL and a
  confirmation commits in between, the new address, or none, is left stamped. `StampIsProved` exempts
  these two races and nothing else. A password reset commits the password with the revocation and the
  CONSUMED row afterwards. A change of password that had verified the old one may land
  after a reset.
- Delegation: the deletion by key may remove a later grant than the one read; the second of two
  revocations deletes nothing and still writes REVOKED, perhaps after a new GRANTED.
  "Effective immediately" does not reach a call past its guard.
- Admission: the endpoint of failed notifications asks the network before the role. The two
  policy rows are read by two statements, so a call may be refused under a pair that never
  was while the policy is lifted; it is never let in by one. `_set_setting` reads the
  version again after its commit.
- Boards and honors: `terminal_at` is taken (`submissions/review_service.py:760`) before the
  locks of the assignment and the wallet and the commit (`:888`), and the streak is ordered by it
  (`rankings/honor_service.py:455`): of two approvals of one student the first to begin may commit last and put
  a late claim inside a streak that was granted. `Deserved` therefore asks that the streak stood among
  the claims committed by then. Equal times are not modelled. Two overlapping updates of one user leave the older score until the next
  one ("a recompute replayed twice converges"); a rebuild deletes the board of a day whose
  first entry commits after it has listed the days, and is only started by hand, and two rebuilds at a time
  are not modelled; `my_standing` may join rank and score of two moments. A lost honor trigger is made up for by
  the next evaluation except for the streak, and for points taken back in between. The rank
  triggers have no producer; the honor on display and the commemorative grant no caller.
- Community: a reply whose guard ran before a hiding commits lives below a hidden parent
  (`comment_service.py:118-123`); the second lost insert of a vote or rating is answered 500.
  Taking back a vote that is not there answers 0 without a write (`vote_service.py:152-166`), also when
  a first vote of the same user commits in between: the later answer says 0 and the row 1. A
  rating answers what its refresh finds (`rating_service.py:235`).
- Reviews: a project may be saved while the case of its achievement is pending
  (`innovation/service.py:185-225` asks for no editable workflow), so the revision under review is
  of an older project than the saved one. The owner's profile is saved at any time
  (`owner_service.py:88-139`) and copied into a revision without a check of its version; it is
  not modelled.
- Talent and tasks: nothing writes `moderation_state` after a work is created. An import takes no lock on
  its task and does not look at its status; a platform disabled after the preview
  is still filled.

## 5. Proofs

Sixty theorems are listed in `PROJECT.json`; every one is checked to its last step.
Assumptions are the named ones of the modules only: types of constants, sentinels that are
no identity, 0 < early < mid < grace (`TierAssumption`), rewards, prices and adjustments
not 0 and redemptions finite (`PointsAssumption`), an upload link that does not outlive
the retention (`UrlTtl <= Retention`, as configured), finitely many events, calls or proofs where
a count is kept, unfit bytes among the contents, a positive period of reminders and at least one
channel, a phone of its own for every student, platforms and keywords as positive numbers, users and
days of the boards as numbers, awards above 0. No bound on students, claims, uploads, workers, sessions, editors, requests,
rows, retries or the clock is used. A leaf cites few enough facts to be proved within a third of
the provers' usual time (`tlapm --cleanfp --stretch 0.3`), so a slow machine proves it too.

- `RewardsProofs`: `TierIsOfTable`, `FloorAlwaysExact`, `LaterPaysLess` for every policy, width and
  base reward. `HonorsAlwaysSound`: an evaluation walks down the catalogue, so the least rule it
  still has to do is the only row it waits for or writes (`DownTheCatalogue`), which rules
  out circles; what it has counted stays true because facts only grow (`EvaluationSound`): a commit is added
  to those before it, whatever its time (`OneMore`), and so leaves the streaks that stood among them.
  `BoardsAlwaysSound`: every score of a board is right or its user has a job on its way
  (`RightOrDue`). A job that ends may go because it has written its three boards with what it
  read, and what it read is still right or due again through another job (`JobSound`); a rebuild
  that nothing overlaps has made its boards right behind it, and will delete all the ledger
  does not back (`RebuildSound`). After a fault or an overlap only the weaker half is claimed,
  that every score is one the ledger had, until a quiet rebuild ends. Ranks compare sums,
  which are numbers by `SumsAreNumbers`.
- `ClaimLifecycleProofs` begins with the invariant `Shape == TypeOK /\ ReferencesHold /\ LatestIsNewest`. Types
  alone are not inductive: a reward lock is in range because its claim has a unit, which
  follows from the job's reference to a finalized upload and the upload's to a claim.
  Then `UnitsAlwaysAgree`, `PaidExactlyOnce`, `TerminalForever` and the
  refinement `LifecycleRefinesBoard`. `IInv` adds the four safety properties to `Shape`: a free unit
  is free because `AvailabilityMatchesClaims` ties the two tables together. `StepKinds` reduces
  `Next` to what a step does to the board (claim, hand back, approve, or
  invisible); each kind has one lemma per conjunct and one for its step of `ClaimBoard`.
  Over `IInv`: `OneActiveAlways` (the gate counts what the pipeline may bring
  back), `AbandonLimitAlways` (the returns of a day are counted under the user lock; an
  expiry adds none), `LocksAreEarned` with `LocksArePreserved` (the lock is of the
  instant of the hand-in it names), `VerdictsAreKept`, `ValidatingAlwaysProtected`.
- `PointsProofs`: the inductive invariant `PointsInv` says why the row locks are enough. `LocksMatch`: a
  lock is held by a session whose command needs it and only with the earlier ones of its
  order, which gives `NoDeadlock`. `ReadsFresh`: while a session holds a lock, what it read of
  that row is what the table says; for the frozen points of a request this needs the
  wallet lock, since every decision on the student's redemptions takes it too.
  `CommandsSound`: what was read before the locks still stands at the commit, because the
  ledger only grows and decided rows keep their owner. Each commit is then a step of
  `PointsAccount` or a stutter. `AllCounted` gives the limits: the counts read under the item
  lock can only have fallen since. `WalletAlwaysMatches` needs sums over finite sets; the lemmas about them
  are proved by the least counterexample, without an induction rule over operators.
- `BackgroundProofs`: `DeliveryKeepsContract` ties each worker to the claim instant of its row, so a
  sender that was taken over cannot settle a later attempt (`Settled` got disjoint cases: the
  proof showed that two of its guards overlapped). A settled row is reopened by no other step than
  the second half of a recovery scan that has it among `stuck`. `CleanupKeepsContract` ties each
  run to the token and the lease of the file it works on, and what it may delete to the
  row that released it.
- `IdentityProofs`: `EnrolmentAlwaysSound` (invited accounts have a role, a window's secret is of
  its own row); `DelegationKeepsContract` (a call knows the grant it has read, one call deletes
  it); `RolesKeepContract` (while a trigger has met nobody new, `NobodyMet`, every administrator it may count
  is one it read or has locked, `TriggerHolds`).
  `SessionsKeepContract`: the rows of a login follow one another in the order of their numbers and
  only the last has no successor (`Chained`), so both walks along the chain end where the
  login ends; that they do is proved by the least row for which they would not
  (`TipIsLast`, `WalkFindsLast`). `DoorsKeepContract`: a code that is being sent has been drawn.
  `CodesAlwaysSound` is `OtpContract` without its liveness: a whole challenge is unclaimed or
  belongs to the one request that may still mint (`ExchangeSound`), and each wrong answer or
  failed login on its way was let in below the limit (`AttemptsSound`, `FailuresSound`).
- `AdmissionProofs`: `SettingsAlwaysSound` (an editor under the advisory lock has read the pair; each write extends the
  chain); `LimitAlwaysSound` (the calls of a window are numbered, so they inject into its
  limit); `AccessAlwaysSound` (each statement of a gate has read what the row was at its
  moment; `RoutesDeclared` is about every router); together `AdmissionAlwaysSound`.
- `CollaborationProofs`: `EvidenceKeepsContract` (a reading keeps the digest of the citation it serves),
  `ReviewKeepsContract` (the open case is the newest and of the saved achievement, `OpenSound`; revisions
  follow both saved versions, `Advancing`), `DeskKeepsContract`
  (who holds the task row has read what still stands), `ImportAlwaysSound` (`CallSound`: rows put
  in lie below the rows left in the one order all confirmations use, which rules out waiting in a
  circle; `PlacesApart`: uncommitted rows are at places no one else has), with the desk the
  whole of `TasksKeepContract`, `CredentialsKeepContract` (a taken
  ticket is held by one request, `OneSpends`; what a request has found out, also that an
  address was unverified when it began to edit it, stands until it commits or is marked as
  overtaken, `WorkOf`).
- `CommunityProofs`: `CommentsKeepContract` (`WalkSound`: a walk has gathered what was below a
  comment it has passed; `WalkIsWhole`: what it has gathered, with all that was not there
  when it began, is closed under replies, so it misses nothing that was),
  `FeedbackKeepsContract` (a request that closes a report holds it; what a request about a mark
  will answer, and what the row says while it writes, are among the values the row has had since it
  read it, `MarksInv`), `RecruitmentKeepsContract` (`CycleSound`: reminders of a cycle lie after
  its confirmation and before the next one due; a new cycle begins whenever the dates are
  set anew), `TalentKeepsContract` (a window of the current version shows the current fields,
  `WindowsSound`; so does a view of the current number with the public contacts, `ViewsSound`).

Only model-checked:

- `SubmissionGetsVerdict`, `ResolvedEventually`, `ObjectsReclaimed` and the opening of caps in
  `OtpContract`: liveness is outside the prover.

## 6. Plan

Done, in this order: arithmetic, claim lifecycle with its refinement and proofs; points
with their refinement and proofs; delivery and cleanup; identity and admission;
community, innovation and tasks; proofs of the safety properties listed above. Every invariant
and every action property a passing run checks now has its theorem; what is left is
liveness, which stays with the runs.

Not planned: file parsing and the sandbox (data), provider adapters (I/O), the public
lists and searches (reads), the front end, migrations and deployment scripts. Row
locks of tx2 and of the review are below the granularity of the lifecycle, whose steps
are transactions: the two can wait for each other, and the one PostgreSQL ends is the
lost worker of that model.
