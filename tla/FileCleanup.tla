------------------------------ MODULE FileCleanup ------------------------------
(***************************************************************************)
(* The objects of uploads and who may delete them: files/cleanup_service.py *)
(* with its repository in workers/jobs/cleanup_files.py, against the two    *)
(* sides that need an object, finalize (upload_service.py) and the entry    *)
(* into review (submissions/cleanup_claim.py).  A deletion is claimed under *)
(* a lease with a token, done at the provider outside any transaction, and  *)
(* marked under the token.  A run of the job samples the clock once, at its *)
(* start, and judges every row by it.  A run's token is its worker: a       *)
(* worker has one run at a time, and a run one claim at a time.             *)
(***************************************************************************)
EXTENDS Integers

CONSTANTS
    Uploads,      \* uploads of one claim
    Sweepers,
    UrlTtl,       \* validity of the upload address
    IntentTtl,
    Retention,    \* days a submission's file is kept
    Lease,
    MaxNow,       \* bound on the clock
    NoRun, NoToken

\* UploadService refuses to be built with an address that outlives its intent;
\* the shortest retention policy is 30 days, an address is good for minutes.
ASSUME CleanupAssumption ==
    /\ UrlTtl \in Nat /\ IntentTtl \in Nat /\ UrlTtl < IntentTtl /\ UrlTtl <= Retention
    /\ Retention \in Nat \ {0} /\ Lease \in Nat \ {0} /\ MaxNow \in Nat
    /\ NoToken \notin Sweepers

VARIABLES
    now,
    intent,      \* the intent row of each upload
    file,        \* the submission row of each upload
    objects,     \* uploads whose object is in the store
    head,        \* uploads whose object a finalize in progress has seen
    claim,       \* open, in review (VALIDATING, UNDER_REVIEW) or ended
    run          \* the job run of each worker

fileVars == <<now, intent, file, objects, head, claim, run>>

NoLease == [owner |-> NoToken, until |-> 0]

-----------------------------------------------------------------------------
\* The student's side.  Uploads begin while the clock can still see their end.
CreateIntent(u) ==
    /\ claim = "open" /\ intent[u].status = "none" /\ now + IntentTtl + Retention < MaxNow
    /\ intent' = [intent EXCEPT ![u].status = "open", ![u].expires = now + IntentTtl]
    /\ UNCHANGED <<now, file, objects, head, claim, run>>

PutObject(u) ==
    /\ intent[u].status # "none"
    /\ now < intent[u].expires - IntentTtl + UrlTtl
    /\ objects' = objects \cup {u}
    /\ UNCHANGED <<now, intent, file, head, claim, run>>

\* The store is asked before any lock is taken.
HeadObject(u) ==
    /\ intent[u].status = "open" /\ u \in objects
    /\ head' = head \cup {u}
    /\ UNCHANGED <<now, intent, file, objects, claim, run>>

\* Judged under the intent's lock, by a clock read under it.
Finalizable(u) == claim = "open" /\ intent[u].status = "open" /\ now < intent[u].expires

\* The task's policy, fixed for this file: kept for a time or for good.
RetentionSnapshot == {<<"permanent", now + Retention>>, <<"kept", now + Retention>>}

FinalizeFile(u) ==
    /\ u \in head /\ Finalizable(u)
    /\ intent' = [intent EXCEPT ![u].status = "finalized"]
    /\ \E snapshot \in RetentionSnapshot :
           file' = [file EXCEPT ![u].status = snapshot[1], ![u].until = snapshot[2]]
    /\ head' = head \ {u}
    /\ UNCHANGED <<now, objects, claim, run>>

\* An object that is not what was declared burns the intent.
Burn(u) ==
    /\ u \in head /\ Finalizable(u)
    /\ intent' = [intent EXCEPT ![u].status = "burned"]
    /\ head' = head \ {u}
    /\ UNCHANGED <<now, file, objects, claim, run>>

-----------------------------------------------------------------------------
Submitted(u) == file[u].status \in {"kept", "permanent"}

\* cleanup_claim.ensure_no_active_cleanup_claim: the lease may have expired.
Unfinished(u) == file[u].status = "kept" /\ file[u].lease.owner # NoToken

\* The first transaction of a validation, under the claim lock.
EnterReview(u) ==
    /\ claim = "open" /\ file[u].status # "none"
    /\ \A v \in Uploads : ~Unfinished(v)
    /\ claim' = "review"
    /\ UNCHANGED <<now, intent, file, objects, head, run>>

\* A failed file or a required revision; approval, expiry and abandon end it.
LeaveReview ==
    /\ claim = "review"
    /\ claim' = "open"
    /\ UNCHANGED <<now, intent, file, objects, head, run>>

EndClaim ==
    /\ claim # "ended"
    /\ claim' = "ended"
    /\ UNCHANGED <<now, intent, file, objects, head, run>>

-----------------------------------------------------------------------------
\* The job.
StartRun(w) ==
    /\ run[w] = NoRun
    /\ run' = [run EXCEPT ![w] = [at |-> "scan", now |-> now, kind |-> "none", on |-> "none",
                                  outcome |-> "none"]]
    /\ UNCHANGED <<now, intent, file, objects, head, claim>>

Scanning(w) == run[w] # NoRun /\ run[w].at = "scan"

EndRun(w) ==
    /\ Scanning(w)
    /\ run' = [run EXCEPT ![w] = NoRun]
    /\ UNCHANGED <<now, intent, file, objects, head, claim>>

\* Mutant of LeaseFree: only a released claim is free.
LeaseReleased(lease, at) == lease.owner = NoToken

LeaseFree(lease, at) == lease.owner = NoToken \/ lease.until <= at

FileDue(u, at) ==
    /\ file[u].status = "kept" /\ file[u].until <= at
    /\ LeaseFree(file[u].lease, at)
    /\ claim # "review"

IntentDue(u, at) ==
    /\ intent[u].status \in {"open", "burned"} /\ intent[u].expires <= at
    /\ LeaseFree(intent[u].lease, at)

\* At the bound of the clock a lease ends at once.
LeaseOf(w) ==
    [owner |-> w, until |-> IF run[w].now + Lease < MaxNow THEN run[w].now + Lease ELSE MaxNow]

Claimed(w, kind, u) ==
    run' = [run EXCEPT ![w].at = "claimed", ![w].kind = kind, ![w].on = u, ![w].outcome = "none"]

\* The guards are evaluated again under the locks of the submission and then
\* the claim; the lease counts from the start of the run.
ClaimForCleanup(w, u) ==
    /\ Scanning(w) /\ FileDue(u, run[w].now)
    /\ file' = [file EXCEPT ![u].lease = LeaseOf(w)]
    /\ Claimed(w, "file", u)
    /\ UNCHANGED <<now, intent, objects, head, claim>>

ClaimIntent(w, u) ==
    /\ Scanning(w) /\ IntentDue(u, run[w].now)
    /\ intent' = [intent EXCEPT ![u].lease = LeaseOf(w)]
    /\ Claimed(w, "intent", u)
    /\ UNCHANGED <<now, file, objects, head, claim>>

\* The provider outcomes after which the object is certainly gone.
Deleted == {"deleted", "missing"}

\* The provider call: an open outcome may have deleted the object.
DeleteObject(w, outcome, gone) ==
    /\ run[w] # NoRun /\ run[w].at = "claimed"
    /\ CASE outcome = "missing"            -> run[w].on \notin objects /\ ~gone
         [] outcome = "deleted"            -> run[w].on \in objects /\ gone
         [] outcome = "unknown"            -> gone => run[w].on \in objects
         [] outcome \in {"failed"}         -> ~gone
    /\ objects' = IF gone THEN objects \ {run[w].on} ELSE objects
    /\ run' = [run EXCEPT ![w].at = "done", ![w].outcome = outcome]
    /\ UNCHANGED <<now, intent, file, head, claim>>

RunDone(w, kind) == run[w] # NoRun /\ run[w].at = "done" /\ run[w].kind = kind

NextRecord(w) ==
    run' = [run EXCEPT ![w].at = "scan", ![w].kind = "none", ![w].on = "none", ![w].outcome = "none"]

\* A failed deletion keeps its claim, and the next run takes it over.
MarkDeleted(w) ==
    LET u == run[w].on IN
    /\ RunDone(w, "file")
    /\ file' = IF /\ run[w].outcome \in Deleted
                  /\ file[u].lease.owner = w /\ file[u].status = "kept"
               THEN [file EXCEPT ![u].status = "deleted"] ELSE file
    /\ NextRecord(w)
    /\ UNCHANGED <<now, intent, objects, head, claim>>

\* Mutant of OwnsIntent: any claim may be released.
OwnsAnyIntent(w, u) == intent[u].lease.owner # NoToken

OwnsIntent(w, u) == intent[u].lease.owner = w

\* An intent is marked, or released so that the next run retries at once; a
\* run that was taken over changes nothing.
MarkIntent(w) ==
    LET u == run[w].on IN
    /\ RunDone(w, "intent")
    /\ intent' =
           IF ~OwnsIntent(w, u) \/ intent[u].status = "cleaned" THEN intent
           ELSE IF run[w].outcome \in Deleted THEN [intent EXCEPT ![u].status = "cleaned"]
           ELSE [intent EXCEPT ![u].lease = NoLease]
    /\ NextRecord(w)
    /\ UNCHANGED <<now, file, objects, head, claim>>

\* A run dies anywhere: what it committed stays.
RunLost(w) ==
    /\ run[w] # NoRun
    /\ run' = [run EXCEPT ![w] = NoRun]
    /\ UNCHANGED <<now, intent, file, objects, head, claim>>

FileTick ==
    /\ now < MaxNow
    /\ now' = now + 1
    /\ UNCHANGED <<intent, file, objects, head, claim, run>>

-----------------------------------------------------------------------------
CleanupInit ==
    /\ now = 0
    /\ intent = [u \in Uploads |-> [status |-> "none", expires |-> 0, lease |-> NoLease]]
    /\ file = [u \in Uploads |-> [status |-> "none", until |-> 0, lease |-> NoLease]]
    /\ objects = {}
    /\ head = {}
    /\ claim = "open"
    /\ run = [w \in Sweepers |-> NoRun]

RunStep(w) ==
    \/ StartRun(w) \/ EndRun(w)
    \/ \E u \in Uploads : ClaimForCleanup(w, u) \/ ClaimIntent(w, u)
    \/ \E outcome \in {"deleted", "missing", "unknown", "failed"}, gone \in BOOLEAN :
           DeleteObject(w, outcome, gone)
    \/ MarkDeleted(w) \/ MarkIntent(w)

CleanupNext ==
    \/ \E u \in Uploads :
           \/ CreateIntent(u) \/ PutObject(u) \/ HeadObject(u) \/ FinalizeFile(u) \/ Burn(u)
           \/ EnterReview(u)
    \/ LeaveReview \/ EndClaim
    \/ \E w \in Sweepers : RunStep(w) \/ RunLost(w)
    \/ FileTick

CleanupSpec == CleanupInit /\ [][CleanupNext]_fileVars

OwnsWork(w) ==
    /\ run[w] # NoRun
    /\ \/ run[w].kind = "intent" /\ OwnsIntent(w, run[w].on)
       \/ run[w].kind = "file" /\ file[run[w].on].lease.owner = w

\* The beat schedule starts runs; runs are not all lost, the store does not
\* fail for ever, and a deletion that worked is not always overtaken (the lease
\* is far longer than a provider call).  Nothing makes a claim leave review.
Collect(u) ==
    \E w \in Sweepers :
        \/ ClaimForCleanup(w, u)
        \/ ClaimIntent(w, u)

CleanupFairness ==
    /\ WF_fileVars(FileTick)
    /\ \A u \in Uploads : SF_fileVars(Collect(u))
    /\ \A w \in Sweepers :
           /\ WF_fileVars(StartRun(w)) /\ WF_fileVars(EndRun(w))
           /\ SF_fileVars(OwnsWork(w) /\ \E outcome \in Deleted : DeleteObject(w, outcome, outcome = "deleted"))
           /\ WF_fileVars(MarkDeleted(w) \/ MarkIntent(w))
           /\ SF_fileVars(OwnsWork(w) /\ run[w].outcome \in Deleted /\ (MarkDeleted(w) \/ MarkIntent(w)))

CleanupFairSpec == CleanupSpec /\ CleanupFairness

-----------------------------------------------------------------------------
Leases == [owner : Sweepers \cup {NoToken}, until : 0 .. MaxNow]

CleanupTypeOK ==
    /\ now \in 0 .. MaxNow
    /\ intent \in [Uploads -> [status : {"none", "open", "finalized", "burned", "cleaned"},
                               expires : 0 .. MaxNow + IntentTtl, lease : Leases]]
    /\ file \in [Uploads -> [status : {"none", "kept", "permanent", "deleted"},
                             until : 0 .. MaxNow + Retention, lease : Leases]]
    /\ objects \subseteq Uploads /\ head \subseteq Uploads /\ claim \in {"open", "review", "ended"}
    /\ \A w \in Sweepers : run[w] # NoRun =>
           run[w] \in [at : {"scan", "claimed", "done"}, now : 0 .. MaxNow,
                       kind : {"none", "file", "intent"}, on : Uploads \cup {"none"},
                       outcome : {"none", "deleted", "missing", "unknown", "failed"}]

\* A submission has its file until its retention ends: no cleanup of intents
\* that was slow, and no finalize that looked at the store too early, leaves a
\* row without its object (upload_service.py:887, cleanup_files.py:471).
RetainedFileExists ==
    \A u \in Uploads :
        Submitted(u) /\ (file[u].status = "permanent" \/ file[u].until > now) => u \in objects

\* A row says deleted only of an object that is gone (cleanup_service.py:523).
MarkedIsGone ==
    \A u \in Uploads :
        file[u].status = "deleted" \/ intent[u].status = "cleaned" => u \notin objects

\* No object disappears while the claim is in review, whichever run was asleep
\* on its lease when the review began (cleanup_claim.py:97, cleanup_files.py:226).
NeverDeletedInReview ==
    [][\A u \in Uploads : u \in objects /\ u \notin objects' /\ Submitted(u) => claim # "review"]_fileVars

\* Only the run that holds a claim gives it up; one that was taken over cannot
\* free or finish its successor's (cleanup_files.py:517, :562).
OnlyOwnerReleases ==
    [][\A u \in Uploads, v \in Sweepers :
          /\ intent[u].lease.owner = v
          /\ intent'[u].lease.owner = NoToken \/ intent'[u].status # intent[u].status
          => \E w \in Sweepers : w = v /\ run[w] # NoRun /\ run[w].on = u /\ run'[w] # run[w]]_fileVars

\* Whatever a run left behind, the object of every upload that was not
\* finalized is reclaimed, and so is every file whose retention ends unless its
\* claim stays in review (cleanup_service.py:443, :583).
ObjectsReclaimed ==
    /\ \A u \in Uploads :
           intent[u].status \in {"open", "burned"} ~> intent[u].status \in {"finalized", "cleaned"}
    /\ <>[](claim # "review") =>
           \A u \in Uploads : file[u].status = "kept" ~> file[u].status = "deleted"

\* What the cleanup may never do, whoever sleeps on a lease: take a file that is
\* kept or in review, say deleted of an object that is there, or end the claim
\* of another run.
CleanupContract ==
    /\ [](/\ CleanupTypeOK
          /\ RetainedFileExists
          /\ MarkedIsGone)
    /\ NeverDeletedInReview
    /\ OnlyOwnerReleases

=============================================================================
