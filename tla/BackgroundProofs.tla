---------------------------- MODULE BackgroundProofs ----------------------------
(***************************************************************************)
(* The cleanup of files and the delivery of notifications keep their        *)
(* contracts, for every number of uploads, runs, deliveries and workers.    *)
(***************************************************************************)
EXTENDS FileCleanup, Notifications, FiniteSetTheorems, TLAPS

-----------------------------------------------------------------------------
(* The inductive invariant of the cleanup.                                 *)

Runs == [at : {"scan", "claimed", "done"}, now : 0 .. MaxNow,
         kind : {"none", "file", "intent"}, on : Uploads \cup {"none"},
         outcome : {"none", "deleted", "missing", "unknown", "failed"}]

RunsTyped == run \in [Sweepers -> Runs \cup {NoRun}]

\* An intent's lease and its end say that no legal upload can come any more;
\* a finalize in progress knows of an object that only such an end takes away.
IntentSound(u) ==
    /\ intent[u].status = "none" => intent[u].lease.owner = NoToken
    /\ intent[u].status # "none" =>
           IntentTtl <= intent[u].expires /\ intent[u].expires - IntentTtl <= now
    /\ intent[u].lease.owner # NoToken \/ intent[u].status = "cleaned" =>
           intent[u].expires <= now /\ intent[u].status \in {"open", "burned", "cleaned"}
    /\ u \in head => /\ intent[u].status \in {"open", "cleaned"}
                     /\ u \in objects \/ intent[u].expires <= now

\* A file comes from a finalized intent, lives its retention, and is leased to
\* a run only when that is over and the claim is not in review.
FileSound(u) ==
    /\ file[u].status = "none" => file[u].lease.owner = NoToken
    /\ file[u].status # "none" =>
           /\ intent[u].status = "finalized"
           /\ intent[u].expires - IntentTtl + Retention <= file[u].until
    /\ file[u].lease.owner # NoToken =>
           file[u].status \in {"kept", "deleted"} /\ file[u].until <= now
    /\ file[u].status = "deleted" => file[u].until <= now
    /\ claim = "review" => ~Unfinished(u)

\* What a run has claimed stays collectable, whether it still holds the lease
\* or not, and an object it found gone does not come back.
RunSound(w) ==
    LET r == run[w] IN
    r # NoRun =>
        /\ r.now <= now
        /\ r.at # "scan" => r.on \in Uploads /\ r.kind \in {"intent", "file"}
        /\ r.at # "scan" /\ r.kind = "intent" =>
               /\ intent[r.on].status \in {"open", "burned", "cleaned"}
               /\ intent[r.on].expires <= r.now
        /\ r.at # "scan" /\ r.kind = "file" =>
               /\ file[r.on].status \in {"kept", "deleted"} /\ file[r.on].until <= r.now
               /\ file[r.on].lease.owner # NoToken
        /\ r.at = "done" /\ r.outcome \in Deleted => r.on \notin objects

CleanupInv ==
    /\ CleanupTypeOK /\ RunsTyped
    /\ \A u \in Uploads : IntentSound(u) /\ FileSound(u)
    /\ \A w \in Sweepers : RunSound(w)
    /\ RetainedFileExists /\ MarkedIsGone

-----------------------------------------------------------------------------
(* Every step of the cleanup keeps it.                                     *)

LEMMA CleanupStart == CleanupInit => CleanupInv
<1> SUFFICES ASSUME CleanupInit PROVE CleanupInv OBVIOUS
<1>1. CleanupTypeOK /\ RunsTyped
  BY CleanupAssumption DEF CleanupInit, CleanupTypeOK, RunsTyped, Leases, NoLease
<1> QED
  BY <1>1 DEF CleanupInit, CleanupInv, IntentSound, FileSound, RunSound, NoLease,
     RetainedFileExists, MarkedIsGone, Submitted, Unfinished

IntentRows == [status : {"none", "open", "finalized", "burned", "cleaned"},
               expires : 0 .. MaxNow + IntentTtl, lease : Leases]

FileRows == [status : {"none", "kept", "permanent", "deleted"},
             until : 0 .. MaxNow + Retention, lease : Leases]

Typed == CleanupTypeOK /\ RunsTyped

LEMMA LeaseTyped ==
    ASSUME Typed, NEW w \in Sweepers, run[w] # NoRun
    PROVE  LeaseOf(w) \in Leases /\ LeaseOf(w).owner = w
BY CleanupAssumption DEF Typed, CleanupTypeOK, LeaseOf, Leases

LEMMA FinalizeEffect ==
    ASSUME NEW u, FinalizeFile(u)
    PROVE  \E st \in {"kept", "permanent"} :
               file' = [file EXCEPT ![u].status = st, ![u].until = now + Retention]
<1>1. PICK s \in RetentionSnapshot :
          file' = [file EXCEPT ![u].status = s[1], ![u].until = s[2]]
  BY DEF FinalizeFile
<1>2. s[1] \in {"kept", "permanent"} /\ s[2] = now + Retention
  BY DEF RetentionSnapshot
<1> QED BY <1>1, <1>2

LEMMA TypesStep ==
    ASSUME Typed, CleanupNext
    PROVE  Typed'
<1> DEFINE I == intent \in [Uploads -> IntentRows]
           F == file \in [Uploads -> FileRows]
           R == run \in [Sweepers -> Runs \cup {NoRun}]
           Rest == /\ now \in 0 .. MaxNow /\ objects \subseteq Uploads /\ head \subseteq Uploads
                   /\ claim \in {"open", "review", "ended"}
<1>a. I /\ F /\ R /\ Rest
  BY DEF Typed, CleanupTypeOK, RunsTyped, IntentRows, FileRows, Runs
<1>b. ASSUME I', F', R', Rest' PROVE Typed'
  BY <1>b DEF Typed, CleanupTypeOK, RunsTyped, IntentRows, FileRows, Runs
<1>c. NoLease \in Leases BY CleanupAssumption DEF NoLease, Leases
<1> HIDE DEF I, F, R, Rest
<1>1. I'
  <2> USE <1>a DEF I
  <2>1. ASSUME NEW u \in Uploads, NEW s \in {"finalized", "burned", "cleaned"},
               intent' = [intent EXCEPT ![u].status = s]
        PROVE  I'
    BY <2>1 DEF IntentRows
  <2>2. ASSUME NEW u \in Uploads, NEW l \in Leases, intent' = [intent EXCEPT ![u].lease = l]
        PROVE  I'
    BY <2>2 DEF IntentRows
  <2>3. ASSUME NEW u \in Uploads, CreateIntent(u) PROVE I'
    <3>1. now + IntentTtl \in 0 .. MaxNow + IntentTtl
      BY CleanupAssumption DEF Rest
    <3> QED BY <2>3, <3>1 DEF CreateIntent, IntentRows
  <2>4. ASSUME NEW w \in Sweepers, MarkIntent(w) PROVE I'
    <3>1. intent' # intent => run[w].on \in Uploads
      BY <2>4 DEF MarkIntent
    <3> QED BY <2>1, <2>2, <1>c, <3>1, <2>4 DEF MarkIntent
  <2>5. CASE UNCHANGED intent BY <2>5
  <2> QED
    BY <2>1, <2>2, <2>3, <2>4, <2>5, LeaseTyped DEF CleanupNext, RunStep, PutObject, HeadObject,
       FinalizeFile, Burn, EnterReview, LeaveReview, EndClaim, StartRun, EndRun,
       ClaimForCleanup, ClaimIntent, DeleteObject, MarkDeleted, RunLost, FileTick, Scanning
<1>2. F'
  <2> USE <1>a DEF F
  <2>1. ASSUME NEW u \in Uploads, FinalizeFile(u) PROVE F'
    <3>1. now + Retention \in 0 .. MaxNow + Retention
      BY CleanupAssumption DEF Rest
    <3>2. PICK st \in {"kept", "permanent"} :
              file' = [file EXCEPT ![u].status = st, ![u].until = now + Retention]
      BY <2>1, FinalizeEffect
    <3>3. file' = [file EXCEPT ![u] = [file[u] EXCEPT !.status = st, !.until = now + Retention]]
      BY <3>2
    <3>4. [file[u] EXCEPT !.status = st, !.until = now + Retention] \in FileRows
      BY <3>1 DEF FileRows
    <3> QED BY <3>3, <3>4
  <2>2. ASSUME NEW w \in Sweepers, NEW u \in Uploads, ClaimForCleanup(w, u) PROVE F'
    BY <2>2, LeaseTyped DEF ClaimForCleanup, Scanning, FileRows
  <2>3. ASSUME NEW w \in Sweepers, MarkDeleted(w) PROVE F'
    BY <2>3 DEF MarkDeleted, FileRows
  <2>4. CASE UNCHANGED file BY <2>4
  <2> QED
    BY <2>1, <2>2, <2>3, <2>4 DEF CleanupNext, RunStep, CreateIntent, PutObject, HeadObject,
       Burn, EnterReview, LeaveReview, EndClaim, StartRun, EndRun,
       ClaimIntent, DeleteObject, MarkIntent, RunLost, FileTick
<1>3. R'
  <2> USE <1>a DEF R
  <2>1. ASSUME NEW w \in Sweepers, NEW r \in Runs \cup {NoRun}, run' = [run EXCEPT ![w] = r]
        PROVE  R'
    BY <2>1
  <2>2. ASSUME NEW w \in Sweepers, StartRun(w) PROVE R'
    BY <2>2 DEF StartRun, Rest, Runs
  <2>3. ASSUME NEW w \in Sweepers, NEW u \in Uploads, ClaimForCleanup(w, u) \/ ClaimIntent(w, u)
        PROVE  R'
    BY <2>3 DEF ClaimForCleanup, ClaimIntent, Scanning, Claimed, Runs
  <2>4. ASSUME NEW w \in Sweepers, MarkDeleted(w) \/ MarkIntent(w)
        PROVE  R'
    BY <2>4 DEF MarkDeleted, MarkIntent, RunDone, NextRecord, Runs
  <2>5. ASSUME NEW w \in Sweepers, NEW outcome \in {"deleted", "missing", "unknown", "failed"},
               NEW gone \in BOOLEAN, DeleteObject(w, outcome, gone)
        PROVE  R'
    <3>1. run[w] \in Runs /\ run' = [run EXCEPT ![w].at = "done", ![w].outcome = outcome]
      BY <2>5 DEF DeleteObject
    <3> QED BY <3>1 DEF Runs
  <2>6. CASE UNCHANGED run BY <2>6
  <2>7. ASSUME NEW w \in Sweepers, EndRun(w) \/ RunLost(w) PROVE R'
    BY <2>1, <2>7 DEF EndRun, RunLost
  <2> QED
    BY <2>2, <2>3, <2>4, <2>5, <2>6, <2>7 DEF CleanupNext, RunStep, CreateIntent, PutObject,
       HeadObject, FinalizeFile, Burn, EnterReview, LeaveReview, EndClaim, FileTick
<1>4. Rest'
  <2> USE <1>a DEF Rest
  <2>1. ASSUME NEW w \in Sweepers, RunStep(w)
        PROVE  UNCHANGED <<now, head, claim>> /\ objects' \subseteq objects
    BY <2>1 DEF RunStep, StartRun, EndRun, ClaimForCleanup, ClaimIntent, DeleteObject,
       MarkDeleted, MarkIntent
  <2>2. ASSUME NEW u \in Uploads, PutObject(u) \/ HeadObject(u) \/ FinalizeFile(u) \/ Burn(u)
        PROVE  Rest'
    BY <2>2 DEF PutObject, HeadObject, FinalizeFile, Burn
  <2>3. CASE FileTick
    BY <2>3, CleanupAssumption DEF FileTick
  <2> QED
    BY <2>1, <2>2, <2>3 DEF CleanupNext, CreateIntent, EnterReview, LeaveReview, EndClaim, RunLost
<1> QED BY <1>b, <1>1, <1>2, <1>3, <1>4

\* A leased or claimed intent has ended, so that no upload of it is legal.
LEMMA NoPutAfterEnd ==
    ASSUME Typed, NEW u \in Uploads, NEW v \in Uploads, PutObject(v), intent[u].expires <= now
    PROVE  u # v
<1>1. intent[u].expires \in Int /\ now \in Int
  BY CleanupAssumption DEF Typed, CleanupTypeOK
<1> QED BY <1>1, CleanupAssumption DEF PutObject


\* The rows of the uploads a step does not name, and the named one's fields.
IntentRowsKept(u) == \A v \in Uploads \ {u} : intent'[v] = intent[v]
FileRowsKept(u)   == \A v \in Uploads \ {u} : file'[v] = file[v]

LEMMA CreateEffect ==
    ASSUME Typed, NEW u \in Uploads, CreateIntent(u)
    PROVE  /\ intent'[u].status = "open" /\ intent'[u].expires = now + IntentTtl
           /\ intent'[u].lease = intent[u].lease /\ IntentRowsKept(u)
BY DEF CreateIntent, Typed, CleanupTypeOK, IntentRowsKept

LEMMA FinalizeFields ==
    ASSUME Typed, NEW u \in Uploads, FinalizeFile(u)
    PROVE  /\ intent'[u].status = "finalized" /\ intent'[u].expires = intent[u].expires
           /\ intent'[u].lease = intent[u].lease /\ IntentRowsKept(u)
           /\ file'[u].status \in {"kept", "permanent"} /\ file'[u].until = now + Retention
           /\ file'[u].lease = file[u].lease /\ FileRowsKept(u)
<1>1. /\ intent'[u].status = "finalized" /\ intent'[u].expires = intent[u].expires
      /\ intent'[u].lease = intent[u].lease /\ IntentRowsKept(u)
  BY DEF FinalizeFile, Typed, CleanupTypeOK, IntentRowsKept
<1>2. PICK st \in {"kept", "permanent"} :
          file' = [file EXCEPT ![u].status = st, ![u].until = now + Retention]
  BY FinalizeEffect
<1>3. file \in [Uploads -> FileRows]
  BY DEF Typed, CleanupTypeOK, FileRows
<1>4. /\ file'[u].status = st /\ file'[u].until = now + Retention
      /\ file'[u].lease = file[u].lease /\ FileRowsKept(u)
  BY <1>2, <1>3 DEF FileRows, FileRowsKept
<1> QED BY <1>1, <1>2, <1>4

LEMMA BurnEffect ==
    ASSUME Typed, NEW u \in Uploads, Burn(u)
    PROVE  /\ intent'[u].status = "burned" /\ intent'[u].expires = intent[u].expires
           /\ intent'[u].lease = intent[u].lease /\ IntentRowsKept(u)
BY DEF Burn, Typed, CleanupTypeOK, IntentRowsKept

LEMMA ClaimIntentEffect ==
    ASSUME Typed, NEW u \in Uploads, NEW w \in Sweepers, ClaimIntent(w, u)
    PROVE  /\ intent'[u].status = intent[u].status /\ intent'[u].expires = intent[u].expires
           /\ intent'[u].lease.owner = w /\ IntentRowsKept(u)
BY LeaseTyped DEF ClaimIntent, Scanning, Typed, CleanupTypeOK, IntentRowsKept

LEMMA ClaimFileEffect ==
    ASSUME Typed, NEW u \in Uploads, NEW w \in Sweepers, ClaimForCleanup(w, u)
    PROVE  /\ file'[u].status = file[u].status /\ file'[u].until = file[u].until
           /\ file'[u].lease.owner = w /\ FileRowsKept(u)
BY LeaseTyped DEF ClaimForCleanup, Scanning, Typed, CleanupTypeOK, FileRowsKept

LEMMA MarkIntentEffect ==
    ASSUME Typed, NEW w \in Sweepers, MarkIntent(w), intent' # intent
    PROVE  \E u \in Uploads :
           /\ u = run[w].on /\ OwnsIntent(w, u) /\ intent[u].status # "cleaned"
           /\ RunDone(w, "intent") /\ UNCHANGED <<now, file, objects, head, claim>>
           /\ IntentRowsKept(u) /\ intent'[u].expires = intent[u].expires
           /\ \/ /\ run[w].outcome \in Deleted /\ intent'[u].status = "cleaned"
                 /\ intent'[u].lease = intent[u].lease
              \/ intent'[u].status = intent[u].status /\ intent'[u].lease.owner = NoToken
<1> DEFINE u == run[w].on
<1>1. /\ u \in Uploads /\ OwnsIntent(w, u) /\ intent[u].status # "cleaned"
      /\ RunDone(w, "intent") /\ UNCHANGED <<now, file, objects, head, claim>>
  BY DEF MarkIntent, Typed, CleanupTypeOK
<1>2. CASE run[w].outcome \in Deleted
  BY <1>1, <1>2 DEF MarkIntent, Typed, CleanupTypeOK, IntentRowsKept
<1>3. CASE run[w].outcome \notin Deleted
  BY <1>1, <1>3 DEF MarkIntent, Typed, CleanupTypeOK, IntentRowsKept, NoLease
<1> QED BY <1>1, <1>2, <1>3

LEMMA MarkFileEffect ==
    ASSUME Typed, NEW w \in Sweepers, MarkDeleted(w), file' # file
    PROVE  \E u \in Uploads :
           /\ u = run[w].on /\ RunDone(w, "file") /\ file[u].lease.owner = w /\ file[u].status = "kept"
           /\ run[w].outcome \in Deleted /\ file'[u].status = "deleted"
           /\ file'[u].until = file[u].until /\ file'[u].lease = file[u].lease
           /\ FileRowsKept(u)
<1>1. run[w].on \in Uploads /\ RunDone(w, "file")
  BY DEF MarkDeleted, Typed, CleanupTypeOK
<1> QED BY <1>1 DEF MarkDeleted, Typed, CleanupTypeOK, FileRowsKept

LEMMA DeleteEffect ==
    ASSUME NEW w \in Sweepers, NEW outcome, NEW gone \in BOOLEAN,
           DeleteObject(w, outcome, gone)
    PROVE  /\ run[w] # NoRun /\ run[w].at = "claimed"
           /\ objects' \subseteq objects /\ objects \subseteq objects' \cup {run[w].on}
           /\ outcome \in Deleted => run[w].on \notin objects'
           /\ UNCHANGED <<now, intent, file, head, claim>>
BY DEF DeleteObject, Deleted

LEMMA IntentStep ==
    ASSUME CleanupInv, CleanupNext, NEW u \in Uploads
    PROVE  IntentSound(u)'
<1>0. /\ Typed /\ IntentSound(u) /\ FileSound(u) /\ now \in Nat
      /\ intent[u].expires \in Int
      /\ IntentTtl \in Nat /\ NoToken \notin Sweepers
      /\ \A w \in Sweepers : RunSound(w)
  BY CleanupAssumption DEF CleanupInv, Typed, CleanupTypeOK
<1>1. ASSUME NEW v \in Uploads, CreateIntent(v) PROVE IntentSound(u)'
  <2>1. CASE u = v
    <3>1. intent[u].status = "none" /\ UNCHANGED <<now, objects, head>>
      BY <1>1, <2>1 DEF CreateIntent
    <3>2. u \notin head /\ intent[u].lease.owner = NoToken BY <1>0, <3>1 DEF IntentSound
    <3> QED BY <1>0, <1>1, <2>1, <3>1, <3>2, CreateEffect DEF IntentSound
  <2>2. CASE u # v
    BY <1>0, <1>1, <2>2, CreateEffect DEF CreateIntent, IntentSound, IntentRowsKept
  <2> QED BY <2>1, <2>2
<1>2. ASSUME NEW v \in Uploads, PutObject(v) \/ HeadObject(v) PROVE IntentSound(u)'
  BY <1>0, <1>2 DEF PutObject, HeadObject, IntentSound
<1>3. ASSUME NEW v \in Uploads, FinalizeFile(v) PROVE IntentSound(u)'
  BY <1>0, <1>3, FinalizeFields DEF FinalizeFile, Finalizable, IntentSound, IntentRowsKept
<1>4. ASSUME NEW v \in Uploads, Burn(v) PROVE IntentSound(u)'
  BY <1>0, <1>4, BurnEffect DEF Burn, Finalizable, IntentSound, IntentRowsKept
<1>5. ASSUME NEW w \in Sweepers, NEW v \in Uploads, ClaimIntent(w, v) PROVE IntentSound(u)'
  <2>1. run[w].now <= now /\ run[w].now \in Int
    BY <1>0, <1>5 DEF ClaimIntent, Scanning, RunSound, Typed, CleanupTypeOK
  <2> QED
    BY <1>0, <1>5, <2>1, ClaimIntentEffect DEF ClaimIntent, IntentDue, IntentSound, IntentRowsKept
<1>6. ASSUME NEW w \in Sweepers, NEW outcome \in {"deleted", "missing", "unknown", "failed"},
             NEW gone \in BOOLEAN, DeleteObject(w, outcome, gone)
      PROVE  IntentSound(u)'
  <2>1. /\ run[w] # NoRun /\ run[w].at # "scan"
        /\ u \in objects /\ u \notin objects' => u = run[w].on
        /\ UNCHANGED <<now, intent, head>>
    BY <1>6, DeleteEffect
  <2>2. run[w].kind = "file" /\ u = run[w].on => u \notin head
    BY <1>0, <2>1 DEF RunSound, FileSound, IntentSound
  <2>3. run[w].kind = "intent" /\ u = run[w].on => intent[u].expires <= now
    <3>1. run[w].now \in Int BY <1>0, <2>1 DEF Typed, CleanupTypeOK
    <3> QED BY <1>0, <2>1, <3>1 DEF RunSound
  <2> QED BY <1>0, <2>1, <2>2, <2>3 DEF IntentSound, RunSound
<1>7. ASSUME NEW w \in Sweepers, MarkIntent(w) PROVE IntentSound(u)'
  <2>1. UNCHANGED <<now, objects, head>> BY <1>7 DEF MarkIntent
  <2>2. CASE intent' = intent
    BY <1>0, <2>1, <2>2 DEF IntentSound
  <2>3. CASE intent' # intent
    BY <1>0, <1>7, <2>3, MarkIntentEffect DEF OwnsIntent, IntentSound, IntentRowsKept
  <2> QED BY <2>2, <2>3
<1>8. CASE FileTick
  BY <1>0, <1>8 DEF FileTick, IntentSound
<1>9. CASE UNCHANGED <<now, intent, objects, head>>
  BY <1>0, <1>9 DEF IntentSound
<1> QED
  BY <1>1, <1>2, <1>3, <1>4, <1>5, <1>6, <1>7, <1>8, <1>9 DEF CleanupNext, RunStep, EnterReview,
     LeaveReview, EndClaim, StartRun, EndRun, ClaimForCleanup, MarkDeleted, RunLost

LEMMA FileStep ==
    ASSUME CleanupInv, CleanupNext, NEW u \in Uploads
    PROVE  FileSound(u)'
<1>0. /\ Typed /\ IntentSound(u) /\ FileSound(u) /\ now \in Nat
      /\ intent[u].expires \in Int /\ file[u].until \in Int
      /\ IntentTtl \in Nat /\ Retention \in Nat \ {0} /\ NoToken \notin Sweepers
      /\ \A w \in Sweepers : RunSound(w)
  BY CleanupAssumption DEF CleanupInv, Typed, CleanupTypeOK
<1>1. ASSUME NEW v \in Uploads, CreateIntent(v) PROVE FileSound(u)'
  BY <1>0, <1>1, CreateEffect DEF CreateIntent, FileSound, Unfinished, IntentRowsKept
<1>2. ASSUME NEW v \in Uploads, FinalizeFile(v) PROVE FileSound(u)'
  <2>0. /\ claim' = "open" /\ now' = now /\ intent[v].status = "open" /\ now < intent[v].expires
    BY <1>2 DEF FinalizeFile, Finalizable
  <2>1. CASE u = v
    <3>1. file[u].lease.owner = NoToken /\ intent[u].expires - IntentTtl <= now
      BY <1>0, <2>0, <2>1 DEF IntentSound, FileSound
    <3> QED BY <1>0, <1>2, <2>0, <2>1, <3>1, FinalizeFields DEF FileSound, Unfinished
  <2>2. CASE u # v
    BY <1>0, <1>2, <2>0, <2>2, FinalizeFields DEF FileSound, Unfinished, IntentRowsKept, FileRowsKept
  <2> QED BY <2>1, <2>2
<1>3. ASSUME NEW v \in Uploads, Burn(v) PROVE FileSound(u)'
  BY <1>0, <1>3, BurnEffect DEF Burn, Finalizable, FileSound, Unfinished, IntentRowsKept
<1>4. ASSUME NEW w \in Sweepers, NEW v \in Uploads, ClaimForCleanup(w, v) PROVE FileSound(u)'
  <2>1. run[w].now <= now /\ run[w].now \in Int
    BY <1>0, <1>4 DEF ClaimForCleanup, Scanning, RunSound, Typed, CleanupTypeOK
  <2>2. /\ UNCHANGED <<now, intent, claim>> /\ claim # "review"
        /\ file[v].status = "kept" /\ file[v].until <= run[w].now
    BY <1>4 DEF ClaimForCleanup, FileDue
  <2>3. /\ file'[v].status = file[v].status /\ file'[v].until = file[v].until
        /\ FileRowsKept(v)
    BY <1>0, <1>4, ClaimFileEffect
  <2>4. CASE u = v
    <3>1. file[u].until <= now BY <1>0, <2>1, <2>2, <2>4
    <3> QED BY <1>0, <2>2, <2>3, <2>4, <3>1 DEF FileSound, Unfinished
  <2>5. CASE u # v
    <3>1. file'[u] = file[u] BY <2>3, <2>5 DEF FileRowsKept
    <3> QED BY <1>0, <2>2, <3>1 DEF FileSound, Unfinished
  <2> QED BY <2>4, <2>5
<1>5. ASSUME NEW w \in Sweepers, NEW v \in Uploads, ClaimIntent(w, v) PROVE FileSound(u)'
  BY <1>0, <1>5, ClaimIntentEffect DEF ClaimIntent, FileSound, Unfinished, IntentRowsKept
<1>6. ASSUME NEW w \in Sweepers, MarkDeleted(w) PROVE FileSound(u)'
  <2>1. UNCHANGED <<now, intent, claim>> BY <1>6 DEF MarkDeleted
  <2>2. CASE file' = file
    BY <1>0, <2>1, <2>2 DEF FileSound, Unfinished
  <2>3. CASE file' # file
    <3>1. PICK v \in Uploads :
             /\ file[v].lease.owner = w /\ file[v].status = "kept" /\ file'[v].status = "deleted"
             /\ file'[v].until = file[v].until /\ file'[v].lease = file[v].lease
             /\ FileRowsKept(v)
      BY <1>0, <1>6, <2>3, MarkFileEffect
    <3>2. CASE u = v
      <4>1. w # NoToken BY <1>0
      <4> QED BY <1>0, <2>1, <3>1, <3>2, <4>1 DEF FileSound, Unfinished
    <3>3. CASE u # v
      <4>1. file'[u] = file[u] BY <3>1, <3>3 DEF FileRowsKept
      <4> QED BY <1>0, <2>1, <4>1 DEF FileSound, Unfinished
    <3> QED BY <3>2, <3>3
  <2> QED BY <2>2, <2>3
<1>7. ASSUME NEW w \in Sweepers, MarkIntent(w) PROVE FileSound(u)'
  <2>1. CASE intent' = intent
    BY <1>0, <1>7, <2>1 DEF MarkIntent, FileSound, Unfinished
  <2>2. CASE intent' # intent
    BY <1>0, <1>7, <2>2, MarkIntentEffect DEF OwnsIntent, IntentSound, FileSound, Unfinished,
       IntentRowsKept
  <2> QED BY <2>1, <2>2
<1>8. CASE FileTick
  BY <1>0, <1>8 DEF FileTick, FileSound, Unfinished
<1>9. ASSUME NEW v \in Uploads, EnterReview(v) \/ LeaveReview \/ EndClaim PROVE FileSound(u)'
  BY <1>0, <1>9 DEF EnterReview, LeaveReview, EndClaim, FileSound, Unfinished
<1>10. CASE UNCHANGED <<now, intent, file, claim>>
  BY <1>0, <1>10 DEF FileSound, Unfinished
<1> QED
  BY <1>1, <1>2, <1>3, <1>4, <1>5, <1>6, <1>7, <1>8, <1>9, <1>10 DEF CleanupNext, RunStep,
     PutObject, HeadObject, StartRun, EndRun, DeleteObject, RunLost

\* The run of a step, and the others, which it does not touch.
RunsKept(w) == \A v \in Sweepers \ {w} : run'[v] = run[v]

LEMMA RunsStep ==
    ASSUME CleanupInv, CleanupNext, NEW w \in Sweepers
    PROVE  RunSound(w)'
<1>0. /\ Typed /\ now \in Nat /\ NoToken \notin Sweepers
      /\ \A v \in Sweepers : RunSound(v)
      /\ \A u \in Uploads : /\ IntentSound(u) /\ FileSound(u)
                            /\ intent[u].expires \in Int /\ file[u].until \in Int
      /\ run[w] # NoRun => run[w].now \in Nat
  BY CleanupAssumption DEF CleanupInv, Typed, CleanupTypeOK
\* Steps of others leave what a run relies on.
<1>1. ASSUME run'[w] = run[w], now <= now',
             run[w] # NoRun /\ run[w].at # "scan" =>
                 LET u == run[w].on IN
                 /\ run[w].kind = "intent" =>
                        /\ intent'[u].status \in {"open", "burned", "cleaned"}
                        /\ intent'[u].expires = intent[u].expires
                 /\ run[w].kind = "file" =>
                        /\ file'[u].status \in {"kept", "deleted"}
                        /\ file'[u].until = file[u].until
                        /\ file'[u].lease.owner # NoToken
                 /\ u \notin objects => u \notin objects',
             now' \in Nat
      PROVE  RunSound(w)'
  BY <1>0, <1>1 DEF RunSound
\* What it relies on: an upload that has ended.
<1>a. \A u \in Uploads : run[w] # NoRun /\ run[w].at # "scan" /\ run[w].on = u =>
          /\ run[w].kind = "intent" => intent[u].status \in {"open", "burned", "cleaned"}
                                       /\ intent[u].expires <= now
          /\ run[w].kind = "file" => file[u].status \in {"kept", "deleted"}
                                     /\ file[u].until <= now /\ file[u].lease.owner # NoToken
                                     /\ intent[u].status = "finalized"
                                     /\ intent[u].expires - IntentTtl + Retention <= now
  BY <1>0, CleanupAssumption DEF RunSound, FileSound
<1>b. run[w] # NoRun /\ run[w].at # "scan" => run[w].on \in Uploads /\ run[w].kind \in {"intent", "file"}
  BY <1>0 DEF RunSound
<1>2. ASSUME NEW u \in Uploads, CreateIntent(u) PROVE RunSound(w)'
  <2>1. UNCHANGED <<now, file, objects, run>> /\ intent[u].status = "none"
    BY <1>2 DEF CreateIntent
  <2> QED BY <1>0, <1>1, <1>2, <1>a, <1>b, <2>1, CreateEffect DEF IntentRowsKept
<1>3. ASSUME NEW u \in Uploads, PutObject(u) PROVE RunSound(w)'
  <2>1. /\ UNCHANGED <<now, intent, file, run>> /\ objects' = objects \cup {u}
        /\ now < intent[u].expires - IntentTtl + UrlTtl
    BY <1>3 DEF PutObject
  <2>2. run[w] # NoRun /\ run[w].at # "scan" => run[w].on # u
    BY <1>0, <1>a, <1>b, <2>1, CleanupAssumption
  <2> QED BY <1>0, <1>1, <1>a, <1>b, <2>1, <2>2 DEF RunSound
<1>4. ASSUME LeaveReview \/ EndClaim \/ \E u \in Uploads : HeadObject(u) \/ EnterReview(u)
      PROVE  RunSound(w)'
  BY <1>0, <1>1, <1>4 DEF HeadObject, EnterReview, LeaveReview, EndClaim, RunSound
<1>5. ASSUME NEW u \in Uploads, FinalizeFile(u) PROVE RunSound(w)'
  <2>1. UNCHANGED <<now, objects, run>> /\ intent[u].status = "open" /\ now < intent[u].expires
    BY <1>5 DEF FinalizeFile, Finalizable
  <2> QED BY <1>0, <1>1, <1>5, <1>a, <1>b, <2>1, FinalizeFields DEF IntentRowsKept, FileRowsKept
<1>6. ASSUME NEW u \in Uploads, Burn(u) PROVE RunSound(w)'
  <2>1. UNCHANGED <<now, file, objects, run>> BY <1>6 DEF Burn
  <2>2. /\ intent'[u].status = "burned" /\ intent'[u].expires = intent[u].expires
        /\ \A x \in Uploads \ {u} : intent'[x] = intent[x]
    BY <1>0, <1>6, BurnEffect DEF IntentRowsKept
  <2> QED BY <1>0, <1>1, <1>a, <1>b, <2>1, <2>2
<1>7. CASE FileTick
  BY <1>0, <1>1, <1>7 DEF FileTick, RunSound
<1>8. ASSUME NEW v \in Sweepers, StartRun(v) \/ EndRun(v) \/ RunLost(v) PROVE RunSound(w)'
  <2>1. /\ UNCHANGED <<now, intent, file, objects>>
        /\ run'[v] = NoRun \/ (run'[v].now = now /\ run'[v].at = "scan")
        /\ RunsKept(v)
    <3>1. CASE StartRun(v)
      BY <1>0, <3>1 DEF StartRun, RunsKept, Typed, RunsTyped
    <3>2. CASE EndRun(v) \/ RunLost(v)
      <4>1. run' = [run EXCEPT ![v] = NoRun] /\ UNCHANGED <<now, intent, file, objects>>
        BY <3>2 DEF EndRun, RunLost
      <4> QED BY <1>0, <4>1 DEF RunsKept, Typed, RunsTyped
    <3> QED BY <1>8, <3>1, <3>2
  <2>2. CASE v = w
    BY <1>0, <2>1, <2>2 DEF RunSound
  <2>3. CASE v # w
    <3>1. run'[w] = run[w] BY <2>1, <2>3 DEF RunsKept
    <3> QED BY <1>0, <1>1, <1>a, <1>b, <2>1, <3>1
  <2> QED BY <2>2, <2>3
<1>9. ASSUME NEW v \in Sweepers, NEW u \in Uploads, ClaimForCleanup(v, u) PROVE RunSound(w)'
  <2>1. /\ UNCHANGED <<now, intent, objects>> /\ RunsKept(v)
        /\ run'[v].now = run[v].now /\ run'[v].at = "claimed" /\ run'[v].kind = "file"
        /\ run'[v].on = u
        /\ run[v] # NoRun
        /\ file[u].status = "kept" /\ file[u].until <= run[v].now
    BY <1>0, <1>9 DEF ClaimForCleanup, Claimed, Scanning, FileDue, RunsKept, Typed, RunsTyped, Runs
  <2>2. CASE v = w
    BY <1>0, <1>9, <2>1, <2>2, ClaimFileEffect DEF RunSound
  <2>3. CASE v # w
    <3>1. run'[w] = run[w] BY <2>1, <2>3 DEF RunsKept
    <3>2. \A x \in Uploads : /\ file'[x].status = file[x].status /\ file'[x].until = file[x].until
                            /\ file'[x].lease.owner \in {file[x].lease.owner, v}
      <4> SUFFICES ASSUME NEW x \in Uploads
                   PROVE  /\ file'[x].status = file[x].status /\ file'[x].until = file[x].until
                          /\ file'[x].lease.owner \in {file[x].lease.owner, v}
        OBVIOUS
      <4>1. CASE x = u BY <1>0, <1>9, <4>1, ClaimFileEffect
      <4>2. CASE x # u
        <5>1. file'[x] = file[x] BY <1>0, <1>9, <4>2, ClaimFileEffect DEF FileRowsKept
        <5> QED BY <5>1
      <4> QED BY <4>1, <4>2
    <3>3. v # NoToken BY <1>0
    <3> QED BY <1>0, <1>1, <1>a, <1>b, <2>1, <3>1, <3>2, <3>3
  <2> QED BY <2>2, <2>3
<1>10. ASSUME NEW v \in Sweepers, NEW u \in Uploads, ClaimIntent(v, u) PROVE RunSound(w)'
  <2>1. /\ UNCHANGED <<now, file, objects>> /\ RunsKept(v)
        /\ run'[v].now = run[v].now /\ run'[v].at = "claimed" /\ run'[v].kind = "intent"
        /\ run'[v].on = u
        /\ run[v] # NoRun
        /\ intent[u].status \in {"open", "burned"} /\ intent[u].expires <= run[v].now
    BY <1>0, <1>10 DEF ClaimIntent, Claimed, Scanning, IntentDue, RunsKept, Typed, RunsTyped, Runs
  <2>2. CASE v = w
    BY <1>0, <1>10, <2>1, <2>2, ClaimIntentEffect DEF RunSound
  <2>3. CASE v # w
    <3>1. run'[w] = run[w] BY <2>1, <2>3 DEF RunsKept
    <3>2. \A x \in Uploads : /\ intent'[x].status = intent[x].status
                            /\ intent'[x].expires = intent[x].expires
      BY <1>0, <1>10, ClaimIntentEffect DEF IntentRowsKept
    <3> QED BY <1>0, <1>1, <1>a, <1>b, <2>1, <3>1, <3>2
  <2> QED BY <2>2, <2>3
<1>11. ASSUME NEW v \in Sweepers, NEW outcome \in {"deleted", "missing", "unknown", "failed"},
              NEW gone \in BOOLEAN, DeleteObject(v, outcome, gone)
       PROVE  RunSound(w)'
  <2>1. /\ RunsKept(v)
        /\ run'[v].now = run[v].now /\ run'[v].at = "done" /\ run'[v].kind = run[v].kind
        /\ run'[v].on = run[v].on /\ run'[v].outcome = outcome
    BY <1>0, <1>11 DEF DeleteObject, RunsKept, Typed, RunsTyped, Runs
  <2>2. CASE v = w
    BY <1>0, <1>11, <2>1, <2>2, DeleteEffect DEF RunSound
  <2>3. CASE v # w
    <3>1. run'[w] = run[w] BY <2>1, <2>3 DEF RunsKept
    <3>2. UNCHANGED <<now, intent, file>> /\ objects' \subseteq objects
      BY <1>11, DeleteEffect
    <3> QED BY <1>0, <1>1, <1>a, <1>b, <3>1, <3>2
  <2> QED BY <2>2, <2>3
<1>12. ASSUME NEW v \in Sweepers, MarkDeleted(v) \/ MarkIntent(v) PROVE RunSound(w)'
  <2>1. /\ RunsKept(v) /\ UNCHANGED <<now, objects>>
        /\ run'[v].now = run[v].now /\ run'[v].at = "scan" /\ run[v] # NoRun
    BY <1>0, <1>12 DEF MarkDeleted, MarkIntent, NextRecord, RunDone, RunsKept, Typed, RunsTyped, Runs
  <2>2. ASSUME NEW u \in Uploads
        PROVE  /\ intent[u].status \in {"open", "burned", "cleaned"} =>
                      /\ intent'[u].status \in {"open", "burned", "cleaned"}
                      /\ intent'[u].expires = intent[u].expires
               /\ file'[u].until = file[u].until /\ file'[u].lease = file[u].lease
               /\ file[u].status \in {"kept", "deleted"} => file'[u].status \in {"kept", "deleted"}
    <3>1. CASE intent' = intent /\ file' = file
      BY <3>1
    <3>2. CASE MarkDeleted(v) /\ file' # file
      <4>1. intent' = intent BY <3>2 DEF MarkDeleted
      <4>2. PICK x \in Uploads :
               /\ file[x].status = "kept" /\ file'[x].status = "deleted"
               /\ file'[x].until = file[x].until /\ file'[x].lease = file[x].lease
               /\ FileRowsKept(x)
        BY <1>0, <3>2, MarkFileEffect
      <4>3. u # x => file'[u] = file[u] BY <4>2 DEF FileRowsKept
      <4> QED BY <4>1, <4>2, <4>3
    <3>3. CASE MarkIntent(v) /\ intent' # intent
      <4>1. PICK x \in Uploads :
               /\ UNCHANGED file /\ IntentRowsKept(x) /\ intent'[x].expires = intent[x].expires
               /\ intent'[x].status = "cleaned" \/ intent'[x].status = intent[x].status
        BY <1>0, <3>3, MarkIntentEffect
      <4>2. u # x => intent'[u] = intent[u] BY <4>1 DEF IntentRowsKept
      <4> QED BY <4>1, <4>2
    <3>4. MarkDeleted(v) => intent' = intent BY DEF MarkDeleted
    <3>5. MarkIntent(v) => file' = file BY DEF MarkIntent
    <3> QED BY <1>12, <3>1, <3>2, <3>3, <3>4, <3>5
  <2>3. CASE v = w
    BY <1>0, <2>1, <2>3 DEF RunSound
  <2>4. CASE v # w
    <3>1. run'[w] = run[w] BY <2>1, <2>4 DEF RunsKept
    <3> QED BY <1>0, <1>1, <1>a, <1>b, <2>1, <2>2, <3>1
  <2> QED BY <2>3, <2>4
<1> QED
  BY <1>2, <1>3, <1>4, <1>5, <1>6, <1>7, <1>8, <1>9, <1>10, <1>11, <1>12 DEF CleanupNext, RunStep

LEMMA RetainedStep ==
    ASSUME CleanupInv, CleanupNext, NEW u \in Uploads,
           Submitted(u)', file'[u].status = "permanent" \/ file'[u].until > now'
    PROVE  u \in objects'
<1>0. /\ Typed /\ now \in Nat /\ file[u].until \in Int
      /\ IntentSound(u) /\ FileSound(u) /\ \A w \in Sweepers : RunSound(w)
      /\ Submitted(u) /\ (file[u].status = "permanent" \/ file[u].until > now) => u \in objects
  BY CleanupAssumption DEF CleanupInv, Typed, CleanupTypeOK, RetainedFileExists
<1>1. ASSUME NEW v \in Uploads, FinalizeFile(v) PROVE u \in objects'
  <2>1. v \in head /\ intent[v].status = "open" /\ now < intent[v].expires /\ objects' = objects
        /\ now' = now
    BY <1>1 DEF FinalizeFile, Finalizable
  <2>2. intent[u].expires \in Int BY <1>0, CleanupAssumption DEF Typed, CleanupTypeOK
  <2>3. CASE u = v BY <1>0, <2>1, <2>2, <2>3 DEF IntentSound
  <2>4. CASE u # v
    BY <1>0, <1>1, <2>1, <2>4, FinalizeFields DEF FileRowsKept, Submitted
  <2> QED BY <2>3, <2>4
<1>2. ASSUME NEW w \in Sweepers, NEW v \in Uploads, ClaimForCleanup(w, v) PROVE u \in objects'
  <2>1. UNCHANGED <<now, objects>> BY <1>2 DEF ClaimForCleanup
  <2>2. file'[u].status = file[u].status /\ file'[u].until = file[u].until
    <3>1. file'[v].status = file[v].status /\ file'[v].until = file[v].until /\ FileRowsKept(v)
      BY <1>0, <1>2, ClaimFileEffect
    <3> QED BY <3>1 DEF FileRowsKept
  <2> QED BY <1>0, <2>1, <2>2 DEF Submitted
<1>3. ASSUME NEW w \in Sweepers, NEW outcome \in {"deleted", "missing", "unknown", "failed"},
             NEW gone \in BOOLEAN, DeleteObject(w, outcome, gone)
      PROVE  u \in objects'
  <2>1. UNCHANGED <<now, file>> /\ u \in objects
    BY <1>0, <1>3, DeleteEffect DEF Submitted
  <2>2. u # run[w].on
    <3>1. run[w] # NoRun /\ run[w].at # "scan" /\ run[w].now \in Int
      BY <1>0, <1>3, DeleteEffect DEF Typed, CleanupTypeOK
    <3> QED BY <1>0, <2>1, <3>1 DEF RunSound, FileSound, Submitted
  <2> QED BY <1>3, <2>1, <2>2, DeleteEffect
<1>4. ASSUME NEW w \in Sweepers, MarkDeleted(w) PROVE u \in objects'
  <2>1. UNCHANGED <<now, objects>> BY <1>4 DEF MarkDeleted
  <2>2. CASE file' = file BY <1>0, <2>1, <2>2 DEF Submitted
  <2>3. CASE file' # file
    <3>1. PICK x \in Uploads : file'[x].status = "deleted" /\ FileRowsKept(x)
      BY <1>0, <1>4, <2>3, MarkFileEffect
    <3>2. u # x BY <1>0, <3>1 DEF Submitted
    <3>3. file'[u] = file[u] BY <3>1, <3>2 DEF FileRowsKept
    <3> QED BY <1>0, <2>1, <3>3 DEF Submitted
  <2> QED BY <2>2, <2>3
<1>5. CASE FileTick
  BY <1>0, <1>5 DEF FileTick, Submitted
<1>6. CASE UNCHANGED <<now, file>> /\ objects \subseteq objects'
  BY <1>0, <1>6 DEF Submitted
<1> QED
  BY <1>1, <1>2, <1>3, <1>4, <1>5, <1>6 DEF CleanupNext, RunStep, CreateIntent, PutObject,
     HeadObject, Burn, EnterReview, LeaveReview, EndClaim, StartRun, EndRun, ClaimIntent,
     MarkIntent, RunLost

LEMMA MarkedStep ==
    ASSUME CleanupInv, CleanupNext, NEW u \in Uploads,
           file'[u].status = "deleted" \/ intent'[u].status = "cleaned"
    PROVE  u \notin objects'
<1>0. /\ Typed /\ now \in Nat /\ file[u].until \in Int /\ intent[u].expires \in Int
      /\ IntentSound(u) /\ FileSound(u) /\ \A w \in Sweepers : RunSound(w)
      /\ file[u].status = "deleted" \/ intent[u].status = "cleaned" => u \notin objects
  BY CleanupAssumption DEF CleanupInv, Typed, CleanupTypeOK, MarkedIsGone
<1>1. ASSUME UNCHANGED objects, file'[u].status = "deleted" => file[u].status = "deleted",
             intent'[u].status = "cleaned" => intent[u].status = "cleaned"
      PROVE  u \notin objects'
  BY <1>0, <1>1
<1>2. ASSUME NEW v \in Uploads, CreateIntent(v) PROVE u \notin objects'
  BY <1>1, <1>2, <1>0, CreateEffect DEF CreateIntent, IntentRowsKept
<1>3. ASSUME NEW v \in Uploads, PutObject(v) PROVE u \notin objects'
  <2>1. UNCHANGED <<now, file, intent>> /\ objects' = objects \cup {v}
        /\ now < intent[v].expires - IntentTtl + UrlTtl
    BY <1>3 DEF PutObject
  <2>2. u # v
    BY <1>0, <2>1, CleanupAssumption DEF IntentSound, FileSound
  <2> QED BY <1>0, <2>1, <2>2
<1>4. ASSUME NEW v \in Uploads, FinalizeFile(v) \/ Burn(v) PROVE u \notin objects'
  <2>1. UNCHANGED objects BY <1>4 DEF FinalizeFile, Burn
  <2>2. CASE FinalizeFile(v)
    BY <1>0, <1>1, <2>1, <2>2, FinalizeFields DEF IntentRowsKept, FileRowsKept
  <2>3. CASE Burn(v)
    <3>1. UNCHANGED file BY <2>3 DEF Burn
    <3> QED BY <1>0, <1>1, <2>1, <2>3, <3>1, BurnEffect DEF IntentRowsKept
  <2> QED BY <1>4, <2>2, <2>3
<1>5. ASSUME NEW w \in Sweepers, NEW v \in Uploads, ClaimForCleanup(w, v) \/ ClaimIntent(w, v)
      PROVE  u \notin objects'
  <2>1. CASE ClaimForCleanup(w, v)
    BY <1>0, <1>1, <2>1, ClaimFileEffect DEF ClaimForCleanup, FileRowsKept
  <2>2. CASE ClaimIntent(w, v)
    BY <1>0, <1>1, <2>2, ClaimIntentEffect DEF ClaimIntent, IntentRowsKept
  <2> QED BY <1>5, <2>1, <2>2
<1>6. ASSUME NEW w \in Sweepers, NEW outcome \in {"deleted", "missing", "unknown", "failed"},
             NEW gone \in BOOLEAN, DeleteObject(w, outcome, gone)
      PROVE  u \notin objects'
  BY <1>0, <1>6, DeleteEffect
<1>7. ASSUME NEW w \in Sweepers, MarkDeleted(w) PROVE u \notin objects'
  <2>1. UNCHANGED <<intent, objects>> BY <1>7 DEF MarkDeleted
  <2>2. CASE file' = file BY <1>0, <1>1, <2>1, <2>2
  <2>3. CASE file' # file
    BY <1>0, <1>7, <2>1, <2>3, MarkFileEffect DEF RunDone, RunSound, FileRowsKept
  <2> QED BY <2>2, <2>3
<1>8. ASSUME NEW w \in Sweepers, MarkIntent(w) PROVE u \notin objects'
  <2>1. UNCHANGED <<file, objects>> BY <1>8 DEF MarkIntent
  <2>2. CASE intent' = intent BY <1>0, <1>1, <2>1, <2>2
  <2>3. CASE intent' # intent
    BY <1>0, <1>8, <2>1, <2>3, MarkIntentEffect DEF RunDone, RunSound, IntentRowsKept
  <2> QED BY <2>2, <2>3
<1>9. CASE UNCHANGED <<intent, file, objects>>
  BY <1>1, <1>9
<1> QED
  BY <1>2, <1>3, <1>4, <1>5, <1>6, <1>7, <1>8, <1>9 DEF CleanupNext, RunStep, HeadObject,
     EnterReview, LeaveReview, EndClaim, StartRun, EndRun, RunLost, FileTick

LEMMA CleanupStep == CleanupInv /\ [CleanupNext]_fileVars => CleanupInv'
<1>1. ASSUME CleanupInv, CleanupNext PROVE CleanupInv'
  <2>1. Typed' BY <1>1, TypesStep DEF CleanupInv, Typed
  <2>2. RetainedFileExists' BY <1>1, RetainedStep DEF RetainedFileExists
  <2>3. MarkedIsGone' BY <1>1, MarkedStep DEF MarkedIsGone
  <2> QED BY <1>1, <2>1, <2>2, <2>3, IntentStep, FileStep, RunsStep DEF CleanupInv, Typed
<1>2. ASSUME CleanupInv, UNCHANGED fileVars PROVE CleanupInv'
  BY <1>2 DEF CleanupInv, fileVars, CleanupTypeOK, RunsTyped, IntentSound, FileSound, RunSound,
     RetainedFileExists, MarkedIsGone, Submitted, Unfinished
<1> QED BY <1>1, <1>2

\* Only a run removes objects, and a file it has claimed keeps the claim out of
\* review until it is marked.
LEMMA ReviewStep ==
    ASSUME CleanupInv, [CleanupNext]_fileVars, NEW u \in Uploads,
           u \in objects, u \notin objects', Submitted(u)
    PROVE  claim # "review"
<1>1. PICK w \in Sweepers : /\ run[w] # NoRun /\ run[w].at = "claimed" /\ run[w].on = u
  <2>1. PICK w \in Sweepers, outcome \in {"deleted", "missing", "unknown", "failed"}, gone \in BOOLEAN :
            DeleteObject(w, outcome, gone)
    BY DEF fileVars, CleanupNext, RunStep, CreateIntent, PutObject, HeadObject, FinalizeFile,
       Burn, EnterReview, LeaveReview, EndClaim, StartRun, EndRun, ClaimForCleanup,
       ClaimIntent, MarkDeleted, MarkIntent, RunLost, FileTick
  <2> QED BY <2>1, DeleteEffect
<1>2. file[u].status = "kept" /\ file[u].lease.owner # NoToken
  BY <1>1 DEF CleanupInv, RunSound, FileSound, Submitted
<1> QED BY <1>2 DEF CleanupInv, FileSound, Unfinished

LEMMA OwnerStep ==
    ASSUME CleanupInv, [CleanupNext]_fileVars, NEW u \in Uploads, NEW v \in Sweepers,
           intent[u].lease.owner = v,
           intent'[u].lease.owner = NoToken \/ intent'[u].status # intent[u].status
    PROVE  \E w \in Sweepers : w = v /\ run[w] # NoRun /\ run[w].on = u /\ run'[w] # run[w]
<1>0. /\ Typed /\ IntentSound(u) /\ now \in Nat /\ intent[u].expires \in Int /\ v # NoToken
  BY CleanupAssumption DEF CleanupInv, Typed, CleanupTypeOK
<1>1. intent[u].expires <= now /\ intent[u].status \in {"open", "burned", "cleaned"}
  BY <1>0 DEF IntentSound
<1>2. ASSUME NEW x \in Uploads, CreateIntent(x) \/ FinalizeFile(x) \/ Burn(x) PROVE FALSE
  <2>1. u # x
    BY <1>0, <1>1, <1>2 DEF CreateIntent, FinalizeFile, Burn, Finalizable
  <2> QED
    BY <1>0, <1>2, <2>1, CreateEffect, FinalizeFields, BurnEffect DEF IntentRowsKept
<1>3. ASSUME NEW w \in Sweepers, NEW x \in Uploads, ClaimIntent(w, x) PROVE FALSE
  BY <1>0, <1>3, ClaimIntentEffect, CleanupAssumption DEF IntentRowsKept
<1>4. PICK w \in Sweepers : MarkIntent(w)
  <2>1. intent' # intent BY <1>0
  <2> QED
    BY <1>2, <1>3, <2>1 DEF fileVars, CleanupNext, RunStep, PutObject, HeadObject, EnterReview,
       LeaveReview, EndClaim, StartRun, EndRun, ClaimForCleanup, DeleteObject, MarkDeleted,
       RunLost, FileTick
<1>5. run[w].on = u /\ OwnsIntent(w, u) /\ RunDone(w, "intent")
  BY <1>0, <1>4, MarkIntentEffect DEF IntentRowsKept
<1>6. run'[w].at = "scan"
  BY <1>0, <1>4, <1>5 DEF MarkIntent, NextRecord, RunDone, Typed, RunsTyped, Runs
<1> QED BY <1>5, <1>6 DEF OwnsIntent, RunDone

\* What the cleanup may never do, whoever sleeps on a lease: take a file that is
\* kept or in review, say deleted of an object that is there, or end the claim
\* of another run.
THEOREM CleanupKeepsContract == CleanupSpec => CleanupContract
<1>1. CleanupSpec => []CleanupInv
  BY CleanupStart, CleanupStep, PTL DEF CleanupSpec
<1>2. CleanupInv => CleanupTypeOK /\ RetainedFileExists /\ MarkedIsGone
  BY DEF CleanupInv
<1>3. CleanupInv /\ [CleanupNext]_fileVars =>
          [\A u \in Uploads : u \in objects /\ u \notin objects' /\ Submitted(u) =>
              claim # "review"]_fileVars
  BY ReviewStep
<1>4. CleanupInv /\ [CleanupNext]_fileVars =>
          [\A u \in Uploads, v \in Sweepers :
              /\ intent[u].lease.owner = v
              /\ intent'[u].lease.owner = NoToken \/ intent'[u].status # intent[u].status
              => \E w \in Sweepers : w = v /\ run[w] # NoRun /\ run[w].on = u /\ run'[w] # run[w]]_fileVars
  BY OwnerStep
<1> QED
  BY <1>1, <1>2, <1>3, <1>4, PTL DEF CleanupSpec, CleanupContract, NeverDeletedInReview,
     OnlyOwnerReleases

-----------------------------------------------------------------------------
(* Finite sets of numbers have a greatest element: a smallest set without   *)
(* one would have an element whose removal leaves another.                  *)

LEMMA FiniteSetHasMax ==
    ASSUME NEW S \in SUBSET Int, IsFiniteSet(S), S # {}
    PROVE  /\ Max(S) \in S
           /\ \A y \in S : y <= Max(S)
<1> DEFINE HasMax(T) == \E m \in T : \A y \in T : m >= y
           D == {T \in FiniteSubsetsOf(S) : T # {} /\ ~HasMax(T)}
<1>1. ASSUME D # {} PROVE FALSE
  <2>1. IsWellFoundedOn(StrictSubsetOrdering(S), FiniteSubsetsOf(S))
    BY FS_StrictSubsetOrderingWellFounded
  <2>2. PICK T \in D : \A U \in D : <<U, T>> \notin StrictSubsetOrdering(S)
    <3> HIDE DEF D
    <3>1. D \subseteq FiniteSubsetsOf(S) BY DEF D
    <3> QED BY <1>1, <2>1, <3>1, WFMin
  <2>3. PICK x \in T : TRUE OBVIOUS
  <2>4. T \ {x} \in FiniteSubsetsOf(S)
    BY <2>2, FS_RemoveElement DEF FiniteSubsetsOf
  <2>5. <<T \ {x}, T>> \in StrictSubsetOrdering(S)
    BY <2>2, <2>3 DEF StrictSubsetOrdering, FiniteSubsetsOf
  <2>6. T \subseteq Int BY DEF FiniteSubsetsOf
  <2>7. CASE T = {x}
    BY <2>6, <2>7
  <2>8. CASE T # {x}
    <3>1. PICK m \in T \ {x} : \A y \in T \ {x} : m >= y
      BY <2>2, <2>4, <2>5, <2>8
    <3>2. HasMax(T)
      <4>1. CASE m >= x BY <3>1, <4>1, <2>6
      <4>2. CASE ~(m >= x)
        <5>1. x > m BY <4>2, <2>6, <3>1
        <5>2. \A y \in T : x >= y BY <3>1, <5>1, <2>6
        <5> QED BY <5>2
      <4> QED BY <4>1, <4>2
    <3> QED BY <3>2
  <2> QED BY <2>7, <2>8
<1>2. S \in FiniteSubsetsOf(S) BY DEF FiniteSubsetsOf
<1>3. HasMax(S) BY <1>1, <1>2
<1> QED BY <1>3 DEF Max

LEMMA RangeFinite ==
    ASSUME NEW A, NEW f, f = [x \in A |-> f[x]], IsFiniteSet(A)
    PROVE  IsFiniteSet({f[x] : x \in A})
<1>1. f \in Surjection(A, {f[x] : x \in A})
  BY DEF Surjection
<1> QED BY <1>1, FS_Surjection

LEMMA WaitsBounded ==
    MaxWait \in Nat /\ \A n \in 1 .. MaxAttempts : Delay[n] \in 0 .. MaxWait
<1> DEFINE S == {Delay[n] : n \in DOMAIN Delay} \cup {Lead[e] : e \in Reminders} \cup {0}
<1>1. /\ Delay \in [1 .. MaxAttempts -> Nat] /\ Lead \in [Reminders -> Nat]
      /\ IsFiniteSet(1 .. MaxAttempts) /\ IsFiniteSet(Reminders)
  <2>1. MaxAttempts \in Int /\ Reminders \in SUBSET Events /\ IsFiniteSet(Events)
    BY NotificationAssumption
  <2>2. IsFiniteSet(1 .. MaxAttempts) BY <2>1, FS_Interval
  <2>3. IsFiniteSet(Reminders) BY <2>1, FS_Subset
  <2> QED BY <2>2, <2>3, NotificationAssumption
<1>2. IsFiniteSet({Delay[n] : n \in 1 .. MaxAttempts}) BY <1>1, RangeFinite
<1>3. IsFiniteSet({Lead[e] : e \in Reminders}) BY <1>1, RangeFinite
<1>4. S \in SUBSET Int /\ S \subseteq Nat /\ 0 \in S /\ \A n \in 1 .. MaxAttempts : Delay[n] \in S
  BY <1>1
<1>5. IsFiniteSet(S)
  <2>1. DOMAIN Delay = 1 .. MaxAttempts BY <1>1
  <2> QED BY <1>2, <1>3, <2>1, FS_Union, FS_Singleton
<1> HIDE DEF S
<1>6. Max(S) \in S /\ \A y \in S : y <= Max(S) BY <1>4, <1>5, FiniteSetHasMax
<1>7. MaxWait = Max(S) BY DEF MaxWait, S
<1>8. Max(S) \in Nat /\ \A n \in 1 .. MaxAttempts : Delay[n] \in Nat /\ Delay[n] <= Max(S)
  BY <1>1, <1>4, <1>6
<1> QED BY <1>7, <1>8

-----------------------------------------------------------------------------
(* The inductive invariant of the delivery.                                *)

Sends == [at : {"claimed", "done"}, on : Deliveries, owner : BOOLEAN,
          attempts : 1 .. MaxAttempts, outcome : {"none", "skipped"} \cup Outcomes]

Rows == [status : {"NONE", "PENDING", "SENDING", "RETRYABLE", "SENT", "FAILED"},
         attempts : 0 .. MaxAttempts, wait : 0 .. MaxWait, age : 0 .. MaxAge,
         reason : {"none", "stuck", "forced", "skipped"} \cup Outcomes,
         text : Texts]

SendsTyped == worker \in [Workers -> Sends \cup {NoWork}]

\* A send is of a recorded row, never counts more attempts than the row, has
\* been accepted when it says so, and holds a claim only of a row that is
\* SENDING or was failed by an administrator.
SendSound(w) ==
    worker[w] # NoWork =>
        LET d == worker[w].on IN
        /\ delivery[d].status # "NONE"
        /\ worker[w].attempts <= delivery[d].attempts
        /\ worker[w].outcome = "sent" /\ d[2] # "IN_APP" => d \in accepted
        /\ worker[w].owner => delivery[d].status \in {"SENDING", "FAILED"}

DeliveryInv ==
    /\ NotificationTypeOK /\ SendsTyped
    /\ \A w \in Workers : SendSound(w)
    /\ SentIsDelivered /\ NotGivenUpEarly /\ OneSender

LEMMA AgeBounded == MaxAge \in Nat \ {0} /\ 0 \in 0 .. MaxAge
BY NotificationAssumption DEF MaxAge

LEMMA NoDeliveryTyped == NoDelivery \in Rows
BY AgeBounded, WaitsBounded, NotificationAssumption DEF NoDelivery, Rows, Texts

LEMMA DeliveryStart == NotificationInit => DeliveryInv
<1> SUFFICES ASSUME NotificationInit PROVE DeliveryInv OBVIOUS
<1>2. NotificationTypeOK
  BY NoDeliveryTyped, NotificationAssumption DEF NotificationInit, NotificationTypeOK, Rows
<1>3. SendsTyped BY DEF NotificationInit, SendsTyped
<1>4. \A w \in Workers : worker[w] = NoWork BY DEF NotificationInit
<1>5. \A d \in Deliveries : delivery[d].status = "NONE" BY DEF NotificationInit, NoDelivery
<1> QED
  BY <1>2, <1>3, <1>4, <1>5 DEF DeliveryInv, SendSound, SentIsDelivered, NotGivenUpEarly, OneSender

SendTypes == NotificationTypeOK /\ SendsTyped

LEMMA NewRowTyped ==
    ASSUME SendTypes, NEW e \in Events, NEW ch \in Channels, NEW text \in Texts,
           NEW wait \in 0 .. MaxWait
    PROVE  NewRow(e, ch, text, wait) \in Rows
<1>2. <<e, ch>> \in Deliveries BY DEF Deliveries
<1>3. delivery[<<e, ch>>] \in Rows
  BY <1>2 DEF SendTypes, NotificationTypeOK, Rows
<1>4. [NoDelivery EXCEPT !.status = "PENDING", !.text = text, !.wait = wait] \in Rows
  BY NoDeliveryTyped DEF NoDelivery, Rows
<1> QED BY <1>3, <1>4 DEF NewRow

\* A repeated record leaves every row that is there.
LEMMA RecordEffect ==
    ASSUME SendTypes, NEW e \in Events, NEW reachable,
           NEW inForce \in [Channels \cup {"IN_APP"} -> Texts], NEW wait \in 0 .. MaxWait,
           RecordEvent(e, reachable, inForce, wait)
    PROVE  /\ delivery' \in [Deliveries -> Rows]
           /\ canonical' \in [Events -> {Unrecorded} \cup Texts]
           /\ \A x \in Events : canonical[x] # Unrecorded => canonical'[x] = canonical[x]
           /\ \A d \in Deliveries :
                 delivery'[d] = delivery[d] \/
                     /\ delivery[d].status = "NONE" /\ delivery'[d].status = "PENDING"
           /\ UNCHANGED <<unread, queue, worker, accepted>>
<1> DEFINE message == IF canonical[e] = Unrecorded THEN inForce["IN_APP"] ELSE canonical[e]
<1>0. delivery \in [Deliveries -> Rows] /\ canonical \in [Events -> {Unrecorded} \cup Texts]
  BY DEF SendTypes, NotificationTypeOK, Rows
<1>1. message \in Texts BY <1>0
<1>2. \A ch \in Channels : TextFor(ch, inForce, message) \in Texts
  BY <1>1 DEF TextFor
<1> HIDE DEF message
<1>3. /\ canonical' = [canonical EXCEPT ![e] = message]
      /\ delivery' = [d \in Deliveries |->
             IF d[1] = e /\ d[2] \in ChannelsFor(e, reachable)
             THEN NewRow(e, d[2], TextFor(d[2], inForce, message), wait) ELSE delivery[d]]
      /\ UNCHANGED <<unread, queue, worker, accepted>>
  BY DEF RecordEvent, message
<1>4. canonical' \in [Events -> {Unrecorded} \cup Texts] BY <1>0, <1>1, <1>3
<1>5. \A x \in Events : canonical[x] # Unrecorded => canonical'[x] = canonical[x]
  BY <1>0, <1>3 DEF message
<1>6. \A d \in Deliveries : d[1] \in Events /\ d[2] \in Channels /\ d = <<d[1], d[2]>>
  BY DEF Deliveries
<1>7. delivery' \in [Deliveries -> Rows]
  BY <1>0, <1>2, <1>3, <1>6, NewRowTyped
<1>8. ASSUME NEW d \in Deliveries
      PROVE  \/ delivery'[d] = delivery[d]
             \/ /\ delivery[d].status = "NONE" /\ delivery'[d].status = "PENDING"
  BY <1>3, <1>6 DEF NewRow, NoDelivery
<1> QED BY <1>3, <1>4, <1>5, <1>7, <1>8

\* Being superseded takes the claim from every sender of d and nothing else.
LEMMA SupersededEffect ==
    ASSUME SendTypes, NEW d
    PROVE  /\ Superseded(d) \in [Workers -> Sends \cup {NoWork}]
           /\ \A w \in Workers :
                 /\ worker[w] = NoWork => Superseded(d)[w] = NoWork
                 /\ worker[w] # NoWork =>
                       /\ Superseded(d)[w].at = worker[w].at
                       /\ Superseded(d)[w].on = worker[w].on
                       /\ Superseded(d)[w].attempts = worker[w].attempts
                       /\ Superseded(d)[w].outcome = worker[w].outcome
                       /\ Superseded(d)[w].owner => worker[w].owner /\ worker[w].on # d
<1>1. \A w \in Workers : worker[w] # NoWork => worker[w] \in Sends
  BY DEF SendTypes, SendsTyped
<1>2. \A w \in Workers : worker[w] # NoWork =>
          /\ [worker[w] EXCEPT !.owner = FALSE] \in Sends
          /\ [worker[w] EXCEPT !.owner = FALSE].at = worker[w].at
          /\ [worker[w] EXCEPT !.owner = FALSE].on = worker[w].on
          /\ [worker[w] EXCEPT !.owner = FALSE].attempts = worker[w].attempts
          /\ [worker[w] EXCEPT !.owner = FALSE].outcome = worker[w].outcome
          /\ [worker[w] EXCEPT !.owner = FALSE].owner = FALSE
  BY <1>1 DEF Sends
<1> QED BY <1>1, <1>2 DEF Superseded

\* The send of w goes on, or has ended.
Continues(w) ==
    worker'[w] # NoWork =>
        /\ worker[w] # NoWork
        /\ worker'[w].on = worker[w].on /\ worker'[w].attempts = worker[w].attempts
        /\ worker'[w].outcome = worker[w].outcome
        /\ worker'[w].owner => worker[w].owner

RowKept(d) ==
    /\ delivery'[d].status = delivery[d].status /\ delivery'[d].reason = delivery[d].reason
    /\ delivery'[d].attempts = delivery[d].attempts /\ delivery'[d].text = delivery[d].text

RowsKeptBut(d) == \A x \in Deliveries \ {d} : RowKept(x)

LEMMA RecoverEffect ==
    ASSUME SendTypes, NEW d \in Deliveries, RecoverStuck(d)
    PROVE  /\ delivery' \in [Deliveries -> Rows] /\ RowsKeptBut(d)
           /\ delivery'[d].status = "RETRYABLE"
           /\ delivery'[d].attempts = delivery[d].attempts
           /\ delivery'[d].text = delivery[d].text
<1>0. delivery \in [Deliveries -> Rows] BY DEF SendTypes, NotificationTypeOK, Rows
<1>1. delivery' = [delivery EXCEPT ![d] =
          [delivery[d] EXCEPT !.status = "RETRYABLE", !.reason = "stuck", !.age = 0]]
  BY <1>0 DEF RecoverStuck
<1>2. [delivery[d] EXCEPT !.status = "RETRYABLE", !.reason = "stuck", !.age = 0] \in Rows
  BY <1>0, AgeBounded DEF Rows
<1> QED BY <1>0, <1>1, <1>2 DEF RecoverStuck, Rows, RowsKeptBut, RowKept

LEMMA ForceFailEffect ==
    ASSUME SendTypes, NEW d \in Deliveries, ForceFail(d)
    PROVE  /\ delivery' \in [Deliveries -> Rows] /\ RowsKeptBut(d)
           /\ delivery[d].status = "SENDING" /\ delivery'[d].status = "FAILED"
           /\ delivery'[d].attempts = delivery[d].attempts /\ delivery'[d].reason = "forced"
           /\ delivery'[d].text = delivery[d].text
<1>0. delivery \in [Deliveries -> Rows] BY DEF SendTypes, NotificationTypeOK, Rows
<1>1. delivery' = [delivery EXCEPT ![d] =
          [delivery[d] EXCEPT !.status = "FAILED", !.reason = "forced", !.age = 0]]
  BY <1>0 DEF ForceFail
<1>2. [delivery[d] EXCEPT !.status = "FAILED", !.reason = "forced", !.age = 0] \in Rows
  BY <1>0, AgeBounded DEF Rows
<1> QED BY <1>0, <1>1, <1>2 DEF ForceFail, Rows, RowsKeptBut, RowKept

LEMMA ClaimEffect ==
    ASSUME SendTypes, NEW w \in Workers, NEW d \in Deliveries, NEW reachable, Claim(w, d, reachable)
    PROVE  /\ delivery' \in [Deliveries -> Rows] /\ RowsKeptBut(d)
           /\ worker' \in [Workers -> Sends \cup {NoWork}]
           /\ delivery[d].status \in {"PENDING", "RETRYABLE", "SENDING"}
           /\ delivery'[d].status = "SENDING" /\ delivery'[d].text = delivery[d].text
           /\ delivery[d].attempts <= delivery'[d].attempts
           /\ worker'[w].on = d /\ worker'[w].attempts = delivery'[d].attempts
           /\ worker'[w].outcome \in {"none", "skipped"}
           /\ \A v \in Workers \ {w} :
                 /\ Continues(v)
                 /\ worker'[v] # NoWork /\ worker'[v].on = d /\ worker'[v].owner =>
                       delivery[d].status # "SENDING"
<1> DEFINE attempts == IF delivery[d].attempts < MaxAttempts THEN delivery[d].attempts + 1
                       ELSE MaxAttempts
           send == [at |-> "claimed", on |-> d, owner |-> TRUE, attempts |-> attempts,
                     outcome |-> IF d[2] \in reachable THEN "none" ELSE "skipped"]
           taken == IF delivery[d].status = "SENDING" /\ delivery[d].age >= StaleAfter
                    THEN Superseded(d) ELSE worker
<1>0. /\ delivery \in [Deliveries -> Rows] /\ MaxAttempts \in Nat \ {0}
      /\ worker \in [Workers -> Sends \cup {NoWork}]
  BY NotificationAssumption DEF SendTypes, SendsTyped, NotificationTypeOK, Rows
<1>1. /\ attempts \in 1 .. MaxAttempts /\ attempts \in 0 .. MaxAttempts
      /\ delivery[d].attempts <= attempts
  BY <1>0 DEF Rows
<1>2. send \in Sends BY <1>1 DEF Sends
<1> HIDE DEF attempts
<1>3. delivery' = [delivery EXCEPT ![d] =
          [delivery[d] EXCEPT !.status = "SENDING", !.attempts = attempts, !.age = 0]]
  BY <1>0 DEF Claim, attempts
<1>4. [delivery[d] EXCEPT !.status = "SENDING", !.attempts = attempts, !.age = 0] \in Rows
  BY <1>0, <1>1, AgeBounded DEF Rows
<1>5. /\ delivery' \in [Deliveries -> Rows] /\ RowsKeptBut(d)
      /\ delivery'[d].status = "SENDING" /\ delivery'[d].text = delivery[d].text
      /\ delivery'[d].attempts = attempts
  BY <1>0, <1>3, <1>4 DEF Rows, RowsKeptBut, RowKept
<1>6. delivery[d].status \in {"PENDING", "RETRYABLE", "SENDING"}
  BY DEF Claim, Claimable, Due
<1>7. worker' = [taken EXCEPT ![w] = send]
  BY DEF Claim, attempts
<1>8. /\ taken \in [Workers -> Sends \cup {NoWork}]
      /\ delivery[d].status = "SENDING" => taken = Superseded(d)
      /\ taken = Superseded(d) \/ taken = worker
  BY <1>0, SupersededEffect DEF Claim, Claimable, Due
<1> HIDE DEF taken
<1>9. worker' \in [Workers -> Sends \cup {NoWork}] /\ worker'[w] = send
  BY <1>2, <1>7, <1>8
<1>10. ASSUME NEW v \in Workers \ {w}
       PROVE  /\ Continues(v)
              /\ worker'[v] # NoWork /\ worker'[v].on = d /\ worker'[v].owner =>
                    delivery[d].status # "SENDING"
  <2>1. worker'[v] = taken[v] BY <1>7, <1>8
  <2> QED BY <1>8, <2>1, SupersededEffect DEF Continues
<1> QED BY <1>1, <1>5, <1>6, <1>9, <1>10

LEMMA SettledEffect ==
    ASSUME SendTypes, NEW w \in Workers, Done(w), NEW late \in 0 .. StuckAfter,
           NEW row \in Rows, worker[w].attempts <= row.attempts
    PROVE  LET settled == Settled(row, w, late) IN
           /\ settled \in Rows /\ settled.text = row.text /\ settled.attempts = row.attempts
           /\ settled.status = "SENT" => settled.reason = worker[w].outcome
           /\ settled.status = "FAILED" /\ settled.reason \in {"temporary", "unknown"} =>
                 settled.attempts = MaxAttempts
<1> DEFINE outcome == worker[w].outcome
           a == worker[w].attempts
           left == IF Delay[a] > late THEN Delay[a] - late ELSE 0
<1>0. worker[w] \in Sends BY DEF SendTypes, SendsTyped, Done
<1>1. /\ outcome \in {"none", "stuck", "forced", "skipped"} \cup Outcomes
      /\ a \in 1 .. MaxAttempts
  BY <1>0 DEF Sends
<1>2. left \in 0 .. MaxWait
  BY <1>1, WaitsBounded, NotificationAssumption
<1>3. row.attempts \in 0 .. MaxAttempts BY DEF Rows
<1> HIDE DEF left
<1>4. CASE outcome \in {"sent", "skipped"}
  <2>1. Settled(row, w, late) = [row EXCEPT !.status = "SENT", !.reason = outcome, !.age = 0]
    BY <1>4 DEF Settled
  <2> QED BY <1>1, <2>1, AgeBounded DEF Rows
<1>5. CASE outcome \notin {"sent", "skipped"} /\ (outcome = "permanent" \/ a >= MaxAttempts)
  <2>1. Settled(row, w, late) = [row EXCEPT !.status = "FAILED", !.reason = outcome, !.age = 0]
    BY <1>5 DEF Settled
  <2>2. outcome \in {"temporary", "unknown"} => row.attempts = MaxAttempts
    BY <1>1, <1>3, <1>5, NotificationAssumption
  <2> QED BY <1>1, <2>1, <2>2, AgeBounded DEF Rows
<1>6. CASE outcome \notin {"sent", "skipped"} /\ ~(outcome = "permanent" \/ a >= MaxAttempts)
  <2>1. Settled(row, w, late) =
            [row EXCEPT !.status = "RETRYABLE", !.reason = outcome, !.age = 0, !.wait = left]
    BY <1>6 DEF Settled, left
  <2> QED BY <1>1, <1>2, <2>1, AgeBounded DEF Rows
<1> QED BY <1>4, <1>5, <1>6

LEMMA FinalizeOfEffect ==
    ASSUME DeliveryInv, NEW w \in Workers, NEW late \in 0 .. StuckAfter, NEW relevant \in BOOLEAN,
           Finalize(w, late, relevant)
    PROVE  \E d \in Deliveries :
           /\ d = worker[w].on /\ worker[w] # NoWork
           /\ delivery' \in [Deliveries -> Rows] /\ RowsKeptBut(d)
           /\ worker' \in [Workers -> Sends \cup {NoWork}] /\ worker'[w] = NoWork
           /\ delivery[d].status = "SENDING"
           /\ delivery'[d].text = delivery[d].text /\ delivery'[d].attempts = delivery[d].attempts
           /\ delivery'[d].status # "NONE"
           /\ delivery'[d].status = "SENT" /\ delivery'[d].reason = "sent" =>
                 worker[w].outcome = "sent"
           /\ delivery'[d].status = "FAILED" /\ delivery'[d].reason \in {"temporary", "unknown"} =>
                 delivery'[d].attempts = MaxAttempts
           /\ \A v \in Workers : /\ Continues(v)
                                 /\ worker'[v] # NoWork /\ worker'[v].on = d => ~worker'[v].owner
<1> DEFINE d == worker[w].on
           row == Settled(delivery[d], w, late)
           absent == row.status = "SENT" /\ d[1] \in Confirmations /\ ~relevant
           final == IF absent THEN [row EXCEPT !.reason = "skipped"] ELSE row
           left == IF worker[w].owner THEN worker ELSE Superseded(d)
<1>0. SendTypes /\ SendSound(w) /\ Done(w) BY DEF DeliveryInv, SendTypes, Finalize
<1>1. /\ delivery \in [Deliveries -> Rows] /\ worker \in [Workers -> Sends \cup {NoWork}]
      /\ worker[w] \in Sends /\ d \in Deliveries
  BY <1>0 DEF SendTypes, SendsTyped, NotificationTypeOK, Rows, Sends, Done
<1>2. /\ row \in Rows /\ row.text = delivery[d].text /\ row.attempts = delivery[d].attempts
      /\ row.status = "SENT" => row.reason = worker[w].outcome
      /\ row.status = "FAILED" /\ row.reason \in {"temporary", "unknown"} =>
            row.attempts = MaxAttempts
      /\ row.status # "NONE"
  <2>1. worker[w].attempts <= delivery[d].attempts
    BY <1>0 DEF SendSound, Done
  <2>2. row.status # "NONE"
    BY <1>1 DEF Settled, Rows
  <2> QED BY <1>0, <1>1, <2>1, <2>2, SettledEffect
<1> HIDE DEF row
<1>3. /\ final \in Rows /\ final.text = row.text /\ final.attempts = row.attempts
      /\ final.status = row.status
      /\ final.reason # row.reason => final.status = "SENT" /\ final.reason = "skipped"
  BY <1>2 DEF Rows
<1>4. /\ delivery' = [delivery EXCEPT ![d] = final] /\ delivery[d].status = "SENDING"
      /\ worker' = [left EXCEPT ![w] = NoWork]
  BY DEF Finalize, row
<1>5. left \in [Workers -> Sends \cup {NoWork}] /\ (left = worker \/ left = Superseded(d))
  BY <1>0, <1>1, SupersededEffect
<1>6. \A v \in Workers \ {w} : left[v] # NoWork /\ left[v].on = d => ~left[v].owner
  BY <1>0, <1>1, SupersededEffect DEF DeliveryInv, OneSender, Done, Sends
<1> HIDE DEF final, left
<1>7. \A v \in Workers \ {w} : worker'[v] = left[v]
  BY <1>4, <1>5
<1>8. worker' \in [Workers -> Sends \cup {NoWork}] /\ worker'[w] = NoWork
  BY <1>4, <1>5
<1>9. \A v \in Workers : /\ Continues(v)
                         /\ worker'[v] # NoWork /\ worker'[v].on = d => ~worker'[v].owner
  BY <1>0, <1>5, <1>6, <1>7, <1>8, SupersededEffect DEF Continues
<1>10. /\ delivery' \in [Deliveries -> Rows] /\ RowsKeptBut(d) /\ delivery'[d] = final
  BY <1>1, <1>3, <1>4 DEF RowsKeptBut, RowKept
<1> QED BY <1>0, <1>1, <1>2, <1>3, <1>4, <1>8, <1>9, <1>10 DEF Done

LEMMA TickEffect ==
    ASSUME SendTypes, Tick
    PROVE  delivery' \in [Deliveries -> Rows] /\ \A d \in Deliveries : RowKept(d)
<1>0. delivery \in [Deliveries -> Rows] BY DEF SendTypes, NotificationTypeOK, Rows
<1>1. \A n \in 0 .. MaxWait : Nearer(n) \in 0 .. MaxWait
  BY WaitsBounded DEF Nearer
<1>2. \A n \in 0 .. MaxAge : Older(n) \in 0 .. MaxAge
  BY AgeBounded DEF Older
<1>3. ASSUME NEW d \in Deliveries
      PROVE  /\ delivery'[d] \in Rows /\ RowKept(d)
  <2>1. PICK age \in 0 .. MaxAge :
            delivery'[d] = [delivery[d] EXCEPT !.wait = Nearer(@), !.age = age]
    BY <1>0, <1>2, AgeBounded DEF Tick, Rows
  <2>2. delivery[d] \in Rows /\ Nearer(delivery[d].wait) \in 0 .. MaxWait
    BY <1>0, <1>1 DEF Rows
  <2>3. delivery'[d] = [delivery[d] EXCEPT !.wait = Nearer(delivery[d].wait), !.age = age]
    BY <2>1, <2>2 DEF Rows
  <2> QED BY <2>2, <2>3 DEF Rows, RowKept
<1>4. delivery' = [d \in Deliveries |-> delivery'[d]]
  BY DEF Tick
<1> QED BY <1>3, <1>4

-----------------------------------------------------------------------------
(* Every step of the delivery keeps it.                                    *)

\* The send of a worker between its transactions.
LEMMA DispatchEffect ==
    ASSUME DeliveryInv, NEW w \in Workers,
           Skip(w) \/ PutInInbox(w)
              \/ \E outcome \in Outcomes, taken \in BOOLEAN : CallProvider(w, outcome, taken)
    PROVE  /\ UNCHANGED <<rows, queue>>
           /\ worker' \in [Workers -> Sends \cup {NoWork}]
           /\ accepted \subseteq accepted' /\ accepted' \subseteq Deliveries
           /\ \A v \in Workers \ {w} : worker'[v] = worker[v]
           /\ worker[w] # NoWork
           /\ worker'[w].on = worker[w].on /\ worker'[w].attempts = worker[w].attempts
           /\ worker'[w].owner = worker[w].owner
           /\ worker'[w].outcome = "sent" /\ worker'[w].on[2] # "IN_APP" => worker'[w].on \in accepted'
<1>0. worker \in [Workers -> Sends \cup {NoWork}] /\ accepted \subseteq Deliveries
  BY DEF DeliveryInv, SendsTyped, NotificationTypeOK
<1>1. ASSUME NEW o \in {"none", "skipped"} \cup Outcomes, Dispatched(w, o)
      PROVE  /\ UNCHANGED <<rows, queue>>
             /\ worker' \in [Workers -> Sends \cup {NoWork}]
             /\ \A v \in Workers \ {w} : worker'[v] = worker[v]
             /\ worker[w] # NoWork /\ worker[w].on \in Deliveries
             /\ worker'[w].on = worker[w].on /\ worker'[w].attempts = worker[w].attempts
             /\ worker'[w].owner = worker[w].owner /\ worker'[w].outcome = o
  <2>1. worker[w] \in Sends /\ worker[w] # NoWork BY <1>0, <1>1 DEF Dispatched
  <2>2. worker' = [worker EXCEPT ![w] = [worker[w] EXCEPT !.at = "done", !.outcome = o]]
    BY <1>0, <1>1, <2>1 DEF Dispatched
  <2> QED BY <1>0, <1>1, <2>1, <2>2 DEF Dispatched, Sends
<1>2. CASE Skip(w)
  BY <1>0, <1>1, <1>2 DEF Skip
<1>3. CASE PutInInbox(w)
  <2>1. Dispatched(w, "sent") /\ worker[w].on[2] = "IN_APP" /\ UNCHANGED accepted
    BY <1>3 DEF PutInInbox
  <2>2. "sent" \in {"none", "skipped"} \cup Outcomes BY DEF Outcomes
  <2> QED BY <1>0, <1>1, <2>1, <2>2
<1>4. ASSUME NEW outcome \in Outcomes, NEW taken \in BOOLEAN, CallProvider(w, outcome, taken)
      PROVE  /\ Dispatched(w, outcome)
             /\ accepted' = IF taken THEN accepted \cup {worker[w].on} ELSE accepted
             /\ outcome = "sent" => taken
  BY <1>4 DEF CallProvider
<1>5. CASE \E outcome \in Outcomes, taken \in BOOLEAN : CallProvider(w, outcome, taken)
  BY <1>0, <1>1, <1>4, <1>5
<1> QED BY <1>2, <1>3, <1>5

\* What a step must leave alone for the sends to stay sound.
LEMMA SendKept ==
    ASSUME DeliveryInv, NEW w \in Workers, Continues(w), accepted \subseteq accepted',
           worker[w] # NoWork =>
               LET d == worker[w].on IN
               /\ delivery[d].status # "NONE" => delivery'[d].status # "NONE"
               /\ worker[w].attempts <= delivery[d].attempts =>
                      worker[w].attempts <= delivery'[d].attempts
               /\ worker'[w] # NoWork /\ worker'[w].owner => delivery'[d].status \in {"SENDING", "FAILED"}
    PROVE  SendSound(w)'
BY DEF DeliveryInv, SendSound, Continues

\* Only the recovery scan selects rows, and it drops those it has written.
LEMMA StuckStep ==
    ASSUME NotificationNext
    PROVE  stuck' = stuck \/ \E d \in Deliveries : stuck' \in {stuck \cup {d}, stuck \ {d}}
<1>1. ASSUME NEW w \in Workers,
             \/ \E d \in Deliveries : TakeMessage(w, d)
             \/ Skip(w) \/ PutInInbox(w)
             \/ \E outcome \in Outcomes, taken \in BOOLEAN : CallProvider(w, outcome, taken)
             \/ FinalizeStep(w) \/ FinalizeLostRace(w) \/ WorkerLost(w) \/ JobFailed(w)
      PROVE  UNCHANGED stuck
  BY <1>1 DEF TakeMessage, EarlyOut, Claim, Skip, PutInInbox, CallProvider, Dispatched,
     FinalizeStep, Finalize, FinalizeLostRace, WorkerLost, JobFailed
<1>2. ASSUME NEW d \in Deliveries, DispatchDue(d) \/ ForceFail(d)
      PROVE  UNCHANGED stuck
  BY <1>2 DEF DispatchDue, ForceFail
<1>3. ASSUME NEW d \in Deliveries, SelectStuck(d) \/ RecoverStuck(d)
      PROVE  stuck' \in {stuck \cup {d}, stuck \ {d}}
  BY <1>3 DEF SelectStuck, RecoverStuck
<1>4. ASSUME NEW e \in Events,
             \/ \E reachable \in Accounts, inForce \in [Channels \cup {"IN_APP"} -> Texts],
                   wait \in 0 .. MaxWait : RecordEvent(e, reachable, inForce, wait)
             \/ MarkRead(e)
      PROVE  UNCHANGED stuck
  BY <1>4 DEF RecordEvent, MarkRead
<1>5. CASE Tick BY <1>5 DEF Tick
<1> QED BY <1>1, <1>2, <1>3, <1>4, <1>5 DEF NotificationNext

LEMMA DeliveryNextStep ==
    ASSUME DeliveryInv, NotificationNext
    PROVE  DeliveryInv'
<1> DEFINE Goal == DeliveryInv'
<1>0. /\ SendTypes /\ delivery \in [Deliveries -> Rows]
      /\ worker \in [Workers -> Sends \cup {NoWork}]
      /\ canonical \in [Events -> {Unrecorded} \cup Texts] /\ unread \subseteq Events
      /\ queue \in [Deliveries -> 0 .. MaxQueue] /\ accepted \subseteq Deliveries
      /\ \A w \in Workers : worker[w] # NoWork => worker[w] \in Sends /\ worker[w].on \in Deliveries
      /\ \A w \in Workers : SendSound(w)
  BY DEF DeliveryInv, SendTypes, SendsTyped, NotificationTypeOK, Rows, Sends
<1>q. \A d \in Deliveries : Enqueued(d) \in [Deliveries -> 0 .. MaxQueue]
  BY <1>0, NotificationAssumption DEF Enqueued
<1>t. \A w \in Workers, d \in Deliveries : Take(w, d) => queue' \in [Deliveries -> 0 .. MaxQueue]
  <2> SUFFICES ASSUME NEW w \in Workers, NEW d \in Deliveries, Take(w, d)
               PROVE  queue' \in [Deliveries -> 0 .. MaxQueue]
    OBVIOUS
  <2>1. queue[d] - 1 \in 0 .. MaxQueue
    BY <1>0, NotificationAssumption DEF Take
  <2> QED BY <1>0, <2>1 DEF Take
<1>s. stuck' \subseteq Deliveries
  BY StuckStep DEF DeliveryInv, NotificationTypeOK
\* The parts of the goal, for steps that say what they do row by row.
<1>1. ASSUME delivery' \in [Deliveries -> Rows], worker' \in [Workers -> Sends \cup {NoWork}],
             canonical' \in [Events -> {Unrecorded} \cup Texts], unread' \subseteq Events,
             queue' \in [Deliveries -> 0 .. MaxQueue], accepted' \subseteq Deliveries,
             accepted \subseteq accepted',
             \A w \in Workers : SendSound(w)', OneSender',
             \A d \in Deliveries : /\ delivery'[d].status = "SENT" /\ delivery'[d].reason = "sent"
                                      /\ d[2] # "IN_APP" => d \in accepted'
                                   /\ delivery'[d].status = "FAILED"
                                      /\ delivery'[d].reason \in {"temporary", "unknown"} =>
                                         delivery'[d].attempts = MaxAttempts
      PROVE  Goal
  <2>1. NotificationTypeOK'
    BY <1>1, <1>s DEF NotificationTypeOK, Rows, Sends
  <2> QED BY <1>1, <2>1 DEF DeliveryInv, SendsTyped, SentIsDelivered, NotGivenUpEarly
<1>2. \A d \in Deliveries : RowKept(d) \/ delivery'[d].status = "PENDING" =>
          /\ delivery'[d].status = "SENT" /\ delivery'[d].reason = "sent" /\ d[2] # "IN_APP" =>
                d \in accepted
          /\ delivery'[d].status = "FAILED" /\ delivery'[d].reason \in {"temporary", "unknown"} =>
                delivery'[d].attempts = MaxAttempts
  BY DEF RowKept, DeliveryInv, SentIsDelivered, NotGivenUpEarly
<1>3. (\A w \in Workers : Continues(w)) => OneSender'
  BY DEF Continues, DeliveryInv, OneSender
<1>4. \A w \in Workers : worker'[w] = worker[w] => Continues(w)
  BY DEF Continues
\* Steps that change no row a send is of.
<1>5. ASSUME delivery' \in [Deliveries -> Rows], worker' \in [Workers -> Sends \cup {NoWork}],
             canonical' \in [Events -> {Unrecorded} \cup Texts], unread' \subseteq Events,
             queue' \in [Deliveries -> 0 .. MaxQueue], UNCHANGED accepted,
             \A d \in Deliveries : RowKept(d) \/ (delivery[d].status = "NONE" /\ delivery'[d].status = "PENDING"),
             \A w \in Workers : Continues(w)
      PROVE  Goal
  <2>1. ASSUME NEW w \in Workers PROVE SendSound(w)'
    BY <1>0, <1>5, SendKept DEF SendSound, RowKept, Continues
  <2> HIDE DEF Goal
  <2> QED BY <1>0, <1>1, <1>2, <1>3, <1>5, <2>1
<1> HIDE DEF Goal
<1>6. ASSUME NEW e \in Events, NEW reachable \in Accounts,
             NEW inForce \in [Channels \cup {"IN_APP"} -> Texts], NEW wait \in 0 .. MaxWait,
             RecordEvent(e, reachable, inForce, wait)
      PROVE  Goal
  BY <1>0, <1>4, <1>5, <1>6, RecordEffect DEF RowKept
<1>7. ASSUME UNCHANGED <<delivery, canonical, accepted>>, unread' \subseteq Events,
             queue' \in [Deliveries -> 0 .. MaxQueue],
             worker' = worker \/ \E w \in Workers : worker' = [worker EXCEPT ![w] = NoWork]
      PROVE  Goal
  <2>1. worker' \in [Workers -> Sends \cup {NoWork}] /\ \A w \in Workers : Continues(w)
    BY <1>0, <1>7 DEF Continues
  <2> QED BY <1>0, <1>5, <1>7, <2>1 DEF RowKept
<1>8. ASSUME Tick PROVE Goal
  <2>1. UNCHANGED <<canonical, unread, queue, worker, accepted>> BY <1>8 DEF Tick
  <2>2. delivery' \in [Deliveries -> Rows] /\ \A d \in Deliveries : RowKept(d)
    BY <1>0, <1>8, TickEffect
  <2>3. \A w \in Workers : Continues(w) BY <1>4, <2>1
  <2>4. /\ worker' \in [Workers -> Sends \cup {NoWork}]
        /\ canonical' \in [Events -> {Unrecorded} \cup Texts] /\ unread' \subseteq Events
        /\ queue' \in [Deliveries -> 0 .. MaxQueue]
    BY <1>0, <2>1
  <2> QED BY <1>5, <2>1, <2>2, <2>3, <2>4
<1>9. ASSUME NEW d \in Deliveries, RecoverStuck(d) PROVE Goal
  <2>1. worker' = Superseded(d) /\ UNCHANGED <<canonical, unread, queue, accepted>>
    BY <1>9 DEF RecoverStuck
  <2>2. /\ worker' \in [Workers -> Sends \cup {NoWork}]
        /\ \A w \in Workers : Continues(w)
        /\ \A w \in Workers : worker'[w] # NoWork /\ worker'[w].owner => worker'[w].on # d
    BY <1>0, <2>1, SupersededEffect DEF Continues
  <2>3. ASSUME NEW w \in Workers PROVE SendSound(w)'
    BY <1>0, <1>9, <2>1, <2>2, RecoverEffect, SendKept DEF SendSound, RowsKeptBut, RowKept, Continues
  <2> QED
    BY <1>0, <1>1, <1>2, <1>3, <1>9, <2>1, <2>2, <2>3, RecoverEffect DEF RowsKeptBut
<1>10. ASSUME NEW d \in Deliveries, ForceFail(d) PROVE Goal
  <2>1. UNCHANGED <<canonical, unread, queue, worker, accepted>>
    BY <1>10 DEF ForceFail
  <2>2. ASSUME NEW w \in Workers PROVE SendSound(w)'
    BY <1>0, <1>4, <1>10, <2>1, ForceFailEffect, SendKept DEF SendSound, RowsKeptBut, RowKept, Continues
  <2> QED
    BY <1>0, <1>1, <1>2, <1>3, <1>4, <1>10, <2>1, <2>2, ForceFailEffect DEF RowsKeptBut
<1>11. ASSUME NEW w \in Workers, NEW d \in Deliveries, NEW reachable \in Accounts,
              Claim(w, d, reachable)
       PROVE  Goal
  <2>1. UNCHANGED <<canonical, unread, accepted>> /\ queue' \in [Deliveries -> 0 .. MaxQueue]
    BY <1>11, <1>t DEF Claim
  <2>2. ASSUME NEW v \in Workers PROVE SendSound(v)'
    <3>1. CASE v = w
      <4>1. /\ delivery'[d].status = "SENDING" /\ worker'[w].on = d
            /\ worker'[w].attempts = delivery'[d].attempts
            /\ worker'[w].outcome \in {"none", "skipped"} /\ delivery' \in [Deliveries -> Rows]
        BY <1>0, <1>11, ClaimEffect
      <4>2. delivery'[d].attempts \in Int BY <4>1 DEF Rows
      <4> QED BY <3>1, <4>1, <4>2 DEF SendSound
    <3>2. CASE v # w
      <4>1. /\ Continues(v) /\ RowsKeptBut(d) /\ delivery'[d].status = "SENDING"
            /\ delivery[d].attempts <= delivery'[d].attempts
            /\ delivery' \in [Deliveries -> Rows] /\ accepted \subseteq accepted'
        BY <1>0, <1>11, <2>1, <3>2, ClaimEffect
      <4>2. \A x \in Deliveries : delivery[x].attempts \in Int /\ delivery'[x].attempts \in Int
        BY <1>0, <4>1 DEF NotificationTypeOK, DeliveryInv, Rows
      <4>3. SendSound(v) BY <1>0 DEF DeliveryInv
      <4>4. ASSUME worker[v] # NoWork
            PROVE  LET x == worker[v].on IN
                   /\ delivery[x].status # "NONE" => delivery'[x].status # "NONE"
                   /\ worker[v].attempts <= delivery[x].attempts =>
                          worker[v].attempts <= delivery'[x].attempts
                   /\ worker'[v] # NoWork /\ worker'[v].owner => delivery'[x].status \in {"SENDING", "FAILED"}
        <5>1. worker[v].on \in Deliveries /\ worker[v].attempts \in Int
          BY <1>0, <4>4 DEF DeliveryInv, SendsTyped, Sends
        <5>2. CASE worker[v].on = d BY <4>1, <4>2, <5>1, <5>2
        <5>3. CASE worker[v].on # d
          BY <4>1, <4>3, <4>4, <5>1, <5>3 DEF SendSound, RowsKeptBut, RowKept, Continues
        <5> QED BY <5>2, <5>3
      <4> QED BY <1>0, <4>1, <4>4, SendKept
    <3> QED BY <3>1, <3>2
  <2>3. ASSUME NEW v \in Workers \ {w}, worker'[v] # NoWork, worker'[v].on = d, worker'[v].owner
        PROVE  FALSE
    BY <1>0, <1>11, <2>3, ClaimEffect DEF Continues, SendSound
  <2>4. OneSender'
    BY <1>0, <1>11, <2>3, ClaimEffect DEF OneSender, Continues, DeliveryInv
  <2> QED
    BY <1>0, <1>1, <1>2, <1>11, <2>1, <2>2, <2>4, ClaimEffect DEF RowsKeptBut
<1>12. ASSUME NEW w \in Workers,
              Skip(w) \/ PutInInbox(w)
                \/ \E outcome \in Outcomes, taken \in BOOLEAN : CallProvider(w, outcome, taken)
       PROVE  Goal
  <2>1. UNCHANGED <<delivery, canonical, unread, queue>> BY <1>12, DispatchEffect DEF rows
  <2>2. ASSUME NEW v \in Workers PROVE SendSound(v)'
    BY <1>0, <1>12, <2>1, <2>2, DispatchEffect DEF SendSound
  <2>3. OneSender'
    BY <1>0, <1>12, DispatchEffect DEF OneSender, DeliveryInv
  <2>4. \A d \in Deliveries : RowKept(d) BY <2>1 DEF RowKept
  <2> QED
    BY <1>0, <1>1, <1>2, <1>12, <2>1, <2>2, <2>3, <2>4, DispatchEffect
<1>13. ASSUME NEW w \in Workers, FinalizeStep(w) PROVE Goal
  <2>0. PICK late \in 0 .. StuckAfter, relevant \in BOOLEAN : Finalize(w, late, relevant)
    BY <1>13 DEF FinalizeStep
  <2>1. UNCHANGED <<canonical, queue, accepted>>
    BY <2>0 DEF Finalize
  <2>2. unread' \subseteq Events
    <3>1. worker[w].on[1] \in Events
      BY <1>0, <2>0 DEF Finalize, Done, Deliveries
    <3> QED BY <1>0, <2>0, <3>1 DEF Finalize
  <2>3. PICK d \in Deliveries :
           /\ d = worker[w].on /\ worker[w] # NoWork
           /\ delivery' \in [Deliveries -> Rows] /\ RowsKeptBut(d)
           /\ worker' \in [Workers -> Sends \cup {NoWork}] /\ worker'[w] = NoWork
           /\ delivery[d].status = "SENDING"
           /\ delivery'[d].text = delivery[d].text /\ delivery'[d].attempts = delivery[d].attempts
           /\ delivery'[d].status # "NONE"
           /\ delivery'[d].status = "SENT" /\ delivery'[d].reason = "sent" =>
                 worker[w].outcome = "sent"
           /\ delivery'[d].status = "FAILED" /\ delivery'[d].reason \in {"temporary", "unknown"} =>
                 delivery'[d].attempts = MaxAttempts
           /\ \A v \in Workers : /\ Continues(v)
                                 /\ worker'[v] # NoWork /\ worker'[v].on = d => ~worker'[v].owner
    BY <2>0, FinalizeOfEffect
  <2>4. ASSUME NEW v \in Workers PROVE SendSound(v)'
    <3>1. Continues(v) BY <2>3
    <3>2. worker[v] # NoWork /\ worker[v].on = d =>
              /\ delivery'[d].status # "NONE" /\ delivery'[d].attempts = delivery[d].attempts
              /\ worker'[v] # NoWork => ~worker'[v].owner
      BY <2>3, <3>1 DEF Continues
    <3>3. worker[v] # NoWork /\ worker[v].on # d =>
              LET x == worker[v].on IN
              delivery'[x].status = delivery[x].status /\ delivery'[x].attempts = delivery[x].attempts
      BY <1>0, <2>3 DEF RowsKeptBut, RowKept
    <3> QED BY <1>0, <2>1, <3>1, <3>2, <3>3, SendKept DEF SendSound, Continues
  <2>5. delivery'[d].status = "SENT" /\ delivery'[d].reason = "sent" /\ d[2] # "IN_APP" =>
            d \in accepted
    BY <1>0, <2>3 DEF SendSound
  <2> QED
    BY <1>0, <1>1, <1>2, <1>3, <2>1, <2>2, <2>3, <2>4, <2>5 DEF RowsKeptBut
<1>14. ASSUME NEW e \in Events, MarkRead(e) PROVE Goal
  BY <1>0, <1>7, <1>14 DEF MarkRead
<1>15. ASSUME NEW d \in Deliveries, DispatchDue(d) PROVE Goal
  BY <1>0, <1>7, <1>15, <1>q DEF DispatchDue, rows
<1>20. ASSUME NEW d \in Deliveries, SelectStuck(d) PROVE Goal
  BY <1>0, <1>7, <1>20 DEF SelectStuck, rows
<1>16. ASSUME NEW w \in Workers, NEW d \in Deliveries, EarlyOut(w, d) PROVE Goal
  BY <1>0, <1>7, <1>16, <1>t DEF EarlyOut, rows
<1>17. ASSUME NEW w \in Workers, WorkerLost(w) PROVE Goal
  BY <1>0, <1>7, <1>17, <1>q DEF WorkerLost, rows
<1>18. ASSUME NEW w \in Workers, JobFailed(w) \/ FinalizeLostRace(w) PROVE Goal
  BY <1>0, <1>7, <1>18 DEF JobFailed, FinalizeLostRace, rows
<1>19. Goal
  <2>1. ASSUME NEW w \in Workers,
               \/ \E d \in Deliveries : TakeMessage(w, d)
               \/ Skip(w) \/ PutInInbox(w)
               \/ \E outcome \in Outcomes, taken \in BOOLEAN : CallProvider(w, outcome, taken)
               \/ FinalizeStep(w) \/ FinalizeLostRace(w)
               \/ WorkerLost(w) \/ JobFailed(w)
        PROVE  Goal
    BY <2>1, <1>11, <1>12, <1>13, <1>16, <1>17, <1>18 DEF TakeMessage
  <2>2. ASSUME NEW e \in Events, NEW reachable \in Accounts, NEW inForce \in [Channels \cup {"IN_APP"} -> Texts],
               NEW wait \in 0 .. MaxWait, RecordEvent(e, reachable, inForce, wait)
        PROVE  Goal
    BY <2>2, <1>6
  <2>3. ASSUME NEW d \in Deliveries,
               DispatchDue(d) \/ ForceFail(d) \/ SelectStuck(d) \/ RecoverStuck(d)
        PROVE  Goal
    BY <2>3, <1>9, <1>10, <1>15, <1>20
  <2>4. ASSUME NEW e \in Events,
               \/ \E reachable \in Accounts, inForce \in [Channels \cup {"IN_APP"} -> Texts],
                     wait \in 0 .. MaxWait : RecordEvent(e, reachable, inForce, wait)
               \/ MarkRead(e)
        PROVE  Goal
    BY <1>14, <2>2, <2>4
  <2> QED BY <1>8, <2>1, <2>3, <2>4 DEF NotificationNext
<1> QED BY <1>19 DEF Goal

LEMMA DeliveryStep == DeliveryInv /\ [NotificationNext]_notificationVars => DeliveryInv'
<1>1. ASSUME DeliveryInv, UNCHANGED notificationVars PROVE DeliveryInv'
  BY <1>1 DEF DeliveryInv, notificationVars, rows, NotificationTypeOK, SendsTyped, SendSound,
     SentIsDelivered, NotGivenUpEarly, OneSender
<1> QED BY <1>1, DeliveryNextStep

\* The recovery scan writes the row, as it had selected it.
Recovered(d) == d \in stuck /\ d \notin stuck'

\* What a step does to a recorded row.
LEMMA RowHistory ==
    ASSUME DeliveryInv, [NotificationNext]_notificationVars, NEW d \in Deliveries
    PROVE  /\ delivery[d].status # "NONE" => delivery'[d].text = delivery[d].text
           /\ delivery[d].status \in {"SENT", "FAILED"} => RowKept(d) \/ Recovered(d)
<1>0. SendTypes BY DEF DeliveryInv, SendTypes
<1>1. CASE UNCHANGED delivery BY <1>1 DEF RowKept
<1>2. CASE Tick BY <1>0, <1>2, TickEffect DEF RowKept
<1>3. ASSUME NEW e \in Events, NEW reachable \in Accounts,
             NEW inForce \in [Channels \cup {"IN_APP"} -> Texts], NEW wait \in 0 .. MaxWait,
             RecordEvent(e, reachable, inForce, wait)
      PROVE  delivery[d].status # "NONE" => RowKept(d)
  BY <1>0, <1>3, RecordEffect DEF RowKept
<1>4. ASSUME NEW x \in Deliveries, RecoverStuck(x) \/ ForceFail(x)
      PROVE  /\ delivery'[d].text = delivery[d].text
             /\ delivery[d].status \in {"SENT", "FAILED"} => RowKept(d) \/ Recovered(d)
  <2>1. CASE ForceFail(x)
    BY <1>0, <2>1, ForceFailEffect DEF RowsKeptBut, RowKept
  <2>2. CASE RecoverStuck(x)
    <3>1. Recovered(x) BY <2>2 DEF RecoverStuck, Recovered
    <3> QED BY <1>0, <2>2, <3>1, RecoverEffect DEF RowsKeptBut, RowKept
  <2> QED BY <1>4, <2>1, <2>2
<1>5. ASSUME NEW w \in Workers, NEW x \in Deliveries, NEW reachable \in Accounts, Claim(w, x, reachable)
      PROVE  /\ delivery'[d].text = delivery[d].text
             /\ delivery[d].status \in {"SENT", "FAILED"} => RowKept(d)
  BY <1>0, <1>5, ClaimEffect DEF RowsKeptBut, RowKept
<1>6. ASSUME NEW w \in Workers, FinalizeStep(w)
      PROVE  /\ delivery'[d].text = delivery[d].text
             /\ delivery[d].status \in {"SENT", "FAILED"} => RowKept(d)
  BY <1>6, FinalizeOfEffect DEF FinalizeStep, RowsKeptBut, RowKept
<1>7. ASSUME NEW w \in Workers, NEW x \in Deliveries, TakeMessage(w, x)
      PROVE  UNCHANGED delivery \/ \E reachable \in Accounts : Claim(w, x, reachable)
  BY <1>7 DEF TakeMessage, EarlyOut, rows
<1>8. ASSUME NEW w \in Workers,
             \/ Skip(w) \/ PutInInbox(w)
             \/ \E outcome \in Outcomes, taken \in BOOLEAN : CallProvider(w, outcome, taken)
             \/ FinalizeLostRace(w) \/ WorkerLost(w) \/ JobFailed(w)
      PROVE  UNCHANGED delivery
  BY <1>8, DispatchEffect DEF FinalizeLostRace, WorkerLost, JobFailed, rows
<1>9. ASSUME NEW e \in Events, MarkRead(e) PROVE UNCHANGED delivery
  BY <1>9 DEF MarkRead
<1>10. ASSUME NEW x \in Deliveries, DispatchDue(x) \/ SelectStuck(x) PROVE UNCHANGED delivery
  BY <1>10 DEF DispatchDue, SelectStuck, rows
<1>11. CASE NotificationNext
  <2>1. CASE \E e \in Events :
               \/ \E reachable \in Accounts, inForce \in [Channels \cup {"IN_APP"} -> Texts],
                     wait \in 0 .. MaxWait : RecordEvent(e, reachable, inForce, wait)
               \/ MarkRead(e)
    <3>1. CASE \E e \in Events : MarkRead(e) BY <3>1, <1>1, <1>9
    <3>2. ASSUME NEW e \in Events, NEW reachable \in Accounts,
                 NEW inForce \in [Channels \cup {"IN_APP"} -> Texts], NEW wait \in 0 .. MaxWait,
                 RecordEvent(e, reachable, inForce, wait)
          PROVE  /\ delivery[d].status # "NONE" => delivery'[d].text = delivery[d].text
                 /\ delivery[d].status \in {"SENT", "FAILED"} => RowKept(d)
      BY <3>2, <1>3 DEF RowKept
    <3> QED BY <2>1, <3>1, <3>2
  <2>2. CASE \E x \in Deliveries :
               DispatchDue(x) \/ ForceFail(x) \/ SelectStuck(x) \/ RecoverStuck(x)
    BY <2>2, <1>1, <1>4, <1>10
  <2>3. ASSUME NEW w \in Workers,
               \/ \E x \in Deliveries : TakeMessage(w, x)
               \/ Skip(w) \/ PutInInbox(w)
               \/ \E outcome \in Outcomes, taken \in BOOLEAN : CallProvider(w, outcome, taken)
               \/ FinalizeStep(w) \/ FinalizeLostRace(w)
               \/ WorkerLost(w) \/ JobFailed(w)
        PROVE  /\ delivery[d].status # "NONE" => delivery'[d].text = delivery[d].text
               /\ delivery[d].status \in {"SENT", "FAILED"} => RowKept(d) \/ Recovered(d)
    BY <2>3, <1>1, <1>5, <1>6, <1>7, <1>8
  <2> QED BY <1>11, <1>2, <2>1, <2>2, <2>3 DEF NotificationNext
<1> QED BY <1>1, <1>11 DEF notificationVars, rows

\* Only the transaction that completes an inbox delivery resets its read mark.
LEMMA UnreadGrows ==
    ASSUME DeliveryInv, [NotificationNext]_notificationVars, NEW e \in Events,
           e \notin unread, e \in unread'
    PROVE  delivery[<<e, "IN_APP">>].status = "SENDING"
<1>1. PICK w \in Workers : FinalizeStep(w)
  <2>1. ASSUME NEW w \in Workers, NEW d \in Deliveries, TakeMessage(w, d) PROVE UNCHANGED unread
    BY <2>1 DEF TakeMessage, EarlyOut, Claim, rows
  <2>2. ASSUME NEW w \in Workers,
               \/ Skip(w) \/ PutInInbox(w)
               \/ \E outcome \in Outcomes, taken \in BOOLEAN : CallProvider(w, outcome, taken)
               \/ FinalizeLostRace(w) \/ WorkerLost(w) \/ JobFailed(w)
        PROVE  UNCHANGED unread
    BY <2>2, DispatchEffect DEF FinalizeLostRace, WorkerLost, JobFailed, rows
  <2>3. ASSUME NEW x \in Events, NEW reachable \in Accounts,
               NEW inForce \in [Channels \cup {"IN_APP"} -> Texts], NEW wait \in 0 .. MaxWait,
               RecordEvent(x, reachable, inForce, wait)
        PROVE  UNCHANGED unread
    BY <2>3 DEF RecordEvent
  <2>4. ASSUME NEW d \in Deliveries,
               DispatchDue(d) \/ ForceFail(d) \/ SelectStuck(d) \/ RecoverStuck(d)
        PROVE  UNCHANGED unread
    BY <2>4 DEF DispatchDue, RecoverStuck, SelectStuck, ForceFail, rows
  <2>5. ASSUME NEW x \in Events, MarkRead(x) PROVE unread' \subseteq unread
    BY <2>5 DEF MarkRead
  <2>6. ~UNCHANGED unread /\ ~(unread' \subseteq unread) OBVIOUS
  <2>7. NotificationNext /\ ~Tick BY <2>6 DEF notificationVars, rows, Tick
  <2> QED BY <2>1, <2>2, <2>3, <2>4, <2>5, <2>6, <2>7 DEF NotificationNext
<1>2. PICK late \in 0 .. StuckAfter, relevant \in BOOLEAN : Finalize(w, late, relevant)
  BY <1>1 DEF FinalizeStep
<1>3. worker[w].on[2] = "IN_APP" /\ worker[w].on[1] = e /\ delivery[worker[w].on].status = "SENDING"
  BY <1>2 DEF Finalize
<1>4. worker[w].on \in Deliveries
  BY <1>2 DEF Finalize, Done, DeliveryInv, NotificationTypeOK
<1>5. worker[w].on = <<e, "IN_APP">> BY <1>3, <1>4 DEF Deliveries
<1> QED BY <1>3, <1>5

LEMMA CanonicalKept ==
    ASSUME DeliveryInv, [NotificationNext]_notificationVars, NEW e \in Events,
           canonical[e] # Unrecorded
    PROVE  canonical'[e] = canonical[e]
<1>0. SendTypes BY DEF DeliveryInv, SendTypes
<1>1. ASSUME NEW x \in Events, NEW reachable \in Accounts,
             NEW inForce \in [Channels \cup {"IN_APP"} -> Texts], NEW wait \in 0 .. MaxWait,
             RecordEvent(x, reachable, inForce, wait)
      PROVE  canonical'[e] = canonical[e]
  BY <1>0, <1>1, RecordEffect
<1>2. ASSUME NEW w \in Workers, NEW d \in Deliveries, TakeMessage(w, d) PROVE UNCHANGED canonical
  BY <1>2 DEF TakeMessage, EarlyOut, Claim, rows
<1>3. ASSUME NEW w \in Workers,
             \/ Skip(w) \/ PutInInbox(w)
             \/ \E outcome \in Outcomes, taken \in BOOLEAN : CallProvider(w, outcome, taken)
             \/ FinalizeStep(w) \/ FinalizeLostRace(w) \/ WorkerLost(w) \/ JobFailed(w)
      PROVE  UNCHANGED canonical
  BY <1>3, DispatchEffect DEF FinalizeStep, Finalize, FinalizeLostRace, WorkerLost, JobFailed, rows
<1>4. ASSUME NEW d \in Deliveries,
             DispatchDue(d) \/ ForceFail(d) \/ SelectStuck(d) \/ RecoverStuck(d)
      PROVE  UNCHANGED canonical
  BY <1>4 DEF DispatchDue, RecoverStuck, SelectStuck, ForceFail, rows
<1>5. ASSUME NEW x \in Events, MarkRead(x) PROVE UNCHANGED canonical
  BY <1>5 DEF MarkRead
<1>6. CASE Tick \/ UNCHANGED notificationVars
  BY <1>6 DEF Tick, notificationVars, rows
<1> QED BY <1>1, <1>2, <1>3, <1>4, <1>5, <1>6 DEF NotificationNext

\* What a recipient may rely on, whichever workers die, stall or run twice: a
\* message marked sent was accepted by its provider, none is given up early, one
\* worker at a time sends it, and its end, its text and its read mark stand.
THEOREM DeliveryKeepsContract == NotificationSpec => DeliveryContract
<1>1. NotificationSpec => []DeliveryInv
  BY DeliveryStart, DeliveryStep, PTL DEF NotificationSpec
<1>2. DeliveryInv => NotificationTypeOK /\ SentIsDelivered /\ NotGivenUpEarly /\ OneSender
  BY DEF DeliveryInv
<1>3. DeliveryInv /\ [NotificationNext]_notificationVars =>
          [\A d \in Deliveries :
              delivery[d].status \in {"SENT", "FAILED"} /\ ~(d \in stuck /\ d \notin stuck') =>
                  /\ delivery'[d].status = delivery[d].status
                  /\ delivery'[d].reason = delivery[d].reason]_notificationVars
  BY RowHistory DEF RowKept, Recovered
<1>4. DeliveryInv /\ [NotificationNext]_notificationVars =>
          [\A e \in Events : InInbox(e) /\ e \notin unread => e \notin unread']_notificationVars
  BY UnreadGrows DEF InInbox
<1>5. DeliveryInv /\ [NotificationNext]_notificationVars =>
          [\A d \in Deliveries :
              /\ canonical[d[1]] # Unrecorded => canonical'[d[1]] = canonical[d[1]]
              /\ delivery[d].status # "NONE" => delivery'[d].text = delivery[d].text]_notificationVars
  BY RowHistory, CanonicalKept DEF Deliveries
<1> QED
  BY <1>1, <1>2, <1>3, <1>4, <1>5, PTL DEF NotificationSpec, DeliveryContract, FinalForever,
     ReadStaysRead, TextFrozen

=============================================================================
