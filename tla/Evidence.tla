---------------------------------- MODULE Evidence ----------------------------------
(* The proofs attached to an achievement: uploaded to a signed address that   *)
(* stays writable for a while, checked outside any transaction under a lease  *)
(* and a token, frozen when a submission refers to them, and read back by     *)
(* reviewers.  Of the review only that one is pending matters here.           *)
EXTENDS Integers, FiniteSets

CONSTANTS
    Proofs,
    Checks,       \* calls of complete, each with a token of its own
    Readers,      \* reads of a reviewer
    Contents,     \* what may be stored under an address; 0: nothing yet
    Good,         \* contents a check accepts
    UrlTime, IntentTime, CheckLease,
    MaxLoose,     \* unreferenced proofs kept
    MaxTime, MaxRounds, \* bounds on the clock and on submissions
    NoCheck

ASSUME EvidenceAssumption ==
    /\ UrlTime \in Nat /\ IntentTime \in Nat /\ UrlTime < IntentTime
    /\ CheckLease \in Nat \ {0} /\ MaxLoose \in Nat /\ MaxTime \in Nat /\ MaxRounds \in Nat
    /\ 0 \in Contents \ Good /\ Good \subseteq Contents /\ NoCheck \notin Checks

VARIABLES
    time,
    proof,        \* the evidence rows
    stored,       \* the object under each address
    check,        \* each call of complete
    pending,      \* whether a review of the achievement is pending
    round,        \* submissions so far
    cited,        \* proof and digest, per submission
    reading       \* each read of a reviewer

evidenceVars == <<time, proof, stored, check, pending, round, cited, reading>>

Absent == [state |-> "NONE", born |-> 0, token |-> NoCheck, until |-> 0, digest |-> 0,
           cited |-> FALSE, removed |-> FALSE]

EvidenceInit ==
    /\ time = 0
    /\ proof = [p \in Proofs |-> Absent] /\ stored = [p \in Proofs |-> 0]
    /\ check = [c \in Checks |-> [at |-> "NEW", of |-> NoCheck, found |-> 0]]
    /\ pending = FALSE /\ round = 0 /\ cited = {}
    /\ reading = [r \in Readers |-> [at |-> "NEW", of |-> NoCheck, round |-> 0, got |-> 0]]

Expired(p) == proof[p].born + IntentTime <= time
Loose == {p \in Proofs : /\ proof[p].state # "NONE" /\ ~proof[p].removed /\ ~proof[p].cited
                         /\ proof[p].state # "PENDING" \/ ~Expired(p)}

-------------------------------------------------------------------------------
(* The owner *)

\* create_intent
CreateProof(p) ==
    /\ ~pending /\ proof[p] = Absent /\ Cardinality(Loose) < MaxLoose
    /\ proof' = [proof EXCEPT ![p].state = "PENDING", ![p].born = time]
    /\ UNCHANGED <<time, stored, check, pending, round, cited, reading>>

\* The signed address takes any content of the declared size until it expires.
PutProof(p, x) ==
    /\ proof[p].state # "NONE" /\ time < proof[p].born + UrlTime /\ x # 0
    /\ stored' = [stored EXCEPT ![p] = x]
    /\ UNCHANGED <<time, proof, check, pending, round, cited, reading>>

Checkable(p) ==
    /\ ~pending /\ ~proof[p].removed /\ ~Expired(p)
    /\ proof[p].state = "PENDING" \/ (proof[p].state = "CHECKING" /\ proof[p].until <= time)

\* complete, its first transaction: a new check takes the lease.
StartCheck(c, p) ==
    /\ check[c].at = "NEW" /\ Checkable(p)
    /\ proof' = [proof EXCEPT ![p].state = "CHECKING", ![p].token = c,
                              ![p].until = time + CheckLease]
    /\ check' = [check EXCEPT ![c].at = "LOOK", ![c].of = p]
    /\ UNCHANGED <<time, stored, pending, round, cited, reading>>

\* The check itself: what it finds under the address, or nothing in time.
Look(c) ==
    /\ check[c].at = "LOOK"
    /\ check' = [check EXCEPT ![c].at = "SEEN", ![c].found = stored[check[c].of]]
    /\ UNCHANGED <<time, proof, stored, pending, round, cited, reading>>

LookFails(c) ==
    /\ check[c].at = "LOOK"
    /\ check' = [check EXCEPT ![c].at = "SEEN", ![c].found = 0]
    /\ UNCHANGED <<time, proof, stored, pending, round, cited, reading>>

Holds(c) == LET p == check[c].of IN
    ~proof[p].removed /\ proof[p].state = "CHECKING" /\ proof[p].token = c

Reported(q, found) ==
    [q EXCEPT !.state = IF found = 0 THEN "PENDING" ELSE IF found \in Good THEN "READY" ELSE "REJECTED",
              !.digest = IF found \in Good THEN found ELSE 0,
              !.token = NoCheck]

\* complete, its second transaction, or its refusal.
FinishCheck(c) ==
    /\ check[c].at = "SEEN" /\ Holds(c) /\ ~pending
    /\ proof' = [proof EXCEPT ![check[c].of] = Reported(@, check[c].found)]
    /\ check' = [check EXCEPT ![c].at = "END"]
    /\ UNCHANGED <<time, stored, pending, round, cited, reading>>

DropCheck(c) ==
    /\ check[c].at = "SEEN" /\ ~(Holds(c) /\ ~pending)
    /\ check' = [check EXCEPT ![c].at = "END"]
    /\ UNCHANGED <<time, proof, stored, pending, round, cited, reading>>

Removable(p) == ~proof[p].removed /\ ~proof[p].cited

\* remove
RemoveProof(p) ==
    /\ ~pending /\ proof[p].state # "NONE" /\ Removable(p)
    /\ proof' = [proof EXCEPT ![p].removed = TRUE]
    /\ UNCHANGED <<time, stored, check, pending, round, cited, reading>>

\* _saved_revision: the chosen proofs are locked, marked and cited by digest.
CiteProofs(S) ==
    /\ ~pending /\ round < MaxRounds
    /\ \A p \in S : proof[p].state = "READY" /\ ~proof[p].removed
    /\ proof' = [p \in Proofs |-> IF p \in S THEN [proof[p] EXCEPT !.cited = TRUE] ELSE proof[p]]
    /\ pending' = TRUE /\ round' = round + 1
    /\ cited' = cited \cup {[round |-> round + 1, of |-> p, digest |-> proof[p].digest] : p \in S}
    /\ UNCHANGED <<time, stored, check, reading>>

\* A withdrawal or a decision.
EndReview ==
    /\ pending /\ pending' = FALSE
    /\ UNCHANGED <<time, proof, stored, check, round, cited, reading>>

-------------------------------------------------------------------------------
(* A reviewer reads a proof: read_content *)

Cites(r, p, d) == [round |-> r, of |-> p, digest |-> d] \in cited

OpenProof(r, p) ==
    /\ reading[r].at = "NEW" /\ pending /\ Cites(round, p, proof[p].digest)
    /\ proof[p].state = "READY"
    /\ reading' = [reading EXCEPT ![r].at = "FETCH", ![r].of = p, ![r].round = round]
    /\ UNCHANGED <<time, proof, stored, check, pending, round, cited>>

\* Mutant of Unaltered: the object is not compared with the digest.
UnalteredTaken(r) == TRUE

Unaltered(r) == Cites(reading[r].round, reading[r].of, stored[reading[r].of])

FetchProof(r) ==
    /\ reading[r].at = "FETCH"
    /\ reading' = IF Unaltered(r) THEN [reading EXCEPT ![r].at = "FETCHED", ![r].got = stored[reading[r].of]]
                  ELSE [reading EXCEPT ![r].at = "END"]
    /\ UNCHANGED <<time, proof, stored, check, pending, round, cited>>

StillOpen(r) == pending /\ reading[r].round = round

DeliverProof(r) ==
    /\ reading[r].at = "FETCHED"
    /\ reading' = [reading EXCEPT ![r].at = IF StillOpen(r) THEN "SHOWN" ELSE "END"]
    /\ UNCHANGED <<time, proof, stored, check, pending, round, cited>>

Wait ==
    /\ time < MaxTime /\ time' = time + 1
    /\ UNCHANGED <<proof, stored, check, pending, round, cited, reading>>

OwnerOfProofs ==
    \/ \E p \in Proofs : \/ CreateProof(p) \/ RemoveProof(p)
                         \/ \E x \in Contents : PutProof(p, x)
                         \/ \E c \in Checks : StartCheck(c, p)
    \/ \E c \in Checks : Look(c) \/ LookFails(c) \/ FinishCheck(c) \/ DropCheck(c)

ReaderOfProofs ==
    \E r \in Readers : FetchProof(r) \/ DeliverProof(r) \/ \E p \in Proofs : OpenProof(r, p)

EvidenceNext ==
    \/ OwnerOfProofs \/ ReaderOfProofs
    \/ \E S \in SUBSET Proofs : CiteProofs(S)
    \/ EndReview \/ Wait

EvidenceSpec == EvidenceInit /\ [][EvidenceNext]_evidenceVars

-------------------------------------------------------------------------------
(* Properties *)

EvidenceTypeOK ==
    /\ proof \in [Proofs -> [state : {"NONE", "PENDING", "CHECKING", "READY", "REJECTED"},
                             born : 0 .. MaxTime, token : Checks \cup {NoCheck},
                             until : 0 .. MaxTime + CheckLease, digest : Good \cup {0},
                             cited : BOOLEAN, removed : BOOLEAN]]
    /\ stored \in [Proofs -> Contents]
    /\ \A c \in Checks : /\ check[c].at \in {"NEW", "LOOK", "SEEN", "END"}
                         /\ check[c].at # "NEW" => check[c].of \in Proofs
    /\ time \in 0 .. MaxTime /\ pending \in BOOLEAN /\ round \in 0 .. MaxRounds
    /\ \A p \in Proofs : (proof[p].state = "CHECKING") = (proof[p].token # NoCheck)

\* What a submission cites stays: checked, not removed, with the digest cited,
\* although a check that lost its lease may still report and the owner may
\* still press remove (evidence_service.py complete, remove).
CitedStands ==
    \A x \in cited : LET p == proof[x.of] IN
        p.state = "READY" /\ ~p.removed /\ p.digest = x.digest /\ x.digest \in Good

\* The owner keeps at most MaxLoose unreferenced proofs: an intent that expired
\* and was not counted does not come back (evidence_service.py create_intent,
\* complete).
LooseProofsBounded == Cardinality(Loose) <= MaxLoose

\* A reviewer is shown the bytes that were checked and cited, and only while
\* that submission is under review, although the address may be written again
\* and the case may close during the download
\* (review_operations_service.py read_content).
ShownBytesWereCited ==
    [][\A r \in Readers : (reading[r].at # "SHOWN" /\ reading'[r].at = "SHOWN") =>
          /\ Cites(reading[r].round, reading[r].of, reading[r].got)
          /\ pending /\ reading[r].round = round]_evidenceVars

\* What a submission cites was checked, is kept, and is what a reviewer is
\* shown, whatever checks, expiries and closures overlap.
EvidenceContract ==
    /\ [](/\ EvidenceTypeOK
          /\ CitedStands
          /\ LooseProofsBounded)
    /\ ShownBytesWereCited

=============================================================================
