---------------------------------- MODULE Otp ----------------------------------
(***************************************************************************)
(* Codes and counters kept in Redis: the phone challenges with the proofs   *)
(* they are exchanged for (identity/otp.py), the caps on requests, and the  *)
(* failure counter of an account (identity/login_failure_guard.py).  There  *)
(* are no transactions: every Redis command is a step of its own, keys time *)
(* out between the steps of a request, and a request may die between them.  *)
(* Times to live count down; an untimed key has none.                       *)
(***************************************************************************)
EXTENDS Integers, FiniteSets

CONSTANTS
    Challenges, Verifiers, Purposes,
    Logins,           \* logins with credentials that are under way together
    CodeTtl,          \* validity of a code
    ProofTtl,         \* validity of the proof it is exchanged for
    MaxAttempts,      \* wrong answers a challenge survives
    RequestCap,       \* requests per window
    CapWindow,
    LockThreshold, LockTtl,
    NoChallenge, Idle

\* The hash of a challenge; a verification remembers the purpose it has read.
ChallengeRows == [whole : BOOLEAN, purpose : Purposes \cup {NoChallenge}, left : 0..CodeTtl,
                  attempts : Nat, consumed : BOOLEAN]
Verifications == [at : {"right", "wrong", "claimed"}, on : Challenges,
                  purpose : Purposes \cup {NoChallenge}]

ASSUME OtpAssumption ==
    /\ CodeTtl \in Nat \ {0} /\ ProofTtl \in Nat \ {0} /\ MaxAttempts \in Nat \ {0}
    /\ RequestCap \in Nat \ {0} /\ CapWindow \in Nat \ {0}
    /\ LockThreshold \in Nat \ {0, 1} /\ LockTtl \in Nat \ {0}
    /\ IsFiniteSet(Verifiers) /\ IsFiniteSet(Logins)
    /\ NoChallenge \notin ChallengeRows /\ Idle \notin Verifications

VARIABLES
    challenge,    \* the hash of each challenge
    cooling,      \* time until the phone may ask again
    cap,          \* counter of one of the four request windows
    asking,       \* the request between INCR and EXPIRE
    verifier,     \* the verification each request is in
    issued,       \* challenges ever made; their ids are fresh
    proofs,       \* proofs that can still be spent
    minted,       \* how many proofs each challenge was exchanged for
    spent,        \* how many of them were accepted
    guard,        \* login failures of the account
    login         \* "none", "checked", or "first" when its INCR returned 1

otpVars == <<challenge, cooling, cap, asking, issued, verifier, proofs, minted, spent, guard, login>>
counterVars == <<cooling, cap, asking, guard, login>>
challengeVars == <<challenge, issued, verifier, proofs, minted, spent>>

Untimed == 0
NoKey == [count |-> 0, ttl |-> Untimed]

\* A field written to a key that has timed out makes a stub without a code.
Stub == [whole |-> FALSE, purpose |-> NoChallenge, left |-> 0, attempts |-> 0, consumed |-> FALSE]

OtpInit ==
    /\ challenge = [k \in Challenges |-> NoChallenge] /\ issued = {}
    /\ cooling = 0 /\ cap = NoKey /\ asking = FALSE
    /\ verifier = [v \in Verifiers |-> Idle]
    /\ proofs = {} /\ minted = [k \in Challenges |-> 0] /\ spent = [k \in Challenges |-> 0]
    /\ guard = NoKey /\ login = [l \in Logins |-> "none"]

-----------------------------------------------------------------------------
(* Requests: cooldown, INCR, EXPIRE NX, the limit, the challenge.          *)

CountRequest ==
    /\ ~asking /\ cooling = 0
    /\ cap' = [cap EXCEPT !.count = IF @ > RequestCap THEN @ ELSE @ + 1]
    /\ asking' = TRUE
    /\ UNCHANGED <<cooling, guard, login, challengeVars>>

\* Mutant of Armed: only the first request of a window arms it.
ArmedOnce(key, ttl) == IF key.count = 1 THEN [key EXCEPT !.ttl = ttl] ELSE key

\* EXPIRE NX: a window that runs is not extended, a key that is gone not made.
Armed(key, ttl) == IF key.ttl = Untimed /\ key.count > 0 THEN [key EXCEPT !.ttl = ttl] ELSE key

RefuseRequest ==
    /\ asking /\ cap.count > RequestCap
    /\ cap' = Armed(cap, CapWindow) /\ asking' = FALSE
    /\ UNCHANGED <<cooling, guard, login, challengeVars>>

\* A failed message leaves the challenge and the cooldown behind.
IssueChallenge(k, purpose) ==
    /\ asking /\ cap.count <= RequestCap /\ k \notin issued
    /\ cap' = Armed(cap, CapWindow) /\ asking' = FALSE
    /\ challenge' = [challenge EXCEPT ![k] = [whole |-> TRUE, purpose |-> purpose,
                                              left |-> CodeTtl, attempts |-> 0,
                                              consumed |-> FALSE]]
    /\ cooling' = 1 /\ issued' = issued \cup {k}
    /\ UNCHANGED <<verifier, proofs, minted, spent, guard, login>>

RequestDies ==
    /\ asking /\ asking' = FALSE
    /\ UNCHANGED <<cooling, cap, guard, login, challengeVars>>

-----------------------------------------------------------------------------
(* Verification.                                                           *)

\* The record is read once; what is decided from it is decided here.
Answerable(record) ==
    /\ record # NoChallenge /\ ~record.consumed /\ record.whole
    /\ record.left > 0 /\ record.attempts < MaxAttempts

ReadChallenge(v, k, right) ==
    /\ verifier[v] = Idle /\ Answerable(challenge[k])
    /\ verifier' = [verifier EXCEPT ![v] = [at |-> IF right THEN "right" ELSE "wrong", on |-> k,
                                            purpose |-> challenge[k].purpose]]
    /\ UNCHANGED <<challenge, issued, proofs, minted, spent, counterVars>>

At(v, step) == verifier[v] # Idle /\ verifier[v].at = step

OrStub(k) == IF challenge[k] = NoChallenge THEN Stub ELSE challenge[k]

CountWrongAnswer(v) ==
    /\ At(v, "wrong")
    /\ challenge' = [challenge EXCEPT ![verifier[v].on] =
                         [OrStub(verifier[v].on) EXCEPT !.attempts = @ + 1]]
    /\ verifier' = [verifier EXCEPT ![v] = Idle]
    /\ UNCHANGED <<issued, proofs, minted, spent, counterVars>>

Claimed(k) == challenge[k] # NoChallenge /\ challenge[k].consumed

\* HSETNX consumed_at.
ClaimChallenge(v) ==
    /\ At(v, "right")
    /\ LET k == verifier[v].on IN
       IF Claimed(k)
       THEN verifier' = [verifier EXCEPT ![v] = Idle] /\ UNCHANGED challenge
       ELSE /\ challenge' = [challenge EXCEPT ![k] = [OrStub(k) EXCEPT !.consumed = TRUE]]
            /\ verifier' = [verifier EXCEPT ![v].at = "claimed"]
    /\ UNCHANGED <<issued, proofs, minted, spent, counterVars>>

WholeStill(k) == challenge[k] # NoChallenge /\ challenge[k].whole

DropStub(v) ==
    /\ At(v, "claimed") /\ ~WholeStill(verifier[v].on)
    /\ challenge' = [challenge EXCEPT ![verifier[v].on] = NoChallenge]
    /\ verifier' = [verifier EXCEPT ![v] = Idle]
    /\ UNCHANGED <<issued, proofs, minted, spent, counterVars>>

MintProof(v) ==
    /\ At(v, "claimed") /\ WholeStill(verifier[v].on)
    /\ LET k == verifier[v].on IN
       /\ proofs' = proofs \cup {[of |-> k, purpose |-> verifier[v].purpose, left |-> ProofTtl]}
       /\ minted' = [minted EXCEPT ![k] = @ + 1]
    /\ verifier' = [verifier EXCEPT ![v] = Idle]
    /\ UNCHANGED <<challenge, issued, spent, counterVars>>

\* GETDEL; a proof for another purpose is lost with the attempt.
SpendProof(proof, purpose) ==
    /\ proof \in proofs
    /\ proofs' = proofs \ {proof}
    /\ spent' = IF proof.left > 0 /\ proof.purpose = purpose
                THEN [spent EXCEPT ![proof.of] = @ + 1] ELSE spent
    /\ UNCHANGED <<challenge, issued, verifier, minted, counterVars>>

VerifierDies(v) ==
    /\ verifier[v] # Idle
    /\ verifier' = [verifier EXCEPT ![v] = Idle]
    /\ UNCHANGED <<challenge, issued, proofs, minted, spent, counterVars>>

-----------------------------------------------------------------------------
(* The failure counter.                                                    *)

Locked == guard.count >= LockThreshold

\* Every door asks is_locked before it looks at a credential.
CheckLock(l) ==
    /\ login[l] = "none" /\ ~Locked
    /\ login' = [login EXCEPT ![l] = "checked"]
    /\ UNCHANGED <<cooling, cap, asking, guard, challengeVars>>

CountFailure(l) ==
    /\ login[l] = "checked"
    /\ guard' = [guard EXCEPT !.count = @ + 1]
    /\ login' = [login EXCEPT ![l] = IF guard.count = 0 THEN "first" ELSE "none"]
    /\ UNCHANGED <<cooling, cap, asking, challengeVars>>

\* EXPIRE after the first failure only.
ArmLock(l) ==
    /\ login[l] = "first"
    /\ guard' = IF guard.count > 0 THEN [guard EXCEPT !.ttl = LockTtl] ELSE guard
    /\ login' = [login EXCEPT ![l] = "none"]
    /\ UNCHANGED <<cooling, cap, asking, challengeVars>>

\* The right credential: the streak is forgotten.
LoginSucceeds(l) ==
    /\ login[l] = "checked"
    /\ guard' = NoKey
    /\ login' = [login EXCEPT ![l] = "none"]
    /\ UNCHANGED <<cooling, cap, asking, challengeVars>>

LoginDies(l) ==
    /\ login[l] # "none"
    /\ login' = [login EXCEPT ![l] = "none"]
    /\ UNCHANGED <<cooling, cap, asking, guard, challengeVars>>

-----------------------------------------------------------------------------
Aged(key) == IF key.ttl = 1 THEN NoKey
             ELSE [key EXCEPT !.ttl = IF @ = Untimed THEN @ ELSE @ - 1]

Elapse ==
    /\ cap' = Aged(cap) /\ guard' = Aged(guard)
    /\ cooling' = IF cooling = 0 THEN 0 ELSE cooling - 1
    /\ challenge' = [k \in Challenges |->
                        IF challenge[k] = NoChallenge \/ challenge[k].left = 0 THEN challenge[k]
                        ELSE [challenge[k] EXCEPT !.left = @ - 1]]
    /\ proofs' = {[p EXCEPT !.left = IF @ = 0 THEN 0 ELSE @ - 1] : p \in proofs}
    /\ UNCHANGED <<asking, issued, verifier, minted, spent, login>>

\* The backstop of Redis removes an expired challenge some time later.
Evict(k) ==
    /\ challenge[k] # NoChallenge /\ challenge[k].whole /\ challenge[k].left = 0
    /\ challenge' = [challenge EXCEPT ![k] = NoChallenge]
    /\ UNCHANGED <<issued, verifier, proofs, minted, spent, counterVars>>

OtpNext ==
    \/ CountRequest \/ RefuseRequest \/ RequestDies
    \/ \E k \in Challenges, purpose \in Purposes : IssueChallenge(k, purpose)
    \/ \E v \in Verifiers :
          \/ \E k \in Challenges, right \in BOOLEAN : ReadChallenge(v, k, right)
          \/ CountWrongAnswer(v) \/ ClaimChallenge(v) \/ DropStub(v) \/ MintProof(v)
          \/ VerifierDies(v)
    \/ \E proof \in proofs, purpose \in Purposes : SpendProof(proof, purpose)
    \/ \E l \in Logins : CheckLock(l) \/ CountFailure(l) \/ ArmLock(l) \/ LoginSucceeds(l)
                        \/ LoginDies(l)
    \/ Elapse
    \/ \E k \in Challenges : Evict(k)

OtpSpec == OtpInit /\ [][OtpNext]_otpVars

\* Time passes, a phone keeps asking, and not every request dies half-way.
OtpFairness ==
    /\ WF_otpVars(Elapse) /\ SF_otpVars(CountRequest) /\ SF_otpVars(RefuseRequest)
    /\ \A l \in Logins : WF_otpVars(ArmLock(l) \/ LoginDies(l))

OtpFairSpec == OtpSpec /\ OtpFairness

-----------------------------------------------------------------------------
OtpTypeOK ==
    /\ challenge \in [Challenges -> ChallengeRows \cup {NoChallenge}]
    /\ cap.count \in 0..(RequestCap + 1) /\ cap.ttl \in 0..CapWindow
    /\ guard.count \in 0..(LockThreshold + Cardinality(Logins) - 1) /\ guard.ttl \in 0..LockTtl
    /\ verifier \in [Verifiers -> Verifications \cup {Idle}]
    /\ asking \in BOOLEAN /\ login \in [Logins -> {"none", "checked", "first"}] /\ cooling \in {0, 1}

\* However many requests answer it at once, and whatever times out between
\* their steps, a challenge is exchanged for one proof and the proof is
\* accepted once (verify_phone_challenge, verify_phone_token).
OneProofPerChallenge == \A k \in Challenges : minted[k] <= 1 /\ spent[k] <= minted[k]

\* Requests that read the count at the same time overrun the limit by what is
\* on its way, never by more.
AttemptsBounded ==
    \A k \in Challenges : challenge[k] # NoChallenge =>
        challenge[k].attempts < MaxAttempts + Cardinality(Verifiers)

\* A request that dies between INCR and EXPIRE does not shut the window for
\* ever: a later one arms it (_require_within_caps).
CapReopens == cap.count > RequestCap ~> cap.count <= RequestCap

\* login_failure_guard.py: "the lock always dissolves no later than 15 minutes
\* after the first failure".  A login that dies after the first INCR leaves the
\* counter untimed, and nothing arms it later.
LockDissolves == Locked ~> ~Locked

\* A code buys one proof, guesses stay bounded, and the request window reopens,
\* whichever request dies between two commands of the store.
OtpContract ==
    /\ [](/\ OtpTypeOK
          /\ OneProofPerChallenge
          /\ AttemptsBounded)
    /\ CapReopens

=============================================================================
