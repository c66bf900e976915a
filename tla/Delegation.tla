------------------------------- MODULE Delegation -------------------------------
(***************************************************************************)
(* The right to review redemptions, which administrators delegate to        *)
(* teachers (points/admin_service.py) and every decision asks for           *)
(* (points/redemption_service.py).  The row is the grant; its history is    *)
(* the audit stream.  Nothing is locked between the look at the row and the *)
(* INSERT or the DELETE, nor between the guard of a decision and its        *)
(* commit.                                                                  *)
(***************************************************************************)
EXTENDS Naturals, Sequences

CONSTANTS
    Reviewers,       \* teachers
    Errands,         \* calls of administrators under way together
    Verdicts,        \* calls that decide a redemption
    MaxGrants,       \* bound: rows ever inserted
    MaxHistory,      \* bound: audit rows
    NoGrant, NoErrand

ASSUME DelegationAssumption == MaxGrants \in Nat \ {0} /\ MaxHistory \in Nat /\ NoGrant \notin Nat

VARIABLES
    grant,       \* the row of each teacher, by the serial of its insert
    errand,
    verdict,     \* the calls that have passed the guard
    history,     \* the audit rows, in the order of their commits
    inserted     \* how many rows were ever inserted

delegationVars == <<grant, errand, verdict, history, inserted>>

DelegationInit ==
    /\ grant = [u \in Reviewers |-> NoGrant]
    /\ errand = [e \in Errands |-> NoErrand]
    /\ verdict = [v \in Verdicts |-> NoErrand]
    /\ history = <<>> /\ inserted = 0

Row(action, u, serial, found) == [action |-> action, of |-> u, serial |-> serial, found |-> found]

\* A deleted row is locked until its transaction commits.
RowHeld(u) ==
    \E e \in Errands : errand[e] # NoErrand /\ errand[e].of = u /\ errand[e].found # NoGrant

-----------------------------------------------------------------------------
\* The target is a teacher and has no row: the early, typed refusal.
BeginGrant(e, u) ==
    /\ errand[e] = NoErrand /\ grant[u] = NoGrant
    /\ errand' = [errand EXCEPT ![e] = [act |-> "grant", of |-> u, seen |-> NoGrant, found |-> NoGrant]]
    /\ UNCHANGED <<grant, verdict, history, inserted>>

KeyFree(u) == grant[u] = NoGrant

\* INSERT, audit row, commit; the primary key refuses the second of two.
FinishGrant(e) ==
    /\ errand[e] # NoErrand /\ errand[e].act = "grant"
    /\ LET u == errand[e].of IN
       /\ ~RowHeld(u) /\ inserted < MaxGrants /\ Len(history) < MaxHistory
       /\ IF KeyFree(u)
          THEN /\ inserted' = inserted + 1
               /\ grant' = [grant EXCEPT ![u] = inserted + 1]
               /\ history' = Append(history, Row("GRANTED", u, inserted + 1, NoGrant))
          ELSE UNCHANGED <<grant, history, inserted>>
    /\ errand' = [errand EXCEPT ![e] = NoErrand]
    /\ UNCHANGED verdict

BeginRevoke(e, u) ==
    /\ errand[e] = NoErrand /\ grant[u] # NoGrant
    /\ errand' = [errand EXCEPT ![e] = [act |-> "revoke", of |-> u, seen |-> grant[u], found |-> NoGrant]]
    /\ UNCHANGED <<grant, verdict, history, inserted>>

\* The DELETE names the teacher, so it takes the row that is there now: a later
\* one than the call has seen, or none, which is a warning and no error.
Deleting(u) == grant[u]

DeleteRow(e) ==
    /\ errand[e] # NoErrand /\ errand[e].act = "revoke" /\ ~RowHeld(errand[e].of)
    /\ errand' = [errand EXCEPT ![e].act = "deleted", ![e].found = Deleting(errand[e].of)]
    /\ UNCHANGED <<grant, verdict, history, inserted>>

CommitRevoke(e) ==
    /\ errand[e] # NoErrand /\ errand[e].act = "deleted" /\ Len(history) < MaxHistory
    /\ LET u == errand[e].of IN
       /\ grant' = IF errand[e].found = NoGrant THEN grant ELSE [grant EXCEPT ![u] = NoGrant]
       /\ history' = Append(history, Row("REVOKED", u, errand[e].seen, errand[e].found))
    /\ errand' = [errand EXCEPT ![e] = NoErrand]
    /\ UNCHANGED <<verdict, inserted>>

\* The process dies: the transaction is rolled back.
ErrandDies(e) ==
    /\ errand[e] # NoErrand
    /\ errand' = [errand EXCEPT ![e] = NoErrand]
    /\ UNCHANGED <<grant, verdict, history, inserted>>

-----------------------------------------------------------------------------
\* Mutant of MayDecide: the grant is remembered from an earlier request.
MayDecideCached(u) == \E n \in DOMAIN history : history[n].action = "GRANTED" /\ history[n].of = u

\* One uncached read.
MayDecide(u) == grant[u] # NoGrant

\* The guard; the decision itself (module Points) waits for its rows after it.
PassGuard(v, u) ==
    /\ verdict[v] = NoErrand /\ MayDecide(u)
    /\ verdict' = [verdict EXCEPT ![v] = [of |-> u, since |-> Len(history)]]
    /\ UNCHANGED <<grant, errand, history, inserted>>

Decide(v) ==
    /\ verdict[v] # NoErrand
    /\ verdict' = [verdict EXCEPT ![v] = NoErrand]
    /\ UNCHANGED <<grant, errand, history, inserted>>

DelegationNext ==
    \/ \E e \in Errands, u \in Reviewers : BeginGrant(e, u) \/ BeginRevoke(e, u)
    \/ \E e \in Errands : FinishGrant(e) \/ DeleteRow(e) \/ CommitRevoke(e) \/ ErrandDies(e)
    \/ \E v \in Verdicts, u \in Reviewers : PassGuard(v, u)
    \/ \E v \in Verdicts : Decide(v)

DelegationSpec == DelegationInit /\ [][DelegationNext]_delegationVars

-----------------------------------------------------------------------------
DelegationTypeOK ==
    /\ grant \in [Reviewers -> 1..MaxGrants \cup {NoGrant}]
    /\ inserted \in 0..MaxGrants /\ Len(history) <= MaxHistory
    /\ \A e \in Errands : errand[e] = NoErrand \/
          /\ errand[e].act \in {"grant", "revoke", "deleted"}
          /\ errand[e].act = "deleted" \/ errand[e].found = NoGrant
          /\ errand[e].found \in {NoGrant, grant[errand[e].of]}
    /\ \A v \in Verdicts : verdict[v] = NoErrand \/ verdict[v].of \in Reviewers

\* "Grant history stays in the audit stream": a teacher who holds the right has
\* the row that gave it, and a right that was given and is gone has a row that
\* took it, later -- whatever grants and revocations overlap
\* (grant_reward_review, revoke_reward_review).
HistoryExplains ==
    \A n \in DOMAIN history : history[n].action = "GRANTED" =>
        \/ grant[history[n].of] = history[n].serial
        \/ \E k \in n..Len(history) :
              /\ history[k].action = "REVOKED" /\ history[k].of = history[n].of
              /\ history[k].found = history[n].serial

\* A revocation that answered leaves nothing of the grant it was about, also
\* when another call took the row first or a new one was given in between.
RevokedIsGone ==
    \A n \in DOMAIN history :
        history[n].action = "REVOKED" => grant[history[n].of] # history[n].serial

\* The guard admits only who has a grant at that moment: a call that begins
\* after a revocation fails, one under way may still be decided
\* (has_reward_review_grant, "effective on the very next request").
GuardIsCurrent ==
    [][\A v \in Verdicts : verdict[v] = NoErrand /\ verdict'[v] # NoErrand =>
          LET u == verdict'[v].of IN
          \E n \in 1..verdict'[v].since :
              /\ history[n].action = "GRANTED" /\ history[n].of = u
              /\ \A k \in n..Len(history) : history[k].of = u => history[k].found # history[n].serial]_delegationVars

\* The right to review rewards, its rows and its history agree: every grant is
\* held or explained, a revoked one is gone, and only a holder is let in.
DelegationContract ==
    /\ [](/\ DelegationTypeOK
          /\ HistoryExplains
          /\ RevokedIsGone)
    /\ GuardIsCurrent

=============================================================================
