--------------------------------- MODULE Honors ---------------------------------
(* Honors: an approval takes its time before it has all its locks, so two     *)
(* approvals of one student may commit in the other order.  After the commit  *)
(* the same request counts the student's completed claims, streak and points  *)
(* once more and grants what they reach, in one transaction of its own that   *)
(* may fail or never run.  The row of an honor is made by the first           *)
(* evaluation that needs it.                                                  *)
EXTENDS Integers, Sequences, FiniteSetsExt

CONSTANTS
    Students,
    Approvers,        \* review requests
    Rules,            \* FIXED_HONOR_DEFINITIONS, in their order
    Commemorative,    \* honors an administrator may create
    Rewards,          \* points of an approval
    MaxStamps,        \* bound on the approvals begun
    Free              \* no request

\* A completed claim: its terminal_at, and whether its tier was 100.
Completions == [at : Nat, onTime : BOOLEAN]

\* What an evaluation reads, and the request: its next step, the time of its
\* approval, what it has left to do, and the rows it has inserted.
FactRows == [completed : Nat, streak : Nat, points : Nat]

EvaluationRows ==
    [student : Students, step : {"review", "facts", "find", "insert", "grant"}, at : Nat,
     facts : {Free} \cup FactRows,
     todo : SUBSET DOMAIN Rules, rows : SUBSET DOMAIN Rules, grants : SUBSET DOMAIN Rules]

ASSUME HonorAssumption ==
    /\ Rules \in Seq([fact : {"completed", "streak", "points"}, threshold : Nat \ {0}])
    /\ MaxStamps \in Nat /\ Rewards \subseteq Nat /\ Free \notin EvaluationRows

VARIABLES
    stamps,      \* times taken by approvals
    done,        \* student -> completed claims, in the order of their commits
    earned,      \* student -> points of all time
    honors,      \* rows of honors that are committed
    owned,       \* student -> honors
    evaluation,  \* request -> the approval or evaluation it runs
    reached,     \* student -> the most points there have been
    counted      \* student -> most completions a finished evaluation has seen

honorVars == <<stamps, done, earned, honors, owned, evaluation, reached, counted>>

HonorInit ==
    /\ stamps = 0 /\ done = [s \in Students |-> <<>>] /\ earned = [s \in Students |-> 0]
    /\ honors = {} /\ owned = [s \in Students |-> {}]
    /\ evaluation = [w \in Approvers |-> Free]
    /\ reached = earned /\ counted = [s \in Students |-> 0]

-------------------------------------------------------------------------------
(* What the ledger and the claims say *)

\* current_on_time_streak: the claims with none but claims on time from their
\* terminal_at on.
Streak(line) ==
    Cardinality({i \in DOMAIN line :
                    \A j \in DOMAIN line : line[j].at >= line[i].at => line[j].onTime})

Facts(s) == [completed |-> Len(done[s]), streak |-> Streak(done[s]), points |-> earned[s]]

\* matching_honor_definitions; an honor of the catalogue is the place of its rule.
Matching(facts) == {k \in DOMAIN Rules : facts[Rules[k].fact] >= Rules[k].threshold}

\* What an evaluation has left to do is done in the order of the catalogue.
Turn(e) == Min(e.todo)

-------------------------------------------------------------------------------
(* ReviewService.approve: terminal_at is taken under the lock of the claim,   *)
(* before the assignment and the wallet are locked and long before the commit *)

Begin(w, s) ==
    /\ evaluation[w] = Free /\ stamps < MaxStamps
    /\ stamps' = stamps + 1
    /\ evaluation' = [evaluation EXCEPT ![w] =
           [student |-> s, step |-> "review", at |-> stamps', facts |-> Free,
            todo |-> {}, rows |-> {}, grants |-> {}]]
    /\ UNCHANGED <<done, earned, honors, owned, reached, counted>>

\* The commit; the request still holds its session.
Approve(w, onTime, points) ==
    LET e == evaluation[w]
        s == e.student
    IN  /\ e.step = "review"
        /\ done' = [done EXCEPT ![s] = Append(@, [at |-> e.at, onTime |-> onTime])]
        /\ earned' = [earned EXCEPT ![s] = @ + points]
        /\ reached' = [reached EXCEPT ![s] = Max({@, earned[s] + points})]
        /\ evaluation' = [evaluation EXCEPT ![w].step = "facts"]
        /\ UNCHANGED <<stamps, honors, owned, counted>>

\* An administrator takes points back.
TakeBack(s, points) ==
    /\ points > 0 /\ earned[s] >= points
    /\ earned' = [earned EXCEPT ![s] = @ - points]
    /\ UNCHANGED <<stamps, done, honors, owned, evaluation, reached, counted>>

Become(w, e) ==
    /\ evaluation' = [evaluation EXCEPT ![w] = e]
    /\ UNCHANGED <<stamps, done, earned, honors, owned, reached, counted>>

\* Three reads; no commit between them matters to a single rule.
ReadFacts(w) ==
    LET e == evaluation[w]
    IN  /\ e.step = "facts"
        /\ Become(w, [e EXCEPT !.step = "find", !.facts = Facts(e.student),
                               !.todo = Matching(Facts(e.student))])

\* _ensure_definition_row: whether the row is there, for this transaction.
FindRow(w) ==
    LET e == evaluation[w]
    IN  /\ e.step = "find" /\ e.todo # {}
        /\ Become(w, [e EXCEPT !.step = IF Turn(e) \in honors \cup e.rows
                                        THEN "grant" ELSE "insert"])

\* The insert of a row that another transaction has inserted waits for its end.
RowHeldBy(w, other) ==
    /\ other # w /\ evaluation[w] # Free /\ evaluation[other] # Free
    /\ evaluation[w].step = "insert" /\ Turn(evaluation[w]) \in evaluation[other].rows

\* The winner's row is adopted; mutant: the rule is passed over.
AdoptedNot(e) == [e EXCEPT !.step = "find", !.todo = @ \ {Turn(e)}]

Adopted(e) == [e EXCEPT !.step = "grant"]

InsertRow(w) ==
    LET e == evaluation[w]
    IN  /\ e.step = "insert" /\ \A other \in Approvers : ~RowHeldBy(w, other)
        /\ Become(w, IF Turn(e) \in honors
                     THEN Adopted(e)
                     ELSE [e EXCEPT !.step = "grant", !.rows = @ \cup {Turn(e)}])

\* _grant_once: a grant another transaction has inserted is waited for as well.
GrantHeldBy(w, other) ==
    /\ other # w /\ evaluation[w] # Free /\ evaluation[other] # Free
    /\ evaluation[w].step = "grant" /\ evaluation[other].student = evaluation[w].student
    /\ Turn(evaluation[w]) \in evaluation[other].grants

GrantOnce(w) ==
    LET e == evaluation[w]
    IN  /\ e.step = "grant" /\ \A other \in Approvers : ~GrantHeldBy(w, other)
        /\ Become(w, [e EXCEPT !.step = "find", !.todo = @ \ {Turn(e)},
                               !.grants = IF Turn(e) \in owned[e.student] THEN @
                                          ELSE @ \cup {Turn(e)}])

CommitHonors(w) ==
    LET e == evaluation[w]
    IN  /\ e.step = "find" /\ e.todo = {}
        /\ honors' = honors \cup e.rows
        /\ owned' = [owned EXCEPT ![e.student] = @ \cup e.grants]
        /\ counted' = [counted EXCEPT ![e.student] = Max({@, e.facts.completed})]
        /\ evaluation' = [evaluation EXCEPT ![w] = Free]
        /\ UNCHANGED <<stamps, done, earned, reached>>

\* _evaluate_honors_defensively swallows an error; a request may also die, or
\* its approval be rolled back.
LoseEvaluation(w) == Become(w, Free)

EvaluationNext(w) ==
    /\ evaluation[w] # Free
    /\ \/ \E onTime \in BOOLEAN, points \in Rewards : Approve(w, onTime, points)
       \/ ReadFacts(w) \/ FindRow(w) \/ InsertRow(w) \/ GrantOnce(w)
       \/ CommitHonors(w) \/ LoseEvaluation(w)

-------------------------------------------------------------------------------
(* Honors by hand *)

CreateCommemorative(c) ==
    /\ c \notin honors /\ honors' = honors \cup {c}
    /\ UNCHANGED <<stamps, done, earned, owned, evaluation, reached, counted>>

Grantable == honors \cap Commemorative

GrantCommemorative(s, honor) ==
    /\ honor \in Grantable
    /\ owned' = [owned EXCEPT ![s] = @ \cup {honor}]
    /\ UNCHANGED <<stamps, done, earned, honors, evaluation, reached, counted>>

AdminNext ==
    \/ \E c \in Commemorative : CreateCommemorative(c)
    \/ \E s \in Students, honor \in honors \cup Commemorative : GrantCommemorative(s, honor)

HonorNext ==
    \/ \E w \in Approvers :
        \/ \E s \in Students : Begin(w, s)
        \/ EvaluationNext(w)
    \/ \E s \in Students, points \in Rewards : TakeBack(s, points)
    \/ AdminNext

HonorSpec == HonorInit /\ [][HonorNext]_honorVars

-------------------------------------------------------------------------------
HonorTypeOK ==
    /\ honors \subseteq DOMAIN Rules \cup Commemorative
    /\ \A s \in Students : owned[s] \subseteq honors /\ done[s] \in Seq(Completions)
    /\ \A w \in Approvers : evaluation[w] # Free =>
        /\ evaluation[w].step \in {"review", "facts", "find", "insert", "grant"}
        /\ evaluation[w].grants \subseteq honors \cup evaluation[w].rows

\* An honor of the catalogue is owned only by a student who has reached it at
\* some time: completed claims only grow, points may have been taken back, and
\* the streak stood when the first n claims had committed.  It may have been cut
\* since, and an approval that took its time before and committed after may
\* have put a late claim inside it.
Deserved(s, k) ==
    CASE Rules[k].fact = "completed" -> Len(done[s]) >= Rules[k].threshold
      [] Rules[k].fact = "streak" ->
            \E n \in 0..Len(done[s]) : Streak(SubSeq(done[s], 1, n)) >= Rules[k].threshold
      [] Rules[k].fact = "points" -> reached[s] >= Rules[k].threshold

HonorsAreDeserved ==
    \A s \in Students : \A k \in owned[s] \ Commemorative : Deserved(s, k)

\* A trigger that was lost heals: once an evaluation has finished, the student
\* owns every honor for the number of claims it counted, whoever made its row.
LostTriggerHeals ==
    \A s \in Students : \A k \in DOMAIN Rules :
        Rules[k].fact = "completed" /\ counted[s] >= Rules[k].threshold => k \in owned[s]

\* Two evaluations never wait for rows of each other.
NoWaitCycle ==
    LET waits(w, other) == RowHeldBy(w, other) \/ GrantHeldBy(w, other)
    IN  \A w, other \in Approvers : ~(waits(w, other) /\ waits(other, w))

\* Evaluations that overlap, are lost or meet the seeding of the catalogue
\* grant what was reached, miss nothing they counted and never block.
HonorsSound ==
    /\ HonorTypeOK
    /\ HonorsAreDeserved
    /\ LostTriggerHeals
    /\ NoWaitCycle

=============================================================================
