---------------------------------- MODULE Reviews ----------------------------------
(* The review of one achievement: its owner edits it and the project it       *)
(* belongs to, submits and withdraws; the operators claim the case, step      *)
(* aside or decide it.  Everyone acts on the versions they have read; every   *)
(* command runs under the locks of the project, the achievement, its workflow *)
(* and the case.                                                              *)
EXTENDS Integers, Sequences, FiniteSets

CONSTANTS
    Operators,    \* students with an operations grant
    MaxCases,     \* bounds: cases, edits and claims
    MaxSaved,     \* (versions of the project, and of the achievement)
    MaxClaims,
    Unassigned

ASSUME ReviewsAssumption ==
    MaxCases \in Nat /\ MaxSaved \in Nat \ {0} /\ MaxClaims \in Nat /\ Unassigned \notin Operators

VARIABLES
    saved,        \* versions of the project and the achievement as they are saved
    workflow,     \* first_review_state, version and the published case
    cases,        \* the review cases in the order of their revisions
    granted,      \* operators whose grant is enabled and account active
    conflicted,   \* operators who have stepped aside from the project
    ownerSaw,     \* what the owner's page shows
    saw,          \* the case and version each operator has read
    claims        \* claims so far

reviewVars == <<saved, workflow, cases, granted, conflicted, ownerSaw, saw, claims>>

Parts == {"project", "achievement"}

ReviewInit ==
    /\ saved = [part \in Parts |-> 1]
    /\ workflow = [state |-> "DRAFT", version |-> 1, public |-> 0]
    /\ cases = <<>>
    /\ granted = Operators /\ conflicted = {}
    /\ ownerSaw = [saved |-> saved, workflow |-> 1, case |-> 0]
    /\ saw = [o \in Operators |-> [case |-> 0, version |-> 0]]
    /\ claims = 0

CaseIds == 1 .. Len(cases)
Pending == {c \in CaseIds : cases[c].status = "SUBMITTED"}

-------------------------------------------------------------------------------
(* The owner *)

\* The project, the achievement and the workflow with its newest case come
\* from three requests.
LoadOwnerPage ==
    /\ \/ \E part \in Parts : ownerSaw' = [ownerSaw EXCEPT !.saved[part] = saved[part]]
       \/ ownerSaw' = [ownerSaw EXCEPT
              !.workflow = workflow.version,
              !.case = IF cases = <<>> THEN 0 ELSE cases[Len(cases)].version]
    /\ UNCHANGED <<saved, workflow, cases, granted, conflicted, saw, claims>>

\* require_editable
Editable == workflow.state # "SUBMITTED" /\ Pending = {}

\* AchievementService.update
SaveAchievement ==
    /\ Editable
    /\ ownerSaw.saved.achievement = saved.achievement /\ saved.achievement < MaxSaved
    /\ saved' = [saved EXCEPT !.achievement = @ + 1]
    /\ UNCHANGED <<workflow, cases, granted, conflicted, ownerSaw, saw, claims>>

\* ProjectDraftService.update asks for no editable workflow: the project may be
\* saved while its achievement is being reviewed.
SaveProject ==
    /\ ownerSaw.saved.project = saved.project /\ saved.project < MaxSaved
    /\ saved' = [saved EXCEPT !.project = @ + 1]
    /\ UNCHANGED <<workflow, cases, granted, conflicted, ownerSaw, saw, claims>>

\* _saved_revision, for a first submission or an update.
Submit(op) ==
    /\ ownerSaw.saved = saved /\ ownerSaw.workflow = workflow.version
    /\ \/ op = "SUBMIT" /\ workflow.state \in {"DRAFT", "RETURNED"}
       \/ op = "UPDATE" /\ workflow.state = "APPROVED"
    /\ Pending = {} /\ Len(cases) < MaxCases
    /\ cases' = Append(cases, [status |-> "SUBMITTED", op |-> op, of |-> saved,
                               version |-> 1, by |-> Unassigned])
    /\ workflow' = [workflow EXCEPT !.version = @ + 1,
                                    !.state = IF op = "SUBMIT" THEN "SUBMITTED" ELSE @]
    /\ UNCHANGED <<saved, granted, conflicted, ownerSaw, saw, claims>>

AfterWithdrawal(w) ==
    [w EXCEPT !.version = @ + 1, !.state = IF @ = "SUBMITTED" THEN "DRAFT" ELSE @]

\* withdraw, of the case the owner's page shows.
Withdraw ==
    /\ cases # <<>> /\ workflow.state \in {"SUBMITTED", "APPROVED"}
    /\ LET c == Len(cases) IN
         /\ ownerSaw.workflow = workflow.version
         /\ cases[c].status = "SUBMITTED" /\ ownerSaw.case = cases[c].version
         /\ cases' = [cases EXCEPT ![c].status = "WITHDRAWN", ![c].version = @ + 1]
    /\ workflow' = AfterWithdrawal(workflow)
    /\ UNCHANGED <<saved, granted, conflicted, ownerSaw, saw, claims>>

-------------------------------------------------------------------------------
(* The operators *)

\* list_queue and detail: an operator reads a case that is open to them.
LoadQueue(o) ==
    /\ o \in granted \ conflicted
    /\ \E c \in Pending :
         /\ cases[c].by \in {Unassigned, o} \cup conflicted \cup (Operators \ granted)
         /\ saw' = [saw EXCEPT ![o] = [case |-> c, version |-> cases[c].version]]
    /\ UNCHANGED <<saved, workflow, cases, granted, conflicted, ownerSaw, claims>>

\* _scope: the grant, the account and the conflict of interest.
Admitted(o) == o \in granted \ conflicted /\ saw[o].case \in CaseIds

Seen(o) == cases[saw[o].case]

\* claim: free, or taken from an assignee who has lost the grant or stepped
\* aside; repeating one's own claim changes nothing.
Claim(o) ==
    /\ Admitted(o) /\ claims < MaxClaims
    /\ Seen(o).status = "SUBMITTED" /\ Seen(o).version = saw[o].version
    /\ Seen(o).by \in {Unassigned} \cup ((conflicted \cup (Operators \ granted)) \ {o})
    /\ cases' = [cases EXCEPT ![saw[o].case].by = o, ![saw[o].case].version = @ + 1]
    /\ saw' = [saw EXCEPT ![o].version = @ + 1]
    /\ claims' = claims + 1
    /\ UNCHANGED <<saved, workflow, granted, conflicted, ownerSaw>>

\* The pending cases of the project leave the operator's desk.
Released(o) ==
    [c \in CaseIds |-> IF c \in Pending /\ cases[c].by = o
                       THEN [cases[c] EXCEPT !.by = Unassigned, !.version = @ + 1]
                       ELSE cases[c]]

\* declare_conflict
DeclareConflict(o) ==
    /\ o \in granted /\ saw[o].case \in CaseIds
    /\ Seen(o).status = "SUBMITTED" /\ Seen(o).version = saw[o].version
    /\ conflicted' = conflicted \cup {o}
    /\ cases' = Released(o)
    /\ UNCHANGED <<saved, workflow, granted, ownerSaw, saw, claims>>

\* Mutant of Decidable: it is enough to have been assigned.
DecidableAssigned(o) == Seen(o).by = o

Decidable(o) ==
    /\ Seen(o).by = o /\ Seen(o).status = "SUBMITTED" /\ Seen(o).version = saw[o].version
    /\ workflow.state = IF Seen(o).op = "SUBMIT" THEN "SUBMITTED" ELSE "APPROVED"

AfterDecision(w, c, d) ==
    [w EXCEPT !.version = @ + 1,
              !.state = IF cases[c].op = "SUBMIT" THEN d ELSE @,
              !.public = IF d = "APPROVED" THEN c ELSE @]

\* decision, with the notification of the owner in the same transaction.
Decide(o, d) ==
    /\ Admitted(o) /\ Decidable(o)
    /\ cases' = [cases EXCEPT ![saw[o].case].status = d, ![saw[o].case].version = @ + 1]
    /\ workflow' = AfterDecision(workflow, saw[o].case, d)
    /\ UNCHANGED <<saved, granted, conflicted, ownerSaw, saw, claims>>

\* OperationsGrantService.save, or the account is suspended or comes back.
ToggleGrant(o) ==
    /\ granted' = IF o \in granted THEN granted \ {o} ELSE granted \cup {o}
    /\ UNCHANGED <<saved, workflow, cases, conflicted, ownerSaw, saw, claims>>

OwnerNext ==
    \/ LoadOwnerPage \/ SaveAchievement \/ SaveProject \/ Withdraw
    \/ \E op \in {"SUBMIT", "UPDATE"} : Submit(op)

OperatorNext ==
    \E o \in Operators :
        \/ LoadQueue(o) \/ Claim(o) \/ DeclareConflict(o)
        \/ \E d \in {"APPROVED", "RETURNED"} : Decide(o, d)

ReviewNext == OwnerNext \/ OperatorNext \/ \E o \in Operators : ToggleGrant(o)

ReviewSpec == ReviewInit /\ [][ReviewNext]_reviewVars

-------------------------------------------------------------------------------
(* Properties *)

ReviewTypeOK ==
    /\ saved \in [Parts -> 1 .. MaxSaved]
    /\ workflow.state \in {"DRAFT", "SUBMITTED", "RETURNED", "APPROVED"}
    /\ workflow.version \in Nat /\ workflow.public \in 0 .. Len(cases)
    /\ cases \in Seq([status : {"SUBMITTED", "WITHDRAWN", "RETURNED", "APPROVED"},
                      op : {"SUBMIT", "UPDATE"}, of : [Parts -> 1 .. MaxSaved], version : Nat,
                      by : Operators \cup {Unassigned}])
    /\ granted \subseteq Operators /\ conflicted \subseteq Operators
    /\ \A o \in Operators : saw[o].case \in 0 .. Len(cases) /\ saw[o].version \in Nat

\* The workflow and its cases tell one story: a first review is pending exactly
\* when the workflow says so, an update only on an approved achievement, and
\* never two at once (review_service.py, review_operations_service.py).
WorkflowMatchesCases ==
    /\ Cardinality(Pending) <= 1
    /\ workflow.state = "SUBMITTED" <=> \E c \in Pending : cases[c].op = "SUBMIT"
    /\ workflow.state = "APPROVED" <=> workflow.public # 0

\* The achievement that is being reviewed is the one that is saved: nobody edits
\* it meanwhile (workflow_guards.py, achievement_service.py update).  Its project
\* may have moved on (service.py update), but the revisions follow its edits:
\* none is of a project or an achievement older than an earlier revision's, and
\* none of one not yet saved, although a submission names versions its page has
\* read in several requests (review_service.py _saved_revision).
ReviewedIsSaved ==
    /\ \A c \in Pending : cases[c].of.achievement = saved.achievement
    /\ \A c \in CaseIds, part \in Parts :
          /\ cases[c].of[part] <= saved[part]
          /\ \A d \in CaseIds : c <= d => cases[c].of[part] <= cases[d].of[part]

\* An operator who has stepped aside holds no open case of the project, even
\* one claimed later or taken over (review_operations_service.py
\* declare_conflict).
ConflictedHoldsNothing == \A c \in Pending : cases[c].by \notin conflicted

\* A withdrawn or decided case stays so, although the other side may be about
\* to decide or withdraw it (review_operations_service.py decision).
ClosedCaseStands ==
    [][\A c \in CaseIds \ Pending : cases'[c].status = cases[c].status]_reviewVars

\* The public sees the newest revision that was approved
\* (review_operations_service.py decision).
PublicIsNewestApproved ==
    LET approved == {c \in CaseIds : cases[c].status = "APPROVED"} IN
    IF approved = {} THEN workflow.public = 0
    ELSE workflow.public \in approved /\ \A c \in approved : c <= workflow.public

\* The workflow of an achievement, its cases, the saved texts and what is public
\* agree although author and operators act at once; a closed case stays closed.
ReviewContract ==
    /\ [](/\ ReviewTypeOK
          /\ WorkflowMatchesCases
          /\ ReviewedIsSaved
          /\ ConflictedHoldsNothing
          /\ PublicIsNewestApproved)
    /\ ClosedCaseStands

=============================================================================
