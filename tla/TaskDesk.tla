--------------------------------- MODULE TaskDesk ---------------------------------
(***************************************************************************)
(* One task at its teachers' desks: creating it, editing its contract,      *)
(* moving it through its states, naming collaborators and importing units.  *)
(* Every operation but the import works on the locked task row; the import  *)
(* reads the collaborators and inserts later.  tasks/service.py and         *)
(* tasks/collaborator_service.py.                                           *)
(***************************************************************************)
EXTENDS Naturals

CONSTANTS
    Teachers,      \* who may be a collaborator
    Owner,         \* the owner, or an administrator
    Powers,        \* permissions of a collaborator; "MANAGE" is one of them
    Contracts,     \* what the contract fields may say
    Faulty,        \* contracts the publish gate refuses
    Desks,         \* operations under way
    NoTask

ASSUME DeskAssumption ==
    Owner \notin Teachers /\ "MANAGE" \in Powers /\ Faulty \subseteq Contracts /\ NoTask \notin Contracts

VARIABLES
    task,      \* status and contract
    units,     \* the task has units
    power,     \* the permissions of each collaborator; {}: not one
    desk,      \* each operation: who asked what, and what it read
    sold,      \* the contract of the first publication
    trail      \* the last audited transition

deskVars == <<task, units, power, desk, sold, trail>>

Idle == [verb |-> "none", by |-> NoTask, of |-> NoTask, give |-> {}, status |-> "DRAFT", own |-> {}]

AllowedTaskTransitions ==
    [DRAFT |-> {"PUBLISHED"}, PUBLISHED |-> {"PAUSED", "CLOSED"},
     PAUSED |-> {"PUBLISHED", "CLOSED"}, CLOSED |-> {"ARCHIVED"}, ARCHIVED |-> {}]

DeskInit ==
    /\ task = [status |-> "NONE", contract |-> NoTask] /\ units = FALSE
    /\ power = [t \in Teachers |-> {}]
    /\ desk = [d \in Desks |-> Idle]
    /\ sold = NoTask /\ trail = [before |-> "NONE", after |-> "DRAFT"]

\* With a target count the units are created in the same transaction.
CreateTask(c, counted) ==
    /\ task.status = "NONE"
    /\ task' = [status |-> "DRAFT", contract |-> c] /\ units' = counted
    /\ UNCHANGED <<power, desk, sold, trail>>

-----------------------------------------------------------------------------
RowFree == \A d \in Desks : desk[d].verb \in {"none", "import"}

\* What it reads: the task row under its lock and the caller's own permissions.
Open(d, verb, by, of, give) ==
    /\ desk[d] = Idle /\ task.status # "NONE" /\ (verb = "import" \/ RowFree)
    /\ desk' = [desk EXCEPT ![d] = [verb |-> verb, by |-> by, of |-> of, give |-> give,
                                    status |-> task.status,
                                    own |-> IF by = Owner THEN Powers ELSE power[by]]]
    /\ UNCHANGED <<task, units, power, sold, trail>>

\* Refused, failed or dead: the transaction is rolled back.
GiveUp(d) ==
    /\ desk[d] # Idle
    /\ desk' = [desk EXCEPT ![d] = Idle]
    /\ UNCHANGED <<task, units, power, sold, trail>>

Finish(d) == desk' = [desk EXCEPT ![d] = Idle]

EditContract(d) ==
    /\ desk[d].verb = "edit" /\ desk[d].by = Owner /\ desk[d].status = "DRAFT"
    /\ task' = [task EXCEPT !.contract = desk[d].of]
    /\ Finish(d) /\ UNCHANGED <<units, power, sold, trail>>

\* A task that was live before is not asked again.
HasUnits(d) == units \/ desk[d].status = "PAUSED"

Transition(d) ==
    /\ desk[d].verb = "move" /\ desk[d].by = Owner
    /\ desk[d].of \in AllowedTaskTransitions[desk[d].status]
    /\ desk[d].of = "PUBLISHED" => task.contract \notin Faulty /\ HasUnits(d)
    /\ task' = [task EXCEPT !.status = desk[d].of]
    /\ sold' = IF desk[d].status = "DRAFT" THEN task.contract ELSE sold
    /\ trail' = [before |-> desk[d].status, after |-> desk[d].of]
    /\ Finish(d) /\ UNCHANGED <<units, power>>

\* Mutant of WithinCeiling: any collaborator may hand out every permission.
WithinStanding(d) == desk[d].own # {}

\* The owner hands out everything, a collaborator what is its own.
WithinCeiling(d) == desk[d].own # {} /\ desk[d].give \subseteq desk[d].own

AddCollaborator(d) ==
    /\ desk[d].verb = "add" /\ WithinCeiling(d)
    /\ desk[d].give # {} /\ power[desk[d].of] = {}
    /\ power' = [power EXCEPT ![desk[d].of] = desk[d].give]
    /\ Finish(d) /\ UNCHANGED <<task, units, sold, trail>>

RemoveCollaborator(d) ==
    /\ desk[d].verb = "remove" /\ desk[d].by = Owner /\ power[desk[d].of] # {}
    /\ power' = [power EXCEPT ![desk[d].of] = {}]
    /\ Finish(d) /\ UNCHANGED <<task, units, sold, trail>>

\* The state of the task is not looked at.
ImportUnits(d) ==
    /\ desk[d].verb = "import" /\ "MANAGE" \in desk[d].own
    /\ units' = TRUE
    /\ Finish(d) /\ UNCHANGED <<task, power, sold, trail>>

DeskNext ==
    \/ \E c \in Contracts, counted \in BOOLEAN : CreateTask(c, counted)
    \/ \E d \in Desks :
        \/ \E c \in Contracts : Open(d, "edit", Owner, c, {})
        \/ \E s \in DOMAIN AllowedTaskTransitions : Open(d, "move", Owner, s, {})
        \/ \E by \in Teachers \cup {Owner}, t \in Teachers, give \in SUBSET Powers :
             Open(d, "add", by, t, give)
        \/ \E by \in Teachers \cup {Owner}, t \in Teachers : Open(d, "remove", by, t, {})
        \/ \E by \in Teachers \cup {Owner} : Open(d, "import", by, NoTask, {})
        \/ GiveUp(d) \/ EditContract(d) \/ Transition(d)
        \/ AddCollaborator(d) \/ RemoveCollaborator(d) \/ ImportUnits(d)

DeskSpec == DeskInit /\ [][DeskNext]_deskVars

-----------------------------------------------------------------------------
(* Properties.                                                             *)

\* Types; and a task that is or was live has units to claim (_transition).
DeskTypeOK ==
    /\ task.status \in DOMAIN AllowedTaskTransitions \cup {"NONE"}
    /\ task.contract \in Contracts \cup {NoTask} /\ power \in [Teachers -> SUBSET Powers]
    /\ task.status \notin {"NONE", "DRAFT"} => units

\* What claims have copied stays what the task says: from its first publication on the
\* contract is the one that was published, and it passed the gate (update_task).
ContractStands ==
    task.status \notin {"NONE", "DRAFT"} => task.contract = sold /\ sold \notin Faulty

\* The audit trail is a path: each transition starts where the last one ended, though two
\* desks may have asked for different ones (_transition).
TrailIsPath == [][trail' # trail => trail'.before = trail.after]_deskVars

\* Nobody is given a permission its giver does not hold when it is given: a collaborator
\* who is being removed cannot hand its powers on (add_collaborator).
GivenFromOwn == [][\A t \in Teachers : ~ power'[t] \subseteq power[t] =>
    \E d \in Desks : /\ desk[d].verb = "add" /\ desk[d].of = t /\ desk'[d] = Idle
                     /\ desk[d].by = Owner \/ power'[t] \subseteq power[desk[d].by]]_deskVars

\* A published contract stands, its trail is a path, and powers are handed on
\* only by those who have them.
DeskContract ==
    /\ [](DeskTypeOK /\ ContractStands)
    /\ TrailIsPath
    /\ GivenFromOwn

===================================================================================
