------------------------------- MODULE AdminRoles -------------------------------
(***************************************************************************)
(* Role changes by administrators (identity/admin_power_service.py) against *)
(* the trigger of migration 0031 that guards the last active administrator, *)
(* while accounts are suspended and reactivated                             *)
(* (identity/account_admin_service.py).  A role change is a transaction of  *)
(* several statements; a change of status is one under its row lock.        *)
(***************************************************************************)

CONSTANTS
    Members,   \* staff accounts
    Changes,   \* role changes under way together
    NewRoles,  \* roles they ask for
    NewStates, \* statuses accounts are moved to
    Free, NoChange

\* A role change under way: its next step, its target, the role it asks for and
\* the rows its trigger has still to lock.
ChangeRows == [at : {"lock", "count", "trigger", "written"}, of : Members,
               role : {"TEACHER", "ADMIN"}, rest : SUBSET Members]

ASSUME AdminAssumption ==
    /\ Free \notin Changes /\ NoChange \notin ChangeRows
    /\ NewRoles \subseteq {"TEACHER", "ADMIN"}
    /\ NewStates \subseteq {"ACTIVE", "OFF"}

VARIABLES
    member,    \* role and status of each account
    change,    \* the role changes under way
    lock,      \* the change that holds each user row
    met        \* changes in whose trigger somebody became an active administrator

adminVars == <<member, change, lock, met>>

Staffs == [role : {"TEACHER", "ADMIN"}, status : {"ACTIVE", "OFF"}]
ActiveAdmin(m) == member[m] = [role |-> "ADMIN", status |-> "ACTIVE"]

AdminInit ==
    /\ member \in [Members -> Staffs] /\ \E m \in Members : ActiveAdmin(m)
    /\ change = [c \in Changes |-> NoChange] /\ lock = [m \in Members |-> Free]
    /\ met = {}

\* What the trigger of a change has not seen when it locked its rows.
InTrigger == {c \in Changes : change[c] # NoChange /\ change[c].at = "trigger"}
Met == IF \E m \in Members : ~ActiveAdmin(m) /\ ActiveAdmin(m)' THEN met \cup InTrigger ELSE met

\* One transition of the account status, under the row lock.
SetStatus(by, m, to) ==
    /\ ActiveAdmin(by) /\ lock[m] = Free /\ member[m].status # to
    /\ member' = [member EXCEPT ![m].status = to]
    /\ met' = Met
    /\ UNCHANGED <<change, lock>>

\* The actor is admitted and the role of the target read, without locks.
BeginChange(c, by, m, role) ==
    /\ change[c] = NoChange /\ ActiveAdmin(by) /\ by # m /\ member[m].role # role
    /\ change' = [change EXCEPT ![c] = [at |-> "lock", of |-> m, role |-> role, rest |-> {}]]
    /\ UNCHANGED <<member, lock, met>>

LockTarget(c) ==
    /\ change[c] # NoChange /\ change[c].at = "lock" /\ lock[change[c].of] = Free
    /\ lock' = [lock EXCEPT ![change[c].of] = c]
    /\ change' = [change EXCEPT ![c].at = "count"]
    /\ UNCHANGED <<member, met>>

Others(m) == {a \in Members \ {m} : ActiveAdmin(a)}

\* Mutant of GuardedRows: the trigger counts without locking the rows.
NoRows(m) == {}

\* PERFORM ... FOR UPDATE: every other active administrator.
GuardedRows(m) == Others(m)

\* The service's own count sees what is committed now; the update is next.
CountOthers(c) ==
    /\ change[c] # NoChange /\ change[c].at = "count"
    /\ change[c].role = "TEACHER" => Others(change[c].of) # {}
    /\ change' = [change EXCEPT ![c].at = "trigger",
                                ![c].rest = IF change[c].role = "TEACHER"
                                            THEN GuardedRows(change[c].of) ELSE {}]
    /\ UNCHANGED <<member, lock, met>>

\* The trigger locks row after row, waiting where another change has it.
LockOther(c, a) ==
    /\ change[c] # NoChange /\ change[c].at = "trigger"
    /\ a \in change[c].rest /\ lock[a] = Free
    /\ lock' = [lock EXCEPT ![a] = c]
    /\ change' = [change EXCEPT ![c].rest = @ \ {a}]
    /\ UNCHANGED <<member, met>>

Unlocked(c) == [m \in Members |-> IF lock[m] = c THEN Free ELSE lock[m]]

Demotes(c) == change[c].role = "TEACHER" /\ member[change[c].of].role = "ADMIN"

\* With its rows locked the trigger counts what is committed by now.
CountAgain(c) ==
    /\ change[c] # NoChange /\ change[c].at = "trigger" /\ change[c].rest = {}
    /\ Demotes(c) => Others(change[c].of) # {}
    /\ change' = [change EXCEPT ![c].at = "written"]
    /\ UNCHANGED <<member, lock, met>>

\* The audit row follows, and the commit shows the role and frees the rows.
CommitChange(c) ==
    /\ change[c] # NoChange /\ change[c].at = "written"
    /\ member' = [member EXCEPT ![change[c].of].role = change[c].role]
    /\ change' = [change EXCEPT ![c] = NoChange] /\ lock' = Unlocked(c) /\ met' = Met \ {c}

\* A count of none, the trigger's exception and the database's way out of a
\* circle of waits all roll the change back.
AbortChange(c) ==
    /\ change[c] # NoChange
    /\ \/ change[c].at = "count" /\ change[c].role = "TEACHER" /\ Others(change[c].of) = {}
       \/ change[c].at = "trigger" /\ change[c].rest = {} /\ Demotes(c) /\ Others(change[c].of) = {}
       \/ change[c].at = "trigger" /\ \E a \in change[c].rest : lock[a] \notin {Free, c}
    /\ change' = [change EXCEPT ![c] = NoChange] /\ lock' = Unlocked(c) /\ met' = met \ {c}
    /\ UNCHANGED member

AdminNext ==
    \/ \E by, m \in Members, to \in NewStates :
           SetStatus(by, m, to)
    \/ \E c \in Changes :
           \/ \E by, m \in Members, role \in NewRoles : BeginChange(c, by, m, role)
           \/ \E a \in Members : LockOther(c, a)
           \/ LockTarget(c) \/ CountOthers(c) \/ CountAgain(c) \/ CommitChange(c) \/ AbortChange(c)

AdminSpec == AdminInit /\ [][AdminNext]_adminVars

-----------------------------------------------------------------------------
\* Types; rows are held by changes that are under way, and by nobody else.
AdminTypeOK ==
    /\ member \in [Members -> Staffs] /\ lock \in [Members -> Changes \cup {Free}]
    /\ \A c \in Changes : change[c] = NoChange \/ change[c] \in ChangeRows
    /\ \A m \in Members : lock[m] # Free => change[lock[m]] # NoChange
    /\ met \subseteq {c \in Changes : change[c] # NoChange}

\* Racing demotions, promotions, suspensions and reactivations never end with a
\* demotion that leaves no active administrator (change_role, migration 0031) --
\* unless somebody became one between the two statements of its trigger, who is
\* counted without being locked.
DemotionLeavesAdmin ==
    [][(\E m \in Members : /\ member[m].role = "ADMIN" /\ member'[m].role = "TEACHER"
                           /\ lock[m] \notin met)
           => \E m \in Members : ActiveAdmin(m)']_adminVars

\* Changes of staff accounts hold their rows to the commit and leave somebody
\* who can administer.
RolesContract == []AdminTypeOK /\ DemotionLeavesAdmin

=============================================================================
