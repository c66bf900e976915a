-------------------------------- MODULE Settings --------------------------------
(***************************************************************************)
(* The audited settings store, system/service.py: rows created on first     *)
(* write, versions that count writes, an audit row per write, and the pair  *)
(* of management-network keys, written one at a time under an advisory lock *)
(* because each is checked against the other.  Reads see committed rows.    *)
(***************************************************************************)
EXTENDS Integers, FiniteSets

CONSTANTS
    Editors,        \* transactions that write a setting
    MaxVersion,     \* bound on the versions of a key
    NoValue, NotEditing, Unheld

PolicyKeys == {"switch", "networks"}
Keys == PolicyKeys \cup {"term"}
Values(key) == CASE key = "switch" -> {"on", "off"}
                 [] key = "networks" -> {"some", "none"}
                 [] key = "term" -> {"t1", "t2"}

AllValues == UNION {Values(k) : k \in Keys}

\* A transaction that writes a setting: what it writes over what, as which
\* version, and its next step.
EditRows == [key : Keys, value : AllValues, previous : AllValues \cup {NoValue}, version : Nat,
             stage : {"lock", "check", "insert", "conflict", "written"}]

ASSUME SettingsAssumption ==
    /\ MaxVersion \in Nat /\ Unheld \notin Editors
    /\ \A k \in Keys : NoValue \notin Values(k)
    /\ NotEditing \notin EditRows

VARIABLES
    stored,     \* the committed row of each key, version 0 while there is none
    edit,       \* the transaction of each editor
    advisory,   \* the editor holding MANAGEMENT_NETWORK_POLICY_LOCK
    rowLock,    \* the editor holding the row, or its uncommitted insert
    trail       \* the audit rows of each key

settingVars == <<stored, edit, advisory, rowLock, trail>>

\* The environment's value stands in while a key has no row.
Default == [switch |-> "off", networks |-> "none"]
Effective(key) == IF stored[key].version = 0 THEN Default[key] ELSE stored[key].value
Fits(switch, networks) == switch = "on" => networks = "some"

SettingsInit ==
    /\ stored = [k \in Keys |-> [value |-> NoValue, version |-> 0]]
    /\ edit = [e \in Editors |-> NotEditing]
    /\ advisory = Unheld /\ rowLock = [k \in Keys |-> Unheld]
    /\ trail = [k \in Keys |-> {}]

\* Only the two policy endpoints write a policy key; they pass through the lock.
BeginEdit(e, key, value) ==
    /\ edit[e] = NotEditing /\ stored[key].version < MaxVersion
    /\ edit' = [edit EXCEPT ![e] = [key |-> key, value |-> value, previous |-> NoValue, version |-> 0,
                                    stage |-> IF key \in PolicyKeys THEN "lock" ELSE "insert"]]
    /\ UNCHANGED <<stored, advisory, rowLock, trail>>

InStep(e, stage) == edit[e] # NotEditing /\ edit[e].stage = stage

\* Mutant of TakeAdvisoryLock: the pair is checked and written without the lock.
TakeNoLock(e) ==
    /\ InStep(e, "lock")
    /\ edit' = [edit EXCEPT ![e].stage = "check"]
    /\ UNCHANGED <<stored, advisory, rowLock, trail>>

TakeAdvisoryLock(e) ==
    /\ InStep(e, "lock") /\ advisory = Unheld
    /\ advisory' = e /\ edit' = [edit EXCEPT ![e].stage = "check"]
    /\ UNCHANGED <<stored, rowLock, trail>>

AdvisoryFreed(e) == IF advisory = e THEN Unheld ELSE advisory
RowsReleased(e) == [k \in Keys |-> IF rowLock[k] = e THEN Unheld ELSE rowLock[k]]

\* The new value together with the stored value of the other key.
CheckPair(e) ==
    /\ InStep(e, "check")
    /\ LET switch == IF edit[e].key = "switch" THEN edit[e].value ELSE Effective("switch")
           networks == IF edit[e].key = "networks" THEN edit[e].value ELSE Effective("networks")
       IN IF Fits(switch, networks)
          THEN edit' = [edit EXCEPT ![e].stage = "insert"] /\ advisory' = advisory
          ELSE edit' = [edit EXCEPT ![e] = NotEditing] /\ advisory' = AdvisoryFreed(e)
    /\ UNCHANGED <<stored, rowLock, trail>>

\* INSERT ... ON CONFLICT DO NOTHING waits for an uncommitted insert of the key.
InsertSetting(e) ==
    /\ InStep(e, "insert")
    /\ LET key == edit[e].key
       IN IF stored[key].version = 0
          THEN /\ rowLock[key] = Unheld /\ rowLock' = [rowLock EXCEPT ![key] = e]
               /\ edit' = [edit EXCEPT ![e].version = 1, ![e].stage = "written"]
          ELSE edit' = [edit EXCEPT ![e].stage = "conflict"] /\ rowLock' = rowLock
    /\ UNCHANGED <<stored, advisory, trail>>

LockSetting(e) ==
    /\ InStep(e, "conflict") /\ rowLock[edit[e].key] = Unheld
    /\ LET row == stored[edit[e].key]
       IN edit' = [edit EXCEPT ![e].previous = row.value, ![e].version = row.version + 1,
                               ![e].stage = "written"]
    /\ rowLock' = [rowLock EXCEPT ![edit[e].key] = e]
    /\ UNCHANGED <<stored, advisory, trail>>

\* The value, its version and the audit row commit together and free the locks.
CommitEdit(e) ==
    /\ InStep(e, "written")
    /\ LET key == edit[e].key
       IN /\ stored' = [stored EXCEPT ![key] = [value |-> edit[e].value, version |-> edit[e].version]]
          /\ trail' = [trail EXCEPT ![key] = @ \cup
                         {[before |-> edit[e].previous, after |-> edit[e].value,
                           version |-> edit[e].version]}]
    /\ edit' = [edit EXCEPT ![e] = NotEditing]
    /\ advisory' = AdvisoryFreed(e) /\ rowLock' = RowsReleased(e)

AbortEdit(e) ==
    /\ edit[e] # NotEditing
    /\ edit' = [edit EXCEPT ![e] = NotEditing]
    /\ advisory' = AdvisoryFreed(e) /\ rowLock' = RowsReleased(e)
    /\ UNCHANGED <<stored, trail>>

SettingsNext ==
    \E e \in Editors :
        \/ \E key \in Keys : \E value \in Values(key) : BeginEdit(e, key, value)
        \/ TakeAdvisoryLock(e) \/ CheckPair(e) \/ InsertSetting(e) \/ LockSetting(e)
        \/ CommitEdit(e) \/ AbortEdit(e)

SettingsSpec == SettingsInit /\ [][SettingsNext]_settingVars

-----------------------------------------------------------------------------
(* Properties.                                                              *)

\* Types; the locks are held by transactions that still run.
SettingsTypeOK ==
    /\ \A k \in Keys : /\ stored[k].version \in Nat
                       /\ stored[k].version = 0 <=> stored[k].value = NoValue
                       /\ rowLock[k] \in Editors \cup {Unheld}
    /\ advisory \in Editors \cup {Unheld}
    /\ \A e \in Editors : advisory = e => edit[e] # NotEditing /\ edit[e].key \in PolicyKeys
    /\ \A e \in Editors, k \in Keys : rowLock[k] = e => InStep(e, "written") /\ edit[e].key = k

\* The stored pair, the environment's value standing in for a missing row, can always
\* be loaded: no two edits, each legal by itself, leave the switch on with no network
\* (system/service.py:483-518).
PolicyStaysLoadable == Fits(Effective("switch"), Effective("networks"))

\* The audit rows of a key form one chain, a row per version: the first has nothing
\* before it, each next starts from the value the one before left, and the last one is
\* what is stored, first writes that lose their race included (system/service.py:592-610).
TrailIsChain ==
    \A k \in Keys :
        /\ {a.version : a \in trail[k]} = 1..stored[k].version
        /\ Cardinality(trail[k]) = stored[k].version
        /\ \A a \in trail[k] :
               /\ a.version = 1 => a.before = NoValue
               /\ a.version = stored[k].version => a.after = stored[k].value
               /\ \A b \in trail[k] : b.version = a.version + 1 => b.before = a.after

\* The stored policy stays loadable and its history a chain, however edits race.
SettingsSound ==
    /\ SettingsTypeOK
    /\ PolicyStaysLoadable
    /\ TrailIsChain

=============================================================================
