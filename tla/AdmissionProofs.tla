---------------------------- MODULE AdmissionProofs ----------------------------
(***************************************************************************)
(* What stands between a request and its handler: the settings store, the   *)
(* limiter and the gates of every route, for any number of editors, calls   *)
(* and clients.                                                             *)
(***************************************************************************)
EXTENDS Admission, FiniteSetTheorems, NaturalsInduction, WellFoundedInduction, TLAPS

-----------------------------------------------------------------------------
(* The settings store.                                                     *)

StoredRows == [value : AllValues \cup {NoValue}, version : Nat]
TrailRows == [before : AllValues \cup {NoValue}, after : AllValues, version : Nat]

SettingsTyped ==
    /\ stored \in [Keys -> StoredRows]
    /\ edit \in [Editors -> EditRows \cup {NotEditing}]
    /\ advisory \in Editors \cup {Unheld} /\ rowLock \in [Keys -> Editors \cup {Unheld}]
    /\ trail \in [Keys -> SUBSET TrailRows]

Editing(e) == edit[e] # NotEditing

\* From its check to its commit an edit of a policy key holds the advisory
\* lock, and its value goes with the stored value of the other key.
PairSound(e) ==
    Editing(e) /\ edit[e].key \in PolicyKeys /\ edit[e].stage # "lock" =>
        /\ advisory = e
        /\ edit[e].stage # "check" =>
               /\ edit[e].key = "switch" => Fits(edit[e].value, Effective("networks"))
               /\ edit[e].key = "networks" => Fits(Effective("switch"), edit[e].value)

\* An edit that has written holds its row and continues what is stored.
WriteSound(e) ==
    Editing(e) =>
        LET row == stored[edit[e].key] IN
        /\ edit[e].value \in Values(edit[e].key)
        /\ edit[e].stage \in {"lock", "check"} => edit[e].key \in PolicyKeys
        /\ edit[e].stage \in {"lock", "check", "insert"} => edit[e].previous = NoValue
        /\ edit[e].stage = "conflict" => row.version # 0
        /\ edit[e].stage = "written" =>
               /\ rowLock[edit[e].key] = e
               /\ edit[e].version = row.version + 1 /\ edit[e].previous = row.value

LocksHeld ==
    /\ \A e \in Editors : advisory = e => Editing(e) /\ edit[e].key \in PolicyKeys
    /\ \A e \in Editors, k \in Keys :
           rowLock[k] = e => Editing(e) /\ edit[e].stage = "written" /\ edit[e].key = k

SettingRowSound(k) ==
    /\ stored[k].version = 0 <=> stored[k].value = NoValue
    /\ IsFiniteSet(trail[k])

SettingsInv ==
    /\ SettingsTyped /\ LocksHeld
    /\ \A e \in Editors : PairSound(e) /\ WriteSound(e)
    /\ \A k \in Keys : SettingRowSound(k)
    /\ PolicyStaysLoadable /\ TrailIsChain

LEMMA KeyNames == Keys = {"switch", "networks", "term"} /\ PolicyKeys = {"switch", "networks"}
BY DEF Keys, PolicyKeys

LEMMA ValueNames ==
    /\ Values("switch") = {"on", "off"} /\ Values("networks") = {"some", "none"}
    /\ Values("term") = {"t1", "t2"}
    /\ \A k \in Keys : Values(k) \subseteq AllValues
BY DEF Values, AllValues

LEMMA SettingsStart == SettingsInit => SettingsInv
<1> SUFFICES ASSUME SettingsInit PROVE SettingsInv OBVIOUS
<1>1. SettingsTyped BY SettingsAssumption DEF SettingsInit, SettingsTyped, StoredRows
<1>2. LocksHeld /\ \A e \in Editors : PairSound(e) /\ WriteSound(e)
  BY SettingsAssumption DEF SettingsInit, LocksHeld, PairSound, WriteSound, Editing
<1>3. \A k \in Keys : SettingRowSound(k) BY FS_EmptySet DEF SettingsInit, SettingRowSound
<1>4. PolicyStaysLoadable
  BY KeyNames DEF SettingsInit, PolicyStaysLoadable, Fits, Effective, Default
<1>5. TrailIsChain BY FS_EmptySet DEF SettingsInit, TrailIsChain
<1> QED BY <1>1, <1>2, <1>3, <1>4, <1>5 DEF SettingsInv

\* What an edit that only goes on must respect.
GoesOn(e) ==
    /\ edit' \in [Editors -> EditRows \cup {NotEditing}] /\ edit'[e] \in EditRows
    /\ \A f \in Editors : f # e => edit'[f] = edit[f]
    /\ UNCHANGED <<stored, trail>>

LEMMA OthersKept ==
    ASSUME SettingsInv, NEW e \in Editors, NEW f \in Editors, f # e, edit'[f] = edit[f],
           UNCHANGED stored,
           advisory = f => advisory' = f, \A k \in Keys : rowLock[k] = f => rowLock'[k] = f
    PROVE  PairSound(f)' /\ WriteSound(f)'
<1>1. Editing(f) => edit[f].key \in Keys BY DEF SettingsInv, SettingsTyped, Editing, EditRows
<1> QED BY <1>1 DEF SettingsInv, PairSound, WriteSound, Editing, Effective

LEMMA StoreKept ==
    ASSUME SettingsInv, UNCHANGED <<stored, trail>>
    PROVE  (\A k \in Keys : SettingRowSound(k))' /\ PolicyStaysLoadable' /\ TrailIsChain'
BY DEF SettingsInv, SettingRowSound, PolicyStaysLoadable, Effective, TrailIsChain

LEMMA GoesOnKeeps ==
    ASSUME SettingsInv, NEW e \in Editors, GoesOn(e),
           advisory' = advisory \/ (advisory = Unheld /\ advisory' = e /\ edit'[e].key \in PolicyKeys),
           rowLock' = rowLock \/ \E k \in Keys : /\ rowLock[k] = Unheld /\ edit'[e].key = k
                                                 /\ edit'[e].stage = "written"
                                                 /\ rowLock' = [rowLock EXCEPT ![k] = e],
           Editing(e) => /\ edit'[e].key = edit[e].key
                         /\ edit[e].stage # "written",
           PairSound(e)', WriteSound(e)'
    PROVE  SettingsInv'
<1> USE SettingsAssumption
<1>1. SettingsTyped' BY DEF SettingsInv, SettingsTyped, GoesOn
<1>2. \A k \in Keys : rowLock'[k] = rowLock[k] \/
          (rowLock[k] = Unheld /\ rowLock'[k] = e /\ edit'[e].key = k /\ edit'[e].stage = "written")
  BY DEF SettingsInv, SettingsTyped
<1>3. edit'[e] # NotEditing BY DEF GoesOn
<1>4. \A k \in Keys : rowLock[k] # e BY DEF SettingsInv, LocksHeld
<1>5. LocksHeld'
  <2>1. ASSUME NEW f \in Editors, advisory' = f PROVE (Editing(f) /\ edit[f].key \in PolicyKeys)'
    <3>1. CASE f = e
      BY <1>3, <2>1, <3>1 DEF SettingsInv, LocksHeld, Editing
    <3>2. CASE f # e BY <2>1, <3>2 DEF SettingsInv, LocksHeld, GoesOn, Editing
    <3> QED BY <3>1, <3>2
  <2>2. ASSUME NEW f \in Editors, NEW k \in Keys, rowLock'[k] = f
        PROVE  (Editing(f) /\ edit[f].stage = "written" /\ edit[f].key = k)'
    <3>1. CASE f = e BY <1>2, <1>3, <1>4, <2>2, <3>1 DEF Editing
    <3>2. CASE f # e BY <1>2, <2>2, <3>2 DEF SettingsInv, LocksHeld, GoesOn, Editing
    <3> QED BY <3>1, <3>2
  <2> QED BY <2>1, <2>2 DEF LocksHeld
<1>6. ASSUME NEW f \in Editors, f # e PROVE PairSound(f)' /\ WriteSound(f)'
  <2>1. advisory = f => advisory' = f OBVIOUS
  <2>2. \A k \in Keys : rowLock[k] = f => rowLock'[k] = f BY <1>2
  <2> QED BY <1>6, <2>1, <2>2, OthersKept DEF GoesOn
<1>7. (\A k \in Keys : SettingRowSound(k))' /\ PolicyStaysLoadable' /\ TrailIsChain'
  BY StoreKept DEF GoesOn
<1> QED BY <1>1, <1>5, <1>6, <1>7 DEF SettingsInv

\* The end of an edit, with or without its commit, frees what it holds.
Ends(e) ==
    /\ edit' = [edit EXCEPT ![e] = NotEditing]
    /\ advisory' = AdvisoryFreed(e) /\ rowLock' = RowsReleased(e)

LEMMA EndFrees ==
    ASSUME SettingsInv, NEW e \in Editors, Ends(e)
    PROVE  /\ edit' \in [Editors -> EditRows \cup {NotEditing}]
           /\ advisory' \in Editors \cup {Unheld} /\ rowLock' \in [Keys -> Editors \cup {Unheld}]
           /\ LocksHeld' /\ edit'[e] = NotEditing
           /\ \A f \in Editors \ {e} :
                  /\ edit'[f] = edit[f] /\ (advisory = f => advisory' = f)
                  /\ \A k \in Keys : rowLock[k] = f => rowLock'[k] = f
<1> USE SettingsAssumption
<1>1. \A f \in Editors : edit'[f] = IF f = e THEN NotEditing ELSE edit[f]
  BY DEF SettingsInv, SettingsTyped, Ends
<1>2. advisory' = IF advisory = e THEN Unheld ELSE advisory BY DEF Ends, AdvisoryFreed
<1>3. \A k \in Keys : rowLock'[k] = IF rowLock[k] = e THEN Unheld ELSE rowLock[k]
  BY DEF Ends, RowsReleased
<1>4. /\ edit' \in [Editors -> EditRows \cup {NotEditing}] /\ advisory' \in Editors \cup {Unheld}
      /\ rowLock' \in [Keys -> Editors \cup {Unheld}]
  BY <1>2 DEF SettingsInv, SettingsTyped, Ends, RowsReleased
<1>5. LocksHeld' BY <1>1, <1>2, <1>3 DEF SettingsInv, LocksHeld, Editing
<1> QED BY <1>1, <1>2, <1>3, <1>4, <1>5

LEMMA EndKeeps ==
    ASSUME SettingsInv, NEW e \in Editors, Ends(e), UNCHANGED <<stored, trail>>
    PROVE  SettingsInv'
<1>1. SettingsTyped' BY EndFrees DEF SettingsInv, SettingsTyped
<1>2. ASSUME NEW f \in Editors PROVE PairSound(f)' /\ WriteSound(f)'
  <2>1. CASE f = e BY <2>1, EndFrees DEF PairSound, WriteSound, Editing
  <2>2. CASE f # e BY <2>2, EndFrees, OthersKept
  <2> QED BY <2>1, <2>2
<1> QED BY <1>1, <1>2, EndFrees, StoreKept DEF SettingsInv

\* The fields of an edit that goes on; values and keys are never changed.
LEMMA StageMoves ==
    ASSUME SettingsInv, NEW e \in Editors, Editing(e),
           TakeAdvisoryLock(e) \/ (CheckPair(e) /\ edit'[e] # NotEditing) \/ InsertSetting(e)
               \/ LockSetting(e)
    PROVE  /\ GoesOn(e) /\ edit[e] \in EditRows
           /\ edit'[e].key = edit[e].key /\ edit'[e].value = edit[e].value
<1>1. edit[e] \in EditRows BY DEF SettingsInv, SettingsTyped, Editing
<1>2. CASE TakeAdvisoryLock(e)
  BY <1>1, <1>2 DEF TakeAdvisoryLock, GoesOn, SettingsInv, SettingsTyped, EditRows
<1>3. CASE CheckPair(e) /\ edit'[e] # NotEditing
  <2>1. edit' = [edit EXCEPT ![e].stage = "insert"] /\ UNCHANGED <<stored, trail>>
    BY <1>3 DEF CheckPair, SettingsInv, SettingsTyped
  <2> QED BY <1>1, <2>1 DEF GoesOn, SettingsInv, SettingsTyped, EditRows
<1>4. CASE InsertSetting(e)
  <2>1. \/ edit' = [edit EXCEPT ![e].version = 1, ![e].stage = "written"]
        \/ edit' = [edit EXCEPT ![e].stage = "conflict"]
    BY <1>4 DEF InsertSetting
  <2>2. edit'[e] \in EditRows /\ edit'[e].key = edit[e].key /\ edit'[e].value = edit[e].value
    BY <1>1, <2>1 DEF SettingsInv, SettingsTyped, EditRows
  <2>3. \A f \in Editors : f # e => edit'[f] = edit[f]
    BY <2>1 DEF SettingsInv, SettingsTyped
  <2>4. edit' \in [Editors -> EditRows \cup {NotEditing}]
    BY <2>1, <2>2 DEF SettingsInv, SettingsTyped
  <2> QED BY <1>1, <1>4, <2>2, <2>3, <2>4 DEF GoesOn, InsertSetting
<1>5. CASE LockSetting(e)
  <2>1. /\ stored[edit[e].key].value \in AllValues \cup {NoValue}
        /\ stored[edit[e].key].version + 1 \in Nat
    BY <1>1 DEF SettingsInv, SettingsTyped, StoredRows, EditRows
  <2>2. /\ edit' = [edit EXCEPT ![e].previous = stored[edit[e].key].value,
                               ![e].version = stored[edit[e].key].version + 1,
                               ![e].stage = "written"]
        /\ UNCHANGED <<stored, trail>>
    BY <1>5 DEF LockSetting
  <2>3. edit'[e] \in EditRows /\ edit'[e].key = edit[e].key /\ edit'[e].value = edit[e].value
    BY <1>1, <2>1, <2>2 DEF SettingsInv, SettingsTyped, EditRows
  <2> QED BY <1>1, <2>2, <2>3 DEF GoesOn, SettingsInv, SettingsTyped
<1> QED BY <1>2, <1>3, <1>4, <1>5

LEMMA BeginEditKeeps ==
    ASSUME SettingsInv, NEW e \in Editors, NEW k \in Keys, NEW v \in Values(k), BeginEdit(e, k, v)
    PROVE  SettingsInv'
<1> DEFINE row == [key |-> k, value |-> v, previous |-> NoValue, version |-> 0,
                   stage |-> IF k \in PolicyKeys THEN "lock" ELSE "insert"]
<1>1. row \in EditRows BY ValueNames DEF EditRows
<1>2. edit'[e] = row /\ GoesOn(e) /\ ~Editing(e) /\ UNCHANGED <<advisory, rowLock>>
  BY <1>1 DEF BeginEdit, GoesOn, SettingsInv, SettingsTyped, Editing
<1>3. PairSound(e)' BY <1>2 DEF PairSound, PolicyKeys
<1>4. WriteSound(e)' BY <1>2 DEF WriteSound
<1> QED BY <1>2, <1>3, <1>4, GoesOnKeeps

LEMMA TakeAdvisoryLockKeeps ==
    ASSUME SettingsInv, NEW e \in Editors, TakeAdvisoryLock(e)
    PROVE  SettingsInv'
<1>1. Editing(e) /\ edit[e].stage = "lock" /\ advisory = Unheld /\ advisory' = e /\ rowLock' = rowLock
  BY DEF TakeAdvisoryLock, InStep, Editing
<1>2. GoesOn(e) /\ edit[e] \in EditRows /\ edit'[e].key = edit[e].key /\ edit'[e].value = edit[e].value
  BY <1>1, StageMoves
<1>3. edit'[e].stage = "check" /\ edit'[e].previous = edit[e].previous
  BY <1>2 DEF TakeAdvisoryLock, SettingsInv, SettingsTyped, EditRows
<1>4. edit[e].key \in PolicyKeys /\ edit[e].value \in Values(edit[e].key) /\ edit[e].previous = NoValue
  BY <1>1 DEF SettingsInv, WriteSound
<1>5. PairSound(e)' BY <1>1, <1>2, <1>3 DEF PairSound
<1>6. WriteSound(e)' BY <1>2, <1>3, <1>4 DEF WriteSound
<1> QED BY <1>1, <1>2, <1>4, <1>5, <1>6, GoesOnKeeps

LEMMA CheckPairKeeps ==
    ASSUME SettingsInv, NEW e \in Editors, CheckPair(e)
    PROVE  SettingsInv'
<1> DEFINE switch == IF edit[e].key = "switch" THEN edit[e].value ELSE Effective("switch")
           networks == IF edit[e].key = "networks" THEN edit[e].value ELSE Effective("networks")
<1> HIDE DEF switch, networks
<1>1. Editing(e) /\ edit[e].stage = "check" /\ UNCHANGED <<stored, rowLock, trail>>
  BY DEF CheckPair, InStep, Editing
<1>2. CASE Fits(switch, networks)
  <2>1. edit' = [edit EXCEPT ![e].stage = "insert"] /\ advisory' = advisory
    BY <1>2 DEF CheckPair, switch, networks
  <2>2. edit[e] \in EditRows BY <1>1 DEF SettingsInv, SettingsTyped, Editing
  <2>3. GoesOn(e) /\ edit'[e].key = edit[e].key /\ edit'[e].value = edit[e].value
        /\ edit'[e].stage = "insert" /\ edit'[e].previous = edit[e].previous
    BY <1>1, <2>1, <2>2 DEF GoesOn, SettingsInv, SettingsTyped, EditRows
  <2>4. /\ edit[e].key \in PolicyKeys /\ edit[e].value \in Values(edit[e].key)
        /\ edit[e].previous = NoValue /\ advisory = e
    BY <1>1 DEF SettingsInv, WriteSound, PairSound
  <2>5. /\ edit[e].key = "switch" => Fits(edit[e].value, Effective("networks"))
        /\ edit[e].key = "networks" => Fits(Effective("switch"), edit[e].value)
    BY <1>2, KeyNames DEF switch, networks
  <2>6. PairSound(e)' BY <1>1, <2>1, <2>3, <2>4, <2>5 DEF PairSound, Effective
  <2>7. WriteSound(e)' BY <2>3, <2>4 DEF WriteSound
  <2> QED BY <1>1, <2>1, <2>3, <2>4, <2>6, <2>7, GoesOnKeeps
<1>3. CASE ~Fits(switch, networks)
  <2>1. edit' = [edit EXCEPT ![e] = NotEditing] /\ advisory' = AdvisoryFreed(e)
    BY <1>3 DEF CheckPair, switch, networks
  <2>2. \A k \in Keys : rowLock[k] # e BY <1>1 DEF SettingsInv, LocksHeld
  <2>3. rowLock' = RowsReleased(e)
    <3>1. rowLock = [k \in Keys |-> rowLock[k]] BY DEF SettingsInv, SettingsTyped
    <3> QED BY <1>1, <2>2, <3>1 DEF RowsReleased
  <2> QED BY <1>1, <2>1, <2>3, EndKeeps DEF Ends
<1> QED BY <1>2, <1>3

LEMMA InsertSettingKeeps ==
    ASSUME SettingsInv, NEW e \in Editors, InsertSetting(e)
    PROVE  SettingsInv'
<1> DEFINE k == edit[e].key
<1>1. Editing(e) /\ edit[e].stage = "insert" /\ UNCHANGED <<stored, advisory, trail>>
  BY DEF InsertSetting, InStep, Editing
<1>2. GoesOn(e) /\ edit[e] \in EditRows /\ edit'[e].key = k /\ edit'[e].value = edit[e].value
  BY <1>1, StageMoves
<1>3. /\ k \in Keys /\ SettingRowSound(k) /\ PairSound(e) /\ WriteSound(e)
      /\ stored[k].version \in Nat
  BY <1>2 DEF SettingsInv, EditRows, SettingsTyped, StoredRows
<1>4. edit'[e].stage # "lock" /\ edit'[e].previous = edit[e].previous
  BY <1>2 DEF InsertSetting, SettingsInv, SettingsTyped, EditRows
<1>5. PairSound(e)'
  BY <1>1, <1>2, <1>3 DEF PairSound, Effective
<1>6. CASE stored[k].version = 0
  <2>1. /\ rowLock[k] = Unheld /\ rowLock' = [rowLock EXCEPT ![k] = e]
        /\ edit'[e].version = 1 /\ edit'[e].stage = "written"
    BY <1>2, <1>6 DEF InsertSetting, SettingsInv, SettingsTyped, EditRows
  <2>2. rowLock'[k] = e BY <1>3, <2>1 DEF SettingsInv, SettingsTyped
  <2>3. WriteSound(e)'
    BY <1>1, <1>2, <1>3, <1>4, <1>6, <2>1, <2>2 DEF WriteSound, SettingRowSound
  <2> QED BY <1>1, <1>2, <1>3, <1>5, <2>1, <2>3, GoesOnKeeps
<1>7. CASE stored[k].version # 0
  <2>1. rowLock' = rowLock /\ edit'[e].stage = "conflict"
    BY <1>2, <1>7 DEF InsertSetting, SettingsInv, SettingsTyped, EditRows
  <2>2. WriteSound(e)' BY <1>1, <1>2, <1>3, <1>4, <1>7, <2>1 DEF WriteSound
  <2> QED BY <1>1, <1>2, <1>5, <2>1, <2>2, GoesOnKeeps
<1> QED BY <1>6, <1>7

LEMMA LockSettingKeeps ==
    ASSUME SettingsInv, NEW e \in Editors, LockSetting(e)
    PROVE  SettingsInv'
<1> DEFINE k == edit[e].key
<1>1. /\ Editing(e) /\ edit[e].stage = "conflict" /\ UNCHANGED <<stored, advisory, trail>>
      /\ rowLock[k] = Unheld /\ rowLock' = [rowLock EXCEPT ![k] = e]
  BY DEF LockSetting, InStep, Editing
<1>2. GoesOn(e) /\ edit[e] \in EditRows /\ edit'[e].key = k /\ edit'[e].value = edit[e].value
  BY <1>1, StageMoves
<1>3. k \in Keys /\ PairSound(e) /\ WriteSound(e) BY <1>2 DEF SettingsInv, EditRows
<1>4. edit'[e].stage = "written" /\ edit'[e].previous = stored[k].value
      /\ edit'[e].version = stored[k].version + 1
  BY <1>2 DEF LockSetting, SettingsInv, SettingsTyped, EditRows
<1>5. PairSound(e)' BY <1>1, <1>2, <1>3 DEF PairSound, Effective
<1>6. rowLock'[k] = e BY <1>1, <1>3 DEF SettingsInv, SettingsTyped
<1>7. WriteSound(e)' BY <1>1, <1>2, <1>3, <1>4, <1>6 DEF WriteSound
<1> QED BY <1>1, <1>2, <1>3, <1>4, <1>5, <1>7, GoesOnKeeps

\* What a commit makes of the store.
LEMMA CommitStores ==
    ASSUME SettingsInv, NEW e \in Editors, CommitEdit(e)
    PROVE  LET k == edit[e].key
               row == [before |-> stored[k].value, after |-> edit[e].value,
                       version |-> stored[k].version + 1]
           IN /\ Ends(e) /\ Editing(e) /\ edit[e] \in EditRows /\ edit[e].stage = "written"
              /\ k \in Keys /\ edit[e].value \in Values(k) /\ row \in TrailRows
              /\ stored' \in [Keys -> StoredRows] /\ trail' \in [Keys -> SUBSET TrailRows]
              /\ stored'[k].value = edit[e].value /\ stored'[k].version = stored[k].version + 1
              /\ trail'[k] = trail[k] \cup {row}
              /\ \A o \in Keys \ {k} : stored'[o] = stored[o] /\ trail'[o] = trail[o]
<1> DEFINE k == edit[e].key
           row == [before |-> stored[k].value, after |-> edit[e].value,
                   version |-> stored[k].version + 1]
<1>1. /\ Editing(e) /\ edit[e] \in EditRows /\ edit[e].stage = "written" /\ Ends(e)
      /\ stored' = [stored EXCEPT ![k] = [value |-> edit[e].value, version |-> edit[e].version]]
      /\ trail' = [trail EXCEPT ![k] = @ \cup
                         {[before |-> edit[e].previous, after |-> edit[e].value,
                           version |-> edit[e].version]}]
  BY DEF CommitEdit, InStep, Editing, SettingsInv, SettingsTyped, Ends
<1>2. /\ k \in Keys /\ edit[e].value \in Values(k)
      /\ edit[e].version = stored[k].version + 1 /\ edit[e].previous = stored[k].value
  BY <1>1 DEF SettingsInv, WriteSound, EditRows
<1>3. /\ edit[e].value \in AllValues /\ stored[k].value \in AllValues \cup {NoValue}
      /\ stored[k].version \in Nat
  BY <1>1, <1>2 DEF SettingsInv, SettingsTyped, StoredRows, EditRows
<1>4. row \in TrailRows /\ [value |-> edit[e].value, version |-> edit[e].version] \in StoredRows
  BY <1>2, <1>3 DEF TrailRows, StoredRows
<1>5. trail' = [trail EXCEPT ![k] = @ \cup {row}] BY <1>1, <1>2
<1>6. stored' \in [Keys -> StoredRows] /\ stored'[k].value = edit[e].value
      /\ stored'[k].version = stored[k].version + 1
      /\ \A o \in Keys \ {k} : stored'[o] = stored[o]
  BY <1>1, <1>2, <1>4 DEF SettingsInv, SettingsTyped
<1> HIDE DEF row
<1>7. trail' \in [Keys -> SUBSET TrailRows] /\ trail'[k] = trail[k] \cup {row}
      /\ \A o \in Keys \ {k} : trail'[o] = trail[o]
  BY <1>2, <1>4, <1>5 DEF SettingsInv, SettingsTyped
<1> QED BY <1>1, <1>2, <1>4, <1>6, <1>7 DEF row

\* The audit rows of one key of n versions, the last of which left value x.
ChainOf(added, n, x) ==
    /\ {a.version : a \in added} = 1..n
    /\ Cardinality(added) = n
    /\ \A a \in added :
           /\ a.version = 1 => a.before = NoValue
           /\ a.version = n => a.after = x
           /\ \A b \in added : b.version = a.version + 1 => b.before = a.after

LEMMA TrailChains == TrailIsChain <=> \A k \in Keys : ChainOf(trail[k], stored[k].version, stored[k].value)
BY DEF TrailIsChain, ChainOf

LEMMA ChainGrows ==
    ASSUME NEW old \in SUBSET TrailRows, IsFiniteSet(old), NEW n \in Nat, NEW x,
           n = 0 => x = NoValue, ChainOf(old, n, x),
           NEW row \in TrailRows, row.before = x, row.version = n + 1
    PROVE  IsFiniteSet(old \cup {row}) /\ ChainOf(old \cup {row}, n + 1, row.after)
<1> DEFINE new == old \cup {row}
           y == row.after
<1> USE DEF ChainOf
<1>1. \A a \in old : a.version \in 1..n OBVIOUS
<1>2. row \notin old BY <1>1
<1>3. IsFiniteSet(new) /\ Cardinality(new) = n + 1 BY <1>2, FS_AddElement
<1>4. {a.version : a \in new} = 1..(n + 1)
  <2>1. {a.version : a \in new} = {a.version : a \in old} \cup {n + 1} OBVIOUS
  <2> QED BY <2>1
<1>5. ASSUME NEW a \in new
      PROVE  /\ a.version = 1 => a.before = NoValue
             /\ a.version = n + 1 => a.after = y
             /\ \A b \in new : b.version = a.version + 1 => b.before = a.after
  <2>1. CASE a \in old
    <3>1. a.version \in 1..n /\ a.version # n + 1 BY <1>1, <2>1
    <3>2. \A b \in new : b.version = a.version + 1 => b.before = a.after
      BY <1>1, <2>1, <3>1
    <3> QED BY <2>1, <3>1, <3>2
  <2>2. CASE a = row
    <3>1. \A b \in new : b.version # a.version + 1 BY <1>1, <2>2
    <3> QED BY <2>2, <3>1
  <2> QED BY <2>1, <2>2
<1> QED BY <1>3, <1>4, <1>5

LEMMA CommitKeeps ==
    ASSUME SettingsInv, NEW e \in Editors, CommitEdit(e)
    PROVE  SettingsInv'
<1> DEFINE k == edit[e].key
           row == [before |-> stored[k].value, after |-> edit[e].value,
                   version |-> stored[k].version + 1]
<1>1. /\ Ends(e) /\ Editing(e) /\ edit[e] \in EditRows /\ edit[e].stage = "written"
      /\ k \in Keys /\ edit[e].value \in Values(k) /\ row \in TrailRows
      /\ stored' \in [Keys -> StoredRows] /\ trail' \in [Keys -> SUBSET TrailRows]
      /\ stored'[k].value = edit[e].value /\ stored'[k].version = stored[k].version + 1
      /\ trail'[k] = trail[k] \cup {row}
      /\ \A o \in Keys \ {k} : stored'[o] = stored[o] /\ trail'[o] = trail[o]
  BY CommitStores
<1>2. row.before = stored[k].value /\ row.after = edit[e].value /\ row.version = stored[k].version + 1
  OBVIOUS
<1> HIDE DEF row
<1>3. SettingsTyped' BY <1>1, EndFrees DEF SettingsInv, SettingsTyped
<1>4. /\ PairSound(e) /\ WriteSound(e) /\ SettingRowSound(k) /\ stored[k].version \in Nat
      /\ trail[k] \in SUBSET TrailRows
  BY <1>1 DEF SettingsInv, SettingsTyped, StoredRows
\* Whoever else is past its check works on another key, and a policy key has one writer.
<1>5. ASSUME NEW f \in Editors PROVE PairSound(f)' /\ WriteSound(f)'
  <2>1. CASE f = e BY <2>1, EndFrees, <1>1 DEF PairSound, WriteSound, Editing
  <2>2. CASE f # e
    <3> SUFFICES ASSUME Editing(f) PROVE PairSound(f)' /\ WriteSound(f)'
      BY <1>1, <2>2, EndFrees DEF PairSound, WriteSound, Editing
    <3>1. /\ edit'[f] = edit[f] /\ edit[f].key \in Keys /\ PairSound(f) /\ WriteSound(f)
          /\ advisory = f => advisory' = f
          /\ \A o \in Keys : rowLock[o] = f => rowLock'[o] = f
      BY <1>1, <2>2, EndFrees DEF SettingsInv, SettingsTyped, Editing, EditRows
    <3>2. PairSound(f)'
      <4> SUFFICES ASSUME edit[f].key \in PolicyKeys, edit[f].stage # "lock" PROVE PairSound(f)'
        BY <3>1 DEF PairSound, Editing
      <4>1. advisory = f BY <3>1 DEF PairSound
      <4>2. k \notin PolicyKeys BY <1>1, <1>4, <2>2, <4>1 DEF PairSound
      <4>3. Effective("switch")' = Effective("switch") /\ Effective("networks")' = Effective("networks")
        BY <1>1, <4>2, KeyNames DEF Effective
      <4> QED BY <3>1, <4>3 DEF PairSound, Editing
    <3>3. WriteSound(f)'
      <4>1. CASE edit[f].key # k BY <1>1, <3>1, <4>1 DEF WriteSound
      <4>2. CASE edit[f].key = k
        <5>1. rowLock[k] = e BY <1>1, <1>4 DEF WriteSound
        <5>2. edit[f].stage # "written" BY <2>2, <3>1, <4>2, <5>1 DEF WriteSound
        <5> QED BY <1>1, <1>4, <3>1, <4>2, <5>2 DEF WriteSound
      <4> QED BY <4>1, <4>2
    <3> QED BY <3>2, <3>3
  <2> QED BY <2>1, <2>2
<1>6. IsFiniteSet(trail'[k]) /\ ChainOf(trail'[k], stored'[k].version, stored'[k].value)
  <2>1. IsFiniteSet(trail[k]) /\ (stored[k].version = 0 => stored[k].value = NoValue)
    BY <1>4 DEF SettingRowSound
  <2>2. ChainOf(trail[k], stored[k].version, stored[k].value)
    BY <1>1, TrailChains DEF SettingsInv
  <2>3. /\ trail'[k] = trail[k] \cup {row} /\ row \in TrailRows
        /\ stored'[k].version = stored[k].version + 1 /\ stored'[k].value = row.after
    BY <1>1, <1>2
  <2>4. /\ IsFiniteSet(trail[k] \cup {row})
        /\ ChainOf(trail[k] \cup {row}, stored[k].version + 1, row.after)
    BY <1>2, <1>4, <2>1, <2>2, <2>3, ChainGrows
  <2> QED BY <2>3, <2>4
<1>7. TrailIsChain'
  <2>1. \A o \in Keys : ChainOf(trail'[o], stored'[o].version, stored'[o].value)
    BY <1>1, <1>6, TrailChains DEF SettingsInv
  <2> QED BY <2>1 DEF TrailIsChain, ChainOf
<1>8. ASSUME NEW o \in Keys PROVE SettingRowSound(o)'
  <2>1. CASE o = k
    <3>1. stored'[k].version # 0 /\ stored'[k].value # NoValue
      BY <1>1, <1>4, SettingsAssumption
    <3> QED BY <1>6, <2>1, <3>1 DEF SettingRowSound
  <2>2. CASE o # k BY <1>1, <2>2 DEF SettingsInv, SettingRowSound
  <2> QED BY <2>1, <2>2
<1>9. PolicyStaysLoadable'
  <2>1. CASE k \notin PolicyKeys
    BY <1>1, <2>1, KeyNames DEF SettingsInv, PolicyStaysLoadable, Effective
  <2>2. CASE k = "switch"
    <3>1. Effective("switch")' = edit[e].value /\ Effective("networks")' = Effective("networks")
      BY <1>1, <1>4, <2>2, KeyNames DEF Effective
    <3> QED BY <1>1, <1>4, <2>2, <3>1, KeyNames DEF PairSound, PolicyStaysLoadable
  <2>3. CASE k = "networks"
    <3>1. Effective("networks")' = edit[e].value /\ Effective("switch")' = Effective("switch")
      BY <1>1, <1>4, <2>3, KeyNames DEF Effective
    <3> QED BY <1>1, <1>4, <2>3, <3>1, KeyNames DEF PairSound, PolicyStaysLoadable
  <2> QED BY <2>1, <2>2, <2>3, KeyNames
<1> QED BY <1>3, <1>5, <1>7, <1>8, <1>9, <1>1, EndFrees DEF SettingsInv

LEMMA SettingsStep ==
    ASSUME SettingsInv, [SettingsNext]_settingVars
    PROVE  SettingsInv'
<1>1. ASSUME NEW e \in Editors, AbortEdit(e) PROVE SettingsInv'
  BY <1>1, EndKeeps DEF AbortEdit, Ends
<1>2. ASSUME UNCHANGED settingVars PROVE SettingsInv'
  BY <1>2 DEF settingVars, SettingsInv, SettingsTyped, LocksHeld, PairSound, WriteSound, SettingRowSound,
     Editing, Effective, PolicyStaysLoadable, TrailIsChain
<1> QED BY <1>1, <1>2, BeginEditKeeps, TakeAdvisoryLockKeeps, CheckPairKeeps, InsertSettingKeeps,
           LockSettingKeeps, CommitKeeps DEF SettingsNext

\* The stored network policy can always be loaded and the audit rows of every
\* key form a chain, however many administrators write (system/service.py).
THEOREM SettingsAlwaysSound == SettingsSpec => []SettingsSound
<1>1. SettingsInv => SettingsSound
  <2> SUFFICES ASSUME SettingsInv PROVE SettingsTypeOK
    BY DEF SettingsInv, SettingsSound
  <2> QED BY DEF SettingsInv, SettingsTyped, SettingsTypeOK, LocksHeld, SettingRowSound, StoredRows, InStep,
             Editing
<1> QED BY <1>1, SettingsStart, SettingsStep, PTL DEF SettingsSpec

-----------------------------------------------------------------------------
(* The limiter.                                                            *)

CounterRows == [count : Nat, left : {Endless} \cup 1..Lifetime]

LimitTyped ==
    /\ current \in 0..MaxWindow
    /\ counter \in [0..MaxWindow -> CounterRows]
    /\ call \in [Calls -> CallRows \cup {NotCalled}]

Called(c) == call[c] # NotCalled
Counts(c, w) == Called(c) /\ call[c].window = w /\ call[c].count > 0

\* A call still to count is of this window or of the one before.
CallSound(c) ==
    Called(c) =>
        /\ call[c].window <= current
        /\ call[c].stage = "timed" => current <= call[c].window + 1 /\ call[c].count = 0
        /\ call[c].stage \in {"counted", "admitted", "refused"} => call[c].count > 0
        /\ call[c].stage = "admitted" => call[c].count <= Limit
        /\ call[c].stage = "refused" => call[c].count > Limit
        /\ call[c].stage \in {"admitted", "refused"} /\ counter[call[c].window].count > 0 =>
               counter[call[c].window].left # Endless

\* A counter outlives the calls of its window that have still to count.
LivesLong(w) == counter[w].left # Endless => w + Lifetime <= counter[w].left + current

\* The calls of a window were given 1, 2, 3 and so on, one number each; while
\* they may still come the counter holds the last.
Numbered(w) ==
    /\ \A c, d \in Calls : Counts(c, w) /\ Counts(d, w) /\ call[c].count = call[d].count => c = d
    /\ \A c \in Calls : Counts(c, w) =>
           /\ \A j \in 1..call[c].count : \E d \in Calls : Counts(d, w) /\ call[d].count = j
           /\ current <= w + 1 => call[c].count <= counter[w].count
    /\ current <= w + 1 =>
           \A j \in 1..counter[w].count : \E d \in Calls : Counts(d, w) /\ call[d].count = j

LimitInv ==
    /\ LimitTyped
    /\ \A c \in Calls : CallSound(c)
    /\ \A w \in 0..MaxWindow : LivesLong(w) /\ Numbered(w)

LEMMA LimitStart == LimitInit => LimitInv
BY RateLimitAssumption DEF LimitInit, LimitInv, LimitTyped, CounterRows, CallSound, Called, LivesLong,
   Numbered, Counts, Endless

LEMMA ReadClockKeeps ==
    ASSUME LimitInv, NEW c \in Calls, ReadClock(c)
    PROVE  LimitInv'
<1> DEFINE row == [window |-> current, count |-> 0, stage |-> "timed"]
<1>1. row \in CallRows /\ row # NotCalled
  BY RateLimitAssumption DEF CallRows, LimitInv, LimitTyped
<1>2. /\ call[c] = NotCalled /\ call'[c] = row /\ UNCHANGED <<current, counter>>
      /\ \A d \in Calls \ {c} : call'[d] = call[d]
      /\ call' \in [Calls -> CallRows \cup {NotCalled}]
  BY <1>1 DEF ReadClock, LimitInv, LimitTyped
<1>3. LimitTyped' BY <1>2 DEF LimitInv, LimitTyped
<1>4. \A d \in Calls, w \in 0..MaxWindow : Counts(d, w)' <=> Counts(d, w)
  BY <1>2 DEF Counts, Called
<1>5. \A d \in Calls, w \in 0..MaxWindow : Counts(d, w) => call'[d].count = call[d].count
  BY <1>2 DEF Counts, Called
<1>6. \A w \in 0..MaxWindow : LivesLong(w)' /\ Numbered(w)'
  BY <1>2, <1>4, <1>5 DEF LimitInv, LivesLong, Numbered
<1>7. current \in Nat BY DEF LimitInv, LimitTyped
<1>8. ASSUME NEW d \in Calls PROVE CallSound(d)'
  BY <1>2, <1>7 DEF LimitInv, CallSound, Called
<1> QED BY <1>3, <1>6, <1>8 DEF LimitInv

LEMMA IncrementKeeps ==
    ASSUME LimitInv, NEW c \in Calls, Increment(c)
    PROVE  LimitInv'
<1> USE RateLimitAssumption
<1>a. call[c].window \in 0..MaxWindow /\ counter[call[c].window].count + 1 \in Nat \ {0}
  BY DEF Increment, LimitInv, LimitTyped, CallRows, CounterRows
<1>b. PICK w \in 0..MaxWindow, n \in Nat \ {0} :
          w = call[c].window /\ n = counter[w].count + 1
  BY <1>a
<1>1. /\ Called(c) /\ call[c] \in CallRows /\ call[c].stage = "timed" /\ current' = current
      /\ w \in 0..MaxWindow /\ counter[w] \in CounterRows /\ n \in Nat \ {0}
      /\ counter[w].count = n - 1 /\ CallSound(c)
  BY <1>b DEF Increment, Called, LimitInv, LimitTyped, CallRows, CounterRows
<1>2. /\ call' = [call EXCEPT ![c].count = n, ![c].stage = "counted"]
      /\ counter' = [counter EXCEPT ![w].count = n]
  BY <1>1, <1>b DEF Increment, KeyOf, LimitInv, LimitTyped
<1>3. /\ call'[c] \in CallRows /\ call'[c].window = w /\ call'[c].count = n
      /\ call'[c].stage = "counted" /\ call'[c] # NotCalled
      /\ \A d \in Calls \ {c} : call'[d] = call[d]
  BY <1>1, <1>2, <1>b DEF LimitInv, LimitTyped, CallRows
<1>4. /\ counter'[w].count = n /\ counter'[w].left = counter[w].left /\ counter'[w] \in CounterRows
      /\ \A v \in (0..MaxWindow) \ {w} : counter'[v] = counter[v]
  BY <1>1, <1>2 DEF LimitInv, LimitTyped, CounterRows
<1>5. LimitTyped'
  BY <1>1, <1>2, <1>3, <1>4 DEF LimitInv, LimitTyped
<1>6. current <= w + 1 /\ call[c].count = 0 BY <1>1, <1>b DEF CallSound
<1>7. ASSUME NEW d \in Calls PROVE CallSound(d)'
  <2>1. CASE d = c BY <1>1, <1>b, <1>3, <2>1 DEF CallSound, Called
  <2>2. CASE d # c
    <3> SUFFICES ASSUME Called(d) PROVE CallSound(d)'
      BY <1>3, <2>2 DEF CallSound, Called
    <3>1. CallSound(d) /\ call'[d] = call[d] /\ call[d].window \in 0..MaxWindow /\ call[d].count \in Nat
      BY <1>3, <2>2 DEF LimitInv, LimitTyped, Called, CallRows
    <3>2. CASE call[d].window # w BY <1>1, <1>4, <3>1, <3>2 DEF CallSound, Called
    <3>3. CASE call[d].window = w
      <4>1. call[d].stage \in {"admitted", "refused"} => counter[w].count > 0
        <5> SUFFICES ASSUME call[d].stage \in {"admitted", "refused"} PROVE counter[w].count > 0
          OBVIOUS
        <5>1. Counts(d, w) BY <3>1, <3>3 DEF Counts, CallSound
        <5>2. call[d].count <= counter[w].count BY <1>1, <1>6, <5>1 DEF LimitInv, Numbered
        <5> QED BY <1>1, <3>1, <5>1, <5>2 DEF Counts
      <4> QED BY <1>1, <1>4, <3>1, <3>3, <4>1 DEF CallSound, Called
    <3> QED BY <3>2, <3>3
  <2> QED BY <2>1, <2>2
<1>8. ASSUME NEW v \in 0..MaxWindow PROVE LivesLong(v)'
  BY <1>1, <1>4 DEF LimitInv, LivesLong
<1>9. ASSUME NEW d \in Calls, NEW v \in 0..MaxWindow
      PROVE  /\ d # c => (Counts(d, v)' <=> Counts(d, v)) /\ call'[d] = call[d]
             /\ Counts(c, v)' <=> v = w
             /\ ~Counts(c, v)
  BY <1>1, <1>b, <1>3, <1>6 DEF Counts, Called
<1>10. ASSUME NEW v \in 0..MaxWindow PROVE Numbered(v)'
  <2>1. CASE v # w BY <1>1, <1>4, <1>9, <2>1 DEF LimitInv, Numbered
  <2>2. CASE v = w
    <3>1. \A d \in Calls : Counts(d, w) => call[d].count \in 1..(n - 1)
      BY <1>1, <1>6 DEF LimitInv, LimitTyped, Numbered, Counts, Called, CallRows
    <3>2. \A j \in 1..(n - 1) : \E d \in Calls : Counts(d, w) /\ call[d].count = j
      BY <1>1, <1>6 DEF LimitInv, Numbered
    <3>3. \A j \in 1..n : \E d \in Calls : Counts(d, w)' /\ call'[d].count = j
      <4> TAKE j \in 1..n
      <4>1. CASE j = n BY <1>1, <1>3, <1>9, <4>1
      <4>2. CASE j # n
        <5>1. PICK d \in Calls : Counts(d, w) /\ call[d].count = j BY <1>1, <3>2, <4>2
        <5>2. d # c BY <1>1, <1>9, <5>1
        <5> QED BY <1>1, <1>9, <5>1, <5>2
      <4> QED BY <4>1, <4>2
    <3>4. \A d \in Calls : Counts(d, w)' => call'[d].count \in 1..n
      <4> TAKE d \in Calls
      <4>1. CASE d = c BY <1>1, <1>3, <4>1
      <4>2. CASE d # c BY <1>1, <1>9, <3>1, <4>2
      <4> QED BY <4>1, <4>2
    <3>5. \A d, e \in Calls : Counts(d, w)' /\ Counts(e, w)' /\ call'[d].count = call'[e].count => d = e
      <4> TAKE d, e \in Calls
      <4>1. CASE d # c /\ e # c BY <1>1, <1>9, <4>1 DEF LimitInv, Numbered
      <4>2. CASE d = c \/ e = c BY <1>1, <1>3, <1>9, <3>1, <4>2
      <4> QED BY <4>1, <4>2
    <3> QED BY <1>1, <1>4, <2>2, <3>3, <3>4, <3>5 DEF Numbered
  <2> QED BY <2>1, <2>2
<1> QED BY <1>5, <1>7, <1>8, <1>10 DEF LimitInv

\* A call that only changes its stage keeps its number.
LEMMA StageKeeps ==
    ASSUME LimitInv, NEW c \in Calls, Called(c),
           call'[c] \in CallRows, call'[c].window = call[c].window, call'[c].count = call[c].count,
           \A d \in Calls \ {c} : call'[d] = call[d],
           UNCHANGED current, \A w \in 0..MaxWindow : counter'[w].count = counter[w].count
    PROVE  \A w \in 0..MaxWindow : Numbered(w)'
<1>1. call'[c] # NotCalled BY RateLimitAssumption
<1>2. \A d \in Calls, w \in 0..MaxWindow : (Counts(d, w)' <=> Counts(d, w))
  BY <1>1 DEF Counts, Called
<1>3. \A d \in Calls : call'[d].count = call[d].count OBVIOUS
<1> QED BY <1>2, <1>3 DEF LimitInv, Numbered

LEMMA SetExpiryKeeps ==
    ASSUME LimitInv, NEW c \in Calls, SetExpiry(c)
    PROVE  LimitInv'
<1> USE RateLimitAssumption
<1>a. call[c].window \in 0..MaxWindow BY DEF SetExpiry, LimitInv, LimitTyped, CallRows
<1>b. PICK w \in 0..MaxWindow : w = call[c].window BY <1>a
<1>1. /\ Called(c) /\ call[c] \in CallRows /\ call[c].stage = "counted" /\ current' = current
      /\ counter[w] \in CounterRows /\ CallSound(c) /\ LivesLong(w) /\ current \in Nat
  BY <1>b DEF SetExpiry, Called, LimitInv, LimitTyped
<1>2. counter' = IF counter[w].count > 0 /\ counter[w].left = Endless
                 THEN [counter EXCEPT ![w].left = Lifetime] ELSE counter
  BY <1>b DEF SetExpiry, KeyOf
<1>3. /\ counter' \in [0..MaxWindow -> CounterRows]
      /\ \A v \in 0..MaxWindow : counter'[v].count = counter[v].count
      /\ \A v \in (0..MaxWindow) \ {w} : counter'[v] = counter[v]
      /\ counter'[w].left \in {counter[w].left, Lifetime}
      /\ counter[w].left # Endless => counter'[w].left # Endless
      /\ counter[w].count > 0 => counter'[w].left # Endless
  BY <1>1, <1>2 DEF LimitInv, LimitTyped, CounterRows, Lifetime, Endless
<1>4. /\ call'[c] \in CallRows /\ call'[c].window = call[c].window /\ call'[c].count = call[c].count
      /\ call'[c].stage = (IF call[c].count > Limit THEN "refused" ELSE "admitted")
      /\ \A d \in Calls \ {c} : call'[d] = call[d]
      /\ call' \in [Calls -> CallRows \cup {NotCalled}]
  BY <1>1 DEF SetExpiry, LimitInv, LimitTyped, CallRows
<1>5. LimitTyped' BY <1>1, <1>3, <1>4 DEF LimitInv, LimitTyped
<1>6. ASSUME NEW d \in Calls PROVE CallSound(d)'
  <2>1. CASE d = c
    <3>1. call[c].count \in Nat /\ call[c].count > 0 BY <1>1 DEF CallSound, CallRows
    <3> QED BY <1>1, <1>b, <1>3, <1>4, <2>1, <3>1 DEF CallSound, Called
  <2>2. CASE d # c
    <3> SUFFICES ASSUME Called(d) PROVE CallSound(d)' BY <1>4, <2>2 DEF CallSound, Called
    <3>1. CallSound(d) /\ call'[d] = call[d] /\ call[d].window \in 0..MaxWindow
      BY <1>4, <2>2 DEF LimitInv, LimitTyped, Called, CallRows
    <3> QED BY <1>1, <1>3, <3>1 DEF CallSound, Called
  <2> QED BY <2>1, <2>2
\* The first to set it runs in this window or later, so it lives long enough.
<1>7. ASSUME NEW v \in 0..MaxWindow PROVE LivesLong(v)'
  <2>1. CASE v = w
    <3>1. w <= current BY <1>1, <1>b DEF CallSound
    <3> QED BY <1>1, <1>3, <2>1, <3>1 DEF LivesLong, Lifetime
  <2>2. CASE v # w BY <1>1, <1>3, <2>2 DEF LimitInv, LivesLong
  <2> QED BY <2>1, <2>2
<1>8. \A v \in 0..MaxWindow : Numbered(v)' BY <1>1, <1>3, <1>4, StageKeeps
<1> QED BY <1>5, <1>6, <1>7, <1>8 DEF LimitInv

LEMMA CallDiesKeeps ==
    ASSUME LimitInv, NEW c \in Calls, CallDies(c)
    PROVE  LimitInv'
<1>1. Called(c) /\ call[c] \in CallRows /\ UNCHANGED <<current, counter>> /\ CallSound(c)
  BY DEF CallDies, Called, LimitInv, LimitTyped
<1>2. /\ call'[c] \in CallRows /\ call'[c].window = call[c].window /\ call'[c].count = call[c].count
      /\ call'[c].stage = "dead" /\ \A d \in Calls \ {c} : call'[d] = call[d]
      /\ call' \in [Calls -> CallRows \cup {NotCalled}]
  BY <1>1 DEF CallDies, LimitInv, LimitTyped, CallRows
<1>3. LimitTyped' BY <1>1, <1>2 DEF LimitInv, LimitTyped
<1>4. ASSUME NEW d \in Calls PROVE CallSound(d)'
  <2>1. CASE d = c BY <1>1, <1>2, <2>1 DEF CallSound, Called
  <2>2. CASE d # c BY <1>1, <1>2, <2>2 DEF LimitInv, CallSound, Called
  <2> QED BY <2>1, <2>2
<1>5. \A v \in 0..MaxWindow : LivesLong(v)' BY <1>1 DEF LimitInv, LivesLong
<1>6. \A v \in 0..MaxWindow : Numbered(v)' BY <1>1, <1>2, StageKeeps
<1> QED BY <1>3, <1>4, <1>5, <1>6 DEF LimitInv

\* A window later a counter is the same, a window nearer its end, or gone.
LEMMA WindowLater ==
    ASSUME LimitInv, NextWindow, NEW w \in 0..MaxWindow
    PROVE  /\ counter'[w] \in CounterRows
           /\ \/ counter'[w] = counter[w] /\ counter[w].left = Endless
              \/ /\ counter[w].left = 1 /\ counter'[w].count = 0 /\ counter'[w].left = Endless
              \/ /\ counter[w].left = 2 /\ counter'[w].left = 1
                 /\ counter'[w].count = counter[w].count
<1>1. counter[w] \in CounterRows BY DEF LimitInv, LimitTyped
<1>2. counter'[w] = CASE counter[w].left = Endless -> counter[w]
                      [] counter[w].left = 1 -> [count |-> 0, left |-> Endless]
                      [] OTHER -> [counter[w] EXCEPT !.left = @ - 1]
  BY DEF NextWindow
<1>3. CASE counter[w].left = Endless
  <2>1. counter'[w] = counter[w] BY <1>2, <1>3 DEF Endless
  <2> QED BY <1>1, <1>3, <2>1
<1>4. CASE counter[w].left = 1
  <2>1. counter'[w] = [count |-> 0, left |-> Endless] BY <1>2, <1>4 DEF Endless
  <2> QED BY <1>4, <2>1 DEF CounterRows
<1>5. CASE counter[w].left = 2
  <2>1. counter'[w] = [counter[w] EXCEPT !.left = 1] BY <1>2, <1>5 DEF Endless
  <2> QED BY <1>1, <1>5, <2>1 DEF CounterRows, Lifetime
<1> QED BY <1>1, <1>3, <1>4, <1>5 DEF CounterRows, Lifetime

LEMMA NextWindowKeeps ==
    ASSUME LimitInv, NextWindow
    PROVE  LimitInv'
<1>1. /\ current \in Nat /\ current < MaxWindow /\ current' = current + 1 /\ UNCHANGED call
      /\ \A c \in Calls : Called(c) /\ call[c].stage = "timed" => call[c].window = current
      /\ DOMAIN counter' = 0..MaxWindow /\ counter' = [w \in 0..MaxWindow |-> counter'[w]]
  BY DEF NextWindow, Called, LimitInv, LimitTyped
<1>2. LimitTyped' BY <1>1, WindowLater, RateLimitAssumption DEF LimitInv, LimitTyped
<1>3. ASSUME NEW c \in Calls PROVE CallSound(c)'
  <2> SUFFICES ASSUME Called(c) PROVE CallSound(c)' BY <1>1 DEF CallSound, Called
  <2>1. CallSound(c) /\ call[c].window \in 0..MaxWindow
    BY DEF LimitInv, LimitTyped, Called, CallRows
  <2> QED BY <1>1, <2>1, WindowLater DEF CallSound, Called, Endless
<1>4. ASSUME NEW w \in 0..MaxWindow PROVE LivesLong(w)'
  <2>1. LivesLong(w) BY DEF LimitInv
  <2> QED BY <1>1, <2>1, WindowLater DEF LivesLong, Endless, Lifetime
<1>5. ASSUME NEW w \in 0..MaxWindow PROVE Numbered(w)'
  <2>1. current' <= w + 1 => current <= w + 1 /\ counter'[w].count = counter[w].count
    <3>1. LivesLong(w) BY DEF LimitInv
    <3> QED BY <1>1, <3>1, WindowLater DEF LivesLong, Endless, Lifetime
  <2>2. \A d \in Calls : Counts(d, w)' <=> Counts(d, w) BY <1>1 DEF Counts, Called
  <2> QED BY <1>1, <2>1, <2>2 DEF LimitInv, Numbered
<1> QED BY <1>2, <1>3, <1>4, <1>5 DEF LimitInv

LEMMA LimitStep ==
    ASSUME LimitInv, [LimitNext]_limitVars
    PROVE  LimitInv'
<1>1. ASSUME UNCHANGED limitVars PROVE LimitInv'
  BY <1>1 DEF limitVars, LimitInv, LimitTyped, CallSound, Called, LivesLong, Numbered, Counts
<1> QED BY <1>1, ReadClockKeeps, IncrementKeeps, SetExpiryKeeps, CallDiesKeeps, NextWindowKeeps
           DEF LimitNext

\* Those admitted have different numbers, none above the limit.
LEMMA AdmittedFew == LimitInv => WindowBounded
<1> SUFFICES ASSUME LimitInv, NEW w \in 0..MaxWindow
             PROVE  Cardinality(Ended(w, "admitted")) <= Limit
  BY DEF WindowBounded
<1> DEFINE S == Ended(w, "admitted")
           f == [c \in S |-> call[c].count]
<1>1. \A c \in S : c \in Calls /\ Counts(c, w) /\ call[c].count \in 1..Limit
  BY RateLimitAssumption DEF Ended, CallsOf, Counts, Called, LimitInv, LimitTyped, CallRows, CallSound
<1>2. \A c, d \in S : f[c] = f[d] => c = d BY <1>1 DEF LimitInv, Numbered
<1>3. f \in [S -> 1..Limit] BY <1>1
<1>4. f \in Injection(S, 1..Limit) BY <1>2, <1>3 DEF Injection, IsInjective
<1>5. IsFiniteSet(1..Limit) /\ Cardinality(1..Limit) = Limit
  BY FS_Interval, RateLimitAssumption
<1> QED BY <1>4, <1>5, FS_Injection

\* Whoever is refused leaves a call behind for every number below its own.
LEMMA RefusedLate == LimitInv => RefusalIsEarned
<1> SUFFICES ASSUME LimitInv, NEW w \in 0..MaxWindow, NEW c \in Ended(w, "refused")
             PROVE  Cardinality({d \in CallsOf(w) : call[d].count > 0}) > Limit
  BY DEF RefusalIsEarned
<1> DEFINE T == {d \in CallsOf(w) : call[d].count > 0}
           f == [j \in 1..(Limit + 1) |-> CHOOSE d \in T : call[d].count = j]
<1>1. c \in Calls /\ Counts(c, w) /\ call[c].count \in Nat /\ call[c].count > Limit
  BY RateLimitAssumption DEF Ended, CallsOf, Counts, Called, LimitInv, LimitTyped, CallRows, CallSound
<1>2. \A j \in 1..(Limit + 1) : \E d \in T : call[d].count = j
  <2> TAKE j \in 1..(Limit + 1)
  <2>1. j \in 1..call[c].count BY <1>1, RateLimitAssumption
  <2>2. PICK d \in Calls : Counts(d, w) /\ call[d].count = j BY <1>1, <2>1 DEF LimitInv, Numbered
  <2> QED BY <2>2 DEF CallsOf, Counts, Called
<1>3. \A j \in 1..(Limit + 1) : f[j] \in T /\ call[f[j]].count = j BY <1>2
<1>4. f \in Injection(1..(Limit + 1), T)
  <2>1. f \in [1..(Limit + 1) -> T] BY <1>3
  <2> HIDE DEF f
  <2> QED BY <1>3, <2>1 DEF Injection, IsInjective
<1>5. IsFiniteSet(T)
  <2>1. T \in SUBSET Calls BY DEF CallsOf
  <2> QED BY <2>1, FS_Subset, RateLimitAssumption
<1>6. Cardinality(1..(Limit + 1)) = Limit + 1 BY FS_Interval, RateLimitAssumption
<1>7. Cardinality(T) \in Nat BY <1>5, FS_CardinalityType
<1> HIDE DEF T, f
<1>8. Limit + 1 <= Cardinality(T) BY <1>4, <1>5, <1>6, FS_Injection
<1> QED BY <1>7, <1>8, RateLimitAssumption DEF T

\* No window admits more than the limit, and nobody is refused before it is
\* reached, for every number of calls and whoever dies on the way
\* (integrations/rate_limit.py).
THEOREM LimitAlwaysSound == LimitSpec => []LimitSound
<1>1. LimitInv => LimitTypeOK
  BY DEF LimitInv, LimitTyped, LimitTypeOK, CounterRows, CallRows, CallSound, Called, KeyOf
<1>2. LimitInv => LimitSound BY <1>1, AdmittedFew, RefusedLate DEF LimitSound
<1> QED BY <1>2, LimitStart, LimitStep, PTL DEF LimitSpec

-----------------------------------------------------------------------------
(* Admission.  What every endpoint of every router has in common.          *)

Gates == {"none", "actor", "active", "active_student", "approved_student", "community",
          "approved_community", "browsing_student", "not_pending", "staff", "management",
          "reward_review", "admin", "student_or_management"}

\* An endpoint that lets somebody do something has a gate that asks for it, and
\* the two ways back in have no network guard.
Declared(r) ==
    /\ r.gate \in Gates /\ r.net \in BOOLEAN
    /\ r.act \in {"open", "self", "own", "look", "work", "enrol", "teach", "govern", "repair"}
    /\ r.gate = "none" => r.act = "open"
    /\ r.gate # "admin" => r.net = FALSE
    /\ r.gate = "actor" => r.act = "self"
    /\ r.gate \in {"active", "active_student", "community", "browsing_student", "not_pending"} =>
           r.act \in {"own", "look"}
    /\ r.act \in {"teach", "govern", "repair"} => r.gate \in {"management", "reward_review", "admin"}
    /\ r.act \in {"govern", "repair"} => r.gate = "admin"
    /\ r.act = "enrol" => r.gate = "staff"
    /\ r.act \in {"enrol", "repair"} => r.net = FALSE

AllDeclared(router) == \A r \in router : Declared(r)

LEMMA DeclaredAll ==
    ASSUME NEW names, NEW gate, NEW act, Declared([gate |-> gate, net |-> FALSE, act |-> act])
    PROVE  AllDeclared(All(names, gate, act))
<1> DEFINE q == [gate |-> gate, net |-> FALSE, act |-> act]
<1>1. q.gate = gate /\ q.net = FALSE /\ q.act = act /\ Declared(q) OBVIOUS
<1> HIDE DEF q
<1> SUFFICES ASSUME NEW r \in All(names, gate, act) PROVE Declared(r) BY DEF AllDeclared
<1>2. r.gate = gate /\ r.net = FALSE /\ r.act = act BY DEF All
<1> QED BY <1>1, <1>2 DEF Declared

LEMMA DeclaredGuarded ==
    ASSUME NEW names, NEW act, Declared([gate |-> "admin", net |-> TRUE, act |-> act])
    PROVE  AllDeclared(Guarded(names, act))
<1> DEFINE q == [gate |-> "admin", net |-> TRUE, act |-> act]
<1>1. q.gate = "admin" /\ q.net = TRUE /\ q.act = act /\ Declared(q) OBVIOUS
<1> HIDE DEF q
<1> SUFFICES ASSUME NEW r \in Guarded(names, act) PROVE Declared(r) BY DEF AllDeclared
<1>2. r.gate = "admin" /\ r.net = TRUE /\ r.act = act BY DEF Guarded
<1> QED BY <1>1, <1>2 DEF Declared

LEMMA DeclaredUnion ==
    ASSUME NEW f, NEW g, AllDeclared(f), AllDeclared(g)
    PROVE  AllDeclared(f \cup g)
BY DEF AllDeclared

LEMMA RoutersDeclared == \A router \in Routers : AllDeclared(router)
<1> DEFINE Ok(gate, act) == Declared([gate |-> gate, net |-> FALSE, act |-> act])
<1>1. /\ Ok("active", "look")
      /\ Ok("active", "own")
      /\ Ok("active_student", "look")
      /\ Ok("actor", "self")
      /\ Ok("admin", "govern")
      /\ Ok("admin", "repair")
      /\ Ok("approved_community", "work")
      /\ Ok("approved_student", "work")
      /\ Ok("browsing_student", "look")
      /\ Ok("browsing_student", "own")
      /\ Ok("community", "look")
      /\ Ok("management", "teach")
      /\ Ok("none", "open")
      /\ Ok("not_pending", "own")
      /\ Ok("reward_review", "teach")
      /\ Ok("staff", "enrol")
      /\ Ok("staff", "own")
      /\ Ok("student_or_management", "work")
  BY DEF Declared, Gates
<1>2. Declared([gate |-> "admin", net |-> TRUE, act |-> "govern"])
  BY DEF Declared, Gates
<1>3. /\ AllDeclared(CommentRoutes)
      /\ AllDeclared(FeedbackRoutes)
      /\ AllDeclared(ModerationRoutes)
      /\ AllDeclared(IdentityRevealRoutes)
      /\ AllDeclared(UserListRoutes)
      /\ AllDeclared(UserPowerRoutes)
  BY <1>1, <1>2, DeclaredAll, DeclaredGuarded, DeclaredUnion
     DEF CommentRoutes, FeedbackRoutes, ModerationRoutes, IdentityRevealRoutes, UserListRoutes, UserPowerRoutes
<1>4. /\ AllDeclared(ApprovalRoutes)
      /\ AllDeclared(InvitationRoutes)
      /\ AllDeclared(RegistrationRoutes)
      /\ AllDeclared(LoginRoutes)
      /\ AllDeclared(SecondStepRoutes)
      /\ AllDeclared(SessionRoutes)
  BY <1>1, <1>2, DeclaredAll, DeclaredGuarded, DeclaredUnion
     DEF ApprovalRoutes, InvitationRoutes, RegistrationRoutes, LoginRoutes, SecondStepRoutes, SessionRoutes
<1>5. /\ AllDeclared(DeviceRoutes)
      /\ AllDeclared(SelfRoutes)
      /\ AllDeclared(ContactRoutes)
      /\ AllDeclared(AvatarRoute)
      /\ AllDeclared(StaffRoutes)
      /\ AllDeclared(TaskRoutes)
  BY <1>1, <1>2, DeclaredAll, DeclaredGuarded, DeclaredUnion
     DEF DeviceRoutes, SelfRoutes, ContactRoutes, AvatarRoute, StaffRoutes, TaskRoutes
<1>6. /\ AllDeclared(PlatformRoutes)
      /\ AllDeclared(ClaimRoutes)
      /\ AllDeclared(TeacherTaskRoutes)
      /\ AllDeclared(TaskStateRoutes)
      /\ AllDeclared(TaskTeamRoutes)
      /\ AllDeclared(UploadRoutes)
  BY <1>1, <1>2, DeclaredAll, DeclaredGuarded, DeclaredUnion
     DEF PlatformRoutes, ClaimRoutes, TeacherTaskRoutes, TaskStateRoutes, TaskTeamRoutes, UploadRoutes
<1>7. /\ AllDeclared(ReviewRoutes)
      /\ AllDeclared(RedeemRoutes)
      /\ AllDeclared(RedemptionRoutes)
      /\ AllDeclared(RewardItemRoutes)
      /\ AllDeclared(RewardGrantRoutes)
      /\ AllDeclared(TemplateRoutes)
  BY <1>1, <1>2, DeclaredAll, DeclaredGuarded, DeclaredUnion
     DEF ReviewRoutes, RedeemRoutes, RedemptionRoutes, RewardItemRoutes, RewardGrantRoutes, TemplateRoutes
<1>8. /\ AllDeclared(RankingRoutes)
      /\ AllDeclared(InboxRoutes)
      /\ AllDeclared(FailureRoute)
      /\ AllDeclared(AuditRoutes)
      /\ AllDeclared(TermRoutes)
      /\ AllDeclared(SettingsRoutes)
  BY <1>1, <1>2, DeclaredAll, DeclaredGuarded, DeclaredUnion
     DEF RankingRoutes, InboxRoutes, FailureRoute, AuditRoutes, TermRoutes, SettingsRoutes
<1>9. /\ AllDeclared(DraftRoutes)
      /\ AllDeclared(AchievementRoutes)
      /\ AllDeclared(EvidenceRoutes)
      /\ AllDeclared(AchievementReviewRoutes)
      /\ AllDeclared(ReviewerRoutes)
      /\ AllDeclared(RecruitmentRoutes)
  BY <1>1, <1>2, DeclaredAll, DeclaredGuarded, DeclaredUnion
     DEF DraftRoutes, AchievementRoutes, EvidenceRoutes, AchievementReviewRoutes, ReviewerRoutes, RecruitmentRoutes
<1>10. /\ AllDeclared(TalentRoutes)
      /\ AllDeclared(TalentFileRoutes)
      /\ AllDeclared(OwnerRoutes)
      /\ AllDeclared(QualificationRoutes)
      /\ AllDeclared(OperationsRoutes)
      /\ AllDeclared(PublicAchievementRoutes)
  BY <1>1, <1>2, DeclaredAll, DeclaredGuarded, DeclaredUnion
     DEF TalentRoutes, TalentFileRoutes, OwnerRoutes, QualificationRoutes, OperationsRoutes, PublicAchievementRoutes
<1>11. /\ AllDeclared(PublicTalentRoutes)
      /\ AllDeclared(PublicRecruitmentRoutes)
  BY <1>1, <1>2, DeclaredAll, DeclaredGuarded, DeclaredUnion
     DEF PublicTalentRoutes, PublicRecruitmentRoutes
<1> QED BY <1>3, <1>4, <1>5, <1>6, <1>7, <1>8, <1>9, <1>10, <1>11 DEF Routers

LEMMA RoutesDeclared == \A r \in Routes : Declared(r)
BY RoutersDeclared DEF Routes, AllDeclared, Declared

Accounts == [role : {"STUDENT", "TEACHER", "ADMIN"}, status : {"PENDING", "ACTIVE", "OFF"},
             totp : BOOLEAN, grant : BOOLEAN, live : BOOLEAN]
Policies == [on : BOOLEAN, nets : SUBSET Networks]
Stages == {"row", "totp", "grant", "switch", "networks", "served", "refused"}
Requests == [route : Routes, address : Addresses, row : Accounts, on : BOOLEAN, stage : Stages]

AccessTyped ==
    /\ caller \in Accounts /\ (IsStaff(caller) => ~Pending(caller))
    /\ policy \in Policies /\ moves \in 0..MaxMoves
    /\ request # NoRequest => request \in Requests /\ caller \in lived /\ policy \in policies

\* What has been read so far: the row that passed the gate, the factor and the
\* switch are of moments since the request arrived.
ReadSound ==
    request # NoRequest =>
        LET gate == request.route.gate
            stage == request.stage
        IN /\ stage # "served" => gate # "none"
           /\ gate # "none" /\ stage \notin {"row", "refused"} =>
                  request.row \in lived /\ RowPasses(gate, request.row)
           /\ stage = "totp" => WantsTotp(gate, request.row)
           /\ gate # "none" /\ WantsTotp(gate, request.row)
                  /\ stage \in {"grant", "switch", "networks", "served"} =>
                      \E a \in lived : a.totp
           /\ stage = "grant" => gate = "reward_review"
           /\ stage \in {"switch", "networks"} => request.route.net
           /\ stage = "networks" => \E p \in policies : p.on = request.on

AccessInv == AccessTyped /\ ReadSound /\ NoTrap /\ AdmittedByPolicy

LEMMA AccessStart == AccessInit => AccessInv
<1> SUFFICES ASSUME AccessInit PROVE AccessInv OBVIOUS
<1>1. request = NoRequest /\ moves = 0 /\ policy \in Policies BY DEF AccessInit, Policies
<1>2. caller \in Accounts /\ (IsStaff(caller) => ~Pending(caller))
  <2>1. CASE caller \in [role : {"STUDENT"}, status : {"PENDING", "ACTIVE", "OFF"}, totp : {FALSE},
                         grant : {FALSE}, live : BOOLEAN]
    BY <2>1 DEF Accounts, IsStaff
  <2>2. CASE caller \in [role : {"TEACHER"}, status : {"ACTIVE", "OFF"}, totp : BOOLEAN,
                         grant : BOOLEAN, live : BOOLEAN]
    BY <2>2 DEF Accounts, Pending
  <2>3. CASE caller \in [role : {"ADMIN"}, status : {"ACTIVE", "OFF"}, totp : BOOLEAN,
                         grant : {FALSE}, live : BOOLEAN]
    BY <2>3 DEF Accounts, Pending
  <2> QED BY <2>1, <2>2, <2>3 DEF AccessInit
<1> QED BY <1>1, <1>2, AccessAssumption
        DEF AccessInv, AccessTyped, ReadSound, NoTrap, Refused, AdmittedByPolicy, Served

LEMMA ArriveKeeps ==
    ASSUME AccessInv, NEW r \in Routes, NEW x \in Addresses, Arrive(r, x)
    PROVE  AccessInv'
<1> DEFINE stage == IF r.gate = "none" THEN "served" ELSE "row"
           q == [route |-> r, address |-> x, row |-> caller, on |-> FALSE, stage |-> stage]
<1>1. request' = q /\ lived' = {caller} /\ policies' = {policy} /\ UNCHANGED <<caller, policy, moves>>
  BY DEF Arrive
<1>2. q \in Requests BY DEF AccessInv, AccessTyped, Requests, Stages
<1>3. q.route = r /\ q.stage = stage OBVIOUS
<1>4. Declared(r) BY RoutesDeclared
<1> HIDE DEF q
<1>5. AccessTyped' BY <1>1, <1>2 DEF AccessInv, AccessTyped, IsStaff, Pending
<1>6. ReadSound' BY <1>1, <1>3 DEF ReadSound
<1>7. NoTrap' BY <1>1, <1>3 DEF NoTrap, Refused
<1>8. AdmittedByPolicy' BY <1>1, <1>3, <1>4 DEF AdmittedByPolicy, Served, Declared
<1> QED BY <1>5, <1>6, <1>7, <1>8 DEF AccessInv

\* A statement of the gate moves the request and nothing else.
Moves(stage) ==
    /\ request # NoRequest /\ request' \in Requests
    /\ request'.route = request.route /\ request'.address = request.address
    /\ request'.stage = stage
    /\ UNCHANGED <<caller, policy, lived, policies, moves>>

LEMMA AnswerMoves ==
    ASSUME AccessInv, request # NoRequest, NEW stage \in Stages, Answer(stage)
    PROVE  Moves(stage) /\ request'.row = request.row /\ request'.on = request.on
BY DEF AccessInv, AccessTyped, Answer, Moves, Requests

LEMMA MovesTyped == ASSUME AccessInv, NEW stage, Moves(stage) PROVE AccessTyped'
BY DEF AccessInv, AccessTyped, Moves, IsStaff, Pending

LEMMA ReadRowKeeps == ASSUME AccessInv, ReadRow PROVE AccessInv'
<1> DEFINE gate == request.route.gate
           stage == IF ~RowPasses(gate, caller) THEN "refused"
                    ELSE IF WantsTotp(gate, caller) THEN "totp" ELSE AfterGate(request.route)
<1>1. request # NoRequest /\ request.stage = "row" /\ request \in Requests /\ caller \in lived
      /\ caller \in Accounts /\ gate # "none"
  BY DEF ReadRow, AccessInv, AccessTyped, ReadSound
<1>2. Declared(request.route) BY <1>1, RoutesDeclared DEF Requests
<1>3. AfterGate(request.route) \in {"switch", "served"} /\ stage \in Stages
      /\ (AfterGate(request.route) = "switch" <=> request.route.net)
  BY <1>2 DEF AfterGate, Stages, Declared
<1>4. request' = [request EXCEPT !.row = caller, !.stage = stage]
      /\ UNCHANGED <<caller, policy, lived, policies, moves>>
  BY DEF ReadRow
<1> HIDE DEF stage
<1>5. Moves(stage) /\ request'.row = caller
  BY <1>1, <1>3, <1>4 DEF Moves, Requests
<1>6. AccessTyped' BY <1>5, MovesTyped
<1>7. ReadSound' BY <1>1, <1>3, <1>5 DEF ReadSound, Moves, stage
<1>8. NoTrap'
  <2> SUFFICES ASSUME stage = "refused" PROVE NoTrap' BY <1>5 DEF NoTrap, Refused, Moves
  <2>1. ~RowPasses(gate, caller) BY <1>3 DEF stage
  <2>2. gate = "staff" => ~(caller.live /\ StaffGate(caller)) BY <2>1 DEF RowPasses
  <2>3. gate = "admin" => ~(caller.live /\ AdminGate(caller)) BY <2>1 DEF RowPasses
  <2> QED BY <1>1, <1>2, <1>5, <2>2, <2>3 DEF NoTrap, Refused, Opens, Moves, Declared
<1>9. AdmittedByPolicy' BY <1>3, <1>5 DEF AdmittedByPolicy, Served, Moves, stage
<1> QED BY <1>6, <1>7, <1>8, <1>9 DEF AccessInv

LEMMA ReadTotpKeeps == ASSUME AccessInv, ReadTotp PROVE AccessInv'
<1> DEFINE gate == request.route.gate
           stage == IF ~caller.totp THEN "refused"
                    ELSE IF WantsGrant(gate, request.row) THEN "grant" ELSE AfterGate(request.route)
<1>1. request # NoRequest /\ request.stage = "totp" /\ request \in Requests /\ caller \in lived
      /\ caller \in Accounts /\ gate # "none"
  BY DEF ReadTotp, AccessInv, AccessTyped, ReadSound
<1>2. Declared(request.route) BY <1>1, RoutesDeclared DEF Requests
<1>3. AfterGate(request.route) \in {"switch", "served"} /\ stage \in Stages
      /\ (AfterGate(request.route) = "switch" <=> request.route.net)
  BY <1>2 DEF AfterGate, Stages, Declared
<1>4. Answer(stage) BY DEF ReadTotp
<1>5. Moves(stage) /\ request'.row = request.row /\ request'.on = request.on
  BY <1>1, <1>3, <1>4, AnswerMoves
<1>6. AccessTyped' BY <1>5, MovesTyped
<1>7. stage # "refused" => \E a \in lived : a.totp BY <1>1, <1>3
<1>8. /\ request.row \in lived /\ RowPasses(gate, request.row) /\ WantsTotp(gate, request.row)
  BY <1>1 DEF AccessInv, ReadSound
<1>9. /\ stage = "grant" => gate = "reward_review"
      /\ stage \in {"refused", "grant", "switch", "served"}
      /\ stage = "switch" => request.route.net
      /\ stage = "served" => ~request.route.net
      /\ stage = "refused" => ~caller.totp
  BY <1>3 DEF WantsGrant
<1> HIDE DEF stage
<1>10. ReadSound' BY <1>1, <1>5, <1>7, <1>8, <1>9 DEF ReadSound, Moves
<1>11. gate # "staff" BY <1>8 DEF WantsTotp
<1>12. NoTrap' BY <1>1, <1>2, <1>5, <1>9, <1>11 DEF NoTrap, Refused, Opens, Moves, Declared
<1>13. AdmittedByPolicy' BY <1>5, <1>9 DEF AdmittedByPolicy, Served, Moves
<1> QED BY <1>6, <1>10, <1>12, <1>13 DEF AccessInv

LEMMA ReadGrantKeeps == ASSUME AccessInv, ReadGrant PROVE AccessInv'
<1> DEFINE gate == request.route.gate
           stage == IF caller.grant THEN "served" ELSE "refused"
<1>1. request # NoRequest /\ request.stage = "grant" /\ request \in Requests /\ gate = "reward_review"
      /\ request.row \in lived /\ RowPasses(gate, request.row) /\ WantsTotp(gate, request.row)
      /\ \E a \in lived : a.totp
  BY DEF ReadGrant, AccessInv, AccessTyped, ReadSound, WantsTotp
<1>2. Declared(request.route) BY <1>1, RoutesDeclared DEF Requests
<1>3. stage \in Stages /\ Answer(stage) BY DEF Stages, ReadGrant
<1>4. Moves(stage) /\ request'.row = request.row /\ request'.on = request.on
  BY <1>1, <1>3, AnswerMoves
<1>5. stage \in {"served", "refused"} OBVIOUS
<1> HIDE DEF stage
<1>6. AccessTyped' BY <1>4, MovesTyped
<1>7. ReadSound' BY <1>1, <1>4, <1>5 DEF ReadSound, Moves
<1>8. NoTrap' BY <1>1, <1>2, <1>4 DEF NoTrap, Refused, Opens, Moves, Declared
<1>9. AdmittedByPolicy' BY <1>1, <1>4, <1>2 DEF AdmittedByPolicy, Served, Moves, Declared
<1> QED BY <1>6, <1>7, <1>8, <1>9 DEF AccessInv

LEMMA ReadSwitchKeeps == ASSUME AccessInv, ReadSwitch PROVE AccessInv'
<1>1. request # NoRequest /\ request.stage = "switch" /\ request \in Requests
      /\ policy \in Policies /\ policy \in policies
  BY DEF ReadSwitch, AccessInv, AccessTyped
<1>2. policy.on \in BOOLEAN /\ "networks" \in Stages BY <1>1 DEF Policies, Stages
<1>3. request' = [request EXCEPT !.on = policy.on, !.stage = "networks"]
      /\ UNCHANGED <<caller, policy, lived, policies, moves>>
  BY DEF ReadSwitch
<1>4. Moves("networks") /\ request'.row = request.row /\ request'.on = policy.on
  BY <1>1, <1>2, <1>3 DEF Moves, Requests
<1>5. AccessTyped' BY <1>4, MovesTyped
<1>6. request.route.net /\ request.route.gate # "none" /\ request.row \in lived
      /\ RowPasses(request.route.gate, request.row)
      /\ (WantsTotp(request.route.gate, request.row) => \E a \in lived : a.totp)
  BY <1>1 DEF AccessInv, ReadSound
<1>7. ReadSound' BY <1>1, <1>4, <1>6 DEF ReadSound, Moves
<1>8. NoTrap' /\ AdmittedByPolicy' BY <1>4 DEF NoTrap, Refused, AdmittedByPolicy, Served, Moves
<1> QED BY <1>5, <1>7, <1>8 DEF AccessInv

LEMMA ReadNetworksKeeps == ASSUME AccessInv, ReadNetworks PROVE AccessInv'
<1> DEFINE read == [on |-> request.on, nets |-> policy.nets]
           passes == Loadable(read) /\ Allows(read, request.address)
           stage == IF passes THEN "served" ELSE "refused"
<1>1. request # NoRequest /\ request.stage = "networks" /\ request \in Requests
      /\ policy \in Policies /\ policy \in policies
  BY DEF ReadNetworks, AccessInv, AccessTyped
<1>2. request.route.net /\ request.route.gate # "none" /\ request.row \in lived
      /\ RowPasses(request.route.gate, request.row)
      /\ (WantsTotp(request.route.gate, request.row) => \E a \in lived : a.totp)
      /\ \E p \in policies : p.on = request.on
  BY <1>1 DEF AccessInv, ReadSound
<1>3. Declared(request.route) BY <1>1, RoutesDeclared DEF Requests
<1>4. Answer(stage) BY DEF ReadNetworks
<1>5. stage \in Stages BY DEF Stages
<1>6. passes => \E p \in policies : Allows(p, request.address)
  <2>1. CASE request.on
    <3>1. passes => request.address \in policy.nets BY <2>1 DEF Allows
    <3> QED BY <1>1, <3>1 DEF Allows
  <2>2. CASE ~request.on
    BY <1>2, <2>2 DEF Allows
  <2> QED BY <2>1, <2>2
<1>7. stage \in {"served", "refused"} /\ (stage = "served" => passes) OBVIOUS
<1> HIDE DEF stage, passes
<1>8. Moves(stage) /\ request'.row = request.row BY <1>1, <1>4, <1>5, AnswerMoves
<1>9. AccessTyped' BY <1>8, MovesTyped
<1>10. ReadSound' BY <1>2, <1>7, <1>8 DEF ReadSound, Moves
<1>11. NoTrap' BY <1>2, <1>3, <1>8 DEF NoTrap, Refused, Opens, Moves, Declared
<1>12. AdmittedByPolicy' BY <1>6, <1>7, <1>8 DEF AdmittedByPolicy, Served, Moves
<1> QED BY <1>9, <1>10, <1>11, <1>12 DEF AccessInv

LEMMA BecomesKeeps ==
    ASSUME AccessInv, NEW a \in Accounts, IsStaff(a) => ~Pending(a), Becomes(a)
    PROVE  AccessInv'
<1>1. request # NoRequest /\ ~Settled /\ caller' = a /\ lived' = lived \cup {a}
      /\ moves < MaxMoves /\ moves' = moves + 1 /\ UNCHANGED <<policy, request, policies>>
  BY DEF Becomes
<1>2. AccessTyped'
  BY <1>1, AccessAssumption DEF AccessInv, AccessTyped, IsStaff, Pending
<1>3. ReadSound' BY <1>1 DEF AccessInv, ReadSound
<1>4. NoTrap' /\ AdmittedByPolicy' BY <1>1 DEF NoTrap, Refused, AdmittedByPolicy, Served, Settled
<1> QED BY <1>2, <1>3, <1>4 DEF AccessInv

LEMMA ChangeKeeps ==
    ASSUME AccessInv, ChangeStatus \/ ChangeRole \/ EndSession \/ ConfirmFactor \/ MoveGrant
    PROVE  AccessInv'
<1>1. caller \in Accounts /\ (IsStaff(caller) => ~Pending(caller)) BY DEF AccessInv, AccessTyped
<1>2. CASE ChangeStatus
  <2>1. PICK s \in StatusMoves(caller) : Becomes([caller EXCEPT !.status = s])
    BY <1>2 DEF ChangeStatus
  <2>2. s \in {"ACTIVE", "OFF"} BY <1>1 DEF StatusMoves, Accounts
  <2> QED BY <1>1, <2>1, <2>2, BecomesKeeps DEF Accounts, IsStaff, Pending
<1>3. CASE ChangeRole
  <2> DEFINE a == [caller EXCEPT !.role = IF @ = "ADMIN" THEN "TEACHER" ELSE "ADMIN"]
  <2>1. Becomes(a) /\ IsStaff(caller) BY <1>3 DEF ChangeRole
  <2>2. a \in Accounts /\ ~Pending(a) BY <1>1, <2>1 DEF Accounts, Pending
  <2> QED BY <2>1, <2>2, BecomesKeeps
<1>4. CASE EndSession
  BY <1>1, <1>4, BecomesKeeps DEF EndSession, Accounts, IsStaff, Pending
<1>5. CASE ConfirmFactor
  BY <1>1, <1>5, BecomesKeeps DEF ConfirmFactor, Accounts, IsStaff, Pending
<1>6. CASE MoveGrant
  BY <1>1, <1>6, BecomesKeeps DEF MoveGrant, Accounts, IsStaff, Pending
<1> QED BY <1>2, <1>3, <1>4, <1>5, <1>6

LEMMA WritePolicyKeeps ==
    ASSUME AccessInv, NEW p \in Policies, WritePolicy(p)
    PROVE  AccessInv'
<1>1. request # NoRequest /\ ~Settled /\ policy' = p /\ policies' = policies \cup {p}
      /\ moves < MaxMoves /\ moves' = moves + 1 /\ UNCHANGED <<caller, request, lived>>
  BY DEF WritePolicy
<1>2. AccessTyped'
  BY <1>1, AccessAssumption DEF AccessInv, AccessTyped, IsStaff, Pending
<1>3. ReadSound' BY <1>1 DEF AccessInv, ReadSound
<1>4. NoTrap' /\ AdmittedByPolicy' BY <1>1 DEF NoTrap, Refused, AdmittedByPolicy, Served, Settled
<1> QED BY <1>2, <1>3, <1>4 DEF AccessInv

LEMMA AccessStep == AccessInv /\ [AccessNext]_accessVars => AccessInv'
<1> SUFFICES ASSUME AccessInv, [AccessNext]_accessVars PROVE AccessInv' OBVIOUS
<1>1. ASSUME NEW r \in Routes, NEW x \in Addresses, Arrive(r, x) PROVE AccessInv'
  BY <1>1, ArriveKeeps
<1>2. CASE ReadRow BY <1>2, ReadRowKeeps
<1>3. CASE ReadTotp BY <1>3, ReadTotpKeeps
<1>4. CASE ReadGrant BY <1>4, ReadGrantKeeps
<1>5. CASE ReadSwitch BY <1>5, ReadSwitchKeeps
<1>6. CASE ReadNetworks BY <1>6, ReadNetworksKeeps
<1>7. CASE ChangeStatus \/ ChangeRole \/ EndSession \/ ConfirmFactor \/ MoveGrant
  BY <1>7, ChangeKeeps
<1>8. ASSUME NEW p \in [on : BOOLEAN, nets : SUBSET Networks], WritePolicy(p) PROVE AccessInv'
  BY <1>8, WritePolicyKeeps DEF Policies
<1>9. CASE UNCHANGED accessVars
  BY <1>9 DEF accessVars, AccessInv, AccessTyped, ReadSound, NoTrap, Refused, Opens, AdmittedByPolicy,
     Served, IsStaff, Pending
<1> QED BY <1>1, <1>2, <1>3, <1>4, <1>5, <1>6, <1>7, <1>8, <1>9 DEF AccessNext

-----------------------------------------------------------------------------
(* What a row that passed a gate says.                                      *)

LEMMA RowMeans ==
    ASSUME NEW gate \in Gates \ {"none"}, NEW a, RowPasses(gate, a)
    PROVE  /\ a.live
           /\ gate # "actor" => a.status # "OFF"
           /\ IsStudent(a) /\ Pending(a) =>
                  gate \in {"actor", "active", "active_student", "community", "browsing_student"}
           /\ gate \in {"management", "reward_review", "admin"} => StaffGate(a) /\ WantsTotp(gate, a)
           /\ gate = "admin" => IsAdmin(a)
<1>1. a.live BY DEF RowPasses
<1>2. gate \in {"actor", "active", "active_student", "approved_student", "community",
                "approved_community", "browsing_student", "not_pending", "staff", "management",
                "reward_review", "admin", "student_or_management"}
  BY DEF Gates
<1>3. /\ gate = "active" => Active(a) \/ Pending(a)
      /\ gate = "active_student" => Active(a)
      /\ gate = "approved_student" => Active(a)
      /\ gate = "community" => Active(a)
      /\ gate = "approved_community" => Active(a)
      /\ gate = "browsing_student" => Active(a) \/ Pending(a)
  BY DEF RowPasses, ActiveGate, ActiveStudentGate, ApprovedStudentGate, CommunityGate,
     ApprovedCommunityGate, BrowsingStudentGate
<1>4. /\ gate = "not_pending" => Active(a)
      /\ gate = "staff" => Active(a)
      /\ gate = "management" => StaffGate(a)
      /\ gate = "reward_review" => StaffGate(a)
      /\ gate = "admin" => AdminGate(a)
      /\ gate = "student_or_management" => Active(a)
  BY DEF RowPasses, NotPendingGate, StaffGate
<1>5. StaffGate(a) => Active(a) BY DEF StaffGate
<1>6. AdminGate(a) => StaffGate(a) /\ IsAdmin(a) BY DEF AdminGate, StaffGate, IsAdmin, IsStaff
<1>7. Active(a) => a.status = "ACTIVE" BY DEF Active
<1>8. Pending(a) => a.status = "PENDING" BY DEF Pending
<1>9. gate \in {"management", "reward_review", "admin"} => WantsTotp(gate, a) BY DEF WantsTotp
<1> QED BY <1>1, <1>2, <1>3, <1>4, <1>5, <1>6, <1>7, <1>8, <1>9

LEMMA AccessInvSound == AccessInv => AccessSound
<1> SUFFICES ASSUME AccessInv PROVE AccessSound OBVIOUS
<1>1. AccessTypeOK BY DEF AccessInv, AccessTyped, AccessTypeOK, Accounts, Policies, Requests, Stages
<1>2. ASSUME Served PROVE PendingOnlyLooks /\ ShutOut /\ ManagedByConfirmedStaff
  <2> DEFINE gate == request.route.gate
             act == request.route.act
             row == request.row
  <2>1. request \in Requests /\ request # NoRequest /\ request.stage = "served"
    BY <1>2 DEF Served, AccessInv, AccessTyped
  <2>2. Declared(request.route) BY <2>1, RoutesDeclared DEF Requests
  <2>3. gate # "none" => /\ row \in lived /\ RowPasses(gate, row)
                         /\ WantsTotp(gate, row) => \E a \in lived : a.totp
    BY <2>1 DEF AccessInv, ReadSound
  <2>4. gate \in Gates BY <2>2 DEF Declared
  <2>5. gate # "none" =>
            /\ row \in lived /\ row.live
            /\ gate # "actor" => row.status # "OFF"
            /\ IsStudent(row) /\ Pending(row) =>
                  gate \in {"actor", "active", "active_student", "community", "browsing_student"}
            /\ gate \in {"management", "reward_review", "admin"} =>
                  StaffGate(row) /\ \E a \in lived : a.totp
            /\ gate = "admin" => IsAdmin(row)
    <3> SUFFICES ASSUME gate # "none"
                 PROVE  /\ row \in lived /\ row.live
                        /\ gate # "actor" => row.status # "OFF"
                        /\ IsStudent(row) /\ Pending(row) =>
                             gate \in {"actor", "active", "active_student", "community",
                                       "browsing_student"}
                        /\ gate \in {"management", "reward_review", "admin"} =>
                             StaffGate(row) /\ \E a \in lived : a.totp
                        /\ gate = "admin" => IsAdmin(row)
      OBVIOUS
    <3> HIDE DEF gate, row
    <3> QED BY <2>3, <2>4, RowMeans
  <2>6. gate = "none" => act = "open" BY <2>2 DEF Declared
  <2>7. gate = "actor" => act = "self" BY <2>2 DEF Declared
  <2>8. gate \in {"active", "active_student", "community", "browsing_student"} =>
            act \in {"own", "look"}
    BY <2>2 DEF Declared
  <2>9. /\ act \in {"teach", "govern", "repair"} => gate \in {"management", "reward_review", "admin"}
        /\ act \in {"govern", "repair"} => gate = "admin"
    BY <2>2 DEF Declared
  <2> HIDE DEF gate, act, row
  <2>10. \A s : Opens(s) <=> act \in s BY DEF Opens, act
  <2>11. PendingOnlyLooks BY <2>5, <2>6, <2>7, <2>8, <2>10 DEF PendingOnlyLooks
  <2>12. ShutOut BY <2>5, <2>6, <2>7, <2>10 DEF ShutOut
  <2>13. ManagedByConfirmedStaff BY <2>5, <2>6, <2>9, <2>10 DEF ManagedByConfirmedStaff
  <2> QED BY <2>11, <2>12, <2>13
<1>3. ~Served => PendingOnlyLooks /\ ShutOut /\ ManagedByConfirmedStaff
  BY DEF PendingOnlyLooks, ShutOut, ManagedByConfirmedStaff
<1> QED BY <1>1, <1>2, <1>3 DEF AccessInv, AccessSound

\* Every endpoint of every router serves whom it may, under the policy in force,
\* and shuts nobody out of the way back in, for any number of changes made while
\* the request is handled (identity/dependencies.py:370-593).
THEOREM AccessAlwaysSound == AccessSpec => []AccessSound
<1>1. AccessInit => AccessInv BY AccessStart
<1>2. AccessInv /\ [AccessNext]_accessVars => AccessInv' BY AccessStep
<1>3. AccessInv => AccessSound BY AccessInvSound
<1> QED BY <1>1, <1>2, <1>3, PTL DEF AccessSpec

\* What stands between a request and its handler is sound as a whole: each of the
\* three programs touches nothing of the others.
THEOREM AdmissionAlwaysSound == AdmissionSpec => []AdmissionSound
<1> SUFFICES ASSUME AdmissionSpec PROVE []AdmissionSound OBVIOUS
<1>1. []AccessSound /\ []SettingsSound /\ []LimitSound
  BY AccessAlwaysSound, SettingsAlwaysSound, LimitAlwaysSound DEF AdmissionSpec
<1> QED BY <1>1, PTL DEF AdmissionSound

==============================================================================
