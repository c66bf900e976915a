-------------------------------- MODULE TaskImport --------------------------------
(***************************************************************************)
(* Importing the units of one task.  A file is classified and its valid     *)
(* rows are kept in Redis behind a token for single use; the confirmation   *)
(* takes the token, looks for pairs that exist, and inserts the rows one    *)
(* after the other under the unique index, where it may have to wait for    *)
(* another confirmation.  tasks/importer.py, import_parsing.py,             *)
(* import_preview.py, import_confirm.py and platform_registry.py.           *)
(***************************************************************************)
EXTENDS TaskDesk, Integers, FiniteSets

CONSTANTS
    Platforms, Keywords,   \* codes and words, as positive numbers; 0: an empty cell
    MaxRows,               \* rows one file may hold
    Tokens,                \* previews
    Confirms,              \* calls of confirm
    Nobody

ASSUME TaskImportAssumption ==
    /\ Platforms \subseteq Nat \ {0} /\ Keywords \subseteq Nat \ {0} /\ MaxRows \in Nat
    /\ Nobody \notin Confirms \cup Tokens

VARIABLES
    offered,     \* the enabled platforms
    preview,     \* each token: the rows stored under it
    confirm,     \* each confirmation: its rows, and those it has put in so far
    unit         \* each pair: the confirmation whose committed row it is, or Nobody

importVars == <<offered, preview, confirm, unit>>

Pairs == Platforms \X Keywords
UnitRows == [number : 1..MaxRows + 1, pair : Pairs]
Lines == ({0} \cup Platforms) \X ({0} \cup Keywords)
Files == UNION {[1..n -> Lines] : n \in 1..MaxRows + 1}
PairsOf(rows) == {r.pair : r \in rows}
Inserted(c) == PairsOf(confirm[c].put)
Existing == {p \in Pairs : unit[p] # Nobody}

ImportInit ==
    /\ offered \in SUBSET Platforms
    /\ preview = [k \in Tokens |-> [at |-> "NONE", rows |-> {}]]
    /\ confirm = [c \in Confirms |-> [at |-> "IDLE", of |-> Nobody, rows |-> {}, put |-> {}]]
    /\ unit = [p \in Pairs |-> Nobody]

\* A platform is registered, switched off or switched on again.
MovePlatform(f) ==
    /\ offered' = (offered \ {f}) \cup ({f} \ offered)
    /\ UNCHANGED <<preview, confirm, unit>>

-----------------------------------------------------------------------------
(* The preview.                                                            *)

Blank(line) == line = <<0, 0>>

\* An empty keyword stands for every defect of a single row; a repeat of an
\* earlier row of the file is one of two.
Accepts(file, i) ==
    /\ file[i][1] \in offered /\ file[i][2] # 0
    /\ \A j \in 1..i - 1 : file[j] # file[i]

ValidRows(file) == {[number |-> i, pair |-> file[i]] : i \in {j \in DOMAIN file : Accepts(file, j)}}

\* Nothing is stored when the file is refused as a whole or no row of it is new.
Preview(k, file) ==
    LET new == {r \in ValidRows(file) : r.pair \notin Existing} IN
    /\ preview[k].at = "NONE"
    /\ Cardinality({i \in DOMAIN file : ~Blank(file[i])}) <= MaxRows
    /\ new # {}
    /\ preview' = [preview EXCEPT ![k] = [at |-> "SHOWN", rows |-> new]]
    /\ UNCHANGED <<offered, confirm, unit>>

\* It expires, or a confirmation addressed to another task spends it.
LosePreview(k) ==
    /\ preview[k].at = "SHOWN"
    /\ preview' = [preview EXCEPT ![k] = [at |-> "GONE", rows |-> {}]]
    /\ UNCHANGED <<offered, confirm, unit>>

-----------------------------------------------------------------------------
(* The confirmation.                                                       *)

Spent(k) == [at |-> "GONE", rows |-> {}]

Consume(c, k) ==
    /\ confirm[c].at = "IDLE" /\ preview[k].at = "SHOWN"
    /\ confirm' = [confirm EXCEPT ![c] = [at |-> "HOLDS", of |-> k, rows |-> preview[k].rows, put |-> {}]]
    /\ preview' = [preview EXCEPT ![k] = Spent(k)]
    /\ UNCHANGED <<offered, unit>>

\* A confirmation that stops is rolled back.
Ends(c, how) == confirm' = [confirm EXCEPT ![c] = [@ EXCEPT !.at = how, !.put = {}]]

LookForConflicts(c) ==
    /\ confirm[c].at = "HOLDS"
    /\ IF PairsOf(confirm[c].rows) \cap Existing # {} THEN Ends(c, "CLASH")
       ELSE confirm' = [confirm EXCEPT ![c].at = "WRITES"]
    /\ UNCHANGED <<offered, preview, unit>>

\* The rows go in by platform, then by keyword.
Before(r, q) ==
    r.pair[1] < q.pair[1] \/ (r.pair[1] = q.pair[1] /\ r.pair[2] < q.pair[2])

Left(c) == confirm[c].rows \ confirm[c].put
NextRows(c) == {r \in Left(c) : \A q \in Left(c) : ~Before(q, r)}

\* The confirmations whose uncommitted row holds the place of the next one.
WaitsFor(c) ==
    {d \in Confirms \ {c} : /\ confirm[c].at = "WRITES" /\ confirm[d].at = "WRITES"
                            /\ PairsOf(NextRows(c)) \cap Inserted(d) # {}}

RefusedBy(c, r) == r.pair \in Existing \cup Inserted(c)

InsertRow(c) ==
    /\ confirm[c].at = "WRITES" /\ WaitsFor(c) = {}
    /\ \E r \in NextRows(c) :
           IF RefusedBy(c, r) THEN Ends(c, "CLASH") ELSE confirm' = [confirm EXCEPT ![c].put = @ \cup {r}]
    /\ UNCHANGED <<offered, preview, unit>>

CommitImport(c) ==
    /\ confirm[c].at = "WRITES" /\ Left(c) = {}
    /\ confirm' = [confirm EXCEPT ![c].at = "DONE"]
    /\ unit' = [p \in Pairs |-> IF p \in Inserted(c) THEN c ELSE unit[p]]
    /\ UNCHANGED <<offered, preview>>

ConfirmDies(c) ==
    /\ confirm[c].at \in {"HOLDS", "WRITES"}
    /\ Ends(c, "DEAD")
    /\ UNCHANGED <<offered, preview, unit>>

ImportNext ==
    \/ \E f \in Platforms : MovePlatform(f)
    \/ \E k \in Tokens : (\E file \in Files : Preview(k, file)) \/ LosePreview(k)
    \/ \E c \in Confirms : \/ \E k \in Tokens : Consume(c, k)
                           \/ LookForConflicts(c) \/ InsertRow(c) \/ CommitImport(c) \/ ConfirmDies(c)

ImportSpec == ImportInit /\ [][ImportNext]_importVars

-----------------------------------------------------------------------------
(* Properties.                                                             *)

Distinct(rows) == \A r, q \in rows : r.pair = q.pair => r = q
PreviewRows == [at : {"NONE", "SHOWN", "GONE"}, rows : SUBSET UnitRows]
ConfirmRows == [at : {"IDLE", "HOLDS", "WRITES", "DONE", "CLASH", "DEAD"},
                of : Tokens \cup {Nobody}, rows : SUBSET UnitRows, put : SUBSET UnitRows]

\* Types, and what waits behind a token never conflicts with itself.
ImportTypeOK ==
    /\ offered \subseteq Platforms /\ unit \in [Pairs -> Confirms \cup {Nobody}]
    /\ preview \in [Tokens -> PreviewRows] /\ \A k \in Tokens : Distinct(preview[k].rows)
    /\ confirm \in [Confirms -> ConfirmRows] /\ \A c \in Confirms : confirm[c].put \subseteq confirm[c].rows

\* An import lands as the preview showed it or not at all: an import that succeeded owns
\* every one of its rows and an import that did not owns none (confirm_assignments).
LandsWhole ==
    \A c \in Confirms : {p \in Pairs : unit[p] = c} =
        IF confirm[c].at = "DONE" THEN PairsOf(confirm[c].rows) ELSE {}

\* A confirmation is refused as a duplicate only when another import owns one of its rows.
ClashHasCause ==
    \A c \in Confirms : confirm[c].at = "CLASH" =>
        \E d \in Confirms \ {c} : \E p \in Pairs : p \in PairsOf(confirm[c].rows) /\ unit[p] = d

\* Confirmations never wait for each other in a circle, whatever the order of the rows in
\* the two files (insert_previewed_rows).
NoInsertCycle == ~ \E c, d \in Confirms : d \in WaitsFor(c) /\ c \in WaitsFor(d)

\* A token is good for one confirmation, also when the button was pressed twice: no rows
\* are in two hands (consume_preview).
TokenServesOnce == \A c, d \in Confirms :
    confirm[c].of # Nobody /\ confirm[c].of = confirm[d].of => c = d

\* An import lands whole and once, is refused for a cause, and never blocks.
ImportSound ==
    /\ ImportTypeOK
    /\ LandsWhole
    /\ ClashHasCause
    /\ NoInsertCycle
    /\ TokenServesOnce

-----------------------------------------------------------------------------
(* The desk and the import that fills its task.                            *)

TasksSpec == DeskSpec /\ ImportSpec

\* A published contract stands and powers come from their giver; what an import
\* showed lands whole or not at all (TaskService, AssignmentImportService).
TasksContract == DeskContract /\ []ImportSound

===================================================================================
