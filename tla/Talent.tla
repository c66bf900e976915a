---------------------------------- MODULE Talent ----------------------------------
(***************************************************************************)
(* A student's talent profile: the private fields the owner edits from      *)
(* several windows, the public revision the directory shows, the uploaded   *)
(* works and what a viewer is handed.  Every command runs under the locks   *)
(* of the owner's account and of the profile; checks and downloads run      *)
(* between two such transactions.  innovation/talent_service.py,            *)
(* talent_file_service.py and public_talent_service.py.                     *)
(***************************************************************************)
EXTENDS Integers, FiniteSets

CONSTANTS
    Works,         \* uploaded files
    Contacts,      \* kinds of contact
    Windows,      \* windows of the owner; what one sends has a request id of its own
    Probes,        \* calls of complete, each with a token of its own
    Viewers,
    Bytes,         \* what an address may store; 0: nothing
    Clean,         \* the bytes a check accepts
    MaxWorks,      \* the files an owner keeps
    MaxCalls,      \* bound: windows opened and checks started
    Absence

Content == [works : SUBSET Works, contacts : SUBSET Contacts]
FileRows == [state : {"NONE", "PENDING", "CHECKING", "READY", "REJECTED"},
             token : Probes \cup {Absence}, digest : Clean \cup {0},
             removed : BOOLEAN, revoked : BOOLEAN]
WindowRows == [version : Nat, base : Content, done : BOOLEAN, answer : {"none", "ok", "refused"}]
ProbeRows == [at : {"NEW", "READING", "FOUND", "ENDED"}, of : Works \cup {Absence}, found : Bytes]
ViewRows == [at : {"NEW", "SEEN", "LOADING", "LOADED", "CONTACTS", "WORK", "REFUSED"}, number : Nat,
             shown : SUBSET Contacts, of : Works \cup {Absence}, digest : Bytes,
             got : SUBSET (Contacts \cup Bytes)]

ASSUME TalentAssumption ==
    /\ MaxWorks \in Nat /\ MaxCalls \in Nat
    /\ 0 \in Bytes \ Clean /\ Clean \subseteq Bytes
    /\ Absence \notin Probes /\ Absence \notin Content /\ Absence \notin WindowRows

VARIABLES
    profile,     \* the profile row; version 0 while there is none
    public,      \* the public revision, or Absence
    work,        \* the file rows
    address,     \* the object under each upload address
    window,      \* each window: the version it shows, whether its command applied, the answer
    probe,       \* each call of complete
    view,        \* what each viewer saw and was given
    inOffice     \* the owner is an active student

talentVars == <<profile, public, work, address, window, probe, view, inOffice>>
profileVars == <<profile, public>>

Empty == [works |-> {}, contacts |-> {}]
NoWork == [state |-> "NONE", token |-> Absence, digest |-> 0, removed |-> FALSE, revoked |-> FALSE]
Kept == {f \in Works : work[f].state # "NONE" /\ ~work[f].removed}
Readable(f) == work[f].state = "READY" /\ ~work[f].removed /\ ~work[f].revoked

TalentInit ==
    /\ profile \in [version : {0}, fields : {Empty}, visible : {FALSE}, number : {0}]
                   \cup [version : {1}, fields : Content, visible : {FALSE}, number : {0}]
    /\ public = Absence
    /\ work \in [Works -> {NoWork} \cup [state : {"READY"}, token : {Absence}, digest : Clean,
                                        removed : {FALSE}, revoked : {FALSE}]]
    /\ profile.version = 0 => \A f \in Works : work[f] = NoWork
    /\ Cardinality(Kept) <= MaxWorks
    /\ address = [f \in Works |-> work[f].digest]
    /\ window = [m \in Windows |-> Absence]
    /\ probe = [p \in Probes |-> [at |-> "NEW", of |-> Absence, found |-> 0]]
    /\ view = [v \in Viewers |-> [at |-> "NEW", number |-> 0, shown |-> {}, of |-> Absence,
                                  digest |-> 0, got |-> {}]]
    /\ inOffice = TRUE

-----------------------------------------------------------------------------
(* The owner's commands.                                                   *)

Calls == Cardinality({m \in Windows : window[m] # Absence}
                     \cup {p \in Probes : probe[p].at # "NEW"})

\* A window shows the profile; what is sent from it carries that version.
Show(m) ==
    /\ window[m] = Absence /\ Calls < MaxCalls
    /\ window' = [window EXCEPT ![m] = [version |-> profile.version, base |-> profile.fields,
                                          done |-> FALSE, answer |-> "none"]]
    /\ UNCHANGED <<profileVars, work, address, probe, view, inOffice>>

NextNumber(act) == profile.number + (IF act \in {"save", "remove"} THEN 0 ELSE 1)

Without(content, f, c) == [works |-> content.works \ f, contacts |-> content.contacts \ c]

InUse(f) == profile.visible /\ public # Absence /\ f \in public.works

Allowed(act, of) ==
    CASE act = "save" -> TRUE
      [] act = "publish" -> \A f \in profile.fields.works : Readable(f)
      [] act = "hide" -> profile.visible
      [] act = "revoke-contact" -> public # Absence /\ of \in public.contacts
      [] act = "remove" -> of \in Kept /\ ~InUse(of)
      [] act = "revoke" -> public # Absence /\ of \in Kept \cap public.works /\ ~work[of].revoked

NewFields(act, of) ==
    CASE act = "save" -> of
      [] act = "revoke-contact" -> Without(profile.fields, {}, {of})
      [] act \in {"remove", "revoke"} -> Without(profile.fields, {of}, {})
      [] OTHER -> profile.fields

NewPublic(act, of) ==
    CASE act = "publish" -> profile.fields
      [] act = "revoke-contact" -> Without(public, {}, {of})
      [] act = "revoke" -> Without(public, {of}, {})
      [] OTHER -> public

NewVisible(act) ==
    CASE act = "publish" -> TRUE
      [] act = "hide" -> FALSE
      [] OTHER -> profile.visible

\* A file that leaves while it is checked goes back to waiting, without its token.
NewWork(act, of) ==
    IF act \notin {"remove", "revoke"} THEN work
    ELSE [work EXCEPT ![of].removed = @ \/ act = "remove", ![of].revoked = @ \/ act = "revoke",
                      ![of].token = Absence,
                      ![of].state = IF @ = "CHECKING" THEN "PENDING" ELSE @]

\* Mutant of Fresh: the version a command was made for is not compared.
FreshAlways(m) == TRUE

Fresh(m) == window[m].version = profile.version

ApplyWindow(m, act, of) ==
    /\ window[m] # Absence /\ ~window[m].done /\ Fresh(m) /\ inOffice
    /\ profile.version = 0 => act = "save"
    /\ Allowed(act, of)
    /\ profile' = [version |-> profile.version + 1, fields |-> NewFields(act, of),
                   visible |-> NewVisible(act), number |-> NextNumber(act)]
    /\ public' = NewPublic(act, of) /\ work' = NewWork(act, of)
    /\ window' = [window EXCEPT ![m].done = TRUE, ![m].answer = "ok"]
    /\ UNCHANGED <<address, probe, view, inOffice>>

\* A request with a receipt is answered as it was the first time; one that was refused
\* left nothing behind.
Answered(m) == window[m].done

Repeat(m) ==
    /\ window[m] # Absence /\ window[m].done /\ inOffice
    /\ window' = [window EXCEPT ![m].answer = IF Answered(m) THEN "ok" ELSE "refused"]
    /\ UNCHANGED <<profileVars, work, address, probe, view, inOffice>>

-----------------------------------------------------------------------------
(* Uploaded works.                                                         *)

Room == Cardinality({f \in Kept : ~work[f].revoked}) < MaxWorks

CreateWork(f) ==
    /\ work[f] = NoWork /\ profile.version > 0 /\ Room /\ inOffice
    /\ work' = [work EXCEPT ![f].state = "PENDING"]
    /\ UNCHANGED <<profileVars, address, window, probe, view, inOffice>>

\* The address stays writable for a while, checked or not.
Put(f, x) ==
    /\ work[f].state # "NONE" /\ address' = [address EXCEPT ![f] = x]
    /\ UNCHANGED <<profileVars, work, window, probe, view, inOffice>>

\* A check reads for at most 140 seconds and its lease lasts 150: a running check is
\* over before another takes its place, though it may not have reported yet.
StartProbe(p, f) ==
    /\ probe[p].at = "NEW" /\ Calls < MaxCalls /\ inOffice /\ f \in Kept /\ ~work[f].revoked
    /\ work[f].state \in {"PENDING", "CHECKING"}
    /\ work[f].token # Absence => probe[work[f].token].at # "READING"
    /\ work' = [work EXCEPT ![f].state = "CHECKING", ![f].token = p]
    /\ probe' = [probe EXCEPT ![p] = [at |-> "READING", of |-> f, found |-> 0]]
    /\ UNCHANGED <<profileVars, address, window, view, inOffice>>

EndProbe(p, found) ==
    /\ probe[p].at = "READING"
    /\ probe' = [probe EXCEPT ![p].at = "FOUND", ![p].found = found]
    /\ UNCHANGED <<profileVars, work, address, window, view, inOffice>>

Reportable(p) ==
    LET f == probe[p].of
    IN f \in Kept /\ ~work[f].revoked /\ work[f].state = "CHECKING" /\ work[f].token = p

Ended == [at |-> "ENDED", of |-> Absence, found |-> 0]

\* 0 stands for bytes that were missing or could not be checked in time.
ReportProbe(p) ==
    /\ probe[p].at = "FOUND" /\ inOffice
    /\ probe' = [probe EXCEPT ![p] = Ended]
    /\ IF Reportable(p)
       THEN work' = [work EXCEPT
              ![probe[p].of].state = CASE probe[p].found = 0 -> "PENDING"
                                       [] probe[p].found \in Clean -> "READY"
                                       [] OTHER -> "REJECTED",
              ![probe[p].of].digest = IF probe[p].found \in Clean THEN probe[p].found ELSE 0,
              ![probe[p].of].token = Absence]
       ELSE work' = work
    /\ UNCHANGED <<profileVars, address, window, view, inOffice>>

ProbeDies(p) ==
    /\ probe[p].at \in {"READING", "FOUND"}
    /\ probe' = [probe EXCEPT ![p] = Ended]
    /\ UNCHANGED <<profileVars, work, address, window, view, inOffice>>

-----------------------------------------------------------------------------
(* Viewers.                                                                *)

Listed == inOffice /\ profile.visible /\ public # Absence

See(v) ==
    /\ view[v].at = "NEW" /\ Listed
    /\ view' = [view EXCEPT ![v].at = "SEEN", ![v].number = profile.number,
                            ![v].shown = public.contacts]
    /\ UNCHANGED <<profileVars, work, address, window, probe, inOffice>>

Turned == [at |-> "REFUSED", number |-> 0, shown |-> {}, of |-> Absence, digest |-> 0, got |-> {}]

StillShown(v) == Listed /\ view[v].number = profile.number

GetContacts(v) ==
    /\ view[v].at = "SEEN"
    /\ view' = [view EXCEPT ![v] =
           IF StillShown(v) THEN [@ EXCEPT !.at = "CONTACTS", !.got = public.contacts] ELSE Turned]
    /\ UNCHANGED <<profileVars, work, address, window, probe, inOffice>>

Offered(v, f) == StillShown(v) /\ f \in public.works /\ Readable(f)

OpenWork(v, f) ==
    /\ view[v].at = "SEEN"
    /\ view' = [view EXCEPT ![v] =
           IF Offered(v, f) THEN [@ EXCEPT !.at = "LOADING", !.of = f, !.digest = work[f].digest]
           ELSE Turned]
    /\ UNCHANGED <<profileVars, work, address, window, probe, inOffice>>

Matches(v) == address[view[v].of] = view[v].digest

LoadWork(v) ==
    /\ view[v].at = "LOADING"
    /\ view' = [view EXCEPT ![v] =
           IF Matches(v) THEN [@ EXCEPT !.at = "LOADED", !.got = {address[view[v].of]}] ELSE Turned]
    /\ UNCHANGED <<profileVars, work, address, window, probe, inOffice>>

Deliverable(v) == Offered(v, view[v].of) /\ work[view[v].of].digest = view[v].digest

DeliverWork(v) ==
    /\ view[v].at = "LOADED"
    /\ view' = [view EXCEPT ![v] = IF Deliverable(v) THEN [@ EXCEPT !.at = "WORK"] ELSE Turned]
    /\ UNCHANGED <<profileVars, work, address, window, probe, inOffice>>

\* The owner is suspended, or comes back.
MoveOwner ==
    /\ inOffice' = ~inOffice
    /\ UNCHANGED <<profileVars, work, address, window, probe, view>>

Acts == {[act |-> "save", of |-> fields] : fields \in Content}
        \cup {[act |-> a, of |-> Absence] : a \in {"publish", "hide"}}
        \cup {[act |-> "revoke-contact", of |-> c] : c \in Contacts}
        \cup {[act |-> a, of |-> f] : a \in {"remove", "revoke"}, f \in Works}

TalentNext ==
    \/ \E m \in Windows : Show(m) \/ (\E a \in Acts : ApplyWindow(m, a.act, a.of)) \/ Repeat(m)
    \/ \E f \in Works : CreateWork(f) \/ \E x \in Bytes \ {0} : Put(f, x)
    \/ \E p \in Probes : \/ \E f \in Works : StartProbe(p, f) \/ EndProbe(p, address[f])
                         \/ EndProbe(p, 0) \/ ReportProbe(p) \/ ProbeDies(p)
    \/ \E v \in Viewers : \/ See(v) \/ GetContacts(v) \/ LoadWork(v) \/ DeliverWork(v)
                          \/ \E f \in Works : OpenWork(v, f)
    \/ MoveOwner

TalentSpec == TalentInit /\ [][TalentNext]_talentVars

-----------------------------------------------------------------------------
(* Properties.                                                             *)

\* Types, and a file carries a check's token exactly while it is being checked: no file is
\* left CHECKING with nobody to finish it, and one that is READY knows which bytes were
\* checked (complete, _change; the constraints on ie_talent_files).
TalentTypeOK ==
    /\ profile \in [version : Nat, fields : Content, visible : BOOLEAN, number : Nat]
    /\ public \in Content \cup {Absence}
    /\ work \in [Works -> FileRows] /\ address \in [Works -> Bytes] /\ inOffice \in BOOLEAN
    /\ window \in [Windows -> WindowRows \cup {Absence}]
    /\ probe \in [Probes -> ProbeRows] /\ view \in [Viewers -> ViewRows]
    /\ \A f \in Works : (work[f].token # Absence) = (work[f].state = "CHECKING")
                      /\ (work[f].digest # 0) = (work[f].state = "READY")

\* Everything a profile on display names can be read: no sequence of saves, removals,
\* revocations and publications leaves a dead file in what viewers see.
VisibleWorksUsable == profile.visible => public # Absence /\ \A f \in public.works : Readable(f)

\* A viewer is given exactly the contacts the page it looked at announced: every change
\* of what is public makes the number it holds stale.
ContactsAsShown == \A v \in Viewers : view[v].at = "CONTACTS" => view[v].got = view[v].shown

\* The bytes handed to a viewer passed a check and belong to a file that is still offered
\* when they are handed out, although the address may be written and the file withdrawn
\* while they are read.
DeliveredIsOffered == [][\A v \in Viewers :
    view[v].at # "WORK" /\ view'[v].at = "WORK" =>
        view[v].got \subseteq Clean /\ Offered(v, view[v].of)]_talentVars

\* A command applies to the very fields its window showed: of two windows the later one
\* is refused instead of overwriting the other's edit.
NoLostEdit == [][\A m \in Windows :
    window[m] # Absence /\ window'[m].done /\ ~window[m].done
        => window[m].base = profile.fields]_talentVars

\* A request that was applied is never told it was refused, however often it is repeated.
AppliedIsNotDenied == \A m \in Windows :
    window[m] # Absence /\ window[m].done => window[m].answer = "ok"

\* Only the check that holds a file decides about it: a check replaced meanwhile, or one
\* of a file withdrawn meanwhile, changes nothing.
HolderDecides == [][\A f \in Works :
    work'[f].state \in {"READY", "REJECTED"} /\ work[f].state # work'[f].state =>
        \E p \in Probes : /\ work[f].token = p /\ probe[p].at = "FOUND"
                         /\ probe'[p].at = "ENDED"]_talentVars

\* A profile on display, its files and its contacts agree with what viewers are
\* given, and no window or check overwrites what another has done.
TalentContract ==
    /\ [](/\ TalentTypeOK
          /\ VisibleWorksUsable
          /\ ContactsAsShown
          /\ AppliedIsNotDenied)
    /\ DeliveredIsOffered
    /\ NoLostEdit
    /\ HolderDecides

=============================================================================
