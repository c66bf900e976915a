------------------------------- MODULE Recruitment -------------------------------
(* One recruitment post of a project: the commands of its owner, who may work *)
(* in several tabs and retry, the scheduler that expires it or reminds the    *)
(* owner, and the delivery of the reminders.  Every command and every step of *)
(* the scheduler runs under the lock of the row.                              *)
EXTENDS Integers, FiniteSets

CONSTANTS
    Channels,     \* ways to contact the owner
    Requests,     \* identities of commands
    Deadlines,    \* deadlines a draft may carry; 0: none
    Period,       \* between two reminders
    MaxNow,       \* bound on the clock
    NoRequest

ASSUME RecruitmentAssumption ==
    /\ Channels # {} /\ Deadlines \subseteq Nat /\ 0 \in Deadlines
    /\ Period \in Nat \ {0} /\ MaxNow \in Nat \ {0}

VARIABLES
    now,
    ownerActive,  \* the owner's account is ACTIVE
    draft,        \* the fields being edited: contacts and deadline
    row,          \* the post: status, version, cycle, deadline, reminder
    contacts,     \* live authorisations of the public revision
    command,      \* the command each request stands for, with the version read
    receipts,     \* requests applied
    refused,      \* requests that have been answered with a conflict
    withdrawn,    \* channels revoked and not offered again since
    found,        \* whether a scan has put the post on its list
    reminders,    \* reminder events recorded
    sent          \* reminders delivered

recruitmentVars == <<now, ownerActive, draft, row, contacts, command, receipts, refused,
                     withdrawn, found, reminders, sent>>

\* A fresh draft, or a post without a deadline that has just been published.
RecruitmentInit ==
    /\ now = 1 /\ ownerActive = TRUE
    /\ draft = [contacts |-> Channels, deadline |-> 0]
    /\ \/ /\ row = [status |-> "DRAFT", version |-> 1, cycle |-> 0, deadline |-> 0,
                    confirmed |-> 0, remind |-> 0]
          /\ contacts = {}
       \/ /\ row = [status |-> "OPEN", version |-> 2, cycle |-> 1, deadline |-> 0,
                    confirmed |-> 1, remind |-> 1 + Period]
          /\ contacts = Channels
    /\ command = [q \in Requests |-> NoRequest]
    /\ receipts = {} /\ refused = {} /\ withdrawn = {}
    /\ found = FALSE /\ reminders = {} /\ sent = {}

\* logical_status: past its deadline an OPEN post is EXPIRED, scanned or not.
Status == IF row.status = "OPEN" /\ row.deadline # 0 /\ now >= row.deadline
          THEN "EXPIRED" ELSE row.status

\* PublicRecruitmentService.query: what students see and the scheduler serves.
Effective ==
    /\ row.status = "OPEN" /\ (row.deadline = 0 \/ row.deadline > now)
    /\ ownerActive /\ contacts # {}

-------------------------------------------------------------------------------
(* The owner's commands *)

\* The owner fills in a form from what they see; its request id is its own.
Compose(q, c) ==
    /\ command[q] = NoRequest
    /\ command' = [command EXCEPT ![q] = [act |-> c, version |-> row.version]]
    /\ UNCHANGED <<now, ownerActive, draft, row, contacts, receipts, refused, withdrawn,
                   found, reminders, sent>>

\* _publish_revision and what it leads to.
Published(r, newCycle) ==
    LET starts == newCycle \/ (r.deadline # 0 /\ draft.deadline = 0)
        turns  == newCycle \/ (r.deadline = 0) # (draft.deadline = 0)
    IN  [r EXCEPT !.status = "OPEN",
                  !.deadline = draft.deadline,
                  !.cycle = IF turns THEN @ + 1 ELSE @,
                  !.confirmed = IF draft.deadline # 0 THEN 0 ELSE IF starts THEN now ELSE @,
                  !.remind = IF draft.deadline # 0 THEN 0 ELSE IF starts THEN now + Period ELSE @]

\* Whether the post is in a state for the command (_act, _revoke).
Suits(c) ==
    \/ c.kind = "update"
    \/ /\ \/ c.kind = "publish" /\ Status \in {"DRAFT", "OPEN"}
          \/ c.kind = "reopen" /\ Status \in {"CLOSED", "EXPIRED"}
       /\ draft.contacts # {} /\ (draft.deadline = 0 \/ draft.deadline > now)
    \/ c.kind = "close" /\ Status = "OPEN"
    \/ c.kind = "confirm" /\ Status = "OPEN" /\ row.deadline = 0
    \/ c.kind = "revoke" /\ c.channel \in contacts /\ (contacts = {c.channel} => c.last)

Confirmed(r) == [r EXCEPT !.cycle = @ + 1, !.confirmed = now, !.remind = now + Period]

WithoutContact(r, channel) == IF contacts = {channel} THEN [r EXCEPT !.status = "CLOSED"] ELSE r

\* A revoked channel leaves the draft as well.
Dropped(channel) == [draft EXCEPT !.contacts = @ \ {channel}]

\* What a command does to the post, besides its new version.
Acted(c) ==
    CASE c.kind = "update" -> row
      [] c.kind = "publish" -> Published(row, Status # "OPEN")
      [] c.kind = "reopen" -> Published(row, TRUE)
      [] c.kind = "close" -> [row EXCEPT !.status = "CLOSED"]
      [] c.kind = "confirm" -> Confirmed(row)
      [] c.kind = "revoke" -> WithoutContact(row, c.channel)

Apply(q, c) ==
    /\ row' = [Acted(c) EXCEPT !.version = @ + 1]
    /\ receipts' = receipts \cup {q}
    /\ draft' = CASE c.kind = "update" -> c.fields
                  [] c.kind = "revoke" -> Dropped(c.channel)
                  [] OTHER -> draft
    /\ contacts' = CASE c.kind \in {"publish", "reopen"} -> draft.contacts
                     [] c.kind = "revoke" -> contacts \ {c.channel}
                     [] OTHER -> contacts
    /\ withdrawn' = CASE c.kind = "update" /\ command[q].version = row.version
                           -> withdrawn \ c.fields.contacts
                      [] c.kind = "revoke" -> withdrawn \cup {c.channel}
                      [] OTHER -> withdrawn

\* _receipt: an applied request is answered from its receipt; another one must
\* carry the version of the row.
Current(q) == q \notin receipts /\ command[q].version = row.version

\* Mutant of Replays: a request is looked up by the version it carries.
ReplaysNever(q) == FALSE

Replays(q) == q \in receipts

\* One arrival of a request, the first or a retry.
Arrive(q) ==
    /\ command[q] # NoRequest /\ ownerActive /\ ~Replays(q)
    /\ LET c == command[q].act IN
         \/ Current(q) /\ Suits(c) /\ Apply(q, c) /\ UNCHANGED refused
         \/ /\ ~(Current(q) /\ Suits(c))
            /\ refused' = refused \cup {q}
            /\ UNCHANGED <<draft, row, contacts, receipts, withdrawn>>
    /\ UNCHANGED <<now, ownerActive, command, found, reminders, sent>>

-------------------------------------------------------------------------------
(* The scheduler and the delivery of reminders *)

\* scan_due lists the post; whatever happens next, it is served later.
Scan ==
    /\ ~found /\ row.status = "OPEN"
    /\ \/ row.deadline # 0 /\ row.deadline <= now
       \/ row.deadline = 0 /\ row.remind # 0 /\ row.remind <= now /\ Effective
    /\ found' = TRUE
    /\ UNCHANGED <<now, ownerActive, draft, row, contacts, command, receipts, refused,
                   withdrawn, reminders, sent>>

Expirable == row.status = "OPEN" /\ row.deadline # 0 /\ now >= row.deadline

Remindable == row.deadline = 0 /\ row.remind # 0 /\ now >= row.remind /\ Effective

\* expire_if_due, or else remind_if_due, or else nothing.
Expire ==
    /\ found /\ Expirable
    /\ row' = [row EXCEPT !.status = "EXPIRED", !.version = @ + 1]
    /\ found' = FALSE
    /\ UNCHANGED <<now, ownerActive, draft, contacts, command, receipts, refused, withdrawn,
                   reminders, sent>>

\* next_reminder_due: the first one in the future, missed ones skipped.
NextDue(due) == IF now < due THEN due ELSE due + ((now - due) \div Period + 1) * Period

Remind ==
    /\ found /\ ~Expirable /\ Remindable
    /\ reminders' = reminders \cup {[cycle |-> row.cycle, due |-> row.remind, at |-> now]}
    /\ row' = [row EXCEPT !.remind = NextDue(row.remind), !.version = @ + 1]
    /\ found' = FALSE
    /\ UNCHANGED <<now, ownerActive, draft, contacts, command, receipts, refused, withdrawn, sent>>

Skip ==
    /\ found /\ ~Expirable /\ ~Remindable
    /\ found' = FALSE
    /\ UNCHANGED <<now, ownerActive, draft, row, contacts, command, receipts, refused, withdrawn,
                   reminders, sent>>

\* The delivery job asks lock_current_reminder before it sends.
SendReminder(m) ==
    /\ m \in reminders \ sent
    /\ m.cycle = row.cycle /\ row.deadline = 0 /\ Effective
    /\ sent' = sent \cup {m}
    /\ UNCHANGED <<now, ownerActive, draft, row, contacts, command, receipts, refused, withdrawn,
                   found, reminders>>

ToggleOwner ==
    /\ ownerActive' = ~ownerActive
    /\ UNCHANGED <<now, draft, row, contacts, command, receipts, refused, withdrawn, found,
                   reminders, sent>>

Pass ==
    /\ now < MaxNow /\ now' = now + 1
    /\ UNCHANGED <<ownerActive, draft, row, contacts, command, receipts, refused, withdrawn,
                   found, reminders, sent>>

Commands ==
    {[kind |-> k] : k \in {"publish", "reopen", "close", "confirm"}}
      \cup [kind : {"update"}, fields : [contacts : SUBSET Channels, deadline : Deadlines]]
      \cup [kind : {"revoke"}, channel : Channels, last : BOOLEAN]

OwnerRequests == \E q \in Requests : Arrive(q) \/ \E c \in Commands : Compose(q, c)

ScanNext == Scan \/ Expire \/ Remind \/ Skip

RecruitmentNext ==
    \/ OwnerRequests \/ ScanNext
    \/ \E m \in reminders : SendReminder(m)
    \/ ToggleOwner \/ Pass

RecruitmentSpec == RecruitmentInit /\ [][RecruitmentNext]_recruitmentVars

-------------------------------------------------------------------------------
(* Properties *)

RecruitmentTypeOK ==
    /\ now \in 1 .. MaxNow /\ ownerActive \in BOOLEAN /\ found \in BOOLEAN
    /\ draft \in [contacts : SUBSET Channels, deadline : Deadlines]
    /\ row.status \in {"DRAFT", "OPEN", "CLOSED", "EXPIRED"}
    /\ row.version \in Nat /\ row.cycle \in Nat /\ row.deadline \in Deadlines
    /\ row.remind \in Nat /\ row.confirmed \in 0 .. now
    /\ contacts \subseteq Channels /\ withdrawn \subseteq Channels
    /\ \A q \in Requests : command[q] = NoRequest \/ command[q].act \in Commands
    /\ receipts \subseteq Requests /\ refused \subseteq Requests
    /\ sent \subseteq reminders

\* A channel the owner has revoked is neither shown nor offered by the draft
\* again because of a form filled in before, whichever tab it comes from
\* (recruitment_service.py _receipt, _revoke).
RevokedStaysHidden == (contacts \cup draft.contacts) \cap withdrawn = {}

\* An applied command is never refused afterwards, however often it is sent
\* again and whatever happened in between (recruitment_service.py _receipt).
AppliedIsNotRefused ==
    [][\A q \in receipts : q \in refused' => q \in refused]_recruitmentVars

\* A post is EXPIRED only when the deadline it carries has passed: reopening
\* one that a scan has listed is not undone (recruitment_scheduler.py
\* expire_if_due).
ExpiredIsPast == row.status = "EXPIRED" => row.deadline # 0 /\ row.deadline <= now

\* An open post can be answered: it keeps a contact, also when two channels
\* are revoked from two tabs (recruitment_service.py _revoke).
OpenCanBeAnswered == row.status = "OPEN" => contacts # {}

\* The owner gets one reminder at a time: late scans do not make up for missed
\* ones (recruitment_scheduler.py next_reminder_due).
NoReminderBurst ==
    \A m, n \in reminders : m.cycle = n.cycle /\ m.at = n.at => m = n

\* A reminder that goes out is due after the owner's last confirmation, of a
\* post that is open (recruitment_scheduler.py lock_current_reminder).
ConfirmedIsNotAsked ==
    [][\A m \in sent' \ sent : row.status = "OPEN" /\ row.confirmed < m.due]_recruitmentVars

\* A post keeps its promises to the owner under repeated commands, stale tabs
\* and late scans: what was revoked stays hidden, what was applied is not
\* refused, what was reopened is not expired, what was confirmed is not asked.
RecruitmentContract ==
    /\ [](/\ RecruitmentTypeOK
          /\ RevokedStaysHidden
          /\ ExpiredIsPast
          /\ OpenCanBeAnswered
          /\ NoReminderBurst)
    /\ AppliedIsNotRefused
    /\ ConfirmedIsNotAsked

=============================================================================
