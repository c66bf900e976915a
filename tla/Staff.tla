--------------------------------- MODULE Staff ---------------------------------
(***************************************************************************)
(* A staff account (identity/staff_service.py): the invitation links of one *)
(* address, the account one of them makes, and the binding of its           *)
(* authenticator from several windows.  Invitations and credentials are     *)
(* read and written under their row lock, one action each; only the first   *)
(* insert of a credential has no row to lock.                               *)
(***************************************************************************)
EXTENDS Integers, FiniteSets

CONSTANTS
    Invitations,   \* invitations sent to that address
    Windows,       \* browser windows of the invitee
    MaxLinks,      \* bound on the links sent for one invitation
    MaxSecrets,    \* bound on the secrets drawn
    Nobody

ASSUME StaffAssumption ==
    /\ Nobody \notin Invitations \cup {"TEACHER", "ADMIN"}
    /\ MaxLinks \in Nat \ {0} /\ MaxSecrets \in Nat \ {0}

VARIABLES
    holder,    \* role of the account of the address; Nobody before it is made
    invite,    \* role, last link sent and state of each invitation
    opened,    \* the invitation and link the account was made with
    drawn,     \* secrets drawn so far; a secret is its number
    totp,      \* the credential row: its secret, 0 for no row, and confirmed
    window,    \* the secret each window shows, -1 while its insert waits
    proven,    \* the secret whose code was accepted
    codes,     \* generation of the stored recovery codes, 0 for none
    handed     \* generations that were shown to somebody

staffVars == <<holder, invite, opened, drawn, totp, window, proven, codes, handed>>
invitationVars == <<invite, opened>>
credentialVars == <<drawn, totp, window, proven, codes, handed>>

Enrolled == holder # Nobody

StaffInit ==
    /\ holder = Nobody
    /\ invite = [i \in Invitations |-> [role |-> Nobody, link |-> 0, state |-> "none"]]
    /\ opened = [by |-> Nobody, link |-> 0]
    /\ drawn = 0 /\ totp = [secret |-> 0, confirmed |-> FALSE]
    /\ window = [w \in Windows |-> 0] /\ proven = 0 /\ codes = 0 /\ handed = {}

-----------------------------------------------------------------------------
(* Invitations.                                                            *)

Invite(i, role) ==
    /\ invite[i].state = "none" /\ ~Enrolled
    /\ invite' = [invite EXCEPT ![i] = [role |-> role, link |-> 1, state |-> "open"]]
    /\ UNCHANGED <<holder, opened, credentialVars>>

\* Mutant of Revocable: an accepted invitation is revoked as well.
RevocableAlways(i) == invite[i].state \in {"open", "expired", "accepted"}

Revocable(i) == invite[i].state \in {"open", "expired"}

RevokeInvitation(i) ==
    /\ Revocable(i)
    /\ invite' = [invite EXCEPT ![i].state = "revoked"]
    /\ UNCHANGED <<holder, opened, credentialVars>>

\* A new link, which also revives a revoked or an expired invitation.
ResendInvitation(i) ==
    /\ invite[i].state \in {"open", "expired", "revoked"} /\ invite[i].link < MaxLinks
    /\ invite' = [invite EXCEPT ![i].state = "open", ![i].link = @ + 1]
    /\ UNCHANGED <<holder, opened, credentialVars>>

ExpireInvitation(i) ==
    /\ invite[i].state = "open"
    /\ invite' = [invite EXCEPT ![i].state = "expired"]
    /\ UNCHANGED <<holder, opened, credentialVars>>

AddressFree == ~Enrolled

\* The account and the end of the invitation are one transaction.
AcceptInvitation(i, link) ==
    /\ invite[i].state = "open" /\ link = invite[i].link
    /\ AddressFree
    /\ holder' = invite[i].role
    /\ invite' = [invite EXCEPT ![i].state = "accepted"]
    /\ opened' = [by |-> i, link |-> link]
    /\ UNCHANGED <<credentialVars>>

-----------------------------------------------------------------------------
(* The authenticator.                                                      *)

Draw(w) == /\ drawn < MaxSecrets
           /\ drawn' = drawn + 1

\* A row that is there is locked, and its secret replaced unless confirmed.
BeginOnRow(w) ==
    /\ Enrolled /\ totp.secret # 0 /\ ~totp.confirmed /\ window[w] # -1
    /\ Draw(w)
    /\ totp' = [totp EXCEPT !.secret = drawn + 1]
    /\ window' = [window EXCEPT ![w] = drawn + 1]
    /\ UNCHANGED <<holder, invitationVars, proven, codes, handed>>

\* No row can be locked: two windows may both be about to insert it.
BeginFresh(w) ==
    /\ Enrolled /\ totp.secret = 0
    /\ window' = [window EXCEPT ![w] = -1]
    /\ UNCHANGED <<holder, invitationVars, drawn, totp, proven, codes, handed>>

Overwritable == ~totp.confirmed

\* The insert, or after its conflict the row of the winner under its lock.
InsertCredential(w) ==
    /\ window[w] = -1 /\ Overwritable
    /\ Draw(w)
    /\ totp' = [totp EXCEPT !.secret = drawn + 1]
    /\ window' = [window EXCEPT ![w] = drawn + 1]
    /\ UNCHANGED <<holder, invitationVars, proven, codes, handed>>

InsertRefused(w) ==
    /\ window[w] = -1 /\ ~Overwritable
    /\ window' = [window EXCEPT ![w] = 0]
    /\ UNCHANGED <<holder, invitationVars, drawn, totp, proven, codes, handed>>

Confirmable(w) == totp.secret # 0 /\ ~totp.confirmed /\ window[w] = totp.secret

\* Eight new recovery codes replace the stored ones and are shown once.
ConfirmTotp(w) ==
    /\ Enrolled /\ Confirmable(w)
    /\ totp' = [totp EXCEPT !.confirmed = TRUE] /\ proven' = totp.secret
    /\ codes' = Cardinality(handed) + 1 /\ handed' = handed \cup {Cardinality(handed) + 1}
    /\ UNCHANGED <<holder, invitationVars, drawn, window>>

-----------------------------------------------------------------------------
StaffNext ==
    \/ \E i \in Invitations :
           \/ \E role \in {"TEACHER", "ADMIN"} : Invite(i, role)
           \/ RevokeInvitation(i) \/ ResendInvitation(i) \/ ExpireInvitation(i)
           \/ \E link \in 1..MaxLinks : AcceptInvitation(i, link)
    \/ \E w \in Windows : \/ BeginOnRow(w) \/ BeginFresh(w) \/ InsertCredential(w)
                          \/ InsertRefused(w) \/ ConfirmTotp(w)

StaffSpec == StaffInit /\ [][StaffNext]_staffVars

-----------------------------------------------------------------------------
StaffTypeOK ==
    /\ holder \in {"TEACHER", "ADMIN", Nobody}
    /\ invite \in [Invitations -> [role : {"TEACHER", "ADMIN", Nobody}, link : 0..MaxLinks,
                      state : {"none", "open", "expired", "revoked", "accepted"}]]
    /\ opened \in [by : Invitations \cup {Nobody}, link : 0..MaxLinks]
    /\ drawn \in 0..MaxSecrets /\ totp \in [secret : 0..MaxSecrets, confirmed : BOOLEAN]
    /\ window \in [Windows -> -1..MaxSecrets] /\ proven \in 0..MaxSecrets
    /\ codes \in Nat /\ handed \subseteq 1..codes /\ (totp.confirmed <=> codes # 0)

\* However links are resent, revoked and used, the account of the address came
\* from exactly one invitation, through its newest link, and that invitation
\* stays accepted (accept_staff_invitation under the invitation's lock).
AccountFromOneLink ==
    /\ Enrolled <=> opened.by # Nobody
    /\ {i \in Invitations : invite[i].state = "accepted"} = {opened.by} \ {Nobody}
    /\ Enrolled => opened.link = invite[opened.by].link

\* A confirmed authenticator is the one whose code was checked, also when two
\* windows set it up together and one loses the insert (begin_totp_setup).
ConfirmedIsProven == totp.confirmed => totp.secret = proven

\* Recovery codes that were shown are the ones that are stored: a second
\* confirmation does not silently replace them (confirm_totp_setup).
ShownCodesWork == \A g \in handed : g = codes

\* An invited account comes from one link and carries the authenticator that
\* was proved and the recovery codes that were shown.
EnrolmentSound ==
    /\ StaffTypeOK
    /\ AccountFromOneLink
    /\ ConfirmedIsProven
    /\ ShownCodesWork

=============================================================================
