---------------------------- MODULE IdentityProofs ----------------------------
(***************************************************************************)
(* Proofs about the staff and administration modules, and about sessions    *)
(* and the ways to one: for any number of invitations, reviewers,           *)
(* administrators, clients and codes, what the runs of MCIdentity check on  *)
(* a few.                                                                   *)
(***************************************************************************)
EXTENDS Staff, Delegation, AdminRoles, Sessions, Doors, Otp, FiniteSetTheorems,
        NaturalsInduction, WellFoundedInduction, TLAPS

-----------------------------------------------------------------------------
(* The enrolment of a staff account.                                       *)

\* An invitation that was sent carries a role: without it the account of an
\* accepted one would not be told from no account.
InvitedHasRole == \A i \in Invitations : invite[i].state # "none" => invite[i].role # Nobody

EnrolmentInv == EnrolmentSound /\ InvitedHasRole

Invites == [role : {"TEACHER", "ADMIN", Nobody}, link : 0..MaxLinks,
            state : {"none", "open", "expired", "revoked", "accepted"}]

AccountTyped ==
    /\ holder \in {"TEACHER", "ADMIN", Nobody}
    /\ invite \in [Invitations -> Invites]
    /\ opened \in [by : Invitations \cup {Nobody}, link : 0..MaxLinks]
AuthenticatorTyped ==
    /\ drawn \in 0..MaxSecrets /\ totp \in [secret : 0..MaxSecrets, confirmed : BOOLEAN]
    /\ window \in [Windows -> -1..MaxSecrets] /\ proven \in 0..MaxSecrets
    /\ codes \in Nat /\ handed \subseteq 1..codes /\ (totp.confirmed <=> codes # 0)

AccountSound == AccountTyped /\ AccountFromOneLink /\ InvitedHasRole
AuthenticatorSound == AuthenticatorTyped /\ ConfirmedIsProven /\ ShownCodesWork

LEMMA EnrolmentParts == EnrolmentInv <=> AccountSound /\ AuthenticatorSound
BY DEF EnrolmentInv, EnrolmentSound, StaffTypeOK, AccountSound, AuthenticatorSound, AccountTyped,
   AuthenticatorTyped, Invites

LEMMA InvitationsStep ==
    ASSUME AccountSound, NEW i \in Invitations,
           \/ \E role \in {"TEACHER", "ADMIN"} : Invite(i, role)
           \/ RevokeInvitation(i) \/ ResendInvitation(i) \/ ExpireInvitation(i)
           \/ \E link \in 1..MaxLinks : AcceptInvitation(i, link)
    PROVE  AccountSound'
<1> USE StaffAssumption DEF AccountSound, Enrolled
<1>1. ASSUME NEW role \in {"TEACHER", "ADMIN"}, Invite(i, role) PROVE AccountSound'
  <2>1. AccountTyped' BY <1>1 DEF Invite, AccountTyped, Invites
  <2> QED BY <1>1, <2>1 DEF Invite, AccountTyped, Invites, AccountFromOneLink, InvitedHasRole
<1>2. ASSUME RevokeInvitation(i) PROVE AccountSound'
  <2>1. AccountTyped' BY <1>2 DEF RevokeInvitation, AccountTyped, Invites
  <2> QED BY <1>2, <2>1 DEF RevokeInvitation, Revocable, AccountTyped, Invites,
             AccountFromOneLink, InvitedHasRole
<1>3. ASSUME ResendInvitation(i) PROVE AccountSound'
  <2>1. AccountTyped' BY <1>3 DEF ResendInvitation, AccountTyped, Invites
  <2> QED BY <1>3, <2>1 DEF ResendInvitation, AccountTyped, Invites, AccountFromOneLink,
             InvitedHasRole
<1>4. ASSUME ExpireInvitation(i) PROVE AccountSound'
  <2>1. AccountTyped' BY <1>4 DEF ExpireInvitation, AccountTyped, Invites
  <2> QED BY <1>4, <2>1 DEF ExpireInvitation, AccountTyped, Invites, AccountFromOneLink,
             InvitedHasRole
<1>5. ASSUME NEW link \in 1..MaxLinks, AcceptInvitation(i, link) PROVE AccountSound'
  <2>1. AccountTyped' BY <1>5 DEF AcceptInvitation, AccountTyped, Invites
  <2>2. opened.by = Nobody /\ holder' # Nobody /\ opened' = [by |-> i, link |-> link]
    BY <1>5 DEF AcceptInvitation, AddressFree, AccountFromOneLink, InvitedHasRole, AccountTyped,
                Invites
  <2>3. \A j \in Invitations : invite'[j].state = "accepted" <=> j = i
    BY <1>5, <2>2 DEF AcceptInvitation, AccountTyped, Invites, AccountFromOneLink
  <2>4. invite'[i].link = link /\ InvitedHasRole'
    BY <1>5 DEF AcceptInvitation, AccountTyped, Invites, InvitedHasRole
  <2> QED BY <2>1, <2>2, <2>3, <2>4 DEF AccountFromOneLink
<1> QED BY <1>1, <1>2, <1>3, <1>4, <1>5

LEMMA AuthenticatorStep ==
    ASSUME AuthenticatorSound, NEW w \in Windows,
           \/ BeginOnRow(w) \/ BeginFresh(w) \/ InsertCredential(w)
           \/ InsertRefused(w) \/ ConfirmTotp(w)
    PROVE  AuthenticatorSound'
<1> USE StaffAssumption DEF AuthenticatorSound, AuthenticatorTyped
<1>1. CASE BeginOnRow(w)
  BY <1>1 DEF BeginOnRow, Draw, ConfirmedIsProven, ShownCodesWork
<1>2. CASE BeginFresh(w)
  BY <1>2 DEF BeginFresh, ConfirmedIsProven, ShownCodesWork
<1>3. CASE InsertCredential(w)
  BY <1>3 DEF InsertCredential, Overwritable, Draw, ConfirmedIsProven, ShownCodesWork
<1>4. CASE InsertRefused(w)
  BY <1>4 DEF InsertRefused, ConfirmedIsProven, ShownCodesWork
<1>5. CASE ConfirmTotp(w)
  <2>1. handed = {}
    BY <1>5 DEF ConfirmTotp, Confirmable
  <2>2. Cardinality(handed) = 0
    BY <2>1, FS_EmptySet
  <2>3. codes' = 1 /\ handed' = {1}
    BY <1>5, <2>1, <2>2 DEF ConfirmTotp
  <2>4. totp'.confirmed /\ totp'.secret = proven' /\ proven' \in 0..MaxSecrets
    BY <1>5 DEF ConfirmTotp
  <2>5. /\ drawn' \in 0..MaxSecrets /\ window' \in [Windows -> -1..MaxSecrets]
        /\ totp' \in [secret : 0..MaxSecrets, confirmed : BOOLEAN]
    BY <1>5 DEF ConfirmTotp
  <2> QED BY <2>3, <2>4, <2>5 DEF ConfirmedIsProven, ShownCodesWork
<1> QED BY <1>1, <1>2, <1>3, <1>4, <1>5

\* An account comes from one link of one invitation, and its authenticator is
\* the proved one with the recovery codes that were shown, however many
\* invitations are sent and windows are open (staff_service.py).
THEOREM EnrolmentAlwaysSound == StaffSpec => []EnrolmentSound
<1>1. StaffInit => EnrolmentInv
  BY StaffAssumption DEF StaffInit, EnrolmentInv, EnrolmentSound, StaffTypeOK, AccountFromOneLink,
     Enrolled, ConfirmedIsProven, ShownCodesWork, InvitedHasRole
<1>2. ASSUME EnrolmentInv, [StaffNext]_staffVars PROVE EnrolmentInv'
  <2>a. AccountSound /\ AuthenticatorSound BY <1>2, EnrolmentParts
  <2>b. ASSUME AccountSound', AuthenticatorSound' PROVE EnrolmentInv'
    BY <2>b DEF EnrolmentInv, EnrolmentSound, StaffTypeOK, AccountSound, AuthenticatorSound,
       AccountTyped, AuthenticatorTyped, Invites
  <2>1. ASSUME NEW i \in Invitations,
               \/ \E role \in {"TEACHER", "ADMIN"} : Invite(i, role)
               \/ RevokeInvitation(i) \/ ResendInvitation(i) \/ ExpireInvitation(i)
               \/ \E link \in 1..MaxLinks : AcceptInvitation(i, link)
        PROVE  EnrolmentInv'
    <3>1. AccountSound' BY <2>a, <2>1, InvitationsStep
    <3>2. UNCHANGED credentialVars
      BY <2>1 DEF Invite, RevokeInvitation, ResendInvitation, ExpireInvitation, AcceptInvitation
    <3> QED BY <2>a, <2>b, <3>1, <3>2 DEF credentialVars, AuthenticatorSound, AuthenticatorTyped,
               ConfirmedIsProven, ShownCodesWork
  <2>2. ASSUME NEW w \in Windows, \/ BeginOnRow(w) \/ BeginFresh(w) \/ InsertCredential(w)
                                  \/ InsertRefused(w) \/ ConfirmTotp(w)
        PROVE  EnrolmentInv'
    <3>1. AuthenticatorSound' BY <2>a, <2>2, AuthenticatorStep
    <3>2. UNCHANGED <<holder, invitationVars>>
      BY <2>2 DEF BeginOnRow, BeginFresh, InsertCredential, InsertRefused, ConfirmTotp
    <3> QED BY <2>a, <2>b, <3>1, <3>2 DEF invitationVars, AccountSound, AccountTyped, AccountFromOneLink,
               Enrolled, InvitedHasRole
  <2>3. CASE UNCHANGED staffVars
    BY <1>2, <2>3 DEF staffVars, EnrolmentInv, EnrolmentSound, StaffTypeOK, AccountFromOneLink,
       Enrolled, ConfirmedIsProven, ShownCodesWork, InvitedHasRole
  <2> QED BY <1>2, <2>1, <2>2, <2>3 DEF StaffNext
<1>3. EnrolmentInv => EnrolmentSound BY DEF EnrolmentInv
<1> QED BY <1>1, <1>2, <1>3, PTL DEF StaffSpec

-----------------------------------------------------------------------------
(* The delegation of reward reviews.                                       *)

Serials == 1..MaxGrants \cup {NoGrant}
ErrandRows == [act : {"grant", "revoke", "deleted"}, of : Reviewers, seen : Serials, found : Serials]
AuditRows == [action : {"GRANTED", "REVOKED"}, of : Reviewers, serial : Serials, found : Serials]
VerdictRows == [of : Reviewers, since : Nat]

DelegationTyped ==
    /\ grant \in [Reviewers -> Serials] /\ inserted \in 0..MaxGrants
    /\ errand \in [Errands -> ErrandRows \cup {NoErrand}]
    /\ verdict \in [Verdicts -> VerdictRows \cup {NoErrand}]
    /\ history \in Seq(AuditRows) /\ Len(history) <= MaxHistory

\* Serials are never reused: whoever has seen one, saw one that was inserted.
Given(s) == s # NoGrant => s <= inserted

\* A revocation that deleted holds the row of its teacher; one that found none
\* comes after the grant it has seen is gone.
ErrandSound(e) ==
    errand[e] # NoErrand =>
        /\ Given(errand[e].seen)
        /\ errand[e].act # "deleted" => errand[e].found = NoGrant
        /\ errand[e].act # "grant" => errand[e].seen # NoGrant
        /\ errand[e].found \in {NoGrant, grant[errand[e].of]}
        /\ errand[e].act = "deleted" /\ errand[e].found = NoGrant =>
               grant[errand[e].of] # errand[e].seen

\* What is deleted and not committed is locked.
OneDeletes ==
    \A e, f \in Errands :
        /\ errand[e] # NoErrand /\ errand[e].found # NoGrant
        /\ errand[f] # NoErrand /\ errand[f].found # NoGrant
        /\ errand[e].of = errand[f].of
        => e = f

\* A grant in force has the audit row that gave it.
GrantSound(u) ==
    grant[u] # NoGrant =>
        /\ grant[u] <= inserted
        /\ \E n \in 1..Len(history) :
               history[n].action = "GRANTED" /\ history[n].of = u /\ history[n].serial = grant[u]

\* An audit row names grants of the past; what it says was found is not there.
HistoryRowSound(n) ==
    /\ history[n].serial # NoGrant
    /\ history[n].action = "REVOKED" => Given(history[n].serial)
    /\ history[n].found # NoGrant => Given(history[n].found) /\ grant[history[n].of] # history[n].found

DelegationInv ==
    /\ DelegationTyped /\ OneDeletes
    /\ \A e \in Errands : ErrandSound(e)
    /\ \A u \in Reviewers : GrantSound(u)
    /\ \A n \in 1..Len(history) : HistoryRowSound(n)
    /\ HistoryExplains /\ RevokedIsGone

LEMMA DelegationStart == DelegationInit => DelegationInv
BY DelegationAssumption DEF DelegationInit, DelegationInv, DelegationTyped, Serials, ErrandRows,
   AuditRows, VerdictRows, OneDeletes, ErrandSound, GrantSound, HistoryRowSound, HistoryExplains,
   RevokedIsGone

LEMMA ReadsKeep ==
    ASSUME DelegationInv, NEW e \in Errands, NEW j \in ErrandRows \cup {NoErrand},
           errand' = [errand EXCEPT ![e] = j], UNCHANGED <<grant, verdict, history, inserted>>,
           j # NoErrand =>
               /\ Given(j.seen) /\ j.found = NoGrant
               /\ j.act = "grant" \/ (j.act = "revoke" /\ j.seen # NoGrant)
    PROVE  DelegationInv'
<1>1. DelegationTyped' BY DEF DelegationInv, DelegationTyped
<1>2. OneDeletes' BY DEF DelegationInv, DelegationTyped, OneDeletes
<1>3. ASSUME NEW f \in Errands PROVE ErrandSound(f)'
  BY <1>3 DEF DelegationInv, DelegationTyped, ErrandSound, Given
<1>4. /\ (\A u \in Reviewers : GrantSound(u))' /\ (\A n \in 1..Len(history) : HistoryRowSound(n))'
      /\ HistoryExplains' /\ RevokedIsGone'
  BY DEF DelegationInv, GrantSound, HistoryRowSound, HistoryExplains, RevokedIsGone, Given
<1> QED BY <1>1, <1>2, <1>3, <1>4 DEF DelegationInv

LEMMA DeleteKeeps ==
    ASSUME DelegationInv, NEW e \in Errands, DeleteRow(e)
    PROVE  DelegationInv'
<1> DEFINE u == errand[e].of
           j == errand'[e]
<1>0. errand[e] \in ErrandRows /\ errand[e] # NoErrand /\ u \in Reviewers /\ grant[u] \in Serials
  BY DEF DelegationInv, DelegationTyped, DeleteRow, ErrandRows
<1>1. /\ errand[e].act = "revoke" /\ ~RowHeld(u) /\ UNCHANGED <<grant, verdict, history, inserted>>
      /\ \A f \in Errands : f # e => errand'[f] = errand[f]
  BY DEF DelegationInv, DelegationTyped, DeleteRow
<1>2. /\ j.act = "deleted" /\ j.of = u /\ j.seen = errand[e].seen /\ j.found = grant[u]
      /\ j \in ErrandRows /\ errand' \in [Errands -> ErrandRows \cup {NoErrand}]
  BY <1>0 DEF DelegationInv, DelegationTyped, DeleteRow, Deleting, ErrandRows
<1> HIDE DEF u, j
<1>3. DelegationTyped' BY <1>1, <1>2 DEF DelegationInv, DelegationTyped
<1>4. OneDeletes'
  <2>1. \A f \in Errands : errand[f] # NoErrand /\ errand[f].of = u => errand[f].found = NoGrant
    BY <1>1 DEF RowHeld
  <2> QED BY <1>1, <1>2, <2>1 DEF DelegationInv, OneDeletes, j
<1>5. ASSUME NEW f \in Errands PROVE ErrandSound(f)'
  <2>1. CASE f = e
    <3>1. ErrandSound(e) BY DEF DelegationInv
    <3>2. j.seen <= inserted' /\ j.seen # NoGrant /\ j.found = grant'[j.of]
      BY <1>0, <1>1, <1>2, <3>1 DEF ErrandSound, Given
    <3>3. j.found = NoGrant => grant'[j.of] # j.seen BY <3>2
    <3> QED BY <1>2, <2>1, <3>2, <3>3 DEF ErrandSound, Given, j
  <2>2. CASE f # e
    BY <1>1, <2>2 DEF DelegationInv, DelegationTyped, ErrandSound, Given
  <2> QED BY <2>1, <2>2
<1>6. /\ (\A v \in Reviewers : GrantSound(v))' /\ (\A n \in 1..Len(history) : HistoryRowSound(n))'
      /\ HistoryExplains' /\ RevokedIsGone'
  BY <1>1 DEF DelegationInv, GrantSound, HistoryRowSound, HistoryExplains, RevokedIsGone, Given
<1> QED BY <1>3, <1>4, <1>5, <1>6 DEF DelegationInv

LEMMA RowAppended ==
    ASSUME history \in Seq(AuditRows), NEW row \in AuditRows, history' = Append(history, row)
    PROVE  /\ history' \in Seq(AuditRows) /\ Len(history') = Len(history) + 1
           /\ \A n \in 1..Len(history) : history'[n] = history[n]
           /\ history'[Len(history) + 1] = row
OBVIOUS

LEMMA GrantKeeps ==
    ASSUME DelegationInv, NEW e \in Errands, FinishGrant(e), KeyFree(errand[e].of)
    PROVE  DelegationInv'
<1> DEFINE u == errand[e].of
           s == inserted + 1
           row == Row("GRANTED", u, s, NoGrant)
           len == Len(history)
<1> USE DelegationAssumption
<1>1. /\ errand[e] # NoErrand /\ u \in Reviewers /\ errand' = [errand EXCEPT ![e] = NoErrand]
      /\ grant[u] = NoGrant /\ grant' = [grant EXCEPT ![u] = s] /\ inserted' = s
      /\ inserted < MaxGrants /\ len < MaxHistory /\ history' = Append(history, row)
      /\ verdict' = verdict /\ ~RowHeld(u)
  BY DEF DelegationInv, DelegationTyped, FinishGrant, KeyFree, ErrandRows
<1>2. s \in 1..MaxGrants /\ s \in Serials /\ row \in AuditRows /\ len \in Nat
      /\ inserted \in Nat /\ s # NoGrant /\ ~(s <= inserted)
  BY <1>1 DEF DelegationInv, DelegationTyped, Serials, Row, AuditRows
<1>3. /\ history' \in Seq(AuditRows) /\ Len(history') = len + 1
      /\ \A n \in 1..len : history'[n] = history[n]
      /\ history'[len + 1] = row
  BY <1>1, <1>2, RowAppended DEF DelegationInv, DelegationTyped
<1>4. /\ \A v \in Reviewers : grant'[v] = IF v = u THEN s ELSE grant[v]
      /\ \A f \in Errands : errand'[f] = IF f = e THEN NoErrand ELSE errand[f]
  BY <1>1 DEF DelegationInv, DelegationTyped
<1>5. row.action = "GRANTED" /\ row.of = u /\ row.serial = s /\ row.found = NoGrant
  BY DEF Row
<1> HIDE DEF u, s, row, len
<1>6. DelegationTyped'
  BY <1>1, <1>2, <1>3 DEF DelegationInv, DelegationTyped
<1>7. OneDeletes' BY <1>4 DEF DelegationInv, OneDeletes
<1>8. ASSUME NEW x \in Serials, Given(x) PROVE Given(x)' /\ x # s
  BY <1>1, <1>2, <1>8 DEF Given, Serials, DelegationInv, DelegationTyped
<1>9. ASSUME NEW f \in Errands PROVE ErrandSound(f)'
  <2> SUFFICES ASSUME errand'[f] # NoErrand PROVE ErrandSound(f)' BY DEF ErrandSound
  <2>1. f # e /\ errand'[f] = errand[f] /\ ErrandSound(f) /\ errand[f] \in ErrandRows
    BY <1>4 DEF DelegationInv, DelegationTyped
  <2>2. errand[f].of \in Reviewers /\ errand[f].seen \in Serials BY <2>1 DEF ErrandRows
  <2>3. errand[f].of = u => errand[f].found = NoGrant BY <1>1, <2>1 DEF RowHeld
  <2>4. Given(errand[f].seen)' /\ errand[f].seen # s BY <1>8, <2>1, <2>2 DEF ErrandSound
  <2> QED BY <1>4, <2>1, <2>2, <2>3, <2>4 DEF ErrandSound, Given
<1>10. ASSUME NEW v \in Reviewers PROVE GrantSound(v)'
  <2>1. CASE v = u
    <3>1. grant'[v] = s /\ history'[len + 1] = row /\ len + 1 \in 1..Len(history')
      BY <1>2, <1>3, <1>4, <2>1
    <3>2. s <= inserted' BY <1>1, <1>2
    <3> QED BY <1>5, <2>1, <3>1, <3>2 DEF GrantSound
  <2>2. CASE v # u
    BY <1>1, <1>2, <1>3, <1>4, <2>2 DEF GrantSound, DelegationInv, DelegationTyped, Serials
  <2> QED BY <2>1, <2>2
<1>11. ASSUME NEW n \in 1..Len(history') PROVE HistoryRowSound(n)'
  <2>1. CASE n = len + 1 BY <1>1, <1>2, <1>3, <1>5, <2>1 DEF HistoryRowSound, Given
  <2>2. CASE n \in 1..len
    <3>1. HistoryRowSound(n) /\ history'[n] = history[n] /\ history[n] \in AuditRows
      BY <1>3, <2>2 DEF DelegationInv, DelegationTyped, len
    <3>2. history[n].of \in Reviewers /\ history[n].serial \in Serials /\ history[n].found \in Serials
      BY <3>1 DEF AuditRows
    <3> QED BY <1>4, <1>8, <3>1, <3>2 DEF HistoryRowSound, Given
  <2> QED BY <1>2, <1>3, <2>1, <2>2
<1>12. HistoryExplains'
  <2> SUFFICES ASSUME NEW n \in 1..Len(history'), history'[n].action = "GRANTED"
               PROVE  \/ grant'[history'[n].of] = history'[n].serial
                      \/ \E k \in n..Len(history') :
                            /\ history'[k].action = "REVOKED" /\ history'[k].of = history'[n].of
                            /\ history'[k].found = history'[n].serial
    BY <1>3 DEF HistoryExplains
  <2>1. CASE n = len + 1 BY <1>1, <1>3, <1>4, <1>5, <2>1
  <2>2. CASE n \in 1..len
    <3>1. history'[n] = history[n] /\ n \in DOMAIN history /\ HistoryRowSound(n) /\ history[n] \in AuditRows
      BY <1>3, <2>2 DEF DelegationInv, DelegationTyped, len
    <3>2. CASE grant[history[n].of] = history[n].serial
      BY <1>1, <1>4, <3>1, <3>2 DEF HistoryRowSound, AuditRows
    <3>3. ASSUME NEW k \in n..Len(history), history[k].action = "REVOKED",
                 history[k].of = history[n].of, history[k].found = history[n].serial
          PROVE  \E i \in n..Len(history') :
                    /\ history'[i].action = "REVOKED" /\ history'[i].of = history'[n].of
                    /\ history'[i].found = history'[n].serial
      <4>1. k \in n..Len(history') /\ history'[k] = history[k]
        BY <1>2, <1>3, <2>2, <3>3 DEF len
      <4> QED BY <3>1, <3>3, <4>1
    <3> QED BY <3>1, <3>2, <3>3 DEF DelegationInv, HistoryExplains
  <2> QED BY <1>2, <1>3, <2>1, <2>2
<1>13. RevokedIsGone'
  <2> SUFFICES ASSUME NEW n \in 1..Len(history'), history'[n].action = "REVOKED"
               PROVE  grant'[history'[n].of] # history'[n].serial
    BY <1>3 DEF RevokedIsGone
  <2>1. n \in 1..len BY <1>2, <1>3, <1>5
  <2>2. /\ history'[n] = history[n] /\ n \in DOMAIN history /\ HistoryRowSound(n)
        /\ history[n] \in AuditRows
    BY <1>3, <2>1 DEF DelegationInv, DelegationTyped, len
  <2>3. history[n].serial \in Serials /\ history[n].of \in Reviewers /\ Given(history[n].serial)
    BY <2>2 DEF AuditRows, HistoryRowSound
  <2>4. grant[history[n].of] # history[n].serial BY <2>2 DEF DelegationInv, RevokedIsGone
  <2> QED BY <1>4, <1>8, <2>2, <2>3, <2>4
<1> QED BY <1>6, <1>7, <1>9, <1>10, <1>11, <1>12, <1>13 DEF DelegationInv

LEMMA RevokeKeeps ==
    ASSUME DelegationInv, NEW e \in Errands, CommitRevoke(e)
    PROVE  DelegationInv'
<1> DEFINE u == errand[e].of
           found == errand[e].found
           row == Row("REVOKED", u, errand[e].seen, found)
           len == Len(history)
<1> USE DelegationAssumption
<1>1. /\ errand[e] # NoErrand /\ errand[e] \in ErrandRows /\ errand[e].act = "deleted"
      /\ errand' = [errand EXCEPT ![e] = NoErrand] /\ inserted' = inserted /\ verdict' = verdict
      /\ grant' = IF found = NoGrant THEN grant ELSE [grant EXCEPT ![u] = NoGrant]
      /\ len < MaxHistory /\ history' = Append(history, row) /\ ErrandSound(e)
  BY DEF DelegationInv, DelegationTyped, CommitRevoke
<1>2. /\ u \in Reviewers /\ found \in Serials /\ errand[e].seen \in Serials
      /\ row \in AuditRows /\ len \in Nat /\ NoGrant \in Serials
  BY <1>1 DEF DelegationInv, DelegationTyped, Serials, Row, AuditRows, ErrandRows
<1>3. /\ history' \in Seq(AuditRows) /\ Len(history') = len + 1
      /\ \A n \in 1..len : history'[n] = history[n]
      /\ history'[len + 1] = row
  BY <1>1, <1>2, RowAppended DEF DelegationInv, DelegationTyped
<1>4. /\ \A v \in Reviewers : grant'[v] = IF v = u /\ found # NoGrant THEN NoGrant ELSE grant[v]
      /\ \A f \in Errands : errand'[f] = IF f = e THEN NoErrand ELSE errand[f]
  BY <1>1 DEF DelegationInv, DelegationTyped
<1>5. /\ row.action = "REVOKED" /\ row.of = u /\ row.serial = errand[e].seen /\ row.found = found
      /\ row.serial # NoGrant /\ Given(row.serial) /\ found \in {NoGrant, grant[u]}
      /\ found = NoGrant => grant[u] # row.serial
  BY <1>1 DEF Row, ErrandSound
<1>51. Given(found) BY <1>2, <1>5 DEF DelegationInv, GrantSound, Given
<1>a. \A x : Given(x) => Given(x)' BY <1>1 DEF Given
<1>b. \A v \in Reviewers : grant'[v] # NoGrant => grant'[v] = grant[v]
  BY <1>4
<1> HIDE DEF u, found, row, len
<1>6. DelegationTyped'
  <2>1. grant' \in [Reviewers -> Serials] BY <1>1, <1>2 DEF DelegationInv, DelegationTyped
  <2> QED BY <1>1, <1>2, <1>3, <2>1 DEF DelegationInv, DelegationTyped
<1>7. OneDeletes' BY <1>4 DEF DelegationInv, OneDeletes
<1>9. ASSUME NEW f \in Errands PROVE ErrandSound(f)'
  <2> SUFFICES ASSUME errand'[f] # NoErrand PROVE ErrandSound(f)' BY DEF ErrandSound
  <2>1. f # e /\ errand'[f] = errand[f] /\ ErrandSound(f) /\ errand[f] \in ErrandRows
    BY <1>4 DEF DelegationInv, DelegationTyped
  <2>2. errand[f].of \in Reviewers BY <2>1 DEF ErrandRows
  <2>3. errand[f].of = u /\ found # NoGrant => errand[f].found = NoGrant
    BY <1>1, <2>1 DEF DelegationInv, OneDeletes, u, found
  <2> QED BY <1>4, <1>a, <1>b, <2>1, <2>2, <2>3 DEF ErrandSound
<1>10. ASSUME NEW v \in Reviewers PROVE GrantSound(v)'
  <2> SUFFICES ASSUME grant'[v] # NoGrant PROVE GrantSound(v)' BY DEF GrantSound
  <2>1. grant'[v] = grant[v] /\ GrantSound(v) BY <1>b DEF DelegationInv
  <2>2. PICK n \in 1..len :
            history[n].action = "GRANTED" /\ history[n].of = v /\ history[n].serial = grant[v]
    BY <2>1 DEF GrantSound, len
  <2>3. n \in 1..Len(history') /\ history'[n] = history[n] BY <1>2, <1>3, <2>2
  <2> QED BY <1>1, <2>1, <2>2, <2>3 DEF GrantSound
<1>11. ASSUME NEW n \in 1..Len(history') PROVE HistoryRowSound(n)'
  <2>1. CASE n = len + 1 BY <1>2, <1>3, <1>4, <1>5, <1>51, <1>a, <2>1 DEF HistoryRowSound
  <2>2. CASE n \in 1..len
    <3>1. HistoryRowSound(n) /\ history'[n] = history[n] /\ history[n] \in AuditRows
      BY <1>3, <2>2 DEF DelegationInv, DelegationTyped, len
    <3>2. history[n].of \in Reviewers BY <3>1 DEF AuditRows
    <3> QED BY <1>a, <1>b, <3>1, <3>2 DEF HistoryRowSound
  <2> QED BY <1>2, <1>3, <2>1, <2>2
<1>12. HistoryExplains'
  <2> SUFFICES ASSUME NEW n \in 1..Len(history'), history'[n].action = "GRANTED"
               PROVE  \/ grant'[history'[n].of] = history'[n].serial
                      \/ \E k \in n..Len(history') :
                            /\ history'[k].action = "REVOKED" /\ history'[k].of = history'[n].of
                            /\ history'[k].found = history'[n].serial
    BY <1>3 DEF HistoryExplains
  <2>1. n \in 1..len BY <1>2, <1>3, <1>5
  <2>2. /\ history'[n] = history[n] /\ n \in DOMAIN history /\ HistoryRowSound(n)
        /\ history[n] \in AuditRows
    BY <1>3, <2>1 DEF DelegationInv, DelegationTyped, len
  <2>a. history[n].of \in Reviewers BY <2>2 DEF AuditRows
  <2>3. CASE grant[history[n].of] = history[n].serial
    <3>1. CASE history[n].of = u /\ found # NoGrant
      <4>1. len + 1 \in n..Len(history') BY <1>2, <1>3, <2>1
      <4> QED BY <1>3, <1>5, <2>2, <2>a, <2>3, <3>1, <4>1
    <3>2. CASE ~(history[n].of = u /\ found # NoGrant) BY <1>4, <2>2, <2>a, <2>3, <3>2
    <3> QED BY <3>1, <3>2
  <2>4. ASSUME NEW k \in n..Len(history), history[k].action = "REVOKED",
               history[k].of = history[n].of, history[k].found = history[n].serial
        PROVE  \E i \in n..Len(history') :
                  /\ history'[i].action = "REVOKED" /\ history'[i].of = history'[n].of
                  /\ history'[i].found = history'[n].serial
    <3>1. k \in n..Len(history') /\ history'[k] = history[k]
      BY <1>2, <1>3, <2>1, <2>4 DEF len
    <3> QED BY <2>2, <2>4, <3>1
  <2> QED BY <2>2, <2>3, <2>4 DEF DelegationInv, HistoryExplains
<1>13. RevokedIsGone'
  <2> SUFFICES ASSUME NEW n \in 1..Len(history'), history'[n].action = "REVOKED"
               PROVE  grant'[history'[n].of] # history'[n].serial
    BY <1>3 DEF RevokedIsGone
  <2>1. CASE n = len + 1 BY <1>2, <1>3, <1>4, <1>5, <2>1
  <2>2. CASE n \in 1..len
    <3>1. /\ history'[n] = history[n] /\ n \in DOMAIN history /\ HistoryRowSound(n)
          /\ history[n] \in AuditRows
      BY <1>3, <2>2 DEF DelegationInv, DelegationTyped, len
    <3>2. history[n].of \in Reviewers BY <3>1 DEF AuditRows
    <3> QED BY <1>b, <3>1, <3>2 DEF DelegationInv, RevokedIsGone, HistoryRowSound
  <2> QED BY <1>2, <1>3, <2>1, <2>2
<1> QED BY <1>6, <1>7, <1>9, <1>10, <1>11, <1>12, <1>13 DEF DelegationInv

LEMMA VerdictsKeep ==
    ASSUME DelegationInv, UNCHANGED <<grant, errand, history, inserted>>,
           verdict' \in [Verdicts -> VerdictRows \cup {NoErrand}]
    PROVE  DelegationInv'
BY DEF DelegationInv, DelegationTyped, OneDeletes, ErrandSound, GrantSound, HistoryRowSound, Given,
   HistoryExplains, RevokedIsGone

LEMMA DelegationStep ==
    ASSUME DelegationInv, [DelegationNext]_delegationVars
    PROVE  DelegationInv'
<1> DEFINE Goal == DelegationInv'
<1> HIDE DEF Goal
<1> SUFFICES Goal BY DEF Goal
<1>1. ASSUME NEW e \in Errands, NEW u \in Reviewers, BeginGrant(e, u) PROVE Goal
  <2> DEFINE j == [act |-> "grant", of |-> u, seen |-> NoGrant, found |-> NoGrant]
  <2>1. j \in ErrandRows BY DEF ErrandRows, Serials
  <2> QED BY <1>1, <2>1, ReadsKeep DEF Goal, BeginGrant, Given
<1>2. ASSUME NEW e \in Errands, NEW u \in Reviewers, BeginRevoke(e, u) PROVE Goal
  <2> DEFINE j == [act |-> "revoke", of |-> u, seen |-> grant[u], found |-> NoGrant]
  <2>1. j \in ErrandRows BY DEF ErrandRows, Serials, DelegationInv, DelegationTyped
  <2>2. Given(grant[u]) /\ grant[u] # NoGrant
    BY <1>2 DEF DelegationInv, GrantSound, Given, BeginRevoke
  <2>3. j.seen = grant[u] /\ j.found = NoGrant /\ j.act = "revoke" OBVIOUS
  <2> HIDE DEF j
  <2>4. errand' = [errand EXCEPT ![e] = j] /\ UNCHANGED <<grant, verdict, history, inserted>>
    BY <1>2 DEF BeginRevoke, j
  <2> QED BY <2>1, <2>2, <2>3, <2>4, ReadsKeep DEF Goal
<1>3. ASSUME NEW e \in Errands, FinishGrant(e) PROVE Goal
  <2>1. CASE KeyFree(errand[e].of) BY <1>3, <2>1, GrantKeeps DEF Goal
  <2>2. CASE ~KeyFree(errand[e].of)
    <3>1. errand' = [errand EXCEPT ![e] = NoErrand] /\ UNCHANGED <<grant, verdict, history, inserted>>
      BY <1>3, <2>2 DEF FinishGrant
    <3> QED BY <3>1, ReadsKeep DEF Goal
  <2> QED BY <2>1, <2>2
<1>4. ASSUME NEW e \in Errands, DeleteRow(e) PROVE Goal BY <1>4, DeleteKeeps DEF Goal
<1>5. ASSUME NEW e \in Errands, CommitRevoke(e) PROVE Goal BY <1>5, RevokeKeeps DEF Goal
<1>6. ASSUME NEW e \in Errands, ErrandDies(e) PROVE Goal
  BY <1>6, ReadsKeep DEF Goal, ErrandDies
<1>7. ASSUME NEW v \in Verdicts, NEW u \in Reviewers, PassGuard(v, u) PROVE Goal
  <2>1. Len(history) \in Nat BY DEF DelegationInv, DelegationTyped
  <2>2. [of |-> u, since |-> Len(history)] \in VerdictRows BY <2>1 DEF VerdictRows
  <2>3. verdict' \in [Verdicts -> VerdictRows \cup {NoErrand}]
    BY <1>7, <2>2 DEF PassGuard, DelegationInv, DelegationTyped
  <2> QED BY <1>7, <2>3, VerdictsKeep DEF Goal, PassGuard
<1>8. ASSUME NEW v \in Verdicts, Decide(v) PROVE Goal
  <2>1. verdict' \in [Verdicts -> VerdictRows \cup {NoErrand}]
    BY <1>8 DEF Decide, DelegationInv, DelegationTyped
  <2> QED BY <1>8, <2>1, VerdictsKeep DEF Goal, Decide
<1>9. ASSUME UNCHANGED delegationVars PROVE Goal
  BY <1>9, VerdictsKeep DEF Goal, delegationVars, DelegationInv, DelegationTyped
<1> QED BY <1>1, <1>2, <1>3, <1>4, <1>5, <1>6, <1>7, <1>8, <1>9 DEF DelegationNext

\* Who passes the guard holds a grant that was given and not taken back.
LEMMA GuardSeesHolder ==
    ASSUME DelegationInv, [DelegationNext]_delegationVars,
           NEW v \in Verdicts, verdict[v] = NoErrand, verdict'[v] # NoErrand
    PROVE  LET u == verdict'[v].of IN
           \E n \in 1..verdict'[v].since :
              /\ history[n].action = "GRANTED" /\ history[n].of = u
              /\ \A k \in n..Len(history) :
                     history[k].of = u => history[k].found # history[n].serial
<1>1. PICK u \in Reviewers : PassGuard(v, u)
  <2>1. verdict' # verdict OBVIOUS
  <2>2. ASSUME NEW w \in Verdicts, Decide(w) PROVE FALSE
    BY <2>2 DEF Decide, DelegationInv, DelegationTyped
  <2>3. ASSUME NEW w \in Verdicts, NEW u \in Reviewers, PassGuard(w, u) PROVE w = v
    BY <2>3 DEF PassGuard, DelegationInv, DelegationTyped
  <2> QED BY <2>1, <2>2, <2>3 DEF DelegationNext, delegationVars, BeginGrant, BeginRevoke,
             FinishGrant, DeleteRow, CommitRevoke, ErrandDies
<1>2. grant[u] # NoGrant /\ verdict'[v] = [of |-> u, since |-> Len(history)]
  BY <1>1 DEF PassGuard, MayDecide, DelegationInv, DelegationTyped
<1>3. PICK n \in 1..Len(history) :
          history[n].action = "GRANTED" /\ history[n].of = u /\ history[n].serial = grant[u]
  BY <1>2 DEF DelegationInv, GrantSound
<1>4. ASSUME NEW k \in n..Len(history), history[k].of = u PROVE history[k].found # grant[u]
  <2>1. k \in 1..Len(history) BY <1>3 DEF DelegationInv, DelegationTyped
  <2> QED BY <1>2, <1>4, <2>1 DEF DelegationInv, HistoryRowSound
<1> QED BY <1>2, <1>3, <1>4

\* The right to review rewards, its rows and its audit stream agree, for any
\* number of teachers, overlapping calls and deaths (admin_service.py).
THEOREM DelegationKeepsContract == DelegationSpec => DelegationContract
<1>1. DelegationInv => DelegationTypeOK /\ HistoryExplains /\ RevokedIsGone
  BY DEF DelegationInv, DelegationTyped, DelegationTypeOK, ErrandSound, Serials, ErrandRows,
     VerdictRows
<1> DEFINE Admits ==
        \A v \in Verdicts : verdict[v] = NoErrand /\ verdict'[v] # NoErrand =>
          LET u == verdict'[v].of IN
          \E n \in 1..verdict'[v].since :
              /\ history[n].action = "GRANTED" /\ history[n].of = u
              /\ \A k \in n..Len(history) : history[k].of = u => history[k].found # history[n].serial
<1>2. DelegationInv /\ [DelegationNext]_delegationVars => [Admits]_delegationVars
  BY GuardSeesHolder
<1>3. DelegationInv /\ [DelegationNext]_delegationVars => DelegationInv'
  BY DelegationStep
<1>4. (DelegationSpec => [][Admits]_delegationVars) => (DelegationSpec => GuardIsCurrent)
  BY DEF GuardIsCurrent
<1> HIDE DEF Admits
<1>5. DelegationSpec => [][Admits]_delegationVars
  BY <1>2, <1>3, DelegationStart, PTL DEF DelegationSpec
<1>6. DelegationSpec => [](DelegationTypeOK /\ HistoryExplains /\ RevokedIsGone)
  BY <1>1, <1>3, DelegationStart, PTL DEF DelegationSpec
<1> QED BY <1>4, <1>5, <1>6, PTL DEF DelegationContract

-----------------------------------------------------------------------------
(* Role changes.                                                           *)

UnderWay(c) == change[c] # NoChange

AdminTyped ==
    /\ member \in [Members -> Staffs] /\ lock \in [Members -> Changes \cup {Free}]
    /\ change \in [Changes -> ChangeRows \cup {NoChange}]
    /\ \A m \in Members : lock[m] # Free => UnderWay(lock[m])

\* From the lock of its target on a change holds that row.
TargetHeld(c) == UnderWay(c) /\ change[c].at # "lock" => lock[change[c].of] = c

\* While nobody becomes an active administrator, the trigger has locked every one
\* it has not still to lock, and when it has counted one of them is in its hands.
TriggerHolds(c) ==
    UnderWay(c) /\ change[c].role = "TEACHER" /\ c \notin met =>
        /\ change[c].at = "trigger" =>
               Others(change[c].of) \subseteq change[c].rest \cup {a \in Members : lock[a] = c}
        /\ change[c].at = "written" /\ Demotes(c) =>
               \E a \in Others(change[c].of) : lock[a] = c

\* Only triggers under way have met somebody.
MetUnderWay == met \subseteq {c \in Changes : UnderWay(c)}

RolesInv == AdminTyped /\ \A c \in Changes : TargetHeld(c)

LEMMA RolesStart == AdminInit => RolesInv
BY AdminAssumption DEF AdminInit, RolesInv, AdminTyped, TargetHeld, UnderWay

\* A change goes on to a step, with these rows still to lock.
Moved(c, at, rest) ==
    /\ change[c] # NoChange /\ change[c] \in ChangeRows
    /\ change' \in [Changes -> ChangeRows \cup {NoChange}]
    /\ change'[c] \in ChangeRows /\ change'[c].at = at /\ change'[c].rest = rest
    /\ change'[c].of = change[c].of /\ change'[c].role = change[c].role
    /\ \A d \in Changes : d # c => change'[d] = change[d]

LEMMA LockTargetMoves ==
    ASSUME RolesInv, NEW c \in Changes, LockTarget(c)
    PROVE  Moved(c, "count", change[c].rest)
BY DEF RolesInv, AdminTyped, ChangeRows, LockTarget, Moved

LEMMA CountOthersMoves ==
    ASSUME RolesInv, NEW c \in Changes, CountOthers(c)
    PROVE  Moved(c, "trigger",
                 IF change[c].role = "TEACHER" THEN Others(change[c].of) ELSE {})
<1>1. \A m : Others(m) \in SUBSET Members BY DEF Others
<1> QED BY <1>1 DEF RolesInv, AdminTyped, ChangeRows, CountOthers, GuardedRows, Moved

LEMMA LockOtherMoves ==
    ASSUME RolesInv, NEW c \in Changes, NEW a \in Members, LockOther(c, a)
    PROVE  Moved(c, "trigger", change[c].rest \ {a})
BY DEF RolesInv, AdminTyped, ChangeRows, LockOther, Moved

LEMMA CountAgainMoves ==
    ASSUME RolesInv, NEW c \in Changes, CountAgain(c)
    PROVE  Moved(c, "written", change[c].rest)
BY DEF RolesInv, AdminTyped, ChangeRows, CountAgain, Moved

\* The row of an account keeps its shape.
LEMMA MemberTyped ==
    ASSUME RolesInv
    PROVE  /\ \A by, m \in Members, to \in NewStates : SetStatus(by, m, to) =>
                  member' \in [Members -> Staffs]
           /\ \A c \in Changes : CommitChange(c) => member' \in [Members -> Staffs]
<1>1. ASSUME NEW m \in Members, NEW to \in {"ACTIVE", "OFF"},
             member' = [member EXCEPT ![m].status = to]
      PROVE  member' \in [Members -> Staffs]
  BY <1>1 DEF RolesInv, AdminTyped, Staffs
<1>2. ASSUME NEW m \in Members, NEW r \in {"TEACHER", "ADMIN"},
             member' = [member EXCEPT ![m].role = r]
      PROVE  member' \in [Members -> Staffs]
  BY <1>2 DEF RolesInv, AdminTyped, Staffs
<1>3. \A c \in Changes : CommitChange(c) => change[c].of \in Members /\ change[c].role \in {"TEACHER", "ADMIN"}
  BY DEF CommitChange, RolesInv, AdminTyped, ChangeRows
<1> QED BY <1>1, <1>2, <1>3, AdminAssumption DEF SetStatus, CommitChange

LEMMA BeginStarts ==
    ASSUME RolesInv, NEW c \in Changes, NEW by \in Members, NEW m \in Members, NEW r \in NewRoles,
           BeginChange(c, by, m, r)
    PROVE  /\ change' \in [Changes -> ChangeRows \cup {NoChange}]
           /\ change[c] = NoChange /\ change'[c] \in ChangeRows /\ change'[c].at = "lock"
           /\ \A d \in Changes : d # c => change'[d] = change[d]
           /\ UNCHANGED <<member, lock, met>>
<1>1. r \in {"TEACHER", "ADMIN"} BY AdminAssumption
<1>2. [at |-> "lock", of |-> m, role |-> r, rest |-> {}] \in ChangeRows BY <1>1 DEF ChangeRows
<1> QED BY <1>2 DEF BeginChange, RolesInv, AdminTyped

\* The end of a change frees its rows.
FreesRows(c) ==
    /\ change' = [change EXCEPT ![c] = NoChange]
    /\ lock' = Unlocked(c)

LEMMA RolesStep ==
    ASSUME RolesInv, [AdminNext]_adminVars
    PROVE  RolesInv'
<1> DEFINE Goal == RolesInv'
<1> HIDE DEF Goal
<1> SUFFICES Goal BY DEF Goal
<1> USE AdminAssumption
<1>1. ASSUME NEW by \in Members, NEW m \in Members, NEW to \in NewStates, SetStatus(by, m, to)
      PROVE  Goal
  <2>1. member' \in [Members -> Staffs] BY <1>1, MemberTyped
  <2> QED BY <1>1, <2>1 DEF Goal, SetStatus, RolesInv, AdminTyped, TargetHeld, UnderWay
<1>2. ASSUME NEW c \in Changes, NEW by \in Members, NEW m \in Members, NEW r \in NewRoles,
             BeginChange(c, by, m, r)
      PROVE  Goal
  BY <1>2, BeginStarts DEF Goal, RolesInv, AdminTyped, TargetHeld, UnderWay
<1>3. ASSUME NEW c \in Changes, LockTarget(c) PROVE Goal
  <2>1. Moved(c, "count", change[c].rest) BY <1>3, LockTargetMoves
  <2>2. lock[change[c].of] = Free /\ lock' = [lock EXCEPT ![change[c].of] = c] /\ member' = member
    BY <1>3 DEF LockTarget
  <2>3. change[c].of \in Members BY <2>1 DEF Moved, ChangeRows
  <2>4. \A m \in Members : lock'[m] = IF m = change[c].of THEN c ELSE lock[m]
    BY <2>2 DEF RolesInv, AdminTyped
  <2>5. AdminTyped'
    BY <2>1, <2>2, <2>3, <2>4 DEF Moved, RolesInv, AdminTyped, UnderWay
  <2>6. ASSUME NEW d \in Changes PROVE TargetHeld(d)'
    <3>1. CASE d = c BY <2>1, <2>3, <2>4, <3>1 DEF Moved, TargetHeld
    <3>2. CASE d # c
      <4>1. UnderWay(d) => change[d].of \in Members BY DEF RolesInv, AdminTyped, UnderWay, ChangeRows
      <4> QED BY <2>1, <2>2, <2>4, <3>2, <4>1 DEF Moved, TargetHeld, RolesInv, UnderWay
    <3> QED BY <3>1, <3>2
  <2> QED BY <2>1, <2>5, <2>6 DEF Goal, RolesInv, UnderWay, Moved
<1>4. ASSUME NEW c \in Changes, NEW at, NEW rest, Moved(c, at, rest), change[c].at # "lock",
             UNCHANGED <<member, lock>>
      PROVE  Goal
  BY <1>4 DEF Moved, Goal, RolesInv, AdminTyped, TargetHeld, UnderWay
<1>5. ASSUME NEW c \in Changes, CountOthers(c) \/ CountAgain(c) PROVE Goal
  BY <1>4, <1>5, CountOthersMoves, CountAgainMoves DEF CountOthers, CountAgain
<1>6. ASSUME NEW c \in Changes, NEW a \in Members, LockOther(c, a) PROVE Goal
  <2>1. Moved(c, "trigger", change[c].rest \ {a}) BY <1>6, LockOtherMoves
  <2>2. \A m \in Members : lock'[m] = IF m = a THEN c ELSE lock[m]
    BY <1>6 DEF LockOther, RolesInv, AdminTyped
  <2>3. lock[a] = Free /\ change[c].at = "trigger" /\ member' = member
        /\ lock' = [lock EXCEPT ![a] = c]
    BY <1>6 DEF LockOther
  <2>4. AdminTyped' BY <2>1, <2>2, <2>3 DEF Moved, RolesInv, AdminTyped, UnderWay
  <2>5. ASSUME NEW d \in Changes, UnderWay(d), change[d].at # "lock"
        PROVE  change[d].of \in Members /\ lock'[change[d].of] = d
    <3>1. change[d].of \in Members BY <2>5 DEF RolesInv, AdminTyped, UnderWay, ChangeRows
    <3>2. lock[change[d].of] = d BY <2>5 DEF RolesInv, TargetHeld
    <3> QED BY <2>2, <2>3, <3>1, <3>2
  <2> QED BY <2>1, <2>3, <2>4, <2>5 DEF Moved, Goal, RolesInv, TargetHeld, UnderWay
<1>7. ASSUME NEW c \in Changes, FreesRows(c), member' \in [Members -> Staffs] PROVE Goal
  <2>1. \A m \in Members : lock'[m] = IF lock[m] = c THEN Free ELSE lock[m]
    BY <1>7 DEF FreesRows, Unlocked
  <2>2. \A d \in Changes : change'[d] = IF d = c THEN NoChange ELSE change[d]
    BY <1>7 DEF FreesRows, RolesInv, AdminTyped
  <2>3. lock' \in [Members -> Changes \cup {Free}]
        /\ change' \in [Changes -> ChangeRows \cup {NoChange}]
    BY <1>7 DEF FreesRows, Unlocked, RolesInv, AdminTyped
  <2>4. AdminTyped' BY <1>7, <2>1, <2>2, <2>3 DEF RolesInv, AdminTyped, UnderWay
  <2>5. ASSUME NEW d \in Changes, UnderWay(d), change[d].at # "lock", d # c
        PROVE  lock'[change[d].of] = d
    <3>1. change[d].of \in Members BY <2>5 DEF RolesInv, AdminTyped, UnderWay, ChangeRows
    <3>2. lock[change[d].of] = d BY <2>5 DEF RolesInv, TargetHeld
    <3> QED BY <2>1, <2>5, <3>1, <3>2
  <2> QED BY <2>2, <2>4, <2>5 DEF Goal, RolesInv, TargetHeld, UnderWay
<1>8. ASSUME NEW c \in Changes, CommitChange(c) \/ AbortChange(c) PROVE Goal
  <2>1. CASE CommitChange(c)
    <3>1. member' \in [Members -> Staffs] BY <2>1, MemberTyped
    <3> QED BY <1>7, <2>1, <3>1 DEF CommitChange, FreesRows
  <2>2. CASE AbortChange(c)
    <3>1. member' \in [Members -> Staffs] BY <2>2 DEF AbortChange, RolesInv, AdminTyped
    <3> QED BY <1>7, <2>2, <3>1 DEF AbortChange, FreesRows
  <2> QED BY <1>8, <2>1, <2>2
<1>9. ASSUME UNCHANGED adminVars PROVE Goal
  BY <1>9 DEF adminVars, Goal, RolesInv, AdminTyped, TargetHeld, UnderWay
<1> QED BY <1>1, <1>2, <1>3, <1>5, <1>6, <1>8, <1>9 DEF AdminNext

LEMMA MetStep ==
    ASSUME RolesInv, MetUnderWay, [AdminNext]_adminVars
    PROVE  MetUnderWay'
<1> USE AdminAssumption
<1>1. ASSUME NEW S, met' \subseteq met \cup InTrigger, met' \subseteq S,
             \A d \in S \cap Changes : UnderWay(d) => change'[d] # NoChange
      PROVE  MetUnderWay'
  BY <1>1 DEF MetUnderWay, InTrigger, UnderWay
<1>2. Met \subseteq met \cup InTrigger BY DEF Met
<1>3. ASSUME NEW by \in Members, NEW m \in Members, NEW to \in NewStates, SetStatus(by, m, to)
      PROVE  MetUnderWay'
  BY <1>1, <1>2, <1>3 DEF SetStatus, UnderWay
<1>4. ASSUME NEW c \in Changes, CommitChange(c) \/ AbortChange(c) PROVE MetUnderWay'
  <2>1. /\ met' \subseteq (met \cup InTrigger) \ {c} /\ change' = [change EXCEPT ![c] = NoChange]
    BY <1>2, <1>4 DEF CommitChange, AbortChange
  <2>2. \A d \in Changes \ {c} : change'[d] = change[d] BY <2>1 DEF RolesInv, AdminTyped
  <2>3. met' \subseteq Changes \ {c} BY <2>1 DEF MetUnderWay, InTrigger
  <2> QED BY <1>1, <2>1, <2>2, <2>3 DEF UnderWay
<1>5. ASSUME NEW c \in Changes, UNCHANGED met, change'[c] # NoChange,
             \A d \in Changes : d # c => change'[d] = change[d]
      PROVE  MetUnderWay'
  BY <1>5 DEF MetUnderWay, UnderWay
<1>6. ASSUME NEW c \in Changes, NEW by \in Members, NEW m \in Members, NEW r \in NewRoles,
             BeginChange(c, by, m, r)
      PROVE  MetUnderWay'
  BY <1>5, <1>6, BeginStarts
<1>7. ASSUME NEW c \in Changes, NEW at, NEW rest, Moved(c, at, rest), UNCHANGED met
      PROVE  MetUnderWay'
  BY <1>5, <1>7 DEF Moved
<1>8. ASSUME NEW c \in Changes, LockTarget(c) \/ CountOthers(c) \/ CountAgain(c)
      PROVE  MetUnderWay'
  BY <1>7, <1>8, LockTargetMoves, CountOthersMoves, CountAgainMoves
  DEF LockTarget, CountOthers, CountAgain
<1>9. ASSUME NEW c \in Changes, NEW a \in Members, LockOther(c, a) PROVE MetUnderWay'
  BY <1>7, <1>9, LockOtherMoves DEF LockOther
<1>10. CASE UNCHANGED adminVars BY <1>10 DEF adminVars, MetUnderWay, UnderWay
<1> QED BY <1>3, <1>4, <1>6, <1>8, <1>9, <1>10 DEF AdminNext

\* Rows are held by changes that are under way (change_role).
THEOREM RowsAreHeldByChanges == AdminSpec => []AdminTypeOK
<1>1. RolesInv /\ MetUnderWay => AdminTypeOK
  BY DEF RolesInv, AdminTyped, AdminTypeOK, MetUnderWay, UnderWay
<1>2. AdminInit => MetUnderWay BY DEF AdminInit, MetUnderWay
<1> QED BY <1>1, <1>2, RolesStart, RolesStep, MetStep, PTL DEF AdminSpec

\* A trigger that has met nobody new sees administrators only leave.
LEMMA NobodyMet ==
    ASSUME NEW d \in Changes, d \notin Met
    PROVE  /\ d \notin met
           /\ UnderWay(d) /\ change[d].at = "trigger" =>
                  \A m \in Members : (ActiveAdmin(m))' => ActiveAdmin(m)
BY DEF Met, InTrigger, UnderWay

\* However accounts change, a trigger that has met nobody new keeps its grip.
LEMMA TriggerStep ==
    ASSUME RolesInv, \A c \in Changes : TriggerHolds(c), [AdminNext]_adminVars
    PROVE  (\A c \in Changes : TriggerHolds(c))'
<1> DEFINE Goal == (\A c \in Changes : TriggerHolds(c))'
<1> HIDE DEF Goal
<1> SUFFICES Goal BY DEF Goal
<1> USE AdminAssumption
<1>a. \A d \in Changes : UnderWay(d) => change[d].of \in Members /\ change[d].rest \subseteq Members
  BY DEF RolesInv, AdminTyped, UnderWay, ChangeRows
\* Who is not touched keeps the grip.
<1>b. ASSUME NEW d \in Changes, change'[d] = change[d],
             d \notin met' => d \notin met,
             d \notin met' /\ change[d].at = "trigger" /\ UnderWay(d) =>
                 \A m \in Members : (ActiveAdmin(m))' => ActiveAdmin(m),
             \A m \in Members : lock[m] = d => lock'[m] = d,
             \A m \in Members : lock[m] = d => member'[m] = member[m]
      PROVE  TriggerHolds(d)'
  <2> SUFFICES ASSUME UnderWay(d), change[d].role = "TEACHER", d \notin met' PROVE TriggerHolds(d)'
    BY <1>b DEF TriggerHolds, UnderWay
  <2>1. TriggerHolds(d) /\ d \notin met /\ change[d].of \in Members BY <1>a, <1>b
  <2>2. ASSUME change[d].at = "trigger"
        PROVE  Others(change[d].of)' \subseteq change[d].rest \cup {a \in Members : lock'[a] = d}
    <3>1. Others(change[d].of) \subseteq change[d].rest \cup {a \in Members : lock[a] = d}
      BY <2>1, <2>2 DEF TriggerHolds
    <3>2. \A m \in Members : (ActiveAdmin(m))' => ActiveAdmin(m) BY <1>b, <2>2
    <3> QED BY <1>b, <3>1, <3>2 DEF Others
  <2>3. ASSUME change[d].at = "written", Demotes(d)'
        PROVE  \E a \in Others(change[d].of)' : lock'[a] = d
    <3>1. lock[change[d].of] = d BY <2>3 DEF RolesInv, TargetHeld
    <3>2. Demotes(d) BY <1>b, <2>1, <2>3, <3>1 DEF Demotes
    <3>3. PICK a \in Others(change[d].of) : lock[a] = d BY <2>1, <2>3, <3>2 DEF TriggerHolds
    <3> QED BY <1>b, <3>3 DEF Others, ActiveAdmin
  <2> QED BY <1>b, <2>2, <2>3 DEF TriggerHolds, Others
<1>1. ASSUME NEW by \in Members, NEW m \in Members, NEW to \in NewStates, SetStatus(by, m, to)
      PROVE  Goal
  <2>1. lock[m] = Free /\ met' = Met /\ UNCHANGED <<change, lock>>
        /\ member' = [member EXCEPT ![m].status = to]
    BY <1>1 DEF SetStatus
  <2>2. \A x \in Members \ {m} : member'[x] = member[x] BY <2>1 DEF RolesInv, AdminTyped
  <2>3. ASSUME NEW d \in Changes PROVE TriggerHolds(d)'
    <3>1. \A x \in Members : lock[x] = d => member'[x] = member[x] BY <2>1, <2>2
    <3>2. d \notin met' => d \notin met BY <2>1, NobodyMet
    <3>3. d \notin met' /\ change[d].at = "trigger" /\ UnderWay(d) =>
              \A x \in Members : (ActiveAdmin(x))' => ActiveAdmin(x)
      BY <2>1, NobodyMet
    <3>4. change'[d] = change[d] /\ \A x \in Members : lock[x] = d => lock'[x] = d BY <2>1
    <3> QED BY <1>b, <3>1, <3>2, <3>3, <3>4
  <2> QED BY <2>3 DEF Goal
\* While nobody's account changes, a change that is not under its trigger grips nothing.
<1>2. ASSUME NEW c \in Changes, UNCHANGED member,
             \A d \in Changes : d # c => change'[d] = change[d],
             \A m \in Members : lock[m] \notin {c, Free} => lock'[m] = lock[m],
             met \subseteq met' \cup {c}, TriggerHolds(c)'
      PROVE  Goal
  <2>1. ASSUME NEW d \in Changes, d # c PROVE TriggerHolds(d)'
    <3>1. \A m \in Members : (ActiveAdmin(m))' <=> ActiveAdmin(m) BY <1>2 DEF ActiveAdmin
    <3>2. \A m \in Members : lock[m] = d => lock'[m] = d BY <1>2, <2>1
    <3> QED BY <1>2, <1>b, <2>1, <3>1, <3>2
  <2> QED BY <1>2, <2>1 DEF Goal
<1>3. ASSUME NEW c \in Changes, NEW by \in Members, NEW m \in Members, NEW r \in NewRoles,
             BeginChange(c, by, m, r)
      PROVE  Goal
  <2>1. TriggerHolds(c)' BY <1>3, BeginStarts DEF TriggerHolds
  <2>2. met \subseteq met' \cup {c} BY <1>3, BeginStarts
  <2> QED BY <1>2, <1>3, <2>1, <2>2, BeginStarts
<1>4. ASSUME NEW c \in Changes, LockTarget(c) PROVE Goal
  <2>1. Moved(c, "count", change[c].rest) BY <1>4, LockTargetMoves
  <2>2. TriggerHolds(c)' BY <2>1 DEF TriggerHolds, Moved
  <2>3. /\ member' = member /\ met' = met
        /\ \A m \in Members : lock[m] \notin {c, Free} => lock'[m] = lock[m]
    BY <1>4 DEF LockTarget, RolesInv, AdminTyped
  <2> QED BY <1>2, <2>1, <2>2, <2>3 DEF Moved
<1>5. ASSUME NEW c \in Changes, CountOthers(c) PROVE Goal
  <2>1. Moved(c, "trigger", IF change[c].role = "TEACHER" THEN Others(change[c].of) ELSE {})
    BY <1>5, CountOthersMoves
  <2>2. UNCHANGED <<member, lock, met>> BY <1>5 DEF CountOthers
  <2>3. Others(change[c].of)' = Others(change'[c].of) /\ change'[c].of = change[c].of
    BY <2>1, <2>2 DEF Moved, Others, ActiveAdmin
  <2>4. TriggerHolds(c)' BY <2>1, <2>2, <2>3 DEF TriggerHolds, Moved
  <2> QED BY <1>2, <2>1, <2>2, <2>4 DEF Moved
<1>6. ASSUME NEW c \in Changes, NEW a \in Members, LockOther(c, a) PROVE Goal
  <2>1. Moved(c, "trigger", change[c].rest \ {a}) BY <1>6, LockOtherMoves
  <2>2. /\ member' = member /\ met' = met /\ lock[a] = Free /\ change[c].at = "trigger" /\ UnderWay(c)
        /\ \A m \in Members : lock'[m] = IF m = a THEN c ELSE lock[m]
    BY <1>6 DEF LockOther, RolesInv, AdminTyped, UnderWay
  <2>3. TriggerHolds(c)'
    <3> SUFFICES ASSUME change[c].role = "TEACHER", c \notin met
                 PROVE  Others(change[c].of) \subseteq
                            (change[c].rest \ {a}) \cup {m \in Members : lock'[m] = c}
      BY <2>1, <2>2 DEF TriggerHolds, Moved, Others, ActiveAdmin
    <3>1. Others(change[c].of) \subseteq change[c].rest \cup {m \in Members : lock[m] = c}
      BY <2>2 DEF TriggerHolds
    <3> QED BY <2>2, <3>1
  <2>4. \A m \in Members : lock[m] \notin {c, Free} => lock'[m] = lock[m] BY <2>2
  <2> QED BY <1>2, <2>1, <2>2, <2>3, <2>4 DEF Moved
<1>7. ASSUME NEW c \in Changes, CountAgain(c) PROVE Goal
  <2>1. Moved(c, "written", change[c].rest) BY <1>7, CountAgainMoves
  <2>2. /\ UNCHANGED <<member, lock, met>> /\ change[c].rest = {} /\ change[c].at = "trigger"
        /\ UnderWay(c)
        /\ Demotes(c) => Others(change[c].of) # {}
    BY <1>7 DEF CountAgain, UnderWay
  <2>3. TriggerHolds(c)'
    <3> SUFFICES ASSUME change[c].role = "TEACHER", Demotes(c), c \notin met
                 PROVE  \E a \in Others(change[c].of) : lock[a] = c
      BY <2>1, <2>2 DEF TriggerHolds, Moved, Others, ActiveAdmin, Demotes
    <3>1. Others(change[c].of) \subseteq {m \in Members : lock[m] = c}
      BY <2>2 DEF TriggerHolds
    <3> QED BY <2>2, <3>1
  <2> QED BY <1>2, <2>1, <2>2, <2>3 DEF Moved
<1>8. ASSUME NEW c \in Changes, CommitChange(c) \/ AbortChange(c) PROVE Goal
  <2>1. /\ change'[c] = NoChange /\ \A d \in Changes : d # c => change'[d] = change[d]
        /\ \A m \in Members : lock'[m] = IF lock[m] = c THEN Free ELSE lock[m]
    BY <1>8 DEF CommitChange, AbortChange, Unlocked, RolesInv, AdminTyped
  <2>2. TriggerHolds(c)' BY <2>1 DEF TriggerHolds, UnderWay
  <2>3. CASE AbortChange(c)
    <3>1. member' = member /\ met' = met \ {c} BY <2>3 DEF AbortChange
    <3>2. met \subseteq met' \cup {c} BY <3>1
    <3> QED BY <1>2, <2>1, <2>2, <3>1, <3>2
  <2>4. CASE CommitChange(c)
    <3>1. change[c].at = "written" /\ UnderWay(c) /\ change[c].of \in Members
      BY <1>a, <2>4 DEF CommitChange, UnderWay
    <3>2. lock[change[c].of] = c BY <3>1 DEF RolesInv, TargetHeld
    <3>3. met' = Met \ {c} /\ \A x \in Members : x # change[c].of => member'[x] = member[x]
      BY <2>4, <3>1 DEF CommitChange, RolesInv, AdminTyped
    <3>4. ASSUME NEW d \in Changes, d # c PROVE TriggerHolds(d)'
      <4>1. \A x \in Members : lock[x] = d => member'[x] = member[x] BY <3>2, <3>3, <3>4
      <4>2. d \notin met' => d \notin met BY <3>3, <3>4, NobodyMet
      <4>3. d \notin met' /\ change[d].at = "trigger" /\ UnderWay(d) =>
                \A x \in Members : (ActiveAdmin(x))' => ActiveAdmin(x)
        BY <3>3, <3>4, NobodyMet
      <4>4. change'[d] = change[d] /\ \A x \in Members : lock[x] = d => lock'[x] = d
        BY <2>1, <3>4
      <4> QED BY <1>b, <4>1, <4>2, <4>3, <4>4
    <3> QED BY <2>2, <3>4 DEF Goal
  <2> QED BY <1>8, <2>3, <2>4
<1>9. ASSUME UNCHANGED adminVars PROVE Goal
  BY <1>9 DEF adminVars, Goal, TriggerHolds, UnderWay, Others, ActiveAdmin, Demotes
<1> QED BY <1>1, <1>3, <1>4, <1>5, <1>6, <1>7, <1>8, <1>9 DEF AdminNext

\* The step that demotes leaves the administrator its trigger has locked.
LEMMA DemotionStep ==
    ASSUME RolesInv, \A c \in Changes : TriggerHolds(c), [AdminNext]_adminVars,
           NEW m \in Members, member[m].role = "ADMIN", member'[m].role = "TEACHER",
           lock[m] \notin met
    PROVE  \E a \in Members : ActiveAdmin(a)'
<1> USE AdminAssumption
<1>1. PICK c \in Changes : CommitChange(c) /\ change[c].of = m
  <2>1. member'[m] # member[m] OBVIOUS
  <2>2. ASSUME NEW by \in Members, NEW x \in Members, NEW to \in NewStates, SetStatus(by, x, to)
        PROVE  member'[m].role = member[m].role
    BY <2>2 DEF SetStatus, RolesInv, AdminTyped, Staffs
  <2>3. ASSUME NEW c \in Changes, CommitChange(c) PROVE change[c].of = m
    BY <2>1, <2>3 DEF CommitChange, RolesInv, AdminTyped
  <2> QED BY <2>1, <2>2, <2>3 DEF AdminNext, adminVars, BeginChange, LockTarget, CountOthers,
             LockOther, CountAgain, AbortChange
<1>2. /\ UnderWay(c) /\ change[c].at = "written"
      /\ member' = [member EXCEPT ![m].role = change[c].role]
  BY <1>1 DEF CommitChange, UnderWay
<1>3. change[c].role = "TEACHER" /\ Demotes(c)
  BY <1>1, <1>2 DEF RolesInv, AdminTyped, Staffs, Demotes
<1>4. lock[m] = c BY <1>1, <1>2 DEF RolesInv, TargetHeld
<1>5. PICK a \in Others(m) : lock[a] = c BY <1>1, <1>2, <1>3, <1>4 DEF TriggerHolds
<1>6. a \in Members /\ a # m /\ ActiveAdmin(a) BY <1>5 DEF Others
<1>7. member'[a] = member[a] BY <1>2, <1>6 DEF RolesInv, AdminTyped
<1> QED BY <1>6, <1>7 DEF ActiveAdmin

\* However demotions, promotions, suspensions and reactivations overlap, rows are
\* held to the commit and no demotion leaves nobody who administers, unless its
\* trigger met somebody new between its two statements: for any accounts and any
\* number of changes (change_role, the trigger of migration 0031).
THEOREM RolesKeepContract == AdminSpec => RolesContract
<1> DEFINE Inv == RolesInv /\ \A c \in Changes : TriggerHolds(c)
           Leaves == (\E m \in Members : /\ member[m].role = "ADMIN" /\ member'[m].role = "TEACHER"
                                         /\ lock[m] \notin met)
                         => \E m \in Members : ActiveAdmin(m)'
<1>1. AdminInit => Inv
  <2>1. AdminInit => \A c \in Changes : TriggerHolds(c)
    BY DEF AdminInit, TriggerHolds, UnderWay
  <2> QED BY <2>1, RolesStart
<1>2. Inv /\ [AdminNext]_adminVars => Inv' BY RolesStep, TriggerStep
<1>3. Inv /\ [AdminNext]_adminVars => [Leaves]_adminVars
  BY DemotionStep
<1>4. (AdminSpec => [][Leaves]_adminVars) => (AdminSpec => DemotionLeavesAdmin)
  BY DEF DemotionLeavesAdmin
<1> HIDE DEF Inv, Leaves
<1>5. AdminSpec => [][Leaves]_adminVars BY <1>1, <1>2, <1>3, PTL DEF AdminSpec
<1> QED BY <1>4, <1>5, RowsAreHeldByChanges, PTL DEF RolesContract

-----------------------------------------------------------------------------
(* The sessions of an account.                                             *)

LEMMA SmallestNumber ==
    ASSUME NEW D \in SUBSET Nat, D # {}
    PROVE  \E n \in D : \A m \in D : n <= m
<1>1. PICK n \in D : \A m \in D : <<m, n>> \notin OpToRel(<, Nat)
  BY NatLessThanWellFounded, WFMin, Zenon
<1>2. \A m \in D : m < n => <<m, n>> \in OpToRel(<, Nat) BY Zenon DEF OpToRel
<1>3. \A m \in D : ~(m < n) BY <1>1, <1>2, Zenon
<1> QED BY <1>3

\* Rows are inserted one after the other.
InOrder == \A s \in Used : \A r \in 1..s : r \in Used

\* A login is named by its first row; its rows follow one another in the order
\* of their numbers, and the last one has no successor.
Chained ==
    /\ \A s \in Used : /\ rows[s].root \in Used /\ rows[s].root <= s
                       /\ rows[s].next # 0 =>
                             /\ rows[s].next \in Used /\ rows[s].next > s
                             /\ rows[rows[s].next].root = rows[s].root
    /\ \A s, r \in Used : rows[r].root = rows[s].root /\ r < s => rows[r].next # 0
    /\ \A s \in Used : \E t \in Used : rows[t].root = rows[s].root /\ rows[t].next = 0

\* What clients hold has been issued.
TokensExist ==
    /\ \A c \in Clients : jar[c] # 0 => jar[c] \in Used
    /\ \A reply \in replies : reply[2] \in Used

SessionInv == SessionTypeOK /\ InOrder /\ Chained /\ TokensExist

LEMMA SessionStart == SessionInit => SessionInv
<1> SUFFICES ASSUME SessionInit PROVE SessionInv OBVIOUS
<1>1. Used = {} BY DEF SessionInit, Used
<1>2. 0 \in 0..MaxClock BY SessionAssumption
<1> QED BY <1>1, <1>2 DEF SessionInit, SessionInv, SessionTypeOK, InOrder, Chained, TokensExist

LEMMA RowParts ==
    ASSUME SessionTypeOK, NEW s \in Used
    PROVE  /\ s \in Ids /\ s \in Nat /\ s > 0 /\ rows[s] \in SessionRows
           /\ rows[s].root \in Ids /\ rows[s].next \in Ids \cup {0}
           /\ rows[s].next \in Nat /\ rows[s].root \in Nat /\ rows[s].revoked \in BOOLEAN
BY SessionAssumption DEF SessionTypeOK, Used, Ids, SessionRows

\* A change of rows that only revokes.
LEMMA SameLines ==
    ASSUME SessionInv, Used' = Used, NoRow \notin SessionRows,
           \A s \in Used : rows'[s].root = rows[s].root /\ rows'[s].next = rows[s].next
    PROVE  InOrder' /\ Chained'
<1>1. InOrder' BY DEF SessionInv, InOrder
<1>2. \A s \in Used : rows[s].next # 0 => rows[s].next \in Used BY DEF SessionInv, Chained
<1>3. Chained' BY <1>2 DEF SessionInv, Chained
<1> QED BY <1>1, <1>3

\* What a fresh number is.
LEMMA FreshNumber ==
    ASSUME SessionInv, NEW s \in Fresh
    PROVE  /\ s \in Ids /\ s \notin Used /\ s \in Nat /\ s > 0
           /\ \A r \in Used : r < s
           /\ \A r \in 1..s : r \in Used \cup {s}
           /\ \A root \in Ids : RowOf(root) \in SessionRows
<1>1. s \in Ids /\ s \notin Used /\ s \in Nat /\ s > 0 /\ (s - 1 \in Used \/ s - 1 = 0)
  BY SessionAssumption DEF Fresh, Ids
<1>2. \A r \in Used : r \in Nat BY RowParts DEF SessionInv
<1>3. \A r \in Used : r < s
  <2> SUFFICES ASSUME NEW r \in Used, ~(r < s) PROVE FALSE OBVIOUS
  <2>1. s \in 1..r BY <1>1, <1>2
  <2> QED BY <1>1, <2>1 DEF SessionInv, InOrder
<1>4. \A r \in 1..s : r \in Used \cup {s}
  <2> SUFFICES ASSUME NEW r \in 1..s, r # s PROVE r \in Used OBVIOUS
  <2>1. r \in 1..(s - 1) BY <1>1
  <2>2. s - 1 \in Used BY <1>1, <2>1
  <2> QED BY <2>1, <2>2 DEF SessionInv, InOrder
<1>5. \A root \in Ids : RowOf(root) \in SessionRows
  <2>1. clock + Ttl \in 0..MaxClock + Ttl /\ 0 \in 0..MaxClock
    BY SessionAssumption DEF SessionInv, SessionTypeOK
  <2> QED BY <2>1 DEF RowOf, SessionRows
<1> QED BY <1>1, <1>3, <1>4, <1>5

\* A login starts a line of its own.
LEMMA LoginRows ==
    ASSUME SessionInv, NEW s \in Fresh, rows' = [rows EXCEPT ![s] = RowOf(s)]
    PROVE  /\ rows' \in [Ids -> SessionRows \cup {NoRow}] /\ Used' = Used \cup {s}
           /\ \A r \in Used : rows'[r] = rows[r]
           /\ rows'[s].root = s /\ rows'[s].next = 0 /\ ~rows'[s].revoked
           /\ InOrder' /\ Chained'
<1>1. /\ s \in Ids /\ s \notin Used /\ s \in Nat /\ s > 0 /\ \A r \in Used : r < s
      /\ \A r \in 1..s : r \in Used \cup {s}
      /\ RowOf(s) \in SessionRows
  BY FreshNumber
<1>2. RowOf(s) # NoRow BY <1>1, SessionAssumption
<1>3. /\ rows' \in [Ids -> SessionRows \cup {NoRow}] /\ rows'[s] = RowOf(s)
      /\ \A r \in Ids \ {s} : rows'[r] = rows[r]
  BY <1>1 DEF SessionInv, SessionTypeOK
<1>4. Used' = Used \cup {s} BY <1>1, <1>2, <1>3 DEF Used
<1>5. rows'[s].root = s /\ rows'[s].next = 0 /\ ~rows'[s].revoked BY <1>3 DEF RowOf
<1>6. \A r \in Used : rows'[r] = rows[r] /\ r < s /\ r \in Nat /\ rows[r].root # s
                      /\ (rows[r].next # 0 => rows[r].next \in Used)
  <2>1. \A r \in Used : rows[r].root \in Used /\ (rows[r].next # 0 => rows[r].next \in Used)
    BY DEF SessionInv, Chained
  <2> QED BY <1>1, <1>3, <2>1, RowParts DEF Used, SessionInv
<1>7. InOrder' BY <1>1, <1>4 DEF InOrder, SessionInv
<1>8. Chained'
  <2>1. \A r \in Used : /\ rows'[r].root \in Used' /\ rows'[r].root <= r
                        /\ rows'[r].next # 0 =>
                              /\ rows'[r].next \in Used' /\ rows'[r].next > r
                              /\ rows'[rows'[r].next].root = rows'[r].root
    BY <1>4, <1>6 DEF SessionInv, Chained
  <2>2. \A q, r \in Used' : rows'[r].root = rows'[q].root /\ r < q => rows'[r].next # 0
    BY <1>1, <1>4, <1>5, <1>6 DEF SessionInv, Chained
  <2>3. \A q \in Used' : \E t \in Used' : rows'[t].root = rows'[q].root /\ rows'[t].next = 0
    BY <1>4, <1>5, <1>6 DEF SessionInv, Chained
  <2> QED BY <1>1, <1>4, <1>5, <2>1, <2>2, <2>3 DEF Chained
<1> QED BY <1>3, <1>4, <1>5, <1>6, <1>7, <1>8

\* A refresh moves the end of its line.
LEMMA RotateRows ==
    ASSUME SessionInv, NEW j \in Used, rows[j].next = 0, NEW s \in Fresh,
           rows' = [rows EXCEPT ![j].revoked = TRUE, ![j].next = s, ![j].replaced = clock,
                                ![s] = RowOf(rows[j].root)]
    PROVE  /\ rows' \in [Ids -> SessionRows \cup {NoRow}] /\ Used' = Used \cup {s}
           /\ \A r \in Used \ {j} : rows'[r] = rows[r]
           /\ rows'[j].root = rows[j].root /\ rows'[j].next = s
           /\ rows'[s].root = rows[j].root /\ rows'[s].next = 0
           /\ InOrder' /\ Chained'
<1>1. /\ s \in Ids /\ s \notin Used /\ s \in Nat /\ s > 0 /\ \A r \in Used : r < s
      /\ \A r \in 1..s : r \in Used \cup {s}
      /\ \A root \in Ids : RowOf(root) \in SessionRows
  BY FreshNumber
<1>2. j \in Ids /\ rows[j] \in SessionRows /\ rows[j].root \in Ids /\ j # s
  BY <1>1, RowParts DEF SessionInv
<1> DEFINE r1 == [rows[j] EXCEPT !.revoked = TRUE, !.next = s, !.replaced = clock]
           r2 == RowOf(rows[j].root)
<1>3. /\ r1 \in SessionRows /\ r1.root = rows[j].root /\ r1.next = s
      /\ r2 \in SessionRows /\ r2.root = rows[j].root /\ r2.next = 0
  <2>1. clock \in 0..MaxClock BY DEF SessionInv, SessionTypeOK
  <2>2. r1 \in SessionRows /\ r1.root = rows[j].root /\ r1.next = s
    BY <1>1, <1>2, <2>1 DEF SessionRows
  <2>3. r2.root = rows[j].root /\ r2.next = 0 BY DEF RowOf
  <2> QED BY <1>1, <1>2, <2>2, <2>3
<1>4. rows' = [rows EXCEPT ![j] = r1, ![s] = r2]
  BY <1>1, <1>2 DEF SessionInv, SessionTypeOK
<1> HIDE DEF r1, r2
<1>5. /\ rows' \in [Ids -> SessionRows \cup {NoRow}] /\ rows'[j] = r1 /\ rows'[s] = r2
      /\ \A r \in Ids \ {j, s} : rows'[r] = rows[r]
  BY <1>1, <1>2, <1>3, <1>4 DEF SessionInv, SessionTypeOK
<1>6. Used' = Used \cup {s}
  BY <1>1, <1>2, <1>3, <1>5, SessionAssumption DEF Used
<1>7. /\ rows'[j].root = rows[j].root /\ rows'[j].next = s
      /\ rows'[s].root = rows[j].root /\ rows'[s].next = 0
  BY <1>3, <1>5
<1>8. \A r \in Used : /\ r \in Nat /\ r < s /\ r # s /\ rows'[r].root = rows[r].root
                      /\ r # j => rows'[r] = rows[r]
  BY <1>1, <1>5, <1>7, RowParts DEF Used, SessionInv
<1>9. InOrder' BY <1>1, <1>6 DEF InOrder, SessionInv
<1>10. Chained'
  <2>1. ASSUME NEW r \in Used'
        PROVE  /\ rows'[r].root \in Used' /\ rows'[r].root <= r
               /\ rows'[r].next # 0 =>
                     /\ rows'[r].next \in Used' /\ rows'[r].next > r
                     /\ rows'[rows'[r].next].root = rows'[r].root
    <3>1. CASE r = s
      <4>1. rows[j].root \in Used BY DEF SessionInv, Chained
      <4> QED BY <1>1, <1>6, <1>7, <3>1, <4>1, <1>8
    <3>2. CASE r = j BY <1>6, <1>7, <1>8, <3>2 DEF SessionInv, Chained
    <3>3. CASE r \in Used \ {j}
      <4>1. /\ rows[r].root \in Used /\ rows[r].root <= r
            /\ rows[r].next # 0 => /\ rows[r].next \in Used /\ rows[r].next > r
                                   /\ rows[rows[r].next].root = rows[r].root
        BY <3>3 DEF SessionInv, Chained
      <4>2. rows'[r] = rows[r] BY <1>8, <3>3
      <4>3. rows[r].next # 0 => rows'[rows[r].next].root = rows[rows[r].next].root
        BY <1>8, <4>1
      <4>4. \A x \in Used : x \in Used' BY <1>6
      <4> QED BY <4>1, <4>2, <4>3, <4>4, Zenon
    <3> QED BY <1>6, <3>1, <3>2, <3>3
  <2>2. ASSUME NEW q \in Used', NEW r \in Used', rows'[r].root = rows'[q].root, r < q
        PROVE  rows'[r].next # 0
    <3>1. CASE r = s BY <1>1, <1>6, <1>8, <2>2, <3>1
    <3>2. CASE r = j BY <1>1, <1>7, <3>2
    <3>3. CASE r \in Used \ {j} /\ q # s
      <4>1. q \in Used /\ rows'[r] = rows[r] /\ rows'[q].root = rows[q].root
        BY <1>6, <1>8, <3>3
      <4> QED BY <2>2, <3>3, <4>1 DEF SessionInv, Chained
    <3>4. CASE r \in Used \ {j} /\ q = s
      <4>1. rows[r].root = rows[j].root /\ rows'[r] = rows[r] BY <1>7, <1>8, <2>2, <3>4
      <4>2. r < j
        <5>1. \A x \in Used : rows[x].root = rows[j].root /\ j < x => FALSE
          BY DEF SessionInv, Chained
        <5> QED BY <1>8, <3>4, <4>1, <5>1
      <4> QED BY <3>4, <4>1, <4>2 DEF SessionInv, Chained
    <3> QED BY <1>6, <3>1, <3>2, <3>3, <3>4
  <2>3. ASSUME NEW q \in Used'
        PROVE  \E t \in Used' : rows'[t].root = rows'[q].root /\ rows'[t].next = 0
    <3>1. CASE rows'[q].root = rows[j].root BY <1>6, <1>7, <3>1
    <3>2. CASE rows'[q].root # rows[j].root
      <4>1. q \in Used /\ rows[q].root # rows[j].root BY <1>6, <1>7, <1>8, <3>2
      <4>2. PICK t \in Used : rows[t].root = rows[q].root /\ rows[t].next = 0
        BY <4>1 DEF SessionInv, Chained
      <4> QED BY <1>6, <1>8, <4>1, <4>2
    <3> QED BY <3>1, <3>2
  <2> QED BY <2>1, <2>2, <2>3 DEF Chained
<1> QED BY <1>5, <1>6, <1>7, <1>8, <1>9, <1>10

-----------------------------------------------------------------------------
\* The walks along a line.

IsWalk(g) == g = [h \in 0..HopBound |->
                    [r \in Used |-> IF rows[r].next = 0 THEN r
                                    ELSE IF h = 0 THEN 0 ELSE g[h - 1][rows[r].next]]]

IsTip(g) == g = [r \in Used |-> IF rows[r].next = 0 THEN r ELSE g[rows[r].next]]

LEMMA WalksAre ==
    ASSUME NEW s
    PROVE  /\ Walk(s) = (CHOOSE g : IsWalk(g))[HopBound][s]
           /\ Tip(s) = (CHOOSE g : IsTip(g))[s]
BY DEF Walk, Tip, IsWalk, IsTip

\* The last row of the line of a row.
LEMMA LastRow ==
    ASSUME SessionInv, NEW s \in Used
    PROVE  /\ \E t \in Used : rows[t].root = rows[s].root /\ rows[t].next = 0
           /\ \A t \in Used : rows[t].root = rows[s].root /\ rows[t].next = 0 =>
                 /\ s <= t /\ s \in Nat /\ t \in Nat
                 /\ rows[s].next = 0 => t = s
                 /\ rows[s].next # 0 => /\ rows[s].next \in Used /\ rows[s].next > s
                                        /\ rows[rows[s].next].root = rows[t].root
           /\ \A t, u \in Used : /\ rows[t].root = rows[s].root /\ rows[t].next = 0
                                 /\ rows[u].root = rows[s].root /\ rows[u].next = 0
                                 => t = u
<1>1. Chained /\ \A r \in Used : r \in Nat BY RowParts DEF SessionInv
<1>2. \A t, u \in Used : /\ rows[t].root = rows[u].root /\ rows[t].next = 0 => u <= t
  BY <1>1 DEF Chained
<1>3. \A t, u \in Used : /\ rows[t].root = rows[u].root /\ rows[t].next = 0 /\ rows[u].next = 0
                         => t = u
  <2> SUFFICES ASSUME NEW t \in Used, NEW u \in Used, rows[t].root = rows[u].root,
                      rows[t].next = 0, rows[u].next = 0
               PROVE  t = u
    OBVIOUS
  <2>1. u <= t /\ t <= u BY <1>2
  <2> QED BY <1>1, <2>1
<1>4. \E t \in Used : rows[t].root = rows[s].root /\ rows[t].next = 0 BY <1>1 DEF Chained
<1>5. rows[s].next # 0 => /\ rows[s].next \in Used /\ rows[s].next > s
                          /\ rows[rows[s].next].root = rows[s].root
  BY <1>1 DEF Chained
<1> QED BY <1>1, <1>2, <1>3, <1>4, <1>5

LEMMA TipIsLast ==
    ASSUME SessionInv, NEW s \in Used
    PROVE  Tip(s) \in Used /\ rows[Tip(s)].root = rows[s].root /\ rows[Tip(s)].next = 0
<1> DEFINE EndOf(r) == CHOOSE t \in Used : rows[t].root = rows[r].root /\ rows[t].next = 0
           f == [r \in Used |-> EndOf(r)]
           g == CHOOSE h : IsTip(h)
<1>1. ASSUME NEW r \in Used
      PROVE  /\ EndOf(r) \in Used /\ rows[EndOf(r)].root = rows[r].root /\ rows[EndOf(r)].next = 0
  <2>1. \E t \in Used : rows[t].root = rows[r].root /\ rows[t].next = 0 BY LastRow
  <2> QED BY <2>1
<1> HIDE DEF EndOf
<1>2. ASSUME NEW r \in Used
      PROVE  /\ rows[r].next = 0 => EndOf(r) = r
             /\ rows[r].next # 0 => /\ rows[r].next \in Used /\ rows[r].next > r
                                    /\ EndOf(rows[r].next) = EndOf(r)
  <2>1. /\ EndOf(r) \in Used /\ rows[EndOf(r)].root = rows[r].root /\ rows[EndOf(r)].next = 0
    BY <1>1
  <2>2. /\ rows[r].next = 0 => EndOf(r) = r
        /\ rows[r].next # 0 => /\ rows[r].next \in Used /\ rows[r].next > r
                               /\ rows[rows[r].next].root = rows[EndOf(r)].root
    BY <2>1, LastRow
  <2>3. ASSUME rows[r].next # 0 PROVE EndOf(rows[r].next) = EndOf(r)
    <3>1. rows[r].next \in Used BY <2>2, <2>3
    <3>2. /\ EndOf(rows[r].next) \in Used /\ rows[EndOf(rows[r].next)].next = 0
          /\ rows[EndOf(rows[r].next)].root = rows[rows[r].next].root
      BY <1>1, <3>1
    <3>3. rows[EndOf(rows[r].next)].root = rows[r].root BY <2>1, <2>2, <2>3, <3>2
    <3> QED BY <2>1, <3>2, <3>3, LastRow
  <2> QED BY <2>2, <2>3
<1>3. IsTip(f) BY <1>2 DEF IsTip
<1>4. IsTip(g) BY <1>3
<1>5. \A r \in Used : g[r] = IF rows[r].next = 0 THEN r ELSE g[rows[r].next]
  BY <1>4 DEF IsTip
<1> HIDE DEF g, f
<1>6. \A r \in Used : g[r] = EndOf(r)
  <2> DEFINE D == {n \in Nat : \E r \in Used : n = MaxRows - r /\ g[r] # EndOf(r)}
  <2>1. ASSUME D # {} PROVE FALSE
    <3>1. PICK n \in D : \A m \in D : n <= m BY <2>1, SmallestNumber
    <3>2. PICK r \in Used : n = MaxRows - r /\ g[r] # EndOf(r) BY <3>1
    <3> DEFINE q == rows[r].next
    <3>3. q # 0 /\ q \in Used /\ q > r /\ g[q] # EndOf(q) BY <1>2, <1>5, <3>2
    <3>4. MaxRows \in Nat /\ q \in Ids /\ r \in Ids BY <3>3, SessionAssumption DEF Used
    <3>5. MaxRows - q \in Nat /\ MaxRows - q < n BY <3>2, <3>3, <3>4 DEF Ids
    <3>6. MaxRows - q \in D BY <3>3, <3>5
    <3> QED BY <3>1, <3>5, <3>6
  <2>2. \A r \in Used : MaxRows - r \in Nat BY SessionAssumption DEF Used, Ids
  <2> QED BY <2>1, <2>2
<1>7. Tip(s) = g[s] BY WalksAre DEF g
<1> QED BY <1>1, <1>6, <1>7

LEMMA WalkFindsLast ==
    ASSUME SessionInv, NEW s \in Used
    PROVE  /\ Walk(s) \in Used \cup {0}
           /\ \A t \in Used : rows[t].root = rows[s].root /\ rows[t].next = 0 /\ t - s <= HopBound =>
                 Walk(s) = t
<1> DEFINE Hop(f, h, r) == IF rows[r].next = 0 THEN r
                           ELSE IF h = 0 THEN 0 ELSE f[h - 1][rows[r].next]
           Part(n) == \E f \in [0..n -> [Used -> Used \cup {0}]] :
                         \A h \in 0..n, r \in Used : f[h][r] = Hop(f, h, r)
           g == CHOOSE f : IsWalk(f)
<1>1. \A r \in Used : rows[r].next # 0 => rows[r].next \in Used BY DEF SessionInv, Chained
<1>2. Part(0)
  <2> DEFINE f == [h \in 0..0 |-> [r \in Used |-> IF rows[r].next = 0 THEN r ELSE 0]]
  <2>1. f \in [0..0 -> [Used -> Used \cup {0}]] OBVIOUS
  <2>2. \A h \in 0..0, r \in Used : f[h][r] = Hop(f, h, r) OBVIOUS
  <2> QED BY <2>1, <2>2
<1>3. ASSUME NEW n \in Nat, Part(n) PROVE Part(n + 1)
  <2>1. PICK f \in [0..n -> [Used -> Used \cup {0}]] :
            \A h \in 0..n, r \in Used : f[h][r] = Hop(f, h, r)
    BY <1>3
  <2> DEFINE next == [r \in Used |-> Hop(f, n + 1, r)]
             e == [h \in 0..(n + 1) |-> IF h = n + 1 THEN next ELSE f[h]]
  <2>2. next \in [Used -> Used \cup {0}]
    <3>1. f[n] \in [Used -> Used \cup {0}] BY <2>1
    <3>2. n + 1 # 0 /\ (n + 1) - 1 = n OBVIOUS
    <3> QED BY <1>1, <3>1, <3>2
  <2>3. \A r \in Used : next[r] = Hop(f, n + 1, r) OBVIOUS
  <2> HIDE DEF next
  <2>4. e \in [0..(n + 1) -> [Used -> Used \cup {0}]] BY <2>1, <2>2
  <2>5. e[n + 1] = next /\ \A h \in 0..n : e[h] = f[h] OBVIOUS
  <2> HIDE DEF e
  <2>6. ASSUME NEW h \in 0..(n + 1), NEW r \in Used PROVE e[h][r] = Hop(e, h, r)
    <3>1. CASE h = n + 1
      <4>1. e[h][r] = Hop(f, n + 1, r) BY <2>3, <2>5, <3>1
      <4>2. e[h - 1] = f[h - 1] BY <2>5, <3>1
      <4> QED BY <3>1, <4>1, <4>2
    <3>2. CASE h # n + 1
      <4>1. h \in 0..n /\ (h # 0 => h - 1 \in 0..n) BY <3>2
      <4>2. e[h] = f[h] /\ (h # 0 => e[h - 1] = f[h - 1]) BY <2>5, <4>1
      <4>3. f[h][r] = Hop(f, h, r) BY <2>1, <4>1
      <4> QED BY <4>2, <4>3
    <3> QED BY <3>1, <3>2
  <2> QED BY <2>4, <2>6
<1>4. Part(HopBound)
  <2> DEFINE D == {n \in Nat : ~Part(n)}
  <2> HIDE DEF Part
  <2>1. ASSUME D # {} PROVE FALSE
    <3>1. PICK n \in D : \A m \in D : n <= m BY <2>1, SmallestNumber
    <3>2. n # 0 /\ n \in Nat BY <1>2, <3>1
    <3>3. n - 1 \in Nat /\ n - 1 \notin D BY <3>1, <3>2
    <3>4. Part((n - 1) + 1) BY <1>3, <3>3
    <3> QED BY <3>1, <3>2, <3>4
  <2> QED BY <2>1, SessionAssumption
<1>5. PICK f \in [0..HopBound -> [Used -> Used \cup {0}]] :
          \A h \in 0..HopBound, r \in Used : f[h][r] = Hop(f, h, r)
  BY <1>4
<1>6. IsWalk(f)
  <2> DEFINE e == [h \in 0..HopBound |-> [r \in Used |-> Hop(f, h, r)]]
  <2>1. \A h \in 0..HopBound : f[h] = [r \in Used |-> Hop(f, h, r)] BY <1>5
  <2>2. f = e BY <1>5, <2>1
  <2> QED BY <2>2 DEF IsWalk
<1>7. IsWalk(g) BY <1>6
<1> HIDE DEF g
<1>8. \A h \in 0..HopBound, r \in Used : g[h][r] = Hop(g, h, r)
  <2> SUFFICES ASSUME NEW h \in 0..HopBound, NEW r \in Used PROVE g[h][r] = Hop(g, h, r)
    OBVIOUS
  <2> DEFINE e == [k \in 0..HopBound |-> [x \in Used |-> Hop(g, k, x)]]
  <2>1. g = e BY <1>7 DEF IsWalk
  <2>2. e[h][r] = Hop(g, h, r) OBVIOUS
  <2> HIDE DEF e
  <2> QED BY <2>1, <2>2, Zenon
<1>9. Walk(s) = g[HopBound][s] BY WalksAre DEF g
<1> DEFINE Right(h) == \A r \in Used :
               /\ g[h][r] \in Used \cup {0}
               /\ \A t \in Used : rows[t].root = rows[r].root /\ rows[t].next = 0 /\ t - r <= h =>
                     g[h][r] = t
<1>10. ASSUME NEW h \in 0..HopBound, h # 0 => Right(h - 1) PROVE Right(h)
  <2> SUFFICES ASSUME NEW r \in Used
               PROVE  /\ g[h][r] \in Used \cup {0}
                      /\ \A t \in Used : rows[t].root = rows[r].root /\ rows[t].next = 0 /\ t - r <= h =>
                            g[h][r] = t
    OBVIOUS
  <2> DEFINE q == rows[r].next
  <2>1. \A t \in Used : rows[t].root = rows[r].root /\ rows[t].next = 0 =>
            /\ r <= t /\ r \in Nat /\ t \in Nat
            /\ q = 0 => t = r
            /\ q # 0 => q \in Used /\ q > r /\ rows[q].root = rows[t].root
    BY LastRow
  <2>2. q # 0 => q \in Used /\ q \in Nat BY <1>1, RowParts DEF SessionInv
  <2>3. g[h][r] = IF q = 0 THEN r ELSE IF h = 0 THEN 0 ELSE g[h - 1][q] BY <1>8
  <2> HIDE DEF q
  <2>4. g[h][r] \in Used \cup {0}
    <3>1. q # 0 /\ h # 0 => g[h - 1][q] \in Used \cup {0} BY <1>10, <2>2
    <3> QED BY <2>3, <3>1
  <2>5. ASSUME NEW t \in Used, rows[t].root = rows[r].root, rows[t].next = 0, t - r <= h
        PROVE  g[h][r] = t
    <3>1. CASE q = 0 BY <2>1, <2>3, <2>5, <3>1
    <3>2. CASE q # 0
      <4>1. q \in Used /\ q \in Nat /\ q > r /\ rows[q].root = rows[t].root /\ r \in Nat /\ t \in Nat
        BY <2>1, <2>2, <2>5, <3>2
      <4>2. q <= t BY <2>5, <4>1, LastRow
      <4>3. h # 0 /\ t - q <= h - 1 BY <2>5, <4>1, <4>2
      <4>4. g[h - 1][q] = t BY <1>10, <2>5, <4>1, <4>3
      <4> QED BY <2>3, <3>2, <4>3, <4>4
    <3> QED BY <3>1, <3>2
  <2> QED BY <2>4, <2>5
<1>11. Right(HopBound)
  <2> DEFINE D == {h \in 0..HopBound : ~Right(h)}
  <2> HIDE DEF Right
  <2>1. ASSUME D # {} PROVE FALSE
    <3>1. D \in SUBSET Nat BY SessionAssumption
    <3> HIDE DEF D
    <3>2. PICK n \in D : \A m \in D : n <= m BY <2>1, <3>1, SmallestNumber
    <3> USE DEF D
    <3>3. n # 0 => Right(n - 1) BY <3>2, SessionAssumption
    <3>4. Right(n) BY <1>10, <3>2, <3>3
    <3> QED BY <3>2, <3>4
  <2> QED BY <2>1, SessionAssumption
<1> QED BY <1>9, <1>11


\* A replay answers with a row of the account.
LEMMA ReplayedIsUsed ==
    ASSUME SessionInv, NEW s \in Used
    PROVE  Replayed(s) # 0 => Replayed(s) \in Used
BY WalkFindsLast DEF Replayed

LEMMA LoginStep ==
    ASSUME SessionInv, NEW c \in Clients, Login(c) \/ LoginOnDevice(c)
    PROVE  SessionInv'
<1>1. PICK s \in Fresh : /\ rows' = [rows EXCEPT ![s] = RowOf(s)]
                         /\ replies' = replies \cup {<<c, s>>}
  BY DEF Login, LoginOnDevice
<1>2. /\ rows' \in [Ids -> SessionRows \cup {NoRow}] /\ Used' = Used \cup {s}
      /\ InOrder' /\ Chained' /\ s \in Ids
  BY <1>1, LoginRows, FreshNumber
<1>3. /\ UNCHANGED <<clock, account, jar, sweep>> /\ device' \subseteq Clients
  BY DEF Login, LoginOnDevice, SessionInv, SessionTypeOK
<1>4. SessionTypeOK' BY <1>1, <1>2, <1>3 DEF SessionInv, SessionTypeOK
<1>5. TokensExist' BY <1>1, <1>2, <1>3 DEF SessionInv, TokensExist
<1> QED BY <1>2, <1>4, <1>5 DEF SessionInv

LEMMA RotateStep ==
    ASSUME SessionInv, NEW c \in Clients, Rotate(c)
    PROVE  SessionInv'
<1>1. PICK s \in Fresh :
          /\ rows' = [rows EXCEPT ![jar[c]].revoked = TRUE, ![jar[c]].next = s,
                                  ![jar[c]].replaced = clock,
                                  ![s] = RowOf(rows[jar[c]].root)]
          /\ replies' = replies \cup {<<c, s>>}
  BY DEF Rotate
<1>2. jar[c] \in Used /\ rows[jar[c]].next = 0 BY DEF Rotate, Rotatable
<1>3. /\ rows' \in [Ids -> SessionRows \cup {NoRow}] /\ Used' = Used \cup {s}
      /\ InOrder' /\ Chained' /\ s \in Ids
  BY <1>1, <1>2, RotateRows, FreshNumber
<1>4. UNCHANGED <<clock, account, jar, device, sweep>> BY DEF Rotate
<1>5. SessionTypeOK' BY <1>1, <1>3, <1>4 DEF SessionInv, SessionTypeOK
<1>6. TokensExist' BY <1>1, <1>3, <1>4 DEF SessionInv, TokensExist
<1> QED BY <1>3, <1>5, <1>6 DEF SessionInv

\* Rows that are revoked, whatever tokens are lost meanwhile.
LEMMA RevokeStep ==
    ASSUME SessionInv, NEW R,
           rows' = [s \in Ids |-> IF s \in R /\ rows[s] # NoRow
                                  THEN [rows[s] EXCEPT !.revoked = TRUE] ELSE rows[s]],
           \/ jar' = jar
           \/ jar' \in [Clients -> Ids \cup {0}] /\ \A c \in Clients : jar'[c] \in {jar[c], 0},
           UNCHANGED <<clock, account, replies, device>>, sweep' \in Sweeps \cup {NoSweep}
    PROVE  SessionInv' /\ Used' = Used
<1>1. ASSUME NEW w \in SessionRows
      PROVE  LET r == [w EXCEPT !.revoked = TRUE]
             IN  r \in SessionRows /\ r.root = w.root /\ r.next = w.next
  BY DEF SessionRows
<1>2. rows \in [Ids -> SessionRows \cup {NoRow}] BY DEF SessionInv, SessionTypeOK
<1>3. ASSUME NEW s \in Ids
      PROVE  /\ rows[s] = NoRow => rows'[s] = NoRow
             /\ rows[s] # NoRow => /\ rows'[s] \in SessionRows
                                   /\ rows'[s].root = rows[s].root /\ rows'[s].next = rows[s].next
  BY <1>1, <1>2
<1>4. rows' \in [Ids -> SessionRows \cup {NoRow}]
  <2> DEFINE e(s) == IF s \in R /\ rows[s] # NoRow
                     THEN [rows[s] EXCEPT !.revoked = TRUE] ELSE rows[s]
  <2>1. rows' = [s \in Ids |-> e(s)] OBVIOUS
  <2>2. \A s \in Ids : e(s) \in SessionRows \cup {NoRow} BY <1>1, <1>2
  <2> HIDE DEF e
  <2> QED BY <2>1, <2>2
<1>5. Used' = Used BY <1>3, SessionAssumption DEF Used
<1>6. \A s \in Used : rows'[s].root = rows[s].root /\ rows'[s].next = rows[s].next
  BY <1>3 DEF Used
<1>7. InOrder' /\ Chained' BY <1>5, <1>6, SameLines, SessionAssumption
<1>8. SessionTypeOK' BY <1>4 DEF SessionInv, SessionTypeOK
<1>9. TokensExist' BY <1>5 DEF SessionInv, TokensExist
<1> QED BY <1>5, <1>7, <1>8, <1>9 DEF SessionInv

\* A logout is the revocation of one row, the last one.
LEMMA LogoutRows ==
    ASSUME SessionInv, NEW c \in Clients, Logout(c)
    PROVE  /\ jar[c] \in Used /\ Tip(jar[c]) \in Used
           /\ rows' = [s \in Ids |-> IF s \in {Tip(jar[c])} /\ rows[s] # NoRow
                                     THEN [rows[s] EXCEPT !.revoked = TRUE] ELSE rows[s]]
           /\ \A s \in Used : rows'[s].root = rows[s].root /\ rows'[s].next = rows[s].next
           /\ rows'[Tip(jar[c])].revoked
           /\ SessionInv' /\ Used' = Used
<1>1. jar[c] \in Used BY DEF Logout, SessionInv, TokensExist
<1> DEFINE t == Tip(jar[c])
<1>2. t \in Used BY <1>1, TipIsLast
<1>3. rows' = [rows EXCEPT ![t].revoked = TRUE] BY DEF Logout
<1>4. rows \in [Ids -> SessionRows \cup {NoRow}] /\ t \in Ids /\ rows[t] # NoRow /\ rows[t] \in SessionRows
  BY <1>2 DEF SessionInv, SessionTypeOK, Used
<1> HIDE DEF t
<1>5. rows' = [s \in Ids |-> IF s \in {t} /\ rows[s] # NoRow
                             THEN [rows[s] EXCEPT !.revoked = TRUE] ELSE rows[s]]
  BY <1>3, <1>4
<1>6. /\ jar' \in [Clients -> Ids \cup {0}] /\ \A k \in Clients : jar'[k] \in {jar[k], 0}
      /\ UNCHANGED <<clock, account, replies, device>> /\ sweep' \in Sweeps \cup {NoSweep}
  BY DEF Logout, SessionInv, SessionTypeOK
<1>7. SessionInv' /\ Used' = Used BY <1>5, <1>6, RevokeStep
<1>8. /\ \A s \in Used : rows'[s].root = rows[s].root /\ rows'[s].next = rows[s].next
      /\ rows'[t].revoked
  <2>1. [rows[t] EXCEPT !.revoked = TRUE].revoked
        /\ [rows[t] EXCEPT !.revoked = TRUE].root = rows[t].root
        /\ [rows[t] EXCEPT !.revoked = TRUE].next = rows[t].next
    BY <1>4 DEF SessionRows
  <2>2. rows'[t] = [rows[t] EXCEPT !.revoked = TRUE] BY <1>4, <1>5
  <2>3. \A s \in Used : s # t => rows'[s] = rows[s] BY <1>4, <1>5 DEF Used
  <2> QED BY <2>1, <2>2, <2>3
<1> QED BY <1>1, <1>2, <1>5, <1>7, <1>8 DEF t

LEMMA SweepSteps ==
    ASSUME SessionInv,
           \/ \E c \in Clients : ChangePassword(c)
           \/ ResetPassword \/ Kick \/ ForgetDevices \/ DropDevices
    PROVE  SessionInv' /\ rows' = rows
<1>1. UNCHANGED <<clock, account, rows, jar, replies>> /\ device' \subseteq Clients
  BY DEF ChangePassword, ResetPassword, Kick, ForgetDevices, DropDevices, RevokeAll, SessionInv,
     SessionTypeOK
<1>2. sweep' \in Sweeps \cup {NoSweep}
  <2>1. ASSUME NEW keep, NEW forget \in BOOLEAN, RevokeAll(keep, forget)
        PROVE  sweep' \in Sweeps
    BY <2>1 DEF RevokeAll, Sweeps, Used
  <2> QED BY <2>1 DEF ChangePassword, ResetPassword, Kick, ForgetDevices, DropDevices, SessionInv,
     SessionTypeOK
<1>3. SessionTypeOK' BY <1>1, <1>2 DEF SessionInv, SessionTypeOK
<1>4. InOrder' /\ Chained' /\ TokensExist'
  BY <1>1 DEF SessionInv, InOrder, Chained, TokensExist, Used
<1> QED BY <1>1, <1>3, <1>4 DEF SessionInv

LEMMA RevokeRowsStep ==
    ASSUME SessionInv, RevokeRows
    PROVE  SessionInv' /\ Used' = Used
<1>1. sweep \in Sweeps BY DEF RevokeRows, SessionInv, SessionTypeOK
<1>2. sweep' \in Sweeps \cup {NoSweep} BY <1>1 DEF RevokeRows, Sweeps
<1> QED BY <1>2, RevokeStep DEF RevokeRows

LEMMA AnswerSteps ==
    ASSUME SessionInv,
           \/ \E c \in Clients : StableReplay(c)
           \/ \E to \in {"active", "off"} : ChangeAccount(to)
           \/ \E reply \in replies : Receive(reply) \/ LoseReply(reply)
           \/ Pass
    PROVE  SessionInv' /\ rows' = rows
<1>1. UNCHANGED <<rows, device, sweep>>
  BY DEF StableReplay, ChangeAccount, Receive, LoseReply, Pass
<1>2. Used' = Used /\ InOrder' /\ Chained'
  BY <1>1 DEF SessionInv, InOrder, Chained, Used
<1>3. SessionTypeOK /\ TokensExist BY DEF SessionInv
<1>4. ASSUME NEW c \in Clients, StableReplay(c) PROVE SessionTypeOK' /\ TokensExist'
  <2>1. jar[c] \in Used BY <1>3, <1>4 DEF StableReplay, TokensExist
  <2>2. Replayed(jar[c]) \in Used BY <1>4, <2>1, ReplayedIsUsed DEF StableReplay
  <2> QED BY <1>1, <1>2, <1>3, <1>4, <2>2 DEF StableReplay, SessionTypeOK, TokensExist, Used
<1>5. ASSUME NEW to \in {"active", "off"}, ChangeAccount(to) PROVE SessionTypeOK' /\ TokensExist'
  BY <1>1, <1>2, <1>3, <1>5 DEF ChangeAccount, SessionTypeOK, TokensExist
<1>6. ASSUME NEW reply \in replies, Receive(reply) \/ LoseReply(reply)
      PROVE  SessionTypeOK' /\ TokensExist'
  BY <1>1, <1>2, <1>3, <1>6 DEF Receive, LoseReply, SessionTypeOK, TokensExist
<1>7. ASSUME Pass PROVE SessionTypeOK' /\ TokensExist'
  <2>1. clock' \in 0..MaxClock BY <1>3, <1>7, SessionAssumption DEF Pass, SessionTypeOK
  <2>2. UNCHANGED <<account, jar, replies>> BY <1>7 DEF Pass
  <2> QED BY <1>1, <1>2, <1>3, <2>1, <2>2 DEF SessionTypeOK, TokensExist
<1>8. SessionTypeOK' /\ TokensExist' BY <1>4, <1>5, <1>6, <1>7
<1> QED BY <1>1, <1>2, <1>8 DEF SessionInv

LEMMA SessionStep ==
    ASSUME SessionInv, [SessionNext]_sessionVars
    PROVE  SessionInv'
<1>1. CASE UNCHANGED sessionVars
  BY <1>1 DEF sessionVars, SessionInv, SessionTypeOK, InOrder, Chained, TokensExist, Used
<1>2. CASE SessionNext
  BY <1>2, LoginStep, RotateStep, LogoutRows, SweepSteps, RevokeRowsStep, AnswerSteps DEF SessionNext
<1> QED BY <1>1, <1>2

\* A login without an open row has none after any step: only the holder of an
\* open row appends to a line.
LEMMA EndedLasts ==
    ASSUME SessionInv, [SessionNext]_sessionVars, NEW s \in Used,
           \A r \in Lineage(s) : ~Open(r)
    PROVE  \A r \in Lineage(s)' : ~Open(r)'
<1>1. CASE /\ Used' = Used
           /\ \A r \in Used : /\ rows'[r].root = rows[r].root /\ rows'[r].next = rows[r].next
                              /\ rows[r].revoked => rows'[r].revoked
  BY <1>1 DEF Lineage, Open
<1>2. ASSUME NEW c \in Clients, Login(c) \/ LoginOnDevice(c)
      PROVE  \A r \in Lineage(s)' : ~Open(r)'
  <2>1. PICK n \in Fresh : rows' = [rows EXCEPT ![n] = RowOf(n)] BY <1>2 DEF Login, LoginOnDevice
  <2>2. /\ Used' = Used \cup {n} /\ \A r \in Used : rows'[r] = rows[r] /\ r < n
        /\ rows'[n].root = n /\ n \in Nat
    BY <2>1, LoginRows, FreshNumber
  <2>3. rows[s].root \in Used /\ rows'[s].root = rows[s].root BY <2>2 DEF SessionInv, Chained
  <2>4. rows[s].root # n BY <2>2, <2>3
  <2> QED BY <2>2, <2>3, <2>4 DEF Lineage, Open
<1>3. ASSUME NEW c \in Clients, Rotate(c) PROVE \A r \in Lineage(s)' : ~Open(r)'
  <2>0. PICK j : j = jar[c] OBVIOUS
  <2>1. PICK n \in Fresh : rows' = [rows EXCEPT ![j].revoked = TRUE, ![j].next = n,
                                                ![j].replaced = clock,
                                                ![n] = RowOf(rows[j].root)]
    BY <1>3, <2>0 DEF Rotate
  <2>2. j \in Used /\ rows[j].next = 0 /\ Open(j) BY <1>3, <2>0 DEF Rotate, Rotatable, Open
  <2>3. /\ Used' = Used \cup {n} /\ \A r \in Used \ {j} : rows'[r] = rows[r]
        /\ rows'[j].root = rows[j].root /\ rows'[n].root = rows[j].root
    BY <2>1, <2>2, RotateRows
  <2>4. rows[j].root # rows[s].root BY <2>2 DEF Lineage
  <2>5. rows'[s].root = rows[s].root BY <2>2, <2>3, <2>4
  <2> QED BY <2>2, <2>3, <2>4, <2>5 DEF Lineage, Open
<1>4. ASSUME NEW c \in Clients, Logout(c) PROVE \A r \in Lineage(s)' : ~Open(r)'
  <2>1. /\ Used' = Used
        /\ \A r \in Used : rows'[r].root = rows[r].root /\ rows'[r].next = rows[r].next
        /\ \A r \in Used : rows'[r] = rows[r] \/ rows'[r].revoked
    BY <1>4, LogoutRows DEF Used
  <2> QED BY <1>1, <2>1
<1>5. CASE RevokeRows
  <2>1. Used' = Used BY <1>5, RevokeRowsStep
  <2>2. ASSUME NEW w \in SessionRows
        PROVE  LET r == [w EXCEPT !.revoked = TRUE]
               IN  r.revoked = TRUE /\ r.root = w.root /\ r.next = w.next
    BY DEF SessionRows
  <2>3. \A r \in Used : \/ rows'[r] = rows[r]
                        \/ rows'[r] = [rows[r] EXCEPT !.revoked = TRUE]
    BY <1>5 DEF RevokeRows, Used
  <2>4. \A r \in Used : rows[r] \in SessionRows BY RowParts DEF SessionInv
  <2>5. \A r \in Used : /\ rows'[r].root = rows[r].root /\ rows'[r].next = rows[r].next
                        /\ rows[r].revoked => rows'[r].revoked
    <3> SUFFICES ASSUME NEW r \in Used, rows'[r] # rows[r]
                 PROVE  rows'[r].root = rows[r].root /\ rows'[r].next = rows[r].next /\ rows'[r].revoked
      OBVIOUS
    <3>1. rows'[r] = [rows[r] EXCEPT !.revoked = TRUE] /\ rows[r] \in SessionRows BY <2>3, <2>4
    <3> QED BY <2>2, <3>1
  <2> QED BY <1>1, <2>1, <2>5
<1>6. CASE rows' = rows BY <1>1, <1>6 DEF Used
<1> QED
  BY <1>2, <1>3, <1>4, <1>5, <1>6, SweepSteps, AnswerSteps DEF SessionNext, sessionVars

\* However refreshes, logouts, revocations, lost and late answers interleave: a
\* login has one usable end, found again by a replay that is not too far behind,
\* and what has ended, by logout or revocation, stays ended.
THEOREM SessionsKeepContract == SessionSpec => SessionContract
<1> DEFINE
      StaysEnded == \A s \in Used : (\A r \in Lineage(s) : ~Open(r)) => \A r \in Lineage(s)' : ~Open(r)'
      LoggedOut == \A c \in Clients : jar[c] # 0 /\ Logout(c) =>
                       \A r \in Lineage(jar[c]) : ~Open(r)'
<1>1. SessionInv => SessionTypeOK /\ OneTipPerLogin /\ ReplayFindsTip
  <2> SUFFICES ASSUME SessionInv PROVE SessionTypeOK /\ OneTipPerLogin /\ ReplayFindsTip OBVIOUS
  <2>1. OneTipPerLogin
    <3> SUFFICES ASSUME NEW s \in Used, NEW r \in Lineage(s), NEW q \in Lineage(s), Open(r), Open(q)
                 PROVE  r = q
      BY DEF OneTipPerLogin
    <3> QED BY LastRow DEF Lineage, Open
  <2>2. ReplayFindsTip
    <3> SUFFICES ASSUME NEW s \in Used, NEW r \in Used, Replayable(s), r \in Lineage(s), Live(r),
                        r - s <= HopBound
                 PROVE  Replayed(s) = r
      BY DEF ReplayFindsTip
    <3>1. Walk(s) = r BY WalkFindsLast DEF Lineage, Live, Open
    <3>2. r # 0 BY RowParts DEF SessionInv
    <3> QED BY <3>1, <3>2 DEF Replayed, Live, Open
  <2> QED BY <2>1, <2>2 DEF SessionInv
<1>2. SessionInv /\ [SessionNext]_sessionVars => [StaysEnded]_sessionVars
  BY EndedLasts
<1>3. SessionInv /\ [SessionNext]_sessionVars => [LoggedOut]_sessionVars
  <2> SUFFICES ASSUME SessionInv, NEW c \in Clients, Logout(c), NEW r \in Lineage(jar[c])
               PROVE  ~Open(r)'
    OBVIOUS
  <2>1. /\ jar[c] \in Used /\ Tip(jar[c]) \in Used /\ rows'[Tip(jar[c])].revoked
        /\ \A s \in Used : rows'[s].next = rows[s].next
    BY LogoutRows
  <2>2. rows[Tip(jar[c])].root = rows[jar[c]].root /\ rows[Tip(jar[c])].next = 0
    BY <2>1, TipIsLast
  <2>3. r \in Used /\ (rows[r].next = 0 => r = Tip(jar[c]))
    BY <2>1, <2>2, LastRow DEF Lineage
  <2> QED BY <2>1, <2>3 DEF Open
<1> QED
  BY <1>1, <1>2, <1>3, SessionStart, SessionStep, PTL
     DEF SessionSpec, SessionContract, EndedStaysEnded, LogoutEndsLogin

-----------------------------------------------------------------------------
(* The ways into an account.                                                 *)

\* A code that is being sent has been drawn.
SendingIsMade == \A ch \in Channels : sending[ch] # NotSending => sending[ch] \in 1..made

DoorInv == DoorTypeOK /\ StoredCodeWasSent /\ FailureCostsNothing /\ SendingIsMade

LEMMA DoorStart == DoorInit => DoorInv
<1> SUFFICES ASSUME DoorInit PROVE DoorInv OBVIOUS
<1>1. who \in [role : {"TEACHER", "ADMIN", "STUDENT", "NONE"},
              status : {"ACTIVE", "PENDING", "OFF"}, enrolled : BOOLEAN]
  BY DEF DoorInit
<1>2. 0 \in 0..MaxCodes /\ 0 \in 0..MaxSigned BY DoorsAssumption
<1>3. /\ code \in [Channels -> CodeRows \cup {NoCode}]
      /\ sending \in [Channels -> (1..MaxCodes) \cup {NotSending}]
  BY DEF DoorInit
<1> QED
  BY <1>1, <1>2, <1>3
     DEF DoorInit, DoorInv, DoorTypeOK, StoredCodeWasSent, FailureCostsNothing, SendingIsMade

\* The steps of a request.
LEMMA RequestSteps ==
    ASSUME DoorInv, NEW ch \in Channels,
           \/ RequestCode(ch) \/ SendOk(ch) \/ RequestDiesSending(ch) \/ CooldownEnds(ch)
           \/ \E reached \in BOOLEAN : SendFails(ch, reached)
    PROVE  DoorInv'
<1>1. /\ DoorTypeOK /\ StoredCodeWasSent /\ FailureCostsNothing /\ SendingIsMade
      /\ made \in Nat /\ MaxCodes \in Nat /\ MaxWrong \in Nat
      /\ NoCode \notin CodeRows /\ NotSending \notin 1..MaxCodes
  BY DoorsAssumption DEF DoorInv, DoorTypeOK
<1>2. UNCHANGED <<who, tokenVars>>
  BY DEF RequestCode, SendOk, RequestDiesSending, CooldownEnds, SendFails
<1>3. UNCHANGED <<pendings, tickets, entry, remembered, signed>> BY <1>2 DEF tokenVars
<1>4. CASE RequestCode(ch)
  <2>1. made' \in 0..MaxCodes /\ made <= made' BY <1>1, <1>4 DEF RequestCode, DoorTypeOK
  <2>2. /\ sending' \in [Channels -> (1..MaxCodes) \cup {NotSending}]
        /\ \A c \in Channels : sending'[c] # NotSending => sending'[c] \in 1..made'
    BY <1>1, <1>4 DEF RequestCode, DoorTypeOK, SendingIsMade
  <2>3. arrived \subseteq 1..made' BY <1>1, <2>1 DEF DoorTypeOK
  <2>4. DoorTypeOK' BY <1>1, <1>2, <1>3, <1>4, <2>1, <2>2, <2>3 DEF RequestCode, DoorTypeOK
  <2> QED BY <1>1, <1>4, <2>2, <2>4
          DEF RequestCode, DoorInv, StoredCodeWasSent, FailureCostsNothing, SendingIsMade
<1>5. CASE SendOk(ch)
  <2> DEFINE row == [id |-> sending[ch], wrong |-> 0]
  <2>1. sending[ch] \in 1..made /\ sending[ch] \in 1..MaxCodes
    BY <1>1, <1>5 DEF SendOk, SendingIsMade, DoorTypeOK
  <2>2. row \in CodeRows /\ row.id = sending[ch] BY <1>1, <2>1 DEF CodeRows
  <2>3. code' = [code EXCEPT ![ch] = row] BY <1>5 DEF SendOk
  <2> HIDE DEF row
  <2>4. /\ code' \in [Channels -> CodeRows \cup {NoCode}] /\ code'[ch] = row
        /\ \A c \in Channels \ {ch} : code'[c] = code[c]
    BY <1>1, <2>2, <2>3 DEF DoorTypeOK
  <2>5. StoredCodeWasSent' BY <1>1, <1>5, <2>2, <2>4 DEF SendOk, StoredCodeWasSent
  <2>6. DoorTypeOK' BY <1>1, <1>2, <1>3, <1>5, <2>1, <2>4 DEF SendOk, DoorTypeOK
  <2> QED BY <1>1, <1>5, <2>5, <2>6
          DEF SendOk, DoorInv, FailureCostsNothing, SendingIsMade, DoorTypeOK
<1>6. ASSUME NEW reached \in BOOLEAN, SendFails(ch, reached) PROVE DoorInv'
  <2>1. sending[ch] \in 1..made BY <1>1, <1>6 DEF SendFails, SendingIsMade
  <2>2. AfterFailure(ch) \in {NoCode, code[ch]} BY DEF AfterFailure
  <2>3. /\ code' \in [Channels -> CodeRows \cup {NoCode}]
        /\ \A c \in Channels : code'[c] \in {NoCode, code[c]}
    BY <1>1, <1>6, <2>2 DEF SendFails, DoorTypeOK
  <2>4. arrived \subseteq arrived' /\ arrived' \subseteq 1..made
    BY <1>1, <1>6, <2>1 DEF SendFails, DoorTypeOK
  <2>5. DoorTypeOK' BY <1>1, <1>2, <1>3, <1>6, <2>3, <2>4 DEF SendFails, DoorTypeOK
  <2>6. StoredCodeWasSent' BY <1>1, <2>3, <2>4 DEF StoredCodeWasSent
  <2>7. FailureCostsNothing' BY <1>1, <1>6 DEF SendFails, FailureCostsNothing, Released
  <2> QED BY <1>1, <1>6, <2>5, <2>6, <2>7 DEF SendFails, DoorInv, SendingIsMade, DoorTypeOK
<1>7. CASE RequestDiesSending(ch) \/ CooldownEnds(ch)
  BY <1>1, <1>2, <1>3, <1>7
     DEF RequestDiesSending, CooldownEnds, DoorInv, DoorTypeOK, StoredCodeWasSent,
         FailureCostsNothing, SendingIsMade
<1> QED BY <1>4, <1>5, <1>6, <1>7

\* Every other step leaves requests alone, and codes as they are, gone, or
\* counted against.
LEMMA OtherSteps ==
    ASSUME DoorInv, UNCHANGED <<sending, cooldowns, made, arrived, failed>>,
           \/ code' = code
           \/ \E ch \in Channels : code' = [code EXCEPT ![ch] = NoCode]
           \/ \E ch \in Channels : /\ Usable(ch)
                                   /\ code' = [code EXCEPT ![ch].wrong = @ + 1],
           who' \in [role : {"TEACHER", "ADMIN", "STUDENT", "NONE"},
                     status : {"ACTIVE", "PENDING", "OFF"}, enrolled : BOOLEAN],
           pendings' \subseteq (1..MaxPending) \X {"mail", "staff"}, tickets' \subseteq 1..MaxPending,
           entry' \in BOOLEAN, remembered' \in BOOLEAN, signed' \in 0..MaxSigned
    PROVE  DoorInv'
<1>1. DoorTypeOK /\ StoredCodeWasSent /\ FailureCostsNothing /\ SendingIsMade BY DEF DoorInv
<1>2. /\ code' \in [Channels -> CodeRows \cup {NoCode}]
      /\ \A c \in Channels : code'[c] # NoCode => code[c] # NoCode /\ code'[c].id = code[c].id
  <2>1. CASE \E ch \in Channels : code' = [code EXCEPT ![ch] = NoCode]
    BY <1>1, <2>1 DEF DoorTypeOK
  <2>2. ASSUME NEW ch \in Channels, Usable(ch), code' = [code EXCEPT ![ch].wrong = @ + 1]
        PROVE  /\ code' \in [Channels -> CodeRows \cup {NoCode}]
               /\ \A c \in Channels : code'[c] # NoCode => code[c] # NoCode /\ code'[c].id = code[c].id
    <3> DEFINE n == code[ch].wrong + 1
               row == [code[ch] EXCEPT !.wrong = n]
    <3>1. code[ch] \in CodeRows /\ code[ch] # NoCode BY <1>1, <2>2 DEF Usable, DoorTypeOK
    <3>2. n \in 0..MaxWrong BY <2>2, <3>1, DoorsAssumption DEF Usable, CodeRows
    <3> HIDE DEF n
    <3>3. row \in CodeRows /\ row.id = code[ch].id BY <3>1, <3>2 DEF CodeRows
    <3>4. code' = [code EXCEPT ![ch] = row] BY <1>1, <2>2 DEF DoorTypeOK, n
    <3> HIDE DEF row
    <3> QED BY <1>1, <3>1, <3>3, <3>4 DEF DoorTypeOK
  <2>3. CASE code' = code BY <1>1, <2>3 DEF DoorTypeOK
  <2> QED BY <2>1, <2>2, <2>3
<1>3. DoorTypeOK' BY <1>1, <1>2 DEF DoorTypeOK
<1> QED BY <1>1, <1>2, <1>3 DEF DoorInv, StoredCodeWasSent, FailureCostsNothing, SendingIsMade

LEMMA DoorParts ==
    ASSUME DoorInv
    PROVE  /\ who \in [role : {"TEACHER", "ADMIN", "STUDENT", "NONE"},
                       status : {"ACTIVE", "PENDING", "OFF"}, enrolled : BOOLEAN]
           /\ pendings \subseteq (1..MaxPending) \X {"mail", "staff"} /\ tickets \subseteq 1..MaxPending
           /\ entry \in BOOLEAN /\ remembered \in BOOLEAN /\ signed \in 0..MaxSigned
BY DEF DoorInv, DoorTypeOK

LEMMA EntersTyped ==
    ASSUME DoorInv, NEW remember \in BOOLEAN, Enter(remember)
    PROVE  remembered' \in BOOLEAN /\ signed' \in 0..MaxSigned
<1>1. signed \in 0..MaxSigned /\ MaxSigned \in Nat BY DoorsAssumption, DoorParts
<1> QED BY <1>1 DEF Enter

LEMMA MintsTyped ==
    ASSUME DoorInv, NEW store \in {"mail", "staff"}, Mint(store)
    PROVE  pendings' \subseteq (1..MaxPending) \X {"mail", "staff"} /\ tickets' \subseteq 1..MaxPending
BY DoorParts DEF Mint

LEMMA CodeSteps ==
    ASSUME DoorInv, NEW id, NEW remember \in BOOLEAN,
           \/ EntryCode(id) \/ MailCode(id, remember) \/ StudentCode(id, remember)
           \/ StaffCode(id, remember)
    PROVE  DoorInv'
<1>1. /\ UNCHANGED <<sending, cooldowns, made, arrived, failed, who>>
      /\ code' = code \/ \E ch \in Channels : code' = [code EXCEPT ![ch] = NoCode]
  BY DEF EntryCode, MailCode, StudentCode, StaffCode, RestOfCodes, Consume, KeepCode, Channels
<1>2. /\ (pendings' = pendings /\ tickets' = tickets)
         \/ \E store \in {"mail", "staff"} : Mint(store)
      /\ (remembered' = remembered /\ signed' = signed) \/ Enter(remember)
      /\ entry' = entry \/ entry' = TRUE
  BY DEF EntryCode, MailCode, StudentCode, StaffCode
<1>3. /\ pendings' \subseteq (1..MaxPending) \X {"mail", "staff"} /\ tickets' \subseteq 1..MaxPending
      /\ entry' \in BOOLEAN /\ remembered' \in BOOLEAN /\ signed' \in 0..MaxSigned
  BY <1>2, MintsTyped, EntersTyped, DoorParts
<1> QED BY <1>1, <1>3, OtherSteps, DoorParts

LEMMA TokenSteps ==
    ASSUME DoorInv,
           \/ \E remember \in BOOLEAN : Password(remember)
           \/ \E remember, right, keep \in BOOLEAN, t \in tickets : SecondFactor(t, right, remember, keep)
           \/ \E valid \in BOOLEAN : Register(valid)
           \/ DeviceAlone \/ ChangeWho \/ ForgetDevice
    PROVE  DoorInv'
<1>1. UNCHANGED <<sending, cooldowns, made, arrived, failed, code>>
  BY DEF Password, SecondFactor, Register, DeviceAlone, ChangeWho, ForgetDevice, codeVars
<1>2. /\ (pendings' \subseteq pendings /\ tickets' \subseteq tickets)
         \/ \E store \in {"mail", "staff"} : Mint(store)
      /\ (signed' = signed /\ remembered' \in {remembered, FALSE})
         \/ \E remember \in BOOLEAN : Enter(remember)
      /\ entry' \in {entry, FALSE}
  BY DEF Password, StudentPassword, StaffPassword, SecondFactor, Register, DeviceAlone, ChangeWho,
         ForgetDevice, tokenVars
<1>3. /\ pendings' \subseteq (1..MaxPending) \X {"mail", "staff"} /\ tickets' \subseteq 1..MaxPending
      /\ entry' \in BOOLEAN /\ remembered' \in BOOLEAN /\ signed' \in 0..MaxSigned
  BY <1>2, MintsTyped, EntersTyped, DoorParts
<1>4. who' \in [role : {"TEACHER", "ADMIN", "STUDENT", "NONE"},
                status : {"ACTIVE", "PENDING", "OFF"}, enrolled : BOOLEAN]
  BY DoorParts
     DEF Password, SecondFactor, Register, DeviceAlone, ChangeWho, ForgetDevice
<1> QED BY <1>1, <1>3, <1>4, OtherSteps

LEMMA CodeEndSteps ==
    ASSUME DoorInv, NEW ch \in Channels, CodeExpires(ch) \/ WrongCode(ch)
    PROVE  DoorInv'
<1>1. /\ UNCHANGED <<sending, cooldowns, made, arrived, failed, who, tokenVars>>
      /\ \/ code' = [code EXCEPT ![ch] = NoCode]
         \/ Usable(ch) /\ code' = [code EXCEPT ![ch].wrong = @ + 1]
  BY DEF CodeExpires, WrongCode
<1>2. UNCHANGED <<pendings, tickets, entry, remembered, signed>> BY <1>1 DEF tokenVars
<1> QED BY <1>1, <1>2, DoorParts, OtherSteps

\* Whichever requests die or fail and whoever the account becomes: a stored code
\* was sent, a failed send costs nothing, and a right second factor is let in by
\* whichever door handed out its token.
THEOREM DoorsKeepContract == DoorSpec => DoorContract
<1> DEFINE
      RightEnters == \A t \in tickets, remember, keep \in BOOLEAN :
                  /\ SecondFactor(t, TRUE, remember, keep) /\ \E x \in pendings : x[1] = t
                  /\ who = [role |-> "ADMIN", status |-> "ACTIVE", enrolled |-> TRUE]
                  => signed' = signed + 1
<1>1. DoorInv /\ [DoorNext]_doorVars => DoorInv'
  <2> SUFFICES ASSUME DoorInv, [DoorNext]_doorVars PROVE DoorInv' OBVIOUS
  <2>1. CASE UNCHANGED doorVars
    BY <2>1 DEF doorVars, DoorInv, DoorTypeOK, StoredCodeWasSent, FailureCostsNothing, SendingIsMade
  <2>2. CASE DoorNext
    BY <2>2, RequestSteps, CodeEndSteps, CodeSteps, TokenSteps DEF DoorNext
  <2> QED BY <2>1, <2>2
<1>2. [RightEnters]_doorVars
  <2> SUFFICES RightEnters OBVIOUS
  <2> SUFFICES ASSUME NEW t \in tickets, NEW remember \in BOOLEAN, NEW keep \in BOOLEAN,
                      SecondFactor(t, TRUE, remember, keep), NEW x \in pendings, x[1] = t,
                      who = [role |-> "ADMIN", status |-> "ACTIVE", enrolled |-> TRUE]
               PROVE  signed' = signed + 1
    OBVIOUS
  <2>1. x \in Found(t) /\ Admitted(x) BY DEF Found, Admitted
  <2> QED BY <2>1 DEF SecondFactor, Enter
<1> QED
  BY <1>1, <1>2, DoorStart, PTL DEF DoorSpec, DoorContract, DoorInv, TokenFitsItsDoor

-----------------------------------------------------------------------------
(* Codes and counters of the store.                                        *)

ProofRows == [of : Challenges, purpose : Purposes \cup {NoChallenge}, left : 0..ProofTtl]

Answering(k, step) == {v \in Verifiers : At(v, step) /\ verifier[v].on = k}
Attempts(k) == IF challenge[k] = NoChallenge THEN 0 ELSE challenge[k].attempts
Checked == {l \in Logins : login[l] = "checked"}

ChallengeTyped ==
    /\ challenge \in [Challenges -> ChallengeRows \cup {NoChallenge}]
    /\ verifier \in [Verifiers -> Verifications \cup {Idle}]
    /\ issued \subseteq Challenges /\ proofs \subseteq ProofRows
    /\ minted \in [Challenges -> {0, 1}] /\ spent \in [Challenges -> {0, 1}]

CounterTyped ==
    /\ cap \in [count : 0..(RequestCap + 1), ttl : 0..CapWindow]
    /\ guard \in [count : Nat, ttl : 0..LockTtl]
    /\ asking \in BOOLEAN /\ login \in [Logins -> {"none", "checked", "first"}]
    /\ cooling \in {0, 1}

\* A challenge that was never made has no traces.  While its hash is whole, it is
\* either unclaimed, without proof and without a claimant, or claimed by the one
\* request that may still mint.
ExchangeSound ==
    \A k \in Challenges :
        /\ k \notin issued => /\ challenge[k] = NoChallenge /\ minted[k] = 0
                              /\ \A v \in Verifiers : verifier[v] # Idle => verifier[v].on # k
        /\ WholeStill(k) =>
              /\ challenge[k].consumed \/ (minted[k] = 0 /\ Answering(k, "claimed") = {})
              /\ \A v, w \in Answering(k, "claimed") : v = w
              /\ Answering(k, "claimed") # {} => minted[k] = 0

\* A proof is the one its challenge was exchanged for, and has not been spent.
ProofsSound ==
    /\ \A k \in Challenges : spent[k] <= minted[k]
    /\ \A p \in proofs : minted[p.of] = 1 /\ spent[p.of] = 0
    /\ \A p, q \in proofs : p.of = q.of => p = q

\* Every wrong answer that is on its way was let in below the limit.
AttemptsSound ==
    \A k \in Challenges :
        Attempts(k) + Cardinality(Answering(k, "wrong")) < MaxAttempts + Cardinality(Verifiers)

\* So was every login with credentials.
FailuresSound == guard.count + Cardinality(Checked) < LockThreshold + Cardinality(Logins)

ChallengeInv == ChallengeTyped /\ ExchangeSound /\ ProofsSound /\ AttemptsSound
CounterInv == CounterTyped /\ FailuresSound

LEMMA CrowdBounds ==
    ASSUME NEW k, NEW step
    PROVE  /\ IsFiniteSet(Answering(k, step)) /\ Cardinality(Answering(k, step)) \in Nat
           /\ Cardinality(Answering(k, step)) <= Cardinality(Verifiers)
           /\ Cardinality(Verifiers) \in Nat
           /\ IsFiniteSet(Checked) /\ Cardinality(Checked) \in Nat
           /\ Cardinality(Checked) <= Cardinality(Logins) /\ Cardinality(Logins) \in Nat
<1>1. Answering(k, step) \subseteq Verifiers /\ Checked \subseteq Logins
  BY DEF Answering, Checked
<1>2. IsFiniteSet(Verifiers) /\ IsFiniteSet(Logins) BY OtpAssumption
<1> QED BY <1>1, <1>2, FS_Subset, FS_CardinalityType

LEMMA OtpStart == OtpInit => ChallengeInv /\ CounterInv
<1> SUFFICES ASSUME OtpInit PROVE ChallengeInv /\ CounterInv OBVIOUS
<1>1. ChallengeTyped BY DEF OtpInit, ChallengeTyped
<1>2. CounterTyped
  <2>1. 0 \in 0..(RequestCap + 1) /\ 0 \in 0..CapWindow /\ 0 \in 0..LockTtl BY OtpAssumption
  <2> QED BY <2>1 DEF OtpInit, CounterTyped, NoKey, Untimed
<1>3. \A k \in Challenges, step \in {"right", "wrong", "claimed"} : Answering(k, step) = {}
  BY DEF OtpInit, Answering, At
<1>4. Checked = {} BY DEF OtpInit, Checked
<1>5. ExchangeSound BY <1>3 DEF OtpInit, ExchangeSound, WholeStill
<1>6. ProofsSound BY DEF OtpInit, ProofsSound
<1>7. AttemptsSound
  BY <1>3, FS_EmptySet, CrowdBounds, OtpAssumption DEF OtpInit, AttemptsSound, Attempts
<1>8. FailuresSound
  BY <1>4, FS_EmptySet, CrowdBounds, OtpAssumption DEF OtpInit, FailuresSound, NoKey
<1> QED BY <1>1, <1>2, <1>5, <1>6, <1>7, <1>8 DEF ChallengeInv, CounterInv

\* What the invariants promise.
LEMMA OtpPromises ==
    ASSUME ChallengeInv, CounterInv
    PROVE  OtpTypeOK /\ OneProofPerChallenge /\ AttemptsBounded
<1>1. OneProofPerChallenge
  BY DEF ChallengeInv, ChallengeTyped, ProofsSound, OneProofPerChallenge
<1>2. AttemptsBounded
  <2> SUFFICES ASSUME NEW k \in Challenges, challenge[k] # NoChallenge
               PROVE  challenge[k].attempts < MaxAttempts + Cardinality(Verifiers)
    BY DEF AttemptsBounded
  <2>1. Attempts(k) + Cardinality(Answering(k, "wrong")) < MaxAttempts + Cardinality(Verifiers)
    BY DEF ChallengeInv, AttemptsSound
  <2>2. Attempts(k) = challenge[k].attempts /\ Attempts(k) \in Nat
    BY DEF Attempts, ChallengeInv, ChallengeTyped, ChallengeRows
  <2> QED BY <2>1, <2>2, CrowdBounds, OtpAssumption
<1>3. guard.count \in 0..(LockThreshold + Cardinality(Logins) - 1)
  <2>1. guard.count \in Nat BY DEF CounterInv, CounterTyped
  <2>2. guard.count + Cardinality(Checked) < LockThreshold + Cardinality(Logins)
    BY DEF CounterInv, FailuresSound
  <2> QED BY <2>1, <2>2, CrowdBounds, OtpAssumption
<1> QED BY <1>1, <1>2, <1>3 DEF ChallengeInv, CounterInv, ChallengeTyped, CounterTyped, OtpTypeOK

-----------------------------------------------------------------------------
(* The counters.                                                           *)

LEMMA ArmedTyped ==
    ASSUME CounterTyped
    PROVE  Armed(cap, CapWindow) \in [count : 0..(RequestCap + 1), ttl : 0..CapWindow]
BY OtpAssumption DEF CounterTyped, Armed, Untimed

LEMMA AgedKeys ==
    ASSUME NEW N, NEW T \in Nat, NEW key \in [count : N, ttl : 0..T], 0 \in N
    PROVE  /\ Aged(key) \in [count : N, ttl : 0..T]
           /\ Aged(key).count \in {0, key.count}
<1>1. CASE key.ttl = 1 BY <1>1 DEF Aged, NoKey, Untimed
<1>2. CASE key.ttl # 1
  <2>1. Aged(key) = [key EXCEPT !.ttl = IF @ = Untimed THEN @ ELSE @ - 1] BY <1>2 DEF Aged
  <2>2. (IF key.ttl = Untimed THEN key.ttl ELSE key.ttl - 1) \in 0..T BY <1>2 DEF Untimed
  <2> QED BY <2>1, <2>2
<1> QED BY <1>1, <1>2

LEMMA RequestCounts ==
    ASSUME CounterInv, CountRequest \/ RefuseRequest \/ RequestDies
                       \/ \E k \in Challenges, purpose \in Purposes : IssueChallenge(k, purpose)
    PROVE  CounterInv'
<1>1. CounterTyped /\ UNCHANGED <<guard, login>>
  BY DEF CounterInv, CountRequest, RefuseRequest, RequestDies, IssueChallenge
<1>2. FailuresSound' BY <1>1 DEF CounterInv, FailuresSound, Checked
<1>3. CounterTyped'
  <2>1. asking' \in BOOLEAN /\ cooling' \in {0, 1}
    BY <1>1 DEF CounterTyped, CountRequest, RefuseRequest, RequestDies, IssueChallenge
  <2>2. \/ cap' = cap \/ cap' = Armed(cap, CapWindow)
        \/ cap' = [cap EXCEPT !.count = IF @ > RequestCap THEN @ ELSE @ + 1]
    BY DEF CountRequest, RefuseRequest, RequestDies, IssueChallenge
  <2>3. cap' \in [count : 0..(RequestCap + 1), ttl : 0..CapWindow]
    BY <1>1, <2>2, ArmedTyped, OtpAssumption DEF CounterTyped
  <2> QED BY <1>1, <2>1, <2>3 DEF CounterTyped
<1> QED BY <1>2, <1>3 DEF CounterInv

\* A login leaves or joins those that have been let in to present credentials.
LEMMA LoginCounts ==
    ASSUME CounterInv, NEW l \in Logins,
           CheckLock(l) \/ CountFailure(l) \/ ArmLock(l) \/ LoginSucceeds(l) \/ LoginDies(l)
    PROVE  CounterInv'
<1>1. /\ CounterTyped /\ UNCHANGED <<cap, asking, cooling>>
      /\ guard.count + Cardinality(Checked) < LockThreshold + Cardinality(Logins)
      /\ guard.count \in Nat /\ LockThreshold \in Nat /\ LockTtl \in 0..LockTtl
  BY OtpAssumption
     DEF CounterInv, CounterTyped, FailuresSound, CheckLock, CountFailure, ArmLock, LoginSucceeds,
         LoginDies
<1>2. \E s \in {"none", "checked", "first"} : login' = [login EXCEPT ![l] = s]
  BY DEF CheckLock, CountFailure, ArmLock, LoginSucceeds, LoginDies
<1>3. CounterTyped'
  <2>1. guard' \in [count : Nat, ttl : 0..LockTtl]
    BY <1>1 DEF CounterTyped, CheckLock, CountFailure, ArmLock, LoginSucceeds, LoginDies, NoKey,
       Untimed
  <2>2. login' \in [Logins -> {"none", "checked", "first"}] BY <1>1, <1>2 DEF CounterTyped
  <2> QED BY <1>1, <2>1, <2>2 DEF CounterTyped
<1>4. FailuresSound'
  <2>1. /\ IsFiniteSet(Checked) /\ Cardinality(Checked) \in Nat
        /\ IsFiniteSet(Checked') /\ Cardinality(Checked') \in Nat
        /\ Cardinality(Checked') <= Cardinality(Logins) /\ Cardinality(Logins) \in Nat
    <3>1. Checked \subseteq Logins /\ Checked' \subseteq Logins BY DEF Checked
    <3> QED BY <3>1, FS_Subset, FS_CardinalityType, OtpAssumption
  <2>2. CASE CheckLock(l)
    <3>1. guard.count < LockThreshold /\ guard' = guard BY <1>1, <2>2 DEF CheckLock, Locked
    <3> QED BY <1>1, <2>1, <3>1 DEF FailuresSound
  <2>3. CASE CountFailure(l) \/ LoginSucceeds(l)
    <3>1. /\ l \in Checked /\ Checked' = Checked \ {l}
          /\ guard'.count \in Nat /\ guard'.count <= guard.count + 1
      BY <1>1, <2>3 DEF CountFailure, LoginSucceeds, Checked, CounterTyped, NoKey
    <3>2. Cardinality(Checked') = Cardinality(Checked) - 1 BY <2>1, <3>1, FS_RemoveElement
    <3> QED BY <1>1, <2>1, <3>1, <3>2 DEF FailuresSound
  <2>4. CASE ArmLock(l) \/ LoginDies(l)
    <3>1. Checked' \subseteq Checked /\ guard'.count = guard.count
      BY <1>1, <2>4 DEF ArmLock, LoginDies, Checked, CounterTyped
    <3>2. Cardinality(Checked') <= Cardinality(Checked) BY <2>1, <3>1, FS_Subset
    <3> QED BY <1>1, <2>1, <3>1, <3>2 DEF FailuresSound
  <2> QED BY <2>2, <2>3, <2>4
<1> QED BY <1>3, <1>4 DEF CounterInv

LEMMA ElapseCounts == ASSUME CounterInv, Elapse PROVE CounterInv'
<1>1. 0 \in 0..(RequestCap + 1) /\ CapWindow \in Nat /\ LockTtl \in Nat /\ LockThreshold \in Nat
  BY OtpAssumption
<1>2. /\ Aged(cap) \in [count : 0..(RequestCap + 1), ttl : 0..CapWindow]
      /\ Aged(guard) \in [count : Nat, ttl : 0..LockTtl]
      /\ Aged(guard).count \in {0, guard.count}
  <2>1. /\ cap \in [count : 0..(RequestCap + 1), ttl : 0..CapWindow]
        /\ guard \in [count : Nat, ttl : 0..LockTtl]
    BY DEF CounterInv, CounterTyped
  <2>2. Aged(cap) \in [count : 0..(RequestCap + 1), ttl : 0..CapWindow] BY <1>1, <2>1, AgedKeys
  <2>3. /\ Aged(guard) \in [count : Nat, ttl : 0..LockTtl]
        /\ Aged(guard).count \in {0, guard.count}
    BY <1>1, <2>1, AgedKeys
  <2> QED BY <2>2, <2>3
<1>3. CounterTyped' BY <1>2 DEF CounterInv, CounterTyped, Elapse
<1>4. FailuresSound'
  <2>1. Checked' = Checked BY DEF Elapse, Checked
  <2>2. /\ guard.count + Cardinality(Checked) < LockThreshold + Cardinality(Logins)
        /\ guard.count \in Nat /\ guard'.count \in {0, guard.count}
    BY <1>2 DEF CounterInv, CounterTyped, FailuresSound, Elapse
  <2> QED BY <1>1, <2>1, <2>2, CrowdBounds DEF FailuresSound
<1> QED BY <1>3, <1>4 DEF CounterInv

-----------------------------------------------------------------------------
(* The challenges.                                                         *)

\* What has a trace was made.
LEMMA TracesOfIssued ==
    ASSUME ChallengeInv
    PROVE  /\ \A k \in Challenges : challenge[k] # NoChallenge => k \in issued
           /\ \A v \in Verifiers : verifier[v] # Idle =>
                 verifier[v] \in Verifications /\ verifier[v].on \in issued
BY DEF ChallengeInv, ChallengeTyped, ExchangeSound, Verifications

LEMMA ExchangeKept ==
    ASSUME ExchangeSound, issued' = issued, minted' = minted,
           \A k \in Challenges :
              /\ challenge'[k] # NoChallenge => k \in issued
              /\ WholeStill(k)' => WholeStill(k) /\ challenge'[k].consumed = challenge[k].consumed
              /\ Answering(k, "claimed")' \subseteq Answering(k, "claimed"),
           \A v \in Verifiers : verifier'[v] # Idle => verifier'[v].on \in issued
    PROVE  ExchangeSound'
<1> SUFFICES ASSUME NEW k \in Challenges
    PROVE  (/\ k \notin issued => /\ challenge[k] = NoChallenge /\ minted[k] = 0
                                  /\ \A v \in Verifiers : verifier[v] # Idle => verifier[v].on # k
            /\ WholeStill(k) =>
                  /\ challenge[k].consumed \/ (minted[k] = 0 /\ Answering(k, "claimed") = {})
                  /\ \A v, w \in Answering(k, "claimed") : v = w
                  /\ Answering(k, "claimed") # {} => minted[k] = 0)'
  BY DEF ExchangeSound
<1>1. (k \notin issued => /\ challenge[k] = NoChallenge /\ minted[k] = 0
                           /\ \A v \in Verifiers : verifier[v] # Idle => verifier[v].on # k)'
  BY DEF ExchangeSound
<1>2. ASSUME WholeStill(k)'
      PROVE (/\ challenge[k].consumed \/ (minted[k] = 0 /\ Answering(k, "claimed") = {})
             /\ \A v, w \in Answering(k, "claimed") : v = w
             /\ Answering(k, "claimed") # {} => minted[k] = 0)'
  <2>1. WholeStill(k) /\ challenge'[k].consumed = challenge[k].consumed BY <1>2
  <2>2. Answering(k, "claimed")' \subseteq Answering(k, "claimed") OBVIOUS
  <2> QED BY <2>1, <2>2 DEF ExchangeSound
<1> QED BY <1>1, <1>2

LEMMA AttemptsKept ==
    ASSUME AttemptsSound, ChallengeTyped,
           \A k \in Challenges :
              /\ Attempts(k)' \in Nat /\ Attempts(k)' <= Attempts(k)
              /\ Answering(k, "wrong")' \subseteq Answering(k, "wrong")
    PROVE  AttemptsSound'
<1> SUFFICES ASSUME NEW k \in Challenges
    PROVE Attempts(k)' + Cardinality(Answering(k, "wrong")') < MaxAttempts + Cardinality(Verifiers)
  BY DEF AttemptsSound
<1>1. Attempts(k) \in Nat BY DEF Attempts, ChallengeTyped, ChallengeRows
<1>2. /\ Cardinality(Answering(k, "wrong")') <= Cardinality(Answering(k, "wrong"))
      /\ Cardinality(Answering(k, "wrong")') \in Nat
  BY CrowdBounds, FS_Subset, FS_CardinalityType
<1>3. Attempts(k) + Cardinality(Answering(k, "wrong")) < MaxAttempts + Cardinality(Verifiers)
  BY DEF AttemptsSound
<1> QED BY <1>1, <1>2, <1>3, CrowdBounds, OtpAssumption

\* A verification that ends leaves its crowd.
LEMMA VerifierLeaves ==
    ASSUME ChallengeTyped, NEW v \in Verifiers, verifier' = [verifier EXCEPT ![v] = Idle]
    PROVE  /\ \A k, step : Answering(k, step)' = Answering(k, step) \ {v}
           /\ \A w \in Verifiers : verifier'[w] # Idle => verifier'[w] = verifier[w]
           /\ verifier' \in [Verifiers -> Verifications \cup {Idle}]
BY DEF ChallengeTyped, Answering, At

LEMMA IssueStep ==
    ASSUME ChallengeInv, NEW k \in Challenges, NEW purpose \in Purposes, IssueChallenge(k, purpose)
    PROVE  ChallengeInv'
<1> DEFINE row == [whole |-> TRUE, purpose |-> purpose, left |-> CodeTtl, attempts |-> 0,
                   consumed |-> FALSE]
<1>1. /\ k \notin issued /\ issued' = issued \cup {k} /\ challenge' = [challenge EXCEPT ![k] = row]
      /\ UNCHANGED <<verifier, proofs, minted, spent>> /\ ChallengeTyped
  BY DEF IssueChallenge, ChallengeInv
<1>2. row \in ChallengeRows /\ row # NoChallenge /\ row.attempts = 0 /\ ~row.consumed /\ row.whole
  <2>1. CodeTtl \in 0..CodeTtl /\ 0 \in Nat BY OtpAssumption
  <2>2. row \in ChallengeRows BY <2>1 DEF ChallengeRows
  <2> QED BY <2>2, OtpAssumption
<1> HIDE DEF row
<1>3. \A j \in Challenges : challenge'[j] = IF j = k THEN row ELSE challenge[j]
  BY <1>1 DEF ChallengeTyped
<1>4. ChallengeTyped' BY <1>1, <1>2 DEF ChallengeTyped
<1>5. ProofsSound' BY <1>1 DEF ChallengeInv, ProofsSound
<1>6. \A j, step : Answering(j, step)' = Answering(j, step) BY <1>1 DEF Answering, At
<1>7. AttemptsSound'
  <2>1. \A j \in Challenges : Attempts(j)' = Attempts(j)
    BY <1>1, <1>2, <1>3 DEF Attempts, ChallengeInv, ExchangeSound
  <2>2. \A j \in Challenges : Attempts(j) \in Nat
    BY <1>1 DEF ChallengeTyped, ChallengeRows, Attempts
  <2> QED BY <1>1, <1>6, <2>1, <2>2, AttemptsKept DEF ChallengeInv
<1>8. ExchangeSound'
  <2> SUFFICES ASSUME NEW j \in Challenges
      PROVE  (/\ j \notin issued => /\ challenge[j] = NoChallenge /\ minted[j] = 0
                                    /\ \A v \in Verifiers : verifier[v] # Idle => verifier[v].on # j
              /\ WholeStill(j) =>
                    /\ challenge[j].consumed \/ (minted[j] = 0 /\ Answering(j, "claimed") = {})
                    /\ \A v, w \in Answering(j, "claimed") : v = w
                    /\ Answering(j, "claimed") # {} => minted[j] = 0)'
    BY DEF ExchangeSound
  <2>1. CASE j = k
    <3>1. minted[k] = 0 /\ Answering(k, "claimed") = {}
      BY <1>1 DEF ChallengeInv, ExchangeSound, Answering, At
    <3> QED BY <1>1, <1>6, <2>1, <3>1
  <2>2. CASE j # k
    BY <1>1, <1>3, <1>6, <2>2 DEF ChallengeInv, ExchangeSound, WholeStill
  <2> QED BY <2>1, <2>2
<1> QED BY <1>4, <1>5, <1>7, <1>8 DEF ChallengeInv

LEMMA ReadStep ==
    ASSUME ChallengeInv, NEW v \in Verifiers, NEW k \in Challenges, NEW right \in BOOLEAN,
           ReadChallenge(v, k, right)
    PROVE  ChallengeInv'
<1> DEFINE row == [at |-> IF right THEN "right" ELSE "wrong", on |-> k,
                   purpose |-> challenge[k].purpose]
<1>1. /\ verifier[v] = Idle /\ Answerable(challenge[k]) /\ verifier' = [verifier EXCEPT ![v] = row]
      /\ UNCHANGED <<challenge, issued, proofs, minted, spent>> /\ ChallengeTyped
  BY DEF ReadChallenge, ChallengeInv
<1>2. challenge[k] \in ChallengeRows /\ k \in issued
  BY <1>1, TracesOfIssued DEF Answerable, ChallengeTyped
<1>3. row \in Verifications /\ row # Idle /\ row.on = k /\ row.at \in {"right", "wrong"}
  BY <1>2, OtpAssumption DEF Verifications, ChallengeRows
<1> HIDE DEF row
<1>4. \A w \in Verifiers : verifier'[w] = IF w = v THEN row ELSE verifier[w]
  BY <1>1 DEF ChallengeTyped
<1>5. ChallengeTyped' BY <1>1, <1>3 DEF ChallengeTyped
<1>6. ProofsSound' BY <1>1 DEF ChallengeInv, ProofsSound
<1>7. /\ \A j : Answering(j, "claimed")' = Answering(j, "claimed")
      /\ \A j : j # k => Answering(j, "wrong")' = Answering(j, "wrong")
  BY <1>1, <1>3, <1>4 DEF Answering, At
<1>8. ExchangeSound'
  <2>1. \A j \in Challenges : WholeStill(j)' => WholeStill(j) BY <1>1 DEF WholeStill
  <2> QED BY <1>1, <1>2, <1>3, <1>4, <1>7, <2>1, ExchangeKept, TracesOfIssued DEF ChallengeInv
<1>9. AttemptsSound'
  <2> SUFFICES ASSUME NEW j \in Challenges
      PROVE Attempts(j)' + Cardinality(Answering(j, "wrong")') < MaxAttempts + Cardinality(Verifiers)
    BY DEF AttemptsSound
  <2>1. CASE j = k
    <3>1. Attempts(j)' < MaxAttempts /\ Attempts(j)' \in Nat
      BY <1>1, <1>2, <2>1 DEF Attempts, Answerable, ChallengeRows
    <3>2. /\ Cardinality(Answering(j, "wrong")') <= Cardinality(Verifiers)
          /\ Cardinality(Answering(j, "wrong")') \in Nat
      <4>1. Answering(j, "wrong")' \subseteq Verifiers BY DEF Answering
      <4> QED BY <4>1, OtpAssumption, FS_Subset, FS_CardinalityType
    <3> QED BY <3>1, <3>2, CrowdBounds, OtpAssumption
  <2>2. CASE j # k
    BY <1>1, <1>7, <2>2 DEF ChallengeInv, AttemptsSound, Attempts
  <2> QED BY <2>1, <2>2
<1> QED BY <1>5, <1>6, <1>8, <1>9 DEF ChallengeInv

LEMMA WrongStep ==
    ASSUME ChallengeInv, NEW v \in Verifiers, CountWrongAnswer(v)
    PROVE  ChallengeInv'
<1> DEFINE k == verifier[v].on
           row == [OrStub(k) EXCEPT !.attempts = @ + 1]
<1>1. /\ v \in Answering(k, "wrong") /\ k \in issued /\ k \in Challenges /\ ChallengeTyped
      /\ challenge' = [challenge EXCEPT ![k] = row] /\ verifier' = [verifier EXCEPT ![v] = Idle]
      /\ UNCHANGED <<issued, proofs, minted, spent>>
  BY TracesOfIssued DEF CountWrongAnswer, ChallengeInv, ChallengeTyped, Answering, At
<1>2. /\ OrStub(k) \in ChallengeRows /\ OrStub(k).attempts = Attempts(k)
      /\ OrStub(k).whole <=> WholeStill(k)
      /\ WholeStill(k) => OrStub(k).consumed = challenge[k].consumed
  <2>1. 0 \in 0..CodeTtl /\ 0 \in Nat BY OtpAssumption
  <2>2. Stub \in ChallengeRows /\ Stub.attempts = 0 /\ ~Stub.whole BY <2>1 DEF Stub, ChallengeRows
  <2> QED BY <1>1, <2>2 DEF OrStub, Attempts, WholeStill, ChallengeTyped
<1>3. /\ row \in ChallengeRows /\ row # NoChallenge /\ row.attempts = Attempts(k) + 1
      /\ Attempts(k) \in Nat /\ row.whole = OrStub(k).whole /\ row.consumed = OrStub(k).consumed
  <2>1. row \in ChallengeRows /\ row.attempts = Attempts(k) + 1 /\ Attempts(k) \in Nat
        /\ row.whole = OrStub(k).whole /\ row.consumed = OrStub(k).consumed
    BY <1>2 DEF ChallengeRows
  <2> QED BY <2>1, OtpAssumption
<1> HIDE DEF k, row
<1>4. \A j \in Challenges : challenge'[j] = IF j = k THEN row ELSE challenge[j]
  BY <1>1 DEF ChallengeTyped
<1>5. /\ \A j, step : Answering(j, step)' = Answering(j, step) \ {v}
      /\ \A w \in Verifiers : verifier'[w] # Idle => verifier'[w] = verifier[w]
      /\ verifier' \in [Verifiers -> Verifications \cup {Idle}]
  BY <1>1, VerifierLeaves
<1>6. ChallengeTyped' BY <1>1, <1>3, <1>5 DEF ChallengeTyped
<1>7. ProofsSound' BY <1>1 DEF ChallengeInv, ProofsSound
<1>8. ExchangeSound'
  <2>1. \A j \in Challenges : /\ challenge'[j] # NoChallenge => j \in issued
                             /\ WholeStill(j)' => /\ WholeStill(j)
                                                  /\ challenge'[j].consumed = challenge[j].consumed
    BY <1>1, <1>2, <1>3, <1>4, TracesOfIssued DEF WholeStill
  <2> QED BY <1>1, <1>5, <2>1, ExchangeKept, TracesOfIssued DEF ChallengeInv
<1>9. AttemptsSound'
  <2> SUFFICES ASSUME NEW j \in Challenges
      PROVE Attempts(j)' + Cardinality(Answering(j, "wrong")') < MaxAttempts + Cardinality(Verifiers)
    BY DEF AttemptsSound
  <2>1. /\ Attempts(j) + Cardinality(Answering(j, "wrong")) < MaxAttempts + Cardinality(Verifiers)
        /\ Attempts(j) \in Nat
    BY DEF ChallengeInv, AttemptsSound, Attempts, ChallengeTyped, ChallengeRows
  <2>2. CASE j = k
    <3>1. Attempts(j)' = Attempts(j) + 1 BY <1>3, <1>4, <2>2 DEF Attempts
    <3>2. Cardinality(Answering(j, "wrong")') = Cardinality(Answering(j, "wrong")) - 1
      BY <1>1, <1>5, <2>2, CrowdBounds, FS_RemoveElement
    <3> QED BY <2>1, <3>1, <3>2, CrowdBounds, OtpAssumption
  <2>3. CASE j # k
    <3>1. Attempts(j)' = Attempts(j) BY <1>4, <2>3 DEF Attempts
    <3>2. v \notin Answering(j, "wrong") BY <2>3 DEF Answering, k
    <3>3. Answering(j, "wrong")' = Answering(j, "wrong") BY <1>5, <3>2
    <3> QED BY <2>1, <3>1, <3>3
  <2> QED BY <2>2, <2>3
<1> QED BY <1>6, <1>7, <1>8, <1>9 DEF ChallengeInv

\* Verifications end, challenges grow old or go: nothing is minted.
LEMMA FadeStep ==
    ASSUME ChallengeInv, issued' = issued, minted' = minted, ChallengeTyped', ProofsSound',
           \A k \in Challenges :
              \/ challenge'[k] = NoChallenge
              \/ /\ challenge[k] # NoChallenge /\ challenge'[k].whole = challenge[k].whole
                 /\ challenge'[k].consumed = challenge[k].consumed
                 /\ challenge'[k].attempts = challenge[k].attempts,
           \A v \in Verifiers : verifier'[v] = Idle \/ verifier'[v] = verifier[v]
    PROVE  ChallengeInv'
<1>1. \A k \in Challenges : /\ Answering(k, "claimed")' \subseteq Answering(k, "claimed")
                           /\ Answering(k, "wrong")' \subseteq Answering(k, "wrong")
  BY DEF Answering, At
<1>2. ExchangeSound'
  <2>1. ASSUME NEW k \in Challenges PROVE challenge'[k] # NoChallenge => k \in issued
    BY TracesOfIssued
  <2>2. ASSUME NEW k \in Challenges, WholeStill(k)'
        PROVE  WholeStill(k) /\ challenge'[k].consumed = challenge[k].consumed
    BY <2>2 DEF WholeStill
  <2>3. \A v \in Verifiers : verifier'[v] # Idle => verifier'[v].on \in issued BY TracesOfIssued
  <2>4. ExchangeSound BY DEF ChallengeInv
  <2> QED BY <1>1, <2>1, <2>2, <2>3, <2>4, ExchangeKept
<1>3. AttemptsSound'
  <2>1. ASSUME NEW k \in Challenges PROVE Attempts(k)' \in Nat /\ Attempts(k)' <= Attempts(k)
    <3>1. challenge[k] # NoChallenge => challenge[k].attempts \in Nat
      BY DEF ChallengeInv, ChallengeTyped, ChallengeRows
    <3> QED BY <3>1 DEF Attempts
  <2> QED BY <1>1, <2>1, AttemptsKept DEF ChallengeInv
<1> QED BY <1>2, <1>3 DEF ChallengeInv

LEMMA LeaveStep ==
    ASSUME ChallengeInv, NEW v \in Verifiers, verifier' = [verifier EXCEPT ![v] = Idle],
           UNCHANGED <<issued, proofs, minted, spent>>,
           challenge' = challenge
           \/ \E k \in Challenges : challenge' = [challenge EXCEPT ![k] = NoChallenge]
    PROVE  ChallengeInv'
<1>1. ChallengeTyped' BY VerifierLeaves DEF ChallengeInv, ChallengeTyped
<1>2. ProofsSound' BY DEF ChallengeInv, ProofsSound
<1>3. \A k \in Challenges : challenge'[k] \in {NoChallenge, challenge[k]}
  BY DEF ChallengeInv, ChallengeTyped
<1>4. \A w \in Verifiers : verifier'[w] = Idle \/ verifier'[w] = verifier[w]
  BY VerifierLeaves DEF ChallengeInv
<1> QED BY <1>1, <1>2, <1>3, <1>4, FadeStep

LEMMA ClaimStep ==
    ASSUME ChallengeInv, NEW v \in Verifiers, ClaimChallenge(v)
    PROVE  ChallengeInv'
<1> PICK k \in Challenges : k = verifier[v].on
  BY TracesOfIssued DEF ClaimChallenge, At, Verifications
<1> DEFINE row == [OrStub(k) EXCEPT !.consumed = TRUE]
           held == [verifier[v] EXCEPT !.at = "claimed"]
<1>1. CASE Claimed(k) BY <1>1, LeaveStep DEF ClaimChallenge
<1>2. CASE ~Claimed(k)
  <2>1. /\ v \in Answering(k, "right") /\ k \in issued /\ k \in Challenges /\ ChallengeTyped
        /\ verifier[v] \in Verifications /\ verifier[v].at = "right"
        /\ challenge' = [challenge EXCEPT ![k] = row] /\ verifier' = [verifier EXCEPT ![v] = held]
        /\ UNCHANGED <<issued, proofs, minted, spent>>
    BY <1>2, TracesOfIssued DEF ClaimChallenge, ChallengeInv, ChallengeTyped, Answering, At
  <2>2. /\ OrStub(k) \in ChallengeRows /\ OrStub(k).attempts = Attempts(k)
        /\ OrStub(k).whole <=> WholeStill(k)
    <3>1. 0 \in 0..CodeTtl /\ 0 \in Nat BY OtpAssumption
    <3>2. Stub \in ChallengeRows /\ Stub.attempts = 0 /\ ~Stub.whole BY <3>1 DEF Stub, ChallengeRows
    <3> QED BY <2>1, <3>2 DEF OrStub, Attempts, WholeStill, ChallengeTyped
  <2>3. /\ row \in ChallengeRows /\ row # NoChallenge /\ row.attempts = Attempts(k)
        /\ row.whole = OrStub(k).whole /\ row.consumed
    <3>1. /\ row \in ChallengeRows /\ row.attempts = Attempts(k) /\ row.whole = OrStub(k).whole
          /\ row.consumed
      BY <2>2 DEF ChallengeRows
    <3> QED BY <3>1, OtpAssumption
  <2>4. held \in Verifications /\ held # Idle /\ held.on = k /\ held.at = "claimed"
    <3>1. held \in Verifications /\ held.on = k /\ held.at = "claimed" BY <2>1 DEF Verifications
    <3> QED BY <3>1, OtpAssumption
  <2>5. WholeStill(k) => minted[k] = 0 /\ Answering(k, "claimed") = {}
    BY <1>2, <2>1 DEF WholeStill, Claimed, ChallengeInv, ExchangeSound
  <2> HIDE DEF row, held
  <2>6. /\ \A j \in Challenges : challenge'[j] = IF j = k THEN row ELSE challenge[j]
        /\ \A w \in Verifiers : verifier'[w] = IF w = v THEN held ELSE verifier[w]
    BY <2>1 DEF ChallengeTyped
  <2>7. ChallengeTyped' BY <2>1, <2>3, <2>4 DEF ChallengeTyped
  <2>8. ProofsSound' BY <2>1 DEF ChallengeInv, ProofsSound
  <2>9. /\ \A j : Answering(j, "wrong")' = Answering(j, "wrong")
        /\ \A j : j # k => Answering(j, "claimed")' = Answering(j, "claimed")
        /\ Answering(k, "claimed")' = Answering(k, "claimed") \cup {v}
    <3>1. /\ verifier'[v] # Idle /\ verifier'[v].on = k /\ verifier'[v].at = "claimed"
          /\ verifier[v] # Idle /\ verifier[v].at = "right" /\ v \in Verifiers
      BY <2>1, <2>4, <2>6 DEF Answering, At
    <3>2. \A w \in Verifiers : w # v => verifier'[w] = verifier[w] BY <2>6
    <3>3. \A j : Answering(j, "wrong")' = Answering(j, "wrong") BY <3>1, <3>2 DEF Answering, At
    <3>4. \A j : j # k => Answering(j, "claimed")' = Answering(j, "claimed")
      BY <3>1, <3>2 DEF Answering, At
    <3>5. Answering(k, "claimed")' = Answering(k, "claimed") \cup {v}
      BY <3>1, <3>2 DEF Answering, At
    <3> QED BY <3>3, <3>4, <3>5
  <2>10. AttemptsSound'
    <3>1. \A j \in Challenges : Attempts(j)' = Attempts(j) BY <2>3, <2>6 DEF Attempts
    <3>2. \A j \in Challenges : Attempts(j) \in Nat
      BY <2>1 DEF Attempts, ChallengeTyped, ChallengeRows
    <3> QED BY <2>1, <2>9, <3>1, <3>2, AttemptsKept DEF ChallengeInv
  <2>11. ExchangeSound'
    <3> SUFFICES ASSUME NEW j \in Challenges
        PROVE  (/\ j \notin issued => /\ challenge[j] = NoChallenge /\ minted[j] = 0
                                      /\ \A w \in Verifiers : verifier[w] # Idle => verifier[w].on # j
                /\ WholeStill(j) =>
                      /\ challenge[j].consumed \/ (minted[j] = 0 /\ Answering(j, "claimed") = {})
                      /\ \A w, x \in Answering(j, "claimed") : w = x
                      /\ Answering(j, "claimed") # {} => minted[j] = 0)'
      BY DEF ExchangeSound
    <3>1. CASE j = k
      <4>1. j \in issued' BY <2>1, <3>1
      <4>2. WholeStill(j)' => WholeStill(k) BY <2>2, <2>3, <2>6, <3>1 DEF WholeStill
      <4>3. challenge'[j].consumed BY <2>3, <2>6, <3>1
      <4>4. ASSUME WholeStill(j)' PROVE minted'[j] = 0 /\ Answering(j, "claimed")' = {v}
        BY <2>1, <2>5, <2>9, <3>1, <4>2, <4>4
      <4> QED BY <4>1, <4>3, <4>4
    <3>2. CASE j # k
      <4>1. j \notin issued => \A w \in Verifiers : verifier'[w] # Idle => verifier'[w].on # j
        BY <2>1, <2>4, <2>6, <3>2 DEF ChallengeInv, ExchangeSound
      <4> QED BY <2>1, <2>6, <2>9, <3>2, <4>1 DEF ChallengeInv, ExchangeSound, WholeStill
    <3> QED BY <3>1, <3>2
  <2> QED BY <2>7, <2>8, <2>10, <2>11 DEF ChallengeInv
<1> QED BY <1>1, <1>2

\* Only the request that claimed the whole challenge mints, and only once.
LEMMA MintStep ==
    ASSUME ChallengeInv, NEW v \in Verifiers, MintProof(v)
    PROVE  ChallengeInv'
<1> PICK k \in Challenges : k = verifier[v].on
  BY TracesOfIssued DEF MintProof, At, Verifications
<1> DEFINE proof == [of |-> k, purpose |-> verifier[v].purpose, left |-> ProofTtl]
<1>1. /\ v \in Answering(k, "claimed") /\ k \in issued /\ WholeStill(k) /\ ChallengeTyped
      /\ verifier[v] \in Verifications /\ proofs' = proofs \cup {proof}
      /\ minted' = [minted EXCEPT ![k] = @ + 1] /\ verifier' = [verifier EXCEPT ![v] = Idle]
      /\ UNCHANGED <<challenge, issued, spent>>
  BY TracesOfIssued DEF MintProof, ChallengeInv, ChallengeTyped, Answering, At
<1>2. /\ minted[k] = 0 /\ Answering(k, "claimed") = {v} /\ challenge[k].consumed
  BY <1>1 DEF ChallengeInv, ExchangeSound
<1>3. proof \in ProofRows /\ proof.of = k
  <2>1. ProofTtl \in 0..ProofTtl BY OtpAssumption
  <2> QED BY <1>1, <2>1 DEF ProofRows, Verifications
<1>4. /\ \A j, step : Answering(j, step)' = Answering(j, step) \ {v}
      /\ \A w \in Verifiers : verifier'[w] # Idle => verifier'[w] = verifier[w]
      /\ verifier' \in [Verifiers -> Verifications \cup {Idle}]
  BY <1>1, VerifierLeaves
<1> HIDE DEF proof
<1>5. /\ \A j \in Challenges : minted'[j] = IF j = k THEN 1 ELSE minted[j]
      /\ minted' \in [Challenges -> {0, 1}]
  BY <1>1, <1>2 DEF ChallengeTyped
<1>6. ChallengeTyped' BY <1>1, <1>3, <1>4, <1>5 DEF ChallengeTyped
<1>7. ProofsSound'
  <2>1. spent[k] = 0 /\ \A p \in proofs : p.of # k /\ p.of \in Challenges
    BY <1>1, <1>2 DEF ChallengeInv, ChallengeTyped, ProofsSound, ProofRows
  <2>2. \A j \in Challenges : spent'[j] <= minted'[j]
    BY <1>1, <1>5, <2>1 DEF ChallengeInv, ProofsSound
  <2>3. \A p \in proofs' : minted'[p.of] = 1 /\ spent'[p.of] = 0
    BY <1>1, <1>3, <1>5, <2>1 DEF ChallengeInv, ProofsSound
  <2>4. \A p, q \in proofs' : p.of = q.of => p = q
    BY <1>1, <1>3, <2>1 DEF ChallengeInv, ProofsSound
  <2> QED BY <2>2, <2>3, <2>4 DEF ProofsSound
<1>8. AttemptsSound'
  <2>1. \A j \in Challenges : Attempts(j)' = Attempts(j) /\ Attempts(j) \in Nat
    BY <1>1 DEF Attempts, ChallengeTyped, ChallengeRows
  <2>2. \A j \in Challenges : Answering(j, "wrong")' \subseteq Answering(j, "wrong") BY <1>4
  <2> QED BY <1>1, <2>1, <2>2, AttemptsKept DEF ChallengeInv
<1>9. ExchangeSound'
  <2> SUFFICES ASSUME NEW j \in Challenges
      PROVE  (/\ j \notin issued => /\ challenge[j] = NoChallenge /\ minted[j] = 0
                                    /\ \A w \in Verifiers : verifier[w] # Idle => verifier[w].on # j
              /\ WholeStill(j) =>
                    /\ challenge[j].consumed \/ (minted[j] = 0 /\ Answering(j, "claimed") = {})
                    /\ \A w, x \in Answering(j, "claimed") : w = x
                    /\ Answering(j, "claimed") # {} => minted[j] = 0)'
    BY DEF ExchangeSound
  <2>1. CASE j = k
    <3>1. j \in issued' /\ challenge'[j].consumed BY <1>1, <1>2, <2>1
    <3>2. Answering(j, "claimed")' = {} BY <1>2, <1>4, <2>1
    <3> QED BY <3>1, <3>2
  <2>2. CASE j # k
    <3>1. Answering(j, "claimed")' = Answering(j, "claimed")
      <4>1. v \notin Answering(j, "claimed") BY <2>2 DEF Answering
      <4> QED BY <1>4, <4>1
    <3>2. minted'[j] = minted[j] /\ challenge'[j] = challenge[j] /\ (WholeStill(j)' <=> WholeStill(j))
      BY <1>1, <1>5, <2>2 DEF WholeStill
    <3> QED BY <1>1, <1>4, <3>1, <3>2 DEF ChallengeInv, ExchangeSound
  <2> QED BY <2>1, <2>2
<1> QED BY <1>6, <1>7, <1>8, <1>9 DEF ChallengeInv

LEMMA SpendStep ==
    ASSUME ChallengeInv, NEW proof \in proofs, NEW purpose \in Purposes, SpendProof(proof, purpose)
    PROVE  ChallengeInv'
<1>1. /\ proofs' = proofs \ {proof} /\ UNCHANGED <<challenge, issued, verifier, minted>>
      /\ spent' = spent \/ spent' = [spent EXCEPT ![proof.of] = @ + 1]
  BY DEF SpendProof
<1>2. /\ proof.of \in Challenges /\ minted[proof.of] = 1 /\ spent[proof.of] = 0
      /\ \A p \in proofs' : p \in proofs /\ p.of # proof.of /\ p.of \in Challenges
  BY <1>1 DEF ChallengeInv, ChallengeTyped, ProofRows, ProofsSound
<1>3. /\ spent' \in [Challenges -> {0, 1}]
      /\ \A j \in Challenges : j # proof.of => spent'[j] = spent[j]
      /\ spent'[proof.of] <= 1
  BY <1>1, <1>2 DEF ChallengeInv, ChallengeTyped
<1>4. ChallengeTyped' BY <1>1, <1>3 DEF ChallengeInv, ChallengeTyped
<1>5. ProofsSound' BY <1>1, <1>2, <1>3 DEF ChallengeInv, ProofsSound
<1> QED BY <1>1, <1>4, <1>5, FadeStep

LEMMA EvictStep ==
    ASSUME ChallengeInv, NEW k \in Challenges, Evict(k)
    PROVE  ChallengeInv'
<1>1. /\ challenge' = [challenge EXCEPT ![k] = NoChallenge]
      /\ UNCHANGED <<issued, verifier, proofs, minted, spent>>
  BY DEF Evict
<1>2. ChallengeTyped' BY <1>1 DEF ChallengeInv, ChallengeTyped
<1>3. ProofsSound' BY <1>1 DEF ChallengeInv, ProofsSound
<1>4. \A j \in Challenges : challenge'[j] \in {NoChallenge, challenge[j]}
  BY <1>1 DEF ChallengeInv, ChallengeTyped
<1> QED BY <1>1, <1>2, <1>3, <1>4, FadeStep

LEMMA ElapseStep == ASSUME ChallengeInv, Elapse PROVE ChallengeInv'
<1> DEFINE Older(p) == [p EXCEPT !.left = IF @ = 0 THEN 0 ELSE @ - 1]
<1>1. UNCHANGED <<issued, verifier, minted, spent>> /\ proofs' = {Older(p) : p \in proofs}
  BY DEF Elapse
<1>2. ASSUME NEW p \in ProofRows PROVE Older(p) \in ProofRows /\ Older(p).of = p.of
  <2>1. (IF p.left = 0 THEN 0 ELSE p.left - 1) \in 0..ProofTtl BY OtpAssumption DEF ProofRows
  <2> QED BY <2>1 DEF ProofRows
<1>3. ASSUME NEW k \in Challenges
      PROVE  /\ challenge'[k] \in ChallengeRows \cup {NoChallenge}
             /\ \/ challenge'[k] = NoChallenge
                \/ /\ challenge[k] # NoChallenge /\ challenge'[k].whole = challenge[k].whole
                   /\ challenge'[k].consumed = challenge[k].consumed
                   /\ challenge'[k].attempts = challenge[k].attempts
  <2>1. CASE challenge[k] = NoChallenge \/ challenge[k].left = 0
    BY <2>1 DEF Elapse, ChallengeInv, ChallengeTyped
  <2>2. CASE ~(challenge[k] = NoChallenge \/ challenge[k].left = 0)
    <3>1. challenge[k] \in ChallengeRows /\ challenge'[k] = [challenge[k] EXCEPT !.left = @ - 1]
      BY <2>2 DEF Elapse, ChallengeInv, ChallengeTyped
    <3>2. challenge[k].left - 1 \in 0..CodeTtl BY <2>2, <3>1, OtpAssumption DEF ChallengeRows
    <3> QED BY <2>2, <3>1, <3>2 DEF ChallengeRows
  <2> QED BY <2>1, <2>2
<1> HIDE DEF Older
<1>4. ChallengeTyped'
  <2>1. challenge' \in [Challenges -> ChallengeRows \cup {NoChallenge}]
    <3>1. challenge' = [k \in Challenges |-> challenge'[k]] BY DEF Elapse
    <3> QED BY <1>3, <3>1
  <2>2. proofs' \subseteq ProofRows BY <1>1, <1>2 DEF ChallengeInv, ChallengeTyped
  <2> QED BY <1>1, <2>1, <2>2 DEF ChallengeInv, ChallengeTyped
<1>5. ProofsSound' BY <1>1, <1>2 DEF ChallengeInv, ChallengeTyped, ProofsSound
<1> QED BY <1>1, <1>3, <1>4, <1>5, FadeStep

\* Whichever requests answer at once, die half-way or are overtaken by a time to
\* live: a challenge buys one proof, the proof is accepted once, and neither the
\* wrong answers nor the failed logins overrun their limit by more than what was
\* on its way.
THEOREM CodesAlwaysSound ==
    OtpSpec => [](OtpTypeOK /\ OneProofPerChallenge /\ AttemptsBounded)
<1>1. ChallengeInv /\ [OtpNext]_otpVars => ChallengeInv'
  <2> SUFFICES ASSUME ChallengeInv, [OtpNext]_otpVars PROVE ChallengeInv' OBVIOUS
  <2>1. CASE UNCHANGED challengeVars
    <3>1. ChallengeTyped' /\ ProofsSound'
      BY <2>1 DEF challengeVars, ChallengeInv, ChallengeTyped, ProofsSound
    <3> QED BY <2>1, <3>1, FadeStep DEF challengeVars
  <2>2. ASSUME NEW k \in Challenges, NEW purpose \in Purposes, IssueChallenge(k, purpose)
        PROVE  ChallengeInv'
    BY <2>2, IssueStep
  <2>3. ASSUME NEW v \in Verifiers,
               \/ \E k \in Challenges, right \in BOOLEAN : ReadChallenge(v, k, right)
               \/ CountWrongAnswer(v) \/ ClaimChallenge(v) \/ DropStub(v) \/ MintProof(v)
               \/ VerifierDies(v)
        PROVE  ChallengeInv'
    <3>1. CASE DropStub(v)
      <4>1. verifier[v].on \in Challenges BY <3>1, TracesOfIssued DEF DropStub, At, Verifications
      <4> QED BY <3>1, <4>1, LeaveStep DEF DropStub
    <3>2. CASE VerifierDies(v) BY <3>2, LeaveStep DEF VerifierDies
    <3> QED BY <2>3, <3>1, <3>2, ReadStep, WrongStep, ClaimStep, MintStep
  <2>4. ASSUME NEW proof \in proofs, NEW purpose \in Purposes, SpendProof(proof, purpose)
        PROVE  ChallengeInv'
    BY <2>4, SpendStep
  <2>5. CASE Elapse BY <2>5, ElapseStep
  <2>6. ASSUME NEW k \in Challenges, Evict(k) PROVE ChallengeInv' BY <2>6, EvictStep
  <2>7. CASE \/ CountRequest \/ RefuseRequest \/ RequestDies
             \/ \E l \in Logins : CheckLock(l) \/ CountFailure(l) \/ ArmLock(l) \/ LoginSucceeds(l)
                                 \/ LoginDies(l)
    BY <2>1, <2>7 DEF CountRequest, RefuseRequest, RequestDies, CheckLock, CountFailure, ArmLock,
       LoginSucceeds, LoginDies
  <2>8. CASE UNCHANGED otpVars BY <2>1, <2>8 DEF otpVars, challengeVars
  <2> QED BY <2>2, <2>3, <2>4, <2>5, <2>6, <2>7, <2>8 DEF OtpNext
<1>2. CounterInv /\ [OtpNext]_otpVars => CounterInv'
  <2> SUFFICES ASSUME CounterInv, [OtpNext]_otpVars PROVE CounterInv' OBVIOUS
  <2>1. CASE UNCHANGED counterVars
    BY <2>1 DEF counterVars, CounterInv, CounterTyped, FailuresSound, Checked
  <2>2. CASE \/ \E v \in Verifiers :
                   \/ \E k \in Challenges, right \in BOOLEAN : ReadChallenge(v, k, right)
                   \/ CountWrongAnswer(v) \/ ClaimChallenge(v) \/ DropStub(v) \/ MintProof(v)
                   \/ VerifierDies(v)
             \/ \E proof \in proofs, purpose \in Purposes : SpendProof(proof, purpose)
             \/ \E k \in Challenges : Evict(k)
    BY <2>1, <2>2 DEF ReadChallenge, CountWrongAnswer, ClaimChallenge, DropStub, MintProof,
       VerifierDies, SpendProof, Evict
  <2>3. CASE UNCHANGED otpVars BY <2>1, <2>3 DEF otpVars, counterVars
  <2> QED BY <2>2, <2>3, RequestCounts, LoginCounts, ElapseCounts DEF OtpNext
<1> QED BY <1>1, <1>2, OtpStart, OtpPromises, PTL DEF OtpSpec

==============================================================================
