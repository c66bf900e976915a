------------------------------ MODULE Credentials ------------------------------
(***************************************************************************)
(* The contacts and the password of an account after registration: e-mail   *)
(* addresses and their tokens (identity/email_verification.py), phones and  *)
(* passwords (profile_service.py), and the reset links administrators issue *)
(* (admin_power_service.py).  Every flow has a half that issues something   *)
(* single-use, kept in Redis, and a half that spends it; the account row is *)
(* read in one step and written in a later one.  A code is taken as what    *)
(* Otp shows it to be: spent once.  A request that stops half-way is one    *)
(* that takes no further step.                                              *)
(***************************************************************************)
EXTENDS Naturals

CONSTANTS
    Learners, Tutors,
    Phones, Boxes,     \* phone numbers, e-mail addresses
    Tickets,           \* tokens, codes and links that are issued
    Spenders,          \* requests that read an account and write it later
    MaxPasswords,      \* bound: passwords an account is given
    NoPlace, NoTicket, Burnt, AtRest

Owners == Learners \cup Tutors
Codes == {"PHONE_CHANGE", "PHONE_BIND", "PASSWORD_RESET"}

TicketRows == [kind : Codes \cup {"EMAIL", "LINK"}, owner : Owners,
               place : Phones \cup Boxes \cup {NoPlace},
               at : {"stored", "audited", "sent"}, lapsed : BOOLEAN]

\* proof is the payload of the ticket; seen is the row as it was read, clean
\* whether its address was unverified then, raced whether somebody has written
\* the row since.
WorkRows == [act : {"confirm", "change", "bind", "unbind", "reset", "link"},
             step : {"read", "stamp", "edit", "write", "audit"}, owner : Owners,
             ticket : Tickets \cup {NoTicket}, proof : TicketRows \cup {NoTicket},
             seen : Boxes \cup {NoPlace} \cup 0..MaxPasswords,
             clean : BOOLEAN, raced : BOOLEAN]

\* The students' phones are different, and no sentinel is a row.
ASSUME CredentialsAssumption ==
    /\ MaxPasswords \in Nat /\ NoPlace \notin Phones \cup Boxes
    /\ \E f \in [Learners -> Phones] : \A u, w \in Learners : f[u] = f[w] => u = w
    /\ NoTicket \notin TicketRows \cup Tickets /\ Burnt \notin TicketRows \cup {NoTicket}
    /\ AtRest \notin WorkRows

VARIABLES
    owner,      \* the account rows
    ticket,     \* what was issued, and how far
    spender,    \* requests that have read a row
    served,     \* how often each ticket changed an account
    auditRows   \* audit rows about links: <<action, ticket>>

contactVars == <<owner, ticket, spender, served, auditRows>>

\* Every student is born with a verified phone, staff without one; an address
\* of an invitation counts as unbound.
Born == CHOOSE f \in [Learners -> Phones] : \A u, w \in Learners : f[u] = f[w] => u = w

CredentialsInit ==
    /\ owner = [u \in Owners |-> [phone |-> IF u \in Learners THEN Born[u] ELSE NoPlace,
                                  box |-> NoPlace, verified |-> FALSE,
                                  password |-> 0, active |-> TRUE]]
    /\ ticket = [t \in Tickets |-> NoTicket]
    /\ spender = [d \in Spenders |-> AtRest]
    /\ served = [t \in Tickets |-> 0] /\ auditRows = {}

-----------------------------------------------------------------------------
(* Issuing.                                                                *)

Unbound(place) == \A w \in Owners : owner[w].phone # place /\ owner[w].box # place

Issue(t, kind, u, place) ==
    /\ ticket[t] = NoTicket
    /\ ticket' = [ticket EXCEPT ![t] = [kind |-> kind, owner |-> u, place |-> place,
                                        at |-> "stored", lapsed |-> FALSE]]

\* Requests that have read this row and will write it have read an old one.
Overtaken(u) ==
    [d \in Spenders |-> IF spender[d] # AtRest /\ spender[d].owner = u
                        THEN [spender[d] EXCEPT !.raced = TRUE] ELSE spender[d]]

Doing(d, step, u) == spender[d] # AtRest /\ spender[d].step = step /\ spender[d].owner = u

\* The address and its stamp as an edit writes them: the UPDATE leaves out a
\* column that the edit does not change from what it has read.
Edited(row, work, box) ==
    [row EXCEPT !.box = IF box = work.seen THEN @ ELSE box, !.verified = @ /\ work.clean]

Edit(d, u, act, box) ==
    /\ Doing(d, "edit", u) /\ spender[d].act = act
    /\ owner' = [owner EXCEPT ![u] = Edited(@, spender[d], box)]
    /\ spender' = [Overtaken(u) EXCEPT ![d] = AtRest]
    /\ UNCHANGED <<served, auditRows>>

\* The address is committed before its token exists.
RequestEmail(d, u, t, box) ==
    /\ Edit(d, u, "bind", box) /\ Issue(t, "EMAIL", u, box)
    /\ box = spender[d].seen \/ Unbound(box) \/ owner[u].box = box

RequestPhone(u, t, kind, phone) ==
    /\ Unbound(phone) /\ (kind = "PHONE_BIND" => u \in Tutors)
    /\ Issue(t, kind, u, phone)
    /\ UNCHANGED <<owner, spender, served, auditRows>>

\* Everybody else is shown a challenge that does not exist.
RequestReset(u, t) ==
    /\ u \in Learners /\ Issue(t, "PASSWORD_RESET", u, owner[u].phone)
    /\ UNCHANGED <<owner, spender, served, auditRows>>

RequestLink(u, t) ==
    /\ u \in Tutors /\ Issue(t, "LINK", u, NoPlace)
    /\ UNCHANGED <<owner, spender, served, auditRows>>

Stage(t, stage) == ticket[t] \notin {NoTicket, Burnt} /\ ticket[t].at = stage

\* The key is in Redis before the audit row is committed.
AuditLink(t) ==
    /\ Stage(t, "stored") /\ ticket[t].kind = "LINK"
    /\ ticket' = [ticket EXCEPT ![t].at = "audited"]
    /\ auditRows' = auditRows \cup {<<"ISSUED", t>>}
    /\ UNCHANGED <<owner, spender, served>>

MayShow(t) == IF ticket[t].kind = "LINK" THEN Stage(t, "audited") ELSE Stage(t, "stored")

\* The mail, the message, or the answer that shows the link.
Send(t) ==
    /\ ticket[t] \notin {NoTicket, Burnt} /\ MayShow(t)
    /\ ticket' = [ticket EXCEPT ![t].at = "sent"]
    /\ UNCHANGED <<owner, spender, served, auditRows>>

\* A lapsed token or code is still taken, and refused; a link is gone.
Lapse(t) ==
    /\ Stage(t, "sent") /\ ~ticket[t].lapsed
    /\ ticket' = IF ticket[t].kind = "LINK" THEN [ticket EXCEPT ![t] = Burnt]
                 ELSE [ticket EXCEPT ![t].lapsed = TRUE]
    /\ UNCHANGED <<owner, spender, served, auditRows>>

-----------------------------------------------------------------------------
(* Spending.                                                               *)

Work(act, step, u, t) ==
    [act |-> act, step |-> step, owner |-> u, ticket |-> t,
     proof |-> IF t \in Tickets THEN ticket[t] ELSE NoTicket,
     seen |-> IF act \in {"confirm", "bind", "unbind"} THEN owner[u].box
              ELSE IF act = "change" THEN owner[u].password ELSE NoPlace,
     clean |-> ~owner[u].verified, raced |-> FALSE]

\* GETDEL: whatever comes of it, nobody else gets the ticket.
Taken(t) == [ticket EXCEPT ![t] = Burnt]

Sent(t, kinds) == Stage(t, "sent") /\ ticket[t].kind \in kinds

\* The session's own row is read before the token or the password is checked.
Begun == [confirm |-> "read", change |-> "write", bind |-> "edit", unbind |-> "edit"]

BeginSpending(d, u, act) ==
    /\ spender[d] = AtRest /\ (act = "change" => owner[u].password < MaxPasswords)
    /\ spender' = [spender EXCEPT ![d] = Work(act, Begun[act], u, NoTicket)]
    /\ UNCHANGED <<owner, ticket, served, auditRows>>

Addressed(work, t) ==
    ticket[t].owner = work.owner /\ ticket[t].place = work.seen /\ ~ticket[t].lapsed

TakeToken(d, t) ==
    /\ spender[d] # AtRest /\ spender[d].step = "read" /\ Sent(t, {"EMAIL"})
    /\ ticket' = Taken(t)
    /\ spender' = [spender EXCEPT ![d] = IF Addressed(@, t)
                                     THEN [@ EXCEPT !.step = "stamp", !.ticket = t, !.proof = ticket[t]]
                                     ELSE AtRest]
    /\ UNCHANGED <<owner, served, auditRows>>

ProofFits(t, purpose) == ~ticket[t].lapsed /\ ticket[t].kind = purpose

\* A challenge names a phone, not the account that asked for it.  The code is
\* gone before the row is locked; the unique index may still refuse the phone.
BindPhone(u, t, purpose) ==
    /\ Sent(t, Codes) /\ (purpose = "PHONE_BIND" => u \in Tutors)
    /\ ticket' = Taken(t)
    /\ \/ /\ ProofFits(t, purpose)
          /\ \A w \in Owners \ {u} : owner[w].phone # ticket[t].place
          /\ owner' = [owner EXCEPT ![u].phone = ticket[t].place]
          /\ served' = [served EXCEPT ![t] = @ + 1]
          /\ spender' = Overtaken(u)
       \/ UNCHANGED <<owner, spender, served>>
    /\ UNCHANGED auditRows

\* Mutant of ResetOf: the account that asked, wherever its phone is now.
ResetOfAsker(proof) == {proof.owner}

ResetOf(proof) == {u \in Learners : owner[u].phone = proof.place}
LinkOf(proof) == {u \in {proof.owner} : owner[u].active}

\* The ticket is taken, then the account it is good for is looked up: none, one
\* to write, or a password that is too short -- found out here, for a link.
TakeForPassword(d, t, act, accounts) ==
    /\ spender[d] = AtRest /\ ticket' = Taken(t)
    /\ \/ \E u \in accounts : spender' = [spender EXCEPT ![d] = Work(act, "write", u, t)]
       \/ UNCHANGED spender
    /\ UNCHANGED <<owner, served, auditRows>>

TakeResetCode(d, t) ==
    /\ Sent(t, Codes)
    /\ TakeForPassword(d, t, "reset",
                       IF ProofFits(t, "PASSWORD_RESET") THEN ResetOf(ticket[t]) ELSE {})

TakeLink(d, t) ==
    Sent(t, {"LINK"}) /\ TakeForPassword(d, t, "link", LinkOf(ticket[t]))

\* One UPDATE of one column, committed; the rest of the row is what it is now.
Write(d, u, column, value) ==
    /\ owner' = [owner EXCEPT ![u] = [@ EXCEPT ![column] = value]]
    /\ served' = IF spender[d].ticket = NoTicket THEN served
                 ELSE [served EXCEPT ![spender[d].ticket] = @ + 1]
    /\ UNCHANGED ticket

Stamp(d) ==
    /\ spender[d] # AtRest /\ spender[d].step = "stamp"
    /\ Write(d, spender[d].owner, "verified", TRUE)
    /\ spender' = [Overtaken(spender[d].owner) EXCEPT ![d] = AtRest]
    /\ UNCHANGED auditRows

\* The sessions are revoked in the same commit (Sessions); the audit row of a
\* link is written in the next one.
WritePassword(d) ==
    /\ spender[d] # AtRest /\ spender[d].step = "write"
    /\ owner[spender[d].owner].password < MaxPasswords
    /\ Write(d, spender[d].owner, "password", owner[spender[d].owner].password + 1)
    /\ spender' = [Overtaken(spender[d].owner) EXCEPT
                    ![d] = IF @.act = "link" THEN [@ EXCEPT !.step = "audit"] ELSE AtRest]
    /\ UNCHANGED auditRows

AuditSpent(d) ==
    /\ spender[d] # AtRest /\ spender[d].step = "audit"
    /\ auditRows' = auditRows \cup {<<"CONSUMED", spender[d].ticket>>}
    /\ spender' = [spender EXCEPT ![d] = AtRest]
    /\ UNCHANGED <<owner, ticket, served>>

UnbindEmail(d, u) == Edit(d, u, "unbind", NoPlace) /\ UNCHANGED ticket

\* Suspension and reactivation (account_admin_service.py); what a session of a
\* suspended account may still do is the matter of Access.
SetActive(u, on) ==
    /\ u \in Tutors /\ owner[u].active # on
    /\ owner' = [owner EXCEPT ![u].active = on]
    /\ spender' = Overtaken(u)
    /\ UNCHANGED <<ticket, served, auditRows>>

CredentialsNext ==
    \/ \E u \in Owners, t \in Tickets :
          \/ \E d \in Spenders, box \in Boxes : RequestEmail(d, u, t, box)
          \/ \E phone \in Phones, kind \in {"PHONE_CHANGE", "PHONE_BIND"} :
                RequestPhone(u, t, kind, phone)
          \/ \E purpose \in {"PHONE_CHANGE", "PHONE_BIND"} : BindPhone(u, t, purpose)
          \/ RequestReset(u, t) \/ RequestLink(u, t)
    \/ \E t \in Tickets : AuditLink(t) \/ Send(t) \/ Lapse(t)
    \/ \E d \in Spenders, u \in Owners :
          \/ \E act \in DOMAIN Begun : BeginSpending(d, u, act)
          \/ UnbindEmail(d, u)
    \/ \E d \in Spenders, t \in Tickets :
          \/ TakeToken(d, t) \/ TakeResetCode(d, t) \/ TakeLink(d, t)
    \/ \E d \in Spenders :
          \/ Stamp(d) \/ WritePassword(d) \/ AuditSpent(d)
    \/ \E u \in Owners, on \in BOOLEAN : SetActive(u, on)

CredentialsSpec == CredentialsInit /\ [][CredentialsNext]_contactVars

-----------------------------------------------------------------------------
CredentialsTypeOK ==
    /\ \A u \in Owners :
          /\ owner[u].phone \in Phones \cup {NoPlace} /\ owner[u].box \in Boxes \cup {NoPlace}
          /\ owner[u].verified \in BOOLEAN /\ owner[u].active \in BOOLEAN
          /\ owner[u].password \in 0..MaxPasswords
    /\ \A t \in Tickets : ticket[t] \in {NoTicket, Burnt} \/
          /\ ticket[t].kind \in Codes \cup {"EMAIL", "LINK"}
          /\ ticket[t].at \in {"stored", "audited", "sent"}
          /\ ticket[t].place = NoPlace => ticket[t].kind = "LINK"
    /\ \A d \in Spenders : spender[d] = AtRest \/
          spender[d].step \in {"read", "stamp", "edit", "write", "audit"}

\* However many requests present it together and wherever they stop, a token, a
\* code or a link changes one account, once (GETDEL, verify_phone_token).
TicketServesOnce == \A t \in Tickets : served[t] <= 1

\* An address comes to be verified, or a verified account to have it, for a token
\* that was mailed to it on behalf of this account.  The exceptions the code
\* leaves are an account changed while the confirmation was under way
\* (confirm_email_verification), and one confirmed while a request that had read
\* it unverified was about to replace or remove its address
\* (request_email_verification, unbind_email): the stamp stays on the new one.
StampIsProved ==
    [][\A u \in Owners :
          /\ owner'[u].verified
          /\ ~owner[u].verified \/ owner'[u].box # owner[u].box
          => \E d \in Spenders :
                \/ /\ Doing(d, "stamp", u) /\ spender[d].proof.owner = u
                   /\ \/ spender[d].raced
                      \/ spender[d].proof.place = owner[u].box /\ owner'[u].box = owner[u].box
                \/ Doing(d, "edit", u) /\ spender[d].raced /\ owner[u].verified]_contactVars

\* A phone is put on an account for a code that was sent to that phone in order
\* to be bound, and no other account has it then (_consume_phone_proof).
PhoneIsProved ==
    [][\A u \in Owners : owner'[u].phone # owner[u].phone =>
          /\ \E t \in Tickets :
                /\ Sent(t, {"PHONE_CHANGE", "PHONE_BIND"}) /\ ticket'[t] = Burnt
                /\ ticket[t].place = owner'[u].phone
          /\ \A w \in Owners \ {u} : owner'[w].phone # owner'[u].phone]_contactVars

\* The request that sets a password acts for the account it changes, still: the
\* code came to the phone the account has, the link names it, is on the audit
\* trail and the account is active, or the caller knew the password that is
\* replaced -- unless the account was changed between the look-up and the commit.
PasswordTakesAuthority ==
    [][\A u \in Owners : owner'[u].password # owner[u].password =>
          \E d \in Spenders :
              /\ Doing(d, "write", u)
              /\ \/ spender[d].raced
                 \/ /\ spender[d].act = "reset" /\ u \in Learners
                    /\ spender[d].proof.place = owner[u].phone
                 \/ /\ spender[d].act = "link" /\ owner[u].active
                    /\ spender[d].proof.owner = u /\ <<"ISSUED", spender[d].ticket>> \in auditRows
                 \/ spender[d].act = "change" /\ spender[d].seen = owner[u].password]_contactVars

\* A phone, an address or a password changes for a proof of its own, served
\* once, and by who has authority over the account.
CredentialsContract ==
    /\ [](CredentialsTypeOK /\ TicketServesOnce)
    /\ StampIsProved
    /\ PhoneIsProved
    /\ PasswordTakesAuthority

=============================================================================
