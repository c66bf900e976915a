---------------------------------- MODULE Doors ----------------------------------
(***************************************************************************)
(* The ways into one account: codes by mail (identity/email_login_service)  *)
(* and by SMS (identity/mobile_login_service), passwords, remembered        *)
(* devices and the second factor of administrators, behind the facade of    *)
(* identity/unified_login_service.  A request arms a cooldown in Redis,     *)
(* replaces the code row and sends inside one database transaction, which   *)
(* is rolled back unless the handler commits it; so is a verification.      *)
(* Ids of codes and of pending tokens grow.  The lockout by the failure     *)
(* counter is the subject of Otp.                                           *)
(***************************************************************************)
EXTENDS Integers

CONSTANTS
    MaxCodes,     \* bound on the codes made
    MaxPending,   \* bound on the pending tokens made
    MaxWrong,     \* MAX_VERIFY_ATTEMPTS
    MaxSigned,    \* bound on the sessions counted
    NoCode, NotSending

CodeRows == [id : 1..MaxCodes, wrong : 0..MaxWrong]

ASSUME DoorsAssumption ==
    /\ {MaxCodes, MaxPending, MaxWrong, MaxSigned} \subseteq Nat
    /\ NoCode \notin CodeRows /\ NotSending \notin 1..MaxCodes

VARIABLES
    who,        \* role, status and enrolment; role "NONE" before registration
    code,       \* the committed code row of each channel
    sending,    \* the code a request is sending
    cooldowns,    \* channels that may not ask again
    made,       \* codes drawn
    arrived,    \* codes that reached their addressee
    pendings,   \* stored tokens for the second factor: <<token, store>>
    tickets,    \* tokens a client holds
    entry,      \* a registration token is stored
    remembered, \* a remembered device is valid
    signed,     \* sessions opened
    failed      \* channels whose last request failed to send

doorVars == <<who, code, sending, cooldowns, made, arrived, pendings, tickets, entry, remembered,
              signed, failed>>
codeVars == <<code, sending, cooldowns, made, arrived, failed>>
tokenVars == <<pendings, tickets, entry, remembered, signed>>

Channels == {"mail", "sms"}
Staff == who.role \in {"TEACHER", "ADMIN"}
ActiveStaff == Staff /\ who.status = "ACTIVE"
ServedStudent == who.role = "STUDENT" /\ who.status \in {"ACTIVE", "PENDING"}

DoorInit ==
    /\ who \in [role : {"TEACHER", "ADMIN"}, status : {"ACTIVE"}, enrolled : BOOLEAN]
               \cup [role : {"STUDENT"}, status : {"ACTIVE", "PENDING"}, enrolled : {FALSE}]
               \cup [role : {"NONE"}, status : {"PENDING"}, enrolled : {FALSE}]
    /\ code = [ch \in Channels |-> NoCode] /\ sending = [ch \in Channels |-> NotSending]
    /\ cooldowns = {} /\ made = 0 /\ arrived = {} /\ failed = {}
    /\ pendings = {} /\ tickets = {} /\ entry = FALSE /\ remembered = FALSE /\ signed = 0

-----------------------------------------------------------------------------
(* Codes.                                                                  *)

\* The SMS door answers every phone that is not a staff member's.
Sends(ch) == ActiveStaff \/ (ch = "sms" /\ ~Staff)

\* The cooldown comes first, for any address; the send ends before it does.
RequestCode(ch) ==
    /\ ch \notin cooldowns /\ cooldowns' = cooldowns \cup {ch}
    /\ failed' = failed \ {ch}
    /\ IF Sends(ch)
       THEN /\ made < MaxCodes /\ made' = made + 1
            /\ sending' = [sending EXCEPT ![ch] = made + 1]
       ELSE UNCHANGED <<made, sending>>
    /\ UNCHANGED <<who, code, arrived, tokenVars>>

SendOk(ch) ==
    /\ sending[ch] # NotSending
    /\ code' = [code EXCEPT ![ch] = [id |-> sending[ch], wrong |-> 0]]
    /\ arrived' = arrived \cup {sending[ch]}
    /\ sending' = [sending EXCEPT ![ch] = NotSending]
    /\ UNCHANGED <<who, cooldowns, made, failed, tokenVars>>

\* The rollback brings the older row back; the staff SMS door commits its loss.
AfterFailure(ch) == IF ch = "sms" /\ Staff THEN NoCode ELSE code[ch]

Released(ch) == {ch}

\* An open outcome counts as a failure, so the message may have arrived.
SendFails(ch, reached) ==
    /\ sending[ch] # NotSending
    /\ code' = [code EXCEPT ![ch] = AfterFailure(ch)]
    /\ arrived' = IF reached THEN arrived \cup {sending[ch]} ELSE arrived
    /\ cooldowns' = cooldowns \ Released(ch) /\ failed' = failed \cup {ch}
    /\ sending' = [sending EXCEPT ![ch] = NotSending]
    /\ UNCHANGED <<who, made, tokenVars>>

RequestDiesSending(ch) ==
    /\ sending[ch] # NotSending
    /\ sending' = [sending EXCEPT ![ch] = NotSending]
    /\ UNCHANGED <<who, code, cooldowns, made, arrived, failed, tokenVars>>

CooldownEnds(ch) ==
    /\ ch \in cooldowns /\ sending[ch] = NotSending
    /\ cooldowns' = cooldowns \ {ch}
    /\ UNCHANGED <<who, code, sending, made, arrived, failed, tokenVars>>

CodeExpires(ch) ==
    /\ code[ch] # NoCode
    /\ code' = [code EXCEPT ![ch] = NoCode]
    /\ UNCHANGED <<who, sending, cooldowns, made, arrived, failed, tokenVars>>

Usable(ch) == code[ch] # NoCode /\ code[ch].wrong < MaxWrong

\* A wrong answer counts at the SMS doors; the mail door rolls its count back.
WrongCode(ch) ==
    /\ ch = "sms" /\ Usable(ch)
    /\ ActiveStaff \/ ServedStudent \/ who.role = "NONE"
    /\ code' = [code EXCEPT ![ch].wrong = @ + 1]
    /\ UNCHANGED <<who, sending, cooldowns, made, arrived, failed, tokenVars>>

-----------------------------------------------------------------------------
(* Ways in.                                                                *)

Enter(remember) == /\ signed < MaxSigned /\ signed' = signed + 1
                  /\ remembered' = (remembered \/ remember)

\* Where each door keeps the token of an administrator's second step.
Mint(store) ==
    \E t \in (1..MaxPending) \ (tickets \cup {x[1] : x \in pendings}) :
        /\ pendings' = pendings \cup {<<t, store>>} /\ tickets' = tickets \cup {t}

Consume(ch) == code' = [code EXCEPT ![ch] = NoCode]
KeepCode == UNCHANGED code
RestOfCodes == UNCHANGED <<sending, cooldowns, made, arrived, failed>>

\* A right code by mail: teachers enter, administrators need a device or a token.
MailCode(id, remember) ==
    /\ ActiveStaff /\ Usable("mail") /\ code["mail"].id = id
    /\ Consume("mail")
    /\ \/ /\ who.role = "TEACHER" \/ remembered
          /\ Enter(remember) /\ UNCHANGED <<pendings, tickets>>
       \/ /\ who.role = "ADMIN" /\ ~remembered
          /\ Mint("mail") /\ UNCHANGED <<remembered, signed>>
    /\ UNCHANGED <<who, entry>> /\ RestOfCodes

StudentCode(id, remember) ==
    /\ ServedStudent /\ Usable("sms") /\ code["sms"].id = id
    /\ Consume("sms") /\ Enter(remember)
    /\ UNCHANGED <<who, pendings, tickets, entry>> /\ RestOfCodes

\* A phone without an account: nothing is committed, so the code stays.
EntryCode(id) ==
    /\ who.role = "NONE" /\ Usable("sms") /\ code["sms"].id = id
    /\ entry' = TRUE /\ KeepCode
    /\ UNCHANGED <<who, pendings, tickets, remembered, signed>> /\ RestOfCodes

\* The token of an administrator is stored, and the deletion not committed.
StaffCode(id, remember) ==
    /\ ActiveStaff /\ Usable("sms") /\ code["sms"].id = id
    /\ \/ /\ who.role = "TEACHER" /\ Consume("sms") /\ Enter(remember)
          /\ UNCHANGED <<pendings, tickets>>
       \/ /\ who.role = "ADMIN" /\ KeepCode /\ Mint("staff")
          /\ UNCHANGED <<remembered, signed>>
    /\ UNCHANGED <<who, entry>> /\ RestOfCodes

\* The registration token is gone with the first use, whatever comes of it.
Register(valid) ==
    /\ entry /\ entry' = FALSE
    /\ IF valid /\ who.role = "NONE"
       THEN who' = [who EXCEPT !.role = "STUDENT"] /\ Enter(FALSE)
       ELSE UNCHANGED <<who, remembered, signed>>
    /\ UNCHANGED <<codeVars, pendings, tickets>>

StudentPassword == ServedStudent /\ Enter(FALSE) /\ UNCHANGED <<pendings, tickets>>

\* Without a device an administrator gets a token: the facade passes no code,
\* so the code and the recovery code of this call are never asked for.
StaffPassword(remember) ==
    /\ ActiveStaff
    /\ \/ /\ who.role = "TEACHER" \/ remembered
          /\ Enter(remember) /\ UNCHANGED <<pendings, tickets>>
       \/ /\ who.role = "ADMIN" /\ ~remembered
          /\ Mint("staff") /\ UNCHANGED <<remembered, signed>>

Password(remember) ==
    /\ StudentPassword \/ StaffPassword(remember)
    /\ UNCHANGED <<who, codeVars, entry>>

\* The remembered device alone does not spare an administrator the second step.
DeviceAlone ==
    /\ remembered /\ who.status \in {"ACTIVE", "PENDING"} /\ who.role # "NONE"
    /\ \/ who.role # "ADMIN" /\ Enter(FALSE) /\ UNCHANGED <<pendings, tickets>>
       \/ who.role = "ADMIN" /\ Mint("staff") /\ UNCHANGED <<remembered, signed>>
    /\ UNCHANGED <<who, codeVars, entry>>

\* Mutant of Found: the facade asks the mail door only.
FoundByMail(t) == {x \in pendings : x = <<t, "mail">>}

\* The facade asks the mail door, and the staff door if that knows nothing.
Found(t) == {x \in pendings : x[1] = t}

Admitted(x) == /\ who.status = "ACTIVE" /\ who.enrolled
               /\ x[2] = "mail" => who.role = "ADMIN"

\* A token is gone with its first use, right or wrong; the client may retry.
SecondFactor(t, right, remember, keep) ==
    /\ t \in tickets
    /\ pendings' = pendings \ Found(t)
    /\ IF right /\ \E x \in Found(t) : Admitted(x)
       THEN Enter(remember) ELSE UNCHANGED <<remembered, signed>>
    /\ tickets' = IF keep THEN tickets ELSE tickets \ {t}
    /\ UNCHANGED <<who, codeVars, entry>>

-----------------------------------------------------------------------------
\* suspension, approval, promotion and demotion, enrolment, lost devices.
ChangeWho ==
    /\ \/ who' = [who EXCEPT !.status = "OFF"] /\ who.role # "NONE"
       \/ who.role # "NONE" /\ who' = [who EXCEPT !.status = "ACTIVE"]
       \/ Staff /\ \E role \in {"TEACHER", "ADMIN"} : who' = [who EXCEPT !.role = role]
       \/ Staff /\ who.status = "ACTIVE" /\ who' = [who EXCEPT !.enrolled = TRUE]
    /\ UNCHANGED <<codeVars, tokenVars>>

ForgetDevice ==
    /\ remembered /\ remembered' = FALSE
    /\ UNCHANGED <<who, codeVars, pendings, tickets, entry, signed>>

DoorNext ==
    \/ \E ch \in Channels : \/ RequestCode(ch) \/ SendOk(ch) \/ RequestDiesSending(ch)
                            \/ CooldownEnds(ch) \/ CodeExpires(ch) \/ WrongCode(ch)
                            \/ \E reached \in BOOLEAN : SendFails(ch, reached)
    \/ \E id \in arrived : \/ EntryCode(id)
                           \/ \E remember \in BOOLEAN :
                                  \/ MailCode(id, remember) \/ StudentCode(id, remember)
                                  \/ StaffCode(id, remember)
    \/ \E remember \in BOOLEAN :
           \/ Password(remember)
           \/ \E t \in tickets, right, keep \in BOOLEAN : SecondFactor(t, right, remember, keep)
    \/ \E valid \in BOOLEAN : Register(valid)
    \/ DeviceAlone \/ ChangeWho \/ ForgetDevice

DoorSpec == DoorInit /\ [][DoorNext]_doorVars

-----------------------------------------------------------------------------
DoorTypeOK ==
    /\ who \in [role : {"TEACHER", "ADMIN", "STUDENT", "NONE"},
                status : {"ACTIVE", "PENDING", "OFF"}, enrolled : BOOLEAN]
    /\ code \in [Channels -> CodeRows \cup {NoCode}]
    /\ sending \in [Channels -> (1..MaxCodes) \cup {NotSending}]
    /\ cooldowns \subseteq Channels /\ failed \subseteq Channels
    /\ made \in 0..MaxCodes /\ arrived \subseteq 1..made
    /\ pendings \subseteq (1..MaxPending) \X {"mail", "staff"} /\ tickets \subseteq 1..MaxPending
    /\ entry \in BOOLEAN /\ remembered \in BOOLEAN /\ signed \in 0..MaxSigned

\* A code row outlives its request only if its message was sent: no failure and
\* no crash leaves a code nobody has (request_code and request_staff_code).
StoredCodeWasSent == \A ch \in Channels : code[ch] # NoCode => code[ch].id \in arrived

\* After a failed send the addressee may ask again at once, and is refused only
\* while another request is on its way or has succeeded (request_code).
FailureCostsNothing == \A ch \in failed : ch \notin cooldowns

\* Whichever door handed the token out, the right second factor of an active,
\* enrolled administrator opens a session with it (verify_totp of the facade).
TokenFitsItsDoor ==
    [][\A t \in tickets, remember, keep \in BOOLEAN :
           /\ SecondFactor(t, TRUE, remember, keep) /\ \E x \in pendings : x[1] = t
           /\ who = [role |-> "ADMIN", status |-> "ACTIVE", enrolled |-> TRUE]
           => signed' = signed + 1]_doorVars

\* Whichever door is used and whichever request dies or fails: a code that is
\* stored was sent, a failed send costs the addressee nothing, and the token of
\* one door is honoured at the common second factor.
DoorContract ==
    /\ [](/\ DoorTypeOK
          /\ StoredCodeWasSent
          /\ FailureCostsNothing)
    /\ TokenFitsItsDoor

=============================================================================
