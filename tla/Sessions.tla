------------------------------- MODULE Sessions -------------------------------
(***************************************************************************)
(* The sessions of one account (identity/session_service.py): a login opens *)
(* a lineage, a refresh retires the newest row of it and appends another,   *)
(* and within the grace window a retired token is answered with the newest  *)
(* row instead of being refused.  Logout ends a lineage from any of its     *)
(* tokens; a password change, a password reset and an administrator end     *)
(* every lineage.  A row stands for its refresh token, for the access token *)
(* that names it and for the envelope that names its successor.  Clients    *)
(* lose replies and receive them late.                                      *)
(***************************************************************************)
EXTENDS Integers

CONSTANTS
    Clients,      \* cookie jars
    MaxRows,      \* bound on the rows of the account
    Ttl,          \* validity of a refresh token
    GraceWindow,  \* refresh_grace_seconds; 0 turns replay off
    HopBound,     \* rows a replay follows
    MaxClock,     \* bound on the clock
    NoRow, NoSweep

Ids == 1..MaxRows

SessionRows == [root : Ids, expires : 0..MaxClock + Ttl, revoked : BOOLEAN,
                next : Ids \cup {0}, replaced : 0..MaxClock]
Sweeps == [seen : SUBSET Ids, forget : BOOLEAN, written : BOOLEAN]

ASSUME SessionAssumption ==
    /\ MaxRows \in Nat /\ Ttl \in Nat \ {0} /\ GraceWindow \in Nat
    /\ HopBound \in Nat \ {0} /\ MaxClock \in Nat
    /\ NoRow \notin SessionRows /\ NoSweep \notin Sweeps

VARIABLES
    clock,
    account,      \* "pending", "active" or "off" (suspended, banned)
    rows,         \* the session rows, numbered as they are inserted
    jar,          \* the refresh token each client holds, 0 for none
    replies,      \* answers on their way: <<client, token>>
    device,       \* clients with a remembered device
    sweep         \* the revocation of every session that is under way

sessionVars == <<clock, account, rows, jar, replies, device, sweep>>

Used == {s \in Ids : rows[s] # NoRow}
Fresh == {s \in Ids \ Used : s - 1 \in Used \cup {0}}

Serving == account \in {"active", "pending"}

\* revoked_at, replaced_by and expires_at, as the queries read them.
Open(s) == s \in Used /\ ~rows[s].revoked /\ rows[s].next = 0
Expired(s) == rows[s].expires <= clock
Live(s) == Open(s) /\ ~Expired(s)

Lineage(s) == {r \in Used : rows[r].root = rows[s].root}

RowOf(root) == [root |-> root, expires |-> clock + Ttl, revoked |-> FALSE,
                next |-> 0, replaced |-> 0]

-----------------------------------------------------------------------------
SessionInit ==
    /\ clock = 0 /\ account \in {"active", "pending"}
    /\ rows = [s \in Ids |-> NoRow]
    /\ jar = [c \in Clients |-> 0] /\ replies = {} /\ device = {}
    /\ sweep = NoSweep

\* A password or a code opens a session, a remembered device without either.
Login(c) ==
    /\ Serving
    /\ \E s \in Fresh, remember \in BOOLEAN :
           /\ rows' = [rows EXCEPT ![s] = RowOf(s)]
           /\ replies' = replies \cup {<<c, s>>}
           /\ device' = IF remember THEN device \cup {c} ELSE device
    /\ UNCHANGED <<clock, account, jar, sweep>>

LoginOnDevice(c) ==
    /\ Serving /\ c \in device
    /\ \E s \in Fresh :
           /\ rows' = [rows EXCEPT ![s] = RowOf(s)]
           /\ replies' = replies \cup {<<c, s>>}
    /\ UNCHANGED <<clock, account, jar, device, sweep>>

-----------------------------------------------------------------------------
Rotatable(s) == s \in Used /\ ~Expired(s) /\ ~rows[s].revoked /\ rows[s].next = 0

\* One transaction under the lock of the presented row.
Rotate(c) ==
    /\ jar[c] # 0 /\ Rotatable(jar[c]) /\ Serving
    /\ \E s \in Fresh :
           /\ rows' = [rows EXCEPT ![jar[c]].revoked = TRUE, ![jar[c]].next = s,
                                   ![jar[c]].replaced = clock,
                                   ![s] = RowOf(rows[jar[c]].root)]
           /\ replies' = replies \cup {<<c, s>>}
    /\ UNCHANGED <<clock, account, jar, device, sweep>>

\* The envelopes name the successors, at most HopBound of them.
Walk(s) ==
    LET reach[h \in 0..HopBound] ==
            [r \in Used |-> IF rows[r].next = 0 THEN r
                            ELSE IF h = 0 THEN 0 ELSE reach[h - 1][rows[r].next]]
    IN  reach[HopBound][s]

Replayable(s) ==
    /\ GraceWindow > 0 /\ rows[s].next # 0
    /\ clock - rows[s].replaced <= GraceWindow

\* The live row a retired token is answered with, 0 if it is refused.
Replayed(s) ==
    IF Replayable(s) /\ Walk(s) # 0 /\ ~rows[Walk(s)].revoked /\ ~Expired(Walk(s))
    THEN Walk(s) ELSE 0

StableReplay(c) ==
    /\ jar[c] # 0 /\ ~Expired(jar[c])
    /\ rows[jar[c]].revoked \/ rows[jar[c]].next # 0
    /\ Serving /\ Replayed(jar[c]) # 0
    /\ replies' = replies \cup {<<c, Replayed(jar[c])>>}
    /\ UNCHANGED <<clock, account, rows, jar, device, sweep>>

-----------------------------------------------------------------------------
\* Mutant of Tip: the presented row is taken for the newest.
TipHere(s) == s

\* The walk of a logout is not bounded: successors have larger numbers.
Tip(s) == LET reach[r \in Used] == IF rows[r].next = 0 THEN r ELSE reach[rows[r].next]
          IN  reach[s]

Logout(c) ==
    /\ jar[c] # 0
    /\ rows' = [rows EXCEPT ![Tip(jar[c])].revoked = TRUE]
    /\ jar' = [jar EXCEPT ![c] = 0]
    /\ UNCHANGED <<clock, account, replies, device, sweep>>

\* The UPDATE of _revoke sees the rows that are committed when it starts ...
RevokeAll(keep, forget) ==
    /\ sweep = NoSweep
    /\ sweep' = [seen |-> {s \in Used : ~rows[s].revoked} \ keep, forget |-> forget,
                 written |-> FALSE]
    /\ UNCHANGED <<clock, account, rows, jar, replies, device>>

ChangePassword(c) == Live(jar[c]) /\ Serving /\ RevokeAll({jar[c]}, FALSE)
ResetPassword == RevokeAll({}, FALSE)
Kick == RevokeAll({}, TRUE)

\* ... and writes each of them when it has its lock, if it is still unrevoked.
RevokeRows ==
    /\ sweep # NoSweep /\ ~sweep.written
    /\ rows' = [s \in Ids |-> IF s \in sweep.seen /\ rows[s] # NoRow
                              THEN [rows[s] EXCEPT !.revoked = TRUE] ELSE rows[s]]
    /\ sweep' = IF sweep.forget THEN [sweep EXCEPT !.written = TRUE] ELSE NoSweep
    /\ UNCHANGED <<clock, account, jar, replies, device>>

\* An administrator's kick forgets the devices in a second transaction.
ForgetDevices ==
    /\ sweep # NoSweep /\ sweep.written
    /\ device' = {} /\ sweep' = NoSweep
    /\ UNCHANGED <<clock, account, rows, jar, replies>>

\* A member drops his devices himself, and they expire.
DropDevices ==
    /\ device # {} /\ device' \in SUBSET device
    /\ UNCHANGED <<clock, account, rows, jar, replies, sweep>>

-----------------------------------------------------------------------------
\* suspend, ban, reactivate, approve and reject.
AccountMove == {<<"active", "off">>, <<"off", "active">>,
                <<"pending", "active">>, <<"pending", "off">>}

ChangeAccount(to) ==
    /\ <<account, to>> \in AccountMove
    /\ account' = to
    /\ UNCHANGED <<clock, rows, jar, replies, device, sweep>>

Receive(reply) ==
    /\ reply \in replies
    /\ jar' = [jar EXCEPT ![reply[1]] = reply[2]]
    /\ replies' = replies \ {reply}
    /\ UNCHANGED <<clock, account, rows, device, sweep>>

LoseReply(reply) ==
    /\ reply \in replies
    /\ replies' = replies \ {reply}
    /\ UNCHANGED <<clock, account, rows, jar, device, sweep>>

Pass ==
    /\ clock < MaxClock
    /\ clock' = clock + 1
    /\ UNCHANGED <<account, rows, jar, replies, device, sweep>>

SessionNext ==
    \/ \E c \in Clients : \/ Login(c) \/ LoginOnDevice(c) \/ Rotate(c) \/ StableReplay(c)
                          \/ Logout(c) \/ ChangePassword(c)
    \/ ResetPassword \/ Kick \/ RevokeRows \/ ForgetDevices \/ DropDevices
    \/ \E to \in {"active", "off"} : ChangeAccount(to)
    \/ \E reply \in replies : Receive(reply) \/ LoseReply(reply)
    \/ Pass

SessionSpec == SessionInit /\ [][SessionNext]_sessionVars

-----------------------------------------------------------------------------
SessionTypeOK ==
    /\ clock \in 0..MaxClock /\ account \in {"active", "pending", "off"}
    /\ rows \in [Ids -> SessionRows \cup {NoRow}]
    /\ jar \in [Clients -> Ids \cup {0}] /\ replies \subseteq Clients \X Ids
    /\ device \subseteq Clients /\ sweep \in Sweeps \cup {NoSweep}

\* Racing refreshes, late replies and retries leave at most one row of a login
\* that can still be used or refreshed (rotate_refresh).
OneTipPerLogin == \A s \in Used : \A r, q \in Lineage(s) : Open(r) /\ Open(q) => r = q

\* Whoever presents a retired token inside the window is answered with that one
\* row: the envelope walk finds what the lineage defines, unless more rows have
\* been inserted since than a replay follows (_stable_replay).
ReplayFindsTip ==
    \A s \in Used, r \in Used :
        Replayable(s) /\ r \in Lineage(s) /\ Live(r) /\ r - s <= HopBound => Replayed(s) = r

\* A login that has been ended, by logout or by a revocation, is not brought
\* back by a refresh, a replay or a late reply (revoke_session, _stable_replay).
EndedStaysEnded ==
    [][\A s \in Used : (\A r \in Lineage(s) : ~Open(r)) =>
                       \A r \in Lineage(s)' : ~Open(r)']_sessionVars

\* A logout ends the whole login, whichever generation of its token the client
\* still holds.
LogoutEndsLogin ==
    [][\A c \in Clients : jar[c] # 0 /\ Logout(c) =>
           \A r \in Lineage(jar[c]) : ~Open(r)']_sessionVars

\* A login is one line of tokens with one usable end, found again by whoever
\* lost an answer, and once ended, by logout or revocation, gone for good.
SessionContract ==
    /\ [](/\ SessionTypeOK
          /\ OneTipPerLogin
          /\ ReplayFindsTip)
    /\ EndedStaysEnded
    /\ LogoutEndsLogin

=============================================================================
