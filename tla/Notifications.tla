----------------------------- MODULE Notifications -----------------------------
(***************************************************************************)
(* Notifications (notifications/): an event is recorded in the transaction  *)
(* of the business change, once per user, with one delivery per channel; a  *)
(* scan (workers/jobs/dispatch_due_notifications.py) puts due deliveries on *)
(* the queue, and a worker sends one in two transactions with the provider  *)
(* call in between (delivery_service.py).  A claim has no owner: whether it *)
(* is still alive is judged by its age.                                     *)
(*                                                                         *)
(* Instants are kept as distances: wait is the time to scheduled_at, age    *)
(* the time since an instant was sampled, both cut off where no comparison  *)
(* can tell the difference.  attempts stops at MaxAttempts for the same     *)
(* reason.                                                                  *)
(***************************************************************************)
EXTENDS Integers, FiniteSetsExt

CONSTANTS
    Events,         \* the event keys of one user
    Reminders,      \* deadline reminders of the user's claim
    Confirmations,  \* recruitment reminders, settled inside the last transaction
    Channels,       \* channels of this instance
    Templates,      \* texts an administrator may have put in force
    Policy,         \* the channels the task allows for its reminders
    Lead,           \* the time from the start to a reminder's instant
    Workers,
    MaxAttempts,
    Delay,          \* the retry ladder
    StaleAfter,     \* age at which a send may take a claim over
    StuckAfter,     \* age at which the recovery scan frees a claim
    MaxQueue,       \* bound on messages for one delivery
    MaxEvents,      \* bound on events recorded
    NoWork

ASSUME NotificationAssumption ==
    /\ IsFiniteSet(Events)
    /\ Reminders \cap Confirmations = {} /\ Reminders \cup Confirmations \subseteq Events
    /\ Channels \subseteq {"IN_APP", "SMS", "EMAIL"} /\ Policy \in [Reminders -> SUBSET Channels]
    /\ Lead \in [Reminders -> Nat]
    /\ MaxAttempts \in Nat \ {0} /\ Delay \in [1 .. MaxAttempts -> Nat]
    /\ StaleAfter \in Nat \ {0} /\ StuckAfter \in Nat \ {0}
    /\ MaxQueue \in Nat \ {0} /\ MaxEvents \in Nat \ {0}

VARIABLES
    delivery,   \* the row of each (event, channel)
    canonical,  \* the text of an event's inbox message, Unrecorded before
    unread,     \* events whose message has no read_at
    queue,      \* messages at the broker
    worker,     \* the send a worker is in
    stuck,      \* rows a running UPDATE of the recovery scan has selected
    accepted    \* deliveries a provider has accepted a message for

rows == <<delivery, canonical, unread>>
notificationVars == <<rows, queue, worker, stuck, accepted>>

Deliveries == Events \X Channels
MaxAge     == IF StaleAfter > StuckAfter THEN StaleAfter ELSE StuckAfter
MaxWait    == Max({Delay[n] : n \in DOMAIN Delay} \cup {Lead[e] : e \in Reminders} \cup {0})
Unrecorded == "unrecorded"
Seed       == "seed"
Texts      == {Seed} \cup Templates

NoDelivery == [status |-> "NONE", attempts |-> 0, wait |-> 0, age |-> 0,
               reason |-> "none", text |-> Seed]

-----------------------------------------------------------------------------
\* The account, the subject of a reminder and the templates belong to other
\* modules and may change at any time: each reading takes any value of theirs.
\* A closed account receives nothing, an open one its inbox and what it has
\* bound; a suspended account still receives.
Accounts == {{}} \cup {bound \cup (Channels \cap {"IN_APP"}) : bound \in SUBSET Channels}

\* Task toggles bind the reminders, and only when the event is recorded.
ChannelsFor(e, reachable) == {ch \in reachable : e \in Reminders => ch \in Policy[e]}

\* Mutant of NewRow: a second record refreshes what is not yet sent.
NewRowUpsert(e, ch, text, wait) ==
    IF delivery[<<e, ch>>].status \in {"SENT", "FAILED"} THEN delivery[<<e, ch>>]
    ELSE [NoDelivery EXCEPT !.status = "PENDING", !.text = text, !.wait = wait]

\* ON CONFLICT DO NOTHING on (event_key, user_id, channel).
NewRow(e, ch, text, wait) ==
    IF delivery[<<e, ch>>].status # "NONE" THEN delivery[<<e, ch>>]
    ELSE [NoDelivery EXCEPT !.status = "PENDING", !.text = text, !.wait = wait]

\* A channel's template in force, else the text the message already has.
TextFor(ch, inForce, message) == IF inForce[ch] = Seed THEN message ELSE inForce[ch]

\* A reminder waits for its instant and is not planned once that has passed.
Waits(e) == IF e \in Reminders THEN 0 .. Lead[e] ELSE {0}

\* Recording is repeated by a re-arm or a retry of the caller.
RecordEvent(e, reachable, inForce, wait) ==
    LET message == IF canonical[e] = Unrecorded THEN inForce["IN_APP"] ELSE canonical[e] IN
    /\ Cardinality({x \in Events \ {e} : canonical[x] # Unrecorded}) < MaxEvents
    /\ wait \in Waits(e)
    /\ ChannelsFor(e, reachable) # {}
    /\ canonical' = [canonical EXCEPT ![e] = message]
    /\ delivery' = [d \in Deliveries |->
           IF d[1] = e /\ d[2] \in ChannelsFor(e, reachable)
           THEN NewRow(e, d[2], TextFor(d[2], inForce, message), wait) ELSE delivery[d]]
    /\ UNCHANGED <<unread, queue, worker, stuck, accepted>>

\* The inbox lists the messages whose own delivery was completed by a send.
InInbox(e) ==
    /\ "IN_APP" \in Channels
    /\ delivery[<<e, "IN_APP">>].status = "SENT" /\ delivery[<<e, "IN_APP">>].reason = "sent"

\* InboxService.mark_read.
MarkRead(e) ==
    /\ canonical[e] # Unrecorded
    /\ unread' = unread \ {e}
    /\ UNCHANGED <<delivery, canonical, queue, worker, stuck, accepted>>

-----------------------------------------------------------------------------
\* The scans.
\* Mutant of Due: the retries are forgotten.
DueFirst(d) ==
    \/ delivery[d].status = "PENDING" /\ delivery[d].wait = 0
    \/ delivery[d].status = "SENDING" /\ delivery[d].age >= StaleAfter

Due(d) ==
    \/ delivery[d].status \in {"PENDING", "RETRYABLE"} /\ delivery[d].wait = 0
    \/ delivery[d].status = "SENDING" /\ delivery[d].age >= StaleAfter

Enqueued(d) == [queue EXCEPT ![d] = IF @ < MaxQueue THEN @ + 1 ELSE @]

DispatchDue(d) ==
    /\ Due(d)
    /\ queue' = Enqueued(d)
    /\ UNCHANGED <<rows, worker, stuck, accepted>>

\* Every sender of d before now has lost its claim, and does not know: the row
\* went stale, was freed, or was settled by an older sender.
Superseded(d) ==
    [w \in Workers |-> IF worker[w] # NoWork /\ worker[w].on = d
                       THEN [worker[w] EXCEPT !.owner = FALSE] ELSE worker[w]]

\* One UPDATE whose subquery selects the aged rows as of its snapshot.  Neither
\* the subquery locks them nor does the outer WHERE look at the status again, so
\* a row that is settled or claimed anew before the UPDATE reaches it, or while
\* the UPDATE waits for it, is overwritten all the same.  An UPDATE that is rolled
\* back is one that selected nothing.
SelectStuck(d) ==
    /\ delivery[d].status = "SENDING" /\ delivery[d].age >= StuckAfter
    /\ stuck' = stuck \cup {d}
    /\ UNCHANGED <<rows, queue, worker, accepted>>

RecoverStuck(d) ==
    /\ d \in stuck
    /\ delivery' = [delivery EXCEPT ![d].status = "RETRYABLE", ![d].reason = "stuck",
                                    ![d].age = 0]
    /\ worker' = Superseded(d)
    /\ stuck' = stuck \ {d}
    /\ UNCHANGED <<canonical, unread, queue, accepted>>

\* RepairService.force_fail_delivery, by an administrator.
ForceFail(d) ==
    /\ delivery[d].status = "SENDING"
    /\ delivery' = [delivery EXCEPT ![d].status = "FAILED", ![d].reason = "forced", ![d].age = 0]
    /\ UNCHANGED <<canonical, unread, queue, worker, stuck, accepted>>

-----------------------------------------------------------------------------
\* The gates of the first transaction.
Claimable(d) == Due(d) /\ delivery[d].wait = 0

Take(w, d) ==
    /\ worker[w] = NoWork /\ queue[d] > 0
    /\ queue' = [queue EXCEPT ![d] = @ - 1]

\* ALREADY_SENT, ALREADY_FAILED, IN_FLIGHT, NOT_DUE: the message is done.
EarlyOut(w, d) ==
    /\ Take(w, d)
    /\ ~Claimable(d)
    /\ UNCHANGED <<rows, worker, stuck, accepted>>

\* The claim, with the clock sampled just before and the channel decision
\* made on the account as it is now.
Claim(w, d, reachable) ==
    LET attempts == IF delivery[d].attempts < MaxAttempts THEN delivery[d].attempts + 1
                    ELSE MaxAttempts
    IN
    /\ Take(w, d)
    /\ Claimable(d)
    /\ delivery' = [delivery EXCEPT ![d].status = "SENDING", ![d].attempts = attempts,
                                    ![d].age = 0]
    /\ worker' = [(IF delivery[d].status = "SENDING" /\ delivery[d].age >= StaleAfter
                   THEN Superseded(d) ELSE worker) EXCEPT ![w] =
           [at |-> "claimed", on |-> d, owner |-> TRUE, attempts |-> attempts,
            outcome |-> IF d[2] \in reachable THEN "none" ELSE "skipped"]]
    /\ UNCHANGED <<canonical, unread, stuck, accepted>>

\* Between the transactions: a reminder whose claim needs no action any more
\* is skipped, an inbox message needs no provider, and a provider accepts,
\* refuses, fails for now or leaves it open whether it accepted.
Dispatched(w, outcome) ==
    /\ worker[w] # NoWork /\ worker[w].at = "claimed"
    /\ worker' = [worker EXCEPT ![w].at = "done", ![w].outcome = outcome]
    /\ UNCHANGED <<rows, queue, stuck>>

Skip(w) ==
    /\ worker[w] # NoWork
    /\ worker[w].outcome = "skipped" \/ worker[w].on[1] \in Reminders
    /\ Dispatched(w, "skipped")
    /\ UNCHANGED accepted

Sendable(w) == worker[w] # NoWork /\ worker[w].outcome = "none"

PutInInbox(w) ==
    /\ Sendable(w) /\ worker[w].on[2] = "IN_APP"
    /\ Dispatched(w, "sent")
    /\ UNCHANGED accepted

\* A recruitment reminder on a provider channel raises before the call.
Refused(w) ==
    worker[w] # NoWork /\ worker[w].on[1] \in Confirmations /\ worker[w].on[2] # "IN_APP"

\* Permanent, temporary and unknown outcomes are the provider taxonomy; the
\* message may have been taken although the outcome stayed unknown.
CallProvider(w, outcome, taken) ==
    /\ Sendable(w) /\ worker[w].on[2] # "IN_APP" /\ ~Refused(w)
    /\ outcome = "sent" => taken
    /\ outcome \in {"permanent", "temporary"} => ~taken
    /\ accepted' = IF taken THEN accepted \cup {worker[w].on} ELSE accepted
    /\ Dispatched(w, outcome)

\* The row after the second transaction, which counts from the instant the
\* worker sampled, some late units of time ago.
Settled(row, w, late) ==
    LET outcome == worker[w].outcome
        over    == outcome \in {"sent", "skipped"}
    IN
    CASE over ->
             [row EXCEPT !.status = "SENT", !.reason = outcome, !.age = 0]
      [] ~over /\ (outcome = "permanent" \/ worker[w].attempts >= MaxAttempts) ->
             [row EXCEPT !.status = "FAILED", !.reason = outcome, !.age = 0]
      [] OTHER ->
             [row EXCEPT !.status = "RETRYABLE", !.reason = outcome, !.age = 0,
                         !.wait = IF Delay[worker[w].attempts] > late
                                  THEN Delay[worker[w].attempts] - late ELSE 0]

Done(w) == worker[w] # NoWork /\ worker[w].at = "done"

\* A recruitment reminder's cycle is looked at again in this transaction.
Finalize(w, late, relevant) ==
    LET d      == worker[w].on
        row    == Settled(delivery[d], w, late)
        absent == row.status = "SENT" /\ d[1] \in Confirmations /\ ~relevant
    IN
    /\ Done(w) /\ delivery[d].status = "SENDING"
    /\ relevant \/ d[1] \in Confirmations
    /\ delivery' = [delivery EXCEPT ![d] =
           IF absent THEN [row EXCEPT !.reason = "skipped"] ELSE row]
    /\ unread' = IF d[2] = "IN_APP" /\ row.reason = "sent" /\ ~absent
                 THEN unread \cup {d[1]} ELSE unread
    /\ worker' = [(IF worker[w].owner THEN worker ELSE Superseded(d)) EXCEPT ![w] = NoWork]
    /\ UNCHANGED <<canonical, queue, stuck, accepted>>

\* finalize_lost_race: somebody else has settled or freed the row.
FinalizeLostRace(w) ==
    /\ Done(w) /\ delivery[worker[w].on].status # "SENDING"
    /\ worker' = [worker EXCEPT ![w] = NoWork]
    /\ UNCHANGED <<rows, queue, stuck, accepted>>

-----------------------------------------------------------------------------
\* A lost worker's message is delivered again, a job that raises is
\* acknowledged; either leaves the row as it is.
WorkerLost(w) ==
    /\ worker[w] # NoWork
    /\ queue'  = Enqueued(worker[w].on)
    /\ worker' = [worker EXCEPT ![w] = NoWork]
    /\ UNCHANGED <<rows, stuck, accepted>>

JobFailed(w) ==
    /\ worker[w] # NoWork
    /\ worker' = [worker EXCEPT ![w] = NoWork]
    /\ UNCHANGED <<rows, queue, stuck, accepted>>

Older(age)  == IF age < MaxAge THEN age + 1 ELSE age
Nearer(wait) == IF wait > 0 THEN wait - 1 ELSE 0

Tick ==
    /\ delivery' = [d \in Deliveries |->
           [delivery[d] EXCEPT !.wait = Nearer(@),
                               !.age  = IF delivery[d].status = "SENDING" THEN Older(@) ELSE 0]]
    /\ UNCHANGED <<canonical, unread, queue, worker, stuck, accepted>>

-----------------------------------------------------------------------------
NotificationInit ==
    /\ delivery = [d \in Deliveries |-> NoDelivery]
    /\ canonical = [e \in Events |-> Unrecorded]
    /\ unread = Events
    /\ queue = [d \in Deliveries |-> 0]
    /\ worker = [w \in Workers |-> NoWork]
    /\ stuck = {} /\ accepted = {}

Outcomes == {"sent", "permanent", "temporary", "unknown"}

FinalizeStep(w) ==
    \E late \in 0 .. StuckAfter, relevant \in BOOLEAN : Finalize(w, late, relevant)

TakeMessage(w, d) == EarlyOut(w, d) \/ \E reachable \in Accounts : Claim(w, d, reachable)

NotificationNext ==
    \/ \E e \in Events :
           \/ \E reachable \in Accounts, inForce \in [Channels \cup {"IN_APP"} -> Texts], wait \in 0 .. MaxWait :
                  RecordEvent(e, reachable, inForce, wait)
           \/ MarkRead(e)
    \/ \E d \in Deliveries :
           \/ DispatchDue(d) \/ ForceFail(d)
           \/ SelectStuck(d) \/ RecoverStuck(d)
    \/ \E w \in Workers :
           \/ \E d \in Deliveries : TakeMessage(w, d)
           \/ Skip(w) \/ PutInInbox(w)
           \/ \E outcome \in Outcomes, taken \in BOOLEAN : CallProvider(w, outcome, taken)
           \/ FinalizeStep(w) \/ FinalizeLostRace(w)
           \/ WorkerLost(w) \/ JobFailed(w)
    \/ Tick

NotificationSpec == NotificationInit /\ [][NotificationNext]_notificationVars

\* The rows that can come into being.
Plannable == {d \in Deliveries : d[1] \in Reminders => d[2] \in Policy[d[1]]}

Dispatch(w) ==
    \/ Skip(w) \/ PutInInbox(w)
    \/ \E outcome \in Outcomes, taken \in BOOLEAN : CallProvider(w, outcome, taken)

InTime(w) == worker[w] # NoWork /\ worker[w].owner

\* The beat schedule keeps the scans and the clock going and idle workers take
\* messages.  Whoever is in a send ends it; sends are not all lost, and as the
\* provider timeouts are far below StuckAfter not all overtaken either.
NotificationFairness ==
    /\ WF_notificationVars(Tick)
    /\ \A d \in Plannable :
           /\ WF_notificationVars(DispatchDue(d))
           /\ WF_notificationVars(SelectStuck(d)) /\ WF_notificationVars(RecoverStuck(d))
           /\ SF_notificationVars(\E w \in Workers : TakeMessage(w, d))
    /\ \A w \in Workers :
           /\ WF_notificationVars(Dispatch(w) \/ FinalizeStep(w) \/ FinalizeLostRace(w) \/ (Refused(w) /\ JobFailed(w)))
           /\ SF_notificationVars(InTime(w) /\ Dispatch(w))
           /\ SF_notificationVars(InTime(w) /\ FinalizeStep(w))

NotificationFairSpec == NotificationSpec /\ NotificationFairness

-----------------------------------------------------------------------------
NotificationTypeOK ==
    /\ delivery \in [Deliveries ->
           [status : {"NONE", "PENDING", "SENDING", "RETRYABLE", "SENT", "FAILED"},
            attempts : 0 .. MaxAttempts, wait : 0 .. MaxWait, age : 0 .. MaxAge,
            reason : {"none", "stuck", "forced", "skipped"} \cup Outcomes,
            text : Texts]]
    /\ canonical \in [Events -> {Unrecorded} \cup Texts]
    /\ unread \subseteq Events
    /\ queue \in [Deliveries -> 0 .. MaxQueue]
    /\ \A w \in Workers : worker[w] # NoWork =>
           worker[w] \in [at : {"claimed", "done"}, on : Deliveries, owner : BOOLEAN,
                          attempts : 1 .. MaxAttempts, outcome : {"none", "skipped"} \cup Outcomes]
    /\ stuck \subseteq Deliveries /\ accepted \subseteq Deliveries

\* A delivery that says it was sent by a provider was accepted by it: neither
\* a lost worker, nor an open outcome, nor a stale finalize marks one sent on
\* the strength of nothing (delivery_service.py:510, :598).
SentIsDelivered ==
    \A d \in Deliveries :
        delivery[d].status = "SENT" /\ delivery[d].reason = "sent" /\ d[2] # "IN_APP"
            => d \in accepted

\* A delivery is given up after a failure that may pass only when the attempts
\* are used up, also after crashes and recoveries (delivery_service.py:574).
NotGivenUpEarly ==
    \A d \in Deliveries :
        delivery[d].status = "FAILED" /\ delivery[d].reason \in {"temporary", "unknown"}
            => delivery[d].attempts = MaxAttempts

\* Of the workers in a send of one delivery at most one has a claim that was
\* neither taken over as stale nor freed by the recovery scan: duplicates,
\* redeliveries and re-enqueued messages alone never send twice
\* (delivery_service.py:394, recover_stuck_sending.py:109).
OneSender ==
    \A v, w \in Workers :
        /\ worker[v] # NoWork /\ worker[w] # NoWork /\ worker[v].on = worker[w].on
        /\ worker[v].owner /\ worker[w].owner
        => v = w

\* SENT and FAILED are the end of a delivery: no redelivery, second record or
\* late worker opens it again (delivery_service.py:379, :630), nor any scan but
\* one whose UPDATE had selected the row while it was SENDING
\* (recover_stuck_sending.py:135).
FinalForever ==
    [][\A d \in Deliveries :
          delivery[d].status \in {"SENT", "FAILED"} /\ ~(d \in stuck /\ d \notin stuck') =>
              /\ delivery'[d].status = delivery[d].status
              /\ delivery'[d].reason = delivery[d].reason]_notificationVars

\* A recipient who has read a delivered message does not see it unread again
\* while it stays in the inbox, although the delivery resets read_at when it
\* completes (delivery_service.py:650, inbox_service.py:169).
ReadStaysRead ==
    [][\A e \in Events :
          InInbox(e) /\ e \notin unread => e \notin unread']_notificationVars

\* What a recipient reads is fixed when the event is first recorded: neither an
\* edited template nor a repeated record changes it (port.py:334).
TextFrozen ==
    [][\A d \in Deliveries :
          /\ canonical[d[1]] # Unrecorded => canonical'[d[1]] = canonical[d[1]]
          /\ delivery[d].status # "NONE" => delivery'[d].text = delivery[d].text]_notificationVars

Resolved(d) == delivery[d].status # "NONE" ~> delivery[d].status \in {"SENT", "FAILED"}

Sendables == {d \in Plannable : d[1] \in Confirmations => d[2] = "IN_APP"}

\* Every delivery a worker can send is sent or given up in the end, whatever is
\* lost on the way (dispatch_due_notifications.py:112, recover_stuck_sending.py:109).
ResolvedEventually == \A d \in Sendables : Resolved(d)

\* What a recipient may rely on, whichever workers die, stall or run twice: a
\* message marked sent was accepted by its provider, none is given up early, one
\* worker at a time sends it, and its end, its text and its read mark stand.
DeliveryContract ==
    /\ [](/\ NotificationTypeOK
          /\ SentIsDelivered
          /\ NotGivenUpEarly
          /\ OneSender)
    /\ FinalForever
    /\ ReadStaysRead
    /\ TextFrozen

=============================================================================
