-------------------------------- MODULE Points --------------------------------
(***************************************************************************)
(* The points side: the append-only ledger and the wallet projected from it *)
(* (points/ledger_service.py), the redemption of rewards                    *)
(* (points/redemption_service.py), the reward catalogue and manual          *)
(* adjustments (points/admin_service.py).                                   *)
(*                                                                         *)
(* A session runs one request at a time, as one transaction of several      *)
(* steps: it begins, takes its row locks one by one in the order of the     *)
(* code, reading each row as it gets it, and commits.  Between two steps    *)
(* of a session the others run.  What a commit writes is computed from what *)
(* the session has READ, so only the locks keep it from being stale.        *)
(***************************************************************************)
EXTENDS Integers, Sequences, FiniteSetsExt

CONSTANTS
    Students, Items, Redemptions, Sessions,
    Claims,       \* claims the review pays or has reversed
    Operations,   \* the operation ids an administrator gives adjustments
    Adjustments,  \* the amounts of adjustments
    Adjustable,   \* students an administrator adjusts in this instance
    Offers,       \* price, stock and term limit an administrator may set
    Terms,        \* the academic terms
    ClaimUser,    \* the student a claim pays
    ClaimReward,  \* the locked reward of a claim
    Unlimited,    \* no stock or no term limit
    Null

ASSUME PointsAssumption ==
    /\ ClaimUser \in [Claims -> Students] /\ ClaimReward \in [Claims -> Nat \ {0}]
    /\ Adjustments \subseteq Int \ {0} /\ Adjustable \subseteq Students
    /\ Offers \subseteq [cost: Nat \ {0}, stock: Nat \cup {Unlimited},
                         limit: Nat \cup {Unlimited}]
    /\ Null \notin Students \cup Items \cup Terms \cup Sessions
    /\ IsFiniteSet(Redemptions)

VARIABLES
    ledger,       \* the entry of each source, NoEntry when there is none
    wallet,       \* the points of a student: available, and ever earned
    items,        \* the catalogue
    term,         \* the current academic term
    redemptions,  \* the requests for a reward
    reservation,  \* the status of a redemption's frozen points
    command,      \* what a session is doing
    seen,         \* what it has read since it began
    lock          \* the session that holds the lock of a row

tables == <<ledger, wallet, items, term, redemptions, reservation>>
vars == <<tables, command, seen, lock>>

-----------------------------------------------------------------------------
\* Ledger entries, by the UNIQUE triple: the type names the kind of source.
Reward(c)     == <<"ASSIGNMENT_REWARD", c>>
Reversal(c)   == <<"ASSIGNMENT_REWARD_REVERSAL", c>>
Charge(r)     == <<"REWARD_REDEMPTION", r>>
Adjustment(o) == <<"ADMIN_ADJUSTMENT", o>>

EntryKeys == {Reward(c) : c \in Claims} \cup {Reversal(c) : c \in Claims}
                \cup {Charge(r) : r \in Redemptions} \cup {Adjustment(o) : o \in Operations}

NoEntry      == [user |-> Null, amount |-> 0]
NoWallet     == [available |-> 0, earned |-> 0]
NoItem       == [shelf |-> "NONE", offer |-> Null]
NoRedemption == [status |-> "NONE", user |-> Null, item |-> Null, term |-> Null, points |-> 0]

\* The rows a transaction locks.
WalletRow(u)     == <<"wallet", u>>
ItemRow(i)       == <<"item", i>>
RedemptionRow(r) == <<"redemption", r>>

Rows == {WalletRow(u) : u \in Students} \cup {ItemRow(i) : i \in Items}
            \cup {RedemptionRow(r) : r \in Redemptions}

Idle        == [op |-> "idle"]
NothingSeen == [wallet |-> NoWallet, item |-> NoItem, redemption |-> NoRedemption,
                frozen |-> {}, occupied |-> 0, used |-> 0]

-----------------------------------------------------------------------------
\* What a request reads of the other redemptions.  UNDER_REVIEW is a status no code writes.
Occupying == {"REQUESTED", "APPROVED", "FULFILLED"}

Occupied(i) ==
    Cardinality({r \in Redemptions : redemptions[r].item = i /\ redemptions[r].status \in Occupying})

Used(u, i, t) ==
    Cardinality({r \in Redemptions : /\ redemptions[r].user = u /\ redemptions[r].item = i
                                     /\ redemptions[r].term = t
                                     /\ redemptions[r].status \in Occupying})

\* Mutant of Frozen: reservations do not count.
FrozenNothing(u) == {}

Frozen(u) == {r \in Redemptions : redemptions[r].user = u /\ reservation[r] = "ACTIVE"}

\* A redemption keeps its points for good: the sum of those frozen can be
\* taken when it is used.
Total(f, S) == MapThenSumSet(LAMBDA x : f[x], S)

PointsOf(S) == Total([r \in Redemptions |-> redemptions[r].points], S)

Within(count, cap) == cap # Unlimited => count < cap

-----------------------------------------------------------------------------
\* The locks of a transaction.
LockOrder(c) ==
    CASE c.op = "request"                      -> <<WalletRow(c.user), ItemRow(c.item)>>
      [] c.op \in {"approve", "reject"}        -> <<RedemptionRow(c.redemption), WalletRow(c.user)>>
      [] c.op = "fulfill"                      -> <<RedemptionRow(c.redemption)>>
      [] c.op \in {"grant", "reverse", "adjust"} -> <<WalletRow(c.user)>>
      [] c.op \in {"update", "disable"}        -> <<ItemRow(c.item)>>
      [] c.op = "idle"                         -> <<>>

\* Mutant of WaitsFor: the locks are taken in no fixed order.
WaitsForAny(s, row) ==
    LET order == LockOrder(command[s]) IN
    \E n \in DOMAIN order : order[n] = row /\ lock[row] # s

WaitsFor(s, row) ==
    LET order == LockOrder(command[s]) IN
    \E n \in DOMAIN order :
        /\ order[n] = row /\ lock[row] # s
        /\ \A m \in 1 .. n - 1 : lock[order[m]] = s

HoldsAll(s) ==
    LET order == LockOrder(command[s]) IN \A n \in DOMAIN order : lock[order[n]] = s

Take(s, row) ==
    /\ WaitsFor(s, row) /\ lock[row] = Null
    /\ lock' = [lock EXCEPT ![row] = s]
    /\ UNCHANGED <<tables, command>>

\* Mutant of LockWallet: a decision does not look at the status.
LockWalletUnchecked(s, u) ==
    /\ Take(s, WalletRow(u))
    /\ seen' = [seen EXCEPT ![s].wallet = wallet[u]]

LockWallet(s, u) ==
    /\ Take(s, WalletRow(u))
    /\ command[s].op \in {"approve", "reject"} => seen[s].redemption.status = "REQUESTED"
    /\ seen' = [seen EXCEPT ![s].wallet = wallet[u]]

\* Mutant of LockItem: the limit is counted in the term of the moment.
LockItemNow(s, i) ==
    LET c == command[s] IN
    /\ items[i] # NoItem
    /\ Take(s, ItemRow(i))
    /\ seen' = [seen EXCEPT ![s] =
           [@ EXCEPT !.item = items[i], !.occupied = Occupied(i),
                     !.used = Used(c.user, i, term), !.frozen = Frozen(c.user)]]

\* The item is a request's last lock: its counts and the frozen points follow.
LockItem(s, i) ==
    LET c == command[s] IN
    /\ items[i] # NoItem
    /\ Take(s, ItemRow(i))
    /\ seen' = [seen EXCEPT ![s] =
           [@ EXCEPT !.item = items[i], !.occupied = Occupied(i),
                     !.used = Used(c.user, i, c.term), !.frozen = Frozen(c.user)]]

\* Commit and rollback both release every lock.
Finish(s) ==
    /\ command' = [command EXCEPT ![s] = Idle]
    /\ seen'    = [seen EXCEPT ![s] = NothingSeen]
    /\ lock'    = [row \in Rows |-> IF lock[row] = s THEN Null ELSE lock[row]]

\* Every refusal and every replay, and a connection that is lost.
Rollback(s) ==
    /\ command[s] # Idle
    /\ Finish(s)
    /\ UNCHANGED tables

-----------------------------------------------------------------------------
\* A request reads the term before any lock; a ledger write looks for the
\* entry of its source.
Begin(s, c) ==
    /\ command[s] = Idle
    /\ command' = [command EXCEPT ![s] = c]
    /\ UNCHANGED <<tables, seen, lock>>

BeginRequest(s, u, i) == Begin(s, [op |-> "request", user |-> u, item |-> i, term |-> term])

BeginGrant(s, c) ==
    /\ ledger[Reward(c)] = NoEntry
    /\ Begin(s, [op |-> "grant", key |-> Reward(c), user |-> ClaimUser[c],
                 amount |-> ClaimReward[c]])

\* Mutant of BeginReversal: the original is not looked up.
BeginReversalUnseen(s, c) ==
    Begin(s, [op |-> "reverse", key |-> Reversal(c), user |-> ClaimUser[c],
              amount |-> -ClaimReward[c]])

BeginReversal(s, c) ==
    LET original == ledger[Reward(c)] IN
    /\ original # NoEntry
    /\ Begin(s, [op |-> "reverse", key |-> Reversal(c), user |-> original.user,
                 amount |-> -original.amount])

BeginAdjustment(s, o, u, amount) ==
    /\ ledger[Adjustment(o)] = NoEntry
    /\ Begin(s, [op |-> "adjust", key |-> Adjustment(o), user |-> u, amount |-> amount])

\* A decision and a catalogue change begin with their first lock.
BeginLocked(s, c, row) ==
    /\ command[s] = Idle /\ lock[row] = Null
    /\ command' = [command EXCEPT ![s] = c]
    /\ lock' = [lock EXCEPT ![row] = s]
    /\ UNCHANGED tables

BeginDecision(s, op, r) ==
    /\ redemptions[r].status # "NONE"
    /\ BeginLocked(s, [op |-> op, redemption |-> r, user |-> redemptions[r].user],
                   RedemptionRow(r))
    /\ seen' = [seen EXCEPT ![s].redemption = redemptions[r]]

BeginUpdate(s, i, offer) ==
    /\ items[i] # NoItem
    /\ BeginLocked(s, [op |-> "update", item |-> i, offer |-> offer], ItemRow(i))
    /\ seen' = [seen EXCEPT ![s].item = items[i]]

BeginDisable(s, i) ==
    /\ items[i] # NoItem
    /\ BeginLocked(s, [op |-> "disable", item |-> i], ItemRow(i))
    /\ seen' = [seen EXCEPT ![s].item = items[i]]

-----------------------------------------------------------------------------
\* Mutant of PostEntry: no unique constraint.
PostEntryAgain(s, key, u, amount, ranks) ==
    /\ ledger' = [ledger EXCEPT ![key] = [user |-> u, amount |-> amount]]
    /\ wallet' = [wallet EXCEPT ![u] =
           [available |-> seen[s].wallet.available + amount,
            earned    |-> seen[s].wallet.earned + IF ranks /\ amount > 0 THEN amount ELSE 0]]

\* An entry and its effect on the wallet the session has read.  A taken
\* source triple fails the insert: the transaction writes nothing.
PostEntry(s, key, u, amount, ranks) ==
    /\ ledger[key] = NoEntry
    /\ ledger' = [ledger EXCEPT ![key] = [user |-> u, amount |-> amount]]
    /\ wallet' = [wallet EXCEPT ![u] =
           [available |-> seen[s].wallet.available + amount,
            earned    |-> seen[s].wallet.earned + IF ranks /\ amount > 0 THEN amount ELSE 0]]

RequestRedemption(s, r) ==
    LET c == command[s]
        offer == seen[s].item.offer
    IN
    /\ c.op = "request" /\ HoldsAll(s)
    /\ seen[s].item.shelf = "ENABLED"
    /\ Within(seen[s].occupied, offer.stock)
    /\ Within(seen[s].used, offer.limit)
    /\ offer.cost <= seen[s].wallet.available - PointsOf(seen[s].frozen)
    /\ redemptions[r].status = "NONE"
    /\ redemptions' = [redemptions EXCEPT ![r] =
           [status |-> "REQUESTED", user |-> c.user, item |-> c.item, term |-> c.term,
            points |-> offer.cost]]
    /\ reservation' = [reservation EXCEPT ![r] = "ACTIVE"]
    /\ UNCHANGED <<ledger, wallet, items, term>>
    /\ Finish(s)

ApproveRedemption(s) ==
    LET c == command[s]
        r == c.redemption
    IN
    /\ c.op = "approve" /\ HoldsAll(s)
    /\ PostEntry(s, Charge(r), c.user, -seen[s].redemption.points, FALSE)
    /\ reservation' = [reservation EXCEPT ![r] = "CONSUMED"]
    /\ redemptions' = [redemptions EXCEPT ![r].status = "APPROVED"]
    /\ UNCHANGED <<items, term>>
    /\ Finish(s)

RejectRedemption(s) ==
    LET r == command[s].redemption IN
    /\ command[s].op = "reject" /\ HoldsAll(s)
    /\ reservation' = [reservation EXCEPT ![r] = "RELEASED"]
    /\ redemptions' = [redemptions EXCEPT ![r].status = "REJECTED"]
    /\ UNCHANGED <<ledger, wallet, items, term>>
    /\ Finish(s)

FulfillRedemption(s) ==
    /\ command[s].op = "fulfill" /\ HoldsAll(s)
    /\ seen[s].redemption.status = "APPROVED"
    /\ redemptions' = [redemptions EXCEPT ![command[s].redemption].status = "FULFILLED"]
    /\ UNCHANGED <<ledger, wallet, items, term, reservation>>
    /\ Finish(s)

GrantAssignmentReward(s) ==
    LET c == command[s] IN
    /\ c.op = "grant" /\ HoldsAll(s)
    /\ PostEntry(s, c.key, c.user, c.amount, TRUE)
    /\ UNCHANGED <<items, term, redemptions, reservation>>
    /\ Finish(s)

ReverseAssignmentReward(s) ==
    LET c == command[s] IN
    /\ c.op = "reverse" /\ HoldsAll(s)
    /\ PostEntry(s, c.key, c.user, c.amount, TRUE)
    /\ UNCHANGED <<items, term, redemptions, reservation>>
    /\ Finish(s)

AdminAdjustPoints(s) ==
    LET c == command[s] IN
    /\ c.op = "adjust" /\ HoldsAll(s)
    /\ PostEntry(s, c.key, c.user, c.amount, FALSE)
    /\ UNCHANGED <<items, term, redemptions, reservation>>
    /\ Finish(s)

-----------------------------------------------------------------------------
\* The catalogue.  An item is never put back on the shelf.
CreateRewardItem(i, offer) ==
    /\ items[i] = NoItem
    /\ items' = [items EXCEPT ![i] = [shelf |-> "ENABLED", offer |-> offer]]
    /\ UNCHANGED <<ledger, wallet, term, redemptions, reservation, command, seen, lock>>

UpdateRewardItem(s) ==
    LET c == command[s] IN
    /\ c.op = "update" /\ HoldsAll(s)
    /\ items' = [items EXCEPT ![c.item].offer = c.offer]
    /\ UNCHANGED <<ledger, wallet, term, redemptions, reservation>>
    /\ Finish(s)

DisableRewardItem(s) ==
    LET c == command[s] IN
    /\ c.op = "disable" /\ HoldsAll(s)
    /\ seen[s].item.shelf = "ENABLED"
    /\ items' = [items EXCEPT ![c.item].shelf = "DISABLED"]
    /\ UNCHANGED <<ledger, wallet, term, redemptions, reservation>>
    /\ Finish(s)

SwitchTerm(t) ==
    /\ term' = t
    /\ UNCHANGED <<ledger, wallet, items, redemptions, reservation, command, seen, lock>>

-----------------------------------------------------------------------------
Init ==
    /\ ledger = [k \in EntryKeys |-> NoEntry]
    /\ wallet = [u \in Students |-> NoWallet]
    /\ items = [i \in Items |-> NoItem]
    /\ term \in Terms
    /\ redemptions = [r \in Redemptions |-> NoRedemption]
    /\ reservation = [r \in Redemptions |-> "NONE"]
    /\ command = [s \in Sessions |-> Idle]
    /\ seen = [s \in Sessions |-> NothingSeen]
    /\ lock = [row \in Rows |-> Null]

BeginAny(s) ==
    \/ \E u \in Students, i \in Items : BeginRequest(s, u, i)
    \/ \E op \in {"approve", "reject", "fulfill"}, r \in Redemptions : BeginDecision(s, op, r)
    \/ \E c \in Claims : BeginGrant(s, c) \/ BeginReversal(s, c)
    \/ \E o \in Operations, u \in Adjustable, amount \in Adjustments :
           BeginAdjustment(s, o, u, amount)
    \/ \E i \in Items : BeginDisable(s, i) \/ \E offer \in Offers : BeginUpdate(s, i, offer)

LockAny(s) ==
    \/ \E u \in Students : LockWallet(s, u)
    \/ \E i \in Items : LockItem(s, i)

CommitAny(s) ==
    \/ \E r \in Redemptions : RequestRedemption(s, r)
    \/ ApproveRedemption(s) \/ RejectRedemption(s) \/ FulfillRedemption(s)
    \/ GrantAssignmentReward(s) \/ ReverseAssignmentReward(s) \/ AdminAdjustPoints(s)
    \/ UpdateRewardItem(s) \/ DisableRewardItem(s)

Next ==
    \/ \E s \in Sessions : BeginAny(s) \/ LockAny(s) \/ CommitAny(s) \/ Rollback(s)
    \/ \E i \in Items, offer \in Offers : CreateRewardItem(i, offer)
    \/ \E t \in Terms : SwitchTerm(t)

Spec == Init /\ [][Next]_vars

-----------------------------------------------------------------------------
Wallets  == [available: Int, earned: Nat]
Shelf    == {NoItem} \cup [shelf: {"ENABLED", "DISABLED"}, offer: Offers]
Entry    == {NoEntry} \cup [user: Students, amount: Int \ {0}]
Requests == {NoRedemption}
                \cup [status: {"REQUESTED", "APPROVED", "REJECTED", "FULFILLED"},
                      user: Students, item: Items, term: Terms, points: Nat \ {0}]

Postings == {Reward(c) : c \in Claims} \cup {Reversal(c) : c \in Claims}
                \cup {Adjustment(o) : o \in Operations}

Commands ==
    {Idle}
    \cup [op: {"request"}, user: Students, item: Items, term: Terms]
    \cup [op: {"approve", "reject", "fulfill"}, redemption: Redemptions, user: Students]
    \cup [op: {"grant", "reverse", "adjust"}, key: Postings, user: Students, amount: Int \ {0}]
    \cup [op: {"update"}, item: Items, offer: Offers]
    \cup [op: {"disable"}, item: Items]

Readings == [wallet: Wallets, item: Shelf, redemption: Requests,
             frozen: SUBSET Redemptions, occupied: Nat, used: Nat]

\* Every table, session and lock has the shape the schema gives it; the
\* points ever earned by a student are never negative.
TypeOK ==
    /\ ledger \in [EntryKeys -> Entry]
    /\ wallet \in [Students -> Wallets]
    /\ items \in [Items -> Shelf]
    /\ term \in Terms
    /\ redemptions \in [Redemptions -> Requests]
    /\ reservation \in [Redemptions -> {"NONE", "ACTIVE", "RELEASED", "CONSUMED"}]
    /\ command \in [Sessions -> Commands]
    /\ seen \in [Sessions -> Readings]
    /\ lock \in [Rows -> Sessions \cup {Null}]

-----------------------------------------------------------------------------
EntriesOf(u, keys) ==
    Total([k \in EntryKeys |-> ledger[k].amount], {k \in keys : ledger[k].user = u})

Balance(u) == EntriesOf(u, EntryKeys)

\* The wallet is what the ledger adds up to: available points are the sum of
\* all entries, earned points the sum of the rewards.  The wallet is written
\* from a value read several steps before the commit (post_entry).
WalletMatchesLedger ==
    \A u \in Students :
        /\ wallet[u].available = Balance(u)
        /\ wallet[u].earned = EntriesOf(u, {Reward(c) : c \in Claims})

\* A redemption, its frozen points and its ledger entry tell the same story:
\* frozen while it is open, spent by one entry of minus its points exactly
\* when it is approved, given back without an entry when it is rejected.
ChargedExactlyOnce ==
    \A r \in Redemptions :
        LET row == redemptions[r] IN
        /\ row.status = "NONE"      <=> reservation[r] = "NONE"
        /\ row.status = "REQUESTED" <=> reservation[r] = "ACTIVE"
        /\ row.status = "REJECTED"  <=> reservation[r] = "RELEASED"
        /\ ledger[Charge(r)] = IF row.status \in {"APPROVED", "FULFILLED"}
                               THEN [user |-> row.user, amount |-> -row.points]
                               ELSE NoEntry

\* A reversal cancels the reward of its claim, and a claim that paid nothing
\* has none; both entries are read and written without a common lock.
ReversalCancelsReward ==
    \A c \in Claims :
        ledger[Reversal(c)] # NoEntry =>
            /\ ledger[Reward(c)] # NoEntry
            /\ ledger[Reversal(c)] = [ledger[Reward(c)] EXCEPT !.amount = -@]

\* The rows of the points side agree with one another after every commit: an
\* entry, the redemption it charges, the points it froze and the reward a
\* reversal takes back.
RowsAgree == TypeOK /\ ChargedExactlyOnce /\ ReversalCancelsReward

\* No set of sessions waits for one another: the lock orders of the requests,
\* the decisions, the ledger writes and the catalogue do not form a cycle.
NoLockCycle ==
    \A S \in (SUBSET Sessions) \ {{}} :
        \E s \in S : \A row \in Rows : WaitsFor(s, row) => lock[row] \notin S

-----------------------------------------------------------------------------
\* What a request adds never exceeds the stock of its item, whatever the
\* other requests and the administrator do meanwhile.
StockNeverOversold ==
    [][\A i \in Items :
          Occupied(i)' > Occupied(i) =>
              items[i].offer.stock = Unlimited \/ Occupied(i)' <= items[i].offer.stock]_vars

\* Nor the number of redemptions an item allows one student in one term,
\* the term being the one the request began in.
TermLimitHolds ==
    [][\A u \in Students, i \in Items, t \in Terms :
          Used(u, i, t)' > Used(u, i, t) =>
              items[i].offer.limit = Unlimited \/ Used(u, i, t)' <= items[i].offer.limit]_vars

\* No request takes an item past what it offers: its stock over all students,
\* its limit per student and term, both counted under the locks of the request.
WithinLimits == StockNeverOversold /\ TermLimitHolds

\* The ledger is append-only: an entry never changes and never disappears.
LedgerAppendOnly ==
    [][\A k \in EntryKeys : ledger[k] # NoEntry => ledger'[k] = ledger[k]]_vars

\* A decision stands: a rejected or fulfilled redemption never moves again,
\* an approved one is only ever fulfilled, and none changes its owner, item,
\* term or points.
DecisionsStand ==
    [][\A r \in Redemptions :
          LET row == redemptions[r]
              next == redemptions'[r]
          IN  /\ row.status \in {"REJECTED", "FULFILLED"} => next = row
              /\ row.status = "APPROVED" => next.status \in {"APPROVED", "FULFILLED"}
              /\ row.status # "NONE" => next = [row EXCEPT !.status = next.status]]_vars

\* What is recorded stays recorded: the entries of the ledger and the
\* decisions on the redemptions, under every interleaving of their writers.
HistoryStands == LedgerAppendOnly /\ DecisionsStand

-----------------------------------------------------------------------------
\* The account a student sees: the wallet is its balance, the reservations
\* are its holds.
HoldPhase(status) ==
    CASE status = "NONE"     -> "new"
      [] status = "ACTIVE"   -> "held"
      [] status = "RELEASED" -> "released"
      [] status = "CONSUMED" -> "spent"

Account == INSTANCE PointsAccount WITH
    balance <- [u \in Students |-> wallet[u].available],
    owner   <- [r \in Redemptions |-> redemptions[r].user],
    hold    <- [r \in Redemptions |-> redemptions[r].points],
    phase   <- [r \in Redemptions |-> HoldPhase(reservation[r])],
    Entries <- Adjustments \cup {ClaimReward[c] : c \in Claims}
                   \cup {-ClaimReward[c] : c \in Claims},
    Prices  <- {offer.cost : offer \in Offers}

\* The points side implements the account: no redemption is granted that the
\* wallet does not cover, and none is charged twice or after a rejection.
ImplementsAccount == Account!AccountSpec

=============================================================================
