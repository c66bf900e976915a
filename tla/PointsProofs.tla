------------------------------ MODULE PointsProofs ------------------------------
(***************************************************************************)
(* The points side, for every set of students, items, claims, redemptions   *)
(* and sessions and every price, reward and adjustment.  The argument is    *)
(* that of the code's comments: what a session has read of a row is what    *)
(* the row holds for as long as the session holds the row's lock.           *)
(***************************************************************************)
EXTENDS Points, FiniteSetTheorems, TLAPS

-----------------------------------------------------------------------------
(* Which locks a command takes.                                            *)

LEMMA RowsDiffer ==
    /\ \A u, v : WalletRow(u) = WalletRow(v) <=> u = v
    /\ \A i, j : ItemRow(i) = ItemRow(j) <=> i = j
    /\ \A q, r : RedemptionRow(q) = RedemptionRow(r) <=> q = r
    /\ \A u, i : WalletRow(u) # ItemRow(i)
    /\ \A u, r : WalletRow(u) # RedemptionRow(r)
    /\ \A i, r : ItemRow(i) # RedemptionRow(r)
BY DEF WalletRow, ItemRow, RedemptionRow

LEMMA OrderOf ==
    ASSUME NEW c
    PROVE  /\ c.op = "request" => LockOrder(c) = <<WalletRow(c.user), ItemRow(c.item)>>
           /\ c.op \in {"approve", "reject"} =>
                  LockOrder(c) = <<RedemptionRow(c.redemption), WalletRow(c.user)>>
           /\ c.op = "fulfill" => LockOrder(c) = <<RedemptionRow(c.redemption)>>
           /\ c.op \in {"grant", "reverse", "adjust"} => LockOrder(c) = <<WalletRow(c.user)>>
           /\ c.op \in {"update", "disable"} => LockOrder(c) = <<ItemRow(c.item)>>
           /\ c.op = "idle" => LockOrder(c) = <<>>
BY DEF LockOrder

\* Holding all locks is holding each.
LEMMA Holds ==
    ASSUME NEW s \in Sessions, HoldsAll(s)
    PROVE  LET c == command[s] IN
           /\ c.op \in {"request", "approve", "reject", "grant", "reverse", "adjust"} =>
                  lock[WalletRow(c.user)] = s
           /\ c.op \in {"request", "update", "disable"} => lock[ItemRow(c.item)] = s
           /\ c.op \in {"approve", "reject", "fulfill"} => lock[RedemptionRow(c.redemption)] = s
<1> DEFINE c == command[s]
<1>1. CASE c.op = "request"
  <2>1. LockOrder(c) = <<WalletRow(c.user), ItemRow(c.item)>> BY <1>1, OrderOf
  <2> QED BY <1>1, <2>1 DEF HoldsAll
<1>2. CASE c.op \in {"approve", "reject"}
  <2>1. LockOrder(c) = <<RedemptionRow(c.redemption), WalletRow(c.user)>> BY <1>2, OrderOf
  <2> QED BY <1>2, <2>1 DEF HoldsAll
<1>3. CASE c.op = "fulfill"
  <2>1. LockOrder(c) = <<RedemptionRow(c.redemption)>> BY <1>3, OrderOf
  <2> QED BY <1>3, <2>1 DEF HoldsAll
<1>4. CASE c.op \in {"grant", "reverse", "adjust"}
  <2>1. LockOrder(c) = <<WalletRow(c.user)>> BY <1>4, OrderOf
  <2> QED BY <1>4, <2>1 DEF HoldsAll
<1>5. CASE c.op \in {"update", "disable"}
  <2>1. LockOrder(c) = <<ItemRow(c.item)>> BY <1>5, OrderOf
  <2> QED BY <1>5, <2>1 DEF HoldsAll
<1> QED BY <1>1, <1>2, <1>3, <1>4, <1>5

\* What the next lock of a command can be, and what is held by then.
LEMMA Waits ==
    ASSUME NEW s \in Sessions, NEW row, WaitsFor(s, row), command[s] \in Commands
    PROVE  LET c == command[s] IN
           \/ /\ c.op \in {"request", "grant", "reverse", "adjust"}
              /\ row = WalletRow(c.user) /\ lock[row] # s
           \/ /\ c.op = "request" /\ row = ItemRow(c.item) /\ lock[row] # s
              /\ lock[WalletRow(c.user)] = s
           \/ /\ c.op \in {"approve", "reject"} /\ row = WalletRow(c.user) /\ lock[row] # s
              /\ lock[RedemptionRow(c.redemption)] = s
           \/ /\ c.op \in {"approve", "reject", "fulfill"}
              /\ row = RedemptionRow(c.redemption) /\ lock[row] # s
           \/ /\ c.op \in {"update", "disable"} /\ row = ItemRow(c.item) /\ lock[row] # s
<1> DEFINE c == command[s]
<1>1. CASE c.op = "request"
  <2>1. LockOrder(c) = <<WalletRow(c.user), ItemRow(c.item)>> BY <1>1, OrderOf
  <2> QED BY <1>1, <2>1 DEF WaitsFor
<1>2. CASE c.op \in {"approve", "reject"}
  <2>1. LockOrder(c) = <<RedemptionRow(c.redemption), WalletRow(c.user)>> BY <1>2, OrderOf
  <2> QED BY <1>2, <2>1 DEF WaitsFor
<1>3. CASE c.op = "fulfill"
  <2>1. LockOrder(c) = <<RedemptionRow(c.redemption)>> BY <1>3, OrderOf
  <2> QED BY <1>3, <2>1 DEF WaitsFor
<1>4. CASE c.op \in {"grant", "reverse", "adjust"}
  <2>1. LockOrder(c) = <<WalletRow(c.user)>> BY <1>4, OrderOf
  <2> QED BY <1>4, <2>1 DEF WaitsFor
<1>5. CASE c.op \in {"update", "disable"}
  <2>1. LockOrder(c) = <<ItemRow(c.item)>> BY <1>5, OrderOf
  <2> QED BY <1>5, <2>1 DEF WaitsFor
<1>6. CASE c.op = "idle"
  <2>1. LockOrder(c) = <<>> BY <1>6, OrderOf
  <2> QED BY <1>6, <2>1 DEF WaitsFor
<1>7. c.op \in {"request", "approve", "reject", "fulfill", "grant", "reverse", "adjust",
              "update", "disable", "idle"}
  BY DEF Commands, Idle
<1> QED BY <1>1, <1>2, <1>3, <1>4, <1>5, <1>6, <1>7

-----------------------------------------------------------------------------
(* The invariant.                                                          *)

\* Who holds a lock, and what a command holds from its beginning.
LocksMatch ==
    \A s \in Sessions :
        LET c == command[s] IN
        /\ \A u \in Students : lock[WalletRow(u)] = s =>
               /\ c.op \in {"request", "approve", "reject", "grant", "reverse", "adjust"}
               /\ c.user = u
        /\ \A i \in Items : lock[ItemRow(i)] = s =>
               /\ c.op \in {"request", "update", "disable"} /\ c.item = i
               /\ c.op = "request" => lock[WalletRow(c.user)] = s
               /\ items[i] # NoItem
        /\ \A r \in Redemptions : lock[RedemptionRow(r)] = s =>
               c.op \in {"approve", "reject", "fulfill"} /\ c.redemption = r
        /\ c.op \in {"update", "disable"} => lock[ItemRow(c.item)] = s
        /\ c.op \in {"approve", "reject", "fulfill"} => lock[RedemptionRow(c.redemption)] = s

\* What a session has read is what the rows it has locked hold.
Fresh(s) ==
    LET c == command[s] IN
    /\ \A u \in Students : lock[WalletRow(u)] = s => seen[s].wallet = wallet[u]
    /\ \A i \in Items : lock[ItemRow(i)] = s => seen[s].item = items[i]
    /\ \A r \in Redemptions : lock[RedemptionRow(r)] = s =>
           seen[s].redemption = redemptions[r]
    /\ c.op \in {"approve", "reject"} /\ lock[WalletRow(c.user)] = s =>
           seen[s].redemption.status = "REQUESTED"
    /\ c.op = "request" /\ lock[ItemRow(c.item)] = s => seen[s].frozen = Frozen(c.user)

ReadsFresh == \A s \in Sessions : Fresh(s)

\* What a command says was true when it began and stays true.
Sound(s) ==
    LET c == command[s] IN
    /\ c.op \in {"approve", "reject", "fulfill"} =>
           /\ redemptions[c.redemption].status # "NONE"
           /\ redemptions[c.redemption].user = c.user
    /\ c.op = "grant" =>
           \E k \in Claims : /\ c.key = Reward(k) /\ c.user = ClaimUser[k]
                             /\ c.amount = ClaimReward[k]
    /\ c.op = "reverse" =>
           \E k \in Claims : /\ c.key = Reversal(k) /\ c.user = ClaimUser[k]
                             /\ c.amount = -ClaimReward[k]
                             /\ ledger[Reward(k)] # NoEntry
    /\ c.op = "adjust" =>
           \E o \in Operations : c.key = Adjustment(o) /\ c.amount \in Adjustments

CommandsSound == \A s \in Sessions : Sound(s)

RewardsExact ==
    \A k \in Claims : ledger[Reward(k)] # NoEntry =>
        ledger[Reward(k)] = [user |-> ClaimUser[k], amount |-> ClaimReward[k]]

PointsInv ==
    /\ TypeOK /\ LocksMatch /\ ReadsFresh /\ CommandsSound
    /\ ChargedExactlyOnce /\ ReversalCancelsReward /\ RewardsExact

-----------------------------------------------------------------------------
(* Types.                                                                  *)

LEMMA CommandFields ==
    ASSUME NEW c \in Commands
    PROVE  /\ c.op \in {"request", "approve", "reject", "fulfill", "grant", "reverse", "adjust",
                        "update", "disable", "idle"}
           /\ c.op = "request" => c.user \in Students /\ c.item \in Items /\ c.term \in Terms
           /\ c.op \in {"approve", "reject", "fulfill"} =>
                  c.redemption \in Redemptions /\ c.user \in Students
           /\ c.op \in {"grant", "reverse", "adjust"} =>
                  c.key \in Postings /\ c.user \in Students /\ c.amount \in Int \ {0}
           /\ c.op \in {"update", "disable"} => c.item \in Items
           /\ c.op = "update" => c.offer \in Offers
           /\ c.op = "idle" => c = Idle
BY DEF Commands, Idle

LEMMA RowTypes ==
    /\ \A u \in Students : WalletRow(u) \in Rows
    /\ \A i \in Items : ItemRow(i) \in Rows
    /\ \A r \in Redemptions : RedemptionRow(r) \in Rows
BY DEF Rows

LEMMA KeyTypes ==
    /\ \A c \in Claims : /\ Reward(c) \in Postings /\ Reward(c) \in EntryKeys
                         /\ Reversal(c) \in Postings /\ Reversal(c) \in EntryKeys
    /\ \A r \in Redemptions : Charge(r) \in EntryKeys
    /\ \A o \in Operations : Adjustment(o) \in Postings /\ Adjustment(o) \in EntryKeys
    /\ Postings \subseteq EntryKeys
BY DEF Postings, EntryKeys

LEMMA EmptyTypes ==
    /\ NoEntry \in Entry /\ NoWallet \in Wallets /\ NoItem \in Shelf
    /\ NoRedemption \in Requests /\ NothingSeen \in Readings /\ Idle \in Commands
BY DEF NoEntry, Entry, NoWallet, Wallets, NoItem, Shelf, NoRedemption, Requests, NothingSeen,
       Readings, Idle, Commands

LEMMA FinishTypes ==
    ASSUME TypeOK, NEW s \in Sessions, Finish(s)
    PROVE  /\ command' \in [Sessions -> Commands]
           /\ seen' \in [Sessions -> Readings]
           /\ lock' \in [Rows -> Sessions \cup {Null}]
BY EmptyTypes DEF TypeOK, Finish

LEMMA BeginTypes ==
    ASSUME TypeOK, NEW s \in Sessions, NEW c \in Commands, Begin(s, c)
    PROVE  TypeOK'
BY DEF TypeOK, Begin, tables

LEMMA PostEntryTypes ==
    ASSUME TypeOK, NEW s \in Sessions, NEW k \in EntryKeys, NEW u \in Students,
           NEW amount \in Int \ {0}, NEW ranks \in BOOLEAN, PostEntry(s, k, u, amount, ranks)
    PROVE  /\ ledger' \in [EntryKeys -> Entry]
           /\ wallet' \in [Students -> Wallets]
<1>1. [user |-> u, amount |-> amount] \in Entry BY DEF Entry
<1>2. seen[s].wallet.available \in Int /\ seen[s].wallet.earned \in Nat
  BY DEF TypeOK, Readings, Wallets
<1>3. seen[s].wallet.earned + (IF ranks /\ amount > 0 THEN amount ELSE 0) \in Nat
  BY <1>2
<1> QED BY <1>1, <1>2, <1>3 DEF TypeOK, PostEntry, Wallets

LEMMA CountTypes ==
    /\ \A i : Occupied(i) \in Nat
    /\ \A u, i, t : Used(u, i, t) \in Nat
<1>1. ASSUME NEW S \in SUBSET Redemptions PROVE Cardinality(S) \in Nat
  BY PointsAssumption, FS_Subset, FS_CardinalityType
<1>2. ASSUME NEW i PROVE Occupied(i) \in Nat BY <1>1 DEF Occupied
<1>3. ASSUME NEW u, NEW i, NEW t PROVE Used(u, i, t) \in Nat BY <1>1 DEF Used
<1> QED BY <1>2, <1>3

\* What a decision that holds its locks has read of its redemption.
LEMMA DecidedRow ==
    ASSUME PointsInv, NEW s \in Sessions, HoldsAll(s),
           command[s].op \in {"approve", "reject", "fulfill"}
    PROVE  LET r == command[s].redemption IN
           /\ r \in Redemptions /\ command[s].user \in Students
           /\ seen[s].redemption = redemptions[r]
           /\ redemptions[r] \in Requests \ {NoRedemption}
           /\ redemptions[r].user = command[s].user
           /\ redemptions[r].points \in Nat \ {0}
           /\ command[s].op # "fulfill" => redemptions[r].status = "REQUESTED"
<1> DEFINE r == command[s].redemption
<1>1. r \in Redemptions /\ command[s].user \in Students
  BY CommandFields DEF PointsInv, TypeOK
<1>2. lock[RedemptionRow(r)] = s
  BY DEF PointsInv, LocksMatch
<1>3. seen[s].redemption = redemptions[r]
  BY <1>1, <1>2 DEF PointsInv, ReadsFresh, Fresh
<1>4. redemptions[r].status # "NONE" /\ redemptions[r].user = command[s].user
  BY DEF PointsInv, CommandsSound, Sound
<1>5. redemptions[r] \in Requests BY <1>1 DEF PointsInv, TypeOK
<1>6. redemptions[r] # NoRedemption BY <1>4 DEF NoRedemption
<1>7. redemptions[r].points \in Nat \ {0} BY <1>5, <1>6 DEF Requests
<1>8. command[s].op # "fulfill" => lock[WalletRow(command[s].user)] = s
  BY Holds
<1>9. command[s].op # "fulfill" => seen[s].redemption.status = "REQUESTED"
  BY <1>8 DEF PointsInv, ReadsFresh, Fresh
<1> QED BY <1>1, <1>3, <1>4, <1>5, <1>6, <1>7, <1>9

\* What a request that holds its locks has read of its item.
LEMMA OfferRead ==
    ASSUME PointsInv, NEW s \in Sessions, HoldsAll(s), command[s].op = "request"
    PROVE  LET i == command[s].item IN
           /\ i \in Items /\ command[s].user \in Students /\ command[s].term \in Terms
           /\ seen[s].item = items[i] /\ seen[s].wallet = wallet[command[s].user]
           /\ seen[s].frozen = Frozen(command[s].user)
           /\ seen[s].item.offer \in Offers /\ seen[s].item.offer.cost \in Nat \ {0}
<1> DEFINE i == command[s].item
<1>1. i \in Items /\ command[s].user \in Students /\ command[s].term \in Terms
  BY CommandFields DEF PointsInv, TypeOK
<1>2. lock[ItemRow(i)] = s /\ lock[WalletRow(command[s].user)] = s BY Holds
<1>3. seen[s].item = items[i] /\ seen[s].wallet = wallet[command[s].user]
  BY <1>1, <1>2 DEF PointsInv, ReadsFresh, Fresh
<1>4. seen[s].frozen = Frozen(command[s].user) BY <1>2 DEF PointsInv, ReadsFresh, Fresh
<1>5. items[i] \in Shelf /\ items[i] # NoItem
  BY <1>1, <1>2 DEF PointsInv, TypeOK, LocksMatch
<1>6. items[i].offer \in Offers BY <1>5 DEF Shelf
<1>7. items[i].offer.cost \in Nat \ {0} BY <1>6, PointsAssumption
<1> QED BY <1>1, <1>3, <1>4, <1>6, <1>7

\* What a ledger write that holds its lock posts.
LEMMA Posted ==
    ASSUME PointsInv, NEW s \in Sessions, HoldsAll(s),
           command[s].op \in {"grant", "reverse", "adjust"}
    PROVE  LET c == command[s] IN
           /\ c.key \in Postings /\ c.key \in EntryKeys /\ c.user \in Students
           /\ c.amount \in Int \ {0}
           /\ lock[WalletRow(c.user)] = s /\ seen[s].wallet = wallet[c.user]
<1> DEFINE c == command[s]
<1>1. c.key \in Postings /\ c.user \in Students /\ c.amount \in Int \ {0}
  BY CommandFields DEF PointsInv, TypeOK
<1>2. lock[WalletRow(c.user)] = s BY Holds
<1>3. seen[s].wallet = wallet[c.user] BY <1>1, <1>2 DEF PointsInv, ReadsFresh, Fresh
<1> QED BY <1>1, <1>2, <1>3, KeyTypes

LEMMA TypeStep ==
    ASSUME PointsInv, Next
    PROVE  TypeOK'
<1> USE EmptyTypes
<1>1. ASSUME NEW s \in Sessions, BeginAny(s) PROVE TypeOK'
  <2>1. ASSUME NEW u \in Students, NEW i \in Items, BeginRequest(s, u, i) PROVE TypeOK'
    <3>1. [op |-> "request", user |-> u, item |-> i, term |-> term] \in Commands
      BY DEF PointsInv, TypeOK, Commands
    <3> QED BY <2>1, <3>1, BeginTypes DEF BeginRequest, PointsInv
  <2>2. ASSUME NEW op \in {"approve", "reject", "fulfill"}, NEW r \in Redemptions,
               BeginDecision(s, op, r)
        PROVE  TypeOK'
    <3>1. redemptions[r] \in Requests /\ redemptions[r] # NoRedemption
      BY <2>2 DEF BeginDecision, PointsInv, TypeOK, NoRedemption
    <3>2. [op |-> op, redemption |-> r, user |-> redemptions[r].user] \in Commands
      BY <3>1 DEF Commands, Requests
    <3> QED BY <2>2, <3>1, <3>2 DEF BeginDecision, BeginLocked, PointsInv, TypeOK, tables, Readings
  <2>3. ASSUME NEW c \in Claims, BeginGrant(s, c) PROVE TypeOK'
    <3>1. [op |-> "grant", key |-> Reward(c), user |-> ClaimUser[c], amount |-> ClaimReward[c]]
              \in Commands
      BY PointsAssumption, KeyTypes DEF Commands
    <3> QED BY <2>3, <3>1, BeginTypes DEF BeginGrant, PointsInv
  <2>4. ASSUME NEW c \in Claims, BeginReversal(s, c) PROVE TypeOK'
    <3> DEFINE original == ledger[Reward(c)]
    <3>1. original = [user |-> ClaimUser[c], amount |-> ClaimReward[c]]
      BY <2>4 DEF BeginReversal, PointsInv, RewardsExact
    <3>2. original.user \in Students /\ -original.amount \in Int \ {0}
      BY <3>1, PointsAssumption
    <3> HIDE DEF original
    <3>3. [op |-> "reverse", key |-> Reversal(c), user |-> original.user,
           amount |-> -original.amount] \in Commands
      BY <3>2, KeyTypes DEF Commands
    <3> QED BY <2>4, <3>3, BeginTypes DEF BeginReversal, PointsInv, original
  <2>5. ASSUME NEW o \in Operations, NEW u \in Adjustable, NEW amount \in Adjustments,
               BeginAdjustment(s, o, u, amount)
        PROVE  TypeOK'
    <3>1. [op |-> "adjust", key |-> Adjustment(o), user |-> u, amount |-> amount] \in Commands
      BY PointsAssumption, KeyTypes DEF Commands
    <3> QED BY <2>5, <3>1, BeginTypes DEF BeginAdjustment, PointsInv
  <2>6. ASSUME NEW i \in Items, NEW offer \in Offers, BeginUpdate(s, i, offer) PROVE TypeOK'
    <3>1. [op |-> "update", item |-> i, offer |-> offer] \in Commands BY DEF Commands
    <3> QED BY <2>6, <3>1 DEF BeginUpdate, BeginLocked, PointsInv, TypeOK, tables, Readings
  <2>7. ASSUME NEW i \in Items, BeginDisable(s, i) PROVE TypeOK'
    <3>1. [op |-> "disable", item |-> i] \in Commands BY DEF Commands
    <3> QED BY <2>7, <3>1 DEF BeginDisable, BeginLocked, PointsInv, TypeOK, tables, Readings
  <2> QED BY <1>1, <2>1, <2>2, <2>3, <2>4, <2>5, <2>6, <2>7 DEF BeginAny
<1>2. ASSUME NEW s \in Sessions, LockAny(s) PROVE TypeOK'
  <2>1. ASSUME NEW u \in Students, LockWallet(s, u) PROVE TypeOK'
    BY <2>1 DEF LockWallet, Take, PointsInv, TypeOK, tables, Readings
  <2>2. ASSUME NEW i \in Items, LockItem(s, i) PROVE TypeOK'
    <3>1. Frozen(command[s].user) \in SUBSET Redemptions BY DEF Frozen
    <3> QED BY <2>2, <3>1, CountTypes DEF LockItem, Take, PointsInv, TypeOK, tables, Readings
  <2> QED BY <1>2, <2>1, <2>2 DEF LockAny
<1>3. ASSUME NEW s \in Sessions, CommitAny(s) PROVE TypeOK'
  <2>1. ASSUME NEW r \in Redemptions, RequestRedemption(s, r) PROVE TypeOK'
    <3> DEFINE c   == command[s]
               row == [status |-> "REQUESTED", user |-> c.user, item |-> c.item, term |-> c.term,
                       points |-> seen[s].item.offer.cost]
    <3>1. row \in Requests BY <2>1, OfferRead DEF RequestRedemption, Requests
    <3>2. redemptions' \in [Redemptions -> Requests]
      BY <2>1, <3>1 DEF RequestRedemption, PointsInv, TypeOK
    <3> QED BY <2>1, <3>2, FinishTypes DEF RequestRedemption, PointsInv, TypeOK
  <2>2. CASE ApproveRedemption(s)
    <3> DEFINE c == command[s]
    <3>1. /\ c.redemption \in Redemptions /\ c.user \in Students
          /\ redemptions[c.redemption] \in Requests \ {NoRedemption}
          /\ -seen[s].redemption.points \in Int \ {0}
      BY <2>2, DecidedRow DEF ApproveRedemption
    <3>2. ledger' \in [EntryKeys -> Entry] /\ wallet' \in [Students -> Wallets]
      BY <2>2, <3>1, KeyTypes, PostEntryTypes DEF ApproveRedemption, PointsInv
    <3>3. redemptions' \in [Redemptions -> Requests]
      BY <2>2, <3>1 DEF ApproveRedemption, PointsInv, TypeOK, Requests
    <3> QED BY <2>2, <3>1, <3>2, <3>3, FinishTypes DEF ApproveRedemption, PointsInv, TypeOK
  <2>3. CASE RejectRedemption(s)
    <3> DEFINE c == command[s]
    <3>1. /\ c.redemption \in Redemptions
          /\ redemptions[c.redemption] \in Requests \ {NoRedemption}
      BY <2>3, DecidedRow DEF RejectRedemption
    <3>2. redemptions' \in [Redemptions -> Requests]
      BY <2>3, <3>1 DEF RejectRedemption, PointsInv, TypeOK, Requests
    <3> QED BY <2>3, <3>1, <3>2, FinishTypes DEF RejectRedemption, PointsInv, TypeOK
  <2>4. CASE FulfillRedemption(s)
    <3> DEFINE c == command[s]
    <3>1. /\ c.redemption \in Redemptions
          /\ redemptions[c.redemption] \in Requests \ {NoRedemption}
      BY <2>4, DecidedRow DEF FulfillRedemption
    <3>2. redemptions' \in [Redemptions -> Requests]
      BY <2>4, <3>1 DEF FulfillRedemption, PointsInv, TypeOK, Requests
    <3> QED BY <2>4, <3>1, <3>2, FinishTypes DEF FulfillRedemption, PointsInv, TypeOK
  <2>5. CASE GrantAssignmentReward(s)
    <3>1. ledger' \in [EntryKeys -> Entry] /\ wallet' \in [Students -> Wallets]
      BY <2>5, Posted, PostEntryTypes DEF GrantAssignmentReward, PointsInv
    <3> QED BY <2>5, <3>1, FinishTypes DEF GrantAssignmentReward, PointsInv, TypeOK
  <2>6. CASE ReverseAssignmentReward(s)
    <3>1. ledger' \in [EntryKeys -> Entry] /\ wallet' \in [Students -> Wallets]
      BY <2>6, Posted, PostEntryTypes DEF ReverseAssignmentReward, PointsInv
    <3> QED BY <2>6, <3>1, FinishTypes DEF ReverseAssignmentReward, PointsInv, TypeOK
  <2>7. CASE AdminAdjustPoints(s)
    <3>1. ledger' \in [EntryKeys -> Entry] /\ wallet' \in [Students -> Wallets]
      BY <2>7, Posted, PostEntryTypes DEF AdminAdjustPoints, PointsInv
    <3> QED BY <2>7, <3>1, FinishTypes DEF AdminAdjustPoints, PointsInv, TypeOK
  <2>8. CASE UpdateRewardItem(s)
    <3> DEFINE c == command[s]
    <3>1. c.item \in Items /\ c.offer \in Offers /\ items[c.item] \in Shelf \ {NoItem}
      BY <2>8, CommandFields DEF UpdateRewardItem, PointsInv, TypeOK, LocksMatch
    <3>2. items' \in [Items -> Shelf]
      BY <2>8, <3>1 DEF UpdateRewardItem, PointsInv, TypeOK, Shelf
    <3> QED BY <2>8, <3>2, FinishTypes DEF UpdateRewardItem, PointsInv, TypeOK
  <2>9. CASE DisableRewardItem(s)
    <3> DEFINE c == command[s]
    <3>1. c.item \in Items /\ items[c.item] \in Shelf \ {NoItem}
      BY <2>9, CommandFields DEF DisableRewardItem, PointsInv, TypeOK, LocksMatch
    <3>2. items' \in [Items -> Shelf]
      BY <2>9, <3>1 DEF DisableRewardItem, PointsInv, TypeOK, Shelf
    <3> QED BY <2>9, <3>2, FinishTypes DEF DisableRewardItem, PointsInv, TypeOK
  <2> QED BY <1>3, <2>1, <2>2, <2>3, <2>4, <2>5, <2>6, <2>7, <2>8, <2>9 DEF CommitAny
<1>4. ASSUME NEW s \in Sessions, Rollback(s) PROVE TypeOK'
  BY <1>4, FinishTypes DEF Rollback, PointsInv, TypeOK, tables
<1>5. ASSUME NEW i \in Items, NEW offer \in Offers, CreateRewardItem(i, offer) PROVE TypeOK'
  BY <1>5 DEF CreateRewardItem, PointsInv, TypeOK, Shelf
<1>6. ASSUME NEW t \in Terms, SwitchTerm(t) PROVE TypeOK'
  BY <1>6 DEF SwitchTerm, PointsInv, TypeOK
<1> QED BY <1>1, <1>2, <1>3, <1>4, <1>5, <1>6 DEF Next

-----------------------------------------------------------------------------
(* What the kinds of step change.                                          *)

Unlocked(s) ==
    \/ \E u \in Students, i \in Items : BeginRequest(s, u, i)
    \/ \E c \in Claims : BeginGrant(s, c) \/ BeginReversal(s, c)
    \/ \E o \in Operations, u \in Adjustable, amount \in Adjustments :
           BeginAdjustment(s, o, u, amount)

\* A begin without a lock sets a command and nothing else.
LEMMA UnlockedBegins ==
    ASSUME NEW s \in Sessions, Unlocked(s)
    PROVE  /\ command[s] = Idle /\ UNCHANGED <<tables, seen, lock>>
           /\ \E c : /\ command' = [command EXCEPT ![s] = c]
                     /\ c.op \in {"request", "grant", "reverse", "adjust"}
<1> DEFINE Begins(c) == Begin(s, c) /\ c.op \in {"request", "grant", "reverse", "adjust"}
<1>1. ASSUME NEW u \in Students, NEW i \in Items, BeginRequest(s, u, i) PROVE \E c : Begins(c)
  <2>1. Begins([op |-> "request", user |-> u, item |-> i, term |-> term])
    BY <1>1 DEF BeginRequest
  <2> QED BY <2>1
<1>2. ASSUME NEW c \in Claims, BeginGrant(s, c) PROVE \E d : Begins(d)
  <2>1. Begins([op |-> "grant", key |-> Reward(c), user |-> ClaimUser[c],
                amount |-> ClaimReward[c]])
    BY <1>2 DEF BeginGrant
  <2> QED BY <2>1
<1>3. ASSUME NEW c \in Claims, BeginReversal(s, c) PROVE \E d : Begins(d)
  <2>1. Begins([op |-> "reverse", key |-> Reversal(c), user |-> ledger[Reward(c)].user,
                amount |-> -ledger[Reward(c)].amount])
    BY <1>3 DEF BeginReversal
  <2> QED BY <2>1
<1>4. ASSUME NEW o \in Operations, NEW u \in Adjustable, NEW amount \in Adjustments,
             BeginAdjustment(s, o, u, amount)
      PROVE  \E c : Begins(c)
  <2>1. Begins([op |-> "adjust", key |-> Adjustment(o), user |-> u, amount |-> amount])
    BY <1>4 DEF BeginAdjustment
  <2> QED BY <2>1
<1>5. \E c : Begins(c) BY <1>1, <1>2, <1>3, <1>4 DEF Unlocked
<1> QED BY <1>5 DEF Begin

\* An idle session holds no lock.
LEMMA IdleHoldsNothing ==
    ASSUME PointsInv, NEW s \in Sessions, command[s] = Idle
    PROVE  /\ \A u \in Students : lock[WalletRow(u)] # s
           /\ \A i \in Items : lock[ItemRow(i)] # s
           /\ \A r \in Redemptions : lock[RedemptionRow(r)] # s
BY DEF PointsInv, LocksMatch, Idle

LEMMA FinishLocks ==
    ASSUME PointsInv, NEW s \in Sessions, Finish(s)
    PROVE  /\ command'[s] = Idle
           /\ \A t \in Sessions \ {s} : command'[t] = command[t] /\ seen'[t] = seen[t]
           /\ \A row \in Rows : /\ lock[row] = s => lock'[row] = Null
                                /\ lock[row] # s => lock'[row] = lock[row]
BY DEF PointsInv, TypeOK, Finish

\* A commit writes only what its session has locked, or a new redemption.
LEMMA CommitWrites ==
    ASSUME PointsInv, NEW s \in Sessions, CommitAny(s) \/ Rollback(s)
    PROVE  /\ Finish(s)
           /\ \A u \in Students : wallet'[u] = wallet[u] \/ lock[WalletRow(u)] = s
           /\ \A i \in Items : /\ items'[i] = items[i] \/ lock[ItemRow(i)] = s
                               /\ items[i] # NoItem => items'[i] # NoItem
           /\ \A r \in Redemptions :
                 \/ redemptions'[r] = redemptions[r] /\ reservation'[r] = reservation[r]
                 \/ lock[RedemptionRow(r)] = s
                 \/ redemptions[r].status = "NONE" /\ redemptions'[r].status = "REQUESTED"
           /\ \A r \in Redemptions :
                 redemptions[r].status # "NONE" => redemptions'[r].status # "NONE"
                                                   /\ redemptions'[r].user = redemptions[r].user
           /\ \A k \in EntryKeys : ledger[k] # NoEntry => ledger'[k] = ledger[k]
<1>1. ASSUME NEW r \in Redemptions, RequestRedemption(s, r)
      PROVE  /\ Finish(s) /\ UNCHANGED <<ledger, wallet, items>>
             /\ redemptions[r].status = "NONE" /\ redemptions'[r].status = "REQUESTED"
             /\ \A q \in Redemptions \ {r} :
                    redemptions'[q] = redemptions[q] /\ reservation'[q] = reservation[q]
  BY <1>1 DEF RequestRedemption, PointsInv, TypeOK
<1>2. ASSUME ApproveRedemption(s) \/ RejectRedemption(s) \/ FulfillRedemption(s)
      PROVE  LET r == command[s].redemption IN
             /\ Finish(s) /\ UNCHANGED items
             /\ r \in Redemptions /\ lock[RedemptionRow(r)] = s
             /\ \A q \in Redemptions \ {r} :
                    redemptions'[q] = redemptions[q] /\ reservation'[q] = reservation[q]
             /\ redemptions'[r].status # "NONE" /\ redemptions'[r].user = redemptions[r].user
  <2> DEFINE r == command[s].redemption
  <2>1. /\ r \in Redemptions /\ lock[RedemptionRow(r)] = s
        /\ redemptions[r] \in Requests \ {NoRedemption}
    BY <1>2, DecidedRow, Holds DEF ApproveRedemption, RejectRedemption, FulfillRedemption
  <2>2. \E status \in {"APPROVED", "REJECTED", "FULFILLED"} :
            redemptions' = [redemptions EXCEPT ![r].status = status]
    BY <1>2 DEF ApproveRedemption, RejectRedemption, FulfillRedemption
  <2>3. redemptions'[r].status # "NONE" /\ redemptions'[r].user = redemptions[r].user
    BY <2>1, <2>2 DEF PointsInv, TypeOK, Requests
  <2>4. \A q \in Redemptions \ {r} :
            redemptions'[q] = redemptions[q] /\ reservation'[q] = reservation[q]
    BY <1>2, <2>2 DEF ApproveRedemption, RejectRedemption, FulfillRedemption, PointsInv, TypeOK
  <2>5. Finish(s) /\ UNCHANGED items
    BY <1>2 DEF ApproveRedemption, RejectRedemption, FulfillRedemption
  <2> QED BY <2>1, <2>3, <2>4, <2>5
<1>3. ASSUME GrantAssignmentReward(s) \/ ReverseAssignmentReward(s) \/ AdminAdjustPoints(s)
      PROVE  Finish(s) /\ UNCHANGED <<items, redemptions, reservation>>
  BY <1>3 DEF GrantAssignmentReward, ReverseAssignmentReward, AdminAdjustPoints
<1>4. ASSUME UpdateRewardItem(s) \/ DisableRewardItem(s)
      PROVE  /\ Finish(s) /\ UNCHANGED <<ledger, wallet, redemptions, reservation>>
             /\ \A i \in Items : /\ items'[i] = items[i] \/ lock[ItemRow(i)] = s
                                 /\ items[i] # NoItem => items'[i] # NoItem
  <2> DEFINE i == command[s].item
  <2>1. i \in Items /\ lock[ItemRow(i)] = s /\ items[i] \in Shelf \ {NoItem}
    BY <1>4, Holds, CommandFields DEF UpdateRewardItem, DisableRewardItem, PointsInv, TypeOK,
       LocksMatch
  <2>2. items'[i] # NoItem
    BY <1>4, <2>1 DEF UpdateRewardItem, DisableRewardItem, PointsInv, TypeOK, Shelf, NoItem
  <2> QED BY <1>4, <2>1, <2>2 DEF UpdateRewardItem, DisableRewardItem, PointsInv, TypeOK
<1>5. ASSUME Rollback(s) PROVE Finish(s) /\ UNCHANGED tables
  BY <1>5 DEF Rollback
<1>6. \A u \in Students : wallet'[u] = wallet[u] \/ lock[WalletRow(u)] = s
  <2>1. ASSUME NEW u \in Students, NEW k, NEW v \in Students, NEW n, NEW ranks,
               PostEntry(s, k, v, n, ranks), lock[WalletRow(v)] = s
        PROVE  wallet'[u] = wallet[u] \/ lock[WalletRow(u)] = s
    BY <2>1 DEF PostEntry, PointsInv, TypeOK
  <2>2. ASSUME ApproveRedemption(s)
        PROVE  \A u \in Students : wallet'[u] = wallet[u] \/ lock[WalletRow(u)] = s
    BY <2>1, <2>2, DecidedRow, Holds DEF ApproveRedemption
  <2>3. ASSUME GrantAssignmentReward(s) \/ ReverseAssignmentReward(s) \/ AdminAdjustPoints(s)
        PROVE  \A u \in Students : wallet'[u] = wallet[u] \/ lock[WalletRow(u)] = s
    BY <2>1, <2>3, Posted DEF GrantAssignmentReward, ReverseAssignmentReward, AdminAdjustPoints
  <2>4. ASSUME RejectRedemption(s) \/ FulfillRedemption(s) PROVE UNCHANGED wallet
    BY <2>4 DEF RejectRedemption, FulfillRedemption
  <2> QED BY <1>1, <1>4, <1>5, <2>2, <2>3, <2>4 DEF CommitAny, tables
<1>7. \A k \in EntryKeys : ledger[k] # NoEntry => ledger'[k] = ledger[k]
  <2>1. ASSUME NEW k, NEW v, NEW n, NEW ranks, PostEntry(s, k, v, n, ranks)
        PROVE  \A j \in EntryKeys : ledger[j] # NoEntry => ledger'[j] = ledger[j]
    BY <2>1 DEF PostEntry, PointsInv, TypeOK
  <2>2. ASSUME RejectRedemption(s) \/ FulfillRedemption(s) PROVE UNCHANGED ledger
    BY <2>2 DEF RejectRedemption, FulfillRedemption
  <2> QED BY <1>1, <1>4, <1>5, <2>1, <2>2 DEF CommitAny, tables, ApproveRedemption,
             GrantAssignmentReward, ReverseAssignmentReward, AdminAdjustPoints
<1> QED BY <1>1, <1>2, <1>3, <1>4, <1>5, <1>6, <1>7 DEF CommitAny, tables

\* The frozen points of a student change under the student's wallet lock.
LEMMA FrozenWrites ==
    ASSUME PointsInv, NEW s \in Sessions, CommitAny(s) \/ Rollback(s), NEW u \in Students
    PROVE  Frozen(u)' = Frozen(u) \/ lock[WalletRow(u)] = s
<1> SUFFICES ASSUME lock[WalletRow(u)] # s PROVE Frozen(u)' = Frozen(u)
  OBVIOUS
<1> SUFFICES \A r \in Redemptions :
                 (redemptions'[r].user = u /\ reservation'[r] = "ACTIVE")
                     <=> (redemptions[r].user = u /\ reservation[r] = "ACTIVE")
  BY DEF Frozen
<1>1. ASSUME NEW r \in Redemptions, RequestRedemption(s, r)
      PROVE  \A q \in Redemptions :
                 (redemptions'[q].user = u /\ reservation'[q] = "ACTIVE")
                     <=> (redemptions[q].user = u /\ reservation[q] = "ACTIVE")
  <2>1. command[s].user # u BY <1>1, Holds DEF RequestRedemption
  <2>2. redemptions[r] = NoRedemption
    BY <1>1 DEF RequestRedemption, PointsInv, TypeOK, Requests
  <2>3. redemptions[r].user # u BY <2>2, PointsAssumption DEF NoRedemption
  <2> QED BY <1>1, <2>1, <2>3 DEF RequestRedemption, PointsInv, TypeOK
<1>2. ASSUME ApproveRedemption(s) \/ RejectRedemption(s)
      PROVE  \A q \in Redemptions :
                 (redemptions'[q].user = u /\ reservation'[q] = "ACTIVE")
                     <=> (redemptions[q].user = u /\ reservation[q] = "ACTIVE")
  <2> DEFINE r == command[s].redemption
  <2>1. /\ r \in Redemptions /\ command[s].user # u
        /\ redemptions[r].user = command[s].user /\ redemptions[r] \in Requests \ {NoRedemption}
    BY <1>2, Holds, DecidedRow DEF ApproveRedemption, RejectRedemption
  <2>2. \A q \in Redemptions \ {r} :
            redemptions'[q] = redemptions[q] /\ reservation'[q] = reservation[q]
    BY <1>2 DEF ApproveRedemption, RejectRedemption, PointsInv, TypeOK
  <2>3. redemptions'[r].user = redemptions[r].user
    BY <2>1, CommitWrites DEF Requests, NoRedemption
  <2> QED BY <2>1, <2>2, <2>3
<1>3. ASSUME FulfillRedemption(s)
      PROVE  \A q \in Redemptions :
                 (redemptions'[q].user = u /\ reservation'[q] = "ACTIVE")
                     <=> (redemptions[q].user = u /\ reservation[q] = "ACTIVE")
  BY <1>3 DEF FulfillRedemption, PointsInv, TypeOK
<1>4. ASSUME UNCHANGED <<redemptions, reservation>>
      PROVE  \A q \in Redemptions :
                 (redemptions'[q].user = u /\ reservation'[q] = "ACTIVE")
                     <=> (redemptions[q].user = u /\ reservation[q] = "ACTIVE")
  BY <1>4
<1> QED BY <1>1, <1>2, <1>3, <1>4 DEF CommitAny, Rollback, tables, GrantAssignmentReward,
           ReverseAssignmentReward, AdminAdjustPoints, UpdateRewardItem, DisableRewardItem

-----------------------------------------------------------------------------
(* The locks.                                                              *)

LEMMA LocksStep ==
    ASSUME PointsInv, Next
    PROVE  LocksMatch'
<1> USE RowTypes, RowsDiffer
<1>1. ASSUME NEW s \in Sessions, Unlocked(s) PROVE LocksMatch'
  BY <1>1, UnlockedBegins, IdleHoldsNothing DEF PointsInv, TypeOK, LocksMatch, tables
<1>2. ASSUME NEW s \in Sessions, NEW op \in {"approve", "reject", "fulfill"},
             NEW r \in Redemptions, BeginDecision(s, op, r)
      PROVE  LocksMatch'
  BY <1>2, IdleHoldsNothing, PointsAssumption
     DEF BeginDecision, BeginLocked, PointsInv, TypeOK, LocksMatch, tables
<1>3. ASSUME NEW s \in Sessions, NEW i \in Items, NEW c, c.op \in {"update", "disable"},
             c.item = i, items[i] # NoItem, BeginLocked(s, c, ItemRow(i))
      PROVE  LocksMatch'
  BY <1>3, IdleHoldsNothing, PointsAssumption DEF BeginLocked, PointsInv, TypeOK, LocksMatch, tables
<1>4. ASSUME NEW s \in Sessions, NEW u \in Students, LockWallet(s, u) PROVE LocksMatch'
  <2>1. /\ command[s].op \in {"request", "approve", "reject", "grant", "reverse", "adjust"}
        /\ command[s].user = u
    BY <1>4, Waits DEF LockWallet, Take, PointsInv, TypeOK
  <2> QED BY <1>4, <2>1, PointsAssumption DEF LockWallet, Take, PointsInv, TypeOK, LocksMatch, tables
<1>5. ASSUME NEW s \in Sessions, NEW i \in Items, LockItem(s, i) PROVE LocksMatch'
  <2>1. /\ command[s].op \in {"request", "update", "disable"} /\ command[s].item = i
        /\ command[s].op = "request" => lock[WalletRow(command[s].user)] = s
    BY <1>5, Waits DEF LockItem, Take, PointsInv, TypeOK
  <2> QED BY <1>5, <2>1, CommandFields, PointsAssumption
      DEF LockItem, Take, PointsInv, TypeOK, LocksMatch, tables
<1>6. ASSUME NEW s \in Sessions, CommitAny(s) \/ Rollback(s) PROVE LocksMatch'
  <2> SUFFICES ASSUME NEW t \in Sessions
               PROVE  LET c == command'[t] IN
                      /\ \A u \in Students : lock'[WalletRow(u)] = t =>
                             /\ c.op \in {"request", "approve", "reject", "grant", "reverse", "adjust"}
                             /\ c.user = u
                      /\ \A i \in Items : lock'[ItemRow(i)] = t =>
                             /\ c.op \in {"request", "update", "disable"} /\ c.item = i
                             /\ c.op = "request" => lock'[WalletRow(c.user)] = t
                             /\ items'[i] # NoItem
                      /\ \A r \in Redemptions : lock'[RedemptionRow(r)] = t =>
                             c.op \in {"approve", "reject", "fulfill"} /\ c.redemption = r
                      /\ c.op \in {"update", "disable"} => lock'[ItemRow(c.item)] = t
                      /\ c.op \in {"approve", "reject", "fulfill"} =>
                             lock'[RedemptionRow(c.redemption)] = t
    BY DEF LocksMatch
  <2>1. Finish(s) BY <1>6, CommitWrites
  <2>2. \A row \in Rows : lock'[row] = t => lock[row] = t /\ t # s
    BY <2>1, FinishLocks, PointsAssumption
  <2>3. CASE t = s
    <3>1. command'[t] = Idle BY <2>1, <2>3, FinishLocks
    <3> QED BY <2>2, <2>3, <3>1 DEF Idle
  <2>4. CASE t # s
    <3>1. command'[t] = command[t] BY <2>1, <2>4, FinishLocks
    <3>2. \A row \in Rows : lock[row] = t => lock'[row] = t BY <2>1, <2>4, FinishLocks
    <3>3. \A i \in Items : items[i] # NoItem => items'[i] # NoItem BY <1>6, CommitWrites
    <3>4. command[t] \in Commands BY DEF PointsInv, TypeOK
    <3> QED BY <2>2, <3>1, <3>2, <3>3, <3>4, CommandFields DEF PointsInv, LocksMatch
  <2> QED BY <2>3, <2>4
<1>7. ASSUME NEW i \in Items, NEW offer \in Offers, CreateRewardItem(i, offer) PROVE LocksMatch'
  <2>1. items'[i] # NoItem /\ \A j \in Items \ {i} : items'[j] = items[j]
    BY <1>7 DEF CreateRewardItem, PointsInv, TypeOK, NoItem
  <2> QED BY <1>7, <2>1 DEF CreateRewardItem, PointsInv, LocksMatch
<1>8. ASSUME NEW t \in Terms, SwitchTerm(t) PROVE LocksMatch'
  BY <1>8 DEF SwitchTerm, PointsInv, LocksMatch
<1>9. ASSUME NEW s \in Sessions, NEW i \in Items, BeginDisable(s, i) PROVE LocksMatch'
  BY <1>3, <1>9 DEF BeginDisable
<1>10. ASSUME NEW s \in Sessions, NEW i \in Items, NEW offer \in Offers, BeginUpdate(s, i, offer)
       PROVE  LocksMatch'
  BY <1>3, <1>10 DEF BeginUpdate
<1>11. ASSUME NEW s \in Sessions, BeginAny(s) PROVE LocksMatch'
  BY <1>1, <1>2, <1>9, <1>10, <1>11 DEF BeginAny, Unlocked
<1>12. ASSUME NEW s \in Sessions, LockAny(s) PROVE LocksMatch'
  BY <1>4, <1>5, <1>12 DEF LockAny
<1> QED BY <1>6, <1>7, <1>8, <1>11, <1>12 DEF Next

-----------------------------------------------------------------------------
(* What is read under a lock stays true.                                   *)

\* A session that neither reads nor locks, over rows it has not locked.
LEMMA StaysFresh ==
    ASSUME PointsInv, NEW t \in Sessions, command'[t] = command[t], seen'[t] = seen[t],
           \A row \in Rows : lock'[row] = t => lock[row] = t,
           \A u \in Students : lock[WalletRow(u)] = t =>
               wallet'[u] = wallet[u] /\ Frozen(u)' = Frozen(u),
           \A i \in Items : lock[ItemRow(i)] = t => items'[i] = items[i],
           \A r \in Redemptions : lock[RedemptionRow(r)] = t => redemptions'[r] = redemptions[r]
    PROVE  Fresh(t)'
<1> DEFINE c == command[t]
<1>1. c \in Commands BY DEF PointsInv, TypeOK
<1>2. ASSUME c.op = "request", lock[ItemRow(c.item)] = t
      PROVE  Frozen(c.user)' = Frozen(c.user)
  <2>1. c.item \in Items /\ c.user \in Students BY <1>1, <1>2, CommandFields
  <2>2. lock[WalletRow(c.user)] = t BY <1>2, <2>1 DEF PointsInv, LocksMatch
  <2> QED BY <2>1, <2>2
<1>3. c.op = "request" /\ lock'[ItemRow(c.item)] = t => seen'[t].frozen = Frozen(c.user)'
  BY <1>1, <1>2, CommandFields, RowTypes DEF PointsInv, ReadsFresh, Fresh
<1>4. c.op \in {"approve", "reject"} /\ lock'[WalletRow(c.user)] = t =>
          seen'[t].redemption.status = "REQUESTED"
  BY <1>1, CommandFields, RowTypes DEF PointsInv, ReadsFresh, Fresh
<1>5. Frozen(command[t].user)' = Frozen(c.user)'
  BY DEF Frozen
<1>6. /\ \A u \in Students : lock'[WalletRow(u)] = t => seen'[t].wallet = wallet'[u]
      /\ \A i \in Items : lock'[ItemRow(i)] = t => seen'[t].item = items'[i]
      /\ \A r \in Redemptions : lock'[RedemptionRow(r)] = t =>
             seen'[t].redemption = redemptions'[r]
  BY RowTypes DEF PointsInv, ReadsFresh, Fresh
<1> QED BY <1>3, <1>4, <1>6 DEF Fresh, Frozen

LEMMA FreshStep ==
    ASSUME PointsInv, Next
    PROVE  ReadsFresh'
<1> USE RowTypes, RowsDiffer
<1> SUFFICES ASSUME NEW t \in Sessions PROVE Fresh(t)'
  BY DEF ReadsFresh
<1>1. ASSUME NEW s \in Sessions, Unlocked(s) PROVE Fresh(t)'
  <2>1. command[s] = Idle /\ UNCHANGED <<tables, seen, lock>> BY <1>1, UnlockedBegins
  <2>2. \A u : Frozen(u)' = Frozen(u) BY <2>1 DEF Frozen, tables
  <2>3. CASE t # s
    <3>1. command'[t] = command[t] BY <1>1, <2>3, UnlockedBegins DEF PointsInv, TypeOK
    <3> QED BY <2>1, <2>2, <3>1, StaysFresh DEF tables
  <2>4. CASE t = s
    <3>1. command'[t].op \in {"request", "grant", "reverse", "adjust"}
      BY <1>1, <2>4, UnlockedBegins DEF PointsInv, TypeOK
    <3>2. command'[t] \in Commands
      BY <1>1, TypeStep DEF TypeOK
    <3>3. /\ \A u \in Students : lock'[WalletRow(u)] # t
          /\ \A i \in Items : lock'[ItemRow(i)] # t
          /\ \A r \in Redemptions : lock'[RedemptionRow(r)] # t
      BY <2>1, <2>4, IdleHoldsNothing
    <3> QED BY <3>1, <3>2, <3>3, CommandFields DEF Fresh
  <2> QED BY <2>3, <2>4
<1>2. ASSUME NEW s \in Sessions, s # t, NEW row \in Rows, lock' = [lock EXCEPT ![row] = s],
             command'[t] = command[t], seen'[t] = seen[t], UNCHANGED tables
      PROVE  Fresh(t)'
  <2>1. \A q \in Rows : lock'[q] = t => lock[q] = t BY <1>2 DEF PointsInv, TypeOK
  <2>2. \A u : Frozen(u)' = Frozen(u) BY <1>2 DEF Frozen, tables
  <2> QED BY <1>2, <2>1, <2>2, StaysFresh DEF tables
<1>3. ASSUME NEW s \in Sessions, NEW op \in {"approve", "reject", "fulfill"},
             NEW r \in Redemptions, BeginDecision(s, op, r)
      PROVE  Fresh(t)'
  <2>1. CASE t # s
    BY <1>2, <1>3, <2>1 DEF BeginDecision, BeginLocked, PointsInv, TypeOK
  <2>2. CASE t = s
    <3> DEFINE c == [op |-> op, redemption |-> r, user |-> redemptions[r].user]
    <3>1. command'[t] = c /\ seen'[t].redemption = redemptions[r]
      BY <1>3, <2>2 DEF BeginDecision, BeginLocked, PointsInv, TypeOK, Readings
    <3>2. \A row \in Rows : lock'[row] = t <=> lock[row] = t \/ row = RedemptionRow(r)
      BY <1>3, <2>2 DEF BeginDecision, BeginLocked, PointsInv, TypeOK
    <3>3. /\ \A u \in Students : lock'[WalletRow(u)] # t
          /\ \A i \in Items : lock'[ItemRow(i)] # t
          /\ \A q \in Redemptions : lock'[RedemptionRow(q)] = t => q = r
      BY <1>3, <2>2, <3>2, IdleHoldsNothing DEF BeginDecision, BeginLocked
    <3>4. redemptions' = redemptions BY <1>3 DEF BeginDecision, BeginLocked, tables
    <3>5. command'[t] \in Commands BY TypeStep DEF TypeOK
    <3> QED BY <3>1, <3>3, <3>4, <3>5, CommandFields DEF Fresh
  <2> QED BY <2>1, <2>2
<1>4. ASSUME NEW s \in Sessions, NEW i \in Items, NEW c, c.op \in {"update", "disable"},
             BeginLocked(s, c, ItemRow(i)), seen'[s].item = items[i],
             \A x \in Sessions \ {s} : seen'[x] = seen[x]
      PROVE  Fresh(t)'
  <2>1. CASE t # s
    BY <1>2, <1>4, <2>1 DEF BeginLocked, PointsInv, TypeOK
  <2>2. CASE t = s
    <3>1. command'[t] = c /\ seen'[t].item = items[i]
      BY <1>4, <2>2 DEF BeginLocked, PointsInv, TypeOK, Readings
    <3>2. \A row \in Rows : lock'[row] = t <=> lock[row] = t \/ row = ItemRow(i)
      BY <1>4, <2>2 DEF BeginLocked, PointsInv, TypeOK
    <3>3. /\ \A u \in Students : lock'[WalletRow(u)] # t
          /\ \A j \in Items : lock'[ItemRow(j)] = t => j = i
          /\ \A q \in Redemptions : lock'[RedemptionRow(q)] # t
      BY <1>4, <2>2, <3>2, IdleHoldsNothing DEF BeginLocked
    <3>4. items' = items BY <1>4 DEF BeginLocked, tables
    <3> QED BY <1>4, <3>1, <3>3, <3>4 DEF Fresh
  <2> QED BY <2>1, <2>2
<1>5. ASSUME NEW s \in Sessions, NEW u \in Students, LockWallet(s, u) PROVE Fresh(t)'
  <2> DEFINE c == command[s]
  <2>1. /\ c.op \in {"request", "approve", "reject", "grant", "reverse", "adjust"}
        /\ c.user = u
        /\ command' = command /\ UNCHANGED tables /\ lock' = [lock EXCEPT ![WalletRow(u)] = s]
    BY <1>5, Waits DEF LockWallet, Take, PointsInv, TypeOK
  <2>2. CASE t # s BY <1>2, <1>5, <2>1, <2>2 DEF LockWallet, PointsInv, TypeOK
  <2>3. CASE t = s
    <3>1. /\ seen'[t].wallet = wallet[u] /\ seen'[t].item = seen[t].item
          /\ seen'[t].redemption = seen[t].redemption /\ seen'[t].frozen = seen[t].frozen
      BY <1>5, <2>3 DEF LockWallet, PointsInv, TypeOK, Readings
    <3>2. c.op \in {"approve", "reject"} => seen[t].redemption.status = "REQUESTED"
      BY <1>5, <2>3 DEF LockWallet
    <3>3. \A row \in Rows : lock'[row] = t <=> lock[row] = t \/ row = WalletRow(u)
      BY <2>1, <2>3 DEF PointsInv, TypeOK
    <3>4. \A v : Frozen(v)' = Frozen(v) BY <2>1 DEF Frozen, tables
    <3>5. c \in Commands BY DEF PointsInv, TypeOK
    <3>6. /\ \A v \in Students : lock'[WalletRow(v)] = t => seen'[t].wallet = wallet'[v]
          /\ \A i \in Items : lock'[ItemRow(i)] = t => seen'[t].item = items'[i]
          /\ \A r \in Redemptions : lock'[RedemptionRow(r)] = t =>
                 seen'[t].redemption = redemptions'[r]
      <4>1. Fresh(t) BY DEF PointsInv, ReadsFresh
      <4>2. UNCHANGED <<wallet, items, redemptions>> BY <2>1 DEF tables
      <4>3. \A v \in Students : lock[WalletRow(v)] = t => v = u
        BY <2>1, <2>3 DEF PointsInv, LocksMatch
      <4> QED BY <3>1, <3>3, <4>1, <4>2, <4>3 DEF Fresh
    <3>7. c.op = "request" /\ lock'[ItemRow(c.item)] = t => seen'[t].frozen = Frozen(c.user)
      BY <2>3, <3>1, <3>3, <3>5, CommandFields DEF PointsInv, ReadsFresh, Fresh
    <3>8. c.op \in {"approve", "reject"} => seen'[t].redemption.status = "REQUESTED"
      BY <3>1, <3>2
    <3>9. command'[t] = c /\ (c.op = "request" => Frozen(command[t].user)' = Frozen(c.user))
      BY <2>1, <2>3, <3>4 DEF Frozen
    <3> QED BY <3>6, <3>7, <3>8, <3>9 DEF Fresh
  <2> QED BY <2>2, <2>3
<1>6. ASSUME NEW s \in Sessions, NEW i \in Items, LockItem(s, i) PROVE Fresh(t)'
  <2> DEFINE c == command[s]
  <2>0. c \in Commands BY DEF PointsInv, TypeOK
  <2>1. /\ c.op \in {"request", "update", "disable"} /\ c.item = i
        /\ command' = command /\ UNCHANGED tables /\ lock' = [lock EXCEPT ![ItemRow(i)] = s]
    BY <1>6, <2>0, Waits DEF LockItem, Take
  <2>2. CASE t # s BY <1>2, <1>6, <2>1, <2>2 DEF LockItem, PointsInv, TypeOK
  <2>3. CASE t = s
    <3>1. /\ seen'[t].wallet = seen[t].wallet /\ seen'[t].item = items[i]
          /\ seen'[t].redemption = seen[t].redemption /\ seen'[t].frozen = Frozen(c.user)
      BY <1>6, <2>3 DEF LockItem, PointsInv, TypeOK, Readings
    <3>2. \A row \in Rows : lock'[row] = t <=> lock[row] = t \/ row = ItemRow(i)
      BY <2>1, <2>3 DEF PointsInv, TypeOK
    <3>3. Fresh(t) BY DEF PointsInv, ReadsFresh
    <3>4. UNCHANGED <<wallet, items, redemptions, reservation>> BY <2>1 DEF tables
    <3>5. \A j \in Items : lock[ItemRow(j)] = t => j = i
      BY <2>1, <2>3 DEF PointsInv, LocksMatch
    <3>6. /\ \A u \in Students : lock'[WalletRow(u)] = t => seen'[t].wallet = wallet'[u]
          /\ \A j \in Items : lock'[ItemRow(j)] = t => seen'[t].item = items'[j]
          /\ \A r \in Redemptions : lock'[RedemptionRow(r)] = t =>
                 seen'[t].redemption = redemptions'[r]
      BY <3>1, <3>2, <3>3, <3>4, <3>5 DEF Fresh
    <3>7. command'[t] = c /\ c.op \notin {"approve", "reject"} BY <2>1, <2>3
    <3>8. seen'[t].frozen = Frozen(command[t].user)' BY <2>1, <2>3, <3>1, <3>4 DEF Frozen
    <3> QED BY <3>6, <3>7, <3>8 DEF Fresh
  <2> QED BY <2>2, <2>3
<1>7. ASSUME NEW s \in Sessions, CommitAny(s) \/ Rollback(s) PROVE Fresh(t)'
  <2>1. Finish(s) BY <1>7, CommitWrites
  <2>2. \A row \in Rows : lock'[row] = t => lock[row] = t /\ t # s
    BY <2>1, FinishLocks, PointsAssumption
  <2>3. CASE t = s
    <3>1. command'[t].op = "idle" BY <2>1, <2>3, FinishLocks DEF Idle
    <3> QED BY <2>2, <2>3, <3>1 DEF Fresh
  <2>4. CASE t # s
    <3>1. command'[t] = command[t] /\ seen'[t] = seen[t] BY <2>1, <2>4, FinishLocks
    <3>2. \A u \in Students : lock[WalletRow(u)] = t =>
              wallet'[u] = wallet[u] /\ Frozen(u)' = Frozen(u)
      BY <1>7, <2>4, CommitWrites, FrozenWrites
    <3>3. \A i \in Items : lock[ItemRow(i)] = t => items'[i] = items[i]
      BY <1>7, <2>4, CommitWrites
    <3>4. ASSUME NEW r \in Redemptions, lock[RedemptionRow(r)] = t
          PROVE  redemptions'[r] = redemptions[r]
      <4>1. command[t].op \in {"approve", "reject", "fulfill"} /\ command[t].redemption = r
        BY <3>4 DEF PointsInv, LocksMatch
      <4>2. redemptions[r].status # "NONE" BY <4>1 DEF PointsInv, CommandsSound, Sound
      <4> QED BY <1>7, <2>4, <3>4, <4>2, CommitWrites
    <3> QED BY <2>2, <3>1, <3>2, <3>3, <3>4, StaysFresh
  <2> QED BY <2>3, <2>4
<1>8. ASSUME NEW i \in Items, NEW offer \in Offers, CreateRewardItem(i, offer) PROVE Fresh(t)'
  <2>1. \A j \in Items : lock[ItemRow(j)] = t => items'[j] = items[j]
    BY <1>8 DEF CreateRewardItem, PointsInv, LocksMatch, TypeOK
  <2>2. \A u : Frozen(u)' = Frozen(u) BY <1>8 DEF CreateRewardItem, Frozen
  <2> QED BY <1>8, <2>1, <2>2, StaysFresh DEF CreateRewardItem
<1>9. ASSUME NEW n \in Terms, SwitchTerm(n) PROVE Fresh(t)'
  <2>1. \A u : Frozen(u)' = Frozen(u) BY <1>9 DEF SwitchTerm, Frozen
  <2> QED BY <1>9, <2>1, StaysFresh DEF SwitchTerm
<1>10. ASSUME NEW s \in Sessions, NEW i \in Items, BeginDisable(s, i) PROVE Fresh(t)'
  <2> DEFINE c == [op |-> "disable", item |-> i]
  <2>1. /\ c.op \in {"update", "disable"} /\ BeginLocked(s, c, ItemRow(i))
        /\ seen'[s].item = items[i] /\ \A x \in Sessions \ {s} : seen'[x] = seen[x]
    BY <1>10 DEF BeginDisable, PointsInv, TypeOK, Readings
  <2> HIDE DEF c
  <2> QED BY <1>4, <2>1
<1>11. ASSUME NEW s \in Sessions, NEW i \in Items, NEW offer \in Offers, BeginUpdate(s, i, offer)
       PROVE  Fresh(t)'
  <2> DEFINE c == [op |-> "update", item |-> i, offer |-> offer]
  <2>1. /\ c.op \in {"update", "disable"} /\ BeginLocked(s, c, ItemRow(i))
        /\ seen'[s].item = items[i] /\ \A x \in Sessions \ {s} : seen'[x] = seen[x]
    BY <1>11 DEF BeginUpdate, PointsInv, TypeOK, Readings
  <2> HIDE DEF c
  <2> QED BY <1>4, <2>1
<1>12. ASSUME NEW s \in Sessions, BeginAny(s) PROVE Fresh(t)'
  BY <1>1, <1>3, <1>10, <1>11, <1>12 DEF BeginAny, Unlocked
<1>13. ASSUME NEW s \in Sessions, LockAny(s) PROVE Fresh(t)'
  BY <1>5, <1>6, <1>13 DEF LockAny
<1> QED BY <1>7, <1>8, <1>9, <1>12, <1>13 DEF Next

-----------------------------------------------------------------------------
(* What a command says stays true.                                         *)

\* An entry, and the owner of a request, stay.
LEMMA StaysSound ==
    ASSUME PointsInv, NEW t \in Sessions, command'[t] = command[t],
           \A r \in Redemptions :
               redemptions[r].status # "NONE" =>
                   redemptions'[r].status # "NONE" /\ redemptions'[r].user = redemptions[r].user,
           \A k \in EntryKeys : ledger[k] # NoEntry => ledger'[k] = ledger[k]
    PROVE  Sound(t)'
<1> DEFINE c == command[t]
<1>1. c \in Commands /\ Sound(t) BY DEF PointsInv, TypeOK, CommandsSound
<1>2. c.op \in {"approve", "reject", "fulfill"} =>
          /\ redemptions'[c.redemption].status # "NONE"
          /\ redemptions'[c.redemption].user = c.user
  BY <1>1, CommandFields DEF Sound
<1>3. c.op = "reverse" =>
          \E k \in Claims : /\ c.key = Reversal(k) /\ c.user = ClaimUser[k]
                            /\ c.amount = -ClaimReward[k]
                            /\ ledger'[Reward(k)] # NoEntry
  BY <1>1, KeyTypes DEF Sound
<1>4. c.op = "grant" =>
          \E k \in Claims : /\ c.key = Reward(k) /\ c.user = ClaimUser[k]
                            /\ c.amount = ClaimReward[k]
  BY <1>1 DEF Sound
<1>5. c.op = "adjust" => \E o \in Operations : c.key = Adjustment(o) /\ c.amount \in Adjustments
  BY <1>1 DEF Sound
<1> HIDE DEF c
<1>6. command'[t] = c BY DEF c
<1> QED BY <1>2, <1>3, <1>4, <1>5, <1>6 DEF Sound

LEMMA SoundStep ==
    ASSUME PointsInv, Next
    PROVE  CommandsSound'
<1> SUFFICES ASSUME NEW t \in Sessions PROVE Sound(t)'
  BY DEF CommandsSound
<1>1. ASSUME command'[t] = command[t], UNCHANGED <<ledger, redemptions>> PROVE Sound(t)'
  BY <1>1, StaysSound
<1>2. ASSUME NEW s \in Sessions, NEW c, Begin(s, c)
      PROVE  /\ UNCHANGED tables /\ command'[s] = c
             /\ t # s => Sound(t)'
  BY <1>1, <1>2 DEF Begin, tables, PointsInv, TypeOK
<1>3. ASSUME NEW s \in Sessions, NEW u \in Students, NEW i \in Items, BeginRequest(s, u, i)
      PROVE  Sound(t)'
  <2> DEFINE c == [op |-> "request", user |-> u, item |-> i, term |-> term]
  <2>1. Begin(s, c) /\ c.op = "request" BY <1>3 DEF BeginRequest
  <2> HIDE DEF c
  <2> QED BY <1>2, <2>1 DEF Sound
<1>4. ASSUME NEW s \in Sessions, NEW k \in Claims, BeginGrant(s, k) PROVE Sound(t)'
  <2> DEFINE c == [op |-> "grant", key |-> Reward(k), user |-> ClaimUser[k],
                   amount |-> ClaimReward[k]]
  <2>1. /\ Begin(s, c) /\ c.op = "grant"
        /\ c.key = Reward(k) /\ c.user = ClaimUser[k] /\ c.amount = ClaimReward[k]
    BY <1>4 DEF BeginGrant
  <2> HIDE DEF c
  <2> QED BY <1>2, <2>1 DEF Sound
<1>5. ASSUME NEW s \in Sessions, NEW k \in Claims, BeginReversal(s, k) PROVE Sound(t)'
  <2> DEFINE c == [op |-> "reverse", key |-> Reversal(k), user |-> ledger[Reward(k)].user,
                   amount |-> -ledger[Reward(k)].amount]
  <2>1. /\ Begin(s, c) /\ c.op = "reverse" /\ c.key = Reversal(k)
        /\ c.user = ledger[Reward(k)].user /\ c.amount = -ledger[Reward(k)].amount
        /\ ledger[Reward(k)] # NoEntry
    BY <1>5 DEF BeginReversal
  <2> HIDE DEF c
  <2>2. ledger[Reward(k)] = [user |-> ClaimUser[k], amount |-> ClaimReward[k]]
    BY <2>1 DEF PointsInv, RewardsExact
  <2>3. c.user = ClaimUser[k] /\ c.amount = -ClaimReward[k]
    BY <2>1, <2>2
  <2>4. UNCHANGED ledger BY <1>2, <2>1 DEF tables
  <2> QED BY <1>2, <2>1, <2>3, <2>4 DEF Sound
<1>6. ASSUME NEW s \in Sessions, NEW o \in Operations, NEW u \in Adjustable,
             NEW amount \in Adjustments, BeginAdjustment(s, o, u, amount)
      PROVE  Sound(t)'
  <2> DEFINE c == [op |-> "adjust", key |-> Adjustment(o), user |-> u, amount |-> amount]
  <2>1. /\ Begin(s, c) /\ c.op = "adjust" /\ c.key = Adjustment(o) /\ c.amount = amount
    BY <1>6 DEF BeginAdjustment
  <2> HIDE DEF c
  <2> QED BY <1>2, <2>1 DEF Sound
<1>7. ASSUME NEW s \in Sessions, NEW op \in {"approve", "reject", "fulfill"},
             NEW r \in Redemptions, BeginDecision(s, op, r)
      PROVE  Sound(t)'
  <2>1. /\ UNCHANGED tables /\ redemptions[r].status # "NONE"
        /\ command' = [command EXCEPT
               ![s] = [op |-> op, redemption |-> r, user |-> redemptions[r].user]]
    BY <1>7 DEF BeginDecision, BeginLocked
  <2>2. CASE t # s BY <1>1, <2>1, <2>2 DEF tables, PointsInv, TypeOK
  <2>3. CASE t = s BY <2>1, <2>3 DEF Sound, tables, PointsInv, TypeOK
  <2> QED BY <2>2, <2>3
<1>8. ASSUME NEW s \in Sessions, NEW i \in Items, NEW c, c.op \in {"update", "disable"},
             BeginLocked(s, c, ItemRow(i))
      PROVE  Sound(t)'
  <2>1. CASE t # s BY <1>1, <1>8, <2>1 DEF BeginLocked, tables, PointsInv, TypeOK
  <2>2. CASE t = s BY <1>8, <2>2 DEF BeginLocked, Sound, PointsInv, TypeOK
  <2> QED BY <2>1, <2>2
<1>9. ASSUME NEW s \in Sessions, BeginAny(s) PROVE Sound(t)'
  <2>1. ASSUME NEW i \in Items, BeginDisable(s, i) PROVE Sound(t)'
    <3> DEFINE c == [op |-> "disable", item |-> i]
    <3>1. c.op \in {"update", "disable"} /\ BeginLocked(s, c, ItemRow(i))
      BY <2>1 DEF BeginDisable
    <3> HIDE DEF c
    <3> QED BY <1>8, <3>1
  <2>2. ASSUME NEW i \in Items, NEW offer \in Offers, BeginUpdate(s, i, offer) PROVE Sound(t)'
    <3> DEFINE c == [op |-> "update", item |-> i, offer |-> offer]
    <3>1. c.op \in {"update", "disable"} /\ BeginLocked(s, c, ItemRow(i))
      BY <2>2 DEF BeginUpdate
    <3> HIDE DEF c
    <3> QED BY <1>8, <3>1
  <2> QED BY <1>3, <1>4, <1>5, <1>6, <1>7, <1>9, <2>1, <2>2 DEF BeginAny
<1>10. ASSUME NEW s \in Sessions, LockAny(s) PROVE Sound(t)'
  BY <1>1, <1>10 DEF LockAny, LockWallet, LockItem, Take, tables
<1>11. ASSUME NEW s \in Sessions, CommitAny(s) \/ Rollback(s) PROVE Sound(t)'
  <2>1. CASE t = s
    <3>1. command'[t].op = "idle" BY <1>11, <2>1, CommitWrites, FinishLocks DEF Idle
    <3> QED BY <3>1 DEF Sound
  <2>2. CASE t # s
    <3>1. command'[t] = command[t] BY <1>11, <2>2, CommitWrites, FinishLocks
    <3> QED BY <1>11, <3>1, CommitWrites, StaysSound
  <2> QED BY <2>1, <2>2
<1>12. ASSUME \/ \E i \in Items, offer \in Offers : CreateRewardItem(i, offer)
              \/ \E n \in Terms : SwitchTerm(n)
       PROVE  Sound(t)'
  BY <1>1, <1>12 DEF CreateRewardItem, SwitchTerm
<1> QED BY <1>9, <1>10, <1>11, <1>12 DEF Next

-----------------------------------------------------------------------------
(* The ledger.                                                             *)

LEMMA KeysDiffer ==
    /\ \A c, d : Reward(c) = Reward(d) <=> c = d
    /\ \A c, d : Reversal(c) = Reversal(d) <=> c = d
    /\ \A q, r : Charge(q) = Charge(r) <=> q = r
    /\ \A c, d : Reward(c) # Reversal(d)
    /\ \A c, r : Reward(c) # Charge(r) /\ Reversal(c) # Charge(r)
    /\ \A c, o : Reward(c) # Adjustment(o) /\ Reversal(c) # Adjustment(o)
    /\ \A r, o : Charge(r) # Adjustment(o)
BY DEF Reward, Reversal, Charge, Adjustment

\* The entry of one source appears and the others stay.
Posts(key, u, n) ==
    /\ ledger[key] = NoEntry /\ ledger'[key] = [user |-> u, amount |-> n]
    /\ \A k \in EntryKeys \ {key} : ledger'[k] = ledger[k]

LEMMA Posting ==
    ASSUME PointsInv, NEW s \in Sessions, NEW key \in EntryKeys, NEW u, NEW n, NEW ranks,
           PostEntry(s, key, u, n, ranks)
    PROVE  Posts(key, u, n)
BY DEF PostEntry, Posts, PointsInv, TypeOK

LEMMA LedgerWrites ==
    ASSUME PointsInv, NEW s \in Sessions, CommitAny(s) \/ Rollback(s)
    PROVE  \/ UNCHANGED ledger
           \/ /\ ApproveRedemption(s)
              /\ LET r == command[s].redemption IN
                 Posts(Charge(r), redemptions[r].user, -redemptions[r].points)
           \/ \E k \in Claims : Posts(Reward(k), ClaimUser[k], ClaimReward[k])
           \/ \E k \in Claims : /\ ledger[Reward(k)] # NoEntry
                                /\ Posts(Reversal(k), ClaimUser[k], -ClaimReward[k])
           \/ \E o \in Operations : \E u, n : Posts(Adjustment(o), u, n)
<1> DEFINE c == command[s]
<1>1. Sound(s) BY DEF PointsInv, CommandsSound
<1>2. ASSUME ApproveRedemption(s)
      PROVE  LET r == c.redemption IN
             Posts(Charge(r), redemptions[r].user, -redemptions[r].points)
  <2> DEFINE r == c.redemption
  <2>1. /\ r \in Redemptions /\ redemptions[r].user = c.user
        /\ seen[s].redemption.points = redemptions[r].points
    BY <1>2, DecidedRow DEF ApproveRedemption
  <2>2. PostEntry(s, Charge(r), c.user, -seen[s].redemption.points, FALSE)
    BY <1>2 DEF ApproveRedemption
  <2>3. Posts(Charge(r), c.user, -seen[s].redemption.points)
    BY <2>1, <2>2, KeyTypes, Posting
  <2> QED BY <2>1, <2>3
<1>3. ASSUME GrantAssignmentReward(s)
      PROVE  \E k \in Claims : Posts(Reward(k), ClaimUser[k], ClaimReward[k])
  <2>1. PICK k \in Claims : c.key = Reward(k) /\ c.user = ClaimUser[k] /\ c.amount = ClaimReward[k]
    BY <1>1, <1>3 DEF Sound, GrantAssignmentReward
  <2>2. PostEntry(s, c.key, c.user, c.amount, TRUE) BY <1>3 DEF GrantAssignmentReward
  <2> QED BY <2>1, <2>2, KeyTypes, Posting
<1>4. ASSUME ReverseAssignmentReward(s)
      PROVE  \E k \in Claims : /\ ledger[Reward(k)] # NoEntry
                               /\ Posts(Reversal(k), ClaimUser[k], -ClaimReward[k])
  <2>1. PICK k \in Claims : /\ c.key = Reversal(k) /\ c.user = ClaimUser[k]
                            /\ c.amount = -ClaimReward[k] /\ ledger[Reward(k)] # NoEntry
    BY <1>1, <1>4 DEF Sound, ReverseAssignmentReward
  <2>2. PostEntry(s, c.key, c.user, c.amount, TRUE) BY <1>4 DEF ReverseAssignmentReward
  <2> QED BY <2>1, <2>2, KeyTypes, Posting
<1>5. ASSUME AdminAdjustPoints(s)
      PROVE  \E o \in Operations : \E u, n : Posts(Adjustment(o), u, n)
  <2>1. PICK o \in Operations : c.key = Adjustment(o)
    BY <1>1, <1>5 DEF Sound, AdminAdjustPoints
  <2>2. PostEntry(s, c.key, c.user, c.amount, FALSE) BY <1>5 DEF AdminAdjustPoints
  <2> QED BY <2>1, <2>2, KeyTypes, Posting
<1>6. ASSUME \/ \E r \in Redemptions : RequestRedemption(s, r)
             \/ RejectRedemption(s) \/ FulfillRedemption(s)
             \/ UpdateRewardItem(s) \/ DisableRewardItem(s) \/ Rollback(s)
      PROVE  UNCHANGED ledger
  BY <1>6 DEF RequestRedemption, RejectRedemption, FulfillRedemption, UpdateRewardItem,
     DisableRewardItem, Rollback, tables
<1> QED BY <1>2, <1>3, <1>4, <1>5, <1>6 DEF CommitAny

\* Every other step leaves the ledger and the redemptions alone.
LEMMA OtherSteps ==
    ASSUME Next
    PROVE  \/ \E s \in Sessions : CommitAny(s) \/ Rollback(s)
           \/ UNCHANGED <<ledger, wallet, redemptions, reservation>>
<1>1. ASSUME NEW s \in Sessions, BeginAny(s) \/ LockAny(s) PROVE UNCHANGED tables
  <2>1. ASSUME Unlocked(s) PROVE UNCHANGED tables BY <2>1, UnlockedBegins
  <2> QED BY <1>1, <2>1 DEF BeginAny, Unlocked, LockAny, LockWallet, LockItem, Take,
             BeginDecision, BeginUpdate, BeginDisable, BeginLocked
<1> QED BY <1>1 DEF Next, tables, CreateRewardItem, SwitchTerm

LEMMA LedgerStep ==
    ASSUME PointsInv, Next
    PROVE  RewardsExact' /\ ReversalCancelsReward'
<1> USE KeyTypes, KeysDiffer
<1>1. ASSUME UNCHANGED ledger PROVE RewardsExact' /\ ReversalCancelsReward'
  BY <1>1 DEF PointsInv, RewardsExact, ReversalCancelsReward
<1>2. ASSUME NEW k \in Claims, Posts(Reward(k), ClaimUser[k], ClaimReward[k])
      PROVE  RewardsExact' /\ ReversalCancelsReward'
  <2>1. ledger[Reversal(k)] = NoEntry BY <1>2 DEF Posts, PointsInv, ReversalCancelsReward
  <2>2. \A c \in Claims : ledger'[Reversal(c)] = ledger[Reversal(c)] BY <1>2 DEF Posts
  <2>3. \A c \in Claims \ {k} : ledger'[Reward(c)] = ledger[Reward(c)] BY <1>2 DEF Posts
  <2>4. RewardsExact' BY <1>2, <2>3 DEF Posts, PointsInv, RewardsExact
  <2>5. ReversalCancelsReward'
    BY <2>1, <2>2, <2>3 DEF PointsInv, ReversalCancelsReward
  <2> QED BY <2>4, <2>5
<1>3. ASSUME NEW k \in Claims, ledger[Reward(k)] # NoEntry,
             Posts(Reversal(k), ClaimUser[k], -ClaimReward[k])
      PROVE  RewardsExact' /\ ReversalCancelsReward'
  <2>1. ledger[Reward(k)] = [user |-> ClaimUser[k], amount |-> ClaimReward[k]]
    BY <1>3 DEF PointsInv, RewardsExact
  <2>2. [ledger[Reward(k)] EXCEPT !.amount = -@] = [user |-> ClaimUser[k], amount |-> -ClaimReward[k]]
    BY <2>1
  <2> QED BY <1>3, <2>1, <2>2 DEF Posts, PointsInv, RewardsExact, ReversalCancelsReward
<1>4. ASSUME NEW key \in EntryKeys, NEW u, NEW n, Posts(key, u, n),
             \A k \in Claims : key # Reward(k) /\ key # Reversal(k)
      PROVE  RewardsExact' /\ ReversalCancelsReward'
  BY <1>4 DEF Posts, PointsInv, RewardsExact, ReversalCancelsReward
<1>5. ASSUME NEW s \in Sessions, ApproveRedemption(s) PROVE command[s].redemption \in Redemptions
  BY <1>5, DecidedRow DEF ApproveRedemption
<1>6. ASSUME NEW s \in Sessions, CommitAny(s) \/ Rollback(s)
      PROVE  RewardsExact' /\ ReversalCancelsReward'
  BY <1>1, <1>2, <1>3, <1>4, <1>5, <1>6, LedgerWrites
<1> QED BY <1>1, <1>6, OtherSteps

-----------------------------------------------------------------------------
(* A redemption, its reservation and its entry.                            *)

Agree(row, frozen, entry) ==
    /\ row.status = "NONE"      <=> frozen = "NONE"
    /\ row.status = "REQUESTED" <=> frozen = "ACTIVE"
    /\ row.status = "REJECTED"  <=> frozen = "RELEASED"
    /\ entry = IF row.status \in {"APPROVED", "FULFILLED"}
               THEN [user |-> row.user, amount |-> -row.points]
               ELSE NoEntry

LEMMA ChargedStep ==
    ASSUME PointsInv, Next
    PROVE  ChargedExactlyOnce'
<1> USE KeyTypes, KeysDiffer
<1> DEFINE Before(q) == Agree(redemptions[q], reservation[q], ledger[Charge(q)])
           After(q)  == Agree(redemptions'[q], reservation'[q], ledger'[Charge(q)])
<1>1. \A q \in Redemptions : Before(q) BY DEF PointsInv, ChargedExactlyOnce, Agree
<1> SUFFICES \A q \in Redemptions : After(q)
  BY DEF ChargedExactlyOnce, Agree
<1> HIDE DEF Before, After
<1>2. ASSUME NEW q \in Redemptions, redemptions'[q] = redemptions[q],
             reservation'[q] = reservation[q], ledger'[Charge(q)] = ledger[Charge(q)]
      PROVE  After(q)
  BY <1>1, <1>2 DEF Before, After
<1>3. ASSUME NEW s \in Sessions, NEW r \in Redemptions, RequestRedemption(s, r)
      PROVE  \A q \in Redemptions : After(q)
  <2>1. UNCHANGED ledger /\ \A q \in Redemptions \ {r} :
            redemptions'[q] = redemptions[q] /\ reservation'[q] = reservation[q]
    BY <1>3 DEF RequestRedemption, PointsInv, TypeOK
  <2>2. redemptions[r].status = "NONE" /\ redemptions'[r].status = "REQUESTED"
        /\ reservation'[r] = "ACTIVE"
    BY <1>3 DEF RequestRedemption, PointsInv, TypeOK
  <2>3. After(r) BY <1>1, <2>1, <2>2 DEF Before, After, Agree
  <2> QED BY <1>2, <2>1, <2>3
<1>4. ASSUME NEW s \in Sessions, NEW r \in Redemptions, NEW status, NEW frozen,
             r = command[s].redemption, redemptions[r] \in Requests \ {NoRedemption},
             redemptions' = [redemptions EXCEPT ![r].status = status],
             \A q \in Redemptions \ {r} : reservation'[q] = reservation[q],
             reservation'[r] = frozen,
             \A q \in Redemptions \ {r} : ledger'[Charge(q)] = ledger[Charge(q)],
             Agree([redemptions[r] EXCEPT !.status = status], frozen, ledger'[Charge(r)])
      PROVE  \A q \in Redemptions : After(q)
  <2>1. redemptions'[r] = [redemptions[r] EXCEPT !.status = status]
    BY <1>4 DEF PointsInv, TypeOK
  <2>2. \A q \in Redemptions \ {r} : redemptions'[q] = redemptions[q]
    BY <1>4 DEF PointsInv, TypeOK
  <2>3. After(r) BY <1>4, <2>1 DEF After
  <2> QED BY <1>2, <1>4, <2>2, <2>3
<1>5. ASSUME NEW s \in Sessions, ApproveRedemption(s) PROVE \A q \in Redemptions : After(q)
  <2> DEFINE r == command[s].redemption
  <2>1. /\ r \in Redemptions /\ redemptions[r] \in Requests \ {NoRedemption}
        /\ redemptions[r].user = command[s].user
        /\ seen[s].redemption.points = redemptions[r].points
    BY <1>5, DecidedRow DEF ApproveRedemption
  <2>2. PostEntry(s, Charge(r), command[s].user, -seen[s].redemption.points, FALSE)
    BY <1>5 DEF ApproveRedemption
  <2>3. Posts(Charge(r), redemptions[r].user, -redemptions[r].points)
    BY <2>1, <2>2, Posting
  <2>4. /\ reservation' = [reservation EXCEPT ![r] = "CONSUMED"]
        /\ redemptions' = [redemptions EXCEPT ![r].status = "APPROVED"]
    BY <1>5 DEF ApproveRedemption
  <2>5. Agree([redemptions[r] EXCEPT !.status = "APPROVED"], "CONSUMED", ledger'[Charge(r)])
    BY <2>1, <2>3 DEF Agree, Posts, Requests
  <2>6. /\ \A q \in Redemptions \ {r} : reservation'[q] = reservation[q]
        /\ reservation'[r] = "CONSUMED"
        /\ \A q \in Redemptions \ {r} : ledger'[Charge(q)] = ledger[Charge(q)]
    BY <2>1, <2>3, <2>4 DEF Posts, PointsInv, TypeOK
  <2> QED BY <1>4, <2>1, <2>4, <2>5, <2>6
<1>6. ASSUME NEW s \in Sessions, RejectRedemption(s) PROVE \A q \in Redemptions : After(q)
  <2> DEFINE r == command[s].redemption
  <2>1. /\ r \in Redemptions /\ redemptions[r] \in Requests \ {NoRedemption}
        /\ redemptions[r].status = "REQUESTED"
    BY <1>6, DecidedRow DEF RejectRedemption
  <2>2. /\ reservation' = [reservation EXCEPT ![r] = "RELEASED"]
        /\ redemptions' = [redemptions EXCEPT ![r].status = "REJECTED"] /\ UNCHANGED ledger
    BY <1>6 DEF RejectRedemption
  <2>3. Agree([redemptions[r] EXCEPT !.status = "REJECTED"], "RELEASED", ledger'[Charge(r)])
    BY <1>1, <2>1, <2>2 DEF Before, Agree, Requests
  <2>4. /\ \A q \in Redemptions \ {r} : reservation'[q] = reservation[q]
        /\ reservation'[r] = "RELEASED"
        /\ \A q \in Redemptions \ {r} : ledger'[Charge(q)] = ledger[Charge(q)]
    BY <2>1, <2>2 DEF PointsInv, TypeOK
  <2> QED BY <1>4, <2>1, <2>2, <2>3, <2>4
<1>7. ASSUME NEW s \in Sessions, FulfillRedemption(s) PROVE \A q \in Redemptions : After(q)
  <2> DEFINE r == command[s].redemption
  <2>1. /\ r \in Redemptions /\ redemptions[r] \in Requests \ {NoRedemption}
        /\ redemptions[r].status = "APPROVED"
    BY <1>7, DecidedRow DEF FulfillRedemption
  <2>2. /\ redemptions' = [redemptions EXCEPT ![r].status = "FULFILLED"]
        /\ UNCHANGED <<ledger, reservation>>
    BY <1>7 DEF FulfillRedemption
  <2>3. Agree([redemptions[r] EXCEPT !.status = "FULFILLED"], reservation[r], ledger'[Charge(r)])
    BY <1>1, <2>1, <2>2 DEF Before, Agree, Requests
  <2>4. /\ \A q \in Redemptions : reservation'[q] = reservation[q]
        /\ \A q \in Redemptions \ {r} : ledger'[Charge(q)] = ledger[Charge(q)]
    BY <2>2
  <2> QED BY <1>4, <2>1, <2>2, <2>3, <2>4
<1>8. ASSUME NEW s \in Sessions, CommitAny(s) \/ Rollback(s),
             UNCHANGED <<redemptions, reservation>>, ~ApproveRedemption(s)
      PROVE  \A q \in Redemptions : After(q)
  <2>1. ASSUME NEW key, NEW u, NEW n, Posts(key, u, n), \A q \in Redemptions : key # Charge(q)
        PROVE  \A q \in Redemptions : ledger'[Charge(q)] = ledger[Charge(q)]
    BY <2>1 DEF Posts
  <2>2. \A q \in Redemptions : ledger'[Charge(q)] = ledger[Charge(q)]
    BY <1>8, <2>1, LedgerWrites
  <2> QED BY <1>2, <1>8, <2>2
<1>9. ASSUME NEW s \in Sessions, CommitAny(s) \/ Rollback(s) PROVE \A q \in Redemptions : After(q)
  <2>1. ASSUME \/ GrantAssignmentReward(s) \/ ReverseAssignmentReward(s) \/ AdminAdjustPoints(s)
               \/ UpdateRewardItem(s) \/ DisableRewardItem(s) \/ Rollback(s)
        PROVE  UNCHANGED <<redemptions, reservation>>
    BY <2>1 DEF GrantAssignmentReward, ReverseAssignmentReward, AdminAdjustPoints,
       UpdateRewardItem, DisableRewardItem, Rollback, tables
  <2> QED BY <1>3, <1>5, <1>6, <1>7, <1>8, <1>9, <2>1 DEF CommitAny
<1>10. ASSUME UNCHANGED <<ledger, wallet, redemptions, reservation>>
       PROVE  \A q \in Redemptions : After(q)
  BY <1>2, <1>10
<1> QED BY <1>9, <1>10, OtherSteps

-----------------------------------------------------------------------------
(* The invariant holds.                                                    *)

LEMMA PointsInit == Init => PointsInv
<1> SUFFICES ASSUME Init PROVE PointsInv
  OBVIOUS
<1> USE EmptyTypes
<1>1. TypeOK BY DEF Init, TypeOK
<1>2. \A s \in Sessions : command[s].op = "idle" BY DEF Init, Idle
<1>3. \A row \in Rows, s \in Sessions : lock[row] # s BY PointsAssumption DEF Init
<1>4. LocksMatch BY <1>2, <1>3, RowTypes DEF LocksMatch
<1>5. ReadsFresh BY <1>2, <1>3, RowTypes DEF ReadsFresh, Fresh
<1>6. CommandsSound BY <1>2 DEF CommandsSound, Sound
<1>7. ChargedExactlyOnce BY KeyTypes DEF Init, ChargedExactlyOnce, NoRedemption
<1>8. ReversalCancelsReward /\ RewardsExact
  BY KeyTypes DEF Init, ReversalCancelsReward, RewardsExact
<1> QED BY <1>1, <1>4, <1>5, <1>6, <1>7, <1>8 DEF PointsInv

LEMMA PointsStep == PointsInv /\ [Next]_vars => PointsInv'
<1>1. ASSUME PointsInv, Next PROVE PointsInv'
  BY <1>1, TypeStep, LocksStep, FreshStep, SoundStep, ChargedStep, LedgerStep DEF PointsInv
<1>2. ASSUME PointsInv, UNCHANGED vars PROVE PointsInv'
  BY <1>2 DEF PointsInv, TypeOK, LocksMatch, ReadsFresh, Fresh, Frozen, CommandsSound, Sound,
     ChargedExactlyOnce, ReversalCancelsReward, RewardsExact, vars, tables
<1> QED BY <1>1, <1>2

\* What a session reads under a lock (SELECT ... FOR UPDATE) is what it still
\* finds when it commits, and the tables agree with one another.
THEOREM PointsInvariant == Spec => []PointsInv
BY PointsInit, PointsStep, PTL DEF Spec

\* Every row, command and lock keeps its type, whatever the sessions do.
THEOREM PointsTyped == Spec => []TypeOK
BY PointsInvariant, PTL DEF PointsInv

\* approve, reject and fulfill: a redemption is frozen while open and charged
\* once when approved, whichever decisions race for it.
THEOREM RedemptionsChargedOnce == Spec => []ChargedExactlyOnce
BY PointsInvariant, PTL DEF PointsInv

\* reverse_assignment_reward: a reversal stands for exactly the reward paid.
THEOREM ReversalsCancel == Spec => []ReversalCancelsReward
BY PointsInvariant, PTL DEF PointsInv

\* The rows of the points side agree after every commit, with every other
\* session in the middle of whatever it does.
THEOREM RowsAlwaysAgree == Spec => []RowsAgree
<1>1. PointsInv => RowsAgree BY DEF PointsInv, RowsAgree
<1> QED BY <1>1, PointsInvariant, PTL

-----------------------------------------------------------------------------
(* Deadlock, and what a step may never do.                                 *)

\* The order of the locks is redemption, wallet, item: a session of the set
\* that holds the latest of them waits for none of the others.
LEMMA LatestHolderFree == PointsInv => NoLockCycle
<1> USE RowsDiffer, RowTypes
<1> SUFFICES ASSUME PointsInv, NEW S \in SUBSET Sessions, S # {}
             PROVE  \E s \in S : \A row \in Rows : WaitsFor(s, row) => lock[row] \notin S
  BY DEF NoLockCycle
<1>1. \A s \in S : command[s] \in Commands BY DEF PointsInv, TypeOK
<1>2. CASE \E s \in S, i \in Items : lock[ItemRow(i)] = s
  <2>1. PICK s \in S, i \in Items : lock[ItemRow(i)] = s BY <1>2
  <2>2. /\ command[s].op \in {"request", "update", "disable"} /\ command[s].item = i
        /\ command[s].op = "request" => lock[WalletRow(command[s].user)] = s
    BY <2>1 DEF PointsInv, LocksMatch
  <2>3. \A row \in Rows : ~WaitsFor(s, row) BY <1>1, <2>1, <2>2, Waits
  <2> QED BY <2>3
<1>3. CASE /\ \A s \in S, i \in Items : lock[ItemRow(i)] # s
           /\ \E s \in S, u \in Students : lock[WalletRow(u)] = s
  <2>1. PICK s \in S, u \in Students : lock[WalletRow(u)] = s BY <1>3
  <2> DEFINE c == command[s]
  <2>2. /\ c.op \in {"request", "approve", "reject", "grant", "reverse", "adjust"}
        /\ c.user = u
        /\ c.op \in {"approve", "reject"} => lock[RedemptionRow(c.redemption)] = s
    BY <2>1 DEF PointsInv, LocksMatch
  <2>3. ASSUME NEW row \in Rows, WaitsFor(s, row)
        PROVE  c.op = "request" /\ row = ItemRow(c.item)
    BY <1>1, <2>1, <2>2, <2>3, Waits
  <2>4. c.op = "request" => lock[ItemRow(c.item)] \notin S
    BY <1>1, <1>3, CommandFields
  <2> QED BY <2>3, <2>4
<1>4. CASE /\ \A s \in S, i \in Items : lock[ItemRow(i)] # s
           /\ \A s \in S, u \in Students : lock[WalletRow(u)] # s
  <2>1. PICK s \in S : TRUE OBVIOUS
  <2> DEFINE c == command[s]
  <2>2. c.op \in {"approve", "reject", "fulfill"} => lock[RedemptionRow(c.redemption)] = s
    BY DEF PointsInv, LocksMatch
  <2>3. /\ c.op \in {"request", "update", "disable"} => lock[ItemRow(c.item)] \notin S
        /\ c.op \in {"request", "approve", "reject", "grant", "reverse", "adjust"} =>
               lock[WalletRow(c.user)] \notin S
    BY <1>1, <1>4, CommandFields
  <2>4. ASSUME NEW row \in Rows, WaitsFor(s, row) PROVE lock[row] \notin S
    BY <1>1, <2>2, <2>3, <2>4, Waits
  <2> QED BY <2>4
<1> QED BY <1>2, <1>3, <1>4

\* The lock orders of the redemption service, the ledger and the catalogue
\* never make requests wait in a circle.
THEOREM NoDeadlock == Spec => []NoLockCycle
BY PointsInvariant, LatestHolderFree, PTL

\* post_entry only inserts: the ledger is append-only.
THEOREM LedgerGrows == Spec => LedgerAppendOnly
<1>1. ASSUME PointsInv, [Next]_vars
      PROVE  \A k \in EntryKeys : ledger[k] # NoEntry => ledger'[k] = ledger[k]
  <2>1. CASE Next BY <1>1, <2>1, OtherSteps, CommitWrites
  <2>2. CASE UNCHANGED vars BY <2>2 DEF vars, tables
  <2> QED BY <1>1, <2>1, <2>2
<1> QED BY <1>1, PointsInvariant, PTL DEF Spec, LedgerAppendOnly

\* approve, reject and fulfill move a redemption forward only, and only its
\* status.
Forward(row, next) ==
    /\ row.status \in {"REJECTED", "FULFILLED"} => next = row
    /\ row.status = "APPROVED" => next.status \in {"APPROVED", "FULFILLED"}
    /\ row.status # "NONE" => next = [row EXCEPT !.status = next.status]

LEMMA DecisionStep ==
    ASSUME PointsInv, Next
    PROVE  \A r \in Redemptions : Forward(redemptions[r], redemptions'[r])
<1>1. ASSUME NEW r \in Redemptions, redemptions'[r] = redemptions[r]
      PROVE  Forward(redemptions[r], redemptions'[r])
  <2>1. redemptions[r] \in Requests BY DEF PointsInv, TypeOK
  <2>2. redemptions[r] = [redemptions[r] EXCEPT !.status = redemptions[r].status]
    BY <2>1 DEF Requests, NoRedemption
  <2> QED BY <1>1, <2>2 DEF Forward
<1>2. ASSUME NEW s \in Sessions, NEW r \in Redemptions, RequestRedemption(s, r)
      PROVE  \A q \in Redemptions : Forward(redemptions[q], redemptions'[q])
  <2>1. redemptions[r].status = "NONE" /\ \A q \in Redemptions \ {r} : redemptions'[q] = redemptions[q]
    BY <1>2 DEF RequestRedemption, PointsInv, TypeOK
  <2>2. Forward(redemptions[r], redemptions'[r]) BY <2>1 DEF Forward
  <2> QED BY <1>1, <2>1, <2>2
<1>3. ASSUME NEW r \in Redemptions, NEW status, redemptions[r] \in Requests \ {NoRedemption},
             redemptions' = [redemptions EXCEPT ![r].status = status],
             \/ redemptions[r].status = "REQUESTED"
             \/ redemptions[r].status = "APPROVED" /\ status = "FULFILLED"
      PROVE  \A q \in Redemptions : Forward(redemptions[q], redemptions'[q])
  <2>1. \A q \in Redemptions \ {r} : redemptions'[q] = redemptions[q]
    BY <1>3 DEF PointsInv, TypeOK
  <2>2. redemptions'[r] = [redemptions[r] EXCEPT !.status = status] /\ redemptions'[r].status = status
    BY <1>3 DEF PointsInv, TypeOK, Requests
  <2>3. Forward(redemptions[r], redemptions'[r]) BY <1>3, <2>2 DEF Forward
  <2> QED BY <1>1, <2>1, <2>3
<1>4. ASSUME NEW s \in Sessions, ApproveRedemption(s)
      PROVE  \A q \in Redemptions : Forward(redemptions[q], redemptions'[q])
  BY <1>3, <1>4, DecidedRow DEF ApproveRedemption
<1>5. ASSUME NEW s \in Sessions, RejectRedemption(s)
      PROVE  \A q \in Redemptions : Forward(redemptions[q], redemptions'[q])
  BY <1>3, <1>5, DecidedRow DEF RejectRedemption
<1>6. ASSUME NEW s \in Sessions, FulfillRedemption(s)
      PROVE  \A q \in Redemptions : Forward(redemptions[q], redemptions'[q])
  BY <1>3, <1>6, DecidedRow DEF FulfillRedemption
<1>7. ASSUME UNCHANGED redemptions
      PROVE  \A q \in Redemptions : Forward(redemptions[q], redemptions'[q])
  BY <1>1, <1>7
<1>8. ASSUME NEW s \in Sessions, CommitAny(s) \/ Rollback(s)
      PROVE  \A q \in Redemptions : Forward(redemptions[q], redemptions'[q])
  BY <1>2, <1>4, <1>5, <1>6, <1>7, <1>8 DEF CommitAny, Rollback, tables, GrantAssignmentReward,
     ReverseAssignmentReward, AdminAdjustPoints, UpdateRewardItem, DisableRewardItem
<1> QED BY <1>7, <1>8, OtherSteps

\* A decision on a redemption is final, and a second decider that waited for
\* the row finds it decided.
THEOREM DecisionsFinal == Spec => DecisionsStand
<1>1. ASSUME PointsInv, [Next]_vars
      PROVE  \A r \in Redemptions : Forward(redemptions[r], redemptions'[r])
  <2>1. CASE Next BY <1>1, <2>1, DecisionStep
  <2>2. CASE UNCHANGED vars
    <3> SUFFICES ASSUME NEW r \in Redemptions PROVE Forward(redemptions[r], redemptions'[r])
      OBVIOUS
    <3>1. redemptions'[r] = redemptions[r] BY <2>2 DEF vars, tables
    <3>2. redemptions[r] = [redemptions[r] EXCEPT !.status = redemptions[r].status]
      BY <1>1 DEF PointsInv, TypeOK, Requests, NoRedemption
    <3> QED BY <3>1, <3>2 DEF Forward
  <2> QED BY <1>1, <2>1, <2>2
<1>2. ASSUME PointsInv, [Next]_vars
      PROVE  \A r \in Redemptions :
                 LET row == redemptions[r]
                     next == redemptions'[r]
                 IN  /\ row.status \in {"REJECTED", "FULFILLED"} => next = row
                     /\ row.status = "APPROVED" => next.status \in {"APPROVED", "FULFILLED"}
                     /\ row.status # "NONE" => next = [row EXCEPT !.status = next.status]
  BY <1>1, <1>2 DEF Forward
<1> QED BY <1>2, PointsInvariant, PTL DEF Spec, DecisionsStand

-----------------------------------------------------------------------------
(* The account.                                                            *)

LEMMA Phases ==
    /\ HoldPhase("NONE") = "new" /\ HoldPhase("ACTIVE") = "held"
    /\ HoldPhase("RELEASED") = "released" /\ HoldPhase("CONSUMED") = "spent"
BY DEF HoldPhase

LEMMA SetAsideIsFrozen ==
    ASSUME TypeOK, NEW u
    PROVE  Account!SetAside(u) = PointsOf(Frozen(u))
<1>1. ASSUME NEW r \in Redemptions
      PROVE  HoldPhase(reservation[r]) = "held" <=> reservation[r] = "ACTIVE"
  BY Phases DEF TypeOK
<1>2. {r \in Redemptions :
          /\ [q \in Redemptions |-> redemptions[q].user][r] = u
          /\ [q \in Redemptions |-> HoldPhase(reservation[q])][r] = "held"} = Frozen(u)
  BY <1>1 DEF Frozen
<1> QED BY <1>2 DEF Account!SetAside, PointsOf

\* A step that changes no wallet and no reservation.
LEMMA AccountStutter ==
    ASSUME TypeOK, \A u \in Students : wallet'[u].available = wallet[u].available,
           \A r \in Redemptions : /\ redemptions'[r].user = redemptions[r].user
                                  /\ redemptions'[r].points = redemptions[r].points
                                  /\ reservation'[r] = reservation[r]
    PROVE  UNCHANGED Account!accountVars
BY DEF Account!accountVars

LEMMA AccountEnter ==
    ASSUME PointsInv, NEW s \in Sessions, HoldsAll(s), NEW ranks,
           command[s].op \in {"grant", "reverse", "adjust"},
           PostEntry(s, command[s].key, command[s].user, command[s].amount, ranks),
           UNCHANGED <<redemptions, reservation>>
    PROVE  Account!AccountNext
<1> DEFINE c == command[s]
<1>1. /\ c.user \in Students /\ c.amount \in Int \ {0} /\ seen[s].wallet = wallet[c.user]
  BY Posted
<1>2. c.amount \in Adjustments \cup {ClaimReward[k] : k \in Claims}
                       \cup {-ClaimReward[k] : k \in Claims}
  BY DEF PointsInv, CommandsSound, Sound
<1>3. wallet \in [Students -> Wallets] BY DEF PointsInv, TypeOK
<1>4. /\ wallet'[c.user].available = wallet[c.user].available + c.amount
      /\ \A u \in Students \ {c.user} : wallet'[u] = wallet[u]
  BY <1>1, <1>3 DEF PostEntry
<1>5. PICK u \in Students, n \in Int \ {0} : u = c.user /\ n = c.amount BY <1>1
<1>6. Account!Enter(u, n)
  BY <1>1, <1>4, <1>5 DEF Account!Enter
<1> QED BY <1>2, <1>5, <1>6 DEF Account!AccountNext

LEMMA AccountHold ==
    ASSUME PointsInv, NEW s \in Sessions, NEW r \in Redemptions, RequestRedemption(s, r)
    PROVE  Account!AccountNext
<1> DEFINE c == command[s]
<1>1. PICK u \in Students, n \in {offer.cost : offer \in Offers} :
          u = c.user /\ n = seen[s].item.offer.cost
  BY OfferRead DEF RequestRedemption
<1>2. /\ seen[s].wallet = wallet[u] /\ seen[s].frozen = Frozen(u) /\ n \in Nat \ {0}
  BY <1>1, OfferRead DEF RequestRedemption
<1>3. n <= wallet[u].available - Account!SetAside(u)
  BY <1>1, <1>2, SetAsideIsFrozen DEF RequestRedemption, PointsInv
<1>4. HoldPhase(reservation[r]) = "new"
  BY Phases DEF RequestRedemption, PointsInv, ChargedExactlyOnce
<1>5. /\ redemptions'[r].user = u /\ redemptions'[r].points = n /\ reservation'[r] = "ACTIVE"
      /\ \A q \in Redemptions \ {r} :
             redemptions'[q] = redemptions[q] /\ reservation'[q] = reservation[q]
      /\ UNCHANGED wallet
  BY <1>1 DEF RequestRedemption, PointsInv, TypeOK
<1>6. HoldPhase(reservation'[r]) = "held" BY <1>5, Phases
<1>7. Account!Hold(u, r, n)
  <2>1. [q \in Redemptions |-> HoldPhase(reservation[q])][r] = "new" BY <1>4
  <2>2. n > 0 /\ n <= [v \in Students |-> wallet[v].available][u] - Account!SetAside(u)
    BY <1>2, <1>3
  <2>3. [q \in Redemptions |-> redemptions[q].user]'
            = [[q \in Redemptions |-> redemptions[q].user] EXCEPT ![r] = u]
    BY <1>5
  <2>4. [q \in Redemptions |-> redemptions[q].points]'
            = [[q \in Redemptions |-> redemptions[q].points] EXCEPT ![r] = n]
    BY <1>5
  <2>5. [q \in Redemptions |-> HoldPhase(reservation[q])]'
            = [[q \in Redemptions |-> HoldPhase(reservation[q])] EXCEPT ![r] = "held"]
    BY <1>5, <1>6
  <2>6. UNCHANGED [v \in Students |-> wallet[v].available] BY <1>5
  <2> QED BY <2>1, <2>2, <2>3, <2>4, <2>5, <2>6 DEF Account!Hold
<1> QED BY <1>1, <1>7 DEF Account!AccountNext

LEMMA AccountSpend ==
    ASSUME PointsInv, NEW s \in Sessions, ApproveRedemption(s)
    PROVE  Account!AccountNext
<1>1. PICK r \in Redemptions : r = command[s].redemption
  BY DecidedRow DEF ApproveRedemption
<1>2. /\ seen[s].redemption = redemptions[r] /\ redemptions[r] \in Requests \ {NoRedemption}
      /\ redemptions[r].user = command[s].user /\ redemptions[r].user \in Students
      /\ redemptions[r].points \in Nat /\ redemptions[r].status = "REQUESTED"
  BY <1>1, DecidedRow DEF ApproveRedemption
<1>3. seen[s].wallet = wallet[redemptions[r].user]
  BY <1>2, Holds DEF ApproveRedemption, PointsInv, ReadsFresh, Fresh
<1>4. HoldPhase(reservation[r]) = "held"
  BY <1>2, Phases DEF PointsInv, ChargedExactlyOnce
<1>5. wallet \in [Students -> Wallets] /\ redemptions \in [Redemptions -> Requests]
      /\ reservation \in [Redemptions -> {"NONE", "ACTIVE", "RELEASED", "CONSUMED"}]
  BY DEF PointsInv, TypeOK
<1>6. /\ wallet'[redemptions[r].user].available =
             wallet[redemptions[r].user].available - redemptions[r].points
      /\ \A u \in Students \ {redemptions[r].user} : wallet'[u] = wallet[u]
  <2>1. PostEntry(s, Charge(r), redemptions[r].user, -redemptions[r].points, FALSE)
    BY <1>1, <1>2 DEF ApproveRedemption
  <2>2. wallet[redemptions[r].user].available \in Int BY <1>2, <1>5 DEF Wallets
  <2> QED BY <1>2, <1>3, <1>5, <2>1, <2>2 DEF PostEntry
<1>7. /\ redemptions'[r].user = redemptions[r].user /\ redemptions'[r].points = redemptions[r].points
      /\ reservation'[r] = "CONSUMED"
      /\ \A q \in Redemptions \ {r} :
             redemptions'[q] = redemptions[q] /\ reservation'[q] = reservation[q]
  BY <1>1, <1>2, <1>5 DEF ApproveRedemption, Requests
<1>8. HoldPhase(reservation'[r]) = "spent" BY <1>7, Phases
<1>9. Account!Spend(r)
  BY <1>2, <1>4, <1>6, <1>7, <1>8 DEF Account!Spend
<1> QED BY <1>9 DEF Account!AccountNext

LEMMA AccountRelease ==
    ASSUME PointsInv, NEW s \in Sessions, RejectRedemption(s)
    PROVE  Account!AccountNext
<1>1. PICK r \in Redemptions : r = command[s].redemption
  BY DecidedRow DEF RejectRedemption
<1>2. redemptions[r] \in Requests \ {NoRedemption} /\ redemptions[r].status = "REQUESTED"
  BY <1>1, DecidedRow DEF RejectRedemption
<1>3. HoldPhase(reservation[r]) = "held"
  BY <1>2, Phases DEF PointsInv, ChargedExactlyOnce
<1>4. /\ redemptions'[r].user = redemptions[r].user /\ redemptions'[r].points = redemptions[r].points
      /\ reservation'[r] = "RELEASED" /\ UNCHANGED wallet
      /\ \A q \in Redemptions \ {r} :
             redemptions'[q] = redemptions[q] /\ reservation'[q] = reservation[q]
  BY <1>1, <1>2 DEF RejectRedemption, Requests, PointsInv, TypeOK
<1>5. HoldPhase(reservation'[r]) = "released" BY <1>4, Phases
<1>6. Account!Release(r)
  BY <1>3, <1>4, <1>5 DEF Account!Release
<1> QED BY <1>6 DEF Account!AccountNext

LEMMA AccountStep ==
    ASSUME PointsInv, Next
    PROVE  [Account!AccountNext]_(Account!accountVars)
<1>1. ASSUME UNCHANGED <<wallet, redemptions, reservation>> PROVE UNCHANGED Account!accountVars
  BY <1>1, AccountStutter DEF PointsInv
<1>2. ASSUME NEW s \in Sessions, FulfillRedemption(s) PROVE UNCHANGED Account!accountVars
  <2> DEFINE r == command[s].redemption
  <2>1. r \in Redemptions /\ redemptions[r] \in Requests \ {NoRedemption}
    BY <1>2, DecidedRow DEF FulfillRedemption
  <2>2. /\ UNCHANGED <<wallet, reservation>>
        /\ redemptions' = [redemptions EXCEPT ![r].status = "FULFILLED"]
    BY <1>2 DEF FulfillRedemption
  <2>3. \A q \in Redemptions : /\ redemptions'[q].user = redemptions[q].user
                               /\ redemptions'[q].points = redemptions[q].points
    BY <2>1, <2>2 DEF PointsInv, TypeOK, Requests
  <2> QED BY <2>2, <2>3, AccountStutter DEF PointsInv
<1>3. ASSUME NEW s \in Sessions,
             GrantAssignmentReward(s) \/ ReverseAssignmentReward(s) \/ AdminAdjustPoints(s)
      PROVE  Account!AccountNext
  <2> DEFINE c == command[s]
  <2>1. \E ranks \in BOOLEAN : PostEntry(s, c.key, c.user, c.amount, ranks)
    BY <1>3 DEF GrantAssignmentReward, ReverseAssignmentReward, AdminAdjustPoints
  <2>2. c.op \in {"grant", "reverse", "adjust"} /\ HoldsAll(s) /\ UNCHANGED <<redemptions, reservation>>
    BY <1>3 DEF GrantAssignmentReward, ReverseAssignmentReward, AdminAdjustPoints
  <2> QED BY <2>1, <2>2, AccountEnter
<1>4. ASSUME NEW s \in Sessions, UpdateRewardItem(s) \/ DisableRewardItem(s) \/ Rollback(s)
      PROVE  UNCHANGED <<wallet, redemptions, reservation>>
  BY <1>4 DEF UpdateRewardItem, DisableRewardItem, Rollback, tables
<1>5. ASSUME NEW s \in Sessions, CommitAny(s) \/ Rollback(s)
      PROVE  [Account!AccountNext]_(Account!accountVars)
  BY <1>1, <1>2, <1>3, <1>4, <1>5, AccountHold, AccountSpend, AccountRelease DEF CommitAny
<1> QED BY <1>1, <1>5, OtherSteps

\* The points side implements the account: a redemption is requested only
\* against points the wallet holds and no other redemption has frozen, and
\* its points are given back or spent once.
THEOREM PointsRefineAccount == Spec => ImplementsAccount
<1>1. Init => Account!AccountInit
  BY Phases DEF Init, Account!AccountInit, NoWallet, NoRedemption
<1>2. PointsInv /\ [Next]_vars => [Account!AccountNext]_(Account!accountVars)
  <2>1. ASSUME PointsInv, Next PROVE [Account!AccountNext]_(Account!accountVars)
    BY <2>1, AccountStep
  <2>2. ASSUME PointsInv, UNCHANGED vars PROVE UNCHANGED Account!accountVars
    BY <2>2, AccountStutter DEF PointsInv, vars, tables
  <2> QED BY <2>1, <2>2
<1> QED BY <1>1, <1>2, PointsInvariant, PTL DEF Spec, ImplementsAccount, Account!AccountSpec

-----------------------------------------------------------------------------
(* Stock and term limits.                                                  *)

\* The redemptions an item counts, and those of a student in a term.
Takers(i) == {r \in Redemptions : redemptions[r].item = i /\ redemptions[r].status \in Occupying}

TakersOf(u, i, t) ==
    {r \in Redemptions : /\ redemptions[r].user = u /\ redemptions[r].item = i
                         /\ redemptions[r].term = t /\ redemptions[r].status \in Occupying}

LEMMA Counts ==
    /\ \A i : Occupied(i) = Cardinality(Takers(i)) /\ IsFiniteSet(Takers(i))
    /\ \A u, i, t : /\ Used(u, i, t) = Cardinality(TakersOf(u, i, t))
                    /\ IsFiniteSet(TakersOf(u, i, t))
<1>1. ASSUME NEW S \in SUBSET Redemptions PROVE IsFiniteSet(S)
  BY PointsAssumption, FS_Subset
<1>2. \A i : Takers(i) \in SUBSET Redemptions BY DEF Takers
<1>3. \A u, i, t : TakersOf(u, i, t) \in SUBSET Redemptions BY DEF TakersOf
<1> QED BY <1>1, <1>2, <1>3 DEF Occupied, Used, Takers, TakersOf

\* Without the item's lock a commit adds no taker of the item.
LEMMA TakersFall ==
    ASSUME PointsInv, NEW s \in Sessions, CommitAny(s) \/ Rollback(s),
           NEW i \in Items, lock[ItemRow(i)] # s
    PROVE  Takers(i)' \subseteq Takers(i) /\ \A u, t : TakersOf(u, i, t)' \subseteq TakersOf(u, i, t)
<1> DEFINE Stays(q) ==
        redemptions'[q].item = i /\ redemptions'[q].status \in Occupying =>
            /\ redemptions[q].status \in Occupying
            /\ redemptions[q].item = i /\ redemptions[q].user = redemptions'[q].user
            /\ redemptions[q].term = redemptions'[q].term
<1> SUFFICES \A q \in Redemptions : Stays(q)
  BY DEF Takers, TakersOf
<1>1. ASSUME NEW q \in Redemptions, redemptions'[q] = redemptions[q] PROVE Stays(q)
  BY <1>1
<1>2. ASSUME NEW r \in Redemptions, RequestRedemption(s, r) PROVE \A q \in Redemptions : Stays(q)
  <2>1. command[s].item # i BY <1>2, Holds DEF RequestRedemption
  <2>2. redemptions'[r].item # i /\ \A q \in Redemptions \ {r} : redemptions'[q] = redemptions[q]
    BY <1>2, <2>1 DEF RequestRedemption, PointsInv, TypeOK
  <2> QED BY <1>1, <2>2
<1>3. ASSUME NEW r \in Redemptions, NEW status, redemptions[r] \in Requests \ {NoRedemption},
             redemptions' = [redemptions EXCEPT ![r].status = status],
             redemptions[r].status \in Occupying
      PROVE  \A q \in Redemptions : Stays(q)
  <2>1. \A q \in Redemptions \ {r} : redemptions'[q] = redemptions[q]
    BY <1>3 DEF PointsInv, TypeOK
  <2>2. redemptions'[r] = [redemptions[r] EXCEPT !.status = status]
    BY <1>3 DEF PointsInv, TypeOK
  <2>3. Stays(r) BY <1>3, <2>2 DEF Requests
  <2> QED BY <1>1, <2>1, <2>3
<1>4. ASSUME ApproveRedemption(s) \/ RejectRedemption(s) \/ FulfillRedemption(s)
      PROVE  \A q \in Redemptions : Stays(q)
  <2>1. PICK r \in Redemptions : r = command[s].redemption
    BY <1>4, DecidedRow DEF ApproveRedemption, RejectRedemption, FulfillRedemption
  <2>2. redemptions[r] \in Requests \ {NoRedemption} /\ redemptions[r].status \in Occupying
    BY <1>4, <2>1, DecidedRow
       DEF ApproveRedemption, RejectRedemption, FulfillRedemption, Occupying
  <2>3. PICK status \in {"APPROVED", "REJECTED", "FULFILLED"} :
            redemptions' = [redemptions EXCEPT ![r].status = status]
    BY <1>4, <2>1 DEF ApproveRedemption, RejectRedemption, FulfillRedemption
  <2> QED BY <1>3, <2>2, <2>3
<1>5. ASSUME UNCHANGED redemptions PROVE \A q \in Redemptions : Stays(q)
  BY <1>1, <1>5
<1> QED BY <1>2, <1>4, <1>5 DEF CommitAny, Rollback, tables, GrantAssignmentReward,
           ReverseAssignmentReward, AdminAdjustPoints, UpdateRewardItem, DisableRewardItem

LEMMA CountsFall ==
    ASSUME PointsInv, NEW s \in Sessions, CommitAny(s) \/ Rollback(s),
           NEW i \in Items, lock[ItemRow(i)] # s
    PROVE  /\ Occupied(i)' <= Occupied(i)
           /\ \A u, t : Used(u, i, t)' <= Used(u, i, t)
<1>1. ASSUME NEW S, NEW T, IsFiniteSet(T), S \subseteq T PROVE Cardinality(S) <= Cardinality(T)
  BY <1>1, FS_Subset
<1>2. /\ Occupied(i)' = Cardinality(Takers(i)')
      /\ \A u, t : Used(u, i, t)' = Cardinality(TakersOf(u, i, t)')
  BY DEF Occupied, Used, Takers, TakersOf
<1> QED BY <1>1, <1>2, Counts, TakersFall

\* A request adds one taker, of its item, student and term.
LEMMA RequestAdds ==
    ASSUME PointsInv, NEW s \in Sessions, NEW r \in Redemptions, RequestRedemption(s, r),
           NEW u, NEW i, NEW t, u = command[s].user, i = command[s].item, t = command[s].term
    PROVE  /\ Occupied(i)' = Occupied(i) + 1
           /\ Used(u, i, t)' = Used(u, i, t) + 1
           /\ \A v, n : <<v, n>> # <<u, t>> => Used(v, i, n)' = Used(v, i, n)
<1>1. redemptions[r].status = "NONE" /\ redemptions'[r].status = "REQUESTED"
      /\ redemptions'[r].item = i /\ redemptions'[r].user = u /\ redemptions'[r].term = t
      /\ \A q \in Redemptions \ {r} : redemptions'[q] = redemptions[q]
  BY DEF RequestRedemption, PointsInv, TypeOK
<1>2. Takers(i)' = Takers(i) \cup {r} /\ r \notin Takers(i)
  BY <1>1 DEF Takers, Occupying
<1>3. TakersOf(u, i, t)' = TakersOf(u, i, t) \cup {r} /\ r \notin TakersOf(u, i, t)
  BY <1>1 DEF TakersOf, Occupying
<1>4. \A v, n : <<v, n>> # <<u, t>> => TakersOf(v, i, n)' = TakersOf(v, i, n)
  BY <1>1 DEF TakersOf, Occupying
<1>5. /\ Occupied(i)' = Cardinality(Takers(i)')
      /\ \A v, n : Used(v, i, n)' = Cardinality(TakersOf(v, i, n)')
  BY DEF Occupied, Used, Takers, TakersOf
<1>6. Occupied(i)' = Occupied(i) + 1
  <2>1. IsFiniteSet(Takers(i)) /\ Occupied(i) = Cardinality(Takers(i)) BY Counts
  <2>2. Cardinality(Takers(i) \cup {r}) = Cardinality(Takers(i)) + 1
    BY <1>2, <2>1, FS_AddElement
  <2> QED BY <1>2, <1>5, <2>1, <2>2
<1>7. Used(u, i, t)' = Used(u, i, t) + 1
  <2>1. IsFiniteSet(TakersOf(u, i, t)) /\ Used(u, i, t) = Cardinality(TakersOf(u, i, t)) BY Counts
  <2>2. Cardinality(TakersOf(u, i, t) \cup {r}) = Cardinality(TakersOf(u, i, t)) + 1
    BY <1>3, <2>1, FS_AddElement
  <2> QED BY <1>3, <1>5, <2>1, <2>2
<1>8. \A v, n : <<v, n>> # <<u, t>> => Used(v, i, n)' = Used(v, i, n) BY <1>4, <1>5, Counts
<1> QED BY <1>6, <1>7, <1>8

\* A request that holds its item has not undercounted: what it read can only
\* have fallen, by a rejection.
Counted(s) ==
    LET c == command[s] IN
    \A u \in Students, i \in Items, n \in Terms :
        c.op = "request" /\ c.user = u /\ c.item = i /\ c.term = n /\ lock[ItemRow(i)] = s =>
            Occupied(i) <= seen[s].occupied /\ Used(u, i, n) <= seen[s].used

AllCounted == \A s \in Sessions : Counted(s)

LEMMA CountedStep ==
    ASSUME PointsInv, AllCounted, Next
    PROVE  AllCounted'
<1> USE RowTypes, RowsDiffer
<1> SUFFICES ASSUME NEW t \in Sessions, NEW u \in Students, NEW i \in Items, NEW n \in Terms,
                    command'[t].op = "request", command'[t].user = u, command'[t].item = i,
                    command'[t].term = n, lock'[ItemRow(i)] = t
             PROVE  Occupied(i)' <= seen'[t].occupied /\ Used(u, i, n)' <= seen'[t].used
  BY DEF AllCounted, Counted
<1>1. command[t] \in Commands /\ seen[t] \in Readings BY DEF PointsInv, TypeOK
<1>2. ASSUME command'[t] = command[t], seen'[t] = seen[t], lock[ItemRow(i)] = t,
             Occupied(i)' <= Occupied(i), Used(u, i, n)' <= Used(u, i, n)
      PROVE  Occupied(i)' <= seen'[t].occupied /\ Used(u, i, n)' <= seen'[t].used
  <2>1. Occupied(i) <= seen[t].occupied /\ Used(u, i, n) <= seen[t].used
    BY <1>2 DEF AllCounted, Counted
  <2>2. /\ Occupied(i) \in Nat /\ Used(u, i, n) \in Nat
        /\ seen[t].occupied \in Nat /\ seen[t].used \in Nat
    BY <1>1, CountTypes DEF Readings
  <2>3. Occupied(i)' \in Nat /\ Used(u, i, n)' \in Nat
    <3>1. ASSUME NEW S \in SUBSET Redemptions PROVE Cardinality(S) \in Nat
      BY PointsAssumption, FS_Subset, FS_CardinalityType
    <3> QED BY <3>1 DEF Occupied, Used
  <2> QED BY <1>2, <2>1, <2>2, <2>3
<1>3. ASSUME command'[t] = command[t], seen'[t] = seen[t], lock[ItemRow(i)] = t, UNCHANGED redemptions
      PROVE  Occupied(i)' <= seen'[t].occupied /\ Used(u, i, n)' <= seen'[t].used
  <2>1. Occupied(i)' = Occupied(i) /\ Used(u, i, n)' = Used(u, i, n)
    BY <1>3 DEF Occupied, Used
  <2> QED BY <1>3, <2>1 DEF AllCounted, Counted
<1>4. ASSUME NEW s \in Sessions, BeginAny(s)
      PROVE  Occupied(i)' <= seen'[t].occupied /\ Used(u, i, n)' <= seen'[t].used
  <2>1. command[s] = Idle /\ UNCHANGED tables
    <3>1. CASE Unlocked(s) BY <3>1, UnlockedBegins
    <3> QED BY <1>4, <3>1 DEF BeginAny, Unlocked, BeginDecision, BeginUpdate, BeginDisable, BeginLocked
  <2>2. CASE t = s
    <3>1. lock[ItemRow(i)] # t BY <2>1, <2>2, IdleHoldsNothing
    <3>2. ~Unlocked(s) BY <2>2, <3>1, UnlockedBegins
    <3>3. command'[s].op # "request"
      BY <1>4, <3>2 DEF BeginAny, Unlocked, BeginDecision, BeginUpdate, BeginDisable, BeginLocked,
         PointsInv, TypeOK
    <3> QED BY <2>2, <3>3
  <2>3. CASE t # s
    <3>1. command'[t] = command[t] /\ seen'[t] = seen[t] /\ lock[ItemRow(i)] = t
      <4>1. CASE Unlocked(s) BY <2>3, <4>1, UnlockedBegins DEF PointsInv, TypeOK
      <4> QED BY <1>4, <2>3, <4>1 DEF BeginAny, Unlocked, BeginDecision, BeginUpdate, BeginDisable,
                 BeginLocked, PointsInv, TypeOK
    <3> QED BY <1>3, <2>1, <3>1 DEF tables
  <2> QED BY <2>2, <2>3
<1>5. ASSUME NEW s \in Sessions, NEW v \in Students, LockWallet(s, v)
      PROVE  Occupied(i)' <= seen'[t].occupied /\ Used(u, i, n)' <= seen'[t].used
  <2>1. /\ command' = command /\ UNCHANGED redemptions /\ lock[ItemRow(i)] = t
        /\ seen'[t].occupied = seen[t].occupied /\ seen'[t].used = seen[t].used
    BY <1>5 DEF LockWallet, Take, tables, PointsInv, TypeOK, Readings
  <2>2. Occupied(i)' = Occupied(i) /\ Used(u, i, n)' = Used(u, i, n)
    BY <2>1 DEF Occupied, Used
  <2> QED BY <2>1, <2>2 DEF AllCounted, Counted
<1>6. ASSUME NEW s \in Sessions, NEW j \in Items, LockItem(s, j)
      PROVE  Occupied(i)' <= seen'[t].occupied /\ Used(u, i, n)' <= seen'[t].used
  <2>1. /\ command' = command /\ UNCHANGED redemptions
        /\ lock' = [lock EXCEPT ![ItemRow(j)] = s] /\ WaitsFor(s, ItemRow(j))
    BY <1>6 DEF LockItem, Take, tables
  <2>2. Occupied(i)' = Occupied(i) /\ Used(u, i, n)' = Used(u, i, n)
    BY <2>1 DEF Occupied, Used
  <2>3. CASE t = s
    <3>1. j = i
      BY <1>1, <2>1, <2>3, Waits
    <3>2. seen'[t].occupied = Occupied(i) /\ seen'[t].used = Used(u, i, n)
      BY <1>6, <2>1, <2>3, <3>1 DEF LockItem, PointsInv, TypeOK, Readings
    <3>3. Occupied(i) \in Nat /\ Used(u, i, n) \in Nat BY CountTypes
    <3> QED BY <2>2, <3>2, <3>3
  <2>4. CASE t # s
    <3>1. lock[ItemRow(i)] = t /\ seen'[t] = seen[t]
      BY <1>6, <2>1, <2>4 DEF LockItem, PointsInv, TypeOK
    <3> QED BY <1>3, <2>1, <3>1
  <2> QED BY <2>3, <2>4
<1>7. ASSUME NEW s \in Sessions, CommitAny(s) \/ Rollback(s)
      PROVE  Occupied(i)' <= seen'[t].occupied /\ Used(u, i, n)' <= seen'[t].used
  <2>1. Finish(s) BY <1>7, CommitWrites
  <2>2. t # s BY <2>1, FinishLocks DEF Idle
  <2>3. command'[t] = command[t] /\ seen'[t] = seen[t] BY <2>1, <2>2, FinishLocks
  <2>4. lock[ItemRow(i)] = t BY <2>1, FinishLocks, PointsAssumption
  <2>5. Occupied(i)' <= Occupied(i) /\ Used(u, i, n)' <= Used(u, i, n)
    BY <1>7, <2>2, <2>4, CountsFall
  <2> QED BY <1>2, <2>3, <2>4, <2>5
<1>8. ASSUME \/ \E j \in Items, offer \in Offers : CreateRewardItem(j, offer)
             \/ \E v \in Terms : SwitchTerm(v)
      PROVE  Occupied(i)' <= seen'[t].occupied /\ Used(u, i, n)' <= seen'[t].used
  BY <1>3, <1>8 DEF CreateRewardItem, SwitchTerm
<1> QED BY <1>4, <1>5, <1>6, <1>7, <1>8 DEF Next, LockAny

LEMMA CountedAlways == Spec => []AllCounted
<1>1. Init => AllCounted BY DEF Init, AllCounted, Counted, Idle
<1>2. PointsInv /\ AllCounted /\ [Next]_vars => AllCounted'
  <2>1. ASSUME PointsInv, AllCounted, UNCHANGED vars PROVE AllCounted'
    BY <2>1 DEF AllCounted, Counted, Occupied, Used, vars, tables
  <2> QED BY <2>1, CountedStep
<1> QED BY <1>1, <1>2, PointsInvariant, PTL DEF Spec

\* What raises a count is a request that holds the item, and it checked.
LEMMA LimitsStep ==
    ASSUME PointsInv, AllCounted, [Next]_vars, NEW i \in Items
    PROVE  /\ Occupied(i)' > Occupied(i) =>
                  items[i].offer.stock = Unlimited \/ Occupied(i)' <= items[i].offer.stock
           /\ \A u \in Students, n \in Terms :
                  Used(u, i, n)' > Used(u, i, n) =>
                      items[i].offer.limit = Unlimited \/ Used(u, i, n)' <= items[i].offer.limit
<1>1. Occupied(i) \in Nat /\ \A u, n : Used(u, i, n) \in Nat BY CountTypes
<1>2. Occupied(i)' \in Nat /\ \A u, n : Used(u, i, n)' \in Nat
  <2>1. ASSUME NEW S \in SUBSET Redemptions PROVE Cardinality(S) \in Nat
    BY PointsAssumption, FS_Subset, FS_CardinalityType
  <2> QED BY <2>1 DEF Occupied, Used
<1>3. CASE UNCHANGED redemptions
  <2>1. Occupied(i)' = Occupied(i) /\ \A u, n : Used(u, i, n)' = Used(u, i, n)
    BY <1>3 DEF Occupied, Used
  <2> QED BY <1>1, <2>1
<1>4. ASSUME NEW s \in Sessions, CommitAny(s) \/ Rollback(s), lock[ItemRow(i)] # s
      PROVE  /\ ~(Occupied(i)' > Occupied(i))
             /\ \A u, n : ~(Used(u, i, n)' > Used(u, i, n))
  BY <1>1, <1>2, <1>4, CountsFall
<1>5. ASSUME NEW s \in Sessions, NEW r \in Redemptions, RequestRedemption(s, r),
             lock[ItemRow(i)] = s
      PROVE  /\ items[i].offer.stock = Unlimited \/ Occupied(i)' <= items[i].offer.stock
             /\ \A u \in Students, n \in Terms :
                    Used(u, i, n)' > Used(u, i, n) =>
                        items[i].offer.limit = Unlimited \/ Used(u, i, n)' <= items[i].offer.limit
  <2>1. PICK v \in Students, t \in Terms :
            v = command[s].user /\ t = command[s].term /\ i = command[s].item
    BY <1>5, OfferRead DEF RequestRedemption, PointsInv, LocksMatch
  <2>2. seen[s].item = items[i] /\ items[i].offer \in Offers
    BY <1>5, <2>1, OfferRead DEF RequestRedemption
  <2>3. Occupied(i) <= seen[s].occupied /\ Used(v, i, t) <= seen[s].used
    BY <1>5, <2>1 DEF AllCounted, Counted, RequestRedemption
  <2>4. seen[s].occupied \in Nat /\ seen[s].used \in Nat
    BY DEF PointsInv, TypeOK, Readings
  <2>5. /\ items[i].offer.stock \in Nat \cup {Unlimited}
        /\ items[i].offer.limit \in Nat \cup {Unlimited}
    BY <2>2, PointsAssumption
  <2>6. /\ items[i].offer.stock = Unlimited \/ seen[s].occupied < items[i].offer.stock
        /\ items[i].offer.limit = Unlimited \/ seen[s].used < items[i].offer.limit
    BY <1>5, <2>2 DEF RequestRedemption, Within
  <2>7. /\ Occupied(i)' = Occupied(i) + 1 /\ Used(v, i, t)' = Used(v, i, t) + 1
        /\ \A u, n : <<u, n>> # <<v, t>> => Used(u, i, n)' = Used(u, i, n)
    BY <1>5, <2>1, RequestAdds
  <2>8. items[i].offer.stock = Unlimited \/ Occupied(i)' <= items[i].offer.stock
    BY <1>1, <2>3, <2>4, <2>5, <2>6, <2>7
  <2>9. items[i].offer.limit = Unlimited \/ Used(v, i, t)' <= items[i].offer.limit
    BY <1>1, <2>3, <2>4, <2>5, <2>6, <2>7
  <2>10. ASSUME NEW u \in Students, NEW n \in Terms, Used(u, i, n)' > Used(u, i, n)
         PROVE  u = v /\ n = t
    BY <1>1, <2>7, <2>10
  <2> QED BY <2>8, <2>9, <2>10
<1>6. ASSUME NEW s \in Sessions, CommitAny(s) \/ Rollback(s), lock[ItemRow(i)] = s,
             \A r \in Redemptions : ~RequestRedemption(s, r)
      PROVE  UNCHANGED redemptions
  <2>1. command[s].op \in {"request", "update", "disable"}
    BY <1>6 DEF PointsInv, LocksMatch
  <2> QED BY <1>6, <2>1 DEF CommitAny, Rollback, tables, ApproveRedemption, RejectRedemption,
             FulfillRedemption, GrantAssignmentReward, ReverseAssignmentReward,
             AdminAdjustPoints, UpdateRewardItem, DisableRewardItem
<1>7. ASSUME NEW s \in Sessions, CommitAny(s) \/ Rollback(s)
      PROVE  /\ Occupied(i)' > Occupied(i) =>
                    items[i].offer.stock = Unlimited \/ Occupied(i)' <= items[i].offer.stock
             /\ \A u \in Students, n \in Terms :
                    Used(u, i, n)' > Used(u, i, n) =>
                        items[i].offer.limit = Unlimited \/ Used(u, i, n)' <= items[i].offer.limit
  BY <1>3, <1>4, <1>5, <1>6, <1>7
<1> QED BY <1>3, <1>7, OtherSteps DEF vars, tables

\* request_redemption: the stock of an item is never oversold, although a
\* rejection gives stock back without the item's lock.
THEOREM NeverOversold == Spec => StockNeverOversold
<1>1. PointsInv /\ AllCounted /\ [Next]_vars =>
          \A i \in Items : Occupied(i)' > Occupied(i) =>
              items[i].offer.stock = Unlimited \/ Occupied(i)' <= items[i].offer.stock
  BY LimitsStep
<1> QED BY <1>1, PointsInvariant, CountedAlways, PTL DEF Spec, StockNeverOversold

\* request_redemption: nor is the number one student may redeem in one term,
\* in the term the request read before it waited for its locks.
THEOREM TermLimitKept == Spec => TermLimitHolds
<1>1. PointsInv /\ AllCounted /\ [Next]_vars =>
          \A u \in Students, i \in Items, t \in Terms :
              Used(u, i, t)' > Used(u, i, t) =>
                  items[i].offer.limit = Unlimited \/ Used(u, i, t)' <= items[i].offer.limit
  BY LimitsStep
<1> QED BY <1>1, PointsInvariant, CountedAlways, PTL DEF Spec, TermLimitHolds

\* No request takes an item past its stock, or a student past the limit.
THEOREM LimitsKept == Spec => WithinLimits
BY NeverOversold, TermLimitKept DEF WithinLimits

\* Entries and decisions stand once they are recorded.
THEOREM HistoryAlwaysStands == Spec => HistoryStands
BY LedgerGrows, DecisionsFinal DEF HistoryStands

-----------------------------------------------------------------------------
(* Sums over finite sets.  The library defines one by a recursive function  *)
(* that chooses an element at a time; what it adds up to does not depend on *)
(* the choice.  Each induction looks at a smallest set for which the claim  *)
(* would fail.                                                              *)

Picked(T) == CHOOSE x \in T : TRUE

Summed(g, f, T) == IF T = {} THEN 0 ELSE f[Picked(T)] + g[T \ {Picked(T)}]

IsSum(g, f, S) == g = [T \in SUBSET S |-> Summed(g, f, T)]

LEMMA TotalIs ==
    ASSUME NEW f, NEW S
    PROVE  Total(f, S) = (CHOOSE g : IsSum(g, f, S))[S]
BY DEF Total, MapThenSumSet, MapThenFoldSet, IsSum, Summed, Picked

LEMMA PickedIn == ASSUME NEW T, T # {} PROVE Picked(T) \in T
BY DEF Picked

LEMMA SmallestSet ==
    ASSUME NEW S, IsFiniteSet(S), NEW D \in SUBSET SUBSET S, D # {}
    PROVE  \E T \in D : \A U \in SUBSET T : U # T => U \notin D
<1>1. IsWellFoundedOn(StrictSubsetOrdering(S), FiniteSubsetsOf(S))
  BY FS_StrictSubsetOrderingWellFounded
<1>2. D \subseteq FiniteSubsetsOf(S) BY FS_Subset DEF FiniteSubsetsOf
<1>3. PICK T \in D : \A U \in D : <<U, T>> \notin StrictSubsetOrdering(S)
  BY <1>1, <1>2, WFMin
<1>4. ASSUME NEW U \in SUBSET T, U # T, U \in D PROVE FALSE
  <2>1. <<U, T>> \in StrictSubsetOrdering(S) BY <1>4 DEF StrictSubsetOrdering
  <2> QED BY <1>3, <1>4, <2>1
<1> QED BY <1>4

LEMMA SmallestNumber ==
    ASSUME NEW D \in SUBSET Nat, D # {}
    PROVE  \E n \in D : \A m \in D : n <= m
<1>1. PICK n \in D : \A m \in D : <<m, n>> \notin OpToRel(<, Nat)
  BY NatLessThanWellFounded, WFMin, Zenon
<1>2. \A m \in D : m < n => <<m, n>> \in OpToRel(<, Nat) BY Zenon DEF OpToRel
<1>3. \A m \in D : ~(m < n) BY <1>1, <1>2, Zenon
<1> QED BY <1>3

LEMMA SumExists ==
    ASSUME NEW S, IsFiniteSet(S), NEW f, \A x \in S : f[x] \in Int
    PROVE  \E g \in [SUBSET S -> Int] : IsSum(g, f, S)
<1> DEFINE Small(n) == {T \in SUBSET S : Cardinality(T) <= n}
           Part(n) == \E g \in [Small(n) -> Int] : \A T \in Small(n) : g[T] = Summed(g, f, T)
           D == {n \in Nat : ~Part(n)}
<1>1. \A T \in SUBSET S : IsFiniteSet(T) /\ Cardinality(T) \in Nat BY FS_Subset, FS_CardinalityType
<1>2. Cardinality({}) = 0 /\ \A T \in SUBSET S : Cardinality(T) = 0 => T = {}
  BY <1>1, FS_EmptySet
<1>3. Part(0)
  <2>1. Small(0) = {{}} BY <1>1, <1>2
  <2>2. [T \in Small(0) |-> 0] \in [Small(0) -> Int] OBVIOUS
  <2> QED BY <2>1, <2>2 DEF Summed
<1>4. ASSUME NEW n \in Nat, Part(n) PROVE Part(n + 1)
  <2>1. PICK g \in [Small(n) -> Int] : \A T \in Small(n) : g[T] = Summed(g, f, T) BY <1>4
  <2> DEFINE h == [T \in Small(n + 1) |-> Summed(g, f, T)]
  <2>2. ASSUME NEW T \in Small(n + 1), T # {}
        PROVE  T \ {Picked(T)} \in Small(n) /\ Picked(T) \in S
    <3>1. Picked(T) \in T BY <2>2, PickedIn
    <3>2. T \in SUBSET S BY <2>2
    <3>3. Cardinality(T \ {Picked(T)}) = Cardinality(T) - 1 BY <1>1, <3>1, <3>2, FS_RemoveElement
    <3> QED BY <1>1, <2>2, <3>1, <3>2, <3>3
  <2>3. \A T \in Small(n + 1) : Summed(g, f, T) \in Int BY <2>2 DEF Summed
  <2>4. h \in [Small(n + 1) -> Int] BY <2>3
  <2>5. \A T \in Small(n) : T \in Small(n + 1) /\ h[T] = g[T] BY <1>1, <2>1
  <2>6. ASSUME NEW T \in Small(n + 1) PROVE h[T] = Summed(h, f, T)
    <3>1. h[T] = Summed(g, f, T) OBVIOUS
    <3>2. T # {} => h[T \ {Picked(T)}] = g[T \ {Picked(T)}] BY <2>2, <2>5
    <3> HIDE DEF h
    <3> QED BY <3>1, <3>2 DEF Summed
  <2> HIDE DEF h
  <2> QED BY <2>4, <2>6
<1>5. \A n \in Nat : Part(n)
  <2>1. SUFFICES ASSUME D # {} PROVE FALSE OBVIOUS
  <2> HIDE DEF Part
  <2>2. PICK n \in D : \A m \in D : n <= m BY <2>1, SmallestNumber
  <2>3. n # 0 BY <1>3
  <2>4. n - 1 \in Nat /\ n - 1 \notin D BY <2>2, <2>3
  <2>5. Part(n - 1) BY <2>4
  <2>6. Part((n - 1) + 1) BY <1>4, <2>4, <2>5
  <2> QED BY <2>6
<1> DEFINE all == Cardinality(S)
<1>6. Cardinality(S) \in Nat BY FS_CardinalityType
<1>7. Small(Cardinality(S)) = SUBSET S BY <1>1, FS_Subset
<1>8. PICK g \in [SUBSET S -> Int] : \A T \in SUBSET S : g[T] = Summed(g, f, T)
  <2>1. Part(Cardinality(S)) BY <1>5, <1>6
  <2> QED BY <1>7, <2>1
<1>9. g = [T \in SUBSET S |-> Summed(g, f, T)] BY <1>8
<1> QED BY <1>9 DEF IsSum

\* The sum over a set, from that over what is left when one element is picked.
LEMMA TotalPicks ==
    ASSUME NEW S, IsFiniteSet(S), NEW f, \A x \in S : f[x] \in Int
    PROVE  /\ Total(f, S) \in Int
           /\ Total(f, S) = IF S = {} THEN 0 ELSE f[Picked(S)] + Total(f, S \ {Picked(S)})
<1> DEFINE sum(T) == CHOOSE g : IsSum(g, f, T)
<1>1. ASSUME NEW T \in SUBSET S
      PROVE  /\ \E g \in [SUBSET T -> Int] : IsSum(g, f, T)
             /\ IsSum(sum(T), f, T)
  <2>1. IsFiniteSet(T) /\ \A x \in T : f[x] \in Int BY FS_Subset
  <2>2. \E g \in [SUBSET T -> Int] : IsSum(g, f, T) BY <2>1, SumExists
  <2> QED BY <2>2
<1>2. ASSUME NEW T \in SUBSET S, NEW g, IsSum(g, f, S), NEW h, IsSum(h, f, T)
      PROVE  \A U \in SUBSET T : g[U] = h[U]
  <2> DEFINE D == {U \in SUBSET T : g[U] # h[U]}
  <2>1. SUFFICES ASSUME D # {} PROVE FALSE OBVIOUS
  <2>2. IsFiniteSet(T) BY FS_Subset
  <2>3. PICK U \in D : \A V \in SUBSET U : V # U => V \notin D
    <3>1. D \in SUBSET SUBSET T OBVIOUS
    <3> HIDE DEF D
    <3> QED BY <2>1, <2>2, <3>1, SmallestSet
  <2>4. g[U] = Summed(g, f, U) /\ h[U] = Summed(h, f, U) BY <1>2 DEF IsSum
  <2>5. U # {} => g[U \ {Picked(U)}] = h[U \ {Picked(U)}] BY <2>3, PickedIn
  <2> QED BY <2>4, <2>5 DEF Summed
<1>3. PICK g \in [SUBSET S -> Int] : IsSum(g, f, S) BY <1>1
<1>4. \A T \in SUBSET S : Total(f, T) = g[T]
  <2>1. ASSUME NEW T \in SUBSET S PROVE Total(f, T) = g[T]
    <3>1. Total(f, T) = sum(T)[T] BY TotalIs
    <3>2. IsSum(sum(T), f, T) BY <1>1
    <3> HIDE DEF sum
    <3> QED BY <1>2, <1>3, <3>1, <3>2
  <2> QED BY <2>1
<1>5. g[S] = Summed(g, f, S) BY <1>3 DEF IsSum
<1>6. Total(f, S \ {Picked(S)}) = g[S \ {Picked(S)}] /\ Total(f, S) = g[S] BY <1>4
<1> QED BY <1>3, <1>5, <1>6 DEF Summed

\* Any element may be the one that is picked.
LEMMA TotalRemoves ==
    ASSUME NEW S, IsFiniteSet(S), NEW f, \A x \in S : f[x] \in Int, NEW x \in S
    PROVE  Total(f, S) = f[x] + Total(f, S \ {x})
<1> DEFINE RemovesAny(T) == \A y \in T : Total(f, T) = f[y] + Total(f, T \ {y})
           D == {T \in SUBSET S : ~RemovesAny(T)}
<1>1. \A T \in SUBSET S : IsFiniteSet(T) /\ \A y \in T : f[y] \in Int BY FS_Subset
<1>2. ASSUME D # {} PROVE FALSE
  <2>1. PICK T \in D : \A U \in SUBSET T : U # T => U \notin D
    <3>1. D \in SUBSET SUBSET S OBVIOUS
    <3> HIDE DEF D
    <3> QED BY <1>2, <3>1, SmallestSet
  <2>2. PICK y \in T : Total(f, T) # f[y] + Total(f, T \ {y}) BY <2>1
  <2> DEFINE p == Picked(T)
  <2>3. p \in T BY <2>2, PickedIn
  <2> HIDE DEF p
  <2>4. Total(f, T) = f[p] + Total(f, T \ {p})
    BY <1>1, <2>2, TotalPicks DEF p
  <2>5. p # y BY <2>2, <2>4
  <2>6. Total(f, T \ {p}) = f[y] + Total(f, (T \ {p}) \ {y}) BY <2>1, <2>3, <2>5
  <2>7. Total(f, T \ {y}) = f[p] + Total(f, (T \ {y}) \ {p}) BY <2>1, <2>2, <2>3, <2>5
  <2>8. (T \ {p}) \ {y} = (T \ {y}) \ {p} OBVIOUS
  <2>9. Total(f, (T \ {y}) \ {p}) \in Int /\ f[p] \in Int /\ f[y] \in Int
    <3>1. (T \ {y}) \ {p} \in SUBSET S BY <2>1
    <3> QED BY <1>1, <2>1, <2>3, <3>1, TotalPicks
  <2> DEFINE whole == Total(f, T)
             less(z) == Total(f, T \ {z})
             rest == Total(f, (T \ {y}) \ {p})
  <2>10. whole = f[p] + less(p) /\ less(p) = f[y] + rest /\ less(y) = f[p] + rest
    BY <2>4, <2>6, <2>7, <2>8
  <2>11. rest \in Int /\ f[p] \in Int /\ f[y] \in Int /\ whole # f[y] + less(y) BY <2>2, <2>9
  <2> HIDE DEF whole, less, rest
  <2> QED BY <2>10, <2>11
<1> QED BY <1>2

LEMMA TotalSame ==
    ASSUME NEW S, IsFiniteSet(S), NEW f, NEW h,
           \A x \in S : f[x] \in Int /\ h[x] = f[x]
    PROVE  Total(h, S) = Total(f, S)
<1> DEFINE D == {T \in SUBSET S : Total(h, T) # Total(f, T)}
<1>1. ASSUME D # {} PROVE FALSE
  <2>1. PICK T \in D : \A U \in SUBSET T : U # T => U \notin D
    <3>1. D \in SUBSET SUBSET S OBVIOUS
    <3> HIDE DEF D
    <3> QED BY <1>1, <3>1, SmallestSet
  <2>2. IsFiniteSet(T) /\ \A x \in T : f[x] \in Int /\ h[x] \in Int /\ h[x] = f[x]
    BY <2>1, FS_Subset
  <2>3. Total(f, T) = (IF T = {} THEN 0 ELSE f[Picked(T)] + Total(f, T \ {Picked(T)}))
    BY <2>2, TotalPicks
  <2>4. Total(h, T) = (IF T = {} THEN 0 ELSE h[Picked(T)] + Total(h, T \ {Picked(T)}))
    BY <2>2, TotalPicks
  <2>5. T # {} => /\ Total(h, T \ {Picked(T)}) = Total(f, T \ {Picked(T)})
                  /\ h[Picked(T)] = f[Picked(T)]
    BY <2>1, <2>2, PickedIn
  <2> QED BY <2>1, <2>3, <2>4, <2>5
<1> QED BY <1>1

\* One element more, and the others as they were.
LEMMA TotalAdds ==
    ASSUME NEW S, IsFiniteSet(S), NEW f, NEW h, NEW k, k \notin S, h[k] \in Int,
           \A x \in S : f[x] \in Int /\ h[x] = f[x]
    PROVE  Total(h, S \cup {k}) = Total(f, S) + h[k]
<1>1. IsFiniteSet(S \cup {k}) BY FS_AddElement
<1>2. \A x \in S \cup {k} : h[x] \in Int OBVIOUS
<1>3. Total(h, S \cup {k}) = h[k] + Total(h, (S \cup {k}) \ {k}) BY <1>1, <1>2, TotalRemoves
<1>4. (S \cup {k}) \ {k} = S OBVIOUS
<1>5. Total(h, S) = Total(f, S) BY TotalSame
<1>6. Total(f, S) \in Int BY TotalPicks
<1> DEFINE total == Total(f, S)
<1>7. total \in Int /\ Total(h, S \cup {k}) = h[k] + total BY <1>3, <1>4, <1>5, <1>6
<1>8. h[k] + total = total + h[k] BY <1>7
<1> QED BY <1>7, <1>8

-----------------------------------------------------------------------------
(* The wallet is the sum of the ledger.                                    *)

EntriesIn(l, u, keys) == {k \in keys : l[k].user = u}
SumIn(l, u, keys) == Total([k \in EntryKeys |-> l[k].amount], EntriesIn(l, u, keys))

RewardKeys == {Reward(c) : c \in Claims}

\* The sums are over finite sets: every commit adds one entry.
FewEntries == \A u \in Students : IsFiniteSet(EntriesIn(ledger, u, EntryKeys))

WalletInv == PointsInv /\ FewEntries /\ WalletMatchesLedger

\* What one entry adds to the sums of a student.
LEMMA EntryAdds ==
    ASSUME NEW l \in [EntryKeys -> Entry], NEW m \in [EntryKeys -> Entry],
           NEW key \in EntryKeys, NEW v \in Students, NEW n \in Int,
           l[key] = NoEntry, m[key] = [user |-> v, amount |-> n],
           \A k \in EntryKeys \ {key} : m[k] = l[k],
           NEW u \in Students, NEW keys \in SUBSET EntryKeys, IsFiniteSet(EntriesIn(l, u, keys))
    PROVE  /\ IsFiniteSet(EntriesIn(m, u, keys))
           /\ SumIn(l, u, keys) \in Int
           /\ SumIn(m, u, keys) = SumIn(l, u, keys) + (IF u = v /\ key \in keys THEN n ELSE 0)
<1> DEFINE S == EntriesIn(l, u, keys)
           f == [k \in EntryKeys |-> l[k].amount]
           h == [k \in EntryKeys |-> m[k].amount]
<1>0. IsFiniteSet(S) OBVIOUS
<1>1. \A k \in EntryKeys : f[k] \in Int /\ h[k] \in Int BY DEF Entry, NoEntry
<1>2. key \notin S /\ l[key].user # u BY PointsAssumption DEF EntriesIn, NoEntry
<1>3. \A k \in S : k \in EntryKeys /\ k # key /\ f[k] \in Int /\ h[k] = f[k]
  BY <1>1, <1>2 DEF EntriesIn
<1>4. h[key] = n OBVIOUS
<1>5. SumIn(l, u, keys) = Total(f, S) /\ SumIn(m, u, keys) = Total(h, EntriesIn(m, u, keys))
  BY DEF SumIn
<1>6. CASE u = v /\ key \in keys
  <2>1. EntriesIn(m, u, keys) = S \cup {key} BY <1>6 DEF EntriesIn
  <2> HIDE DEF S, f, h
  <2>2. Total(h, S \cup {key}) = Total(f, S) + h[key]
    <3>1. key \notin S /\ h[key] \in Int BY <1>2, <1>4
    <3>2. \A x \in S : f[x] \in Int /\ h[x] = f[x] BY <1>3
    <3> QED BY <1>0, <3>1, <3>2, TotalAdds
  <2>3. IsFiniteSet(S \cup {key}) BY FS_AddElement DEF S
  <2>4. Total(f, S) \in Int BY <1>3, TotalPicks DEF S
  <2> QED BY <1>4, <1>5, <1>6, <2>1, <2>2, <2>3, <2>4
<1>7. CASE ~(u = v /\ key \in keys)
  <2>1. EntriesIn(m, u, keys) = S BY <1>7, <1>2 DEF EntriesIn
  <2> HIDE DEF S, f, h
  <2>2. Total(h, S) = Total(f, S) BY <1>3, TotalSame DEF S
  <2>3. Total(f, S) \in Int BY <1>3, TotalPicks DEF S
  <2> DEFINE sum == Total(f, S)
  <2>4. sum \in Int /\ SumIn(l, u, keys) = sum /\ SumIn(m, u, keys) = sum BY <1>5, <2>1, <2>2, <2>3
  <2> HIDE DEF sum
  <2> QED BY <1>7, <2>1, <2>4 DEF S
<1> QED BY <1>6, <1>7

\* A ledger write, and what it makes of the wallet that was read under its lock.
Pays(key, v, n) ==
    /\ Posts(key, v, n)
    /\ wallet' = [wallet EXCEPT ![v] =
           [available |-> wallet[v].available + n,
            earned    |-> wallet[v].earned + IF key \in RewardKeys THEN n ELSE 0]]

LEMMA PostPays ==
    ASSUME PointsInv, NEW s \in Sessions, NEW key \in EntryKeys, NEW v \in Students, NEW n \in Int,
           NEW ranks \in BOOLEAN, PostEntry(s, key, v, n, ranks), seen[s].wallet = wallet[v],
           ranks /\ n > 0 <=> key \in RewardKeys
    PROVE  Pays(key, v, n)
<1>1. Posts(key, v, n) BY Posting
<1>2. (IF ranks /\ n > 0 THEN n ELSE 0) = (IF key \in RewardKeys THEN n ELSE 0) OBVIOUS
<1>3. wallet' = [wallet EXCEPT ![v] =
          [available |-> wallet[v].available + n,
           earned    |-> wallet[v].earned + IF ranks /\ n > 0 THEN n ELSE 0]]
  BY DEF PostEntry
<1> QED BY <1>1, <1>2, <1>3 DEF Pays

LEMMA WalletWrites ==
    ASSUME PointsInv, NEW s \in Sessions, CommitAny(s) \/ Rollback(s)
    PROVE  \/ UNCHANGED <<ledger, wallet>>
           \/ \E key \in EntryKeys, v \in Students, n \in Int : Pays(key, v, n)
<1> DEFINE c == command[s]
           Goal == \E key \in EntryKeys, v \in Students, n \in Int : Pays(key, v, n)
<1>1. Sound(s) BY DEF PointsInv, CommandsSound
<1>2. \A k \in Claims : ClaimReward[k] \in Nat \ {0} /\ ClaimUser[k] \in Students
  BY PointsAssumption
<1>a. ASSUME NEW key \in EntryKeys, NEW v \in Students, NEW n \in Int, NEW ranks \in BOOLEAN,
             PostEntry(s, key, v, n, ranks), seen[s].wallet = wallet[v],
             ranks /\ n > 0 <=> key \in RewardKeys
      PROVE  Goal
  <2>1. Pays(key, v, n) BY <1>a, PostPays
  <2> QED BY <2>1
<1>3. ASSUME ApproveRedemption(s) PROVE Goal
  <2> DEFINE r == c.redemption
             n == -seen[s].redemption.points
  <2>1. /\ r \in Redemptions /\ c.user \in Students /\ c.op = "approve"
        /\ seen[s].redemption = redemptions[r] /\ HoldsAll(s)
    BY <1>3, DecidedRow, CommandFields DEF ApproveRedemption, PointsInv, TypeOK
  <2>2. lock[WalletRow(c.user)] = s BY <2>1, Holds
  <2>3. seen[s].wallet = wallet[c.user] BY <2>1, <2>2 DEF PointsInv, ReadsFresh, Fresh
  <2>4. n \in Int BY DEF PointsInv, TypeOK, Readings, Requests, NoRedemption
  <2>5. Charge(r) \notin RewardKeys /\ Charge(r) \in EntryKeys
    BY <2>1, KeyTypes, KeysDiffer DEF RewardKeys
  <2>6. PostEntry(s, Charge(r), c.user, n, FALSE) BY <1>3 DEF ApproveRedemption
  <2> HIDE DEF r, n
  <2> QED BY <2>1, <2>3, <2>4, <2>5, <2>6, PostPays
<1>4. ASSUME GrantAssignmentReward(s) PROVE Goal
  <2>1. PICK k \in Claims : c.key = Reward(k) /\ c.user = ClaimUser[k] /\ c.amount = ClaimReward[k]
    BY <1>1, <1>4 DEF Sound, GrantAssignmentReward
  <2>2. PostEntry(s, c.key, c.user, c.amount, TRUE) BY <1>4 DEF GrantAssignmentReward
  <2>3. seen[s].wallet = wallet[c.user] BY <1>4, Posted DEF GrantAssignmentReward
  <2>4. c.key \in RewardKeys /\ c.key \in EntryKeys BY <2>1, KeyTypes DEF RewardKeys
  <2>5. c.amount \in Int /\ c.amount > 0 /\ c.user \in Students BY <1>2, <2>1
  <2> HIDE DEF c, Goal
  <2> QED BY <2>2, <2>3, <2>4, <2>5, <1>a
<1>5. ASSUME ReverseAssignmentReward(s) PROVE Goal
  <2>1. PICK k \in Claims : c.key = Reversal(k) /\ c.user = ClaimUser[k] /\ c.amount = -ClaimReward[k]
    BY <1>1, <1>5 DEF Sound, ReverseAssignmentReward
  <2>2. PostEntry(s, c.key, c.user, c.amount, TRUE) BY <1>5 DEF ReverseAssignmentReward
  <2>3. seen[s].wallet = wallet[c.user] BY <1>5, Posted DEF ReverseAssignmentReward
  <2>4. c.key \notin RewardKeys /\ c.key \in EntryKeys
    BY <2>1, KeyTypes, KeysDiffer DEF RewardKeys
  <2>5. c.amount \in Int /\ ~(c.amount > 0) /\ c.user \in Students BY <1>2, <2>1
  <2> HIDE DEF c, Goal
  <2> QED BY <2>2, <2>3, <2>4, <2>5, <1>a
<1>6. ASSUME AdminAdjustPoints(s) PROVE Goal
  <2>1. PICK o \in Operations : c.key = Adjustment(o)
    BY <1>1, <1>6 DEF Sound, AdminAdjustPoints
  <2>2. PostEntry(s, c.key, c.user, c.amount, FALSE) BY <1>6 DEF AdminAdjustPoints
  <2>3. /\ seen[s].wallet = wallet[c.user]
        /\ c.amount \in Int /\ c.user \in Students
    BY <1>6, Posted DEF AdminAdjustPoints
  <2>4. c.key \notin RewardKeys /\ c.key \in EntryKeys
    BY <2>1, KeyTypes, KeysDiffer DEF RewardKeys
  <2> HIDE DEF c, Goal
  <2> QED BY <2>2, <2>3, <2>4, <1>a
<1>7. ASSUME \/ \E r \in Redemptions : RequestRedemption(s, r)
             \/ RejectRedemption(s) \/ FulfillRedemption(s)
             \/ UpdateRewardItem(s) \/ DisableRewardItem(s) \/ Rollback(s)
      PROVE  UNCHANGED <<ledger, wallet>>
  BY <1>7 DEF RequestRedemption, RejectRedemption, FulfillRedemption, UpdateRewardItem,
     DisableRewardItem, Rollback, tables
<1> QED BY <1>3, <1>4, <1>5, <1>6, <1>7 DEF CommitAny

LEMMA WalletIs ==
    /\ WalletMatchesLedger <=>
         \A u \in Students : /\ wallet[u].available = SumIn(ledger, u, EntryKeys)
                             /\ wallet[u].earned = SumIn(ledger, u, RewardKeys)
    /\ WalletMatchesLedger' <=>
         \A u \in Students : /\ wallet'[u].available = SumIn(ledger', u, EntryKeys)
                             /\ wallet'[u].earned = SumIn(ledger', u, RewardKeys)
BY DEF WalletMatchesLedger, Balance, EntriesOf, SumIn, EntriesIn, RewardKeys

LEMMA WalletPays ==
    ASSUME WalletInv, NEW key \in EntryKeys, NEW v \in Students, NEW n \in Int, Pays(key, v, n),
           ledger' \in [EntryKeys -> Entry]
    PROVE  FewEntries' /\ WalletMatchesLedger'
<1>1. /\ ledger \in [EntryKeys -> Entry] /\ ledger[key] = NoEntry
      /\ ledger'[key] = [user |-> v, amount |-> n]
      /\ \A k \in EntryKeys \ {key} : ledger'[k] = ledger[k]
  BY DEF WalletInv, PointsInv, TypeOK, Pays, Posts
<1>2. RewardKeys \in SUBSET EntryKeys BY KeyTypes DEF RewardKeys
<1>3. PICK l, m : l = ledger /\ m = ledger' OBVIOUS
<1>4. ASSUME NEW u \in Students
      PROVE  /\ IsFiniteSet(EntriesIn(m, u, EntryKeys))
             /\ SumIn(l, u, EntryKeys) \in Int /\ SumIn(l, u, RewardKeys) \in Int
             /\ SumIn(m, u, EntryKeys) = SumIn(l, u, EntryKeys) + (IF u = v THEN n ELSE 0)
             /\ SumIn(m, u, RewardKeys)
                  = SumIn(l, u, RewardKeys) + (IF u = v /\ key \in RewardKeys THEN n ELSE 0)
  <2>1. IsFiniteSet(EntriesIn(l, u, EntryKeys)) BY <1>3 DEF WalletInv, FewEntries
  <2>2. IsFiniteSet(EntriesIn(l, u, RewardKeys))
    <3>1. EntriesIn(l, u, RewardKeys) \subseteq EntriesIn(l, u, EntryKeys) BY <1>2 DEF EntriesIn
    <3> QED BY <2>1, <3>1, FS_Subset
  <2>3. EntryKeys \in SUBSET EntryKeys OBVIOUS
  <2>4. /\ IsFiniteSet(EntriesIn(m, u, EntryKeys))
        /\ SumIn(l, u, EntryKeys) \in Int
        /\ SumIn(m, u, EntryKeys)
             = SumIn(l, u, EntryKeys) + (IF u = v /\ key \in EntryKeys THEN n ELSE 0)
    BY <1>1, <1>3, <2>1, <2>3, EntryAdds
  <2>5. /\ SumIn(l, u, RewardKeys) \in Int
        /\ SumIn(m, u, RewardKeys)
             = SumIn(l, u, RewardKeys) + (IF u = v /\ key \in RewardKeys THEN n ELSE 0)
    BY <1>1, <1>2, <1>3, <2>2, EntryAdds
  <2> QED BY <2>4, <2>5
<1>5. ASSUME NEW u \in Students
      PROVE  /\ wallet'[u].available = wallet[u].available + (IF u = v THEN n ELSE 0)
             /\ wallet'[u].earned
                  = wallet[u].earned + (IF u = v /\ key \in RewardKeys THEN n ELSE 0)
  <2>1. wallet \in [Students -> Wallets] BY DEF WalletInv, PointsInv, TypeOK
  <2>2. wallet[u].available \in Int /\ wallet[u].earned \in Nat BY <2>1 DEF Wallets
  <2> QED BY <2>1, <2>2 DEF Pays
<1>6. \A u \in Students : /\ wallet[u].available = SumIn(l, u, EntryKeys)
                          /\ wallet[u].earned = SumIn(l, u, RewardKeys)
  BY <1>3, WalletIs DEF WalletInv
<1>7. \A u \in Students : /\ wallet'[u].available = SumIn(m, u, EntryKeys)
                          /\ wallet'[u].earned = SumIn(m, u, RewardKeys)
  BY <1>4, <1>5, <1>6
<1>8. WalletMatchesLedger' BY <1>3, <1>7, WalletIs
<1> QED BY <1>3, <1>4, <1>8 DEF FewEntries

LEMMA WalletInit == Init => WalletInv
<1> SUFFICES ASSUME Init PROVE WalletInv OBVIOUS
<1>1. \A u \in Students, keys \in SUBSET EntryKeys : EntriesIn(ledger, u, keys) = {}
  BY PointsAssumption DEF Init, EntriesIn, NoEntry
<1>2. IsFiniteSet({}) BY FS_EmptySet
<1>3. FewEntries BY <1>1, <1>2 DEF FewEntries
<1>4. ASSUME NEW f PROVE Total(f, {}) = 0 BY <1>2, TotalPicks
<1>5. RewardKeys \in SUBSET EntryKeys BY KeyTypes DEF RewardKeys
<1>6. ASSUME NEW u \in Students
      PROVE  /\ wallet[u].available = SumIn(ledger, u, EntryKeys)
             /\ wallet[u].earned = SumIn(ledger, u, RewardKeys)
  <2>1. SumIn(ledger, u, EntryKeys) = 0 /\ SumIn(ledger, u, RewardKeys) = 0
    BY <1>1, <1>4, <1>5 DEF SumIn
  <2>2. wallet[u].available = 0 /\ wallet[u].earned = 0 BY DEF Init, NoWallet
  <2> QED BY <2>1, <2>2
<1> QED BY <1>3, <1>6, PointsInit, WalletIs DEF WalletInv

LEMMA WalletStep == WalletInv /\ [Next]_vars => WalletInv'
<1> SUFFICES ASSUME WalletInv, [Next]_vars PROVE FewEntries' /\ WalletMatchesLedger'
  BY PointsStep DEF WalletInv
<1>1. ASSUME UNCHANGED <<ledger, wallet>> PROVE FewEntries' /\ WalletMatchesLedger'
  BY <1>1, WalletIs DEF WalletInv, FewEntries
<1>2. ASSUME NEW s \in Sessions, CommitAny(s) \/ Rollback(s)
      PROVE  FewEntries' /\ WalletMatchesLedger'
  <2>1. PointsInv' BY PointsStep DEF WalletInv
  <2>2. ledger' \in [EntryKeys -> Entry] BY <2>1 DEF PointsInv, TypeOK
  <2> QED BY <1>1, <1>2, <2>2, WalletWrites, WalletPays DEF WalletInv
<1>3. CASE UNCHANGED vars BY <1>1, <1>3 DEF vars, tables
<1>4. CASE Next BY <1>1, <1>2, <1>4, OtherSteps
<1> QED BY <1>3, <1>4

\* post_entry: the points a student may spend are the sum of the whole ledger,
\* those ever earned the sum of the rewards, although every commit writes a
\* wallet from what it read several steps before.
THEOREM WalletAlwaysMatches == Spec => []WalletMatchesLedger
<1>1. WalletInv => WalletMatchesLedger BY DEF WalletInv
<1> QED BY <1>1, WalletInit, WalletStep, PTL DEF Spec

=================================================================================
