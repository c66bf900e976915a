SPECIFICATION MCSpec
CONSTANTS
  u1 = u1
  u2 = u2
  Null = Null
  Unlimited = Unlimited
  Students = {u1, u2}
  Items = {i1}
  Redemptions = {r1, r2}
  Sessions = {x1, x2}
  Claims = {c1}
  Operations = {o1}
  Adjustable = {u2}
  Terms = {autumn, spring}
  Adjustments <- MCAdjustments
  Offers <- MCOffers
  ClaimUser <- MCClaimUser
  ClaimReward <- MCClaimReward
INVARIANTS
  WalletMatchesLedger
  RowsAgree
  NoLockCycle
PROPERTIES
  WithinLimits
  HistoryStands
  ImplementsAccount
SYMMETRY PointsSymmetry
