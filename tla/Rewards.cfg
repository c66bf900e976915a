SPECIFICATION Spec
CONSTANTS
  Grace = 6
  EarlyWidth = 2
  MidWidth = 4
  Policies <- MCPolicies
  Bases = {1, 4, 5, 7, 10, 99, 101}
  Horizon = 12
  Earners = {1, 2}
  Days = {0, 1}
  MonthLength = 2
  Amounts = {1, 2}
  Projectors = {w1, w2}
  MaxEntries = 2
  MaxFaults = 1
  Idle = Idle
  Students = {s1, s2}
  Approvers = {r1, r2}
  Rules <- MCRules
  Commemorative = {c1}
  Rewards = {0, 2}
  MaxStamps = 3
  Free = Free
INVARIANTS
  PaysByTheTable
  BoardsSound
  HonorsSound
PROPERTIES
  LaterNeverPaysMore
SYMMETRY RewardSymmetry
CHECK_DEADLOCK FALSE
