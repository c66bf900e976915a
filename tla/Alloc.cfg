SPECIFICATION Spec
CONSTANTS
  s1 = s1
  s2 = s2
  t1 = t1
  t2 = t2
  a1 = a1
  a2 = a2
  c1 = c1
  c2 = c2
  c3 = c3
  u1 = u1
  u2 = u2
  w1 = w1
  w2 = w2
  Null = Null
  Students = {s1, s2}
  Tasks = {t1, t2}
  Assignments = {a1, a2}
  Claims = {c1, c2, c3}
  Uploads = {}
  Workers = {}
  TaskOf <- AllocTaskOf
  Policy <- AllocPolicy
  Cutoff <- AllocCutoff
  BaseReward <- AllocBaseReward
  MaxActiveClaims = 1
  DailyAbandonLimit = 1
  DayLength = 3
  RevisionWindow = 1
  IntentTtl = 1
  Grace = 3
  EarlyWidth = 1
  MidWidth = 2
  RequeueAfter = 1
  DispatchGrace = 1
  ManagedTasks = {t1}
  Suspendable = {s1}
  MaxNow = 6
  MaxDeliveries = 0
  FaultKinds = {}
INVARIANTS
  UnitsAgree
  DailyAbandonLimitHolds
CHECK_DEADLOCK FALSE
