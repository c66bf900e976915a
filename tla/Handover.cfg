SPECIFICATION Spec
CONSTANTS
  s1 = s1
  s2 = s2
  t1 = t1
  t2 = t2
  a1 = a1
  a2 = a2
  c1 = c1
  c2 = c2
  c3 = c3
  u1 = u1
  u2 = u2
  w1 = w1
  w2 = w2
  Null = Null
  Students = {s1, s2}
  Tasks = {t1}
  Assignments = {a1, a2}
  Claims = {c1, c2}
  Uploads = {u1, u2}
  Workers = {w1}
  TaskOf <- SameTaskOf
  Policy <- SamePolicy
  Cutoff <- SameCutoff
  BaseReward <- SameBaseReward
  MaxActiveClaims = 3
  DailyAbandonLimit = 2
  DayLength = 10
  RevisionWindow = 1
  IntentTtl = 2
  Grace = 3
  EarlyWidth = 1
  MidWidth = 2
  RequeueAfter = 1
  DispatchGrace = 1
  ManagedTasks = {}
  Suspendable = {}
  MaxNow = 4
  MaxDeliveries = 1
  FaultKinds = {"worker_lost", "job_failed"}
INVARIANTS
  Shape
  PaidIffCompleted
  OneActiveClaimPerTask
PROPERTIES
  TerminalClaimsFrozen
  ImplementsClaimBoard
SYMMETRY HandoverSymmetry
CHECK_DEADLOCK FALSE
