SPECIFICATION FairSpec
CONSTANTS
  s1 = s1
  s2 = s2
  t1 = t1
  t2 = t2
  a1 = a1
  a2 = a2
  c1 = c1
  c2 = c2
  c3 = c3
  u1 = u1
  u2 = u2
  w1 = w1
  w2 = w2
  Null = Null
  Students = {s1}
  Tasks = {t1}
  Assignments = {a1}
  Claims = {c1}
  Uploads = {u1, u2}
  Workers = {w1}
  TaskOf <- PipeTaskOf
  Policy <- PipePolicy
  Cutoff <- PipeCutoff
  BaseReward <- PipeBaseReward
  MaxActiveClaims = 3
  DailyAbandonLimit = 2
  DayLength = 10
  RevisionWindow = 2
  IntentTtl = 3
  Grace = 3
  EarlyWidth = 1
  MidWidth = 2
  RequeueAfter = 0
  DispatchGrace = 0
  ManagedTasks = {}
  Suspendable = {}
  MaxNow = 3
  MaxDeliveries = 1
  FaultKinds = {"worker_lost", "job_failed"}
PROPERTIES
  SubmissionGetsVerdict
CHECK_DEADLOCK FALSE
