SPECIFICATION Spec
CONSTANTS
    r1 = r1
    r2 = r2
    t1 = t1
    NoWork = NoWork
    Events = {r1, r2}
    Reminders = {r1, r2}
    Confirmations = {}
    Channels = {"IN_APP", "SMS"}
    Templates = {t1}
    Policy <- MCPolicy
    Lead <- MCLead
    Workers = {w1, w2}
    MaxAttempts = 2
    Delay <- MCDelay
    StaleAfter = 2
    StuckAfter = 1
    MaxQueue = 1
    MaxEvents = 1
    NoRun = NoRun
    NoToken = NoToken
    Uploads = {u1}
    Sweepers = {j1, j2}
    UrlTtl = 1
    IntentTtl = 2
    Retention = 1
    Lease = 1
    MaxNow = 4
PROPERTIES
  DeliveryContract
  ResolvedEventually
  CleanupContract
  ObjectsReclaimed
