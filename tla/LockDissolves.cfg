SPECIFICATION Spec
CONSTANTS
  Clients = {k1}
  MaxRows = 3
  Ttl = 2
  GraceWindow = 1
  HopBound = 2
  MaxClock = 2
  NoRow = NoRow
  NoSweep = NoSweep
  Challenges = {k1}
  Verifiers = {v1, v2}
  Purposes = {"REGISTER", "PHONE_CHANGE"}
  Logins = {l1}
  CodeTtl = 1
  ProofTtl = 1
  MaxAttempts = 2
  RequestCap = 1
  CapWindow = 2
  LockThreshold = 2
  LockTtl = 1
  NoChallenge = NoChallenge
  Idle = Idle
  Invitations = {i1, i2}
  Windows = {w1, w2}
  MaxLinks = 2
  MaxSecrets = 3
  Nobody = Nobody
  Members = {f1, f2, f3}
  Changes = {c1, c2}
  NewRoles = {"TEACHER", "ADMIN"}
  NewStates = {"ACTIVE", "OFF"}
  Free = Free
  NoChange = NoChange
  MaxCodes = 2
  MaxPending = 2
  MaxWrong = 1
  MaxSigned = 2
  NoCode = NoCode
  NotSending = NotSending
  MaxMoves = 2
  NoRequest = NoRequest
  Editors = {e1, e2}
  MaxVersion = 2
  NoValue = NoValue
  NotEditing = NotEditing
  Unheld = Unheld
  Calls = {d1, d2, d3}
  Limit = 1
  MaxWindow = 2
  NotCalled = NotCalled
  Reviewers = {h1, h2}
  Errands = {e3, e4, e5}
  Verdicts = {x1}
  MaxGrants = 3
  MaxHistory = 4
  NoGrant = NoGrant
  NoErrand = NoErrand
PROPERTY LockDissolves
CHECK_DEADLOCK FALSE
