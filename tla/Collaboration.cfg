SPECIFICATION Spec
CONSTANTS
  Writers = {u1}
  Moderators = {m1}
  Admins = {a1}
  Tabs = {x1, x2}
  MaxComments = 3
  MaxOpened = 3
  NoTab = NoTab
  Reports = {k1}
  Marks = {k2}
  Values = {0, 1, 2}
  Reactions = {k3}
  Posts = {x1, x2}
  NoPost = NoPost
  MaxClosures = 2
  Channels = {x1, x2}
  Requests = {y1, y2}
  Deadlines = {0, 3}
  Period = 1
  MaxNow = 3
  NoRequest = NoRequest
  Operators = {x1, x2}
  MaxCases = 2
  MaxSaved = 2
  MaxClaims = 3
  Unassigned = Unassigned
  Proofs = {y1, y2}
  Checks = {x1, x2}
  Readers = {r1}
  Contents = {0, 1, 2}
  Good = {1}
  UrlTime = 1
  IntentTime = 2
  CheckLease = 1
  MaxLoose = 1
  MaxTime = 2
  MaxRounds = 2
  NoCheck = NoCheck
  Works = {f1}
  Contacts = {c1}
  Windows = {y1, y2}
  Probes = {x1, x2}
  Viewers = {v1}
  Bytes = {0, 1, 2}
  Clean = {1}
  MaxWorks = 1
  MaxCalls = 3
  Absence = Absence
  Teachers = {g1, g2}
  Owner = Owner
  Powers = {"MANAGE", "REVIEW"}
  Contracts = {w1, w2}
  Faulty = {w1}
  Desks = {x1, x2}
  NoTask = NoTask
  Platforms = {1, 2}
  Keywords = {1}
  MaxRows = 2
  Tokens = {y1, y2}
  Confirms = {x1, x2}
  Nobody = Nobody
  Learners = {s1}
  Tutors = {f2}
  Phones = {n4, n5}
  Boxes = {b3, b4}
  Tickets = {y1, y2}
  Spenders = {d4, d5}
  MaxPasswords = 1
  NoPlace = NoPlace
  NoTicket = NoTicket
  AtRest = AtRest
  Burnt = Burnt
PROPERTIES
  CommentContract
  FeedbackContract
  RecruitmentContract
  ReviewContract
  EvidenceContract
  TalentContract
  TasksContract
  CredentialsContract
SYMMETRY CollaborationSymmetry
CHECK_DEADLOCK FALSE
