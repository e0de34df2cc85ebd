SPECIFICATION Spec
CONSTANTS
  l1 = l1
  l2 = l2
  l3 = l3
  s1 = s1
  s2 = s2
  n1 = n1
  n2 = n2
  j1 = j1
  j2 = j2
  b1 = b1
  b2 = b2
  u1 = u1
  u2 = u2
  Line = {l1, l2, l3}
  Text = {"raw", "ours", "theirs"}
  Translator = {1, 2, 3}
  Segment <- MCSegment
  Resolver = {s1}
  MaxJobs = 1
  MaxSubmissions = 4
  MaxFiles = 2
  Note = {n1, n2}
  ListSize = 1
  MaxMail = 2
  MaxChanges = 2
  Job = {j1, j2}
  MaxCrashes = 1
  MaxDeliveries = 5
  Backend = {b1, b2}
  Upload = {u1, u2}
  Local = {}
  Binding = b1
  NoBackend = NoBackend
  Size <- MCSize
  Quota = {2}
  Overlap = FALSE
  MaxConfig = 2
  Database = {"lite", "pg", "my"}
  Remote = {"pg", "my"}
  Applicant = {"a1", "a2"}
  MaxStops = 1
  Editor = {"e1", "e2"}
  Reviewer = {"r1"}
  PartCount = 4
  PartWorker = {"w1", "w2", "w3"}
  MaxFaults = 3
  MaxRevision = 3
  AssFile <- MCAssFile
  MergeInput <- MCMergeInput
  Reader = {"u1"}
  Uploaded = "u1"
  Ttls = {1, 5}
  ListWindow = 2
  Sharer = {"h1", "h2"}
  ExtractCode = {"c1", "c2"}
  MaxFileVersions = 2
  MaxLinks = 2
  MaxClock = 4
  Shelf = {"f1", "f2", "f3"}
  ShelfOf <- MCShelfOf
  MaxRequests = 2
  Joiner = {"u1"}
  ProjectRole = {"timing", "supervisor"}
  Answerer = {"m1", "m2"}
  MaxJoins = 2
INVARIANT DecisionsAreMerged
CHECK_DEADLOCK FALSE
