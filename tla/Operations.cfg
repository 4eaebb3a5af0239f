SPECIFICATION Spec
CONSTANTS
  Brokers = {fix, ws, rest}
  Feed = opra
  SessionBound = {fix, ws}
  OnFix = {fix}
  Fields = {id, secret}
  FieldValues = {0, 1}
  Accepted <- MCAccepted
  Stored <- MCStored
  Submissions <- MCSubmissions
  Requests = {r1, r2}
  None = None
  Blank = Blank
  MaxPasses = 3
  MaxFailures = 1
  id = id
  Jobids = {1, 2}
  Subjects = {s1}
  NoSubject = NoSubject
  MaxCrashes = 1
  MaxDbErrors = 1
INVARIANTS StreamFollowsAdapter AnsweredInEffect JobTableTrue
PROPERTY ExpiredRetired
CHECK_DEADLOCK FALSE
