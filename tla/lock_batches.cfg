SPECIFICATION FairSpec
CONSTANTS
  b1 = b1  b2 = b2  b3 = b3  repo = repo  ann = ann  bob = bob
  Task = {b1, b2, b3}
  Owner = {ann, bob}
  Repository = {repo}
  Branch = {1, 2}
  File = {1, 2}
  Text = {1, 2}
  Free = Free
  Start = Start
  Requests <- BatchRequests
  InitRows <- HeldRows
  MaxFaults = 1
INVARIANTS TypeOK NoDeadlock GrantSurvives RefusedLeavesNothing StatusOfAsked
PROPERTIES RequestsReturn
CHECK_DEADLOCK FALSE
