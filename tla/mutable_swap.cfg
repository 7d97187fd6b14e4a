SPECIFICATION FairSpec
CONSTANTS
  m1 = m1  m2 = m2  m3 = m3  repo = repo  branch = branch  meta = meta
  t1 = t1  t2 = t2  v1 = v1  v2 = v2  lockA = lockA  lockB = lockB
  Task = {m1, m2, m3}
  Repository = {repo}
  KeyType = {branch, meta, untyped}
  Untyped = untyped
  Rest = {t1, t2}
  Value = {v1, v2}
  Zero = Zero
  Absent = Absent
  LockId = {lockA, lockB}
  LockOf <- MCLockOf
  Requests <- SwapRequests
  InitTable <- MCTable
  MaxFaults = 1
INVARIANTS TypeOK WitnessCurrent
PROPERTIES AtomicRegister RequestsReturn
CHECK_DEADLOCK FALSE
