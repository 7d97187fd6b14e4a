SPECIFICATION PooledSpec
CONSTANTS
  c1 = c1  c2 = c2  w1 = w1
  h1 = h1  h2 = h2  p = p  x = x  y = y  zero = zero  tree = tree  leaf = leaf
  Task = {c1, c2, w1}
  Client = {c1, c2}
  Hash = {h1, h2}
  Partition = {p}
  Context = {x, y, zero}
  ZeroContext = zero
  Frag = {tree, leaf}
  NoFrag = NoFrag
  PayloadSize <- MCPayloadSize
  ContentSize <- MCContentSize
  Refs <- MCRefs
  HeaderSize = 1
  ForceWrite = TRUE
  Requests <- PooledRequests
  InitFrag <- TreeFrag
  InitAssoc <- TreeAssoc
  MaxFaults = 1
  NoNumber = NoNumber
  Settings = {NoNumber, 0, 1}
  DefaultSize = 2
INVARIANTS PoolSound ClientsInUse NoHoldAndWait
PROPERTIES PoolTransparent
CHECK_DEADLOCK FALSE
