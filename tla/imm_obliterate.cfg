SPECIFICATION FairSpec
CONSTANTS
  c1 = c1  c2 = c2  c3 = c3  w1 = w1
  h1 = h1  h2 = h2  p = p  q = q  x = x  y = y  zero = zero
  f = f  g = g  tree = tree  leaf = leaf
  Task = {c1, c2, c3, w1}
  Client = {c1, c2, c3}
  Hash = {h1, h2}
  Partition = {p, q}
  Context = {x, y, zero}
  ZeroContext = zero
  Frag = {f, g, tree, leaf}
  NoFrag = NoFrag
  PayloadSize <- MCPayloadSize
  ContentSize <- MCContentSize
  Refs <- MCRefs
  HeaderSize = 1
  ForceWrite = FALSE
  Requests <- ObliterateRequests
  InitFrag <- TreeFrag
  InitAssoc <- TreeAssoc
  MaxFaults = 1
INVARIANTS ObliterationLock LiveHasPayload ObliteratedStaysGone TombstoneHasNoPayload
PROPERTIES RequestsReturn
CHECK_DEADLOCK FALSE
