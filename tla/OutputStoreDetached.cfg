SPECIFICATION SpecDetached
CONSTANTS
  ver = ver
  usage = usage
  s1 = s1
  p1 = p1
  t1 = t1
  i1 = i1
  i2 = i2
  cur = cur
  a = a
  b = b
  Files = {ver, usage, s1, p1, t1}
  Version = ver
  Group <- MCGroup
  Inputs = {i1, i2}
  Bodies = {cur, a, b}
  Body <- MCBody
  CurrentVersion = cur
  Unlisted = Unlisted
  Procs = {w1}
  Readers = {r1}
  None = None
  MaxDetached = 1
PROPERTY
  InvalidationPrecedesMutation
