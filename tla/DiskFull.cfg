SPECIFICATION Spec
CONSTANTS
  t1 = t1  t2 = t2  b1 = b1  b2 = b2  b3 = b3
  sw = sw  wow = wow  v1 = v1  d1 = d1
  Threads = {t1}
  Blocks = {b1, b2}
  Root = Root
  NIL = NIL
  Names = {sw, wow}
  Software = sw
  Wow64Node = wow
  IsWow64 = TRUE
  Subs <- SubsSoftware
  Values = {v1}
  Data = {d1}
  DumpPath <- PathSoftware
  MaxHandles = 2
  MaxCached = 1
  DeleteCached = FALSE
  Faults = {"write"}
SYMMETRY Symmetry
PROPERTY RestartRestores
