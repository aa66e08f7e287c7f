SPECIFICATION FairSpec
CONSTANTS
  c1 = c1  t1 = t1  t2 = t2  b1 = b1  b2 = b2  o1 = o1  o2 = o2
  p1 = p1  p2 = p2  f1 = f1  f2 = f2  m1 = m1  m2 = m2  all = all
  Threads = {t1, t2}
  MaxHandles = 1
  Blocks = {b1}
  Ovs = {o1, o2}
  Ports = {p1, p2}
  Frames = {f1, f2}
  Macs = {m1, m2}
  Multicast = all
  dst <- DstTwoUni
  NONE = NONE
  Commands = {}
  InLimit = 0
  RxLimit = 2
  Faults = {"loss", "recv"}
  SharedOv = FALSE
  QuietClose = TRUE
PROPERTY ReadyReadsComplete
CHECK_DEADLOCK FALSE
