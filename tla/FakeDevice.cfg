SPECIFICATION Spec
CONSTANTS
  c1 = c1  t1 = t1  t2 = t2  b1 = b1  b2 = b2  o1 = o1  o2 = o2
  p1 = p1  p2 = p2  f1 = f1  f2 = f2  m1 = m1  m2 = m2  all = all
  Threads = {t1, t2}
  MaxHandles = 2
  Blocks = {b1, b2}
  Ovs = {o1, o2}
  Ports = {p1, p2}
  Frames = {f1, f2}
  Macs = {m1, m2}
  Multicast = all
  dst <- DstUniBroad
  NONE = NONE
  Commands = {c1}
  InLimit = 0
  RxLimit = 1
  Faults = {"loss", "socket", "recv", "exit"}
  SharedOv = FALSE
  QuietClose = TRUE
SYMMETRY Symmetry
INVARIANTS
  TypeOK
  ContextIsTheHandles
  SocketsHaveOneOwner
  OutstandingReadIsKept
  NoFalseCompletion
