SPECIFICATION TunnelSpec
CONSTANTS
  t1 = t1  t2 = t2  b1 = b1  o1 = o1  o2 = o2  p1 = p1  p2 = p2  p3 = p3
  s1 = s1  h1 = h1  runt = runt  m1 = m1  all = all
  Threads = {t1}
  MaxHandles = 1
  Blocks = {b1}
  Ovs = {o1, o2}
  Ports = {p1, p2, p3}
  Frames = {s1, h1}
  FromService = {s1}
  FromHost = {h1}
  Macs = {m1}
  Multicast = all
  dst <- Dst
  NONE = NONE
  Commands <- LinkCommands
  InLimit = 2
  RxLimit = 1
  Faults = {"exit"}
  SharedOv = FALSE
  QuietClose = TRUE
  MaxClients = 2
  Runts = {}
  TapLimit = 1
  Unset = Unset
SYMMETRY Symmetry
PROPERTY PipeSpec
