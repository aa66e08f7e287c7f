SPECIFICATION Spec
CONSTANTS
  p1 = p1  p2 = p2  p3 = p3  f1 = f1  runt = runt
  a1 = a1  a2 = a2  g1 = g1  n1 = n1  n2 = n2  v6 = v6  m1 = m1
  Ports = {p1, p2, p3}
  Frames = {f1, runt}
  Commands <- AllCommands
  InLimit = 1
  RxLimit = 1
  Faults = {"loss", "tap", "recv", "ioctl", "exit"}
  MaxClients = 2
  Runts = {runt}
  TapLimit = 1
  Unset = Unset
INVARIANTS
  TypeOK
  ClientsDistinct
  ClientUntilDisplaced
  AddressHasItsMask
PROPERTY DatagramsAreServed
