SPECIFICATION Spec
CONSTANTS
  a1 = a1
  a2 = a2
  x1 = x1
  x2 = x2
  HookFaults = 1
  Width = 4
  Addrs4 = {a1, a2}
  Texts6 <- IPv6
  Commands <- Cmds
  Guids = {u1,u2}
  ZeroGuid = u0
  DeviceIDs = {u9}
  NIL = NIL
  DefaultAddr = a1
  DefaultMask <- Class
CONSTRAINT Followed
INVARIANTS
  TypeOK
  AllHooksOrNone
  HooksReachOriginals
  NoneLeft
  IdentityStable
  BridgeAgrees
PROPERTY SessionEnds
