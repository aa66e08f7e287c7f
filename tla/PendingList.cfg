SPECIFICATION Spec
CONSTANTS
  Reads = {r1, r2, r3}
  Ovs = {o1, o2}
  NIL = NIL
INVARIANTS
  TypeOK
  NoRequestTwice
  ListRepresentsQueue
  FailsOnlyWhenAbsent
PROPERTY AbstractSpec
