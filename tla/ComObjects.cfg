SPECIFICATION Spec
CONSTANTS
  Threads = {t1, t2}
  Blocks = {b1, b2, b3, b4}
  Ptrs = {p1, p2, p3}
  NIL = NIL
SYMMETRY Symmetry
INVARIANTS
  TypeOK
  CountIsReferences
  NoUseAfterFree
  TornDownOnce
  EnumeratorGivesOnce
  LocatorConnects
