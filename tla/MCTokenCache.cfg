CONSTANTS
  None = None
  Objs = {o1, o2}
  MaxPair = 3
  MaxTime = 3
  Leases <- MCLeases
SPECIFICATION Spec
SYMMETRY ObjSymmetry
INVARIANTS
  KeysAgree
  AnsweredPairWorks
