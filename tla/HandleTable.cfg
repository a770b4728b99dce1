\* Two roots, a chain of the full depth and an adopted record fit in five ids; any
\* allocation of the table may fail.
CONSTANTS
  p1 = p1
  p2 = p2
  p3 = p3
  Ptr = {p1, p2, p3}
  MaxSeq = 5
  AllocFails = TRUE
SPECIFICATION Spec
SYMMETRY PtrSymmetry
INVARIANTS
  TypeOK
  OwnersLive
  RootIsSubtree
  OneIdPerObject
  AdoptedHeld
  CallbacksOfLiveHandles
PROPERTY IdsNeverReused
\* The process may exit.
CHECK_DEADLOCK FALSE
