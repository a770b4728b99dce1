\* Every behaviour ends when the processes have: the bounds end it, not the code.
CHECK_DEADLOCK FALSE
SPECIFICATION Spec
CONSTANTS
  Procs = {p1, p2}
  NoProc = NoProc
  MaxOpen = 2
  MaxSeq = 3
  MaxUpsets = 2
SYMMETRY ProcSymmetry
INVARIANTS MixedOnlyAcross HeldHere KeptForHandles
PROPERTIES TablesKept
