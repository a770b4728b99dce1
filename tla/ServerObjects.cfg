\* A local and two sync databases, three packages of two names, four ids: a handle,
\* a pair of databases and a package, or a database and two packages, of its own or
\* one a copy of the other.
CONSTANTS
  h1 = h1
  d1 = d1
  d2 = d2
  d3 = d3
  q1 = q1
  q2 = q2
  q3 = q3
  n1 = n1
  n2 = n2
  HandlePtr = {h1}
  DbPtr = {d1, d2, d3}
  PkgPtr = {q1, q2, q3}
  Name = {n1, n2}
  MaxSeq = 4
SPECIFICATION Spec
SYMMETRY Symmetry
\* The bound on ids can leave nothing to do.
CHECK_DEADLOCK FALSE
INVARIANTS
  StaleOnlyIfStray
  HandleAndDbsKept
  TableSound
