\* Two handles with their own keyrings, their addresses reused, calls three deep
\* and a failure anywhere.
CONSTANTS
  h1 = h1
  h2 = h2
  d1 = d1
  d2 = d2
  Addr = {h1, h2}
  Dir = {d1, d2}
  Default = d1
  Nowhere = Nowhere
  MaxDepth = 3
  MaxFaults = 1
SPECIFICATION Spec
INVARIANTS
  OwnKeyring
  EntryCurrent
