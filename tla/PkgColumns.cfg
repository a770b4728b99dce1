\* Two packages in overlapping lists, three columns, and a stub nested in another;
\* callbacks may change reasons, and replies may be lost.
CONSTANTS
  a = a  b = b
  Pkgs = {a, b}
  Root <- OneHandle
  Lists <- Overlapping
  LoseReplies = TRUE
  SetsNested = TRUE
  MaxCols = 3
  MaxDepth = 2
SPECIFICATION Spec
INVARIANTS
  ReadsOwnEntry
  HeldStringsValid
  StaleOnlyIfRaced
\* A released handle ends it.
CHECK_DEADLOCK FALSE
