\* What the overlay says it lists: a call it leaves out.
CONSTANTS
  Roots = {1}
  Getters <- ReadTargets
  Mutators <- Targets
  MaxMishaps = 0
  MaxPtr = 2
  MaxDepth = 1
SPECIFICATION Spec
INVARIANT CachedListsFresh
\* A released handle ends it.
CHECK_DEADLOCK FALSE
