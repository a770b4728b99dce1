\* One handle, its database, a package of it and a loaded one, a stub nested in
\* another and three results; one reply is lost, or one destruction refused.
CONSTANTS
  Roots = {1}
  Getters <- Read
  Mutators <- Setters
  MaxMishaps = 1
  MaxPtr = 3
  MaxDepth = 2
SPECIFICATION Spec
INVARIANTS
  HeldUnlessRefused
  StaleOnlyIfUnseen
  EntriesOwned
PROPERTY CachedPointerStable
\* A released handle ends it.
CHECK_DEADLOCK FALSE
