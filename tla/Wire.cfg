\* Every behaviour ends after MaxFrames frames: that is no deadlock of the code.
CHECK_DEADLOCK FALSE
SPECIFICATION FairSpec
CONSTANTS
  Bits = 8
  MaxDepth = 4
  InitCap = 4
  NumRoom = 4
  EscRoom = 3
  ByteBase = 16
  DigitBase = 8
  HdrBase = 7
  MaxFrame = 38
  Chunks = {1, 16}
  MaxFrames = 2
  MaxFaults = 2
  Results <- MCResults
  Probes <- MCProbes
INVARIANTS InBounds Faithful ReadsExactly 
PROPERTIES Settles
