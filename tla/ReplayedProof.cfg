SPECIFICATION SigSpec
CONSTANTS
  TicksPerSecond = 1
  Message = {c1, c2, c3}
  Command = {c1, c2, c3}
  Proof = {p1, p2}
  Handler = {h1, h2}
  Skew = 1
  NonceLife = 5
  Lifetime = 2
  Stall = 1
  MaxClock = 3
SYMMETRY RequestSymmetry
INVARIANT ReplayedProofsAreRejected
CHECK_DEADLOCK FALSE
