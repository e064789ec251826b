SPECIFICATION SigSpec
CONSTANTS
  TicksPerSecond = 2
  Message = {c1, c2, r1}
  Command = {c1, c2}
  Proof = {p1}
  Handler = {h1, h2}
  Skew = 1
  NonceLife = 6
  Lifetime = 2
  Stall = 1
  MaxClock = 7
SYMMETRY RequestSymmetry
INVARIANTS AdmittedOnce ProofUsedOnceWhileValid
CHECK_DEADLOCK FALSE
