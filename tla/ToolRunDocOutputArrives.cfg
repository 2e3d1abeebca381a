CONSTANTS
  MaxInt <- SmallInt
  Limits <- SomeLimits
  Output <- UpToThree
SPECIFICATION Spec
INVARIANT OutputArrives
