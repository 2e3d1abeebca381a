CONSTANTS
  MaxInt <- SmallInt
  Limits <- SomeLimits
  Output <- UpToThree
SPECIFICATION Spec
INVARIANT CountersExact
INVARIANT VerdictExact
INVARIANT SummaryMatches
