CONSTANTS
  e1 = e1
  e2 = e2
  n1 = n1
  n2 = n2
  p1 = p1
  p2 = p2
  p3 = p3
  Extracted = {e1, e2}
  Native = {n1, n2}
  Worker = {w1, w2}
  Package = {p1, p2, p3}
  FoundIn <- MCFoundIn
  Owner <- MCOwner
  NoOwner = NoOwner
  NoTask = NoTask
  NoWorker = NoWorker
SPECIFICATION FairSpec
INVARIANT SlotOwnership
INVARIANT SourceExclusive
INVARIANT PhaseBarrier
INVARIANT Complete
INVARIANT NoPackageLost
PROPERTY FilledOnce
PROPERTY ImplementsContract
