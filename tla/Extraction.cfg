CONSTANTS
  Artifact = {r, a1, a2, a3}
  Root = r
  NoArtifact = NoArtifact
  InnerNode = InnerNode
  Dir = {d1, d2, d3, d4}
  NoDir = NoDir
  MaxDepth = 1
  Passwords = 1
  Tools <- NoUnshield
SPECIFICATION FairSpec
INVARIANT DirsAccounted
INVARIANT CleanedUp
INVARIANT StrictStops
INVARIANT PartialIsolates
INVARIANT NothingLost
INVARIANT RejectedNeverWalked
INVARIANT BlockedHasCause
INVARIANT AllCandidatesTried
INVARIANT DepthBound
PROPERTY ImplementsContract
PROPERTY Terminates
