CONSTANTS
  Artifact = {r, a1, a2}
  Root = r
  NoArtifact = NoArtifact
  InnerNode = InnerNode
  Dir = {d1, d2, d3}
  NoDir = NoDir
  MaxDepth = 1
  Passwords = 1
  Tools <- AllTools
SPECIFICATION Spec
INVARIANT FullyProcessed
