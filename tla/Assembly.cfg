CONSTANTS
  root = root
  inner = inner
  Node = {root, inner}
  Root = root
  Parent <- MCParent
  Name = {"delivery", "inner", "manifest"}
  NodePath <- MCNodePath
  Entry = {1, 2, 3}
  Component <- Components
  NodeResult <- Results
  Manifest = "manifest"
  NoPurl = "none"
SPECIFICATION Spec
INVARIANT GraphMatchesList
INVARIANT Accounted
INVARIANT KeptLeadsToListed
INVARIANT OneComponentPerPurl
INVARIANT NothingBetterDropped
INVARIANT PackagesIndexed
INVARIANT OthersIndexed
