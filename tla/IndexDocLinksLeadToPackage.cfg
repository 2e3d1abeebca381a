CONSTANTS
  root = root
  inner = inner
  Node = {root, inner}
  Root = root
  Parent <- MCParent
  Name = {"delivery", "inner", "manifest"}
  NodePath <- MCNodePath
  Entry = {1, 2, 3}
  Component <- Components
  NodeResult <- Results
  Manifest = "manifest"
  NoPurl = "none"
SPECIFICATION Spec
INVARIANT LinksLeadToPackage
