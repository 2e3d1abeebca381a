CONSTANTS
  PolicyMode = {"partial"}
  ReportMode = {"human"}
  MaxVulnErrors = 1
  MaxRows = 3
  NodeEntries = 2
  ScanEntries = 1
SPECIFICATION Spec
INVARIANT SuccessIsScanned
