CONSTANTS
  PolicyMode <- BothPolicies
  ReportMode <- AllReportModes
  MaxVulnErrors = 1
  MaxRows = 3
  NodeEntries = 2
  ScanEntries = 1
SPECIFICATION Spec
INVARIANT HardSecurityFinalized
INVARIANT SuccessIsComplete
INVARIANT PathsAreWritten
INVARIANT HumanReportCurrent
INVARIANT FatalIsFirst
INVARIANT CleanedUp
