SPECIFICATION Spec
CONSTANTS
  r1 = r1
  r2 = r2
  r3 = r3
  r4 = r4
  Key = {1, 2, 3}
  Ref <- MCRef
  Salt = {0, 1, 2}
  Factory <- MCFactory
  NoRef = NoRef
  NoKey = NoKey
  Component <- MCComponent
  NotListed = NotListed
  Vulnerability = {1, 2}
  Severity = {"high", "odd", "unknown"}
  MaxMatches = 2
INVARIANTS
  RefsDistinct
  RefsDetermined
  CompletedIsExact
  VerdictsAgree
  FindingsReported
  HtmlShowsWorst
