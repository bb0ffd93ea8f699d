SPECIFICATION Spec
CONSTANTS
  Workstations = {WS01, WS02}
  Handlers = {h1, h2}
  PageCounts = {2}
  FirstJobId = 1001
  Failures = {"refused", "lost"}
  MaxJobs = 2
  MaxRequests = 5
SYMMETRY Symmetry
INVARIANTS
  TypeOK
  CleanRequestHeals
  ReportedJobIsNotOlder
PROPERTY OfflineSendsNothing
