SPECIFICATION Spec
CONSTANTS
  Users <- MCUsers
  Baseline <- MCBaseline
  OfficeHosts <- MCOfficeHosts
  DynamicHosts = {}
  Floors = {"Finance"}
  None = "none"
  HostNumbers = {14}
  Requests = {r1, r2}
  Failures = {}
  Drafts = {}
  DraftFloors = {}
  MaxChanges = 1
SYMMETRY Symmetry
CHECK_DEADLOCK FALSE
INVARIANTS
  OffboardedLosesAccess
PROPERTIES
  UndisturbedSaveKeepsAgreement
  UndisturbedSaveIsItsOwn
