SPECIFICATION Spec
CONSTANTS
  Users <- MCUsers
  Baseline <- MCBaseline
  OfficeHosts <- MCOfficeHosts
  DynamicHosts = {"WS10"}
  Floors = {"Finance", "Operations"}
  None = "none"
  HostNumbers = {14, 15}
  Requests = {r1}
  Failures = {"refused", "lost", "unsaved", "unrendered", "undeployed"}
  Drafts = {d1}
  DraftFloors = {"Operations"}
  MaxChanges = 1
CHECK_DEADLOCK FALSE
INVARIANTS
  TypeOK
  AssignmentsAgree
  MemoryFollowsRecord
  RecordsMatchDirectory
PROPERTIES
  DepartmentFollowsAssignment
  DeployedIsRecorded
