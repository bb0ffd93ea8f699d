SPECIFICATION Spec
CONSTANTS
  Ous <- MCOus
  Groups <- MCGroups
  Users <- MCUsers
  Baseline <- MCBaseline
  Disabled = {"taylor"}
  Attended = {"jordan"}
  DeprecatedUsers <- MCOldUsers
  DeprecatedGroups <- MCOldGroups
  Computers <- MCComputers
  Place <- MCPlace
  Laptops = {"LTP01"}
  Existing <- MCExisting
  MaxDisturbances = 3
INVARIANTS
  TypeOK
PROPERTIES
  MarkedIsComplete
  FormerEmployeesAreDisabled
  BootCompletes
