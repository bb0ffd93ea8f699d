SPECIFICATION Spec
CONSTANTS
  Interfaces <- MCInterfaces
  Optional <- MCOptional
  StaticRoutes <- MCStaticRoutes
  Core = "CORE01"
  Switches = {"SW01"}
  Requests = {r1, r2}
  MaxLate = 1
SYMMETRY Symmetry
INVARIANTS
  TypeOK
  UndisturbedActionTakesEffect
  RestoredUnderCore
