SPECIFICATION Spec
CONSTANTS
  Interfaces <- RouterInterfaces
  Optional <- RouterOptional
  StaticRoutes <- RouterRoutes
  Core = "CORE01"
  Switches = {}
  Requests = {r1}
  MaxLate = 0
INVARIANTS
  RestoredIsRouted
