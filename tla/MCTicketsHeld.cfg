SPECIFICATION Spec
CONSTANTS
  Facts <- MCFacts
  SourceOf <- MCSourceOf
  Scenarios <- PrinterAndFiles
  Generators = {g1, g2}
  Resolvers = {r1}
  Technicians = {"Avery"}
  FirstNumber = 1001
  MaxTickets = 2
  MaxChanges = 0
CHECK_DEADLOCK FALSE
INVARIANT ResourcesHeldOnce
