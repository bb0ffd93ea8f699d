SPECIFICATION Spec
CONSTANTS
  Facts <- MCFacts
  SourceOf <- MCSourceOf
  Scenarios <- AllScenarios
  Generators = {g1, g2}
  Resolvers = {r1}
  Technicians = {"Avery"}
  FirstNumber = 1001
  MaxTickets = 2
  MaxChanges = 2
CHECK_DEADLOCK FALSE
INVARIANTS
  TypeOK
PROPERTIES
  TicketsMoveForward
  UndisturbedGenerationKeepsApart
  SingleCheckResolvedAfterRecovery
