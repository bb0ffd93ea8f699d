SPECIFICATION Spec
CONSTANTS
  Shares = {"ITTools"}
  ReadGroups <- MCReadGroups
  WriteGroups <- MCWriteGroups
  Requests = {r1, r2}
SYMMETRY Symmetry
INVARIANTS
  TypeOK
  UndisturbedReplyIsTrue
  OnlineIsRouted
  AccessIsDecidedAsListed
PROPERTIES
  OrphanOnlyAfterRace
