SPECIFICATION FairSpec
CONSTANTS
  h1 = h1
  h2 = h2
  wks = wks
  intruder = intruder
  Handlers <- TwoHandlers
  Sources <- AllSources
  AllowedSources <- Allowed
  PageCounts <- TwoSizes
  MaxPaper = 8
  InitialToner = 3
  FullToner = 3
  FirstJobId = 1001
  MaxJobs = 3
INVARIANTS
  TypeOK
  NoLostWakeup
  AttentionIsJustified
  MessageIsTrue
  JobsAreNumbered
PROPERTIES
  SpoolSpec
  HeadIsPrinted
