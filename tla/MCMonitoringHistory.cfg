SPECIFICATION Spec
CONSTANTS
  Devices <- FileServerOnly
  TypeOf <- MCTypeOf
  Upstream <- NoUpstream
  Links <- MCLinks
  Outages <- MCOutages
  Reports <- Faults
  Issues <- MCIssues
  Polls = {p1}
  HistoryLimit = 2
  MaxChanges = 4
INVARIANT ActiveConditionsAreShown
