SPECIFICATION FairSpec
CONSTANTS
  Devices <- MCDevices
  TypeOf <- MCTypeOf
  Upstream <- MCUpstream
  Links <- MCLinks
  Outages <- MCOutages
  Reports <- MCReports
  Issues <- MCIssues
  Polls = {p1, p2}
  HistoryLimit = 2
  MaxChanges = 2
INVARIANTS
  TypeOK
  ShownAlertsAreTracked
PROPERTIES
  LatestPollResolvesTruthfully
  MonitoringConverges
