\* One server and one job, several attempts: the reconnect from end to end.
CONSTANTS
  Servers = {A}
  NoServer = NoServer
  Jobs = {j1}
  NoJob = NoJob
  Outcomes = {"completed", "cancelled"}
  FailureBudget = 1
  MaxRequests = 2
  Events = FALSE
  LaunchAttempts = 2
  Attempts = 2
SPECIFICATION FairSpec
\* The connecting view can be left with nothing on its way.
CHECK_DEADLOCK FALSE
PROPERTIES ReconnectEnds
