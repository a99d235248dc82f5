\* Two servers and two jobs: answers that arrive after a move or a new job.
CONSTANTS
  Servers = {A, B}
  NoServer = NoServer
  Jobs = {j1, j2}
  NoJob = NoJob
  Outcomes = {"completed"}
  FailureBudget = 1
  MaxRequests = 2
  Events = TRUE
  LaunchAttempts = 1
  Attempts = 1
SPECIFICATION Spec
\* The connecting view can be left with nothing on its way.
CHECK_DEADLOCK FALSE
SYMMETRY Symmetry
INVARIANTS JobIsOfThisServer WhatIsShownIsProven ClaimsAreTrue NoJobForgotten
