CONSTANTS
  Jobs = {j1}
  Steps = {step1, step2}
  NoProgress = NoProgress
  Streams = {s1}
  MaxUnread = 0
SPECIFICATION FairSpec
INVARIANTS OutcomeArrivesWhole NothingMissed
PROPERTIES OutcomeIsDelivered
