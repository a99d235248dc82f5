\* Two threads handle one job at once; ComfyUI does not restart.
CONSTANTS
  Prompts = {j1}
  Jobs = {j1}
  Workers = {w1, w2}
  Free = Free
  Steps = {1}
  NoProgress = NoProgress
  MaxRestarts = 0
SPECIFICATION FairSpec
\* Nothing need happen once every prompt was submitted and nobody asks.
CHECK_DEADLOCK FALSE
INVARIANTS OutcomeIsComfys NothingLeftUnpublished
PROPERTIES PublishesWhatIsPromised RecordedOutcomeSticks DeletionIsNoticed
