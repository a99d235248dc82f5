\* One thread at a time, another client's prompt in the queue, one restart of ComfyUI.
CONSTANTS
  Prompts = {j1, o1}
  Jobs = {j1}
  Workers = {w1}
  Free = Free
  Steps = {1}
  NoProgress = NoProgress
  MaxRestarts = 1
SPECIFICATION FairSpec
\* Nothing need happen once every prompt was submitted and nobody asks.
CHECK_DEADLOCK FALSE
PROPERTIES OutcomeIsFinal
