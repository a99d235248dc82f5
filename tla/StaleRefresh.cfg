\* Two threads refresh one job.
CONSTANTS
  Prompts = {j1}
  Jobs = {j1}
  Workers = {w1, w2}
  Free = Free
  Steps = {1}
  NoProgress = NoProgress
  MaxRestarts = 0
SPECIFICATION Spec
\* Nothing need happen once every prompt was submitted and nobody asks.
CHECK_DEADLOCK FALSE
PROPERTIES OutcomeIsFinal
