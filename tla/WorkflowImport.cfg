\* Small graphs read with and without a runtime, and once more after an export.
CONSTANTS
  None = None
  cat = cat
  dog = dog
  plain = plain
  other = other
  loose = loose
  weights = weights
  address = address
  Looks <- MCLooks
  Alphabet <- MCAlphabet
  Graphs <- MCGraphs
  Contracts <- MCContracts
  MaxExports = 1
SPECIFICATION Spec
\* The exports are bounded.
CHECK_DEADLOCK FALSE
INVARIANTS EveryInputIsAnswered IdsOutliveReexport SharedRangeIsSafe LabelsTellApart NothingStructuralIsOffered PlansLoad
