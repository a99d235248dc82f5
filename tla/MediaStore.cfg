\* Three uploads over two ids, two jobs, a ceiling two of the three fill.
CONSTANTS
  Uploads = {u1, u2, u3}
  NoUpload = NoUpload
  MediaIds = {m1, m2}
  Jobs = {j1, j2}
  Limit = 2
  Capacity = 2
  TTL = 1
  MaxTime = 1
SPECIFICATION Spec
\* The store stops when the gateway exits.
CHECK_DEADLOCK FALSE
SYMMETRY Symmetry
INVARIANTS HeldFilesExist ReservationIsKept EveryFileIsKnown HandedOverOnce
