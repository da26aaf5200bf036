\* Two processes share a file of one record, or two if one is added; a record
\* is either v1 or what an unassigned variable held.
SPECIFICATION Spec
CONSTANTS
  p1 = p1  p2 = p2  v1 = v1
  Procs <- TwoProcs
  Value <- OneValue
  Size = 1
  Garbage = Garbage
  Absent = Absent
  MaxDeclines = 2
INVARIANTS TypeOK NoBlindOverwrite PrintsOneState NothingHeldAtMenu NoDeadlockError
PROPERTIES LockGranted
