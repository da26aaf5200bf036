\* One process on a file of one record.
SPECIFICATION Safety
CONSTANTS
  p1 = p1  p2 = p2  v1 = v1
  Procs <- OneProc
  Value <- OneValue
  Size = 1
  Garbage = Garbage
  Absent = Absent
  MaxDeclines = 0
INVARIANTS OnlyEnteredSaved
CHECK_DEADLOCK FALSE
