\* A report needs three samples here; up to five may come between two reports.
SPECIFICATION ChildSpec
CONSTANTS
  MinTimes = 2
  MaxTimes = 5
INVARIANTS ChildTypeOK ReportIsFull NoSampleTwice
