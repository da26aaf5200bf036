\* Three forks that succeed, two slots.  The program really stops: the parent
\* ends, by 'q' or a signal.
SPECIFICATION Spec
CONSTANTS
  k1 = k1  k2 = k2  k3 = k3
  Kids <- ThreeKids
  Group = Group
  Everyone = Everyone
  Status = Status
  MaxChild = 2
INVARIANTS TypeOK SlotsAreChildren PermissionAsAsked
PROPERTIES DestroyReturns
CHECK_DEADLOCK FALSE
