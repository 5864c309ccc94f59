\* An ID that is that of a device with two interfaces, which restarts, and of a local entity;
\* an observer that comes and goes.
SPECIFICATION FairSpec
CHECK_DEADLOCK FALSE
CONSTANTS
  Entities = {e1}
  LocalIDs = {e1}
  Interfaces = {0, 1}
  Models = {m1, m2}
  Commons = {c1}
  Clocks = {g1}
  Macs = {mac1}
  Observers = {o1}
  None = None
  MaxIndex = 1
  MaxRestarts = 2
INVARIANTS
  ObserversAgree
PROPERTIES
  IdentityKept
  SilentDevicesLeave
