\* One command of the user, three changes by others: the two sequence IDs come round.
SPECIFICATION FairSpec
CONSTANTS
  Calls = {c1}
  None = None
  Width = 2
  MaxChanges = 3
  MaxStays = 2
  MaxLosses = 1
INVARIANTS
  MirrorFollowsDevice
  ObserversSeeTheModel
PROPERTIES
  LossesAreDetected
  SuccessIsShown
  CallsAnswered
CHECK_DEADLOCK FALSE
