\* A descriptor that was not read is missing from the model kept for the next device.
SPECIFICATION Spec
CHECK_DEADLOCK FALSE
CONSTANTS
  Settings <- OneFault
  None = None
INVARIANTS
  CachedModelWhole
