\* One entity, over five settings of the device and of the controller.
SPECIFICATION FairSpec
CHECK_DEADLOCK FALSE
CONSTANTS
  Settings <- All
  None = None
INVARIANTS
  AdvertisedWhole
  NoAssertionFails
PROPERTIES
  AdvertisedInformed
  EnumerationEndsUnlessMisread
