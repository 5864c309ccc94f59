\* A configuration that is asked again is never read.
SPECIFICATION FairSpec
CHECK_DEADLOCK FALSE
CONSTANTS
  Settings <- OneRetry
  None = None
PROPERTIES
  EnumerationEnds
