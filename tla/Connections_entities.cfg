\* Three entities of one stream each way for clocks, two for the rest.
SPECIFICATION Spec
CHECK_DEADLOCK FALSE
CONSTANTS
  e1 = e1
  e2 = e2
  e3 = e3
  Entities <- Three
  Inputs = {0}
  Outputs = {0}
  Channels = {0, 1}
  Clusters = {0}
  None = None
  Internal = Internal
  Settings <- AllSettings
INVARIANTS
  TalkersKnowTheirListeners
  ChainsAreCurrent
  ClustersAreCurrent
