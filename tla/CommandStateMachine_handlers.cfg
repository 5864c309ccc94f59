\* One command, and what the documentation says of its handler.
SPECIFICATION FairSpec
CONSTANTS
  Locals = {l1}
  AecpTargets = {e1}
  AcmpTargets = {}
  Commands = {c1}
  None = None
  MaxInflight = 1
  SeqMod = 4
  MaxEra = 1
  MaxInProgress = 0
PROPERTIES
  HandlersAreCalled
