\* Devices that keep to the standards and others, two interfaces, counters about to wrap.
SPECIFICATION Spec
CONSTANTS
  g1 = g1
  g2 = g2
  Grandmasters <- Two
  Counted = {"AvbInterface0", "StreamInput"}
  Settings <- AllSettings
  None = None
  Width = 4
  MaxWire = 2
  MaxChanges = 2
  MaxLosses = 1
SYMMETRY AnyOrder
INVARIANTS
  DiagnosticsAreCurrent
  VerdictsAreJust
  ObserversSeeHealth
