\* One run through four bounds: two local entities; AECP and ACMP, and IN_PROGRESS; three
\* commands for one destination; a local entity registered twice, and two destinations.
SPECIFICATION BoundedSpec
CONSTANTS
  c1 = c1
  c2 = c2
  c3 = c3
  l1 = l1
  l2 = l2
  e1 = e1
  e2 = e2
  Locals = {l1, l2}
  AecpTargets = {e1, e2}
  AcmpTargets = {mac}
  Commands = {c1, c2, c3}
  None = None
  MaxInflight = 1
  SeqMod = 3
  MaxEra = 2
  MaxInProgress = 1
INVARIANTS
  CommandsAccountedFor
  InflightBounded
  QueuesAreServed
  FirstAcceptedFirstSent
  AnswerIsOwn
PROPERTIES
  ImplementsService
  CommandsSettle
