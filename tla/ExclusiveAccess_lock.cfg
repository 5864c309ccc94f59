\* Two users and another controller.
SPECIFICATION FairSpec
CHECK_DEADLOCK FALSE
CONSTANTS
  Users = {u1, u2}
  Others = {o1}
  TokenTypes = {"Lock"}
  Direct = {"release"}
  Milan = FALSE
  Us = us
  None = None
  MaxCalls = 3
  MaxStays = 2
  MaxEvents = 1
  MaxFaults = 1
INVARIANTS
  StateFollowsDevice
  TokensAreHeld
  NothingHeldForNobody
PROPERTIES
  RequestsAnswered
