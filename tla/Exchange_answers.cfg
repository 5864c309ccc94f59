SPECIFICATION FairSpec
CONSTANTS
  Entities = {"Controller", "Aggregate"}
  MaxChanges = 2
INVARIANTS
  SuccessIsEarned
  NoFalseRefusal
  AnsweredOnce
PROPERTIES
  CallsAnswered
CHECK_DEADLOCK FALSE
