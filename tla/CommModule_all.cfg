SPECIFICATION Spec
CONSTANTS
  User = User
  Timer = Timer
  MaxLinks = 3
INVARIANTS
  TypeOK
  SuccessIsOwn
  LeftoverFailsOnce
PROPERTIES
  ConnectIsAnswered
CHECK_DEADLOCK FALSE
