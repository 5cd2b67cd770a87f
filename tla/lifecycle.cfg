SPECIFICATION Spec
CONSTANTS
  k1 = k1
  k2 = k2
  Keys = {k1, k2}
  None = None
  MaxInitial = 2
  MaxReconnect = 3
  MaxSessions = 2
CHECK_DEADLOCK FALSE
INVARIANTS
  TrustComesFromTheUser
  PasswordHeldWhenNeeded
  RejectedOnlyOnce
  AttemptsBounded
  WindowShowsTheTruth
PROPERTIES
  AnnouncedAttemptIsNext
  QuestionsAreAnswered
  NoFrozenWindow
