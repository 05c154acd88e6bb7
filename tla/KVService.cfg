\* Two clerks and two servers, commands that are logged twice, a restart.
SPECIFICATION Spec
CONSTANTS
  Server = {s1, s2}
  Clerk = {c1, c2}
  Key = {k1}
  Nil = Nil
  MaxCalls = 2
  MaxStarts = 3
  MaxCrashes = 1
INVARIANTS
  TypeOK
  AppendedOnce
  OutcomesAgree
  AnswersLogged
PROPERTIES
  ImplementsStore
SYMMETRY Symmetry
CHECK_DEADLOCK FALSE
