\* VM programs on the Hack computer.  What does not assemble stops before it begins.
SPECIFICATION Spec
CONSTANTS
  Programs <- MCPrograms
CHECK_DEADLOCK FALSE
INVARIANTS
  TypeOK
PROPERTIES
  ImplementsVM
  GivesResults
