SPECIFICATION Spec
CONSTANTS
  Students = {a, b, c}
  MaxTeamSize = 2
  ClockHeld = TRUE
SYMMETRY Symmetric
CONSTRAINT Bound
INVARIANTS SeatsRespected
PROPERTIES ArchivesStand
