SPECIFICATION Spec
CONSTANTS
  Players = {p1, p2}
  MaxRounds = 3
  Patterns <- MCPatterns
  Capacity = 2
  Grace = 1
  ReportWindow = 1
  Timeout = 2
INVARIANTS
  VerdictsAreTrue
  MarkersShowTheirRound
PROPERTIES
  OneVerdict
SYMMETRY Symmetry
