\* Two records written twice, two deaths, a file operation that fails.
CONSTANTS
  Records = {r1, r2}
  MaxVersion = 2
  MaxCrashes = 2
  MaxFailures = 1
SPECIFICATION Spec
SYMMETRY Symmetry
INVARIANTS
  TypeOK
  FlushedIsKept
  CloseKeepsAll
