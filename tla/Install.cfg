SPECIFICATION ResolutionSpec
CONSTANTS
  Runs = {n1, n2, n3}
  Version = 2
  Homes <- MCHomes
SYMMETRY Symmetric
CHECK_DEADLOCK FALSE
INVARIANTS InstalledIsComplete ManifestComesLast ResolvedRuns
