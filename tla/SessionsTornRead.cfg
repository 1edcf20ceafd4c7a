SPECIFICATION Spec
CONSTANTS
  NoCall = NoCall
  Keys = {k1}
  Calls = {c1, c2}
  MaxResults = 2
CHECK_DEADLOCK FALSE
INVARIANT OkMeansClean
