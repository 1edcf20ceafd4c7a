SPECIFICATION FairSpec
CONSTANTS
  NoCall = NoCall
  Keys = {k1}
  Calls = {c1, c2, c3}
  MaxResults = 2
CHECK_DEADLOCK FALSE
INVARIANTS OneShutdownTakesSession GetReadsStandingSession DirsAreOwned OkUnlessTorn
PROPERTIES EveryCallReturns
