SPECIFICATION FairSpec
CONSTANTS
  Threads = 3
  Calls <- MCCalls
  Wide = 32
  MaxRuns = 2
INVARIANTS NobodyOutlivesTheCall
PROPERTIES IsParallelFor CallsReturn
