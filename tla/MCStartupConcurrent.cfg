SPECIFICATION Spec
CONSTANTS
  Jobs <- MCJobs
  Size = 2
  Starts <- ConcurrentStarts
  MaxClock = 0
  strftime <- MCSeconds
INVARIANT ConcurrentJobsStart
CHECK_DEADLOCK FALSE
