SPECIFICATION SpecPreempted
CONSTANTS
  Procs = {p1, p2, p3}
  NULL = NULL
INVARIANT PushAddsToQueue
