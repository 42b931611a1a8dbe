SPECIFICATION Spec
CONSTANTS
  a1 = a1
  a2 = a2
  b1 = b1
  g1 = g1
  g2 = g2
  A = A
  B = B
  Job = {a1, g1}
  None = None
  Principal = {A, B}
  Class <- MixedClass
  Who <- MixedWho
  Fixed = {}
  Setup <- ArchivedSetup
  MaxCalls = 3
  JOB_QUEUED = 2
  FAILURES = 1
  SLOTS = 1
  Slots = {1}
INVARIANT InteractivePreempts
