SPECIFICATION QSpec
CONSTANTS
  a1 = a1
  a2 = a2
  b1 = b1
  g1 = g1
  g2 = g2
  A = A
  B = B
  r1 = r1
  r2 = r2
  r3 = r3
  Job = {a1, g1, g2}
  None = None
  Principal = {A, B}
  Class <- MixedClass
  Who <- MixedWho
  Fixed = {}
  Setup <- MixedSetup
  MaxCalls = 3
  JOB_QUEUED = 2
  FAILURES = 1
  SLOTS = 3
  Slots = {1, 2}
INVARIANTS Types OnLists StepsReady ProbeAlone CutOnce RecordsKept
PROPERTY BackgroundLast
SYMMETRY Symmetry
