SPECIFICATION Spec
CONSTANTS
  Job = {a, w}
  Wal = {w}
  JOURNAL_QUEUE = 1
  JOURNAL_CONTROL = 2
  JOURNAL_JOBS = 1
  JOURNAL_RECOVERY = 3
  JOURNAL_TERMINAL = 1
  MaxPuts = 3
  MaxFaults = 0
  MaxCrashes = 1
INVARIANTS LegacyRetained

CHECK_DEADLOCK FALSE
