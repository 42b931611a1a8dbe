SPECIFICATION WSpec
CONSTANTS
  t1 = t1
  t2 = t2
  w1 = w1
  Loop = {t1, t2}
  Rec = {r1}
  Wait = {w1}
  Key = {a, b}
  Anonymous = {a, b}
  None = None
  LEDGER_MAX = 2
  LEDGER_MINE = 2
  LEDGER_RUNNING = 1
  LEDGER_WAITS = 1
  LEDGER_TIMERS = 1
  LEDGER_OWNERS = 2
INVARIANTS HeldExactly EventsTold OwnersKept
PROPERTIES WaitsOver DrainEnds
