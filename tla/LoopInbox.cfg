SPECIFICATION Spec
CONSTANTS
  Poster = {p1}
  Self = self
  Msg = {m1, m2, m3}
  Null = Null
  MAIL = 2
INVARIANTS TypeOK NoLostWakeup ListsApart NothingLeft
PROPERTIES ImplementsMailbox KeepsDelivering
CHECK_DEADLOCK FALSE
