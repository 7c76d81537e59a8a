SPECIFICATION TimerSpec
CONSTANTS
  Fd = {f1, f2}
  Size = 3
  Interval = 2
INVARIANTS
  ExpiryIsAge
PROPERTIES
  OnlyIdleAreClosed
  NotTooSoon
  IdleIsClosed
