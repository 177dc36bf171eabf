SPECIFICATION DeadlineSpec
CONSTANTS
  PerMs = 3
  Horizon = 2
  MaxWire = 5
  TimerSlack = 3
  MaxTime = 12
INVARIANTS
  HorizonHolds
