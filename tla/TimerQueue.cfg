SPECIFICATION FairSpec
CONSTANTS
  Addresses = {p1, p2}
  Callers = {c1}
  Kinds <- ShortIntervals
  ClockSteps <- BothWays
  MaxTime = 1
  MaxTimers = 2
  MaxQueue = 1
  NoTimer = NoTimer
INVARIANTS
  Mirrored
  SingleOwner
  NoOversleep
  CancelledIsGone
  CallbackCancelIsPrompt
PROPERTY
  TimerFires
