SPECIFICATION FairSpec
CONSTANTS
  Tasks = {t1, t2, t3}
  Callers = {c1, c2}
  Channels = {io}
  WakeupChannel = wakeupfd
  kInitEventListSize = 1
INVARIANTS
  NoLostWakeup
  EventListBounded
PROPERTIES
  KeepsQueueOrder
  QueuedTaskRuns
  QuitEndsLoop
  CarriedTaskRuns
