SPECIFICATION CooperativeSpec
CONSTANTS
  MAX_PROCESSES = 4
  TIME_SLICE = 2
  STACKS = 3
  PD_FRAMES = 4
  SleepMs = {5, 20}
  UINT32 = 100000
  PREEMPT = TRUE
  MAX_TICKS = 3
INVARIANTS TypeOK ReadyIffQueued CurrentRuns StacksExclusive RunsInOwnAddressSpace SleepsLongEnough
PROPERTIES ExitIsFinal EveryoneRuns
