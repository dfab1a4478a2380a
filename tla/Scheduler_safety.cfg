SPECIFICATION SchedulerSpec
CONSTANTS
  t1 = t1
  t2 = t2
  Tasks = {t1, t2}
  Kind <- TwoKinds
  Recurring <- TwoRecurring
  OnStart <- TwoOnStart
  Edited = {t2}
  Runs = {r1, r2}
SYMMETRY RunSymmetry
INVARIANTS ScheduledExclusive RunningRowOwned EffectLogged
PROPERTIES StopIsFinal OutcomeStands
