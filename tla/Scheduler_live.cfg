SPECIFICATION SchedulerFairSpec
CONSTANTS
  t1 = t1
  t2 = t2
  Tasks = {t1}
  Kind <- OneKind
  Recurring <- OneRecurring
  OnStart <- NoOnStart
  Edited = {t1}
  Runs = {r1, r2}
PROPERTIES DueTaskRuns
