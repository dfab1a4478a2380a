----------------------------- MODULE Scheduler -----------------------------
(***************************************************************************)
(* The task scheduler (internal/app/scheduler.go) and the execution of     *)
(* scheduled tasks (internal/app/scheduled_tasks.go).                      *)
(*                                                                         *)
(* One goroutine scans the stored tasks and starts a goroutine for each    *)
(* one that is due; an administrator may start the same task by hand at    *)
(* any time.  A run writes an operation log, does its work, completes the  *)
(* log and stores the next run time; any write may fail, and the process   *)
(* may die between any two of them.                                        *)
(*                                                                         *)
(* Clock times are abstracted: next_run_at is absent, reached ("due") or   *)
(* ahead ("later").  Store.UpdatePlatformItem is one step.                 *)
(***************************************************************************)
EXTENDS Naturals, FiniteSets

CONSTANTS Tasks,        \* ids of scheduled_tasks
          Kind,         \* "backup", "prelogged" (asset-status and
                        \* certificate-renewal) or "cleanup" (log-cleanup)
          Recurring,    \* tasks with an interval or a cron expression
          OnStart,      \* tasks with run_on_start
          Edited,       \* tasks the administrator edits; a bound
          Runs          \* executions; bounds how many there are

(* With no task there is nothing to run: Tasks is not empty.               *)
ASSUME SchedulerAssumption ==
  /\ Tasks # {}
  /\ Kind \in [Tasks -> {"backup", "prelogged", "cleanup"}]
  /\ Recurring \subseteq Tasks /\ OnStart \subseteq Tasks
  /\ Edited \subseteq Tasks

VARIABLES
  present,     \* tasks that exist in the store
  item,        \* item[t]: status and metadata of the stored task
  proc,        \* the server process: "up" or "down"
  sched,       \* the goroutine TaskScheduler.run
  stop,        \* TaskScheduler.Stop: "no", "asked" or "returned"
  seen,        \* seen[t]: the listed copy of a task scan has yet to look at
  running,     \* TaskScheduler.running
  runPc,       \* runPc[r]: where executeScheduledTask is
  runTask,     \* runTask[r]: the task r executes
  trigger,     \* trigger[r]: "scheduled" or "manual"
  outcome,     \* outcome[r]: result of runScheduledTask, until it is logged
  effect,      \* effect[r]: what became of the changes the run made
  row,         \* row[r]: status of the run's operation_logs row
  snap,        \* snap[r]: the rows in the snapshot a log-cleanup holds
  lost,        \* lost[r]: scheduled_task.log.persist_failed was audited
  reconciled   \* the last start marked the interrupted rows

itemVars == <<present, item>>
scanVars == <<sched, stop, seen>>
runVars == <<runPc, runTask, trigger, outcome, effect, row, snap, lost>>
schedulerVars == <<itemVars, proc, scanVars, running, runVars, reconciled>>

Items == [enabled : BOOLEAN, next : {"none", "due", "later"}, ran : BOOLEAN]
NoRows == [r \in Runs |-> "none"]
NewItem == [enabled |-> TRUE, next |-> "none", ran |-> FALSE]
InFlight == {"begin", "work", "finish", "state", "over"}

SchedulerInit ==
  /\ present = Tasks
  /\ item = [t \in Tasks |-> NewItem]
  /\ proc = "up" /\ sched = "idle" /\ stop = "no"
  /\ seen = <<>>
  /\ running = {}
  /\ runPc = [r \in Runs |-> "free"]
  /\ runTask = [r \in Runs |-> CHOOSE t \in Tasks : TRUE]
  /\ trigger = [r \in Runs |-> "manual"]
  /\ outcome = [r \in Runs |-> "none"]
  /\ effect = [r \in Runs |-> "none"]
  /\ row = NoRows
  /\ snap = [r \in Runs |-> NoRows]
  /\ lost = [r \in Runs |-> FALSE]
  /\ reconciled = TRUE

-----------------------------------------------------------------------------
(***************************************************************************)
(* The stored tasks: time passes, the administrator enables, disables and  *)
(* deletes.                                                                *)
(***************************************************************************)
TimePasses(t) ==
  /\ item[t].next = "later"
  /\ item' = [item EXCEPT ![t].next = "due"]
  /\ UNCHANGED <<present, proc, scanVars, running, runVars, reconciled>>

AdminToggle(t) ==
  /\ proc = "up" /\ t \in present \cap Edited
  /\ item' = [item EXCEPT ![t].enabled = ~@]
  /\ UNCHANGED <<present, proc, scanVars, running, runVars, reconciled>>

AdminDelete(t) ==
  /\ proc = "up" /\ t \in present \cap Edited
  /\ present' = present \ {t}
  /\ item' = [item EXCEPT ![t] = NewItem]
  /\ UNCHANGED <<proc, scanVars, running, runVars, reconciled>>

-----------------------------------------------------------------------------
(* nextScheduledTaskRunAfter: a time ahead, if the task has a schedule.    *)
NextRun(t) == IF t \in Recurring THEN "later" ELSE "none"

(* scheduledTaskDue, on the copy s of task t that scan listed.             *)
Due(t, s) == \/ s.next = "due"
             \/ s.next = "none" /\ t \in OnStart /\ ~s.ran

ShouldPersistNext(t, s) == s.next = "none" /\ t \notin OnStart /\ t \in Recurring

(* executeScheduledTask is entered on a copy of the task.                  *)
Start(t, by, r) ==
  /\ runPc[r] = "free"
  /\ runPc' = [runPc EXCEPT ![r] = IF Kind[t] = "backup" THEN "work" ELSE "begin"]
  /\ runTask' = [runTask EXCEPT ![r] = t]
  /\ trigger' = [trigger EXCEPT ![r] = by]
  /\ UNCHANGED <<outcome, effect, row, snap, lost>>

(* handleScheduledTaskRun: the running map is not consulted.               *)
ManualRun(t, r) ==
  /\ proc = "up" /\ t \in present /\ item[t].enabled
  /\ Start(t, "manual", r)
  /\ UNCHANGED <<itemVars, proc, scanVars, running, reconciled>>

(* Mutant: runTask starts the goroutine whether the task runs or not. *)
RunTaskAlways(t, r) == running' = running \cup {t} /\ Start(t, "scheduled", r)

(* TaskScheduler.runTask, for a run r if one is started.                   *)
RunTask(t, r) ==
  IF t \in running
  THEN UNCHANGED <<running, runVars>>
  ELSE running' = running \cup {t} /\ Start(t, "scheduled", r)

(* The list of tasks is read; the scan goes on with these copies.          *)
ScanBegin ==
  /\ proc = "up" /\ sched = "idle"
  /\ sched' = "scanning"
  /\ seen' = [t \in present |-> item[t]]
  /\ UNCHANGED <<itemVars, proc, stop, running, runVars, reconciled>>

(***************************************************************************)
(* One iteration of scan.  persistNextRun stores the listed copy's         *)
(* metadata with a next run time; the status is left as it is in the       *)
(* store.                                                                  *)
(***************************************************************************)
ScanTask(t, r) ==
  /\ proc = "up" /\ sched = "scanning" /\ t \in DOMAIN seen
  /\ seen' = [u \in DOMAIN seen \ {t} |-> seen[u]]
  /\ \/ /\ seen[t].enabled /\ ShouldPersistNext(t, seen[t])
        /\ \/ /\ t \in present
              /\ item' = [item EXCEPT ![t].next = "later", ![t].ran = seen[t].ran]
           \/ UNCHANGED item
        /\ UNCHANGED <<running, runVars>>
     \/ /\ seen[t].enabled /\ Due(t, seen[t])
        /\ RunTask(t, r)
        /\ UNCHANGED item
     \/ /\ ~seen[t].enabled \/ ~(ShouldPersistNext(t, seen[t]) \/ Due(t, seen[t]))
        /\ UNCHANGED <<item, running, runVars>>
  /\ UNCHANGED <<present, proc, sched, stop, reconciled>>

ScanEnd ==
  /\ proc = "up" /\ sched = "scanning" /\ DOMAIN seen = {}
  /\ sched' = "idle"
  /\ UNCHANGED <<itemVars, proc, stop, seen, running, runVars, reconciled>>

(***************************************************************************)
(* Stop closes the stop channel; run notices it in its select and closes   *)
(* done; Stop waits for that, after its grace period too.                  *)
(***************************************************************************)
StopAsk ==
  /\ proc = "up" /\ stop = "no"
  /\ stop' = "asked"
  /\ UNCHANGED <<itemVars, proc, sched, seen, running, runVars, reconciled>>

SchedulerDone ==
  /\ proc = "up" /\ sched = "idle" /\ stop = "asked"
  /\ sched' = "done"
  /\ UNCHANGED <<itemVars, proc, stop, seen, running, runVars, reconciled>>

(* Mutant: Stop returns when its grace period is over. *)
StopReturnAfterGrace ==
  /\ proc = "up" /\ stop = "asked"
  /\ stop' = "returned"
  /\ UNCHANGED <<itemVars, proc, sched, seen, running, runVars, reconciled>>

StopReturn ==
  /\ proc = "up" /\ stop = "asked" /\ sched = "done"
  /\ stop' = "returned"
  /\ UNCHANGED <<itemVars, proc, sched, seen, running, runVars, reconciled>>

-----------------------------------------------------------------------------
(***************************************************************************)
(* executePreLoggedScheduledTask and executeLogCleanupScheduledTask up to  *)
(* the "running" row.  The pre-logged kinds take their snapshot of the     *)
(* collections first and give up without a trace when that fails.          *)
(***************************************************************************)
RunBegin(r) ==
  /\ proc = "up" /\ runPc[r] = "begin"
  /\ \/ /\ row' = [row EXCEPT ![r] = "running"]
        /\ runPc' = [runPc EXCEPT ![r] = "work"]
        /\ UNCHANGED lost
     \/ /\ lost' = [lost EXCEPT ![r] = TRUE]
        /\ runPc' = [runPc EXCEPT ![r] = "over"]
        /\ UNCHANGED row
     \/ /\ Kind[runTask[r]] = "prelogged"
        /\ runPc' = [runPc EXCEPT ![r] = "over"]
        /\ UNCHANGED <<row, lost>>
  /\ UNCHANGED <<itemVars, proc, scanVars, running, runTask, trigger, outcome,
                 effect, snap, reconciled>>

(* createBackupSnapshot: a backup that fails removes its own file.         *)
BackupWork(r) ==
  /\ \/ /\ outcome' = [outcome EXCEPT ![r] = "success"]
        /\ effect' = [effect EXCEPT ![r] = "done"]
     \/ /\ outcome' = [outcome EXCEPT ![r] = "failed"]
        /\ UNCHANGED effect
  /\ UNCHANGED snap

(* checkAssetStatuses and renewDueCertificates save item after item and    *)
(* may fail with part of the changes made.                                 *)
PreLoggedWork(r) ==
  /\ \/ /\ outcome' \in {[outcome EXCEPT ![r] = o] : o \in {"success", "failed"}}
        /\ effect' = [effect EXCEPT ![r] = "done"]
     \/ /\ outcome' = [outcome EXCEPT ![r] = "failed"]
        /\ UNCHANGED effect
  /\ UNCHANGED snap

(***************************************************************************)
(* logCleanupSnapshot and cleanupHistoryLogs.  The snapshot holds the rows *)
(* of every run, this one included; when it cannot be taken nothing is     *)
(* deleted (finalizeScheduledTaskSetupFailure).  The rows deleted are days *)
(* old: none of them is a row of these runs.                               *)
(***************************************************************************)
CleanupWork(r) ==
  \/ /\ outcome' \in {[outcome EXCEPT ![r] = o] : o \in {"success", "failed"}}
     /\ effect' = [effect EXCEPT ![r] = "done"]
     /\ snap' = [snap EXCEPT ![r] = row]
  \/ /\ outcome' = [outcome EXCEPT ![r] = "failed"]
     /\ UNCHANGED <<effect, snap>>

(* runScheduledTask.                                                       *)
RunWork(r) ==
  /\ proc = "up" /\ runPc[r] = "work"
  /\ runPc' = [runPc EXCEPT ![r] = "finish"]
  /\ \/ Kind[runTask[r]] = "backup" /\ BackupWork(r)
     \/ Kind[runTask[r]] = "prelogged" /\ PreLoggedWork(r)
     \/ Kind[runTask[r]] = "cleanup" /\ CleanupWork(r)
  /\ UNCHANGED <<itemVars, proc, scanVars, running, runTask, trigger, row, lost,
                 reconciled>>

(* The log row is completed (for a backup: created). *)
LogOutcome(r) ==
  /\ row' = [row EXCEPT ![r] = outcome[r]]
  /\ runPc' = [runPc EXCEPT ![r] = "state"]
  /\ UNCHANGED <<effect, lost>>

(* Mutant: a failed log write does not undo the run's changes. *)
LogFailsUnrestored(r) ==
  /\ lost' = [lost EXCEPT ![r] = TRUE]
  /\ runPc' = [runPc EXCEPT ![r] = "over"]
  /\ UNCHANGED <<effect, row>>

(***************************************************************************)
(* The row cannot be written: the snapshot is restored, item by item until *)
(* one fails, or the backup file removed, which may fail too.  Restoring   *)
(* log-cleanup's snapshot saves the rows as they were when it was taken.   *)
(***************************************************************************)
LogFails(r) ==
  /\ lost' = [lost EXCEPT ![r] = TRUE]
  /\ runPc' = [runPc EXCEPT ![r] = "over"]
  /\ \E saved \in SUBSET {q \in Runs : snap[r][q] # "none"}, e \in {"undone", "kept"} :
       /\ e = "undone" => saved = {q \in Runs : snap[r][q] # "none"}
       /\ effect' = [effect EXCEPT ![r] = IF @ = "done" THEN e ELSE @]
       /\ row' = [q \in Runs |-> IF q \in saved THEN snap[r][q] ELSE row[q]]

RunFinish(r) ==
  /\ proc = "up" /\ runPc[r] = "finish"
  /\ LogOutcome(r) \/ LogFails(r)
  /\ outcome' = [outcome EXCEPT ![r] = "none"]
  /\ snap' = [snap EXCEPT ![r] = NoRows]
  /\ UNCHANGED <<itemVars, proc, scanVars, running, runTask, trigger, reconciled>>

(* The task's last and next run time are stored, if it still exists.       *)
RunState(r) ==
  LET t == runTask[r]
  IN /\ proc = "up" /\ runPc[r] = "state"
     /\ runPc' = [runPc EXCEPT ![r] = "over"]
     /\ \/ /\ t \in present
           /\ item' = [item EXCEPT ![t].next = NextRun(t), ![t].ran = TRUE]
        \/ UNCHANGED item
     /\ UNCHANGED <<present, proc, scanVars, running, runTask, trigger, outcome,
                    effect, row, snap, lost, reconciled>>

(* Mutant: a run that failed forgets to leave the running map. *)
RunEndLeaks(r) ==
  /\ proc = "up" /\ runPc[r] = "over"
  /\ runPc' = [runPc EXCEPT ![r] = "done"]
  /\ running' = IF trigger[r] = "scheduled" /\ ~lost[r]
                THEN running \ {runTask[r]} ELSE running
  /\ UNCHANGED <<itemVars, proc, scanVars, runTask, trigger, outcome, effect,
                 row, snap, lost, reconciled>>

(* The deferred delete of runTask; a manual run just returns.              *)
RunEnd(r) ==
  /\ proc = "up" /\ runPc[r] = "over"
  /\ runPc' = [runPc EXCEPT ![r] = "done"]
  /\ running' = IF trigger[r] = "scheduled" THEN running \ {runTask[r]}
                                            ELSE running
  /\ UNCHANGED <<itemVars, proc, scanVars, runTask, trigger, outcome, effect,
                 row, snap, lost, reconciled>>

-----------------------------------------------------------------------------

(* The process dies, with every goroutine and the running map.             *)
Crash ==
  /\ proc = "up"
  /\ proc' = "down"
  /\ sched' = "done"
  /\ stop' = "no"
  /\ seen' = <<>>
  /\ running' = {}
  /\ runPc' = [r \in Runs |-> IF runPc[r] \in InFlight THEN "gone" ELSE runPc[r]]
  /\ outcome' = [r \in Runs |-> "none"]
  /\ snap' = [r \in Runs |-> NoRows]
  /\ UNCHANGED <<itemVars, runTask, trigger, effect, row, lost, reconciled>>

(* Mutant: every row of the log is taken for an interrupted one. *)
RestartFailsAll ==
  /\ proc = "down"
  /\ proc' = "up" /\ sched' = "idle" /\ reconciled' = TRUE
  /\ row' = [r \in Runs |-> IF row[r] # "none" THEN "failed" ELSE row[r]]
  /\ UNCHANGED <<itemVars, stop, seen, running, runPc, runTask, trigger, outcome,
                 effect, snap, lost>>

(* Mutant: the server starts without looking for interrupted rows. *)
RestartOnly ==
  /\ proc = "down"
  /\ proc' = "up" /\ sched' = "idle" /\ reconciled' = TRUE
  /\ UNCHANGED <<itemVars, stop, seen, running, runVars>>

(* NewServer reconciles the interrupted rows (a failure is ignored), then  *)
(* StartScheduler.                                                         *)
SchedulerRestart ==
  /\ proc = "down"
  /\ proc' = "up" /\ sched' = "idle"
  /\ \/ /\ row' = [r \in Runs |-> IF row[r] = "running" THEN "failed" ELSE row[r]]
        /\ reconciled' = TRUE
     \/ reconciled' = FALSE /\ UNCHANGED row
  /\ UNCHANGED <<itemVars, stop, seen, running, runPc, runTask, trigger, outcome,
                 effect, snap, lost>>

-----------------------------------------------------------------------------
RunStep(r) == \/ RunBegin(r) \/ RunWork(r) \/ RunFinish(r) \/ RunState(r)
              \/ RunEnd(r)

SchedulerNext ==
  \/ \E t \in Tasks : TimePasses(t) \/ AdminToggle(t) \/ AdminDelete(t)
  \/ \E t \in Tasks, r \in Runs : ManualRun(t, r) \/ ScanTask(t, r)
  \/ ScanBegin \/ ScanEnd \/ StopAsk \/ SchedulerDone \/ StopReturn
  \/ \E r \in Runs : RunStep(r)
  \/ Crash \/ SchedulerRestart

SchedulerSpec == SchedulerInit /\ [][SchedulerNext]_schedulerVars

(* The ticker fires and goroutines run.  Nobody has to start a run by      *)
(* hand, and the process need not die or come back.                        *)
SchedulerFairness ==
  /\ WF_schedulerVars(ScanBegin) /\ WF_schedulerVars(ScanEnd)
  /\ \A t \in Tasks : WF_schedulerVars(\E r \in Runs : ScanTask(t, r))
  /\ \A r \in Runs : WF_schedulerVars(RunStep(r))

SchedulerFairSpec == SchedulerSpec /\ SchedulerFairness

-----------------------------------------------------------------------------
(* Each variable holds a value the code can give it; scan's copies exist   *)
(* only during a scan.                                                     *)
SchedulerTypeOK ==
  /\ present \subseteq Tasks /\ item \in [Tasks -> Items]
  /\ proc \in {"up", "down"}
  /\ sched \in {"idle", "scanning", "done"}
  /\ stop \in {"no", "asked", "returned"}
  /\ DOMAIN seen \subseteq Tasks /\ seen \in [DOMAIN seen -> Items]
  /\ sched # "scanning" => DOMAIN seen = {}
  /\ running \subseteq Tasks
  /\ runPc \in [Runs -> InFlight \cup {"free", "done", "gone"}]
  /\ runTask \in [Runs -> Tasks]
  /\ trigger \in [Runs -> {"scheduled", "manual"}]
  /\ outcome \in [Runs -> {"none", "success", "failed"}]
  /\ effect \in [Runs -> {"none", "done", "undone", "kept"}]
  /\ row \in [Runs -> {"none", "running", "success", "failed"}]
  /\ snap \in [Runs -> [Runs -> {"none", "running", "success", "failed"}]]
  /\ lost \in [Runs -> BOOLEAN]
  /\ reconciled \in BOOLEAN

Scheduled(r) == trigger[r] = "scheduled" /\ runPc[r] \in InFlight

(***************************************************************************)
(* The scheduler never runs a task beside itself, and a task is in the     *)
(* running map exactly while such a run is in flight: an entry that stayed *)
(* would keep the task from ever running again.                            *)
(***************************************************************************)
ScheduledExclusive ==
  /\ \A r, s \in Runs : Scheduled(r) /\ Scheduled(s) /\ runTask[r] = runTask[s]
                          => r = s
  /\ running = {runTask[r] : r \in {s \in Runs : Scheduled(s)}}

(* A log-cleanup whose own row could not be written put back its snapshot, *)
(* and with it older states of other runs' rows.                           *)
LogRestored == \E c \in Runs : lost[c] /\ Kind[runTask[c]] = "cleanup"

(***************************************************************************)
(* While the server is up, a row that says "running" belongs to a run that *)
(* is in flight, unless the failed write of a row was audited, its own or  *)
(* a log-cleanup's, or the reconciliation at the last start failed         *)
(* (ReconcileInterruptedScheduledTaskLogs).                                *)
(***************************************************************************)
RunningRowOwned ==
  proc = "up" /\ reconciled =>
    \A r \in Runs : row[r] = "running" =>
      runPc[r] \in InFlight \/ lost[r] \/ LogRestored

(***************************************************************************)
(* No unlogged change: when a run is over, changes it made are in place    *)
(* only if its log row tells an outcome; and when it was interrupted, the  *)
(* kinds that log before they work have a row.                             *)
(***************************************************************************)
EffectLogged ==
  \A r \in Runs : effect[r] = "done" =>
    /\ runPc[r] \in {"over", "done"} =>
         row[r] \in {"success", "failed"} \/ (LogRestored /\ row[r] # "none")
    /\ runPc[r] = "gone" /\ Kind[runTask[r]] # "backup" => row[r] # "none"

(* Once Stop has returned the scheduler starts nothing more.               *)
StopIsFinal ==
  [][stop = "returned" =>
       \A r \in Runs : runPc[r] = "free" /\ runPc'[r] # "free"
                         => trigger'[r] = "manual"]_schedulerVars

(***************************************************************************)
(* A row that tells the outcome of a run is never rewritten, by a restart  *)
(* either; only the restored snapshot of a log-cleanup may take it back to *)
(* an older state.                                                         *)
(***************************************************************************)
OutcomeStands ==
  [][\A r \in Runs : row[r] \in {"success", "failed"} /\ row'[r] # row[r] =>
       \E c \in Runs : /\ runPc[c] = "finish" /\ lost'[c]
                       /\ snap[c][r] # "none" /\ row'[r] = snap[c][r]]_schedulerVars

(***************************************************************************)
(* A task that is due is run and gets a new time, unless it is disabled or *)
(* deleted, the server stops or dies, or the bound on runs is reached.     *)
(***************************************************************************)
DueTaskRuns ==
  \A t \in Tasks :
    t \in present /\ item[t].enabled /\ item[t].next = "due"
      ~> \/ t \notin present \/ ~item[t].enabled \/ item[t].next # "due"
         \/ proc = "down" \/ stop # "no"
         \/ \A r \in Runs : runPc[r] # "free"
=============================================================================
