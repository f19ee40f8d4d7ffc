---------------------------- MODULE TaskSchedule ----------------------------
(***************************************************************************)
(* The tasks of the heap task thread (runtime/gc/task_processor.cc) that   *)
(* Marvin's work hangs on: the WriteTask, which asks for a collection or   *)
(* compacts the heap and schedules itself again (runtime/marvin_swap.cc),  *)
(* ConcurrentGCTask and CollectorTransitionTask (runtime/gc/heap.cc).      *)
(*                                                                         *)
(* Beside the heap task thread run the thread that reports the process     *)
(* state (UpdateProcessState), an allocating thread that asks for          *)
(* concurrent collections, and the thread that initializes swapping.       *)
(* A task whose target time has come is in due, in the order of the target *)
(* times; the others wait.                                                 *)
(***************************************************************************)
EXTENDS Naturals, Sequences, FiniteSets

CONSTANT MarkSweeps   \* BG_MARK_SWEEPS_BEFORE_SEMI_SPACE
ASSUME MarkSweepsAssumption == MarkSweeps \in Nat

VARIABLES
  processor,   \* is_running_ and shutting_down_: new, running, closing (the
               \* runtime shuts down, the processor still runs), stopped
  due,         \* tasks_ whose target time has come
  waiting,     \* how many of the other tasks_ there are of each kind
  hpc,         \* where the heap task thread is
  counter,     \* bgMarkSweepCounter
  reg,         \* its value as loaded by bgMarkSweepCounter++
  gcPending,   \* concurrent_gc_pending_
  apc,         \* where the allocating thread is
  transitionPending,  \* pending_collector_transition_ is set
  desired,     \* desired_collector_type_
  jank,        \* process_state_ is jank perceptible
  foreground,  \* appInForeground
  upc,         \* where UpdateProcessState is
  swap,        \* initialization of swapping: pid, swapEnabled
  ioError,     \* a WriteTask met an I/O error
  sweeps,      \* history: collections finished since the counter was last
               \* reset
  mishap       \* history: what raced with the counting

taskVars    == <<processor, due, waiting>>
gcVars      == <<gcPending, apc>>
processVars == <<jank, foreground, upc, desired, transitionPending>>
swapVars    == <<swap, ioError>>
countVars   == <<counter, reg, sweeps, mishap>>
vars == <<taskVars, hpc, gcVars, processVars, swapVars, countVars>>

Init ==
  /\ processor = "new" /\ due = << >>
  /\ waiting = [k \in {"write", "transition"} |-> 0]
  /\ hpc = "idle" /\ counter = 0 /\ reg = 0
  /\ gcPending = FALSE /\ apc = "idle"
  /\ transitionPending = FALSE /\ desired = "foreground"
  /\ jank = TRUE /\ foreground = TRUE /\ upc = "idle"
  /\ swap = "new" /\ ioError = FALSE
  /\ sweeps = 0 /\ mishap = "none"

AddLater(k) == waiting' = [waiting EXCEPT ![k] = @ + 1]
AddNow(k)   == due' = Append(due, k)
IsRunning == processor \in {"running", "closing"}
IsShuttingDown == processor \in {"closing", "stopped"}
CanAddHeapTask == ~IsShuttingDown
MishapIf(p, what) == mishap' = IF p /\ mishap = "none" THEN what ELSE mishap

-----------------------------------------------------------------------------
(* The task processor.                                                     *)
Start ==
  /\ processor = "new" /\ processor' = "running"
  /\ UNCHANGED <<due, waiting, hpc, gcVars, processVars, swapVars, countVars>>
(* ~Runtime sets shutting_down_, then has the daemons stopped.             *)
ShutDown ==
  /\ processor = "running" /\ processor' = "closing"
  /\ UNCHANGED <<due, waiting, hpc, gcVars, processVars, swapVars, countVars>>
Stop ==
  /\ processor = "closing" /\ processor' = "stopped"
  /\ UNCHANGED <<due, waiting, hpc, gcVars, processVars, swapVars, countVars>>

(* The target time of a waiting task comes.                                *)
TargetTimeComes(k) ==
  /\ waiting[k] > 0
  /\ waiting' = [waiting EXCEPT ![k] = @ - 1]
  /\ AddNow(k)
  /\ UNCHANGED <<processor, hpc, gcVars, processVars, swapVars, countVars>>

FirstStep(k) ==
  CASE k = "write" -> "write" [] k = "gc" -> "gccheck" [] k = "transition" -> "transition"

(* Mutant: no task is taken any more once the runtime shuts down.          *)
GetTaskWhileRunning ==
  /\ hpc = "idle" /\ processor = "running" /\ due # << >>
  /\ hpc' = FirstStep(Head(due)) /\ due' = Tail(due)
  /\ UNCHANGED <<processor, waiting, gcVars, processVars, swapVars, countVars>>
(* GetTask returns the first task that is due.                             *)
GetTask ==
  /\ hpc = "idle" /\ processor # "new" /\ due # << >>
  /\ hpc' = FirstStep(Head(due)) /\ due' = Tail(due)
  /\ UNCHANGED <<processor, waiting, gcVars, processVars, swapVars, countVars>>

(* After Stop it does not wait for target times.                           *)
GetTaskAtOnce(k) ==
  /\ hpc = "idle" /\ processor = "stopped" /\ due = << >> /\ waiting[k] > 0
  /\ hpc' = FirstStep(k) /\ waiting' = [waiting EXCEPT ![k] = @ - 1]
  /\ UNCHANGED <<processor, due, gcVars, processVars, swapVars, countVars>>

(* GetTask returns no task after Stop, and RunAllTasks returns.  A task    *)
(* added later stays in tasks_.                                            *)
RunAllTasksReturns ==
  /\ hpc = "idle" /\ processor = "stopped"
  /\ due = << >> /\ \A k \in DOMAIN waiting : waiting[k] = 0
  /\ hpc' = "done"
  /\ UNCHANGED <<taskVars, gcVars, processVars, swapVars, countVars>>

(* What is due without the task in place i.                                *)
Without(i) == [j \in 1 .. Len(due) - 1 |-> due[IF j < i THEN j ELSE j + 1]]

(* UpdateTargetRunTime puts the target time off.  A task that already runs *)
(* is not found.                                                           *)
UpdateTargetRunTime(k) ==
  \/ \E i \in DOMAIN due :
       /\ due[i] = k
       /\ due' = Without(i)
       /\ AddLater(k)
  \/ /\ \A i \in DOMAIN due : due[i] # k
     /\ UNCHANGED <<due, waiting>>

-----------------------------------------------------------------------------
(* InitIfNecessary: retried until the task processor runs, then done once. *)
BeginInit ==
  /\ swap = "new" /\ IsRunning
  /\ swap' = "pidset"
  /\ UNCHANGED <<taskVars, hpc, gcVars, processVars, ioError, countVars>>

(* The app is blacklisted, or the file, the space or the table fails.      *)
InitFails ==
  /\ swap = "pidset" /\ swap' = "failed"
  /\ UNCHANGED <<taskVars, hpc, gcVars, processVars, ioError, countVars>>

EndInit ==
  /\ swap = "pidset" /\ swap' = "enabled"
  /\ AddLater("write")
  /\ UNCHANGED <<processor, due, hpc, gcVars, processVars, ioError, countVars>>

-----------------------------------------------------------------------------
(* WriteTask::Run up to scheduleNextTask.                                  *)
RunWriteTask ==
  /\ hpc = "write" /\ hpc' = "schedule"
  /\ ioError' \in {ioError, TRUE}
  /\ UNCHANGED <<taskVars, gcVars, processVars, swap, countVars>>

(* Mutant: the task is scheduled again whether or not the processor runs.  *)
ScheduleAlways ==
  /\ hpc = "schedule"
  /\ hpc' = IF ~ioError THEN "mode" ELSE "idle"
  /\ UNCHANGED <<taskVars, gcVars, processVars, swapVars, countVars>>
(* scheduleNextTask.                                                       *)
ScheduleNextTask ==
  /\ hpc = "schedule"
  /\ hpc' = IF IsRunning /\ ~ioError THEN "mode" ELSE "idle"
  /\ UNCHANGED <<taskVars, gcVars, processVars, swapVars, countVars>>

ReadForeground ==
  /\ hpc = "mode" /\ hpc' = IF foreground THEN "fgrequest" ELSE "check"
  /\ UNCHANGED <<taskVars, gcVars, processVars, swapVars, countVars>>

(* Mutant: the counter is compared with one collection fewer.              *)
CompareOneFewer ==
  /\ hpc = "check"
  /\ hpc' = IF counter + 1 >= MarkSweeps THEN "compactwait" ELSE "request"
  /\ UNCHANGED <<taskVars, gcVars, processVars, swapVars, countVars>>
(* Mutant: one collection more.                                            *)
CompareOneMore ==
  /\ hpc = "check"
  /\ hpc' = IF counter > MarkSweeps THEN "compactwait" ELSE "request"
  /\ UNCHANGED <<taskVars, gcVars, processVars, swapVars, countVars>>
CompareCounter ==
  /\ hpc = "check"
  /\ hpc' = IF counter >= MarkSweeps THEN "compactwait" ELSE "request"
  /\ UNCHANGED <<taskVars, gcVars, processVars, swapVars, countVars>>

(* RequestConcurrentGC: nothing is added while a request is pending, or    *)
(* when the runtime shuts down.  A pending request may be one whose task   *)
(* is not added yet.                                                       *)
RequestConcurrentGC(from, to) ==
  /\ hpc = from /\ hpc' = to
  /\ IF CanAddHeapTask /\ ~gcPending
     THEN gcPending' = TRUE /\ AddNow("gc")
     ELSE UNCHANGED <<gcPending, due>>
  /\ MishapIf(apc = "add" /\ from = "request", "delayed")
  /\ UNCHANGED <<processor, waiting, apc, processVars, swapVars, counter, reg, sweeps>>

(* bgMarkSweepCounter++                                                    *)
LoadCounter ==
  /\ hpc = "load" /\ hpc' = "store" /\ reg' = counter
  /\ UNCHANGED <<taskVars, gcVars, processVars, swapVars, counter, sweeps, mishap>>

(* Mutant: the counter never advances.                                     *)
StoreSame ==
  /\ hpc = "store" /\ hpc' = "add" /\ counter' = reg
  /\ UNCHANGED <<taskVars, gcVars, processVars, swapVars, reg, sweeps, mishap>>
StoreCounter ==
  /\ hpc = "store" /\ hpc' = "add" /\ counter' = reg + 1
  /\ UNCHANGED <<taskVars, gcVars, processVars, swapVars, reg, sweeps, mishap>>

(* PerformHomogeneousSpaceCompact waits for collections and, with          *)
(* gc_complete_lock_, for a swap-in at the foreground; it may be rejected  *)
(* (moving collections are disabled), and is when the runtime shuts down.  *)
StartCompaction(from, compacting, after) ==
  /\ hpc = from /\ upc # "swapin"
  /\ hpc' \in IF IsShuttingDown THEN {after} ELSE {compacting, after}
  /\ UNCHANGED <<taskVars, gcVars, processVars, swapVars, countVars>>
FinishCompaction(compacting, after) ==
  /\ hpc = compacting /\ hpc' = after
  /\ UNCHANGED <<taskVars, gcVars, processVars, swapVars, countVars>>

(* bgMarkSweepCounter = 0, rejected or not.                                *)
ZeroCounter ==
  /\ hpc = "zero" /\ hpc' = "add" /\ counter' = 0 /\ sweeps' = 0
  /\ UNCHANGED <<taskVars, gcVars, processVars, swapVars, reg, mishap>>

(* Mutant: the request for a collection also adds a WriteTask.             *)
AddTwice ==
  /\ hpc = "add" /\ hpc' = "idle"
  /\ waiting' = [waiting EXCEPT !["write"] = @ + 2]
  /\ UNCHANGED <<processor, due, gcVars, processVars, swapVars, countVars>>
AddNextWriteTask ==
  /\ hpc = "add" /\ hpc' = "idle"
  /\ AddLater("write")
  /\ UNCHANGED <<processor, due, gcVars, processVars, swapVars, countVars>>

-----------------------------------------------------------------------------
(* ConcurrentGCTask::Run: ConcurrentGC makes no collection when the        *)
(* runtime shuts down.                                                     *)
CheckShutdown ==
  /\ hpc = "gccheck" /\ hpc' = IF IsShuttingDown THEN "gcclear" ELSE "gcwait"
  /\ UNCHANGED <<taskVars, gcVars, processVars, swapVars, countVars>>

StartGC ==
  /\ hpc = "gcwait" /\ upc # "swapin" /\ hpc' = "gc"
  /\ UNCHANGED <<taskVars, gcVars, processVars, swapVars, countVars>>

(* The collection is the task's own; or ConcurrentGC has waited for one of *)
(* another thread, and makes none: then that one has finished.             *)
FinishGC ==
  /\ hpc = "gc" /\ hpc' = "gcclear"
  /\ sweeps' = IF sweeps < MarkSweeps THEN sweeps + 1 ELSE sweeps
  /\ UNCHANGED <<taskVars, gcVars, processVars, swapVars, counter, reg, mishap>>

ClearConcurrentGCRequest ==
  /\ hpc = "gcclear" /\ hpc' = "idle" /\ gcPending' = FALSE
  /\ UNCHANGED <<taskVars, apc, processVars, swapVars, countVars>>

(* CollectorTransitionTask::Run.  The foreground collector is the one in   *)
(* use, so that a transition to it does nothing.                           *)
DoPendingCollectorTransition ==
  /\ hpc = "transition"
  /\ hpc' = IF desired = "background" /\ ~jank THEN "transwait" ELSE "transclear"
  /\ UNCHANGED <<taskVars, gcVars, processVars, swapVars, countVars>>
ClearPendingCollectorTransition ==
  /\ hpc = "transclear" /\ hpc' = "idle" /\ transitionPending' = FALSE
  /\ UNCHANGED <<taskVars, gcVars, jank, foreground, upc, desired, swapVars, countVars>>

-----------------------------------------------------------------------------
(* An allocating thread asks for a concurrent collection in the steps of   *)
(* RequestConcurrentGC: CanAddHeapTask, the compare and exchange, AddTask. *)
AppCheck ==
  /\ apc = "idle" /\ CanAddHeapTask /\ apc' = "request"
  /\ UNCHANGED <<taskVars, hpc, gcPending, processVars, swapVars, countVars>>
AppRequest ==
  /\ apc = "request"
  /\ apc' = IF gcPending THEN "idle" ELSE "add"
  /\ gcPending' = TRUE
  /\ UNCHANGED <<taskVars, hpc, processVars, swapVars, countVars>>
AppAddTask ==
  /\ apc = "add" /\ apc' = "idle"
  /\ AddNow("gc")
  /\ UNCHANGED <<processor, waiting, hpc, gcPending, processVars, swapVars, countVars>>

-----------------------------------------------------------------------------
Counting == hpc \in {"check", "request", "load", "store", "compactwait"}
Collecting == hpc \in {"gc", "compact", "transcompact"}

(* UpdateProcessState to jank perceptible: wait for collections to finish, *)
(* then SetInForeground and SwapObjectsIn with the threads suspended.  The *)
(* heap task thread is not one that suspension stops.                      *)
ToForeground ==
  /\ upc = "idle" /\ ~jank /\ jank' = TRUE /\ upc' = "gcwait"
  /\ UNCHANGED <<taskVars, hpc, gcVars, foreground, desired, transitionPending,
                 swapVars, countVars>>
SetInForeground ==
  /\ upc = "gcwait" /\ ~Collecting
  /\ upc' = "swapin" /\ foreground' = TRUE
  /\ UNCHANGED <<taskVars, hpc, gcVars, jank, desired, transitionPending,
                 swapVars, countVars>>
ResetCounter ==
  /\ upc = "swapin" /\ upc' = "fgrequest"
  /\ counter' = 0 /\ sweeps' = 0
  /\ MishapIf(Counting, "reset")
  /\ UNCHANGED <<taskVars, hpc, gcVars, jank, foreground, desired, transitionPending,
                 swapVars, reg>>
RequestForeground ==
  /\ upc = "fgrequest" /\ upc' = "idle" /\ desired' = "foreground"
  /\ UNCHANGED <<taskVars, hpc, gcVars, jank, foreground, transitionPending,
                 swapVars, countVars>>

(* UpdateProcessState to jank imperceptible: RequestCollectorTransition in *)
(* its steps, then SetInForeground(false).                                 *)
ToBackground ==
  /\ upc = "idle" /\ jank /\ jank' = FALSE /\ upc' = "bgrequest"
  /\ UNCHANGED <<taskVars, hpc, gcVars, foreground, desired, transitionPending,
                 swapVars, countVars>>
RequestBackground ==
  /\ upc = "bgrequest" /\ desired' = "background"
  /\ upc' = IF CanAddHeapTask THEN "bgpend" ELSE "bgset"
  /\ UNCHANGED <<taskVars, hpc, gcVars, jank, foreground, transitionPending,
                 swapVars, countVars>>
PendTransition ==
  /\ upc = "bgpend"
  /\ IF transitionPending
     THEN /\ upc' = "bgset" /\ UNCHANGED transitionPending
          /\ UpdateTargetRunTime("transition")
     ELSE /\ upc' = "bgadd" /\ transitionPending' = TRUE
          /\ UNCHANGED <<due, waiting>>
  /\ UNCHANGED <<processor, hpc, gcVars, jank, foreground, desired, swapVars, countVars>>
AddTransition ==
  /\ upc = "bgadd" /\ upc' = "bgset"
  /\ AddLater("transition")
  /\ UNCHANGED <<processor, due, hpc, gcVars, jank, foreground, desired,
                 transitionPending, swapVars, countVars>>
SetInBackground ==
  /\ upc = "bgset" /\ upc' = "idle" /\ foreground' = FALSE
  /\ UNCHANGED <<taskVars, hpc, gcVars, jank, desired, transitionPending,
                 swapVars, countVars>>

-----------------------------------------------------------------------------
HeapStep ==
  \/ GetTask \/ \E k \in DOMAIN waiting : GetTaskAtOnce(k)
  \/ RunAllTasksReturns
  \/ RunWriteTask \/ ScheduleNextTask \/ ReadForeground \/ CompareCounter
  \/ RequestConcurrentGC("fgrequest", "add") \/ RequestConcurrentGC("request", "load")
  \/ LoadCounter \/ StoreCounter
  \/ StartCompaction("compactwait", "compact", "zero")
  \/ FinishCompaction("compact", "zero") \/ ZeroCounter \/ AddNextWriteTask
  \/ CheckShutdown \/ StartGC \/ FinishGC \/ ClearConcurrentGCRequest
  \/ DoPendingCollectorTransition
  \/ StartCompaction("transwait", "transcompact", "transclear")
  \/ FinishCompaction("transcompact", "transclear")
  \/ ClearPendingCollectorTransition

(* The steps that follow once UpdateProcessState is called.                *)
UpdateStep ==
  \/ SetInForeground \/ ResetCounter \/ RequestForeground
  \/ RequestBackground \/ PendTransition \/ AddTransition \/ SetInBackground

Next ==
  \/ HeapStep \/ UpdateStep \/ ToForeground \/ ToBackground
  \/ \E k \in DOMAIN waiting : TargetTimeComes(k)
  \/ AppCheck \/ AppRequest \/ AppAddTask
  \/ BeginInit \/ InitFails \/ EndInit
  \/ Start \/ ShutDown \/ Stop

Spec == Init /\ [][Next]_vars

(* Target times come, threads that are in the middle of something go on.   *)
(* The heap task thread gets gc_complete_lock_ if the lock is free again   *)
(* and again (strong fairness).                                            *)
FairSpec ==
  /\ Spec
  /\ SF_vars(HeapStep)
  /\ WF_vars(UpdateStep)
  /\ WF_vars(TargetTimeComes("write")) /\ WF_vars(TargetTimeComes("transition"))
  /\ WF_vars(AppRequest \/ AppAddTask)
  /\ WF_vars(InitFails \/ EndInit)

-----------------------------------------------------------------------------
HeapSteps ==
  {"idle", "write", "schedule", "mode", "check", "fgrequest", "request", "load", "store",
   "compactwait", "compact", "zero", "add", "gccheck", "gcwait", "gc", "gcclear",
   "transition", "transwait", "transcompact", "transclear", "done"}

(* Types; the counter never passes MarkSweeps, whatever races with it.     *)
TypeOK ==
  /\ processor \in {"new", "running", "closing", "stopped"}
  /\ due \in Seq({"write", "gc", "transition"})
  /\ waiting \in [{"write", "transition"} -> Nat]
  /\ hpc \in HeapSteps
  /\ counter \in 0..MarkSweeps /\ reg \in 0..MarkSweeps
  /\ gcPending \in BOOLEAN /\ apc \in {"idle", "request", "add"}
  /\ transitionPending \in BOOLEAN /\ desired \in {"foreground", "background"}
  /\ jank \in BOOLEAN /\ foreground \in BOOLEAN
  /\ upc \in {"idle", "gcwait", "swapin", "fgrequest", "bgrequest", "bgpend", "bgadd",
            "bgset"}
  /\ swap \in {"new", "pidset", "enabled", "failed"} /\ ioError \in BOOLEAN
  /\ sweeps \in 0..MarkSweeps /\ mishap \in {"none", "delayed", "reset"}

Count(k) == Cardinality({i \in DOMAIN due : due[i] = k})
One(p) == IF p THEN 1 ELSE 0
WriteTasks ==
  waiting["write"] + Count("write")
  + One(hpc \in {"write", "schedule", "mode", "fgrequest", "check", "request", "load",
                 "store", "compactwait", "compact", "zero", "add"})
GcTasks == Count("gc") + One(hpc \in {"gccheck", "gcwait", "gc", "gcclear"}) + One(apc = "add")
TransitionTasks ==
  waiting["transition"] + Count("transition") + One(upc = "bgadd")
  + One(hpc \in {"transition", "transwait", "transcompact", "transclear"})

(* No task is lost or doubled.  There is one WriteTask, waiting, due or    *)
(* running, from the end of the initialization until an I/O error or Stop, *)
(* and never two: the WriteTask's code takes    *)
(* that for granted.  The pending flags that keep requests from being      *)
(* doubled are set exactly while a task answers to them.                   *)
TasksAccounted ==
  /\ WriteTasks <= 1
  /\ swap = "enabled" /\ IsRunning /\ ~ioError => WriteTasks = 1
  /\ GcTasks = One(gcPending)
  /\ TransitionTasks = One(transitionPending)

(* The WriteTask compacts the heap of a background app only after          *)
(* MarkSweeps collections have really been made since the last time or     *)
(* since the app came from the foreground, although it counts requests,    *)
(* those included that are not made when the runtime shuts down.  Exempt:  *)
(* the reset in SetInForeground comes between the WriteTask's steps, or    *)
(* another thread's request is pending without its task.                   *)
CompactionsSpaced ==
  mishap = "none" /\ hpc = "compact" => sweeps >= MarkSweeps

(* After Stop RunAllTasks returns: GetTask then returns tasks without      *)
(* waiting, so that a WriteTask that went on scheduling itself would keep  *)
(* it, and the end of the runtime, from ever coming.                       *)
ShutdownDrains == processor = "stopped" ~> hpc = "done"

(* An app that stays in the background, with the task processor running    *)
(* and no I/O error, attempts to compact its heap again and again.         *)
BackgroundCompacts ==
  <>[](swap = "enabled" /\ processor = "running" /\ ~ioError /\ ~foreground)
    => []<>(hpc = "compactwait")

(* A pending request whose task is added before RunAllTasks returns is     *)
(* answered, also across the shutdown: otherwise no concurrent collection  *)
(* could be requested any more.                                            *)
RequestsAnswered ==
  gcPending /\ apc # "add" /\ processor # "new" /\ hpc # "done" ~> ~gcPending

=============================================================================
