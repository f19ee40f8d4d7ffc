# A TLA+ verification of Marvin's object swapping

Marvin is a fork of the Android runtime (ART, `android-7.1.1_r57`) that swaps
individual Java objects to a file. This directory holds TLA+ models of the code
Marvin adds, the TLC runs that check them and machine-checked proofs about the
lock at its centre, the life of an object, its references, its map keys and the
tasks that drive it all. Paths below are relative to `runtime/` unless they start
with `compiler/`.

## 1. The system

A large object that has not been written for some collections is *cold*. The
`WriteTask` writes a snapshot of it to the swap file. At the next heap
compaction `CreateStubs` replaces it by a small *stub*, moves the object to
`swappedInSpace`, and gives the stub an entry (RTE) in the *reclamation table*.
From then on every access goes through the stub and its entry. A reclaimer may
discard the object's pages (`madvise`) if it is clean, cold, resident and not
locked; an access to a discarded object reads the snapshot back. In Marvin's
design the reclaimer is the OS, running at any time. In this code it is
`SwapObjectsOut`, called with all threads suspended.

| Part | State | Operations |
|---|---|---|
| Reclamation table (`marvin_reclamation_table.*`) | per entry: occupied, resident and kernel lock bits, app lock counter (a byte), page count, object address | `CreateTable`, `CreateEntry`, `LockFromAppThread`, `UnlockFromAppThread`, `UnlockAllEntries` |
| Reclaimer (`marvin_swap.cc` 831-885) | position in the table | `doKernelReclamationChecks`, `SwapObjectsOut` |
| Swap state (`marvin_swap.cc`) | swap file, `objectOffsetMap`, `objectSizeMap`, `writeQueue`, `writeSet`, `createStubSet`, `stubRTEMap`, remapping tables | `CheckAndUpdate`, `WriteTask`, `writeToSwapFile`, `CreateStubs`, `SwapInOnDemand`, `SwapObjectsIn`, `GcRecordFree`, semi-space hooks, `CompactSwapFile` |
| Stubs (`marvin_stub*`) | entry pointer, copies of the object's references | `PopulateFrom`, `CopyRefsInto`, lock and unlock |
| Object header and redirection (`mirror/object.h`, `object-inl.h`) | dirty bit, read and write bits, shift registers, stub and no-swap flags | `SWAP_PREAMBLE*`, `GetField`, `SetField`, `CasField...`, bit accessors |
| Compiled accesses (`compiler/optimizing/code_generator_arm64.cc`) | registers | lock, unlock, stub check, dirty marking |
| Heap hooks (`gc/heap.cc`, collectors, spaces) | process state, pending requests, cards | `PerformHomogeneousSpaceCompact`, `UpdateProcessState`, marking, moving, freeing |
| Scheduling (`marvin_swap.cc` 334-368, `gc/task_processor.cc`) | `tasks_`, `appInForeground`, `bgMarkSweepCounter` | `scheduleNextTask`, `SetInForeground`, `GetTask`, `RunAllTasks` |
| Histograms, instrumentation, trace | counters | measurements and output only |

**What makes it hard.** App threads, collectors, the `WriteTask` and (by design)
the OS share entries and headers without a common lock. The entry lock is a
Dekker-style protocol between many threads and one reclaimer. Compiled code
updates the lock counter with a separate load and store. The snapshot is copied
while the program stores to the object. Raw pointers to objects sit in queues,
sets and maps while objects are freed, moved and replaced by stubs. A write may
fail after the dirty bit was cleared. The write queue is dropped at each
compaction. An object's references exist twice, and the collector sees only one
copy. The swap file is replaced while offsets into the old one are in use.
`PROJECT.json` lists these hazards line by line.

**What should hold.** No object in use is reclaimed; the reclaimer acts only on
entries with a valid object; a reclaimed object can be restored exactly, so that
swapping is invisible to the program; no table entry leaks; the assertions in
the code never fail; threads get the lock; queued objects are written; references
follow their targets; snapshots stay where the maps say; tasks are neither lost
nor doubled.

## 2. Modules

| Module | Models |
|---|---|
| `ReclamationTable` | the table, its lock in both the C++ and the compiled form, stub creation and freeing as far as they touch an entry, and the reclaimer |
| `ObjectStore` | abstract specification: a heap whose fields keep the last value stored |
| `Swap` | the life of swappable objects: header bits, queue, snapshot, maps, stubs, reclamation, swap-in |
| `SwapFile` | the bytes of the swap file, its stream, the two maps and the two mutexes: writing, compaction, validation and both ways of swapping in |
| `StubRefs` | the references of one object and of its stub, through stores, reclamation, concurrent marking and moves |
| `Remapping` | the addresses that are keys of the maps, through stub creation and semi-space collections |
| `TaskSchedule` | the heap task thread: `TaskProcessor`, `WriteTask`, `ConcurrentGCTask`, `CollectorTransitionTask`, and the threads that add tasks |
| `...Proofs` | theorems about the module of that name; those about `SwapFile` start in `SwapFileInvariant` and `SwapFileSteps` |
| `MC...` | finite instances for TLC |

`Swap` takes for granted what the four modules around it establish:

* that a snapshot is read back as it was written (`SwapFile`: `SnapshotsInPlace`,
  `SwapInRestores`);
* that the key of an object stays its own (`Remapping`: `KeysFollowObjects`);
* that references need no snapshot (`StubRefs`: `NoDanglingReference`);
* that tasks go on (`TaskSchedule`: `TasksAccounted`, `BackgroundCompacts`).

### ReclamationTable

Each entry is its three flags, its counter and its address, which is `null`, the
`original` object, its `live` copy in `swappedInSpace`, or a copy already
`freed`. `reclaimable` stands for the two header tests (clean and cold) of the
reclamation checks. Each thread has a program counter, an operation and the entry
it works on.

* *Lock and unlock*: `Spin1`, `IncrAppLockCounter`, `Spin2`, `Unlock` are the
  steps of `LockFromAppThread`/`UnlockFromAppThread`. Members of
  `CompiledThreads` take the steps `CompiledIncrLoad`, `CompiledIncrStore`,
  `CompiledDecrLoad`, `CompiledDecrStore` instead. The counter has `CounterSize`
  values and wraps.
* *Use*: `Access` covers swap-in, reads, writes and header updates under the
  lock. `CompiledFieldGetLeak` is the field read that cannot unlock because its
  input and output share a register. `Block` is a redirected monitor operation
  (`MonitorEnter`, `Wait`) during which the thread counts as suspended.
* *Freeing*: `BeginFree`, `FreeObject`, `ClearOccupiedBit` follow
  `GcRecordFree`; the same lines occur in `replaceDataStructurePointers`.
* *Stopped world*: `StopTheWorld` is the suspension and `UnlockAllEntries`.
  `CreateEntry`, `PopulateFrom`, `InstallObject` are the loop body of
  `CreateStubs`; `BeginPatch`, `NextPatch`, `Patch` the loop over the table in
  `patchStubReferences`; `EndCreateStubs` and `EndSwapObjectsIn` resume.
* *Reclaimer*: one action for each read or write of `SwapObjectsOut` and
  `doKernelReclamationChecks`.

`ConcurrentKernel` chooses between the designed reclaimer (any time) and the
present one (world stopped). Memory is sequentially consistent: C++ code uses
`std::atomic` on the flags and the counter, and the compiled sequence has a full
barrier between its counter store and its second spin. A failed `CHECK` or the
dereference of a null entry ends the process, so the model has no step for it
(`CreateEntry` on a full table or on a kernel-locked entry, `Patch` on a null
address). Page counts are left out: they only size the `madvise` call.

### Swap and ObjectStore

An object is `free`, `plain` or `stubbed`; it has an image in memory (header
bits and fields) and an entry in the object maps: none (`NoEntry`), a snapshot, a
snapshot whose write failed (`Unwritten`), or the zero entry that
`std::map::operator[]` creates for a missing key (`EmptyEntry`).

* *Threads*: `BeginAccess` reads the resident bit; `SwapInOnDemand`,
  `ReadSnapshot`, `InstallSnapshot` are `SwapInOnDemand` and `swapInObject`.
  `StoreField` and `SetWriteBitAndDirtyBit` are separate steps, as in the code,
  with the store first. `CasField` sets no bit, as in the code.
* *Collector*: `CheckAndUpdate` (candidate set, queue, shift register) and
  `GcRecordFree`.
* *WriteTask*: `Dequeue`, `ClearDirtyBit`, `CopyHeader`, `CopyField`, `Lookup`,
  `WriteSnapshot`, `WriteFails`. The copy goes field by field, in any order, so
  torn snapshots occur.
* *Stopped world*: `PerformHomogeneousSpaceCompact` is `CreateStubs`,
  `SwapObjectsOut` and the semi-space collection; `SwapObjectsIn` is the move to
  the foreground.

The write bit shares a byte with bits that other threads update without atomics,
so each update of it may be lost (`WriteBit`). The dirty bit has a byte of its
own.

Four constants switch behaviours on: `AllocGC` (a collection on an allocating
thread, beside the `WriteTask`), `EarlyCompaction` (the heap is compacted before
the write queue is empty), `IoErrors` (a write fails) and `CasWrites` (the
program uses compare-and-swap). The program can do all four. The properties about
data hold without them; section 4 shows what goes wrong with each.

Abstractions: objects are those that qualify by size, type and space; fields are
not references (`StubRefs` has those); an object keeps its name when its map key
changes from object to stub (`Remapping` shows why it may); an entry of the maps
is the snapshot itself (`SwapFile` has the offsets); the entry lock is left out
because reclamation happens with the world stopped. The write shift register is
the number whose highest bit is `WsrTop`.

### SwapFile

The file is a sequence of cells, each of which says whose snapshot, and which
version of it, it belongs to. The stream has one position and an error state. The
maps are partial functions that `operator[]` extends.

* *Writing*: `FirstWrite` appends where the stream stands and `Record` enters the
  maps; `LookupSnapshot` and `Rewrite` overwrite. They are separate steps because
  the code takes a mutex for each.
* *Compaction*: `CopyFile`, `BeginLoop`, `CopySnapshot`, `EndLoop`,
  `InstallOffsets`, `InstallFile` are `CompactSwapFile`. `CopySnapshot` is one turn
  of the loop over the keys, which holds the maps' mutex shared, so that swap-ins
  run beside it; an error ends the loop after its key was entered.
  `BeginValidation` and `ValidateSwapFile` follow.
* *Swapping in*: `SwapInOnDemand` looks the offset up, `ReadOnDemand` reads;
  `BeginSwapObjectsIn`, `SwapObjectsInNext`, `EndSwapObjectsIn` are the loop with
  the world stopped.
* *Freeing*: `GcRecordFree`, on the heap task thread or on an allocating thread;
  `CollectSemiSpace` erases what dies in a heap compaction from the maps, without
  counting its bytes as freed.
* *Heap compaction*: `Reclaim` and `CollectSemiSpace` are what
  `PerformHomogeneousSpaceCompact` does to one key. It runs on the heap task thread
  or, between two steps of that thread, on an app thread out of memory
  (`gc/heap.cc:1809-1813`). Every object of the RosAlloc space moves, so that a key
  which `CompactSwapFile` has put into its new map is then nobody's
  (`CompactHeap`).
* *Counters*: `LoseReset` is the start of a compaction whose reset of `freedSize`
  falls into the `+=` of a `GcRecordFree` on another thread and is lost.

`mishap` is a history variable. It names the fault or race of a behaviour:

| `mishap` | What has happened |
|---|---|
| `io` | a stream operation failed |
| `moved` | a heap compaction renamed or erased a key that `CompactSwapFile` then installs |
| `freed` | a key was freed while `CompactSwapFile` or `writeToSwapFile` held on to it |
| `stale` | a new file was installed between a lookup and its read |
| `counted` | a key was freed between the reset of the size counters and the copy loop, or the reset was lost |

Each property says which of them it survives. When several happen, an I/O error is
the one remembered, then `moved`, and any other before `counted`. Several threads
may swap the same key in.

### StubRefs

One object with a stub. References name a target and its address. `Store`,
`ClearFlags`, `PopulateClear`, `PopulateRead`, `PopulateWrite`, `MarkGCCard` are
a reference store with `PopulateFrom` and the write barrier. `BeginMark`,
`ScanStub`, `PreCleanCards`, `PauseAndSweep` are the mark-sweep collector as far
as it sees the stub, running beside the stores. `SemiSpace` and `PatchTarget` move
targets. A swap-in has three steps: `SwapInOnDemand` finds the resident bit clear,
`SwapInObject` reads the snapshot and puts the stub's references over it,
`SetResidentBit` ends it. The entry's lock is a counter, so another thread may be
in the same steps, and the `WriteTask` may write beside a store; `SwapObjectsIn` does
the same with the world stopped. Here `mishap` is `overlap` (two stores at once),
`doubled` (two threads swap the object in at once), `cas` (compare-and-set),
`primitive` (the fall-through of `SWAP_PREAMBLE_VOID`, `mirror/object.h:57-77`, which
repeats an interpreted primitive store on the stub's own memory), `missed` (the
marker reads a reference that `PopulateFrom` has cleared on behalf of a store
of null, which marks no card) or `unflagged` (someone meets the stub while its
stub flag is down). The checkpoint of `PreCleanCards` is left out, which only adds
behaviours. What the rest of the program does with targets is `Forget` and
`Allocate`.

### Remapping

Addresses are numbers in two RosAlloc spaces and a large object space; an object
is its present address. `BeginCreateStubs`, `Exclude`, `CreateStub`,
`BeginReplaceStubs` are `CreateStubs`, which frees an original before it allocates
the next stub, so that a stub may get the address of an earlier candidate.
`RecordStubMappings`, `Forward`, `BeginReplaceMoved`, `EndReplaceMoved` are the
semi-space hooks. `ReplacePointer` is one turn of the loop of
`replaceDataStructurePointers`. `CheckAndUpdate` makes candidates and
`WriteToSwapFile` writes some of them, so stubs are also made of objects that were
never written. Such a stub is no key of the maps: `SemiSpaceRecordStubMappings`
does not see it, and if it dies in a semi-space collection its entry is never
released. `leaked` is the history of those entries.

### TaskSchedule

Tasks wait until their target time comes, then stand in order. `HeapStep` is the
heap task thread, with each access to shared state a step of its own:
`bgMarkSweepCounter++` is a load and a store. Beside it run `UpdateProcessState`
(one call at a time), an allocating thread that requests concurrent collections,
and the initialization of swapping. `mishap` is `reset` (`SetInForeground` resets
the counter while the `WriteTask` is counting) or `delayed` (another thread has
set `concurrent_gc_pending_` but not yet added its task). The shutdown has two
steps: `ShutDown` sets the runtime's flag, after which `CanAddHeapTask` refuses new
requests and collections and compactions are skipped, and `Stop` ends the
processor. A thread that passed the test of the flag before may add its task after
`RunAllTasks` has returned (`RunAllTasksReturns`); the task stays in the queue and
its request pending. The heap trim task and compactions by threads out of memory
are left out.

## 3. Runs

| Run | Checks | Instance |
|---|---|---|
| `rt_lock` | `TypeOK`, `CounterIsExact`, `MutualExclusion`, `LockIsGranted` | 2 threads, 2 entries, concurrent reclaimer; 145 k states |
| `rt_stopped` | `ReclaimsValidObject`, `ObjectNotNull` | 2 threads, one of them compiled, both blocking, 2 entries, world stopped; 213 k states |
| `swap_store` | `TypeOK`, `SafeToReclaim`, `StubsInMaps`, `NoLeakedEntry`, `RestoredIsClean`, `ImplementsStore` | 1 object, 1 thread, 2 fields of 2 values, `WsrTop` 2, no switch on; 1.1 M states |
| `swap_any` | `WrittenIsResident`, `CandidatesArePlain` | 1 object, 2 threads, every switch on; 672 k states |
| `swap_queue` | `QueueDrains` | 2 objects, `AllocGC` and `EarlyCompaction` on; 306 k states |
| `sf_compact` | `TypeOK`, `SnapshotsInPlace`, `SwapInRestores`, `AppendsAtEnd`, `GarbageAccounted`, `OperationsEnd` | 2 keys of sizes 1 and 2, 1 reader; 291 k states |
| `sr_refs` | `TypeOK`, `NoDanglingReference`, `StubRefsMatch`, `OnlyStoresChangeRefs` | 2 fields, 2 targets, 2 threads; 528 k states |
| `rm_keys` | `TypeOK`, `KeysFollowObjects`, `EntriesFollowStubs` | 3 objects, two spaces of 4 interleaved addresses, 1 large address; 361 k states |
| `ts_tasks` | `TypeOK`, `TasksAccounted`, `CompactionsSpaced`, `ShutdownDrains`, `BackgroundCompacts`, `RequestsAnswered` | 3 collections between compactions; 557 k states |

What they show, in one line each: the lock excludes the reclaimer and is granted;
the present reclaimer meets only valid entries; swapping is invisible; the write
queue never holds a reclaimed object and drains; compaction leaves every snapshot
where the maps say, and no order of the two mutexes deadlocks; the stub stands for
its object's references; keys survive any renaming; no task is lost, and the
background compaction recurs. Three further runs (section 4) show where the code
disagrees with its comments.

**Bounds.** Two entries make the loops over the table and the search for the first
free entry real. Two threads contend with each other and with the reclaimer;
`ReclamationTableProofs` covers any number. `CounterSize` 4 exceeds the number of
threads, as 256 does in practice, and lets leaked locks wrap the counter in
`rt_stopped`. One object suffices for `swap_store` because objects interact only
through the queue, which `swap_queue` exercises with two; two fields make torn
snapshots possible and two values make them visible. `WsrTop` 2 keeps an object hot
for one collection after its last write, as 8 does for three; with 1 only the write
bit counts. `swap_any` does not check for deadlock: with the switches on,
assertions of the code can fail, which ends the process. In `sf_compact` sizes 1
and 2 tell every offset apart, and `MaxFile` 4 allows a freed snapshot beside both
live ones, so that the threshold of a quarter is passed and compaction moves
something. `OneMishap` stops at the first fault or race, and no object is written
for the first time after an I/O error or a `moved` key: the properties claim little
then, and `SwapFileProofs` covers any number of them. One reader is enough to meet
every step of a compaction between its lookup and its read; with two the run passes
as well, in four times the time, and the theorems are about any number. `sr_refs`
(`MishapBound`) does not explore past a fault or race. In `rm_keys` the addresses
of the two spaces interleave, so that the loops in address order meet new keys
before and after old ones, and three objects make chains of reused addresses.
`MarkSweeps` is 3 instead of 6, enough to count up, be reset and count again;
`TaskScheduleProofs` covers any value.

**Fairness.** `rt_lock`: the reclaimer's loop goes on (`KernelStep`: it never
waits) and a thread in the lock sequence is scheduled (`AppLock`: it only spins);
nothing is assumed about unlocking or about new accesses. `swap_queue`: the
`WriteTask` goes on, since each run of it schedules the next one until a write
fails; it may end after any object, which the model covers because nothing happens
between two objects that could not happen during one. `sf_compact`: what has begun
goes on; an app thread gets `swapFileMutex`, and the heap task thread the mutex it
waits for, if it is free again and again (strong fairness), because validations may
follow each other, and so may calls of `SwapObjectsIn`, which share the maps.
`ts_tasks`: target times come and threads in the middle of something go on; the
heap task thread gets `gc_complete_lock_` if it is free again and again. Nothing
makes apps change state, request collections or stop.

Each property of a passing run has a mutant in `PROJECT.json`: an operator beside
the original, marked `Mutant` in its comment, that breaks the property.

## 4. Where the code disagrees with its comments and assertions

| Run | Statement | What happens |
|---|---|---|
| `swap_undrained` | "it is safe to reclaim it" (`marvin_swap.cc:146-149`) | a stub created before the first write is taken to be in the swap file; the write is skipped, its dirty bit cleared |
| `sf_stale` | reads under `swapFileMutex` "return valid data" (`marvin_swap.cc:167-170`) | a compaction installs its file between `SwapInOnDemand`'s lookup and its read; the old offset is used on the new file |
| `sr_cas` | "Don't we keep the stub's references updated" (`gc/collector/semi_space.cc:742-745`) | a compare-and-set changes the object alone |

More of them show up when a passing run's configuration is changed:

* `rt_stopped` with `MutualExclusion`: `UnlockAllEntries` zeroes the counter of a
  thread suspended in a redirected monitor call; its object is reclaimed under it.
* `rt_stopped` with `ConcurrentKernel = TRUE`, the designed OS reclaimer, violates
  `ReclaimsValidObject`: the entry is freed between the occupied check and the
  counter check. It also violates `ObjectNotNull`: a reused entry keeps its old
  resident bit, so the reclaimer meets a null address, although both assumptions
  that `CreateEntry` states (`marvin_reclamation_table.cc:33-36`) hold.
* `swap_store` with two threads violates `ImplementsStore`: both threads find the
  object not resident, and the second reads the snapshot over what the first has
  stored since. The `CHECK` of the resident bit (`marvin_swap.cc:939`) ends the
  process only if the first has set it by then.
* `sr_refs` with `StubRefsMatch` claimed, and explored, also after `overlap`: of two
  overlapping stores one thread's `PopulateFrom` can put back a reference that the
  other has replaced in the meantime.
* `swap_store` with `IoErrors = TRUE` violates `SafeToReclaim`: a failed write
  leaves the dirty bit clear. So does `CasWrites = TRUE`: compare-and-swap does not
  set the dirty bit.
* `swap_store` with `AllocGC = TRUE` violates `WrittenIsLive`: a collection on an
  app thread frees the object being written, although "all Tasks, including GC, run
  on the same fixed thread" (`marvin_swap.cc:174-175`).
* `swap_store` with `EarlyCompaction = TRUE` violates `StubsInMaps` (a stub made
  before the first write is no key of the maps, which
  `SemiSpaceRecordStubMappings` assumes of all stubs, `marvin_swap.cc:904-908`) and
  `NoLeakedEntry` (the table entry of such a stub leaks when it dies).
* `ts_tasks` with `CompactionsSpaced` claimed without its condition on `mishap`:
  the reset of `bgMarkSweepCounter` is lost between the load and the store of its
  increment, or the increment counts a request whose task is not yet queued.

## 5. Proofs

Every theorem holds for all values of the constants that satisfy the named
`ASSUME`s of its module.

**`ReclamationTableProofs`**, for any finite set of threads, any number of entries
and any counter range larger than the number of threads: `TypeCorrect`, with no
further assumption; `CounterExact` and `LockExcludes` (`CounterIsExact`,
`MutualExclusion`) if `CompiledThreads` and `BlockingThreads` are empty, with a
concurrent reclaimer or not; `StoppedReclaimsValid` and `StoppedNotNull`
(`ReclaimsValidObject`, `ObjectNotNull`) if `ConcurrentKernel` is FALSE, whatever
the threads. Section 4 shows that the assumptions are needed; the comment at
`compiler/optimizing/code_generator_arm64.h:648` admits the one on compiled
threads. Mutual exclusion is not inductive: that the counter check of the second
round succeeded says something about threads only if the counter is exact, and
something about later threads only if the kernel lock bit is set. `LockInv` adds
exactly that. A thread cannot become a user after the check because `Spin2` sees
the bit, and was none before it because it would have been counted. `ReclaimInv`,
for the stopped world, says that the reclaimer is inside its loop only in the phase
`reclaim`, that no thread changes an entry then, and that an occupied entry nobody
is creating or freeing has a live object.

**`SwapProofs`**, for any objects, threads, fields and values: `TypeCorrect`,
`WrittenStays` and `CandidatesPlain` (`WrittenIsResident`, `CandidatesArePlain`)
with every switch in any position. `SafeReclamation`, `StubsMapped`,
`NoEntryLeaks`, `SwapInReadsClean` (`RestoredIsClean`) and the refinement `Transparency`
(`ImplementsStore`) hold if `Calm`: the four switches are off and there is at most
one app thread. Each conjunct of `Calm` is needed by one of them (section 4).
`CalmInv` is the inductive invariant. Its heart is `CleanInv`: a clean object that
is not being written has a clean snapshot, equal to it unless a store is about to
set the dirty bit. While it is being written, `WriteInv` says the same of the part
copied so far; it survives torn copies because the dirty bit is cleared first.
A copy of a header whose dirty bit is set again is possible, and is never the one
an object comes back from: `RestoredIsClean` follows from `CleanInv`, since what is
reclaimed is clean.
`CandidateInv` carries a candidate from the queue to its snapshot, so that a stub
made with an empty queue has one (`StateInv`). For the refinement, allocation,
stores and collections map to those of `ObjectStore` and every other step stutters;
the steps that discard and restore pages stutter by `CleanInv` and `ThreadInv`.

**`StubRefsProofs`**, for any fields, targets and threads: `NoneDangles`,
`StubMatches` and `OnlyStores` (`NoDanglingReference`, `StubRefsMatch`,
`OnlyStoresChangeRefs`), and `TypeCorrect`. `MatchInv` follows the stub through
`PopulateFrom`; `MarkInv` is the marker's invariant: what it has passed is marked,
or the card is dirty, or a store is about to dirty it. While a thread swaps the
object in, the stub's references count as the object's, and no store is under way
unless a race is named. These theorems need no
assumption on the program because the properties carry the condition on `mishap`
in them.

**`RemappingProofs`**, for any objects and any disjoint spaces: `KeysFollow`,
`EntriesFollow` (up to the `leaked` entries) and `TypeCorrect`. Between a move and
the renaming of its key the key is found through the table (`At`). The renaming
loses nothing because a new address that is also to be renamed comes earlier
(`TableInv`), which rests on both loops going through the addresses in the same
order.

**`TaskScheduleProofs`**, for any `MarkSweeps`: `Spaced` (`CompactionsSpaced`) and
`CounterBounded` (`TypeOK`, which bounds the counter whatever races with it).
`CountInv` says that the counter is ahead of the collections by at most one, and
then that the collection is due before the next `WriteTask`; `WriteInv`, that there
is one `WriteTask`.

`Accounted` (`TasksAccounted`) is inductive once two facts are added (`TaskInv`):
there is no `WriteTask` before swapping is enabled, and it is enabled only after
the processor has started. The tasks of a kind are counted as the places they have
in the queue; `PlacesAppend` and `PlacesRemove` say what adding and taking a task
does to that number, so no induction over the queue is needed.

**`SwapFileInvariant`**, **`SwapFileSteps`** and **`SwapFileProofs`** (one argument
in three modules: the invariant, its lemmas and the collectors; writing and
swapping in; compaction, validation and the theorems), for any keys and sizes, any
threads, any length of the file and any number of faults and races, with
`OneMishap` in either position: `SnapshotsStay` (`SnapshotsInPlace`),
`SwapInIsRight` (`SwapInRestores`), `StreamAtEnd` (`AppendsAtEnd`),
`GarbageNotOverstated` (`GarbageAccounted`) and `TypeCorrect`. The properties carry
the condition on `mishap`, so the theorems assume nothing of the program. None of
them is inductive. `IInv` adds, in this order:

* `LocalsInv`: where the local variables of `CompactSwapFile` and
  `writeToSwapFile` stand, and that no offset leads beyond the end of the file it
  is for (`Mapped`), so that no write leaves a gap;
* `ThreadInv`: which key a thread is reading, and that none is reading while
  `SwapObjectsIn` has stopped the world;
* `AppendInv`: as long as the `WriteTask` goes on, every recorded size fits into
  the file at its offset. That is what keeps an overwrite from lengthening the
  file under the stream's position; it has to hold of the file in the making too,
  and after the races that `SnapshotsInPlace` excludes;
* `GoodInv`: every snapshot is held (`Holds`) at its offset in the file, at the
  offset a reader or the `WriteTask` has looked up, and, during the loop, at the
  new offset in the new file; the loop's keys are those before the iterator, so
  that at its end the new map has all keys;
* `LengthInv`: `swapfileSize` is the length of the file that is being filled, but
  for the header of the first one. It holds also when a free races with the reset;
* `CountInv`: during a compaction `swapfileSize` counts the bytes copied so far and
  `freedSize` is zero; otherwise `freedSize` and the sizes of the live snapshots come
  to no more than `swapfileSize`. They may come to less, because of the semi-space
  collector.

Two snapshots never overlap because they hold different cells, so a write to one
place keeps the other (`Overwrites`); this takes no statement about the order of
offsets. Sums over keys are numbers of bytes (`Total` is the cardinality of the
set of all key-byte pairs), so the finite-set theorems replace induction over
keys. TLC has checked `IInv` with two threads and one fault or race.

**Only model-checked.** `QueueDrains`, `LockIsGranted`, `OperationsEnd`,
`ShutdownDrains`, `BackgroundCompacts` and `RequestsAnswered`, because TLAPS does
not prove liveness under fairness here; and the three statements of section 4, which
the code violates. Every safety property of a passing run is proved.

## 6. Not modelled

* Choice of objects by size, type, space and package: tests with fixed answers; the
  models start from objects that qualify. The no-swap flag appears only in
  `Remapping`, as a candidate that is not written or not replaced.
* Compiled array accesses and virtual calls, which use the same lock and stub check
  as field accesses; register allocation around them.
* Read bits and the read shift register: nothing decides by them.
* Histograms: double-precision bins for measurements; nothing depends on them, and
  TLC has no floating point. Instrumentation, trace, timers and the debug functions
  at the end of `marvin_swap.cc`: output only.
* In `TaskSchedule`: the heap trim task, concurrent calls of `UpdateProcessState`,
  and compactions by threads that run out of memory (`SwapFile` has those). A
  compaction that is refused zeroes the counter all the same, as in the code.
* A full reclamation table (`CreateEntry` returns null and the process dies).
* The rest of ART: interpreter, class linker, compilers, allocators, and the marking
  of ordinary objects. The repository is the whole Android runtime, some 380,000
  lines, of which Marvin's additions are a few thousand. The models follow the
  additions and the lines of ART they hang on, so the mapped lines are a small share
  of the repository: the remainder is the platform, which appears here as what it
  may do to objects and threads.

## 7. What could follow

1. Composition of `ReclamationTable` and `Swap`: reclamation of data under the
   lock instead of a stopped world, which the designed OS reclaimer would need.
2. A full reclamation table, with what becomes of the objects that get no entry.
3. Several objects in `StubRefs`, each other's targets, to follow cycles of stubs.
