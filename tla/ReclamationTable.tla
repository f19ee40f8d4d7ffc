-------------------------- MODULE ReclamationTable --------------------------
(***************************************************************************)
(* The reclamation table and its locking protocol                          *)
(* (runtime/marvin_reclamation_table.{h,cc}, the lock sequences of         *)
(* compiler/optimizing/code_generator_arm64.cc, and the reclaimer          *)
(* SwapObjectsOut of runtime/marvin_swap.cc).                              *)
(*                                                                         *)
(* Every object with a stub owns one TableEntry.  App threads lock an      *)
(* entry by raising its app lock counter, the reclaimer by setting its     *)
(* kernel lock bit; every read and write of an entry's flags or counter is *)
(* a step of its own.  Memory is sequentially consistent, which            *)
(* std::atomic and the DMB barrier of the compiled code provide.           *)
(***************************************************************************)
EXTENDS Integers, FiniteSets

CONSTANTS
  Threads,          \* app threads, GC threads included
  CompiledThreads,  \* those running compiled code: counter updates not atomic
  BlockingThreads,  \* those that may be suspended inside a redirected call
  NumEntries,       \* num_entries_ of the table
  CounterSize,      \* number of values of the uint8_t app_lock_counter_
  ConcurrentKernel, \* TRUE: the OS reclaims at any time, as designed;
                    \* FALSE: SwapObjectsOut with the world stopped, as run
  NoThread

ASSUME ThreadsAssumption ==
  /\ IsFiniteSet(Threads)
  /\ CompiledThreads \subseteq Threads
  /\ BlockingThreads \subseteq Threads
  /\ NoThread \notin Threads
ASSUME SizeAssumption ==
  /\ NumEntries \in Nat \ {0}
  /\ CounterSize \in Nat
  /\ Cardinality(Threads) < CounterSize
ASSUME ModeAssumption == ConcurrentKernel \in BOOLEAN

Entries == 1..NumEntries

VARIABLES
  occupied, kernelLock, resident,  \* the three flags of bit_flags_
  appLockCounter,                  \* app_lock_counter_
  objectAddress,                   \* object_address_: "null", the "original"
                                   \* object, its "live" copy in swappedInSpace
                                   \* or a copy already "freed" (dangling)
  reclaimable,                     \* the object's header: clean and cold
  pc, op, at, reg,                 \* per thread: next step, what it is doing,
                                   \* to which entry, scratch register
  stopper, phase,                  \* the thread that stopped the world, if any
  kpc, kat, kround                 \* the reclaimer: next step, its entry, and
                                   \* first or second run of the checks

tableVars  == <<occupied, kernelLock, resident, appLockCounter, objectAddress,
                reclaimable>>
threadVars == <<pc, op, at, reg>>
worldVars  == <<stopper, phase>>
kernelVars == <<kpc, kat, kround>>
vars == <<tableVars, threadVars, worldVars, kernelVars>>

PCs  == {"idle", "spin1", "incr", "incrStore", "spin2", "held", "freed",
         "populated", "blocked", "unlock", "decrStore"}
Ops  == {"none", "access", "free", "create", "patch"}
Phases == {"running", "create", "patch", "swapIn", "reclaim"}
KPCs == {"begin", "occupied", "counter", "resident", "object", "setLock",
         "madvise", "clearResident", "clearLock"}

(* Every bit is 0 in the fresh anonymous mapping CreateTable returns.      *)
Init ==
  /\ occupied       = [e \in Entries |-> FALSE]
  /\ kernelLock     = [e \in Entries |-> FALSE]
  /\ resident       = [e \in Entries |-> FALSE]
  /\ appLockCounter = [e \in Entries |-> 0]
  /\ objectAddress  = [e \in Entries |-> "null"]
  /\ reclaimable    = [e \in Entries |-> FALSE]
  /\ pc  = [t \in Threads |-> "idle"]
  /\ op  = [t \in Threads |-> "none"]
  /\ at  = [t \in Threads |-> 1]
  /\ reg = [t \in Threads |-> 0]
  /\ stopper = NoThread
  /\ phase = "running"
  /\ kpc = "begin" /\ kat = 1 /\ kround = 1

Goto(t, step) == pc' = [pc EXCEPT ![t] = step]

-----------------------------------------------------------------------------
(* LockFromAppThread and the compiled sequence for it.                     *)

(* The first spin: while (GetKernelLockBit()) continue;                    *)
Spin1(t) ==
  /\ pc[t] = "spin1"
  /\ ~kernelLock[at[t]]
  /\ Goto(t, "incr")
  /\ UNCHANGED <<tableVars, op, at, reg, worldVars, kernelVars>>

(* IncrAppLockCounter, one atomic read-modify-write of a uint8_t.          *)
IncrAppLockCounter(t) ==
  /\ pc[t] = "incr" /\ t \notin CompiledThreads
  /\ appLockCounter' = [appLockCounter EXCEPT ![at[t]] = (@ + 1) % CounterSize]
  /\ Goto(t, "spin2")
  /\ UNCHANGED <<occupied, kernelLock, resident, objectAddress, reclaimable,
                 op, at, reg, worldVars, kernelVars>>

(* The compiled increment: load the byte, add one, store the byte.         *)
CompiledIncrLoad(t) ==
  /\ pc[t] = "incr" /\ t \in CompiledThreads
  /\ reg' = [reg EXCEPT ![t] = appLockCounter[at[t]]]
  /\ Goto(t, "incrStore")
  /\ UNCHANGED <<tableVars, op, at, worldVars, kernelVars>>

CompiledIncrStore(t) ==
  /\ pc[t] = "incrStore"
  /\ appLockCounter' = [appLockCounter EXCEPT ![at[t]] = (reg[t] + 1) % CounterSize]
  /\ Goto(t, "spin2")
  /\ UNCHANGED <<occupied, kernelLock, resident, objectAddress, reclaimable,
                 op, at, reg, worldVars, kernelVars>>

(* Mutant: the kernel lock bit is not read again after the increment.      *)
Spin2Unchecked(t) ==
  /\ pc[t] = "spin2"
  /\ Goto(t, "held")
  /\ UNCHANGED <<tableVars, op, at, reg, worldVars, kernelVars>>

(* The second spin; past it the thread holds the entry.                    *)
Spin2(t) ==
  /\ pc[t] = "spin2"
  /\ ~kernelLock[at[t]]
  /\ Goto(t, "held")
  /\ UNCHANGED <<tableVars, op, at, reg, worldVars, kernelVars>>

(* UnlockFromAppThread and its compiled form.                              *)
Unlock(t) ==
  /\ pc[t] = "unlock" /\ t \notin CompiledThreads
  /\ appLockCounter' =
       [appLockCounter EXCEPT ![at[t]] = (@ + CounterSize - 1) % CounterSize]
  /\ Goto(t, "idle")
  /\ op' = [op EXCEPT ![t] = "none"]
  /\ UNCHANGED <<occupied, kernelLock, resident, objectAddress, reclaimable,
                 at, reg, worldVars, kernelVars>>

CompiledDecrLoad(t) ==
  /\ pc[t] = "unlock" /\ t \in CompiledThreads
  /\ reg' = [reg EXCEPT ![t] = appLockCounter[at[t]]]
  /\ Goto(t, "decrStore")
  /\ UNCHANGED <<tableVars, op, at, worldVars, kernelVars>>

CompiledDecrStore(t) ==
  /\ pc[t] = "decrStore"
  /\ appLockCounter' =
       [appLockCounter EXCEPT ![at[t]] = (reg[t] + CounterSize - 1) % CounterSize]
  /\ Goto(t, "idle")
  /\ op' = [op EXCEPT ![t] = "none"]
  /\ UNCHANGED <<occupied, kernelLock, resident, objectAddress, reclaimable,
                 at, reg, worldVars, kernelVars>>

-----------------------------------------------------------------------------
(* What threads do with an entry.                                          *)

(* A stub can be used or freed from the moment CreateStubs installed its   *)
(* object until the collector that found the stub unreachable frees it.    *)
HasStub(e) == occupied[e] /\ objectAddress[e] = "live"
Freeing(e) == \E t \in Threads : op[t] = "free" /\ at[t] = e

(* SWAP_PREAMBLE and GenerateStubCheckAndSwapCode: lock the stub's entry   *)
(* before the object is used.  So does SwapObjectsIn, with the world       *)
(* stopped, for each stub it finds in the object maps.                     *)
BeginAccess(t, e) ==
  /\ phase = "running" \/ (phase = "swapIn" /\ stopper = t)
  /\ pc[t] = "idle"
  /\ HasStub(e) /\ ~Freeing(e)
  /\ Goto(t, "spin1")
  /\ op' = [op EXCEPT ![t] = "access"]
  /\ at' = [at EXCEPT ![t] = e]
  /\ UNCHANGED <<tableVars, reg, worldVars, kernelVars>>

(* The access itself: SwapInOnDemand if the resident bit is clear, then a  *)
(* read, a write, or a collector's or WriteTask's update of the header.    *)
Access(t) ==
  /\ pc[t] = "held" /\ op[t] = "access"
  /\ resident' = [resident EXCEPT ![at[t]] = TRUE]
  /\ \E b \in BOOLEAN : reclaimable' = [reclaimable EXCEPT ![at[t]] = b]
  /\ Goto(t, "unlock")
  /\ UNCHANGED <<occupied, kernelLock, appLockCounter, objectAddress,
                 op, at, reg, worldVars, kernelVars>>

(* HandleFieldGet with one register for input and output: the object       *)
(* register is overwritten, so GenerateRestoreStub and its unlock are left *)
(* out.                                                                    *)
CompiledFieldGetLeak(t) ==
  /\ phase = "running"
  /\ pc[t] = "held" /\ op[t] = "access" /\ t \in CompiledThreads
  /\ resident' = [resident EXCEPT ![at[t]] = TRUE]
  /\ Goto(t, "idle")
  /\ op' = [op EXCEPT ![t] = "none"]
  /\ UNCHANGED <<occupied, kernelLock, appLockCounter, objectAddress,
                 reclaimable, at, reg, worldVars, kernelVars>>

(* A redirected MonitorEnter, Wait or Clone swaps its object in and then   *)
(* waits, suspended, with the entry locked.                                *)
Block(t) ==
  /\ phase = "running"
  /\ pc[t] = "held" /\ op[t] = "access" /\ t \in BlockingThreads
  /\ resident' = [resident EXCEPT ![at[t]] = TRUE]
  /\ Goto(t, "blocked")
  /\ UNCHANGED <<occupied, kernelLock, appLockCounter, objectAddress,
                 reclaimable, op, at, reg, worldVars, kernelVars>>

Unblock(t) ==
  /\ phase = "running"
  /\ pc[t] = "blocked"
  /\ Goto(t, "unlock")
  /\ UNCHANGED <<tableVars, op, at, reg, worldVars, kernelVars>>

(* GcRecordFree for a stub that nothing references any more.  After a      *)
(* semi-space collection replaceDataStructurePointers takes the same steps.*)
BeginFree(t, e) ==
  /\ phase = "running"
  /\ pc[t] = "idle" /\ t \notin CompiledThreads
  /\ HasStub(e)
  /\ \A u \in Threads : pc[u] # "idle" => at[u] # e
  /\ Goto(t, "spin1")
  /\ op' = [op EXCEPT ![t] = "free"]
  /\ at' = [at EXCEPT ![t] = e]
  /\ UNCHANGED <<tableVars, reg, worldVars, kernelVars>>

(* swappedInSpace->Free(self, swappedInObj)                                *)
FreeObject(t) ==
  /\ pc[t] = "held" /\ op[t] = "free"
  /\ objectAddress' = [objectAddress EXCEPT ![at[t]] = "freed"]
  /\ Goto(t, "freed")
  /\ UNCHANGED <<occupied, kernelLock, resident, appLockCounter, reclaimable,
                 op, at, reg, worldVars, kernelVars>>

(* Mutant: the entry of a freed stub is never released.                    *)
OccupiedBitKept(t) ==
  /\ pc[t] = "freed"
  /\ Goto(t, "unlock")
  /\ UNCHANGED <<tableVars, op, at, reg, worldVars, kernelVars>>

ClearOccupiedBit(t) ==
  /\ pc[t] = "freed"
  /\ occupied' = [occupied EXCEPT ![at[t]] = FALSE]
  /\ Goto(t, "unlock")
  /\ UNCHANGED <<kernelLock, resident, appLockCounter, objectAddress,
                 reclaimable, op, at, reg, worldVars, kernelVars>>

-----------------------------------------------------------------------------
(* What is done with the world stopped.                                    *)

(* Mutant: threads may be stopped while they hold an entry.                *)
StopAnywhere(t) ==
  /\ phase = "running"
  /\ pc[t] = "idle"
  /\ stopper' = t
  /\ phase' \in {"create", "swapIn"}
  /\ appLockCounter' = [e \in Entries |-> IF occupied[e] THEN 0 ELSE appLockCounter[e]]
  /\ UNCHANGED <<occupied, kernelLock, resident, objectAddress, reclaimable,
                 threadVars, kernelVars>>

(* ScopedSuspendAll followed by UnlockAllEntries, which zeroes the counter *)
(* of every occupied entry, in PerformHomogeneousSpaceCompact (CreateStubs *)
(* comes next) or UpdateProcessState (SwapObjectsIn comes next).  Running  *)
(* threads stop only at safepoints, outside the lock sequences; blocked    *)
(* threads count as stopped.                                               *)
StopTheWorld(t) ==
  /\ phase = "running"
  /\ pc[t] = "idle"
  /\ \A u \in Threads : pc[u] \in {"idle", "blocked"}
  /\ stopper' = t
  /\ phase' \in {"create", "swapIn"}
  /\ appLockCounter' = [e \in Entries |-> IF occupied[e] THEN 0 ELSE appLockCounter[e]]
  /\ UNCHANGED <<occupied, kernelLock, resident, objectAddress, reclaimable,
                 threadVars, kernelVars>>

(* CreateEntry: the first entry whose occupied bit is clear.  The resident *)
(* bit keeps its old value.  A set kernel lock bit fails the CHECK, and on *)
(* a full table CreateEntry returns nullptr, which CreateStubs             *)
(* dereferences: the process dies in both cases.                           *)
IsFirstFree(e) == ~occupied[e] /\ \A f \in Entries : f < e => occupied[f]

CreateEntry(t, e) ==
  /\ phase = "create" /\ stopper = t
  /\ pc[t] = "idle"
  /\ IsFirstFree(e)
  /\ ~kernelLock[e]
  /\ appLockCounter' = [appLockCounter EXCEPT ![e] = 0]
  /\ objectAddress'  = [objectAddress EXCEPT ![e] = "null"]
  /\ occupied'       = [occupied EXCEPT ![e] = TRUE]
  /\ Goto(t, "spin1")
  /\ op' = [op EXCEPT ![t] = "create"]
  /\ at' = [at EXCEPT ![t] = e]
  /\ UNCHANGED <<kernelLock, resident, reclaimable, reg, worldVars, kernelVars>>

(* PopulateFrom also stores the address of the original object.            *)
PopulateFrom(t) ==
  /\ pc[t] = "held" /\ op[t] = "create"
  /\ objectAddress' = [objectAddress EXCEPT ![at[t]] = "original"]
  /\ Goto(t, "populated")
  /\ UNCHANGED <<occupied, kernelLock, resident, appLockCounter, reclaimable,
                 op, at, reg, worldVars, kernelVars>>

(* Mutant: no copy could be allocated and nothing checks it.               *)
InstallNullCopy(t) ==
  /\ pc[t] = "populated"
  /\ objectAddress' = [objectAddress EXCEPT ![at[t]] = "null"]
  /\ resident'      = [resident EXCEPT ![at[t]] = TRUE]
  /\ \E b \in BOOLEAN : reclaimable' = [reclaimable EXCEPT ![at[t]] = b]
  /\ Goto(t, "unlock")
  /\ UNCHANGED <<occupied, kernelLock, appLockCounter, op, at, reg,
                 worldVars, kernelVars>>

(* The rest of CreateStubs' loop body: the copy in swappedInSpace, its     *)
(* address and the resident bit.                                           *)
InstallObject(t) ==
  /\ pc[t] = "populated"
  /\ objectAddress' = [objectAddress EXCEPT ![at[t]] = "live"]
  /\ resident'      = [resident EXCEPT ![at[t]] = TRUE]
  /\ \E b \in BOOLEAN : reclaimable' = [reclaimable EXCEPT ![at[t]] = b]
  /\ Goto(t, "unlock")
  /\ UNCHANGED <<occupied, kernelLock, appLockCounter, op, at, reg,
                 worldVars, kernelVars>>

(* patchStubReferences, after the last stub is created: lock every entry   *)
(* of the table in turn.                                                   *)
LockForPatch(t, e) ==
  /\ stopper = t /\ pc[t] = "idle"
  /\ Goto(t, "spin1")
  /\ op' = [op EXCEPT ![t] = "patch"]
  /\ at' = [at EXCEPT ![t] = e]
  /\ UNCHANGED <<tableVars, reg, stopper, kernelVars>>

BeginPatch(t) ==
  /\ phase = "create" /\ phase' = "patch"
  /\ LockForPatch(t, 1)

NextPatch(t) ==
  /\ phase = "patch" /\ phase' = phase
  /\ at[t] < NumEntries
  /\ LockForPatch(t, at[t] + 1)

(* Patch the references of a resident object, which may mark it dirty.  A  *)
(* null address fails the CHECK.                                           *)
NeedsPatch(e) == occupied[e] /\ resident[e]

Patch(t) ==
  /\ pc[t] = "held" /\ op[t] = "patch"
  /\ NeedsPatch(at[t]) => objectAddress[at[t]] # "null"
  /\ \E b \in {reclaimable[at[t]], reclaimable[at[t]] /\ ~NeedsPatch(at[t])} :
       reclaimable' = [reclaimable EXCEPT ![at[t]] = b]
  /\ Goto(t, "unlock")
  /\ UNCHANGED <<occupied, kernelLock, resident, appLockCounter, objectAddress,
                 op, at, reg, worldVars, kernelVars>>

(* CreateStubs returns; SwapObjectsOut is called next, unless the OS       *)
(* reclaims in its place.                                                  *)
EndCreateStubs ==
  /\ phase = "patch" /\ pc[stopper] = "idle" /\ at[stopper] = NumEntries
  /\ phase' = IF ConcurrentKernel THEN "running" ELSE "reclaim"
  /\ stopper' = IF ConcurrentKernel THEN NoThread ELSE stopper
  /\ UNCHANGED <<tableVars, threadVars, kernelVars>>

EndSwapObjectsIn ==
  /\ phase = "swapIn" /\ pc[stopper] = "idle"
  /\ phase' = "running"
  /\ stopper' = NoThread
  /\ UNCHANGED <<tableVars, threadVars, kernelVars>>

-----------------------------------------------------------------------------
(* SwapObjectsOut and doKernelReclamationChecks.                           *)

BeginSwapObjectsOut ==
  /\ kpc = "begin"
  /\ ConcurrentKernel \/ phase = "reclaim"
  /\ kpc' = "occupied" /\ kat' = 1 /\ kround' = 1
  /\ UNCHANGED <<tableVars, threadVars, worldVars>>

(* Mutant: the loop runs while rte <= End().                               *)
NextEntryPastEnd ==
  /\ kround' = 1
  /\ IF kat <= NumEntries
       THEN kpc' = "occupied" /\ kat' = kat + 1 /\ UNCHANGED worldVars
       ELSE /\ kpc' = "begin" /\ kat' = 1
            /\ phase' = IF phase = "reclaim" THEN "running" ELSE phase
            /\ stopper' = IF phase = "reclaim" THEN NoThread ELSE stopper

(* Advance to the next entry; past the last one SwapObjectsOut returns and *)
(* the world it ran in is resumed.                                         *)
NextEntry ==
  /\ kround' = 1
  /\ IF kat < NumEntries
       THEN kpc' = "occupied" /\ kat' = kat + 1 /\ UNCHANGED worldVars
       ELSE /\ kpc' = "begin" /\ kat' = 1
            /\ phase' = IF phase = "reclaim" THEN "running" ELSE phase
            /\ stopper' = IF phase = "reclaim" THEN NoThread ELSE stopper

(* Mutant: the kernel lock is released only when the second check          *)
(* succeeded.                                                              *)
CheckKeepsLock(here, success, next) ==
  /\ kpc = here
  /\ IF success THEN kpc' = next /\ UNCHANGED <<kat, kround, worldVars>>
     ELSE NextEntry
  /\ UNCHANGED <<tableVars, threadVars>>

(* One check: go on if it succeeds; if it fails, the first run of the      *)
(* checks skips the entry and the second one releases the kernel lock.     *)
Check(here, success, next) ==
  /\ kpc = here
  /\ IF success THEN kpc' = next /\ UNCHANGED <<kat, kround, worldVars>>
     ELSE IF kround = 1 THEN NextEntry
     ELSE kpc' = "clearLock" /\ UNCHANGED <<kat, kround, worldVars>>
  /\ UNCHANGED <<tableVars, threadVars>>

CheckOccupied == Check("occupied", occupied[kat], "counter")
CheckCounter  == Check("counter", appLockCounter[kat] = 0, "resident")
CheckResident == Check("resident", resident[kat], "object")
CheckObject   == Check("object", reclaimable[kat],
                       IF kround = 1 THEN "setLock" ELSE "madvise")

SetKernelLockBit ==
  /\ kpc = "setLock"
  /\ kernelLock' = [kernelLock EXCEPT ![kat] = TRUE]
  /\ kpc' = "occupied" /\ kround' = 2
  /\ UNCHANGED <<occupied, resident, appLockCounter, objectAddress,
                 reclaimable, threadVars, worldVars, kat>>

Madvise ==
  /\ kpc = "madvise"
  /\ kpc' = "clearResident"
  /\ UNCHANGED <<tableVars, threadVars, worldVars, kat, kround>>

ClearResidentBit ==
  /\ kpc = "clearResident"
  /\ resident' = [resident EXCEPT ![kat] = FALSE]
  /\ kpc' = "clearLock"
  /\ UNCHANGED <<occupied, kernelLock, appLockCounter, objectAddress,
                 reclaimable, threadVars, worldVars, kat, kround>>

ClearKernelLockBit ==
  /\ kpc = "clearLock"
  /\ kernelLock' = [kernelLock EXCEPT ![kat] = FALSE]
  /\ NextEntry
  /\ UNCHANGED <<occupied, resident, appLockCounter, objectAddress,
                 reclaimable, threadVars>>

-----------------------------------------------------------------------------
AppLock(t) == Spin1(t) \/ IncrAppLockCounter(t) \/ CompiledIncrLoad(t)
                \/ CompiledIncrStore(t) \/ Spin2(t)
AppUnlock(t) == Unlock(t) \/ CompiledDecrLoad(t) \/ CompiledDecrStore(t)
AppUse(t) == Access(t) \/ CompiledFieldGetLeak(t) \/ Block(t) \/ Unblock(t)
               \/ FreeObject(t) \/ ClearOccupiedBit(t) \/ PopulateFrom(t)
               \/ InstallObject(t) \/ Patch(t)
AppBegin(t) == \/ StopTheWorld(t) \/ BeginPatch(t) \/ NextPatch(t)
               \/ \E e \in Entries :
                    BeginAccess(t, e) \/ BeginFree(t, e) \/ CreateEntry(t, e)
KernelStep == CheckOccupied \/ CheckCounter \/ CheckResident \/ CheckObject
                \/ SetKernelLockBit \/ Madvise \/ ClearResidentBit
                \/ ClearKernelLockBit

Next ==
  \/ \E t \in Threads : AppBegin(t) \/ AppLock(t) \/ AppUse(t) \/ AppUnlock(t)
  \/ EndCreateStubs
  \/ EndSwapObjectsIn
  \/ BeginSwapObjectsOut
  \/ KernelStep

Spec == Init /\ [][Next]_vars

(* The reclaimer never waits inside its loop, and a thread inside          *)
(* LockFromAppThread only spins, so both are scheduled again.              *)
Fairness == WF_vars(KernelStep) /\ \A t \in Threads : WF_vars(AppLock(t))
FairSpec == Spec /\ Fairness

-----------------------------------------------------------------------------
(* Types: app_lock_counter_ stays within its byte, and every other field   *)
(* of the table, the threads and the reclaimer within its values.          *)
TypeOK ==
  /\ occupied \in [Entries -> BOOLEAN]
  /\ kernelLock \in [Entries -> BOOLEAN]
  /\ resident \in [Entries -> BOOLEAN]
  /\ appLockCounter \in [Entries -> 0 .. CounterSize - 1]
  /\ objectAddress \in [Entries -> {"null", "original", "live", "freed"}]
  /\ reclaimable \in [Entries -> BOOLEAN]
  /\ pc \in [Threads -> PCs]
  /\ op \in [Threads -> Ops]
  /\ at \in [Threads -> Entries]
  /\ reg \in [Threads -> 0 .. CounterSize - 1]
  /\ stopper \in Threads \cup {NoThread}
  /\ phase \in Phases
  /\ kpc \in KPCs
  /\ kat \in Entries
  /\ kround \in {1, 2}

(* The threads that have raised the counter of e and not lowered it yet.   *)
Counting(e) ==
  {t \in Threads : at[t] = e /\ pc[t] \in {"spin2", "held", "freed", "populated",
                                          "blocked", "unlock"}}

(* The counter is exact: app_lock_counter_ is the number of app threads    *)
(* between their increment and their decrement, so no lock is ever lost    *)
(* or left behind.                                                         *)
CounterIsExact == \A e \in Entries : appLockCounter[e] = Cardinality(Counting(e))

(* A thread works on the object of e: it is past LockFromAppThread and has *)
(* not come to UnlockFromAppThread.                                        *)
InUse(t, e) == at[t] = e /\ pc[t] \in {"held", "freed", "populated", "blocked"}

(* Mutual exclusion, the purpose of the lock: once both runs of            *)
(* doKernelReclamationChecks succeeded and until the resident bit is       *)
(* cleared, no app thread is using the object being reclaimed.             *)
MutualExclusion ==
  kpc \in {"madvise", "clearResident"} => \A t \in Threads : ~InUse(t, kat)

(* What the comment on doKernelReclamationChecks says: if the kernel lock  *)
(* bit is set and the checks return true, a valid object is associated     *)
(* with the entry.                                                         *)
ReclaimsValidObject ==
  kpc = "madvise" => occupied[kat] /\ objectAddress[kat] = "live"

(* The assertions CHECK(obj != nullptr) of doKernelReclamationChecks and   *)
(* of patchStubReferences: an occupied and resident entry that the         *)
(* reclaimer finds unlocked, or the patching thread locks, has an object.  *)
ObjectNotNull ==
  /\ kpc = "object" => objectAddress[kat] # "null"
  /\ \A t \in Threads :
       pc[t] = "held" /\ op[t] = "patch" /\ NeedsPatch(at[t]) =>
         objectAddress[at[t]] # "null"

(* The reclaimer always gives up when it contends with an app thread:      *)
(* once a thread has raised the counter, it gets the lock.                 *)
LockIsGranted == \A t \in Threads : (pc[t] = "spin2") ~> (pc[t] = "held")

=============================================================================
