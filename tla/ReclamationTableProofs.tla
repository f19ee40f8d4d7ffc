----------------------- MODULE ReclamationTableProofs -----------------------
(***************************************************************************)
(* Proofs about the reclamation-table lock, for any number of threads and  *)
(* entries and any counter width that exceeds the number of threads.       *)
(***************************************************************************)
EXTENDS ReclamationTable, FiniteSetTheorems, TLAPS

LEMMA CounterHoldsValues == CounterSize \in Nat /\ CounterSize > 0
BY ThreadsAssumption, SizeAssumption, FS_CardinalityType

(* Types are preserved whatever the threads are: compiled, blocking, under *)
(* a concurrent reclaimer or a stopped world.                              *)
LEMMA TypeInit == Init => TypeOK
BY CounterHoldsValues, SizeAssumption DEF Init, TypeOK, Entries, PCs, Ops, Phases, KPCs

LEMMA CounterMod ==
  ASSUME NEW n \in 0 .. CounterSize - 1
  PROVE  /\ (n + 1) % CounterSize \in 0 .. CounterSize - 1
         /\ (n + CounterSize - 1) % CounterSize \in 0 .. CounterSize - 1
         /\ n + 1 < CounterSize => (n + 1) % CounterSize = n + 1
         /\ n > 0 => (n + CounterSize - 1) % CounterSize = n - 1
<1>1. CounterSize \in Nat /\ CounterSize > 0
  BY CounterHoldsValues
<1>2. n \in Int /\ n >= 0 /\ n < CounterSize
  BY <1>1
<1>3. n + 1 < CounterSize => (n + 1) % CounterSize = n + 1
  BY <1>1, <1>2
<1>4. n > 0 => (n + CounterSize - 1) % CounterSize = n - 1
  BY <1>1, <1>2
<1>5. (n + 1) % CounterSize \in 0 .. CounterSize - 1
  BY <1>1, <1>2
<1>6. (n + CounterSize - 1) % CounterSize \in 0 .. CounterSize - 1
  BY <1>1, <1>2
<1> QED  BY <1>3, <1>4, <1>5, <1>6

LEMMA TypeThread ==
  ASSUME TypeOK, NEW t \in Threads, AppLock(t) \/ AppUse(t) \/ AppUnlock(t)
  PROVE  TypeOK'
<1> USE DEF TypeOK, Goto, PCs, Ops
<1>1. CASE Spin1(t)  BY <1>1 DEF Spin1, tableVars, worldVars, kernelVars
<1>2. CASE IncrAppLockCounter(t)
  BY <1>2, CounterMod DEF IncrAppLockCounter, worldVars, kernelVars
<1>3. CASE CompiledIncrLoad(t)
  BY <1>3 DEF CompiledIncrLoad, tableVars, worldVars, kernelVars
<1>4. CASE CompiledIncrStore(t)
  BY <1>4, CounterMod DEF CompiledIncrStore, worldVars, kernelVars
<1>5. CASE Spin2(t)  BY <1>5 DEF Spin2, tableVars, worldVars, kernelVars
<1>6. CASE Unlock(t)
  BY <1>6, CounterMod DEF Unlock, worldVars, kernelVars
<1>7. CASE CompiledDecrLoad(t)
  BY <1>7 DEF CompiledDecrLoad, tableVars, worldVars, kernelVars
<1>8. CASE CompiledDecrStore(t)
  BY <1>8, CounterMod DEF CompiledDecrStore, worldVars, kernelVars
<1>9. CASE Access(t)  BY <1>9 DEF Access, worldVars, kernelVars
<1>10. CASE CompiledFieldGetLeak(t)
  BY <1>10 DEF CompiledFieldGetLeak, worldVars, kernelVars
<1>11. CASE Block(t)  BY <1>11 DEF Block, worldVars, kernelVars
<1>12. CASE Unblock(t)  BY <1>12 DEF Unblock, tableVars, worldVars, kernelVars
<1>13. CASE FreeObject(t)  BY <1>13 DEF FreeObject, worldVars, kernelVars
<1>14. CASE ClearOccupiedBit(t)
  BY <1>14 DEF ClearOccupiedBit, worldVars, kernelVars
<1>15. CASE PopulateFrom(t)  BY <1>15 DEF PopulateFrom, worldVars, kernelVars
<1>16. CASE InstallObject(t)  BY <1>16 DEF InstallObject, worldVars, kernelVars
<1>17. CASE Patch(t)  BY <1>17 DEF Patch, worldVars, kernelVars
<1> QED
  BY <1>1, <1>2, <1>3, <1>4, <1>5, <1>6, <1>7, <1>8, <1>9, <1>10, <1>11,
     <1>12, <1>13, <1>14, <1>15, <1>16, <1>17 DEF AppLock, AppUse, AppUnlock

LEMMA TypeBegin ==
  ASSUME TypeOK, NEW t \in Threads, AppBegin(t)
  PROVE  TypeOK'
<1> USE DEF TypeOK, Goto, PCs, Ops, Phases
<1>1. CASE StopTheWorld(t)
  BY <1>1, SizeAssumption DEF StopTheWorld, threadVars, kernelVars
<1>2. ASSUME NEW e \in Entries, BeginAccess(t, e) PROVE TypeOK'
  BY <1>2 DEF BeginAccess, tableVars, worldVars, kernelVars
<1>3. ASSUME NEW e \in Entries, BeginFree(t, e) PROVE TypeOK'
  BY <1>3 DEF BeginFree, tableVars, worldVars, kernelVars
<1>4. ASSUME NEW e \in Entries, CreateEntry(t, e) PROVE TypeOK'
  BY <1>4, SizeAssumption DEF CreateEntry, worldVars, kernelVars
<1>5. ASSUME NEW e \in Entries, LockForPatch(t, e), phase' = "patch" PROVE TypeOK'
  BY <1>5 DEF LockForPatch, tableVars, kernelVars
<1>6. CASE BeginPatch(t)
  <2>1. 1 \in Entries  BY SizeAssumption DEF Entries
  <2> QED  BY <1>5, <1>6, <2>1 DEF BeginPatch
<1>7. CASE NextPatch(t)
  <2>1. at[t] + 1 \in Entries  BY <1>7, SizeAssumption DEF NextPatch, Entries
  <2> QED  BY <1>5, <1>7, <2>1 DEF NextPatch
<1> QED  BY <1>1, <1>2, <1>3, <1>4, <1>6, <1>7 DEF AppBegin

LEMMA TypeNextEntry ==
  ASSUME TypeOK, NextEntry
  PROVE  /\ kpc' \in KPCs /\ kat' \in Entries /\ kround' = 1
         /\ stopper' \in Threads \cup {NoThread}
         /\ phase' \in Phases
BY SizeAssumption DEF TypeOK, Phases, NextEntry, Entries, KPCs, worldVars

LEMMA TypeCheck ==
  ASSUME TypeOK, NEW here, NEW success, NEW next \in KPCs,
         Check(here, success, next)
  PROVE  TypeOK'
<1>1. /\ kpc' \in KPCs /\ kat' \in Entries /\ kround' \in {1, 2}
      /\ stopper' \in Threads \cup {NoThread}
      /\ phase' \in Phases
  <2>1. CASE NextEntry  BY <2>1, TypeNextEntry
  <2>2. CASE ~NextEntry  BY <2>2 DEF Check, TypeOK, worldVars, KPCs
  <2> QED  BY <2>1, <2>2
<1> QED  BY <1>1 DEF Check, TypeOK, tableVars, threadVars

LEMMA TypeKernel ==
  ASSUME TypeOK,
         KernelStep \/ BeginSwapObjectsOut \/ EndCreateStubs \/ EndSwapObjectsIn
  PROVE  TypeOK'
<1>1. CASE CheckOccupied \/ CheckCounter \/ CheckResident \/ CheckObject
  BY <1>1, TypeCheck
     DEF CheckOccupied, CheckCounter, CheckResident, CheckObject, KPCs
<1>2. CASE SetKernelLockBit
  BY <1>2 DEF SetKernelLockBit, TypeOK, KPCs, threadVars, worldVars
<1>3. CASE Madvise
  BY <1>3 DEF Madvise, TypeOK, KPCs, tableVars, threadVars, worldVars
<1>4. CASE ClearResidentBit
  BY <1>4 DEF ClearResidentBit, TypeOK, KPCs, threadVars, worldVars
<1>5. CASE ClearKernelLockBit
  BY <1>5, TypeNextEntry DEF ClearKernelLockBit, TypeOK, threadVars
<1>6. CASE BeginSwapObjectsOut
  BY <1>6, SizeAssumption
     DEF BeginSwapObjectsOut, TypeOK, KPCs, Entries, tableVars, threadVars, worldVars
<1>7. CASE EndCreateStubs \/ EndSwapObjectsIn
  BY <1>7 DEF EndCreateStubs, EndSwapObjectsIn, TypeOK, Phases, tableVars,
              threadVars, kernelVars
<1> QED  BY <1>1, <1>2, <1>3, <1>4, <1>5, <1>6, <1>7 DEF KernelStep

LEMMA TypeStep == TypeOK /\ [Next]_vars => TypeOK'
<1>1. ASSUME TypeOK, UNCHANGED vars PROVE TypeOK'
  BY <1>1 DEF TypeOK, vars, tableVars, threadVars, worldVars, kernelVars
<1> QED  BY <1>1, TypeThread, TypeBegin, TypeKernel DEF Next

(* Type correctness: in particular the counter byte and the reclaimer's    *)
(* position never leave their ranges.                                      *)
THEOREM TypeCorrect == Spec => []TypeOK
BY TypeInit, TypeStep, PTL DEF Spec

-----------------------------------------------------------------------------
(* The lock, for threads that update the counter atomically and that are   *)
(* never suspended inside a redirected call.                               *)

CountingPCs == {"spin2", "held", "freed", "populated", "blocked", "unlock"}

(* No thread reaches the steps only compiled or blocking threads take.     *)
InterpretedOnly ==
  \A t \in Threads : pc[t] \notin {"incrStore", "decrStore", "blocked"}

(* With the world stopped, only the thread that stopped it works.          *)
StoppedIdle ==
  phase # "running" => \A t \in Threads : t # stopper => pc[t] = "idle"

(* The second run of the checks is made with the kernel lock bit set.      *)
LockedInRoundTwo ==
  /\ kround = 2 => kernelLock[kat]
  /\ kpc \in {"madvise", "clearResident"} => kround = 2
  /\ kpc = "setLock" => kround = 1

(* From the second counter check on, nobody uses the object.               *)
ExclusionFromCheck ==
  kround = 2 /\ kpc \in {"resident", "object", "madvise", "clearResident"} =>
    \A t \in Threads : ~InUse(t, kat)

LockInv ==
  /\ TypeOK
  /\ InterpretedOnly
  /\ StoppedIdle
  /\ CounterIsExact
  /\ LockedInRoundTwo
  /\ ExclusionFromCheck

LEMMA LockInvInit == Init => LockInv
<1> SUFFICES ASSUME Init PROVE LockInv  OBVIOUS
<1>1. TypeOK  BY TypeInit
<1>2. InterpretedOnly /\ StoppedIdle /\ LockedInRoundTwo /\ ExclusionFromCheck
  BY DEF Init, InterpretedOnly, StoppedIdle, LockedInRoundTwo, ExclusionFromCheck
<1>3. CounterIsExact
  <2>1. \A e \in Entries : Counting(e) = {}  BY DEF Init, Counting
  <2> QED  BY <2>1, FS_EmptySet DEF Init, CounterIsExact
<1> QED  BY <1>1, <1>2, <1>3 DEF LockInv

LEMMA CountingFinite ==
  ASSUME NEW e \in Entries
  PROVE  /\ IsFiniteSet(Counting(e))
         /\ Cardinality(Counting(e)) \in Nat
         /\ Cardinality(Counting(e)) < CounterSize
<1>1. Counting(e) \subseteq Threads  BY DEF Counting
<1>2. IsFiniteSet(Counting(e)) /\ Cardinality(Counting(e)) <= Cardinality(Threads)
  BY <1>1, ThreadsAssumption, FS_Subset
<1>3. Cardinality(Threads) \in Nat /\ Cardinality(Counting(e)) \in Nat
  BY <1>2, ThreadsAssumption, FS_CardinalityType
<1> QED  BY <1>2, <1>3, SizeAssumption

(* A step of t that enters or leaves no counted region, and moves t to     *)
(* another entry only outside it, leaves every count alone.                *)
LEMMA CountingUnchanged ==
  ASSUME TypeOK, NEW t \in Threads, NEW q, NEW f,
         pc' = [pc EXCEPT ![t] = q], at' = [at EXCEPT ![t] = f],
         pc[t] \in CountingPCs <=> q \in CountingPCs,
         pc[t] \in CountingPCs => f = at[t]
  PROVE  \A e \in Entries : Counting(e)' = Counting(e)
BY DEF TypeOK, Counting, CountingPCs

(* Steps of t that keep the counters and the reclaimer: everything but the *)
(* increment and the decrement.                                            *)
LEMMA QuietStep ==
  ASSUME LockInv, TypeOK', NEW t \in Threads, NEW q, NEW f,
         pc[t] # "idle" \/ phase' = "running" \/ t = stopper,
         q \notin {"incrStore", "decrStore", "blocked"},
         pc' = [pc EXCEPT ![t] = q], at' = [at EXCEPT ![t] = f],
         pc[t] \in CountingPCs <=> q \in CountingPCs,
         pc[t] \in CountingPCs => f = at[t],
         q \in {"held", "freed", "populated"} =>
           pc[t] \in {"held", "freed", "populated"} \/ ~kernelLock[f],
         appLockCounter' = appLockCounter, kernelLock' = kernelLock,
         phase' = phase \/ phase # "running", stopper' = stopper,
         UNCHANGED kernelVars
  PROVE  LockInv'
<1> USE DEF LockInv
<1>1. InterpretedOnly'
  BY DEF InterpretedOnly, TypeOK
<1>2. StoppedIdle'
  BY DEF StoppedIdle, TypeOK
<1>3. CounterIsExact'
  BY CountingUnchanged DEF CounterIsExact
<1>4. LockedInRoundTwo'
  BY DEF LockedInRoundTwo, kernelVars
<1>5. ExclusionFromCheck'
  BY DEF ExclusionFromCheck, LockedInRoundTwo, InUse, TypeOK, kernelVars, CountingPCs
<1> QED  BY <1>1, <1>2, <1>3, <1>4, <1>5

LEMMA IncrementStep ==
  ASSUME LockInv, TypeOK', NEW t \in Threads, IncrAppLockCounter(t)
  PROVE  LockInv'
<1> DEFINE e == at[t]
<1> USE DEF LockInv, IncrAppLockCounter, Goto
<1>1. e \in Entries  BY DEF TypeOK
<1>2. Counting(e)' = Counting(e) \cup {t} /\ t \notin Counting(e)
  BY DEF TypeOK, Counting
<1>3. \A f \in Entries : f # e => Counting(f)' = Counting(f)
  BY DEF TypeOK, Counting
<1>4. Cardinality(Counting(e)') = Cardinality(Counting(e)) + 1
  BY <1>1, <1>2, CountingFinite, FS_AddElement
<1>5. Cardinality(Counting(e)) + 1 < CounterSize
  <2>1. Counting(e) \cup {t} \subseteq Threads  BY DEF Counting
  <2>2. Cardinality(Counting(e) \cup {t}) <= Cardinality(Threads)
    BY <2>1, ThreadsAssumption, FS_Subset
  <2> QED
    BY <1>1, <1>2, <1>4, <2>2, CountingFinite, SizeAssumption, ThreadsAssumption,
       FS_CardinalityType
<1>6. CounterIsExact'
  <2>1. appLockCounter'[e] = appLockCounter[e] + 1
    BY <1>1, <1>5, CounterMod DEF CounterIsExact, TypeOK
  <2>2. \A f \in Entries : f # e => appLockCounter'[f] = appLockCounter[f]
    BY DEF TypeOK
  <2> QED  BY <1>1, <1>3, <1>4, <2>1, <2>2 DEF CounterIsExact
<1>7. InterpretedOnly' /\ StoppedIdle'
  BY DEF InterpretedOnly, StoppedIdle, TypeOK, worldVars
<1>8. LockedInRoundTwo' /\ ExclusionFromCheck'
  BY DEF LockedInRoundTwo, ExclusionFromCheck, InUse, TypeOK, kernelVars
<1> QED  BY <1>6, <1>7, <1>8

LEMMA DecrementStep ==
  ASSUME LockInv, TypeOK', NEW t \in Threads, Unlock(t)
  PROVE  LockInv'
<1> DEFINE e == at[t]
<1> USE DEF LockInv, Unlock, Goto
<1>1. e \in Entries  BY DEF TypeOK
<1>2. Counting(e)' = Counting(e) \ {t} /\ t \in Counting(e)
  BY DEF TypeOK, Counting
<1>3. \A f \in Entries : f # e => Counting(f)' = Counting(f)
  BY DEF TypeOK, Counting
<1>4. Cardinality(Counting(e)') = Cardinality(Counting(e)) - 1
  BY <1>1, <1>2, CountingFinite, FS_RemoveElement
<1>5. Cardinality(Counting(e)) > 0
  BY <1>1, <1>2, CountingFinite, FS_EmptySet
<1>6. CounterIsExact'
  <2>1. appLockCounter'[e] = appLockCounter[e] - 1
    BY <1>1, <1>5, CounterMod DEF CounterIsExact, TypeOK
  <2>2. \A f \in Entries : f # e => appLockCounter'[f] = appLockCounter[f]
    BY DEF TypeOK
  <2> QED  BY <1>1, <1>3, <1>4, <2>1, <2>2 DEF CounterIsExact
<1>7. InterpretedOnly' /\ StoppedIdle'
  BY DEF InterpretedOnly, StoppedIdle, TypeOK, worldVars
<1>8. LockedInRoundTwo' /\ ExclusionFromCheck'
  BY DEF LockedInRoundTwo, ExclusionFromCheck, InUse, TypeOK, kernelVars
<1> QED  BY <1>6, <1>7, <1>8

LEMMA LockInvThread ==
  ASSUME LockInv, CompiledThreads = {}, BlockingThreads = {},
         NEW t \in Threads, AppLock(t) \/ AppUse(t) \/ AppUnlock(t)
  PROVE  LockInv'
<1>0. TypeOK'  BY TypeThread DEF LockInv
<1>a. at = [at EXCEPT ![t] = at[t]]  BY DEF LockInv, TypeOK
<1> USE <1>0, <1>a DEF Goto, CountingPCs, worldVars
<1>1. CASE Spin1(t)  BY <1>1, QuietStep DEF Spin1, tableVars
<1>2. CASE IncrAppLockCounter(t)  BY <1>2, IncrementStep
<1>3. CASE Spin2(t)  BY <1>3, QuietStep DEF Spin2, tableVars
<1>4. CASE Unlock(t)  BY <1>4, DecrementStep
<1>5. CASE Access(t)  BY <1>5, QuietStep DEF Access
<1>6. CASE FreeObject(t)  BY <1>6, QuietStep DEF FreeObject
<1>7. CASE ClearOccupiedBit(t)  BY <1>7, QuietStep DEF ClearOccupiedBit
<1>8. CASE PopulateFrom(t)  BY <1>8, QuietStep DEF PopulateFrom
<1>9. CASE InstallObject(t)  BY <1>9, QuietStep DEF InstallObject
<1>10. CASE Patch(t)  BY <1>10, QuietStep DEF Patch
<1>11. ~CompiledIncrLoad(t) /\ ~CompiledDecrLoad(t) /\ ~CompiledFieldGetLeak(t) /\ ~Block(t)
  BY DEF CompiledIncrLoad, CompiledDecrLoad, CompiledFieldGetLeak, Block
<1>12. ~CompiledIncrStore(t) /\ ~CompiledDecrStore(t) /\ ~Unblock(t)
  BY DEF LockInv, InterpretedOnly, CompiledIncrStore, CompiledDecrStore, Unblock
<1> QED
  BY <1>1, <1>2, <1>3, <1>4, <1>5, <1>6, <1>7, <1>8, <1>9, <1>10, <1>11,
     <1>12 DEF AppLock, AppUse, AppUnlock

(* Stopping the world and creating an entry zero counters, which were 0    *)
(* because no thread holds an entry then.                                  *)
LEMMA ZeroingStep ==
  ASSUME LockInv, TypeOK', NEW t \in Threads,
         \A u \in Threads : pc[u] = "idle",
         StopTheWorld(t) \/ \E e \in Entries : CreateEntry(t, e)
  PROVE  LockInv'
<1> USE DEF LockInv, Goto
<1>1. \A f \in Entries : Counting(f) = {}  BY DEF Counting
<1>2. \A f \in Entries : appLockCounter[f] = 0
  BY <1>1, FS_EmptySet DEF CounterIsExact
<1>3. \A f \in Entries : appLockCounter'[f] = 0
  BY <1>2 DEF StopTheWorld, CreateEntry, TypeOK
<1>4. \A f \in Entries : Counting(f)' = {}
  BY DEF Counting, StopTheWorld, CreateEntry, threadVars, TypeOK
<1>5. CounterIsExact'  BY <1>3, <1>4, FS_EmptySet DEF CounterIsExact
<1>6. InterpretedOnly' /\ StoppedIdle'
  BY DEF InterpretedOnly, StoppedIdle, StopTheWorld, CreateEntry, threadVars,
         worldVars, TypeOK
<1>7. LockedInRoundTwo' /\ ExclusionFromCheck'
  BY DEF LockedInRoundTwo, ExclusionFromCheck, InUse, StopTheWorld, CreateEntry,
         threadVars, kernelVars, TypeOK
<1> QED  BY <1>5, <1>6, <1>7

LEMMA LockInvBegin ==
  ASSUME LockInv, NEW t \in Threads, AppBegin(t)
  PROVE  LockInv'
<1>0. TypeOK'  BY TypeBegin DEF LockInv
<1>1. CASE StopTheWorld(t)
  <2>1. \A u \in Threads : pc[u] = "idle"
    BY <1>1 DEF StopTheWorld, LockInv, InterpretedOnly
  <2> QED  BY <1>0, <1>1, <2>1, ZeroingStep
<1>2. ASSUME NEW e \in Entries, CreateEntry(t, e) PROVE LockInv'
  <2>1. \A u \in Threads : pc[u] = "idle"
    BY <1>2 DEF CreateEntry, LockInv, StoppedIdle
  <2> QED  BY <1>0, <1>2, <2>1, ZeroingStep
<1>3. ASSUME NEW e \in Entries, BeginAccess(t, e) \/ BeginFree(t, e) PROVE LockInv'
  BY <1>0, <1>3, QuietStep
     DEF BeginAccess, BeginFree, Goto, CountingPCs, tableVars, worldVars
<1>4. CASE BeginPatch(t) \/ NextPatch(t)
  BY <1>0, <1>4, QuietStep
     DEF BeginPatch, NextPatch, LockForPatch, Goto, CountingPCs, tableVars
<1> QED  BY <1>1, <1>2, <1>3, <1>4 DEF AppBegin

(* Steps of the reclaimer leave threads and counters alone.                *)
LEMMA ReclaimerStep ==
  ASSUME LockInv, TypeOK', UNCHANGED threadVars, appLockCounter' = appLockCounter,
         phase' = "running" \/ (phase # "running" /\ stopper' = stopper),
         LockedInRoundTwo', ExclusionFromCheck'
  PROVE  LockInv'
<1>1. InterpretedOnly' /\ StoppedIdle'
  BY DEF LockInv, InterpretedOnly, StoppedIdle, threadVars
<1>2. \A e \in Entries : Counting(e)' = Counting(e)
  BY DEF Counting, threadVars
<1>3. CounterIsExact'  BY <1>2 DEF LockInv, CounterIsExact
<1> QED  BY <1>1, <1>3 DEF LockInv

LEMMA LockInvReclaimer ==
  ASSUME LockInv,
         KernelStep \/ BeginSwapObjectsOut \/ EndCreateStubs \/ EndSwapObjectsIn
  PROVE  LockInv'
<1>0. TypeOK'  BY TypeKernel DEF LockInv
<1>w. /\ UNCHANGED threadVars /\ appLockCounter' = appLockCounter
      /\ phase' = "running" \/ (phase # "running" /\ stopper' = stopper)
  BY DEF KernelStep, BeginSwapObjectsOut, EndCreateStubs, EndSwapObjectsIn,
         CheckOccupied, CheckCounter, CheckResident, CheckObject, Check, SetKernelLockBit, Madvise,
         ClearResidentBit, ClearKernelLockBit, NextEntry, tableVars, worldVars,
         LockInv, TypeOK
<1> SUFFICES LockedInRoundTwo' /\ ExclusionFromCheck'
  BY <1>0, <1>w, ReclaimerStep
<1> USE DEF LockInv, LockedInRoundTwo, ExclusionFromCheck, NextEntry, Check,
            tableVars, threadVars
<1>1. CASE CheckOccupied  BY <1>1 DEF CheckOccupied, InUse
<1>2. CASE CheckCounter
  <2>1. ASSUME appLockCounter[kat] = 0 PROVE \A t \in Threads : ~InUse(t, kat)
    <3>1. kat \in Entries  BY DEF TypeOK
    <3>2. Counting(kat) = {}
      BY <2>1, <3>1, CountingFinite, FS_EmptySet DEF CounterIsExact
    <3> QED  BY <3>2 DEF Counting, InUse
  <2> QED  BY <1>2, <2>1 DEF CheckCounter, InUse
<1>3. CASE CheckResident  BY <1>3 DEF CheckResident, InUse
<1>4. CASE CheckObject  BY <1>4 DEF CheckObject, InUse, TypeOK
<1>5. CASE SetKernelLockBit  BY <1>5 DEF SetKernelLockBit, TypeOK
<1>6. CASE Madvise  BY <1>6 DEF Madvise, InUse
<1>7. CASE ClearResidentBit  BY <1>7 DEF ClearResidentBit
<1>8. CASE ClearKernelLockBit  BY <1>8 DEF ClearKernelLockBit
<1>9. CASE BeginSwapObjectsOut  BY <1>9 DEF BeginSwapObjectsOut
<1>10. CASE EndCreateStubs \/ EndSwapObjectsIn
  BY <1>10 DEF EndCreateStubs, EndSwapObjectsIn, InUse, kernelVars
<1> QED
  BY <1>1, <1>2, <1>3, <1>4, <1>5, <1>6, <1>7, <1>8, <1>9, <1>10 DEF KernelStep

LEMMA LockInvStep ==
  ASSUME CompiledThreads = {}, BlockingThreads = {}
  PROVE  LockInv /\ [Next]_vars => LockInv'
<1>1. ASSUME LockInv, UNCHANGED vars PROVE LockInv'
  BY <1>1 DEF vars, tableVars, threadVars, worldVars, kernelVars, LockInv, TypeOK,
              InterpretedOnly, StoppedIdle, CounterIsExact, Counting,
              LockedInRoundTwo, ExclusionFromCheck, InUse
<1> QED  BY <1>1, LockInvThread, LockInvBegin, LockInvReclaimer DEF Next

(* The counter byte counts exactly the threads that hold or are acquiring  *)
(* the entry, for any number of threads below the byte's range: no lock is *)
(* lost to wrap-around, to UnlockAllEntries or to CreateEntry.             *)
THEOREM CounterExact ==
  ASSUME CompiledThreads = {}, BlockingThreads = {}
  PROVE  Spec => []CounterIsExact
<1>1. LockInv => CounterIsExact  BY DEF LockInv
<1> QED  BY <1>1, LockInvInit, LockInvStep, PTL DEF Spec

(* The Dekker-style lock is correct: the reclaimer, concurrent or not,     *)
(* never discards the pages of an object an app thread is using.           *)
THEOREM LockExcludes ==
  ASSUME CompiledThreads = {}, BlockingThreads = {}
  PROVE  Spec => []MutualExclusion
<1>1. LockInv => MutualExclusion
  BY DEF LockInv, LockedInRoundTwo, ExclusionFromCheck, MutualExclusion
<1> QED  BY <1>1, LockInvInit, LockInvStep, PTL DEF Spec

-----------------------------------------------------------------------------
(* Reclaiming with the world stopped, as SwapObjectsOut is called today,   *)
(* for every thread: compiled ones and ones suspended inside a call.       *)

(* The reclaimer is inside its loop only while the world is stopped for it.*)
ReclaimsStopped == kpc # "begin" => phase = "reclaim"

(* A stopped world: only the stopping thread works, and not while it       *)
(* reclaims.                                                               *)
StoppedQuiet ==
  /\ phase # "running" =>
       \A t \in Threads : t # stopper => pc[t] \in {"idle", "blocked"}
  /\ phase = "reclaim" => \A t \in Threads : pc[t] \in {"idle", "blocked"}

PatchesStopped ==
  \A t \in Threads :
    op[t] = "patch" => phase = "patch" /\ pc[t] \notin {"idle", "blocked"}

(* t is about to install the object of e or to release the entry.          *)
Changing(t, e) ==
  /\ at[t] = e
  /\ \/ op[t] = "create" /\ pc[t] \in {"spin1", "incr", "incrStore", "spin2",
                                       "held", "populated"}
     \/ pc[t] = "freed"

OccupiedIsLive ==
  \A e \in Entries :
    occupied[e] /\ objectAddress[e] # "live" => \E t \in Threads : Changing(t, e)

OccupiedSinceCheck ==
  kpc \in {"counter", "resident", "object", "madvise"} => occupied[kat]

ReclaimInv ==
  /\ TypeOK
  /\ ReclaimsStopped
  /\ StoppedQuiet
  /\ PatchesStopped
  /\ OccupiedIsLive
  /\ OccupiedSinceCheck

LEMMA ReclaimInvInit == Init => ReclaimInv
<1> SUFFICES ASSUME Init PROVE ReclaimInv  OBVIOUS
<1>1. TypeOK  BY TypeInit
<1>2. ReclaimsStopped /\ StoppedQuiet /\ PatchesStopped /\ OccupiedIsLive /\ OccupiedSinceCheck
  BY DEF Init, ReclaimsStopped, StoppedQuiet, PatchesStopped, OccupiedIsLive,
         OccupiedSinceCheck
<1> QED  BY <1>1, <1>2 DEF ReclaimInv

OthersStay(t) ==
  \A u \in Threads \ {t} : pc'[u] = pc[u] /\ op'[u] = op[u] /\ at'[u] = at[u]

(* A step of t outside the reclaim phase: what is left to show is that     *)
(* occupied entries have live objects.                                     *)
LEMMA ThreadFrame ==
  ASSUME ReclaimInv, TypeOK', OccupiedIsLive', NEW t \in Threads, OthersStay(t),
         op'[t] = "patch" => phase' = "patch" /\ pc'[t] \notin {"idle", "blocked"},
         phase \in {"running", "create", "patch", "swapIn"},
         phase = "running" \/ t = stopper,
         phase' = phase \/ (phase = "create" /\ phase' = "patch"),
         stopper' = stopper, UNCHANGED kernelVars
  PROVE  ReclaimInv'
<1> USE DEF ReclaimInv
<1>1. kpc = "begin" /\ kpc' = "begin"  BY DEF ReclaimsStopped, kernelVars
<1>2. ReclaimsStopped' /\ OccupiedSinceCheck'
  BY <1>1 DEF ReclaimsStopped, OccupiedSinceCheck
<1>3. StoppedQuiet'  BY DEF StoppedQuiet, OthersStay
<1>4. PatchesStopped'  BY DEF PatchesStopped, OthersStay
<1> QED  BY <1>2, <1>3, <1>4

(* A step of t that leaves the table's objects and t's own claim alone.    *)
LEMMA LiveFrame ==
  ASSUME TypeOK, OccupiedIsLive, NEW t \in Threads, OthersStay(t),
         occupied' = occupied, objectAddress' = objectAddress,
         \A e \in Entries : Changing(t, e) => Changing(t, e)'
  PROVE  OccupiedIsLive'
<1>1. \A u \in Threads, e \in Entries : Changing(u, e) => Changing(u, e)'
  BY DEF Changing, OthersStay
<1> QED  BY <1>1 DEF OccupiedIsLive

LEMMA ReclaimInvThread ==
  ASSUME ReclaimInv, NEW t \in Threads, AppLock(t) \/ AppUse(t) \/ AppUnlock(t)
  PROVE  ReclaimInv'
<1>0. TypeOK'  BY TypeThread DEF ReclaimInv
<1>1. /\ pc[t] # "idle" /\ (pc[t] = "blocked" => phase = "running")
      /\ UNCHANGED worldVars /\ UNCHANGED kernelVars
  BY DEF AppLock, AppUse, AppUnlock, Spin1, IncrAppLockCounter, CompiledIncrLoad,
         CompiledIncrStore, Spin2, Unlock, CompiledDecrLoad, CompiledDecrStore,
         Access, CompiledFieldGetLeak, Block, Unblock, FreeObject,
         ClearOccupiedBit, PopulateFrom, InstallObject, Patch
<1>2. /\ phase \in {"running", "create", "patch", "swapIn"}
      /\ phase = "running" \/ t = stopper
  BY <1>1 DEF ReclaimInv, StoppedQuiet, TypeOK, Phases
<1>3. /\ OthersStay(t)
      /\ op'[t] = "patch" => op[t] = "patch" /\ pc'[t] \notin {"idle", "blocked"}
  <2> USE DEF ReclaimInv, TypeOK, Goto, OthersStay
  <2>1. CASE AppLock(t)
    BY <2>1 DEF AppLock, Spin1, IncrAppLockCounter, CompiledIncrLoad,
       CompiledIncrStore, Spin2
  <2>2. CASE AppUnlock(t)
    BY <2>2 DEF AppUnlock, Unlock, CompiledDecrLoad, CompiledDecrStore
  <2>3. CASE AppUse(t)
    BY <2>3 DEF AppUse, Access, CompiledFieldGetLeak, Block, Unblock,
       FreeObject, ClearOccupiedBit, PopulateFrom, InstallObject, Patch
  <2> QED  BY <2>1, <2>2, <2>3
<1>4. OccupiedIsLive'
  <2> USE DEF ReclaimInv, Goto
  <2>1. CASE AppLock(t)
    <3>1. occupied' = occupied /\ objectAddress' = objectAddress /\ at' = at /\ op' = op
      BY <2>1 DEF AppLock, Spin1, IncrAppLockCounter, CompiledIncrLoad,
         CompiledIncrStore, Spin2, tableVars
    <3>2. \A e \in Entries : Changing(t, e) => Changing(t, e)'
      BY <2>1, <3>1 DEF AppLock, Spin1, IncrAppLockCounter, CompiledIncrLoad,
         CompiledIncrStore, Spin2, Changing, TypeOK
    <3> QED  BY <1>3, <3>1, <3>2, LiveFrame
  <2>2. CASE AppUnlock(t)
    <3>1. /\ occupied' = occupied /\ objectAddress' = objectAddress /\ at' = at
          /\ pc[t] \in {"unlock", "decrStore"}
      BY <2>2 DEF AppUnlock, Unlock, CompiledDecrLoad, CompiledDecrStore, tableVars
    <3>2. \A e \in Entries : ~Changing(t, e)  BY <3>1 DEF Changing
    <3> QED  BY <1>3, <3>1, <3>2, LiveFrame
  <2>3. CASE Access(t) \/ CompiledFieldGetLeak(t) \/ Block(t) \/ Unblock(t) \/ Patch(t)
    <3>1. /\ occupied' = occupied /\ objectAddress' = objectAddress /\ at' = at
          /\ pc[t] = "blocked" \/ (pc[t] = "held" /\ op[t] # "create")
      BY <2>3 DEF Access, CompiledFieldGetLeak, Block, Unblock, Patch, tableVars
    <3>2. \A e \in Entries : ~Changing(t, e)  BY <3>1 DEF Changing
    <3> QED  BY <1>3, <3>1, <3>2, LiveFrame
  <2>4. CASE FreeObject(t)
    BY <2>4 DEF FreeObject, OccupiedIsLive, Changing, TypeOK
  <2>5. CASE ClearOccupiedBit(t)
    BY <2>5 DEF ClearOccupiedBit, OccupiedIsLive, Changing, TypeOK
  <2>6. CASE PopulateFrom(t)
    BY <2>6 DEF PopulateFrom, OccupiedIsLive, Changing, TypeOK
  <2>7. CASE InstallObject(t)
    BY <2>7 DEF InstallObject, OccupiedIsLive, Changing, TypeOK
  <2> QED  BY <2>1, <2>2, <2>3, <2>4, <2>5, <2>6, <2>7 DEF AppUse
<1>5. op'[t] = "patch" => phase' = "patch" /\ pc'[t] \notin {"idle", "blocked"}
  BY <1>1, <1>3 DEF ReclaimInv, PatchesStopped, worldVars
<1> QED  BY <1>0, <1>1, <1>2, <1>3, <1>4, <1>5, ThreadFrame DEF worldVars

LEMMA ReclaimInvBegin ==
  ASSUME ReclaimInv, NEW t \in Threads, AppBegin(t)
  PROVE  ReclaimInv'
<1>0. TypeOK'  BY TypeBegin DEF ReclaimInv
<1>1. CASE StopTheWorld(t)
  <2> USE <1>1 DEF ReclaimInv, StopTheWorld, threadVars, kernelVars
  <2>1. ReclaimsStopped' /\ OccupiedSinceCheck'
    BY DEF ReclaimsStopped, OccupiedSinceCheck
  <2>2. StoppedQuiet' /\ PatchesStopped'  BY DEF StoppedQuiet, PatchesStopped
  <2>3. OccupiedIsLive'  BY DEF OccupiedIsLive, Changing
  <2> QED  BY <1>0, <2>1, <2>2, <2>3
<1>2. ASSUME NEW e \in Entries, CreateEntry(t, e) PROVE ReclaimInv'
  <2>1. OccupiedIsLive'
    <3>1. Changing(t, e)'
      BY <1>2 DEF CreateEntry, Goto, Changing, ReclaimInv, TypeOK
    <3>2. \A u \in Threads, f \in Entries : Changing(u, f) => Changing(u, f)'
      BY <1>2 DEF CreateEntry, Goto, Changing, ReclaimInv, TypeOK
    <3>3. \A f \in Entries : f # e => occupied'[f] = occupied[f]
                                      /\ objectAddress'[f] = objectAddress[f]
      BY <1>2 DEF CreateEntry, ReclaimInv, TypeOK
    <3> QED  BY <3>1, <3>2, <3>3 DEF OccupiedIsLive, ReclaimInv
  <2>2. OthersStay(t) /\ op'[t] = "create"
    BY <1>2 DEF CreateEntry, Goto, OthersStay, ReclaimInv, TypeOK
  <2> QED  BY <1>0, <1>2, <2>1, <2>2, ThreadFrame DEF CreateEntry, worldVars
<1>3. ASSUME NEW e \in Entries, NEW o \in {"access", "free", "patch"},
             pc[t] = "idle", Goto(t, "spin1"), op' = [op EXCEPT ![t] = o],
             at' = [at EXCEPT ![t] = e], UNCHANGED tableVars
      PROVE  OccupiedIsLive' /\ OthersStay(t) /\ op'[t] = o /\ pc'[t] = "spin1"
  <2>1. \A f \in Entries : ~Changing(t, f)  BY <1>3 DEF Changing
  <2>2. OthersStay(t) /\ op'[t] = o /\ pc'[t] = "spin1"
    BY <1>3 DEF OthersStay, Goto, ReclaimInv, TypeOK
  <2> QED  BY <1>3, <2>1, <2>2, LiveFrame DEF ReclaimInv, tableVars
<1>4. ASSUME NEW e \in Entries, BeginAccess(t, e) \/ BeginFree(t, e) PROVE ReclaimInv'
  <2>1. OccupiedIsLive' /\ OthersStay(t) /\ op'[t] \in {"access", "free"}
    BY <1>3, <1>4 DEF BeginAccess, BeginFree
  <2> QED  BY <1>0, <1>4, <2>1, ThreadFrame DEF BeginAccess, BeginFree, worldVars
<1>5. CASE BeginPatch(t) \/ NextPatch(t)
  <2>1. PICK e \in Entries : LockForPatch(t, e)
    BY <1>5, SizeAssumption DEF BeginPatch, NextPatch, Entries, ReclaimInv, TypeOK
  <2>2. OccupiedIsLive' /\ OthersStay(t) /\ pc'[t] = "spin1"
    BY <1>3, <2>1 DEF LockForPatch
  <2>3. /\ phase \in {"create", "patch"} /\ phase' = "patch"
        /\ phase' = phase \/ (phase = "create" /\ phase' = "patch")
    BY <1>5 DEF BeginPatch, NextPatch
  <2> QED  BY <1>0, <2>1, <2>2, <2>3, ThreadFrame DEF LockForPatch
<1> QED  BY <1>1, <1>2, <1>4, <1>5 DEF AppBegin

LEMMA ReclaimInvReclaimer ==
  ASSUME ReclaimInv, ConcurrentKernel = FALSE,
         KernelStep \/ BeginSwapObjectsOut \/ EndCreateStubs \/ EndSwapObjectsIn
  PROVE  ReclaimInv'
<1>0. TypeOK'  BY TypeKernel DEF ReclaimInv
<1>1. UNCHANGED threadVars /\ occupied' = occupied /\ objectAddress' = objectAddress
  BY DEF KernelStep, BeginSwapObjectsOut, EndCreateStubs, EndSwapObjectsIn,
         CheckOccupied, CheckCounter, CheckResident, CheckObject, Check,
         SetKernelLockBit, Madvise, ClearResidentBit, ClearKernelLockBit, tableVars
<1>2. OccupiedIsLive'
  BY <1>1 DEF ReclaimInv, OccupiedIsLive, Changing, threadVars
<1>3. CASE EndCreateStubs \/ EndSwapObjectsIn
  <2> USE <1>1, <1>3 DEF ReclaimInv, EndCreateStubs, EndSwapObjectsIn, threadVars, kernelVars
  <2>1. ReclaimsStopped' /\ OccupiedSinceCheck'
    BY DEF ReclaimsStopped, OccupiedSinceCheck
  <2>2. StoppedQuiet' /\ PatchesStopped'  BY DEF StoppedQuiet, PatchesStopped
  <2> QED  BY <1>0, <1>2, <2>1, <2>2
<1>4. CASE KernelStep \/ BeginSwapObjectsOut
  <2>1. phase = "reclaim"
    BY <1>4 DEF ReclaimInv, ReclaimsStopped, KernelStep, BeginSwapObjectsOut,
           CheckOccupied, CheckCounter, CheckResident, CheckObject, Check,
           SetKernelLockBit, Madvise, ClearResidentBit, ClearKernelLockBit
  <2>2. \/ phase' = phase /\ stopper' = stopper
        \/ phase' = "running" /\ kpc' = "begin"
    BY <1>4, <2>1 DEF KernelStep, BeginSwapObjectsOut, CheckOccupied, CheckCounter,
       CheckResident, CheckObject, Check, NextEntry, SetKernelLockBit, Madvise,
       ClearResidentBit, ClearKernelLockBit, worldVars
  <2>3. ReclaimsStopped'  BY <2>1, <2>2 DEF ReclaimsStopped
  <2>4. StoppedQuiet' /\ PatchesStopped'
    BY <1>1, <2>1, <2>2 DEF ReclaimInv, StoppedQuiet, PatchesStopped, threadVars
  <2>5. OccupiedSinceCheck'
    BY <1>1, <1>4 DEF ReclaimInv, OccupiedSinceCheck, KernelStep, BeginSwapObjectsOut,
       CheckOccupied, CheckCounter, CheckResident, CheckObject, Check, NextEntry,
       SetKernelLockBit, Madvise, ClearResidentBit, ClearKernelLockBit
  <2> QED  BY <1>0, <1>2, <2>3, <2>4, <2>5 DEF ReclaimInv
<1> QED  BY <1>3, <1>4

LEMMA ReclaimInvStep ==
  ASSUME ConcurrentKernel = FALSE
  PROVE  ReclaimInv /\ [Next]_vars => ReclaimInv'
<1>1. ASSUME ReclaimInv, UNCHANGED vars PROVE ReclaimInv'
  BY <1>1 DEF vars, tableVars, threadVars, worldVars, kernelVars, ReclaimInv, TypeOK,
              ReclaimsStopped, StoppedQuiet, PatchesStopped, OccupiedIsLive, Changing,
              OccupiedSinceCheck
<1> QED  BY <1>1, ReclaimInvThread, ReclaimInvBegin, ReclaimInvReclaimer DEF Next

(* With the world stopped no occupied entry is between CreateEntry and the *)
(* installation of its object, or between Free and ClearOccupiedBit.       *)
LEMMA ReclaimSeesLive ==
  ASSUME ReclaimInv, NEW e \in Entries, occupied[e],
         \A t \in Threads : ~Changing(t, e)
  PROVE  objectAddress[e] = "live"
BY DEF ReclaimInv, OccupiedIsLive

LEMMA ReclaimInvSuffices == ReclaimInv => ReclaimsValidObject /\ ObjectNotNull
<1> SUFFICES ASSUME ReclaimInv PROVE ReclaimsValidObject /\ ObjectNotNull
  OBVIOUS
<1> USE DEF ReclaimInv
<1>1. kat \in Entries  BY DEF TypeOK
<1>2. ASSUME kpc \in {"object", "madvise"}
      PROVE  occupied[kat] /\ objectAddress[kat] = "live"
  <2>1. phase = "reclaim"  BY <1>2 DEF ReclaimsStopped
  <2>2. \A t \in Threads : ~Changing(t, kat)
    BY <2>1 DEF StoppedQuiet, Changing
  <2>3. occupied[kat]  BY <1>2 DEF OccupiedSinceCheck
  <2> QED  BY <1>1, <2>2, <2>3, ReclaimSeesLive
<1>3. ASSUME NEW t \in Threads, pc[t] = "held", op[t] = "patch", NeedsPatch(at[t])
      PROVE  objectAddress[at[t]] # "null"
  <2>1. phase = "patch"  BY <1>3 DEF PatchesStopped
  <2>2. t = stopper  BY <1>3, <2>1 DEF StoppedQuiet
  <2>3. \A u \in Threads : ~Changing(u, at[t])
    BY <1>3, <2>1, <2>2 DEF StoppedQuiet, Changing
  <2>4. at[t] \in Entries /\ occupied[at[t]]  BY <1>3 DEF NeedsPatch, TypeOK
  <2> QED  BY <2>3, <2>4, ReclaimSeesLive
<1> QED  BY <1>2, <1>3 DEF ReclaimsValidObject, ObjectNotNull

(* As SwapObjectsOut is called today, whatever the threads do: an entry    *)
(* whose checks return true has a valid object.                            *)
THEOREM StoppedReclaimsValid ==
  ASSUME ConcurrentKernel = FALSE
  PROVE  Spec => []ReclaimsValidObject
<1>1. ReclaimInv => ReclaimsValidObject  BY ReclaimInvSuffices
<1> QED  BY <1>1, ReclaimInvInit, ReclaimInvStep, PTL DEF Spec

(* As SwapObjectsOut is called today, the CHECKs that an occupied and      *)
(* resident entry has an object never fail.                                *)
THEOREM StoppedNotNull ==
  ASSUME ConcurrentKernel = FALSE
  PROVE  Spec => []ObjectNotNull
<1>1. ReclaimInv => ObjectNotNull  BY ReclaimInvSuffices
<1> QED  BY <1>1, ReclaimInvInit, ReclaimInvStep, PTL DEF Spec

=============================================================================
