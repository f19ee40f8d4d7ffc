------------------------- MODULE TaskScheduleProofs -------------------------
(***************************************************************************)
(* The WriteTask compacts the heap of a background app only after as many  *)
(* collections as BG_MARK_SWEEPS_BEFORE_SEMI_SPACE says, for any value of  *)
(* that constant; and the tasks of the daemon's queue are neither lost nor *)
(* doubled.                                                                *)
(***************************************************************************)
EXTENDS TaskSchedule, FiniteSetTheorems, TLAPS

Writing ==
  hpc \in {"write", "schedule", "mode", "fgrequest", "check", "request", "load", "store",
           "compactwait", "compact", "zero", "add"}
IsDue(k) == \E i \in DOMAIN due : due[i] = k

OneWriteDue ==
  \A i, j \in DOMAIN due : due[i] = "write" /\ due[j] = "write" => i = j

(* At most one WriteTask, and none before the initialization is over.      *)
WriteInv ==
  /\ waiting["write"] <= 1
  /\ Writing => waiting["write"] = 0
  /\ waiting["write"] = 1 \/ Writing => ~IsDue("write")
  /\ OneWriteDue
  /\ swap # "enabled" => waiting["write"] = 0 /\ ~Writing /\ ~IsDue("write")

(* A pending request has a task, or will have.                             *)
RequestInv ==
  gcPending => IsDue("gc") \/ apc = "add" \/ hpc \in {"gccheck", "gcwait", "gc", "gcclear"}

(* The last collection that the counter counts is yet to be made, but      *)
(* before the WriteTask's next turn.                                       *)
GcFirst == \E i \in DOMAIN due : due[i] = "gc" /\ \A j \in DOMAIN due : due[j] = "write" => i < j

(* The counter is never ahead of the collections when the WriteTask reads  *)
(* it, as long as the runtime does not shut down.                          *)
CountInv ==
  mishap = "none" /\ ~IsShuttingDown =>
    /\ counter <= sweeps + 1
    /\ hpc \in {"load", "store"} => IsDue("gc")
    /\ hpc = "store" => reg <= sweeps
    /\ hpc = "compactwait" => counter >= MarkSweeps
    /\ hpc \notin {"store", "gccheck", "gcwait", "gc"} =>
         counter <= sweeps \/ (GcFirst /\ (Writing => hpc = "add"))

(* A compaction that has started was due, and no swap-in at the foreground *)
(* resets the count while it lasts.                                        *)
CompactInv ==
  /\ mishap = "none" /\ hpc = "compact" => sweeps >= MarkSweeps
  /\ Collecting => upc # "swapin"

(* The counter is incremented only below its limit, even after a reset.    *)
LimitInv ==
  /\ hpc \in {"request", "load"} => counter < MarkSweeps
  /\ hpc = "store" => reg < MarkSweeps

IInv == TypeOK /\ WriteInv /\ RequestInv /\ CountInv /\ CompactInv /\ LimitInv

(* TypeOK in two parts: the flags, and the rest.                           *)
FlagsOK ==
  /\ gcPending \in BOOLEAN /\ transitionPending \in BOOLEAN
  /\ jank \in BOOLEAN /\ foreground \in BOOLEAN /\ ioError \in BOOLEAN
OthersOK ==
  /\ processor \in {"new", "running", "closing", "stopped"}
  /\ due \in Seq({"write", "gc", "transition"})
  /\ waiting \in [{"write", "transition"} -> Nat]
  /\ hpc \in HeapSteps
  /\ counter \in 0..MarkSweeps /\ reg \in 0..MarkSweeps
  /\ apc \in {"idle", "request", "add"} /\ desired \in {"foreground", "background"}
  /\ upc \in {"idle", "gcwait", "swapin", "fgrequest", "bgrequest", "bgpend", "bgadd",
            "bgset"}
  /\ swap \in {"new", "pidset", "enabled", "failed"}
  /\ sweeps \in 0..MarkSweeps /\ mishap \in {"none", "delayed", "reset"}

Kinds == {"write", "gc", "transition"}

(* A task added at the end of due.                                         *)
LEMMA AddNowFacts ==
  ASSUME TypeOK, NEW k \in Kinds, AddNow(k)
  PROVE  /\ due' \in Seq(Kinds)
         /\ DOMAIN due = 1..Len(due) /\ DOMAIN due' = 1..(Len(due) + 1) /\ Len(due) \in Nat
         /\ \A i \in DOMAIN due : due'[i] = due[i]
         /\ due'[Len(due) + 1] = k
PROOF
  BY DEF TypeOK, Kinds, AddNow

(* The first task taken from due.                                          *)
LEMMA TailFacts ==
  ASSUME TypeOK, due # << >>, due' = Tail(due)
  PROVE  /\ due' \in Seq(Kinds) /\ Head(due) \in Kinds
         /\ DOMAIN due = 1..Len(due) /\ DOMAIN due' = 1..(Len(due) - 1) /\ Len(due) \in Nat \ {0}
         /\ Head(due) = due[1]
         /\ \A i \in DOMAIN due' : due'[i] = due[i + 1]
PROOF
  BY DEF TypeOK, Kinds

(* A task taken out of the middle of due.                                  *)
LEMMA RemoveFacts ==
  ASSUME TypeOK, NEW i \in DOMAIN due,
         due' = Without(i)
  PROVE  /\ due' \in Seq(Kinds)
         /\ DOMAIN due = 1..Len(due) /\ DOMAIN due' = 1..(Len(due) - 1) /\ Len(due) \in Nat \ {0}
         /\ i \in 1..Len(due)
         /\ \A j \in DOMAIN due' : due'[j] = IF j < i THEN due[j] ELSE due[j + 1]
PROOF
<1>1. due \in Seq(Kinds) /\ DOMAIN due = 1..Len(due) /\ Len(due) \in Nat \ {0}
      /\ i \in 1..Len(due)
  BY DEF TypeOK, Kinds
<1> DEFINE from(j) == IF j < i THEN j ELSE j + 1
           n == Len(due) - 1
<1>2. n \in Nat /\ \A j \in 1..n : from(j) \in 1..Len(due)
  BY <1>1
<1>3. due' = [j \in 1..n |-> due[from(j)]]
  BY DEF Without
<1> HIDE DEF from, n
<1>4. \A j \in 1..n : due[from(j)] \in Kinds
  BY <1>1, <1>2
<1>5. due' \in Seq(Kinds) /\ DOMAIN due' = 1..n
  BY <1>2, <1>3, <1>4
<1>6. \A j \in 1..n : due'[j] = due[from(j)]
  BY <1>3
<1> QED
  BY <1>1, <1>5, <1>6 DEF from, n

(* What is due after a task is added.                                      *)
LEMMA AddNowDue ==
  ASSUME TypeOK, NEW k \in Kinds, AddNow(k)
  PROVE  /\ IsDue(k)' /\ \A m : m # k => (IsDue(m)' <=> IsDue(m))
         /\ GcFirst => GcFirst'
         /\ OneWriteDue /\ (k = "write" => ~IsDue("write")) => OneWriteDue'
PROOF
<1>1. /\ DOMAIN due = 1..Len(due) /\ DOMAIN due' = 1..(Len(due) + 1) /\ Len(due) \in Nat
      /\ \A i \in DOMAIN due : due'[i] = due[i]
      /\ due'[Len(due) + 1] = k
  BY AddNowFacts
<1>2. IsDue(k)' /\ \A m : m # k => (IsDue(m)' <=> IsDue(m))
  BY <1>1 DEF IsDue
<1>3. GcFirst => GcFirst'
  BY <1>1 DEF GcFirst
<1>4. OneWriteDue /\ (k = "write" => ~IsDue("write")) => OneWriteDue'
  BY <1>1 DEF OneWriteDue, IsDue
<1> QED
  BY <1>2, <1>3, <1>4

(* What is due after the first task is taken.                              *)
LEMMA TailDue ==
  ASSUME TypeOK, due # << >>, due' = Tail(due)
  PROVE  /\ \A m : IsDue(m)' => IsDue(m)
         /\ \A m : IsDue(m) /\ m # Head(due) => IsDue(m)'
         /\ IsDue(Head(due))
         /\ GcFirst => Head(due) # "write"
         /\ GcFirst /\ Head(due) # "gc" => GcFirst'
         /\ OneWriteDue => OneWriteDue'
         /\ OneWriteDue /\ Head(due) = "write" => ~IsDue("write")'
PROOF
<1>1. /\ DOMAIN due = 1..Len(due) /\ DOMAIN due' = 1..(Len(due) - 1) /\ Len(due) \in Nat \ {0}
      /\ Head(due) = due[1]
      /\ \A i \in DOMAIN due' : due'[i] = due[i + 1]
  BY TailFacts
<1> DEFINE h == Head(due)
<1> HIDE DEF h
<1>2. h = due[1]
  BY <1>1 DEF h
<1>3. \A i \in 2..Len(due) : i - 1 \in DOMAIN due' /\ due'[i - 1] = due[i]
  BY <1>1
<1>4. ASSUME NEW m PROVE (IsDue(m)' => IsDue(m)) /\ (IsDue(m) /\ m # h => IsDue(m)')
  <2>1. ASSUME IsDue(m)' PROVE IsDue(m)
    <3>1. PICK i \in DOMAIN due' : due'[i] = m
      BY <2>1 DEF IsDue
    <3>2. i + 1 \in DOMAIN due /\ due[i + 1] = m
      BY <1>1, <3>1
    <3> QED
      BY <3>2 DEF IsDue
  <2>2. ASSUME IsDue(m), m # h PROVE IsDue(m)'
    <3>1. PICK i \in DOMAIN due : due[i] = m
      BY <2>2 DEF IsDue
    <3>2. i \in 2..Len(due)
      BY <1>1, <1>2, <2>2, <3>1
    <3> QED
      BY <1>3, <3>1, <3>2 DEF IsDue
  <2> QED
    BY <2>1, <2>2
<1>5. IsDue(h) /\ (GcFirst => h # "write")
  BY <1>1, <1>2 DEF IsDue, GcFirst
<1>6. ASSUME GcFirst, h # "gc" PROVE GcFirst'
  <2>1. PICK i \in DOMAIN due :
          due[i] = "gc" /\ \A j \in DOMAIN due : due[j] = "write" => i < j
    BY <1>6 DEF GcFirst
  <2>2. i \in 2..Len(due)
    BY <1>1, <1>2, <1>6, <2>1
  <2>3. i - 1 \in DOMAIN due' /\ due'[i - 1] = "gc"
    BY <1>3, <2>1, <2>2
  <2>4. ASSUME NEW j \in DOMAIN due', due'[j] = "write" PROVE i - 1 < j
    <3>1. j + 1 \in DOMAIN due /\ due[j + 1] = "write"
      BY <1>1, <2>4
    <3> QED
      BY <1>1, <2>1, <2>2, <3>1
  <2> QED
    BY <2>3, <2>4 DEF GcFirst
<1>7. OneWriteDue => OneWriteDue'
  BY <1>1 DEF OneWriteDue
<1>8. OneWriteDue /\ h = "write" => ~IsDue("write")'
  BY <1>1, <1>2 DEF OneWriteDue, IsDue
<1> QED
  BY <1>4, <1>5, <1>6, <1>7, <1>8 DEF h

(* What is due after a transition task is taken out.                       *)
LEMMA RemoveDue ==
  ASSUME NEW n \in Nat \ {0}, NEW i \in 1..n, due[i] = "transition",
         DOMAIN due = 1..n, DOMAIN due' = 1..(n - 1),
         \A j \in DOMAIN due' : due'[j] = IF j < i THEN due[j] ELSE due[j + 1]
  PROVE  /\ \A m \in {"write", "gc"} : IsDue(m)' <=> IsDue(m)
         /\ GcFirst => GcFirst'
         /\ OneWriteDue => OneWriteDue'
PROOF
<1> DEFINE Old(j) == IF j < i THEN j ELSE j + 1
           New(p) == IF p < i THEN p ELSE p - 1
<1>2. \A j \in DOMAIN due' : Old(j) \in DOMAIN due /\ due'[j] = due[Old(j)]
  OBVIOUS
<1>3. \A p \in DOMAIN due : p # i => New(p) \in DOMAIN due' /\ Old(New(p)) = p
  OBVIOUS
<1>4. \A j, k \in DOMAIN due' : Old(j) = Old(k) => j = k
  OBVIOUS
<1>5. \A p \in DOMAIN due : \A j \in DOMAIN due' : p # i /\ p < Old(j) => New(p) < j
  OBVIOUS
<1> HIDE DEF Old, New
<1>6. ASSUME NEW m \in {"write", "gc"} PROVE IsDue(m)' <=> IsDue(m)
  BY <1>2, <1>3 DEF IsDue
<1>7. ASSUME OneWriteDue PROVE OneWriteDue'
  BY <1>2, <1>4, <1>7 DEF OneWriteDue
<1>8. ASSUME GcFirst PROVE GcFirst'
  <2>1. PICK p \in DOMAIN due :
          due[p] = "gc" /\ \A j \in DOMAIN due : due[j] = "write" => p < j
    BY <1>8 DEF GcFirst
  <2>2. p # i /\ New(p) \in DOMAIN due' /\ due'[New(p)] = "gc"
    BY <1>2, <1>3, <2>1
  <2>3. ASSUME NEW j \in DOMAIN due', due'[j] = "write" PROVE New(p) < j
    BY <1>2, <1>5, <2>1, <2>2, <2>3
  <2> QED
    BY <2>2, <2>3 DEF GcFirst
<1> QED
  BY <1>6, <1>7, <1>8

-----------------------------------------------------------------------------
(* Every step keeps the invariant.                                         *)
LEMMA NextStep ==
  ASSUME IInv, Next
  PROVE  IInv'
PROOF
<1> USE MarkSweepsAssumption DEF HeapSteps, taskVars, gcVars, processVars, swapVars, countVars,
  Collecting, IsShuttingDown, CanAddHeapTask, IsRunning
<1>1. CASE Start
  <2>1. TypeOK'
    BY <1>1 DEF IInv, TypeOK, LimitInv, Start
  <2>2. WriteInv' /\ RequestInv'
    BY <1>1 DEF IInv, TypeOK, WriteInv, RequestInv, Writing, IsDue, OneWriteDue, Start
  <2>3. CountInv' /\ CompactInv' /\ LimitInv'
    BY <1>1 DEF IInv, TypeOK, WriteInv, RequestInv, CountInv, CompactInv, LimitInv, Writing, IsDue,
       OneWriteDue, GcFirst, Start
  <2> QED
    BY <2>1, <2>2, <2>3 DEF IInv
<1>2. CASE Stop
  <2>1. TypeOK'
    BY <1>2 DEF IInv, TypeOK, LimitInv, Stop
  <2>2. WriteInv' /\ RequestInv'
    BY <1>2 DEF IInv, TypeOK, WriteInv, RequestInv, Writing, IsDue, OneWriteDue, Stop
  <2>3. CountInv' /\ CompactInv' /\ LimitInv'
    BY <1>2 DEF IInv, TypeOK, WriteInv, RequestInv, CountInv, CompactInv, LimitInv, Writing, IsDue,
       OneWriteDue, GcFirst, Stop
  <2> QED
    BY <2>1, <2>2, <2>3 DEF IInv
<1>3. CASE BeginInit
  <2>1. TypeOK'
    BY <1>3 DEF IInv, TypeOK, LimitInv, BeginInit
  <2>2. WriteInv' /\ RequestInv'
    BY <1>3 DEF IInv, TypeOK, WriteInv, RequestInv, Writing, IsDue, OneWriteDue, BeginInit
  <2>3. CountInv' /\ CompactInv' /\ LimitInv'
    BY <1>3 DEF IInv, TypeOK, WriteInv, RequestInv, CountInv, CompactInv, LimitInv, Writing, IsDue,
       OneWriteDue, GcFirst, BeginInit
  <2> QED
    BY <2>1, <2>2, <2>3 DEF IInv
<1>4. CASE InitFails
  <2>1. TypeOK'
    BY <1>4 DEF IInv, TypeOK, LimitInv, InitFails
  <2>2. WriteInv' /\ RequestInv'
    BY <1>4 DEF IInv, TypeOK, WriteInv, RequestInv, Writing, IsDue, OneWriteDue, InitFails
  <2>3. CountInv' /\ CompactInv' /\ LimitInv'
    BY <1>4 DEF IInv, TypeOK, WriteInv, RequestInv, CountInv, CompactInv, LimitInv, Writing, IsDue,
       OneWriteDue, GcFirst, InitFails
  <2> QED
    BY <2>1, <2>2, <2>3 DEF IInv
<1>5. CASE EndInit
  <2>1. TypeOK'
    BY <1>5 DEF IInv, TypeOK, LimitInv, EndInit, AddLater
  <2>2. WriteInv' /\ RequestInv'
    BY <1>5 DEF IInv, TypeOK, WriteInv, RequestInv, Writing, IsDue, OneWriteDue, EndInit,
       AddLater
  <2>3. CountInv' /\ CompactInv' /\ LimitInv'
    BY <1>5 DEF IInv, TypeOK, WriteInv, RequestInv, CountInv, CompactInv, LimitInv, Writing, IsDue,
       OneWriteDue, GcFirst, EndInit, AddLater
  <2> QED
    BY <2>1, <2>2, <2>3 DEF IInv
<1>6. CASE RunWriteTask
  <2>1. TypeOK'
    <3>1. FlagsOK'
      BY <1>6 DEF IInv, TypeOK, FlagsOK, RunWriteTask
    <3>2. OthersOK'
      BY <1>6 DEF IInv, TypeOK, OthersOK, RunWriteTask
    <3> QED
      BY <3>1, <3>2 DEF FlagsOK, OthersOK, TypeOK
  <2>2. WriteInv' /\ RequestInv'
    BY <1>6 DEF IInv, TypeOK, WriteInv, RequestInv, Writing, IsDue, OneWriteDue,
       RunWriteTask
  <2>3. CountInv' /\ CompactInv' /\ LimitInv'
    BY <1>6 DEF IInv, TypeOK, WriteInv, RequestInv, CountInv, CompactInv, LimitInv, Writing, IsDue,
       OneWriteDue, GcFirst, RunWriteTask
  <2> QED
    BY <2>1, <2>2, <2>3 DEF IInv
<1>7. CASE ScheduleNextTask
  <2>1. TypeOK'
    BY <1>7 DEF IInv, TypeOK, LimitInv, ScheduleNextTask
  <2>2. WriteInv' /\ RequestInv'
    BY <1>7 DEF IInv, TypeOK, WriteInv, RequestInv, Writing, IsDue, OneWriteDue,
       ScheduleNextTask
  <2>3. CountInv' /\ CompactInv' /\ LimitInv'
    BY <1>7 DEF IInv, TypeOK, WriteInv, RequestInv, CountInv, CompactInv, LimitInv, Writing, IsDue,
       OneWriteDue, GcFirst, ScheduleNextTask
  <2> QED
    BY <2>1, <2>2, <2>3 DEF IInv
<1>8. CASE ReadForeground
  <2>1. TypeOK'
    BY <1>8 DEF IInv, TypeOK, LimitInv, ReadForeground
  <2>2. WriteInv' /\ RequestInv'
    BY <1>8 DEF IInv, TypeOK, WriteInv, RequestInv, Writing, IsDue, OneWriteDue,
       ReadForeground
  <2>3. CountInv' /\ CompactInv' /\ LimitInv'
    BY <1>8 DEF IInv, TypeOK, WriteInv, RequestInv, CountInv, CompactInv, LimitInv, Writing, IsDue,
       OneWriteDue, GcFirst, ReadForeground
  <2> QED
    BY <2>1, <2>2, <2>3 DEF IInv
<1>9. CASE CompareCounter
  <2>1. TypeOK'
    BY <1>9 DEF IInv, TypeOK, LimitInv, CompareCounter
  <2>2. WriteInv' /\ RequestInv'
    BY <1>9 DEF IInv, TypeOK, WriteInv, RequestInv, Writing, IsDue, OneWriteDue,
       CompareCounter
  <2>3. CountInv' /\ CompactInv' /\ LimitInv'
    BY <1>9 DEF IInv, TypeOK, WriteInv, RequestInv, CountInv, CompactInv, LimitInv, Writing, IsDue,
       OneWriteDue, GcFirst, CompareCounter
  <2> QED
    BY <2>1, <2>2, <2>3 DEF IInv
<1>10. CASE LoadCounter
  <2>1. TypeOK'
    BY <1>10 DEF IInv, TypeOK, LimitInv, LoadCounter
  <2>2. WriteInv' /\ RequestInv'
    BY <1>10 DEF IInv, TypeOK, WriteInv, RequestInv, Writing, IsDue, OneWriteDue,
       LoadCounter
  <2>3. CountInv' /\ CompactInv' /\ LimitInv'
    BY <1>10 DEF IInv, TypeOK, WriteInv, RequestInv, CountInv, CompactInv, LimitInv, Writing, IsDue,
       OneWriteDue, GcFirst, LoadCounter
  <2> QED
    BY <2>1, <2>2, <2>3 DEF IInv
<1>11. CASE StoreCounter
  <2>1. TypeOK'
    BY <1>11 DEF IInv, TypeOK, LimitInv, StoreCounter
  <2>2. WriteInv' /\ RequestInv'
    BY <1>11 DEF IInv, TypeOK, WriteInv, RequestInv, Writing, IsDue, OneWriteDue,
       StoreCounter
  <2>3. CountInv' /\ CompactInv' /\ LimitInv'
    BY <1>11 DEF IInv, TypeOK, WriteInv, RequestInv, CountInv, CompactInv, LimitInv, Writing, IsDue,
       OneWriteDue, GcFirst, StoreCounter
  <2> QED
    BY <2>1, <2>2, <2>3 DEF IInv
<1>12. CASE ZeroCounter
  <2>1. TypeOK'
    BY <1>12 DEF IInv, TypeOK, LimitInv, ZeroCounter
  <2>2. WriteInv' /\ RequestInv'
    BY <1>12 DEF IInv, TypeOK, WriteInv, RequestInv, Writing, IsDue, OneWriteDue,
       ZeroCounter
  <2>3. CountInv' /\ CompactInv' /\ LimitInv'
    BY <1>12 DEF IInv, TypeOK, WriteInv, RequestInv, CountInv, CompactInv, LimitInv, Writing, IsDue,
       OneWriteDue, GcFirst, ZeroCounter
  <2> QED
    BY <2>1, <2>2, <2>3 DEF IInv
<1>13. CASE AddNextWriteTask
  <2>1. TypeOK'
    BY <1>13 DEF IInv, TypeOK, LimitInv, AddNextWriteTask, AddLater
  <2>2. WriteInv' /\ RequestInv'
    BY <1>13 DEF IInv, TypeOK, WriteInv, RequestInv, Writing, IsDue, OneWriteDue,
       AddNextWriteTask, AddLater
  <2>3. CountInv' /\ CompactInv' /\ LimitInv'
    BY <1>13 DEF IInv, TypeOK, WriteInv, RequestInv, CountInv, CompactInv, LimitInv, Writing, IsDue,
       OneWriteDue, GcFirst, AddNextWriteTask, AddLater
  <2> QED
    BY <2>1, <2>2, <2>3 DEF IInv
<1>14. CASE StartGC
  <2>1. TypeOK'
    BY <1>14 DEF IInv, TypeOK, LimitInv, StartGC
  <2>2. WriteInv' /\ RequestInv'
    BY <1>14 DEF IInv, TypeOK, WriteInv, RequestInv, Writing, IsDue, OneWriteDue, StartGC
  <2>3. CountInv' /\ CompactInv' /\ LimitInv'
    BY <1>14 DEF IInv, TypeOK, WriteInv, RequestInv, CountInv, CompactInv, LimitInv, Writing, IsDue,
       OneWriteDue, GcFirst, StartGC
  <2> QED
    BY <2>1, <2>2, <2>3 DEF IInv
<1>15. CASE FinishGC
  <2>1. TypeOK'
    BY <1>15 DEF IInv, TypeOK, LimitInv, FinishGC
  <2>2. WriteInv' /\ RequestInv'
    BY <1>15 DEF IInv, TypeOK, WriteInv, RequestInv, Writing, IsDue, OneWriteDue, FinishGC
  <2>3. CountInv' /\ CompactInv' /\ LimitInv'
    BY <1>15 DEF IInv, TypeOK, WriteInv, RequestInv, CountInv, CompactInv, LimitInv, Writing, IsDue,
       OneWriteDue, GcFirst, FinishGC
  <2> QED
    BY <2>1, <2>2, <2>3 DEF IInv
<1>16. CASE ClearConcurrentGCRequest
  <2>1. TypeOK'
    <3>1. FlagsOK'
      BY <1>16 DEF IInv, TypeOK, FlagsOK, ClearConcurrentGCRequest
    <3>2. OthersOK'
      BY <1>16 DEF IInv, TypeOK, OthersOK, ClearConcurrentGCRequest
    <3> QED
      BY <3>1, <3>2 DEF FlagsOK, OthersOK, TypeOK
  <2>2. WriteInv' /\ RequestInv'
    BY <1>16 DEF IInv, TypeOK, WriteInv, RequestInv, Writing, IsDue, OneWriteDue,
       ClearConcurrentGCRequest
  <2>3. CountInv' /\ CompactInv' /\ LimitInv'
    BY <1>16 DEF IInv, TypeOK, WriteInv, RequestInv, CountInv, CompactInv, LimitInv, Writing, IsDue,
       OneWriteDue, GcFirst, ClearConcurrentGCRequest
  <2> QED
    BY <2>1, <2>2, <2>3 DEF IInv
<1>17. CASE DoPendingCollectorTransition
  <2>1. TypeOK'
    BY <1>17 DEF IInv, TypeOK, LimitInv, DoPendingCollectorTransition
  <2>2. WriteInv' /\ RequestInv'
    BY <1>17 DEF IInv, TypeOK, WriteInv, RequestInv, Writing, IsDue, OneWriteDue,
       DoPendingCollectorTransition
  <2>3. CountInv' /\ CompactInv' /\ LimitInv'
    BY <1>17 DEF IInv, TypeOK, WriteInv, RequestInv, CountInv, CompactInv, LimitInv, Writing, IsDue,
       OneWriteDue, GcFirst, DoPendingCollectorTransition
  <2> QED
    BY <2>1, <2>2, <2>3 DEF IInv
<1>18. CASE ClearPendingCollectorTransition
  <2>1. TypeOK'
    <3>1. FlagsOK'
      BY <1>18 DEF IInv, TypeOK, FlagsOK, ClearPendingCollectorTransition
    <3>2. OthersOK'
      BY <1>18 DEF IInv, TypeOK, OthersOK, ClearPendingCollectorTransition
    <3> QED
      BY <3>1, <3>2 DEF FlagsOK, OthersOK, TypeOK
  <2>2. WriteInv' /\ RequestInv'
    BY <1>18 DEF IInv, TypeOK, WriteInv, RequestInv, Writing, IsDue, OneWriteDue,
       ClearPendingCollectorTransition
  <2>3. CountInv' /\ CompactInv' /\ LimitInv'
    BY <1>18 DEF IInv, TypeOK, WriteInv, RequestInv, CountInv, CompactInv, LimitInv, Writing, IsDue,
       OneWriteDue, GcFirst, ClearPendingCollectorTransition
  <2> QED
    BY <2>1, <2>2, <2>3 DEF IInv
<1>19. CASE AppRequest
  <2>1. TypeOK'
    BY <1>19 DEF IInv, TypeOK, LimitInv, AppRequest
  <2>2. WriteInv' /\ RequestInv'
    BY <1>19 DEF IInv, TypeOK, WriteInv, RequestInv, Writing, IsDue, OneWriteDue,
       AppRequest
  <2>3. CountInv' /\ CompactInv' /\ LimitInv'
    BY <1>19 DEF IInv, TypeOK, WriteInv, RequestInv, CountInv, CompactInv, LimitInv, Writing, IsDue,
       OneWriteDue, GcFirst, AppRequest
  <2> QED
    BY <2>1, <2>2, <2>3 DEF IInv
<1>20. CASE ToForeground
  <2>1. TypeOK'
    BY <1>20 DEF IInv, TypeOK, LimitInv, ToForeground
  <2>2. WriteInv' /\ RequestInv'
    BY <1>20 DEF IInv, TypeOK, WriteInv, RequestInv, Writing, IsDue, OneWriteDue,
       ToForeground
  <2>3. CountInv' /\ CompactInv' /\ LimitInv'
    BY <1>20 DEF IInv, TypeOK, WriteInv, RequestInv, CountInv, CompactInv, LimitInv, Writing, IsDue,
       OneWriteDue, GcFirst, ToForeground
  <2> QED
    BY <2>1, <2>2, <2>3 DEF IInv
<1>21. CASE SetInForeground
  <2>1. TypeOK'
    BY <1>21 DEF IInv, TypeOK, LimitInv, SetInForeground
  <2>2. WriteInv' /\ RequestInv'
    BY <1>21 DEF IInv, TypeOK, WriteInv, RequestInv, Writing, IsDue, OneWriteDue,
       SetInForeground
  <2>3. CountInv' /\ CompactInv' /\ LimitInv'
    BY <1>21 DEF IInv, TypeOK, WriteInv, RequestInv, CountInv, CompactInv, LimitInv, Writing, IsDue,
       OneWriteDue, GcFirst, SetInForeground
  <2> QED
    BY <2>1, <2>2, <2>3 DEF IInv
<1>22. CASE ResetCounter
  <2>1. TypeOK'
    BY <1>22 DEF IInv, TypeOK, LimitInv, ResetCounter, MishapIf, Counting
  <2>2. WriteInv' /\ RequestInv'
    BY <1>22 DEF IInv, TypeOK, WriteInv, RequestInv, Writing, IsDue, OneWriteDue,
       ResetCounter, MishapIf, Counting
  <2>3. CountInv' /\ CompactInv' /\ LimitInv'
    BY <1>22 DEF IInv, TypeOK, WriteInv, RequestInv, CountInv, CompactInv, LimitInv, Writing, IsDue,
       OneWriteDue, GcFirst, ResetCounter, MishapIf, Counting
  <2> QED
    BY <2>1, <2>2, <2>3 DEF IInv
<1>23. CASE RequestForeground
  <2>1. TypeOK'
    BY <1>23 DEF IInv, TypeOK, LimitInv, RequestForeground
  <2>2. WriteInv' /\ RequestInv'
    BY <1>23 DEF IInv, TypeOK, WriteInv, RequestInv, Writing, IsDue, OneWriteDue,
       RequestForeground
  <2>3. CountInv' /\ CompactInv' /\ LimitInv'
    BY <1>23 DEF IInv, TypeOK, WriteInv, RequestInv, CountInv, CompactInv, LimitInv, Writing, IsDue,
       OneWriteDue, GcFirst, RequestForeground
  <2> QED
    BY <2>1, <2>2, <2>3 DEF IInv
<1>24. CASE ToBackground
  <2>1. TypeOK'
    <3>1. FlagsOK'
      BY <1>24 DEF IInv, TypeOK, FlagsOK, ToBackground
    <3>2. OthersOK'
      BY <1>24 DEF IInv, TypeOK, OthersOK, ToBackground
    <3> QED
      BY <3>1, <3>2 DEF FlagsOK, OthersOK, TypeOK
  <2>2. WriteInv' /\ RequestInv'
    BY <1>24 DEF IInv, TypeOK, WriteInv, RequestInv, Writing, IsDue, OneWriteDue,
       ToBackground
  <2>3. CountInv' /\ CompactInv' /\ LimitInv'
    BY <1>24 DEF IInv, TypeOK, WriteInv, RequestInv, CountInv, CompactInv, LimitInv, Writing, IsDue,
       OneWriteDue, GcFirst, ToBackground
  <2> QED
    BY <2>1, <2>2, <2>3 DEF IInv
<1>25. CASE AddTransition
  <2>1. TypeOK'
    BY <1>25 DEF IInv, TypeOK, LimitInv, AddTransition, AddLater
  <2>2. WriteInv' /\ RequestInv'
    BY <1>25 DEF IInv, TypeOK, WriteInv, RequestInv, Writing, IsDue, OneWriteDue,
       AddTransition, AddLater
  <2>3. CountInv' /\ CompactInv' /\ LimitInv'
    BY <1>25 DEF IInv, TypeOK, WriteInv, RequestInv, CountInv, CompactInv, LimitInv, Writing, IsDue,
       OneWriteDue, GcFirst, AddTransition, AddLater
  <2> QED
    BY <2>1, <2>2, <2>3 DEF IInv
<1>26. CASE SetInBackground
  <2>1. TypeOK'
    <3>1. FlagsOK'
      BY <1>26 DEF IInv, TypeOK, FlagsOK, SetInBackground
    <3>2. OthersOK'
      BY <1>26 DEF IInv, TypeOK, OthersOK, SetInBackground
    <3> QED
      BY <3>1, <3>2 DEF FlagsOK, OthersOK, TypeOK
  <2>2. WriteInv' /\ RequestInv'
    BY <1>26 DEF IInv, TypeOK, WriteInv, RequestInv, Writing, IsDue, OneWriteDue,
       SetInBackground
  <2>3. CountInv' /\ CompactInv' /\ LimitInv'
    BY <1>26 DEF IInv, TypeOK, WriteInv, RequestInv, CountInv, CompactInv, LimitInv, Writing, IsDue,
       OneWriteDue, GcFirst, SetInBackground
  <2> QED
    BY <2>1, <2>2, <2>3 DEF IInv
<1>27. ASSUME NEW k \in DOMAIN waiting, GetTaskAtOnce(k) PROVE IInv'
  <2>1. TypeOK'
    BY <1>27 DEF IInv, TypeOK, LimitInv, GetTaskAtOnce, FirstStep
  <2>2. WriteInv' /\ RequestInv'
    BY <1>27 DEF IInv, TypeOK, WriteInv, RequestInv, Writing, IsDue, OneWriteDue,
       GetTaskAtOnce, FirstStep
  <2>3. CountInv' /\ CompactInv' /\ LimitInv'
    BY <1>27 DEF IInv, TypeOK, WriteInv, RequestInv, CountInv, CompactInv, LimitInv, Writing, IsDue,
       OneWriteDue, GcFirst, GetTaskAtOnce, FirstStep
  <2> QED
    BY <2>1, <2>2, <2>3 DEF IInv
<1>28. CASE StartCompaction("compactwait", "compact", "zero")
  <2>1. TypeOK'
    BY <1>28 DEF IInv, TypeOK, LimitInv, StartCompaction
  <2>2. WriteInv' /\ RequestInv'
    BY <1>28 DEF IInv, TypeOK, WriteInv, RequestInv, Writing, IsDue, OneWriteDue,
       StartCompaction
  <2>3. CountInv' /\ CompactInv' /\ LimitInv'
    BY <1>28 DEF IInv, TypeOK, WriteInv, RequestInv, CountInv, CompactInv, LimitInv, Writing, IsDue,
       OneWriteDue, GcFirst, StartCompaction
  <2> QED
    BY <2>1, <2>2, <2>3 DEF IInv
<1>29. CASE FinishCompaction("compact", "zero")
  <2>1. TypeOK'
    BY <1>29 DEF IInv, TypeOK, LimitInv, FinishCompaction
  <2>2. WriteInv' /\ RequestInv'
    BY <1>29 DEF IInv, TypeOK, WriteInv, RequestInv, Writing, IsDue, OneWriteDue,
       FinishCompaction
  <2>3. CountInv' /\ CompactInv' /\ LimitInv'
    BY <1>29 DEF IInv, TypeOK, WriteInv, RequestInv, CountInv, CompactInv, LimitInv, Writing, IsDue,
       OneWriteDue, GcFirst, FinishCompaction
  <2> QED
    BY <2>1, <2>2, <2>3 DEF IInv
<1>30. CASE StartCompaction("transwait", "transcompact", "transclear")
  <2>1. TypeOK'
    BY <1>30 DEF IInv, TypeOK, LimitInv, StartCompaction
  <2>2. WriteInv' /\ RequestInv'
    BY <1>30 DEF IInv, TypeOK, WriteInv, RequestInv, Writing, IsDue, OneWriteDue,
       StartCompaction
  <2>3. CountInv' /\ CompactInv' /\ LimitInv'
    BY <1>30 DEF IInv, TypeOK, WriteInv, RequestInv, CountInv, CompactInv, LimitInv, Writing, IsDue,
       OneWriteDue, GcFirst, StartCompaction
  <2> QED
    BY <2>1, <2>2, <2>3 DEF IInv
<1>31. CASE FinishCompaction("transcompact", "transclear")
  <2>1. TypeOK'
    BY <1>31 DEF IInv, TypeOK, LimitInv, FinishCompaction
  <2>2. WriteInv' /\ RequestInv'
    BY <1>31 DEF IInv, TypeOK, WriteInv, RequestInv, Writing, IsDue, OneWriteDue,
       FinishCompaction
  <2>3. CountInv' /\ CompactInv' /\ LimitInv'
    BY <1>31 DEF IInv, TypeOK, WriteInv, RequestInv, CountInv, CompactInv, LimitInv, Writing, IsDue,
       OneWriteDue, GcFirst, FinishCompaction
  <2> QED
    BY <2>1, <2>2, <2>3 DEF IInv
<1>32. CASE RequestConcurrentGC("fgrequest", "add")
  <2> USE <1>32
  <2>1. CASE gcPending \/ ~CanAddHeapTask
    <3>1. TypeOK'
      BY <2>1 DEF IInv, TypeOK, Kinds, RequestConcurrentGC, MishapIf
    <3>2. WriteInv' /\ RequestInv'
      BY <2>1 DEF IInv, TypeOK, Kinds, WriteInv, RequestInv, Writing, IsDue, OneWriteDue,
         RequestConcurrentGC, MishapIf
    <3>3. CountInv' /\ CompactInv' /\ LimitInv'
      BY <2>1 DEF IInv, TypeOK, Kinds, WriteInv, RequestInv, CountInv, CompactInv, LimitInv, Writing,
         RequestConcurrentGC, MishapIf
    <3> QED
      BY <3>1, <3>2, <3>3 DEF IInv
  <2>2. CASE ~gcPending /\ CanAddHeapTask
    <3>1. TypeOK'
      BY <2>2, AddNowFacts, AddNowDue DEF IInv, TypeOK, Kinds, RequestConcurrentGC,
         MishapIf, AddNow
    <3>2. WriteInv' /\ RequestInv'
      BY <2>2, AddNowFacts, AddNowDue DEF IInv, TypeOK, Kinds, WriteInv, RequestInv,
         Writing, RequestConcurrentGC, MishapIf, AddNow
    <3>3. CountInv' /\ CompactInv' /\ LimitInv'
      BY <2>2, AddNowFacts, AddNowDue DEF IInv, TypeOK, Kinds, WriteInv, RequestInv,
         CountInv, CompactInv, LimitInv, Writing, RequestConcurrentGC, MishapIf, AddNow
    <3> QED
      BY <3>1, <3>2, <3>3 DEF IInv
  <2> QED
    BY <2>1, <2>2 DEF RequestConcurrentGC, IInv, TypeOK
<1>33. CASE RequestConcurrentGC("request", "load")
  <2> USE <1>33
  <2>1. CASE gcPending \/ ~CanAddHeapTask
    <3>1. TypeOK'
      BY <2>1 DEF IInv, TypeOK, Kinds, RequestConcurrentGC, MishapIf
    <3>2. WriteInv' /\ RequestInv'
      BY <2>1 DEF IInv, TypeOK, Kinds, WriteInv, RequestInv, Writing, IsDue, OneWriteDue,
         RequestConcurrentGC, MishapIf
    <3>3. CountInv' /\ CompactInv' /\ LimitInv'
      BY <2>1 DEF IInv, TypeOK, Kinds, WriteInv, RequestInv, CountInv, CompactInv, LimitInv, Writing,
         IsDue, OneWriteDue, GcFirst, RequestConcurrentGC, MishapIf
    <3> QED
      BY <3>1, <3>2, <3>3 DEF IInv
  <2>2. CASE ~gcPending /\ CanAddHeapTask
    <3>1. TypeOK'
      BY <2>2, AddNowFacts, AddNowDue DEF IInv, TypeOK, Kinds, RequestConcurrentGC,
         MishapIf, AddNow
    <3>2. WriteInv' /\ RequestInv'
      BY <2>2, AddNowFacts, AddNowDue DEF IInv, TypeOK, Kinds, WriteInv, RequestInv,
         Writing, RequestConcurrentGC, MishapIf, AddNow
    <3>3. CountInv' /\ CompactInv' /\ LimitInv'
      BY <2>2, AddNowFacts, AddNowDue DEF IInv, TypeOK, Kinds, WriteInv, RequestInv,
         CountInv, CompactInv, LimitInv, Writing, RequestConcurrentGC, MishapIf, AddNow
    <3> QED
      BY <3>1, <3>2, <3>3 DEF IInv
  <2> QED
    BY <2>1, <2>2 DEF RequestConcurrentGC, IInv, TypeOK
<1>34. CASE AppAddTask
  <2> USE <1>34
  <2>1. IInv'
    <3>1. TypeOK'
      BY AddNowFacts, AddNowDue DEF IInv, TypeOK, Kinds, AppAddTask, AddNow
    <3>2. WriteInv' /\ RequestInv'
      BY AddNowFacts, AddNowDue DEF IInv, TypeOK, Kinds, WriteInv, RequestInv, Writing,
         AppAddTask, AddNow
    <3>3. CountInv' /\ CompactInv' /\ LimitInv'
      BY AddNowFacts, AddNowDue DEF IInv, TypeOK, Kinds, WriteInv, RequestInv, CountInv,
         CompactInv, LimitInv, Writing, AppAddTask, AddNow
    <3> QED
      BY <3>1, <3>2, <3>3 DEF IInv
  <2> QED
    BY <2>1 DEF AppAddTask
<1>35. ASSUME NEW k \in DOMAIN waiting, TargetTimeComes(k) PROVE IInv'
  <2> USE <1>35
  <2>1. IInv'
    <3>1. TypeOK'
      BY AddNowFacts, AddNowDue DEF IInv, TypeOK, Kinds, TargetTimeComes, AddNow
    <3>2. WriteInv' /\ RequestInv'
      BY AddNowFacts, AddNowDue DEF IInv, TypeOK, Kinds, WriteInv, RequestInv, Writing,
         TargetTimeComes, AddNow
    <3>3. CountInv' /\ CompactInv' /\ LimitInv'
      BY AddNowFacts, AddNowDue DEF IInv, TypeOK, Kinds, WriteInv, RequestInv, CountInv,
         CompactInv, LimitInv, Writing, TargetTimeComes, AddNow
    <3> QED
      BY <3>1, <3>2, <3>3 DEF IInv
  <2> QED
    BY <2>1 DEF TargetTimeComes
<1>36. CASE GetTask
  <2> USE <1>36
  <2>1. CASE Head(due) = "write"
    <3>1. TypeOK'
      BY <2>1, TailFacts, TailDue DEF IInv, TypeOK, Kinds, GetTask, FirstStep
    <3>2. WriteInv' /\ RequestInv'
      BY <2>1, TailFacts, TailDue DEF IInv, TypeOK, Kinds, WriteInv, RequestInv, Writing,
         GetTask, FirstStep
    <3>3. CountInv' /\ CompactInv' /\ LimitInv'
      BY <2>1, TailFacts, TailDue DEF IInv, TypeOK, Kinds, WriteInv, RequestInv, CountInv,
         CompactInv, LimitInv, Writing, GetTask, FirstStep
    <3> QED
      BY <3>1, <3>2, <3>3 DEF IInv
  <2>2. CASE Head(due) = "gc"
    <3>1. TypeOK'
      BY <2>2, TailFacts, TailDue DEF IInv, TypeOK, Kinds, GetTask, FirstStep
    <3>2. WriteInv' /\ RequestInv'
      BY <2>2, TailFacts, TailDue DEF IInv, TypeOK, Kinds, WriteInv, RequestInv, Writing,
         GetTask, FirstStep
    <3>3. CountInv' /\ CompactInv' /\ LimitInv'
      BY <2>2, TailFacts, TailDue DEF IInv, TypeOK, Kinds, WriteInv, RequestInv, CountInv,
         CompactInv, LimitInv, Writing, GetTask, FirstStep
    <3> QED
      BY <3>1, <3>2, <3>3 DEF IInv
  <2>3. CASE Head(due) = "transition"
    <3>1. TypeOK'
      BY <2>3, TailFacts, TailDue DEF IInv, TypeOK, Kinds, GetTask, FirstStep
    <3>2. WriteInv' /\ RequestInv'
      BY <2>3, TailFacts, TailDue DEF IInv, TypeOK, Kinds, WriteInv, RequestInv, Writing,
         GetTask, FirstStep
    <3>3. CountInv' /\ CompactInv' /\ LimitInv'
      BY <2>3, TailFacts, TailDue DEF IInv, TypeOK, Kinds, WriteInv, RequestInv, CountInv,
         CompactInv, LimitInv, Writing, GetTask, FirstStep
    <3> QED
      BY <3>1, <3>2, <3>3 DEF IInv
  <2> QED
    BY <2>1, <2>2, <2>3 DEF GetTask, IInv, TypeOK
<1>37. CASE PendTransition
  <2> USE <1>37
  <2>1. /\ UNCHANGED <<processor, hpc, gcVars, jank, foreground, desired, swapVars, countVars>>
        /\ upc' \in {"bgset", "bgadd"}
        /\ transitionPending' \in BOOLEAN
    BY DEF IInv, TypeOK, PendTransition
  <2>2. CASE UNCHANGED <<due, waiting>>
    <3>1. TypeOK'
      BY <2>1, <2>2 DEF IInv, TypeOK
    <3>2. WriteInv' /\ RequestInv' /\ CountInv' /\ CompactInv' /\ LimitInv'
      BY <2>1, <2>2 DEF IInv, WriteInv, RequestInv, CountInv, CompactInv, LimitInv, Writing, IsDue,
         OneWriteDue, GcFirst
    <3> QED
      BY <3>1, <3>2 DEF IInv
  <2>3. CASE ~UNCHANGED <<due, waiting>>
    <3>1. PICK i \in DOMAIN due :
            /\ due[i] = "transition"
            /\ due' = Without(i)
            /\ waiting' = [waiting EXCEPT !["transition"] = @ + 1]
      BY <2>3 DEF PendTransition, UpdateTargetRunTime, AddLater
    <3>2. due' \in Seq(Kinds)
      BY <3>1, RemoveFacts DEF IInv
    <3>3. /\ IsDue("write")' <=> IsDue("write")
          /\ IsDue("gc")' <=> IsDue("gc")
          /\ GcFirst => GcFirst'
          /\ OneWriteDue => OneWriteDue'
      <4>1. /\ DOMAIN due = 1..Len(due) /\ DOMAIN due' = 1..(Len(due) - 1)
            /\ Len(due) \in Nat \ {0} /\ i \in 1..Len(due)
            /\ \A j \in DOMAIN due' : due'[j] = IF j < i THEN due[j] ELSE due[j + 1]
        BY <3>1, RemoveFacts DEF IInv
      <4> QED
        BY <3>1, <4>1, RemoveDue
    <3>4. waiting' \in [{"write", "transition"} -> Nat] /\ waiting'["write"] = waiting["write"]
      BY <3>1 DEF IInv, TypeOK
    <3>5. TypeOK'
      BY <2>1, <3>2, <3>4 DEF IInv, TypeOK, Kinds
    <3>6. WriteInv' /\ RequestInv' /\ CountInv' /\ CompactInv' /\ LimitInv'
      BY <2>1, <3>3, <3>4 DEF IInv, WriteInv, RequestInv, CountInv, CompactInv, LimitInv, Writing
    <3> QED
      BY <3>5, <3>6 DEF IInv
  <2> QED
    BY <2>2, <2>3
<1>38. CASE ShutDown
  <2>1. TypeOK'
    BY <1>38 DEF IInv, TypeOK, LimitInv, ShutDown
  <2>2. WriteInv' /\ RequestInv'
    BY <1>38 DEF IInv, TypeOK, WriteInv, RequestInv, Writing, IsDue, OneWriteDue,
       ShutDown
  <2>3. CountInv' /\ CompactInv' /\ LimitInv'
    BY <1>38 DEF IInv, TypeOK, WriteInv, RequestInv, CountInv, CompactInv, LimitInv,
       Writing, IsDue, OneWriteDue, GcFirst, ShutDown
  <2> QED
    BY <2>1, <2>2, <2>3 DEF IInv
<1>39. CASE RunAllTasksReturns
  <2>1. TypeOK'
    BY <1>39 DEF IInv, TypeOK, LimitInv, RunAllTasksReturns
  <2>2. WriteInv' /\ RequestInv'
    BY <1>39 DEF IInv, TypeOK, WriteInv, RequestInv, Writing, IsDue, OneWriteDue,
       RunAllTasksReturns
  <2>3. CountInv' /\ CompactInv' /\ LimitInv'
    BY <1>39 DEF IInv, TypeOK, WriteInv, RequestInv, CountInv, CompactInv, LimitInv,
       Writing, IsDue, OneWriteDue, GcFirst, RunAllTasksReturns
  <2> QED
    BY <2>1, <2>2, <2>3 DEF IInv
<1>40. CASE CheckShutdown
  <2>1. TypeOK'
    BY <1>40 DEF IInv, TypeOK, LimitInv, CheckShutdown
  <2>2. WriteInv' /\ RequestInv'
    BY <1>40 DEF IInv, TypeOK, WriteInv, RequestInv, Writing, IsDue, OneWriteDue,
       CheckShutdown
  <2>3. CountInv' /\ CompactInv' /\ LimitInv'
    BY <1>40 DEF IInv, TypeOK, WriteInv, RequestInv, CountInv, CompactInv, LimitInv,
       Writing, IsDue, OneWriteDue, GcFirst, CheckShutdown
  <2> QED
    BY <2>1, <2>2, <2>3 DEF IInv
<1>41. CASE AppCheck
  <2>1. TypeOK'
    BY <1>41 DEF IInv, TypeOK, LimitInv, AppCheck
  <2>2. WriteInv' /\ RequestInv'
    BY <1>41 DEF IInv, TypeOK, WriteInv, RequestInv, Writing, IsDue, OneWriteDue,
       AppCheck
  <2>3. CountInv' /\ CompactInv' /\ LimitInv'
    BY <1>41 DEF IInv, TypeOK, WriteInv, RequestInv, CountInv, CompactInv, LimitInv,
       Writing, IsDue, OneWriteDue, GcFirst, AppCheck
  <2> QED
    BY <2>1, <2>2, <2>3 DEF IInv
<1>42. CASE RequestBackground
  <2>1. TypeOK'
    BY <1>42 DEF IInv, TypeOK, LimitInv, RequestBackground
  <2>2. WriteInv' /\ RequestInv'
    BY <1>42 DEF IInv, TypeOK, WriteInv, RequestInv, Writing, IsDue, OneWriteDue,
       RequestBackground
  <2>3. CountInv' /\ CompactInv' /\ LimitInv'
    BY <1>42 DEF IInv, TypeOK, WriteInv, RequestInv, CountInv, CompactInv, LimitInv,
       Writing, IsDue, OneWriteDue, GcFirst, RequestBackground
  <2> QED
    BY <2>1, <2>2, <2>3 DEF IInv
<1> QED
  BY <1>1, <1>2, <1>3, <1>4, <1>5, <1>6, <1>7, <1>8, <1>9, <1>10, <1>11, <1>12, <1>13,
     <1>14, <1>15, <1>16, <1>17, <1>18, <1>19, <1>20, <1>21, <1>22, <1>23, <1>24, <1>25,
     <1>26, <1>27, <1>28, <1>29, <1>30, <1>31, <1>32, <1>33, <1>34, <1>35, <1>36, <1>37,
     <1>38, <1>39, <1>40, <1>41, <1>42
     DEF Next, HeapStep, UpdateStep
-----------------------------------------------------------------------------
(* Every reachable state satisfies the inductive invariant.                *)
THEOREM Invariance == Spec => []IInv
PROOF
<1>1. Init => IInv
  <2> SUFFICES ASSUME Init PROVE IInv
    OBVIOUS
  <2>1. TypeOK
    <3>1. FlagsOK
      BY DEF Init, FlagsOK
    <3>2. OthersOK
      BY MarkSweepsAssumption DEF Init, OthersOK, HeapSteps
    <3> QED
      BY <3>1, <3>2 DEF TypeOK, FlagsOK, OthersOK
  <2>2. WriteInv /\ RequestInv
    BY DEF Init, WriteInv, RequestInv, Writing, IsDue, OneWriteDue
  <2>3. CountInv /\ CompactInv /\ LimitInv
    BY DEF Init, CountInv, CompactInv, LimitInv, Collecting
  <2> QED
    BY <2>1, <2>2, <2>3 DEF IInv
<1>2. ASSUME IInv, [Next]_vars PROVE IInv'
  <2>1. CASE UNCHANGED vars
    BY <1>2, <2>1 DEF vars, taskVars, gcVars, processVars, swapVars, countVars, IInv,
       TypeOK,
       WriteInv, RequestInv, CountInv, CompactInv, LimitInv, Writing, IsDue, OneWriteDue,
       GcFirst, Collecting, IsShuttingDown
  <2> QED
    BY <1>2, <2>1, NextStep
<1> QED
  BY <1>1, <1>2, PTL DEF Spec

(* scheduleNextTask counts requests, but before it compacts the heap of a  *)
(* background app at least MarkSweeps collections have been made since the *)
(* counter was reset, for any MarkSweeps: each requested collection comes  *)
(* before the WriteTask's next turn.                                       *)
THEOREM Spaced == Spec => []CompactionsSpaced
PROOF
<1>1. IInv => CompactionsSpaced
  BY DEF IInv, CompactInv, CompactionsSpaced
<1> QED
  BY <1>1, Invariance, PTL

(* bgMarkSweepCounter stays within its bound, whatever the reset in        *)
(* SetInForeground races with.                                             *)
THEOREM CounterBounded == Spec => []TypeOK
PROOF
<1>1. IInv => TypeOK
  BY DEF IInv
<1> QED
  BY <1>1, Invariance, PTL

-----------------------------------------------------------------------------
(* No task is lost or doubled: the tasks of each kind are counted.         *)
Places(d, k) == {i \in DOMAIN d : d[i] = k}

LEMMA PlacesFinite ==
  ASSUME NEW d \in Seq(Kinds), NEW k
  PROVE  IsFiniteSet(Places(d, k)) /\ Cardinality(Places(d, k)) \in Nat
PROOF
<1>1. IsFiniteSet(1 .. Len(d)) /\ Places(d, k) \in SUBSET (1 .. Len(d))
  BY FS_Interval DEF Places
<1> QED
  BY <1>1, FS_Subset, FS_CardinalityType

LEMMA PlacesAppend ==
  ASSUME NEW d \in Seq(Kinds), NEW k \in Kinds, NEW m
  PROVE  Cardinality(Places(Append(d, k), m)) = Cardinality(Places(d, m)) + One(m = k)
PROOF
<1> DEFINE e == Append(d, k)
           n == Len(d) + 1
<1>1. /\ DOMAIN d = 1 .. Len(d) /\ DOMAIN e = 1 .. n /\ Len(d) \in Nat
      /\ e[n] = k /\ \A i \in 1 .. Len(d) : e[i] = d[i]
  OBVIOUS
<1> HIDE DEF e
<1>2. IsFiniteSet(Places(d, m)) /\ Cardinality(Places(d, m)) \in Nat
  BY PlacesFinite
<1>5. n \notin Places(d, m)
  BY <1>1 DEF Places
<1>3. CASE m = k
  <2>1. Places(e, m) = Places(d, m) \cup {n}
    BY <1>1, <1>3 DEF Places
  <2>2. Cardinality(Places(d, m) \cup {n}) = Cardinality(Places(d, m)) + 1
    BY <1>2, <1>5, FS_AddElement
  <2> QED
    BY <1>3, <2>1, <2>2 DEF One, e
<1>4. CASE m # k
  <2>1. Places(e, m) = Places(d, m)
    BY <1>1, <1>4 DEF Places
  <2> QED
    BY <1>2, <1>4, <2>1 DEF One, e
<1> QED
  BY <1>3, <1>4

(* e is d without its i-th element.                                        *)
LEMMA PlacesRemove ==
  ASSUME NEW d \in Seq(Kinds), NEW e \in Seq(Kinds), NEW i \in DOMAIN d, Len(e) = Len(d) - 1,
         \A j \in DOMAIN e : e[j] = IF j < i THEN d[j] ELSE d[j + 1], NEW m
  PROVE  Cardinality(Places(d, m)) = Cardinality(Places(e, m)) + One(m = d[i])
PROOF
<1> DEFINE rest == Places(d, m) \ {i}
           Old(j) == IF j < i THEN j ELSE j + 1
           New(p) == IF p < i THEN p ELSE p - 1
           f == [p \in rest |-> New(p)]
<1>1. DOMAIN d = 1 .. Len(d) /\ DOMAIN e = 1 .. Len(e) /\ Len(d) \in Nat /\ i \in 1 .. Len(d)
  OBVIOUS
<1>2. \A j \in DOMAIN e : Old(j) \in DOMAIN d /\ Old(j) # i /\ e[j] = d[Old(j)] /\ New(Old(j)) = j
  BY <1>1
<1>3. \A p \in DOMAIN d : p # i => New(p) \in DOMAIN e /\ Old(New(p)) = p
  BY <1>1
<1> HIDE DEF Old, New
<1>4. f \in [rest -> Places(e, m)]
  BY <1>2, <1>3 DEF Places
<1>5. \A p, q \in rest : f[p] = f[q] => p = q
  BY <1>3 DEF Places
<1>6. \A j \in Places(e, m) : \E p \in rest : f[p] = j
  BY <1>2 DEF Places
<1> HIDE DEF f
<1>7. ExistsBijection(rest, Places(e, m))
  <2>1. f \in Bijection(rest, Places(e, m))
    BY <1>4, <1>5, <1>6 DEF Bijection, Injection, Surjection, IsInjective
  <2> QED
    BY <2>1 DEF ExistsBijection
<1>8. IsFiniteSet(Places(d, m)) /\ Cardinality(Places(d, m)) \in Nat
  BY PlacesFinite
<1>9. IsFiniteSet(rest) /\ Cardinality(rest) =
        IF i \in Places(d, m) THEN Cardinality(Places(d, m)) - 1 ELSE Cardinality(Places(d, m))
  BY <1>8, FS_RemoveElement
<1>10. Cardinality(Places(e, m)) = Cardinality(rest)
  BY <1>7, <1>9, FS_Bijection
<1>11. i \in Places(d, m) <=> m = d[i]
  BY DEF Places
<1> QED
  BY <1>8, <1>9, <1>10, <1>11 DEF One

-----------------------------------------------------------------------------
(* Beside what TasksAccounted says: before swapping is enabled there is no *)
(* WriteTask, and it is enabled only once the task processor has started.  *)
TaskInv ==
  /\ TasksAccounted
  /\ swap # "enabled" => WriteTasks = 0
  /\ processor = "new" => swap = "new"

(* How many tasks of the kind m are due after a step.                      *)
CountsPlus(k)  == \A m \in Kinds : Count(m)' = Count(m) + One(m = k)
CountsMinus(k) == \A m \in Kinds : Count(m) = Count(m)' + One(m = k)

LEMMA CountsFacts ==
  ASSUME TypeOK
  PROVE  /\ \A m \in Kinds : Count(m) \in Nat
         /\ due' = due => \A m \in Kinds : Count(m)' = Count(m)
         /\ \A k \in Kinds : AddNow(k) => CountsPlus(k)
         /\ due # << >> /\ due' = Tail(due) => CountsMinus(Head(due))
         /\ \A i \in DOMAIN due : due' = Without(i) => CountsMinus(due[i])
PROOF
<1>1. due \in Seq(Kinds)
  BY DEF TypeOK, Kinds
<1>2. \A m : Count(m) = Cardinality(Places(due, m)) /\ Count(m)' = Cardinality(Places(due', m))
  BY DEF Count, Places
<1>3. \A m \in Kinds : Count(m) \in Nat
  BY <1>1, <1>2, PlacesFinite
<1>4. ASSUME NEW k \in Kinds, AddNow(k) PROVE CountsPlus(k)
  BY <1>1, <1>2, <1>4, PlacesAppend DEF CountsPlus, AddNow
<1>5. ASSUME due # << >>, due' = Tail(due) PROVE CountsMinus(Head(due))
  <2>1. /\ due' \in Seq(Kinds) /\ Len(due') = Len(due) - 1 /\ 1 \in DOMAIN due
        /\ Head(due) = due[1]
        /\ \A j \in DOMAIN due' : due'[j] = IF j < 1 THEN due[j] ELSE due[j + 1]
    BY <1>1, <1>5
  <2>2. \A m : Cardinality(Places(due, m)) = Cardinality(Places(due', m)) + One(m = due[1])
    BY <1>1, <2>1, PlacesRemove
  <2> QED
    BY <1>2, <2>1, <2>2 DEF CountsMinus
<1>6. ASSUME NEW i \in DOMAIN due, due' = Without(i) PROVE CountsMinus(due[i])
  <2>1. /\ due' \in Seq(Kinds) /\ DOMAIN due' = 1 .. (Len(due) - 1) /\ Len(due) \in Nat \ {0}
        /\ \A j \in DOMAIN due' : due'[j] = IF j < i THEN due[j] ELSE due[j + 1]
    BY <1>6, RemoveFacts
  <2>2. Len(due') = Len(due) - 1
    BY <2>1
  <2>3. \A m : Cardinality(Places(due, m)) = Cardinality(Places(due', m)) + One(m = due[i])
    BY <1>1, <2>1, <2>2, PlacesRemove
  <2> QED
    BY <1>2, <2>3 DEF CountsMinus
<1> QED
  BY <1>2, <1>3, <1>4, <1>5, <1>6

(* Every step keeps the count.                                             *)
LEMMA TaskStep ==
  ASSUME TypeOK, TaskInv, [Next]_vars
  PROVE  TaskInv'
PROOF
<1>a. /\ Count("write") \in Nat /\ Count("gc") \in Nat /\ Count("transition") \in Nat
      /\ waiting \in [{"write", "transition"} -> Nat]
      /\ waiting["write"] \in Nat /\ waiting["transition"] \in Nat
  BY CountsFacts DEF TypeOK, Kinds
<1>b. due' = due => /\ Count("write")' = Count("write") /\ Count("gc")' = Count("gc")
                    /\ Count("transition")' = Count("transition")
  BY CountsFacts DEF Kinds
<1> USE DEF TaskInv, TasksAccounted, WriteTasks, GcTasks, TransitionTasks, One,
  taskVars, gcVars, processVars, swapVars, countVars, IsRunning
<1>1. CASE Start
  BY <1>a, <1>b, <1>1 DEF Start
<1>2. CASE Stop
  BY <1>a, <1>b, <1>2 DEF Stop
<1>3. CASE BeginInit
  BY <1>a, <1>b, <1>3 DEF BeginInit
<1>4. CASE InitFails
  BY <1>a, <1>b, <1>4 DEF InitFails
<1>5. CASE RunWriteTask
  BY <1>a, <1>b, <1>5 DEF RunWriteTask
<1>6. CASE ScheduleNextTask
  BY <1>a, <1>b, <1>6 DEF ScheduleNextTask
<1>7. CASE ReadForeground
  BY <1>a, <1>b, <1>7 DEF ReadForeground
<1>8. CASE CompareCounter
  BY <1>a, <1>b, <1>8 DEF CompareCounter
<1>9. CASE LoadCounter
  BY <1>a, <1>b, <1>9 DEF LoadCounter
<1>10. CASE StoreCounter
  BY <1>a, <1>b, <1>10 DEF StoreCounter
<1>11. CASE ZeroCounter
  BY <1>a, <1>b, <1>11 DEF ZeroCounter
<1>12. CASE StartGC
  BY <1>a, <1>b, <1>12 DEF StartGC
<1>13. CASE FinishGC
  BY <1>a, <1>b, <1>13 DEF FinishGC
<1>14. CASE ClearConcurrentGCRequest
  <2>1. Count("gc") = 0 /\ apc # "add" /\ hpc = "gcclear" /\ hpc' = "idle" /\ ~gcPending'
    BY <1>a, <1>14 DEF ClearConcurrentGCRequest
  <2>2. WriteTasks' = WriteTasks /\ TransitionTasks' = TransitionTasks
    BY <1>a, <1>b, <1>14 DEF ClearConcurrentGCRequest
  <2>3. GcTasks' = 0
    BY <1>b, <1>14, <2>1 DEF ClearConcurrentGCRequest
  <2> QED
    BY <1>14, <2>1, <2>2, <2>3 DEF ClearConcurrentGCRequest
<1>15. CASE DoPendingCollectorTransition
  BY <1>a, <1>b, <1>15 DEF DoPendingCollectorTransition
<1>16. CASE AppRequest
  BY <1>a, <1>b, <1>16 DEF AppRequest
<1>17. CASE ToForeground
  BY <1>a, <1>b, <1>17 DEF ToForeground
<1>18. CASE SetInForeground
  BY <1>a, <1>b, <1>18 DEF SetInForeground
<1>19. CASE ResetCounter
  BY <1>a, <1>b, <1>19 DEF ResetCounter
<1>20. CASE RequestForeground
  BY <1>a, <1>b, <1>20 DEF RequestForeground
<1>21. CASE ToBackground
  BY <1>a, <1>b, <1>21 DEF ToBackground
<1>22. CASE SetInBackground
  BY <1>a, <1>b, <1>22 DEF SetInBackground
<1>23. CASE EndInit
  BY <1>a, <1>b, <1>23 DEF EndInit, AddLater
<1>24. CASE AddNextWriteTask
  BY <1>a, <1>b, <1>24 DEF AddNextWriteTask, AddLater
<1>25. CASE AddTransition
  BY <1>a, <1>b, <1>25 DEF AddTransition, AddLater
<1>26. CASE StartCompaction("compactwait", "compact", "zero")
  BY <1>a, <1>b, <1>26 DEF StartCompaction
<1>27. CASE StartCompaction("transwait", "transcompact", "transclear")
  BY <1>a, <1>b, <1>27 DEF StartCompaction
<1>28. CASE FinishCompaction("compact", "zero")
  BY <1>a, <1>b, <1>28 DEF FinishCompaction
<1>29. CASE FinishCompaction("transcompact", "transclear")
  BY <1>a, <1>b, <1>29 DEF FinishCompaction
<1>30. CASE RequestConcurrentGC("fgrequest", "add")
  <2>1. CASE gcPending \/ ~CanAddHeapTask
    BY <1>a, <1>b, <1>30, <2>1 DEF RequestConcurrentGC
  <2>2. CASE ~gcPending /\ CanAddHeapTask
    <3> AddNow("gc")
      BY <1>30, <2>2 DEF RequestConcurrentGC
    <3>1. /\ Count("write")' = Count("write") /\ Count("gc")' = Count("gc") + 1
          /\ Count("transition")' = Count("transition")
      BY CountsFacts DEF CountsPlus, Kinds
    <3> QED
      BY <1>a, <1>30, <2>2, <3>1 DEF RequestConcurrentGC
  <2> QED
    BY <2>1, <2>2
<1>31. CASE RequestConcurrentGC("request", "load")
  <2>1. CASE gcPending \/ ~CanAddHeapTask
    BY <1>a, <1>b, <1>31, <2>1 DEF RequestConcurrentGC
  <2>2. CASE ~gcPending /\ CanAddHeapTask
    <3> AddNow("gc")
      BY <1>31, <2>2 DEF RequestConcurrentGC
    <3>1. /\ Count("write")' = Count("write") /\ Count("gc")' = Count("gc") + 1
          /\ Count("transition")' = Count("transition")
      BY CountsFacts DEF CountsPlus, Kinds
    <3> QED
      BY <1>a, <1>31, <2>2, <3>1 DEF RequestConcurrentGC
  <2> QED
    BY <2>1, <2>2
<1>32. CASE ClearPendingCollectorTransition
  <2>1. waiting["transition"] = 0 /\ Count("transition") = 0 /\ upc # "bgadd"
    BY <1>a, <1>32 DEF ClearPendingCollectorTransition
  <2>2. ~transitionPending' /\ hpc' = "idle" /\ WriteTasks' = WriteTasks /\ GcTasks' = GcTasks
    BY <1>a, <1>b, <1>32 DEF ClearPendingCollectorTransition
  <2>3. TransitionTasks' = 0
    BY <1>a, <1>b, <1>32, <2>1 DEF ClearPendingCollectorTransition
  <2> QED
    BY <1>32, <2>2, <2>3 DEF ClearPendingCollectorTransition
<1>33. CASE AppAddTask
  <2>1. AddNow("gc")
    BY <1>33 DEF AppAddTask
  <2>2. /\ Count("write")' = Count("write") /\ Count("gc")' = Count("gc") + 1
        /\ Count("transition")' = Count("transition")
    BY <2>1, CountsFacts DEF CountsPlus, Kinds
  <2> QED
    BY <1>a, <1>33, <2>2 DEF AppAddTask
<1>34. CASE \E k \in DOMAIN waiting : TargetTimeComes(k)
  <2>1. PICK k \in {"write", "transition"} : TargetTimeComes(k)
    BY <1>a, <1>34
  <2>2. CountsPlus(k) /\ k \in Kinds
    BY <2>1, CountsFacts DEF TargetTimeComes, Kinds
  <2>3. /\ Count("write")' = Count("write") + One(k = "write") /\ Count("gc")' = Count("gc")
        /\ Count("transition")' = Count("transition") + One(k = "transition")
    BY <1>a, <2>2 DEF CountsPlus, Kinds
  <2>4. /\ waiting'["write"] = waiting["write"] - One(k = "write")
        /\ waiting'["transition"] = waiting["transition"] - One(k = "transition")
        /\ UNCHANGED <<processor, hpc, gcVars, processVars, swapVars>>
    <3>1. /\ waiting' = [waiting EXCEPT ![k] = @ - 1]
          /\ UNCHANGED <<processor, hpc, gcVars, processVars, swapVars>>
      BY <2>1 DEF TargetTimeComes
    <3>2. CASE k = "write"
      BY <1>a, <3>1, <3>2
    <3>3. CASE k = "transition"
      BY <1>a, <3>1, <3>3
    <3> QED
      BY <3>2, <3>3
  <2>5. /\ WriteTasks' = WriteTasks /\ GcTasks' = GcTasks /\ TransitionTasks' = TransitionTasks
    <3>1. CASE k = "write"
      BY <1>a, <2>3, <2>4, <3>1
    <3>2. CASE k = "transition"
      BY <1>a, <2>3, <2>4, <3>2
    <3> QED
      BY <3>1, <3>2
  <2> QED
    BY <2>4, <2>5
<1>35. CASE GetTask
  <2>1. due # << >> /\ due' = Tail(due) /\ Head(due) \in Kinds
    BY <1>35, TailFacts DEF GetTask
  <2>2. CountsMinus(Head(due))
    BY <2>1, CountsFacts
  <2> DEFINE h == Head(due)
  <2>3. /\ h \in Kinds /\ hpc = "idle" /\ hpc' = FirstStep(h)
        /\ UNCHANGED <<processor, waiting, gcVars, processVars, swapVars>>
    BY <1>35, <2>1 DEF GetTask
  <2> HIDE DEF h
  <2>4. /\ Count("write") = Count("write")' + One("write" = h)
        /\ Count("gc") = Count("gc")' + One("gc" = h)
        /\ Count("transition") = Count("transition")' + One("transition" = h)
    BY <2>2 DEF CountsMinus, Kinds, h
  <2>5. Count("write")' \in Nat /\ Count("gc")' \in Nat /\ Count("transition")' \in Nat
    BY <2>1, TailFacts, PlacesFinite DEF Count, Places
  <2> QED
    BY <1>a, <2>3, <2>4, <2>5 DEF FirstStep, Kinds
<1>36. CASE \E k \in DOMAIN waiting : GetTaskAtOnce(k)
  <2>1. PICK k \in {"write", "transition"} : GetTaskAtOnce(k)
    BY <1>a, <1>36
  <2> QED
    BY <1>a, <1>b, <2>1 DEF GetTaskAtOnce, FirstStep
<1>37. CASE PendTransition
  <2>1. CASE ~transitionPending
    BY <1>a, <1>b, <1>37, <2>1 DEF PendTransition
  <2>2. CASE transitionPending /\ UNCHANGED <<due, waiting>>
    BY <1>a, <1>b, <1>37, <2>2 DEF PendTransition
  <2>3. ASSUME transitionPending, NEW i \in DOMAIN due, due[i] = "transition", due' = Without(i),
               AddLater("transition")
        PROVE  TaskInv'
    <3>1. CountsMinus("transition")
      BY <2>3, CountsFacts
    <3>3. Count("write")' \in Nat /\ Count("gc")' \in Nat /\ Count("transition")' \in Nat
      BY <2>3, RemoveFacts, PlacesFinite DEF Count, Places
    <3>2. /\ Count("write")' = Count("write") /\ Count("gc")' = Count("gc")
          /\ Count("transition") = Count("transition")' + 1
      BY <3>1, <3>3 DEF CountsMinus, Kinds
    <3> QED
      BY <1>a, <1>37, <2>3, <3>2, <3>3 DEF PendTransition, AddLater
  <2> QED
    BY <1>37, <2>1, <2>2, <2>3 DEF PendTransition, UpdateTargetRunTime
<1>38. CASE UNCHANGED vars
  BY <1>a, <1>b, <1>38 DEF vars
<1>39. CASE ShutDown
  BY <1>a, <1>b, <1>39 DEF ShutDown
<1>40. CASE RunAllTasksReturns
  BY <1>a, <1>b, <1>40 DEF RunAllTasksReturns
<1>41. CASE CheckShutdown
  BY <1>a, <1>b, <1>41 DEF CheckShutdown
<1>42. CASE AppCheck
  BY <1>a, <1>b, <1>42 DEF AppCheck
<1>43. CASE RequestBackground
  BY <1>a, <1>b, <1>43 DEF RequestBackground
<1> QED
  BY <1>1, <1>2, <1>3, <1>4, <1>5, <1>6, <1>7, <1>8, <1>9, <1>10, <1>11, <1>12, <1>13,
     <1>14, <1>15, <1>16, <1>17, <1>18, <1>19, <1>20, <1>21, <1>22, <1>23, <1>24, <1>25,
     <1>26, <1>27, <1>28, <1>29, <1>30, <1>31, <1>32, <1>33, <1>34, <1>35, <1>36, <1>37,
     <1>38, <1>39, <1>40, <1>41, <1>42, <1>43
  DEF Next, HeapStep, UpdateStep

(* No task is lost or doubled: there is one WriteTask from the end of      *)
(* InitIfNecessary until an I/O error or the end of the task processor,    *)
(* and concurrent_gc_pending_ and pending_collector_transition_ are set    *)
(* exactly while a task answers to them.                                   *)
THEOREM Accounted == Spec => []TasksAccounted
PROOF
<1>1. Init => TaskInv
  <2> SUFFICES ASSUME Init PROVE TaskInv
    OBVIOUS
  <2>1. \A k : Count(k) = 0
    <3>1. \A k : {i \in DOMAIN due : due[i] = k} = {}
      BY DEF Init
    <3> QED
      BY <3>1, FS_EmptySet DEF Count
  <2> QED
    BY <2>1 DEF Init, TaskInv, TasksAccounted, WriteTasks, GcTasks, TransitionTasks, One
<1>2. TypeOK /\ TaskInv /\ [Next]_vars => TaskInv'
  BY TaskStep
<1>3. TaskInv => TasksAccounted
  BY DEF TaskInv
<1> QED
  BY <1>1, <1>2, <1>3, CounterBounded, PTL DEF Spec

=============================================================================
