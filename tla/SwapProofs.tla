----------------------------- MODULE SwapProofs -----------------------------
(***************************************************************************)
(* Swapping is safe and invisible, for any objects, fields and values, in  *)
(* a program with one app thread whose collections run between WriteTasks, *)
(* whose heap is compacted when the write queue is empty, and that meets   *)
(* no I/O error and uses no compare-and-swap.  What needs none of these    *)
(* assumptions is proved without them.                                     *)
(***************************************************************************)
EXTENDS Swap, TLAPS

(* The assumptions under which data is safe.                               *)
Calm ==
  /\ ~AllocGC /\ ~EarlyCompaction /\ ~IoErrors /\ ~CasWrites
  /\ \A t, u \in Threads : t = u

-----------------------------------------------------------------------------
(* What holds whatever the constants: queued objects and the one being     *)
(* written are in memory, candidates have no stub.                         *)
QueueInv == TypeOK /\ WrittenIsResident /\ CandidatesArePlain

-----------------------------------------------------------------------------
(* What holds in the calm case.                                            *)

(* A thread has stored to the object and not yet marked it dirty.          *)
Marking(o) == \E t \in Threads : pc[t] = "mark" /\ at[t] = o
(* The WriteTask has cleared the dirty bit and not yet written.            *)
Writing(o) == wpc \in {"header", "fields", "write"} /\ wobj = o

(* Plain objects are in memory; what is in memory is live; entries belong  *)
(* to stubs; stubs have snapshots, and clean ones if they are not in       *)
(* memory.                                                                 *)
StateInv ==
  /\ ~streamBad
  /\ \A o \in Objects :
       /\ state[o] = "plain" => resident[o]
       /\ resident[o] => Live(o)
       /\ rte[o] => state[o] = "stubbed"
       /\ file[o] \in Image \cup {NoEntry}
       /\ state[o] = "stubbed" => file[o] \in Image
       /\ state[o] = "stubbed" /\ ~resident[o] => ~file[o].hdr.dirty

(* A thread that swaps in has the object to itself, and has it in memory   *)
(* when it uses it.                                                        *)
ThreadInv ==
  \A t \in Threads :
    /\ pc[t] \in {"swapin", "read", "install"} =>
         state[at[t]] = "stubbed" /\ ~resident[at[t]]
    /\ pc[t] = "install" => mem[at[t]] = file[at[t]]
    /\ pc[t] \in {"use", "mark"} => resident[at[t]]

(* A clean object that is not being written has a clean snapshot, with its *)
(* data unless a store is about to mark it dirty.                          *)
CleanInv ==
  \A o \in Objects :
    resident[o] /\ ~mem[o].hdr.dirty /\ ~Writing(o) =>
      /\ file[o] \in Image /\ ~file[o].hdr.dirty
      /\ Marking(o) \/ file[o].data = mem[o].data

(* The same of the copy that the WriteTask has made so far.                *)
WriteInv ==
  /\ wpc # "idle" => resident[wobj]
  /\ wpc \in {"fields", "write"} /\ ~mem[wobj].hdr.dirty =>
       /\ ~buf.hdr.dirty
       /\ Marking(wobj) \/ \A f \in Fields \ wleft : buf.data[f] = mem[wobj].data[f]
  /\ wpc = "write" => wleft = {} /\ (inSwapFile => file[wobj] \in Image)

(* A candidate has a snapshot, or will have one when the queue is empty.   *)
CandidateInv ==
  \A o \in createStubSet : file[o] \in Image \/ Queued(o) \/ (wpc # "idle" /\ wobj = o)

CalmInv ==
  QueueInv /\ StateInv /\ ThreadInv /\ CleanInv /\ WriteInv /\ CandidateInv

-----------------------------------------------------------------------------
(* The write queue.                                                        *)

Distinct(q) == \A i, j \in DOMAIN q : q[i] = q[j] => i = j
Has(q, x) == \E i \in DOMAIN q : q[i] = x

(* Erasing an object from a queue without duplicates takes it and nothing  *)
(* else out, and leaves a queue without duplicates.                        *)
LEMMA ErasedQueue ==
  ASSUME NEW o \in Objects, writeQueue \in Seq(Objects), Distinct(writeQueue)
  PROVE  /\ Erased(o) \in Seq(Objects)
         /\ Distinct(Erased(o))
         /\ \A x : Has(Erased(o), x) <=> Has(writeQueue, x) /\ x # o
PROOF
<1>1. CASE ~Queued(o)
  BY <1>1 DEF Erased, Queued, Has
<1>2. CASE Queued(o)
  <2> DEFINE i == CHOOSE k \in DOMAIN writeQueue : writeQueue[k] = o
             n == Len(writeQueue)
             from(j) == IF j < i THEN j ELSE j + 1
             to(k) == IF k < i THEN k ELSE k - 1
  <2>1. i \in DOMAIN writeQueue /\ writeQueue[i] = o
    BY <1>2 DEF Queued
  <2>2. n \in Nat /\ DOMAIN writeQueue = 1 .. n /\ i \in 1 .. n
    BY <2>1
  <2>3. Erased(o) = [j \in 1 .. n - 1 |-> writeQueue[from(j)]]
    BY <1>2 DEF Erased
  <2> HIDE DEF i
  <2>4. \A j \in 1 .. n - 1 : from(j) \in 1 .. n /\ from(j) # i /\ to(from(j)) = j
    BY <2>2
  <2>5. \A k \in 1 .. n : k # i => to(k) \in 1 .. n - 1 /\ from(to(k)) = k
    BY <2>2
  <2> HIDE DEF from, to, n
  <2>6. DOMAIN Erased(o) = 1 .. n - 1
    BY <2>3
  <2>7. Erased(o) \in Seq(Objects)
    <3>1. \A j \in 1 .. n - 1 : writeQueue[from(j)] \in Objects
      BY <2>2, <2>4
    <3>2. n - 1 \in Nat
      BY <2>2
    <3> QED
      BY <2>3, <3>1, <3>2
  <2>8. Distinct(Erased(o))
    <3> SUFFICES ASSUME NEW j \in 1 .. n - 1, NEW k \in 1 .. n - 1,
                        writeQueue[from(j)] = writeQueue[from(k)]
                 PROVE  j = k
      BY <2>3, <2>6 DEF Distinct
    <3>1. from(j) = from(k)
      BY <2>2, <2>4 DEF Distinct
    <3> QED
      BY <2>4, <3>1
  <2>9. ASSUME NEW x, Has(Erased(o), x)
        PROVE  Has(writeQueue, x) /\ x # o
    BY <2>1, <2>2, <2>3, <2>4, <2>6, <2>9 DEF Has, Distinct
  <2>10. ASSUME NEW x, Has(writeQueue, x), x # o
         PROVE  Has(Erased(o), x)
    <3>1. PICK k \in 1 .. n : writeQueue[k] = x
      BY <2>2, <2>10 DEF Has
    <3>2. k # i
      BY <2>1, <2>10, <3>1
    <3> QED
      BY <2>3, <2>5, <2>6, <3>1, <3>2 DEF Has
  <2> QED
    BY <2>7, <2>8, <2>9, <2>10
<1> QED
  BY <1>1, <1>2

(* Appending an object that is not in the queue.                           *)
LEMMA AppendedQueue ==
  ASSUME NEW o \in Objects, writeQueue \in Seq(Objects), Distinct(writeQueue),
         ~Has(writeQueue, o)
  PROVE  /\ Append(writeQueue, o) \in Seq(Objects)
         /\ Distinct(Append(writeQueue, o))
         /\ \A x : Has(Append(writeQueue, o), x) <=> Has(writeQueue, x) \/ x = o
PROOF
<1> DEFINE q == Append(writeQueue, o)
           n == Len(writeQueue)
<1>1. /\ n \in Nat /\ DOMAIN writeQueue = 1 .. n /\ DOMAIN q = 1 .. n + 1
      /\ q \in Seq(Objects) /\ q[n + 1] = o
      /\ \A k \in 1 .. n : q[k] = writeQueue[k]
  OBVIOUS
<1> HIDE DEF q, n
<1>2. Distinct(q)
  BY <1>1 DEF Distinct, Has
<1>3. ASSUME NEW x
      PROVE  Has(q, x) <=> Has(writeQueue, x) \/ x = o
  BY <1>1 DEF Has
<1> QED
  BY <1>1, <1>2, <1>3 DEF q

(* Taking the front of the queue.                                          *)
LEMMA TailQueue ==
  ASSUME writeQueue \in Seq(Objects), Distinct(writeQueue), writeQueue # << >>
  PROVE  /\ Head(writeQueue) \in Objects /\ Has(writeQueue, Head(writeQueue))
         /\ Tail(writeQueue) \in Seq(Objects) /\ Distinct(Tail(writeQueue))
         /\ \A x : Has(writeQueue, x) <=> Has(Tail(writeQueue), x) \/ x = Head(writeQueue)
PROOF
<1> DEFINE q == Tail(writeQueue)
           n == Len(writeQueue)
<1>1. /\ n \in Nat /\ n > 0 /\ DOMAIN writeQueue = 1 .. n /\ DOMAIN q = 1 .. n - 1
      /\ q \in Seq(Objects) /\ Head(writeQueue) = writeQueue[1] /\ writeQueue[1] \in Objects
      /\ \A k \in 1 .. n - 1 : q[k] = writeQueue[k + 1]
  OBVIOUS
<1> HIDE DEF q, n
<1>2. Distinct(q)
  <2> SUFFICES ASSUME NEW i \in 1 .. n - 1, NEW j \in 1 .. n - 1, q[i] = q[j]
               PROVE  i = j
    BY <1>1 DEF Distinct
  <2>1. i + 1 \in 1 .. n /\ j + 1 \in 1 .. n
    BY <1>1
  <2>2. writeQueue[i + 1] = writeQueue[j + 1]
    BY <1>1
  <2>3. i + 1 = j + 1
    BY Zenon, <1>1, <2>1, <2>2 DEF Distinct
  <2> QED
    BY <2>3
<1>3. ASSUME NEW x
      PROVE  Has(writeQueue, x) <=> Has(q, x) \/ x = writeQueue[1]
  <2>1. ASSUME NEW k \in 1 .. n, k # 1
        PROVE  k - 1 \in 1 .. n - 1 /\ q[k - 1] = writeQueue[k]
    <3>1. k - 1 \in 1 .. n - 1 /\ (k - 1) + 1 = k
      BY <1>1, <2>1
    <3> QED
      BY <1>1, <3>1
  <2>2. ASSUME NEW k \in 1 .. n - 1
        PROVE  k + 1 \in 1 .. n /\ 1 \in 1 .. n
    BY <1>1
  <2>3. 1 \in 1 .. n
    BY <1>1
  <2> QED
    BY Zenon, <1>1, <2>1, <2>2, <2>3 DEF Has
<1>4. Has(writeQueue, writeQueue[1])
  BY <1>1 DEF Has
<1> QED
  BY <1>1, <1>2, <1>3, <1>4 DEF q

-----------------------------------------------------------------------------
(* Types, whatever the constants.                                          *)

(* The images that allocation and reclamation leave.                       *)
LEMMA ConstantImages == ZeroImage \in Image /\ NewImage \in Image
  BY WsrAssumption, ValuesAssumption DEF ZeroImage, NewImage, Image, Header, Data

(* Stores, header updates and copies keep an image an image.               *)
LEMMA ChangedImages ==
  ASSUME NEW m \in Image, NEW n \in Image
  PROVE  /\ \A f \in Fields, v \in Values : [m EXCEPT !.data[f] = v] \in Image
         /\ \A d, w \in BOOLEAN : [m EXCEPT !.hdr.dirty = d, !.hdr.written = w] \in Image
         /\ \A d \in BOOLEAN : [m EXCEPT !.hdr.dirty = d] \in Image
         /\ \A w \in BOOLEAN : [m EXCEPT !.hdr = Aged(@, w)] \in Image
         /\ [m EXCEPT !.hdr = n.hdr] \in Image
         /\ \A f \in Fields : [m EXCEPT !.data[f] = n.data[f]] \in Image
PROOF
<1>1. m.hdr \in Header /\ m.data \in Data /\ n.hdr \in Header /\ n.data \in Data
  BY DEF Image
<1>2. ASSUME NEW x \in 0 .. 2 * WsrTop - 1
      PROVE  (x \div 2) \in 0 .. WsrTop - 1 /\ (x \div 2) + WsrTop \in 0 .. 2 * WsrTop - 1
  BY WsrAssumption
<1>3. ASSUME NEW w \in BOOLEAN PROVE Aged(m.hdr, w) \in Header
  <2>1. m.hdr.wsr \in 0 .. 2 * WsrTop - 1 /\ m.hdr.written \in BOOLEAN
    BY <1>1 DEF Header
  <2>2. (m.hdr.wsr \div 2) + (IF m.hdr.written THEN WsrTop ELSE 0) \in 0 .. 2 * WsrTop - 1
    BY <1>2, <2>1, WsrAssumption
  <2> QED
    BY Zenon, <1>1, <2>2 DEF Header, Aged
<1>4. ASSUME NEW f \in Fields, NEW v \in Values \cup {Zero}
      PROVE  [m EXCEPT !.data[f] = v] \in Image
  BY <1>1 DEF Image, Data
<1>5. ASSUME NEW d \in BOOLEAN, NEW w \in BOOLEAN
      PROVE  [m EXCEPT !.hdr.dirty = d, !.hdr.written = w] \in Image
  BY Zenon, <1>1 DEF Image, Header
<1>6. ASSUME NEW d \in BOOLEAN PROVE [m EXCEPT !.hdr.dirty = d] \in Image
  BY <1>1 DEF Image, Header
<1>7. ASSUME NEW w \in BOOLEAN PROVE [m EXCEPT !.hdr = Aged(@, w)] \in Image
  BY <1>1, <1>3 DEF Image
<1>8. [m EXCEPT !.hdr = n.hdr] \in Image
  BY <1>1 DEF Image
<1>9. \A f \in Fields : n.data[f] \in Values \cup {Zero}
  BY <1>1 DEF Data
<1> QED
  BY Zenon, <1>4, <1>5, <1>6, <1>7, <1>8, <1>9

(* What a store changes in memory.                                         *)
LEMMA StoredMem ==
  ASSUME TypeOK, NEW o \in Objects, NEW f \in Fields, NEW v \in Values,
         mem' = [mem EXCEPT ![o].data[f] = v]
  PROVE  /\ mem' \in [Objects -> Image]
         /\ mem'[o].hdr = mem[o].hdr
         /\ \A x \in Objects \ {o} : mem'[x] = mem[x]
         /\ mem'[o].data = [mem[o].data EXCEPT ![f] = v]
PROOF
<1> DEFINE m == [mem[o] EXCEPT !.data[f] = v]
<1>1. mem \in [Objects -> Image] /\ mem[o] \in Image
  BY DEF TypeOK
<1>2. mem' = [mem EXCEPT ![o] = m]
  OBVIOUS
<1>3. m \in Image
  BY Zenon, <1>1, ChangedImages
<1>4. m.hdr = mem[o].hdr /\ m.data = [mem[o].data EXCEPT ![f] = v]
  BY <1>1 DEF Image
<1> HIDE DEF m
<1> QED
  BY <1>1, <1>2, <1>3, <1>4

(* What setting the write bit and the dirty bit changes.                   *)
LEMMA MarkedMem ==
  ASSUME TypeOK, NEW o \in Objects, NEW w \in BOOLEAN,
         mem' = [mem EXCEPT ![o].hdr.dirty = TRUE, ![o].hdr.written = w]
  PROVE  /\ mem' \in [Objects -> Image]
         /\ mem'[o].data = mem[o].data /\ mem'[o].hdr.dirty
         /\ \A x \in Objects \ {o} : mem'[x] = mem[x]
PROOF
<1> DEFINE m == [mem[o] EXCEPT !.hdr.dirty = TRUE, !.hdr.written = w]
<1>1. mem \in [Objects -> Image] /\ mem[o] \in Image
  BY DEF TypeOK
<1>2. mem' = [mem EXCEPT ![o] = m]
  BY Zenon, <1>1 DEF Image, Header
<1>3. m \in Image
  BY Zenon, <1>1, ChangedImages
<1>4. m.data = mem[o].data /\ m.hdr.dirty
  BY Zenon, <1>1 DEF Image, Header
<1> HIDE DEF m
<1> QED
  BY Zenon, <1>1, <1>2, <1>3, <1>4

(* What clearing the dirty bit changes.                                    *)
LEMMA ClearedMem ==
  ASSUME TypeOK, NEW o \in Objects, mem' = [mem EXCEPT ![o].hdr.dirty = FALSE]
  PROVE  /\ mem' \in [Objects -> Image]
         /\ mem'[o].data = mem[o].data
         /\ \A x \in Objects \ {o} : mem'[x] = mem[x]
PROOF
<1> DEFINE m == [mem[o] EXCEPT !.hdr.dirty = FALSE]
<1>1. mem \in [Objects -> Image] /\ mem[o] \in Image
  BY DEF TypeOK
<1>2. mem' = [mem EXCEPT ![o] = m]
  OBVIOUS
<1>3. m \in Image
  BY Zenon, <1>1, ChangedImages
<1>4. m.data = mem[o].data
  BY <1>1 DEF Image
<1> HIDE DEF m
<1> QED
  BY Zenon, <1>1, <1>2, <1>3, <1>4

(* What a collection changes in the header.                                *)
LEMMA AgedMem ==
  ASSUME TypeOK, NEW o \in Objects, NEW w \in BOOLEAN,
         mem' = [mem EXCEPT ![o].hdr = Aged(@, w)]
  PROVE  /\ mem' \in [Objects -> Image]
         /\ mem'[o].data = mem[o].data /\ mem'[o].hdr.dirty = mem[o].hdr.dirty
         /\ \A x \in Objects \ {o} : mem'[x] = mem[x]
PROOF
<1> DEFINE m == [mem[o] EXCEPT !.hdr = Aged(@, w)]
<1>1. mem \in [Objects -> Image] /\ mem[o] \in Image
  BY DEF TypeOK
<1>2. mem' = [mem EXCEPT ![o] = m]
  OBVIOUS
<1>3. m \in Image
  BY Zenon, <1>1, ChangedImages
<1>4. m.data = mem[o].data /\ m.hdr = Aged(mem[o].hdr, w)
  BY <1>1 DEF Image
<1>5. Aged(mem[o].hdr, w).dirty = mem[o].hdr.dirty
  BY <1>1 DEF Image, Header, Aged
<1> HIDE DEF m
<1> QED
  BY <1>1, <1>2, <1>3, <1>4, <1>5

(* Every step keeps the types.                                             *)
LEMMA TypeStep ==
  ASSUME TypeOK, [Next]_vars
  PROVE  TypeOK'
PROOF
<1> USE DEF queueVars, threadVars, writeVars
<1>1. ASSUME NEW o \in Objects, Allocate(o) PROVE TypeOK'
  BY <1>1, ConstantImages DEF TypeOK, Allocate
<1>2. ASSUME NEW o \in Objects, CheckAndUpdate(o) PROVE TypeOK'
  <2>1. mem' \in [Objects -> Image]
    <3>1. PICK w \in BOOLEAN : mem' = [mem EXCEPT ![o].hdr = Aged(@, w)]
      BY Zenon, <1>2 DEF TypeOK, CheckAndUpdate, WriteBit, Image, Header
    <3> QED
      BY Zenon, <3>1, AgedMem
  <2>2. writeQueue' \in Seq(Objects) /\ Distinct(writeQueue')
    BY <1>2, AppendedQueue DEF TypeOK, CheckAndUpdate, MustWrite, Queued, Has, Distinct
  <2>3. createStubSet' \subseteq Objects
    BY <1>2 DEF TypeOK, CheckAndUpdate
  <2> QED
    BY <1>2, <2>1, <2>2, <2>3 DEF TypeOK, CheckAndUpdate, Distinct
<1>3. ASSUME NEW o \in Objects, GcRecordFree(o) PROVE TypeOK'
  BY <1>3, ErasedQueue DEF TypeOK, GcRecordFree, ReleaseEntry, Distinct
<1>4. ASSUME NEW t \in Threads, NEW o \in Objects, BeginAccess(t, o) PROVE TypeOK'
  BY <1>4 DEF TypeOK, BeginAccess, Goto, heapVars
<1>5. ASSUME NEW t \in Threads, SwapInOnDemand(t) PROVE TypeOK'
  BY <1>5 DEF TypeOK, SwapInOnDemand, Goto
<1>6. ASSUME NEW t \in Threads, ReadSnapshot(t) PROVE TypeOK'
  BY <1>6 DEF TypeOK, ReadSnapshot, Goto, ReadBack
<1>7. ASSUME NEW t \in Threads, InstallSnapshot(t) PROVE TypeOK'
  BY <1>7 DEF TypeOK, InstallSnapshot, Goto
<1>8. ASSUME NEW t \in Threads, ReadField(t) PROVE TypeOK'
  BY <1>8 DEF TypeOK, ReadField, Goto, heapVars
<1>9. ASSUME NEW t \in Threads, StoreField(t) PROVE TypeOK'
  <2>1. at[t] \in Objects
    BY DEF TypeOK
  <2>2. mem' \in [Objects -> Image]
    BY Zenon, <1>9, <2>1, StoredMem DEF StoreField
  <2> QED
    BY <1>9, <2>2 DEF TypeOK, StoreField, Goto
<1>10. ASSUME NEW t \in Threads, SetWriteBitAndDirtyBit(t) PROVE TypeOK'
  <2>1. at[t] \in Objects /\ mem[at[t]].hdr.written \in BOOLEAN
    BY DEF TypeOK, Image, Header
  <2>2. mem' \in [Objects -> Image]
    BY Zenon, <1>10, <2>1, MarkedMem DEF SetWriteBitAndDirtyBit, WriteBit
  <2> QED
    BY <1>10, <2>2 DEF TypeOK, SetWriteBitAndDirtyBit, Goto
<1>11. ASSUME NEW t \in Threads, CasField(t) PROVE TypeOK'
  <2>1. at[t] \in Objects
    BY DEF TypeOK
  <2>2. mem' \in [Objects -> Image]
    BY Zenon, <1>11, <2>1, StoredMem DEF CasField
  <2> QED
    BY <1>11, <2>2 DEF TypeOK, CasField, Goto
<1>12. ASSUME Dequeue PROVE TypeOK'
  BY <1>12, TailQueue DEF TypeOK, Dequeue, heapVars, Distinct
<1>13. ASSUME ClearDirtyBit PROVE TypeOK'
  <2>1. wobj \in Objects
    BY DEF TypeOK
  <2>2. mem' \in [Objects -> Image]
    BY <1>13, <2>1, ClearedMem DEF ClearDirtyBit, TypeOK
  <2> QED
    BY <1>13, <2>2 DEF TypeOK, ClearDirtyBit
<1>14. ASSUME CopyHeader PROVE TypeOK'
  BY Zenon, <1>14, ChangedImages DEF TypeOK, CopyHeader, heapVars
<1>15. ASSUME CopyField PROVE TypeOK'
  <2>1. wobj \in Objects /\ mem[wobj] \in Image /\ buf \in Image /\ wleft \subseteq Fields
    BY DEF TypeOK
  <2>2. \A f \in Fields : [buf EXCEPT !.data[f] = mem[wobj].data[f]] \in Image
    BY Zenon, <2>1, ChangedImages
  <2>3. buf' \in Image /\ wleft' \subseteq Fields
    BY <1>15, <2>1, <2>2 DEF CopyField
  <2> QED
    BY <1>15, <2>3 DEF TypeOK, CopyField, heapVars
<1>16. ASSUME Lookup PROVE TypeOK'
  BY <1>16 DEF TypeOK, Lookup, heapVars, InMaps
<1>17. ASSUME WriteSnapshot PROVE TypeOK'
  BY <1>17, ConstantImages DEF TypeOK, WriteSnapshot, EndWrite
<1>18. ASSUME WriteFails PROVE TypeOK'
  BY <1>18, ConstantImages DEF TypeOK, WriteFails, EndWrite
<1>19. ASSUME PerformHomogeneousSpaceCompact PROVE TypeOK'
  BY <1>19, ConstantImages DEF TypeOK, PerformHomogeneousSpaceCompact, ClearQueue
<1>20. ASSUME SwapObjectsIn PROVE TypeOK'
  BY <1>20 DEF TypeOK, SwapObjectsIn, ReadBack
<1>21. CASE UNCHANGED vars
  BY <1>21 DEF vars, heapVars, TypeOK
<1> QED
  BY <1>1, <1>2, <1>3, <1>4, <1>5, <1>6, <1>7, <1>8, <1>9, <1>10, <1>11, <1>12, <1>13,
     <1>14, <1>15, <1>16, <1>17, <1>18, <1>19, <1>20, <1>21 DEF Next, AppStep,
     WriteTaskStep

(* The types hold initially.                                               *)
LEMMA InitTypes ==
  ASSUME Init
  PROVE  TypeOK
PROOF
<1>1. PICK o \in Objects : at = [t \in Threads |-> o] /\ wobj = o
  BY DEF Init
<1>2. /\ resident \in [Objects -> BOOLEAN] /\ rte \in [Objects -> BOOLEAN]
      /\ streamBad \in BOOLEAN /\ inSwapFile \in BOOLEAN
  BY Zenon DEF Init
<1>3. /\ writeQueue \in Seq(Objects)
      /\ \A i, j \in DOMAIN writeQueue : writeQueue[i] = writeQueue[j] => i = j
  BY DEF Init
<1>4. at \in [Threads -> Objects] /\ wobj \in Objects
  BY <1>1
<1>5. mem \in [Objects -> Image] /\ buf \in Image
  BY ConstantImages DEF Init
<1>6. /\ state \in [Objects -> {"free", "plain", "stubbed"}]
      /\ file \in [Objects -> Image \cup {NoEntry, Unwritten, EmptyEntry}]
      /\ createStubSet \subseteq Objects /\ wleft \subseteq Fields
      /\ pc \in [Threads -> {"idle", "swapin", "read", "install", "use", "mark"}]
      /\ wpc \in {"idle", "clear", "header", "fields", "write"}
  BY DEF Init
<1> QED
  BY <1>2, <1>3, <1>4, <1>5, <1>6 DEF TypeOK

(* The types, for all constants.                                           *)
THEOREM TypeCorrect == Spec => []TypeOK
PROOF
<1>1. Init => TypeOK
  BY InitTypes
<1>2. TypeOK /\ [Next]_vars => TypeOK'
  BY TypeStep
<1> QED
  BY <1>1, <1>2, PTL DEF Spec

-----------------------------------------------------------------------------
(* The queue and the candidates, whatever the constants.                   *)

(* Every step keeps queued objects in memory and candidates plain.         *)
LEMMA QueueStep ==
  ASSUME TypeOK, WrittenIsResident, CandidatesArePlain, [Next]_vars
  PROVE  WrittenIsResident' /\ CandidatesArePlain'
PROOF
<1> USE DEF queueVars, threadVars, writeVars
<1>1. ASSUME NEW o \in Objects, Allocate(o)
      PROVE  WrittenIsResident' /\ CandidatesArePlain'
  BY <1>1 DEF TypeOK, WrittenIsResident, CandidatesArePlain, Queued, Allocate
<1>2. ASSUME NEW o \in Objects, CheckAndUpdate(o)
      PROVE  WrittenIsResident' /\ CandidatesArePlain'
  <2>1. \A x : Has(writeQueue', x) => Has(writeQueue, x) \/ x = o
    BY <1>2, AppendedQueue DEF TypeOK, CheckAndUpdate, MustWrite, Queued, Has, Distinct
  <2>2. WrittenIsResident'
    BY <1>2, <2>1 DEF WrittenIsResident, Queued, Has, CheckAndUpdate
  <2>3. CandidatesArePlain'
    BY <1>2 DEF CandidatesArePlain, CheckAndUpdate, IsCandidate
  <2> QED
    BY <2>2, <2>3
<1>3. ASSUME NEW o \in Objects, GcRecordFree(o)
      PROVE  WrittenIsResident' /\ CandidatesArePlain'
  <2>1. \A x : Has(writeQueue', x) => Has(writeQueue, x) /\ x # o
    BY <1>3, ErasedQueue DEF TypeOK, GcRecordFree, Distinct
  <2>2. WrittenIsResident'
    BY Zenon, <1>3, <2>1 DEF TypeOK, WrittenIsResident, Queued, Has, GcRecordFree
  <2>3. CandidatesArePlain'
    BY <1>3 DEF TypeOK, CandidatesArePlain, GcRecordFree
  <2> QED
    BY <2>2, <2>3
<1>4. ASSUME NEW t \in Threads, NEW o \in Objects, BeginAccess(t, o)
      PROVE  WrittenIsResident' /\ CandidatesArePlain'
  BY <1>4 DEF TypeOK, WrittenIsResident, CandidatesArePlain, Queued, BeginAccess, heapVars
<1>5. ASSUME NEW t \in Threads, SwapInOnDemand(t)
      PROVE  WrittenIsResident' /\ CandidatesArePlain'
  BY <1>5 DEF TypeOK, WrittenIsResident, CandidatesArePlain, Queued, SwapInOnDemand
<1>6. ASSUME NEW t \in Threads, ReadSnapshot(t)
      PROVE  WrittenIsResident' /\ CandidatesArePlain'
  BY <1>6 DEF TypeOK, WrittenIsResident, CandidatesArePlain, Queued, ReadSnapshot
<1>7. ASSUME NEW t \in Threads, InstallSnapshot(t)
      PROVE  WrittenIsResident' /\ CandidatesArePlain'
  BY <1>7 DEF TypeOK, WrittenIsResident, CandidatesArePlain, Queued, InstallSnapshot
<1>8. ASSUME NEW t \in Threads, ReadField(t)
      PROVE  WrittenIsResident' /\ CandidatesArePlain'
  BY <1>8 DEF TypeOK, WrittenIsResident, CandidatesArePlain, Queued, ReadField, heapVars
<1>9. ASSUME NEW t \in Threads, StoreField(t)
      PROVE  WrittenIsResident' /\ CandidatesArePlain'
  BY <1>9 DEF TypeOK, WrittenIsResident, CandidatesArePlain, Queued, StoreField
<1>10. ASSUME NEW t \in Threads, SetWriteBitAndDirtyBit(t)
      PROVE  WrittenIsResident' /\ CandidatesArePlain'
  BY <1>10 DEF TypeOK, WrittenIsResident, CandidatesArePlain, Queued,
     SetWriteBitAndDirtyBit
<1>11. ASSUME NEW t \in Threads, CasField(t)
      PROVE  WrittenIsResident' /\ CandidatesArePlain'
  BY <1>11 DEF TypeOK, WrittenIsResident, CandidatesArePlain, Queued, CasField
<1>12. ASSUME Dequeue
      PROVE  WrittenIsResident' /\ CandidatesArePlain'
  <2>1. /\ \A x : Has(writeQueue', x) => Has(writeQueue, x)
        /\ wobj' \in Objects /\ Has(writeQueue, wobj')
    BY <1>12, TailQueue DEF TypeOK, Dequeue, Distinct
  <2>2. WrittenIsResident'
    BY <1>12, <2>1 DEF WrittenIsResident, Queued, Has, Dequeue, heapVars
  <2>3. CandidatesArePlain'
    BY <1>12 DEF CandidatesArePlain, Dequeue, heapVars
  <2> QED
    BY <2>2, <2>3
<1>13. ASSUME ClearDirtyBit
      PROVE  WrittenIsResident' /\ CandidatesArePlain'
  BY <1>13 DEF TypeOK, WrittenIsResident, CandidatesArePlain, Queued, ClearDirtyBit
<1>14. ASSUME CopyHeader
      PROVE  WrittenIsResident' /\ CandidatesArePlain'
  BY <1>14 DEF TypeOK, WrittenIsResident, CandidatesArePlain, Queued, CopyHeader, heapVars
<1>15. ASSUME CopyField
      PROVE  WrittenIsResident' /\ CandidatesArePlain'
  BY <1>15 DEF TypeOK, WrittenIsResident, CandidatesArePlain, Queued, CopyField, heapVars
<1>16. ASSUME Lookup
      PROVE  WrittenIsResident' /\ CandidatesArePlain'
  BY <1>16 DEF TypeOK, WrittenIsResident, CandidatesArePlain, Queued, Lookup, heapVars
<1>17. ASSUME WriteSnapshot
      PROVE  WrittenIsResident' /\ CandidatesArePlain'
  BY <1>17 DEF TypeOK, WrittenIsResident, CandidatesArePlain, Queued, WriteSnapshot,
     EndWrite
<1>18. ASSUME WriteFails
      PROVE  WrittenIsResident' /\ CandidatesArePlain'
  BY <1>18 DEF TypeOK, WrittenIsResident, CandidatesArePlain, Queued, WriteFails, EndWrite
<1>19. ASSUME PerformHomogeneousSpaceCompact
      PROVE  WrittenIsResident' /\ CandidatesArePlain'
  BY <1>19 DEF TypeOK, WrittenIsResident, CandidatesArePlain, Queued, Stopped, ClearQueue,
     PerformHomogeneousSpaceCompact
<1>20. ASSUME SwapObjectsIn
      PROVE  WrittenIsResident' /\ CandidatesArePlain'
  BY <1>20 DEF TypeOK, WrittenIsResident, CandidatesArePlain, Queued, SwapObjectsIn
<1>21. CASE UNCHANGED vars
  BY <1>21 DEF vars, heapVars, WrittenIsResident, CandidatesArePlain, Queued
<1> QED
  BY <1>1, <1>2, <1>3, <1>4, <1>5, <1>6, <1>7, <1>8, <1>9, <1>10, <1>11, <1>12, <1>13,
     <1>14, <1>15, <1>16, <1>17, <1>18, <1>19, <1>20, <1>21 DEF Next, AppStep,
     WriteTaskStep

(* Queued objects stay in memory and candidates have no stub, for all      *)
(* constants.                                                              *)
THEOREM QueueInvariance == Spec => []QueueInv
PROOF
<1>1. Init => WrittenIsResident /\ CandidatesArePlain
  BY DEF Init, WrittenIsResident, CandidatesArePlain, Queued
<1>2. TypeOK /\ WrittenIsResident /\ CandidatesArePlain /\ [Next]_vars
        => WrittenIsResident' /\ CandidatesArePlain'
  BY QueueStep
<1> QED
  BY <1>1, <1>2, TypeCorrect, PTL DEF Spec, QueueInv

(* What writeToSwapFile's comment says: nothing is reclaimed while it is   *)
(* queued or written.                                                      *)
THEOREM WrittenStays == Spec => []WrittenIsResident
  BY QueueInvariance, PTL DEF QueueInv

(* The assertions of CreateStubs on its candidates hold.                   *)
THEOREM CandidatesPlain == Spec => []CandidatesArePlain
  BY QueueInvariance, PTL DEF QueueInv

-----------------------------------------------------------------------------
(* The data, in the calm case.                                             *)

(* Allocate keeps the invariant.                                      *)
LEMMA CalmAllocate ==
  ASSUME Calm, CalmInv, TypeOK', NEW o \in Objects, Allocate(o)
  PROVE  StateInv' /\ ThreadInv' /\ CleanInv' /\ WriteInv' /\ CandidateInv'
PROOF
<1> USE DEF CalmInv, queueVars, threadVars, writeVars, heapVars
<1>1. StateInv'
  BY EntriesAssumption DEF Calm, QueueInv, TypeOK, StateInv, Live, Allocate
<1>2. ThreadInv'
  BY DEF Calm, QueueInv, TypeOK, ThreadInv, StateInv, Live, Allocate
<1>3. CleanInv'
  BY DEF Calm, QueueInv, TypeOK, CleanInv, StateInv, ThreadInv, Live, Marking, Writing,
     Allocate, NewImage
<1>4. WriteInv'
  BY DEF Calm, QueueInv, TypeOK, WriteInv, StateInv, ThreadInv, Live, Marking, Allocate
<1>5. CandidateInv'
  BY DEF Calm, QueueInv, TypeOK, CandidateInv, StateInv, CleanInv, Live, Queued, Allocate
<1> QED
  BY <1>1, <1>2, <1>3, <1>4, <1>5

(* CheckAndUpdate keeps the invariant.                                *)
LEMMA CalmCheckAndUpdate ==
  ASSUME Calm, CalmInv, TypeOK', NEW o \in Objects, CheckAndUpdate(o)
  PROVE  StateInv' /\ ThreadInv' /\ CleanInv' /\ WriteInv' /\ CandidateInv'
PROOF
<1> USE DEF CalmInv, queueVars, threadVars, writeVars, heapVars
<1>11. PICK w \in BOOLEAN : mem' = [mem EXCEPT ![o].hdr = Aged(@, w)]
  BY Zenon DEF CheckAndUpdate, WriteBit, QueueInv, TypeOK, Image, Header
<1>12. /\ mem'[o].data = mem[o].data /\ mem'[o].hdr.dirty = mem[o].hdr.dirty
      /\ \A x \in Objects \ {o} : mem'[x] = mem[x]
  BY Zenon, <1>11, AgedMem DEF QueueInv, TypeOK
<1>13. \A x : Queued(x)' <=> Queued(x) \/ (MustWrite(o) /\ x = o)
  <2>1. \A x : Has(writeQueue', x) <=> Has(writeQueue, x) \/ (MustWrite(o) /\ x = o)
    <3>1. CASE MustWrite(o)
      <4>1. writeQueue' = Append(writeQueue, o) /\ ~Has(writeQueue, o)
        BY <3>1 DEF CheckAndUpdate, MustWrite, Queued, Has
      <4> QED
        BY SMTT(30), <3>1, <4>1, AppendedQueue DEF QueueInv, TypeOK, Distinct
    <3>2. CASE ~MustWrite(o)
      BY <3>2 DEF CheckAndUpdate
    <3> QED
      BY <3>1, <3>2
  <2> QED
    BY <2>1 DEF Queued, Has
<1>14. wpc = "idle"
  BY DEF Calm, CheckAndUpdate, MayCollect
<1>1. StateInv'
  BY <1>12, <1>13, <1>14, EntriesAssumption DEF Calm, QueueInv, TypeOK, StateInv, Live,
     CheckAndUpdate
<1>2. ThreadInv'
  BY <1>12, <1>13, <1>14 DEF Calm, QueueInv, TypeOK, ThreadInv, StateInv, Live,
     CheckAndUpdate
<1>3. CleanInv'
  BY <1>12, <1>13, <1>14 DEF Calm, QueueInv, TypeOK, CleanInv, StateInv, ThreadInv, Live,
     Marking, Writing, CheckAndUpdate
<1>4. WriteInv'
  BY <1>12, <1>13, <1>14 DEF Calm, QueueInv, TypeOK, WriteInv, StateInv, ThreadInv, Live,
     Marking, CheckAndUpdate
<1>5. CandidateInv'
  BY <1>12, <1>13, <1>14 DEF Calm, QueueInv, TypeOK, CandidateInv, StateInv, CleanInv,
     Live, Queued, CheckAndUpdate, MustWrite, IsCandidate, Writing
<1> QED
  BY <1>1, <1>2, <1>3, <1>4, <1>5

(* GcRecordFree keeps the invariant.                                  *)
LEMMA CalmGcRecordFree ==
  ASSUME Calm, CalmInv, TypeOK', NEW o \in Objects, GcRecordFree(o)
  PROVE  StateInv' /\ ThreadInv' /\ CleanInv' /\ WriteInv' /\ CandidateInv'
PROOF
<1> USE DEF CalmInv, queueVars, threadVars, writeVars, heapVars
<1>13. \A x : Queued(x)' <=> Queued(x) /\ x # o
  <2>1. \A x : Has(writeQueue', x) <=> Has(writeQueue, x) /\ x # o
    BY ErasedQueue DEF QueueInv, TypeOK, GcRecordFree, Distinct
  <2> QED
    BY <2>1 DEF Queued, Has
<1>14. wpc = "idle"
  BY DEF Calm, GcRecordFree, MayCollect
<1>1. StateInv'
  BY <1>13, <1>14, EntriesAssumption DEF Calm, QueueInv, TypeOK, StateInv, Live,
     GcRecordFree, ReleaseEntry, NotUsed
<1>2. ThreadInv'
  BY <1>13, <1>14 DEF Calm, QueueInv, TypeOK, ThreadInv, StateInv, Live, GcRecordFree,
     ReleaseEntry, NotUsed
<1>3. CleanInv'
  BY <1>13, <1>14 DEF Calm, QueueInv, TypeOK, CleanInv, StateInv, ThreadInv, Live,
     Marking, Writing, GcRecordFree, ReleaseEntry, NotUsed
<1>4. WriteInv'
  BY SMTT(30), <1>13, <1>14 DEF Calm, QueueInv, TypeOK, WriteInv, StateInv, ThreadInv,
     Live,
     Marking, GcRecordFree, ReleaseEntry, NotUsed
<1>5. CandidateInv'
  BY Zenon, <1>13, <1>14 DEF Calm, QueueInv, TypeOK, CandidateInv, StateInv, CleanInv,
     Live,
     Queued, GcRecordFree, ReleaseEntry, NotUsed
<1> QED
  BY <1>1, <1>2, <1>3, <1>4, <1>5

(* BeginAccess keeps the invariant.                                   *)
LEMMA CalmBeginAccess ==
  ASSUME Calm, CalmInv, TypeOK', NEW t \in Threads, NEW o \in Objects, BeginAccess(t, o)
  PROVE  StateInv' /\ ThreadInv' /\ CleanInv' /\ WriteInv' /\ CandidateInv'
PROOF
<1> USE DEF CalmInv, queueVars, threadVars, writeVars, heapVars
<1>1. StateInv'
  BY EntriesAssumption DEF Calm, QueueInv, TypeOK, StateInv, Live, BeginAccess, Goto,
     NeedsSwapIn
<1>2. ThreadInv'
  BY DEF Calm, QueueInv, TypeOK, ThreadInv, StateInv, Live, BeginAccess, Goto, NeedsSwapIn
<1>3. CleanInv'
  BY DEF Calm, QueueInv, TypeOK, CleanInv, StateInv, ThreadInv, Live, Marking, Writing,
     BeginAccess, Goto, NeedsSwapIn
<1>4. WriteInv'
  BY DEF Calm, QueueInv, TypeOK, WriteInv, StateInv, ThreadInv, Live, Marking,
     BeginAccess, Goto, NeedsSwapIn
<1>5. CandidateInv'
  BY SMTT(30) DEF Calm, QueueInv, TypeOK, CandidateInv, StateInv, CleanInv, Live, Queued,
     BeginAccess, Goto, NeedsSwapIn
<1> QED
  BY <1>1, <1>2, <1>3, <1>4, <1>5

(* SwapInOnDemand keeps the invariant.                                *)
LEMMA CalmSwapInOnDemand ==
  ASSUME Calm, CalmInv, TypeOK', NEW t \in Threads, SwapInOnDemand(t)
  PROVE  StateInv' /\ ThreadInv' /\ CleanInv' /\ WriteInv' /\ CandidateInv'
PROOF
<1> USE DEF CalmInv, queueVars, threadVars, writeVars, heapVars
<1>1. StateInv'
  BY EntriesAssumption DEF Calm, QueueInv, TypeOK, StateInv, Live, SwapInOnDemand, Goto,
     ThreadInv
<1>2. ThreadInv'
  BY DEF Calm, QueueInv, TypeOK, ThreadInv, StateInv, Live, SwapInOnDemand, Goto,
     ThreadInv
<1>3. CleanInv'
  BY SMTT(30) DEF Calm, QueueInv, TypeOK, CleanInv, StateInv, ThreadInv, Live, Marking,
     Writing,
     SwapInOnDemand, Goto, ThreadInv
<1>4. WriteInv'
  BY SMTT(30) DEF Calm, QueueInv, TypeOK, WriteInv, StateInv, ThreadInv, Live, Marking,
     SwapInOnDemand, Goto, ThreadInv
<1>5. CandidateInv'
  <2>1. file' = file
    BY EntriesAssumption DEF QueueInv, TypeOK, StateInv, ThreadInv, SwapInOnDemand
  <2> QED
    BY <2>1 DEF CandidateInv, Queued, SwapInOnDemand
<1> QED
  BY <1>1, <1>2, <1>3, <1>4, <1>5

(* ReadSnapshot keeps the invariant.                                  *)
LEMMA CalmReadSnapshot ==
  ASSUME Calm, CalmInv, TypeOK', NEW t \in Threads, ReadSnapshot(t)
  PROVE  StateInv' /\ ThreadInv' /\ CleanInv' /\ WriteInv' /\ CandidateInv'
PROOF
<1> USE DEF CalmInv, queueVars, threadVars, writeVars, heapVars
<1>1. StateInv'
  BY EntriesAssumption DEF Calm, QueueInv, TypeOK, StateInv, Live, ReadSnapshot, Goto,
     ReadBack, ThreadInv
<1>2. ThreadInv'
  <2>1. at[t] \in Objects /\ state[at[t]] = "stubbed" /\ ~resident[at[t]]
    BY SMTT(30) DEF QueueInv, TypeOK, ThreadInv, ReadSnapshot
  <2>2. ReadBack(at[t]) = file[at[t]]
    BY <2>1, EntriesAssumption DEF StateInv, ReadBack
  <2> QED
    BY <2>1, <2>2 DEF Calm, QueueInv, TypeOK, ThreadInv, ReadSnapshot, Goto
<1>3. CleanInv'
  BY SMTT(30) DEF Calm, QueueInv, TypeOK, CleanInv, StateInv, ThreadInv, Live, Marking,
     Writing,
     ReadSnapshot, Goto, ReadBack, ThreadInv
<1>4. WriteInv'
  BY SMTT(30) DEF Calm, QueueInv, TypeOK, WriteInv, StateInv, ThreadInv, Live, Marking,
     ReadSnapshot, Goto, ReadBack, ThreadInv
<1>5. CandidateInv'
  BY DEF Calm, QueueInv, TypeOK, CandidateInv, StateInv, CleanInv, Live, Queued,
     ReadSnapshot, Goto, ReadBack, ThreadInv
<1> QED
  BY <1>1, <1>2, <1>3, <1>4, <1>5

(* InstallSnapshot keeps the invariant.                               *)
LEMMA CalmInstallSnapshot ==
  ASSUME Calm, CalmInv, TypeOK', NEW t \in Threads, InstallSnapshot(t)
  PROVE  StateInv' /\ ThreadInv' /\ CleanInv' /\ WriteInv' /\ CandidateInv'
PROOF
<1> USE DEF CalmInv, queueVars, threadVars, writeVars, heapVars
<1>1. StateInv'
  BY EntriesAssumption DEF Calm, QueueInv, TypeOK, StateInv, Live, InstallSnapshot, Goto,
     ThreadInv
<1>2. ThreadInv'
  BY SMTT(30) DEF Calm, QueueInv, TypeOK, ThreadInv, StateInv, Live, InstallSnapshot,
     Goto,
     ThreadInv
<1>3. CleanInv'
  BY SMTT(30) DEF Calm, QueueInv, TypeOK, CleanInv, StateInv, ThreadInv, Live, Marking,
     Writing,
     InstallSnapshot, Goto, ThreadInv
<1>4. WriteInv'
  BY SMTT(30) DEF Calm, QueueInv, TypeOK, WriteInv, StateInv, ThreadInv, Live, Marking,
     InstallSnapshot, Goto, ThreadInv
<1>5. CandidateInv'
  BY DEF Calm, QueueInv, TypeOK, CandidateInv, StateInv, CleanInv, Live, Queued,
     InstallSnapshot, Goto, ThreadInv
<1> QED
  BY <1>1, <1>2, <1>3, <1>4, <1>5

(* ReadField keeps the invariant.                                     *)
LEMMA CalmReadField ==
  ASSUME Calm, CalmInv, TypeOK', NEW t \in Threads, ReadField(t)
  PROVE  StateInv' /\ ThreadInv' /\ CleanInv' /\ WriteInv' /\ CandidateInv'
PROOF
<1> USE DEF CalmInv, queueVars, threadVars, writeVars, heapVars
<1>1. StateInv'
  BY EntriesAssumption DEF Calm, QueueInv, TypeOK, StateInv, Live, ReadField, Goto
<1>2. ThreadInv'
  BY SMTT(30) DEF Calm, QueueInv, TypeOK, ThreadInv, StateInv, Live, ReadField, Goto
<1>3. CleanInv'
  BY SMTT(30) DEF Calm, QueueInv, TypeOK, CleanInv, StateInv, ThreadInv, Live, Marking,
     Writing,
     ReadField, Goto
<1>4. WriteInv'
  BY DEF Calm, QueueInv, TypeOK, WriteInv, StateInv, ThreadInv, Live, Marking, ReadField,
     Goto
<1>5. CandidateInv'
  BY DEF Calm, QueueInv, TypeOK, CandidateInv, StateInv, CleanInv, Live, Queued,
     ReadField, Goto
<1> QED
  BY <1>1, <1>2, <1>3, <1>4, <1>5

(* StoreField keeps the invariant.                                    *)
LEMMA CalmStoreField ==
  ASSUME Calm, CalmInv, TypeOK', NEW t \in Threads, StoreField(t)
  PROVE  StateInv' /\ ThreadInv' /\ CleanInv' /\ WriteInv' /\ CandidateInv'
PROOF
<1> USE DEF CalmInv, queueVars, threadVars, writeVars, heapVars
<1>11. PICK f \in Fields, v \in Values : mem' = [mem EXCEPT ![at[t]].data[f] = v]
  BY Zenon DEF StoreField
<1>12. /\ at[t] \in Objects /\ mem'[at[t]].hdr = mem[at[t]].hdr
      /\ \A x \in Objects \ {at[t]} : mem'[x] = mem[x]
  BY <1>11, StoredMem DEF QueueInv, TypeOK
<1>1. StateInv'
  BY <1>12, EntriesAssumption DEF Calm, QueueInv, TypeOK, StateInv, Live, StoreField, Goto
<1>2. ThreadInv'
  BY <1>12 DEF Calm, QueueInv, TypeOK, ThreadInv, StateInv, Live, StoreField, Goto
<1>3. CleanInv'
  BY <1>12 DEF Calm, QueueInv, TypeOK, CleanInv, StateInv, ThreadInv, Live, Marking,
     Writing, StoreField, Goto
<1>4. WriteInv'
  BY <1>12 DEF Calm, QueueInv, TypeOK, WriteInv, StateInv, ThreadInv, Live, Marking,
     StoreField, Goto
<1>5. CandidateInv'
  BY <1>12 DEF Calm, QueueInv, TypeOK, CandidateInv, StateInv, CleanInv, Live, Queued,
     StoreField, Goto
<1> QED
  BY <1>1, <1>2, <1>3, <1>4, <1>5

(* SetWriteBitAndDirtyBit keeps the invariant.                        *)
LEMMA CalmSetWriteBitAndDirtyBit ==
  ASSUME Calm, CalmInv, TypeOK', NEW t \in Threads, SetWriteBitAndDirtyBit(t)
  PROVE  StateInv' /\ ThreadInv' /\ CleanInv' /\ WriteInv' /\ CandidateInv'
PROOF
<1> USE DEF CalmInv, queueVars, threadVars, writeVars, heapVars
<1>11. PICK w \in BOOLEAN :
        mem' = [mem EXCEPT ![at[t]].hdr.dirty = TRUE, ![at[t]].hdr.written = w]
  <2>1. mem[at[t]].hdr.written \in BOOLEAN
    BY SMTT(30) DEF QueueInv, TypeOK, Image, Header
  <2> QED
    BY Zenon, <2>1 DEF SetWriteBitAndDirtyBit, WriteBit
<1>12. /\ at[t] \in Objects /\ mem'[at[t]].hdr.dirty
      /\ \A x \in Objects \ {at[t]} : mem'[x] = mem[x]
  BY Zenon, <1>11, MarkedMem DEF QueueInv, TypeOK
<1>1. StateInv'
  BY <1>12, EntriesAssumption DEF Calm, QueueInv, TypeOK, StateInv, Live,
     SetWriteBitAndDirtyBit, Goto, WriteBit
<1>2. ThreadInv'
  BY <1>12 DEF Calm, QueueInv, TypeOK, ThreadInv, StateInv, Live, SetWriteBitAndDirtyBit,
     Goto, WriteBit
<1>3. CleanInv'
  BY SMTT(30), <1>12 DEF Calm, QueueInv, TypeOK, CleanInv, StateInv, ThreadInv, Live,
     Marking,
     Writing, SetWriteBitAndDirtyBit, Goto, WriteBit
<1>4. WriteInv'
  BY <1>12 DEF Calm, QueueInv, TypeOK, WriteInv, StateInv, ThreadInv, Live, Marking,
     SetWriteBitAndDirtyBit, Goto, WriteBit
<1>5. CandidateInv'
  BY <1>12 DEF Calm, QueueInv, TypeOK, CandidateInv, StateInv, CleanInv, Live, Queued,
     SetWriteBitAndDirtyBit, Goto, WriteBit
<1> QED
  BY <1>1, <1>2, <1>3, <1>4, <1>5

(* Dequeue keeps the invariant.                                       *)
LEMMA CalmDequeue ==
  ASSUME Calm, CalmInv, TypeOK', Dequeue
  PROVE  StateInv' /\ ThreadInv' /\ CleanInv' /\ WriteInv' /\ CandidateInv'
PROOF
<1> USE DEF CalmInv, queueVars, threadVars, writeVars, heapVars
<1>13. /\ \A x : Queued(x) <=> Queued(x)' \/ x = wobj'
      /\ wobj' \in Objects /\ resident[wobj']
  BY SMTT(30), TailQueue DEF QueueInv, TypeOK, WrittenIsResident, Dequeue, Queued, Has,
     Distinct
<1>1. StateInv'
  BY SMTT(30), <1>13, EntriesAssumption DEF Calm, QueueInv, TypeOK, StateInv, Live,
     Dequeue
<1>2. ThreadInv'
  BY SMTT(30), <1>13 DEF Calm, QueueInv, TypeOK, ThreadInv, StateInv, Live, Dequeue
<1>3. CleanInv'
  BY SMTT(30), <1>13 DEF Calm, QueueInv, TypeOK, CleanInv, StateInv, ThreadInv, Live,
     Marking,
     Writing, Dequeue
<1>4. WriteInv'
  BY <1>13 DEF Calm, QueueInv, TypeOK, WriteInv, StateInv, ThreadInv, Live, Marking,
     Dequeue
<1>5. CandidateInv'
  BY Zenon, <1>13 DEF Calm, QueueInv, TypeOK, CandidateInv, StateInv, CleanInv, Live,
     Queued,
     Dequeue
<1> QED
  BY <1>1, <1>2, <1>3, <1>4, <1>5

(* ClearDirtyBit keeps the invariant.                                 *)
LEMMA CalmClearDirtyBit ==
  ASSUME Calm, CalmInv, TypeOK', ClearDirtyBit
  PROVE  StateInv' /\ ThreadInv' /\ CleanInv' /\ WriteInv' /\ CandidateInv'
PROOF
<1> USE DEF CalmInv, queueVars, threadVars, writeVars, heapVars
<1>11. wobj \in Objects /\ resident[wobj]
  BY DEF QueueInv, TypeOK, WriteInv, ClearDirtyBit
<1>12. /\ mem' = [mem EXCEPT ![wobj].hdr.dirty = FALSE] /\ wpc' = "header"
      /\ mem'[wobj].data = mem[wobj].data
      /\ \A x \in Objects \ {wobj} : mem'[x] = mem[x]
  BY <1>11, ClearedMem DEF ClearDirtyBit, QueueInv
<1>1. StateInv'
  BY <1>11, <1>12, EntriesAssumption DEF Calm, QueueInv, TypeOK, StateInv, Live,
     ClearDirtyBit
<1>2. ThreadInv'
  BY <1>11, <1>12 DEF Calm, QueueInv, TypeOK, ThreadInv, StateInv, Live, ClearDirtyBit
<1>3. CleanInv'
  BY <1>11, <1>12 DEF Calm, QueueInv, TypeOK, CleanInv, StateInv, ThreadInv, Live,
     Marking, Writing, ClearDirtyBit
<1>4. WriteInv'
  BY <1>11, <1>12 DEF Calm, QueueInv, TypeOK, WriteInv, StateInv, ThreadInv, Live,
     Marking, ClearDirtyBit
<1>5. CandidateInv'
  BY <1>11, <1>12 DEF Calm, QueueInv, TypeOK, CandidateInv, StateInv, CleanInv, Live,
     Queued, ClearDirtyBit
<1> QED
  BY <1>1, <1>2, <1>3, <1>4, <1>5

(* CopyHeader keeps the invariant.                                    *)
LEMMA CalmCopyHeader ==
  ASSUME Calm, CalmInv, TypeOK', CopyHeader
  PROVE  StateInv' /\ ThreadInv' /\ CleanInv' /\ WriteInv' /\ CandidateInv'
PROOF
<1> USE DEF CalmInv, queueVars, threadVars, writeVars, heapVars
<1>1. StateInv'
  BY EntriesAssumption DEF Calm, QueueInv, TypeOK, StateInv, Live, CopyHeader
<1>2. ThreadInv'
  BY DEF Calm, QueueInv, TypeOK, ThreadInv, StateInv, Live, CopyHeader
<1>3. CleanInv'
  BY DEF Calm, QueueInv, TypeOK, CleanInv, StateInv, ThreadInv, Live, Marking, Writing,
     CopyHeader
<1>4. WriteInv'
  BY DEF Calm, QueueInv, TypeOK, WriteInv, StateInv, ThreadInv, Live, Marking, CopyHeader
<1>5. CandidateInv'
  BY DEF Calm, QueueInv, TypeOK, CandidateInv, StateInv, CleanInv, Live, Queued,
     CopyHeader
<1> QED
  BY <1>1, <1>2, <1>3, <1>4, <1>5

(* CopyField keeps the invariant.                                     *)
LEMMA CalmCopyField ==
  ASSUME Calm, CalmInv, TypeOK', CopyField
  PROVE  StateInv' /\ ThreadInv' /\ CleanInv' /\ WriteInv' /\ CandidateInv'
PROOF
<1> USE DEF CalmInv, queueVars, threadVars, writeVars, heapVars
<1>1. StateInv'
  BY EntriesAssumption DEF Calm, QueueInv, TypeOK, StateInv, Live, CopyField
<1>2. ThreadInv'
  BY DEF Calm, QueueInv, TypeOK, ThreadInv, StateInv, Live, CopyField
<1>3. CleanInv'
  BY DEF Calm, QueueInv, TypeOK, CleanInv, StateInv, ThreadInv, Live, Marking, Writing,
     CopyField
<1>4. WriteInv'
  <2>1. PICK f \in wleft : /\ buf' = [buf EXCEPT !.data[f] = mem[wobj].data[f]]
                            /\ wleft' = wleft \ {f}
    BY Zenon DEF CopyField
  <2>2. /\ buf'.hdr = buf.hdr
        /\ \A g \in Fields : buf'.data[g] = IF g = f THEN mem[wobj].data[f] ELSE buf.data[g]
    BY <2>1 DEF QueueInv, TypeOK, Image, Data
  <2> QED
    BY <2>1, <2>2 DEF WriteInv, Marking, CopyField
<1>5. CandidateInv'
  BY DEF Calm, QueueInv, TypeOK, CandidateInv, StateInv, CleanInv, Live, Queued, CopyField
<1> QED
  BY <1>1, <1>2, <1>3, <1>4, <1>5

(* Lookup keeps the invariant.                                        *)
LEMMA CalmLookup ==
  ASSUME Calm, CalmInv, TypeOK', Lookup
  PROVE  StateInv' /\ ThreadInv' /\ CleanInv' /\ WriteInv' /\ CandidateInv'
PROOF
<1> USE DEF CalmInv, queueVars, threadVars, writeVars, heapVars
<1>1. StateInv'
  BY SMTT(30), EntriesAssumption DEF Calm, QueueInv, TypeOK, StateInv, Live, Lookup,
     InMaps
<1>2. ThreadInv'
  BY SMTT(30) DEF Calm, QueueInv, TypeOK, ThreadInv, StateInv, Live, Lookup, InMaps
<1>3. CleanInv'
  BY SMTT(30) DEF Calm, QueueInv, TypeOK, CleanInv, StateInv, ThreadInv, Live, Marking,
     Writing,
     Lookup, InMaps
<1>4. WriteInv'
  BY SMTT(30) DEF Calm, QueueInv, TypeOK, WriteInv, StateInv, ThreadInv, Live, Marking,
     Lookup,
     InMaps
<1>5. CandidateInv'
  BY SMTT(30) DEF Calm, QueueInv, TypeOK, CandidateInv, StateInv, CleanInv, Live, Queued,
     Lookup,
     InMaps
<1> QED
  BY <1>1, <1>2, <1>3, <1>4, <1>5

(* WriteSnapshot keeps the invariant.                                 *)
LEMMA CalmWriteSnapshot ==
  ASSUME Calm, CalmInv, TypeOK', WriteSnapshot
  PROVE  StateInv' /\ ThreadInv' /\ CleanInv' /\ WriteInv' /\ CandidateInv'
PROOF
<1> USE DEF CalmInv, queueVars, threadVars, writeVars, heapVars
<1>1. StateInv'
  BY SMTT(30), EntriesAssumption DEF Calm, QueueInv, TypeOK, StateInv, Live,
     WriteSnapshot,
     EndWrite, WriteInv
<1>2. ThreadInv'
  BY SMTT(30) DEF Calm, QueueInv, TypeOK, ThreadInv, StateInv, Live, WriteSnapshot,
     EndWrite,
     WriteInv
<1>3. CleanInv'
  <2>1. file' = [file EXCEPT ![wobj] = buf]
    BY Zenon, EntriesAssumption DEF WriteSnapshot, WriteInv
  <2>2. buf \in Image /\ wobj \in Objects /\ mem[wobj] \in Image
    BY DEF QueueInv, TypeOK
  <2>3. ~mem[wobj].hdr.dirty =>
          ~buf.hdr.dirty /\ (Marking(wobj) \/ buf.data = mem[wobj].data)
    <3>1. ~mem[wobj].hdr.dirty =>
            ~buf.hdr.dirty /\ (Marking(wobj) \/ \A f \in Fields : buf.data[f] = mem[wobj].data[f])
      BY DEF WriteSnapshot, WriteInv
    <3>2. /\ buf.data \in [Fields -> Values \cup {Zero}]
          /\ mem[wobj].data \in [Fields -> Values \cup {Zero}]
      BY <2>2 DEF Image, Data
    <3>3. (\A f \in Fields : buf.data[f] = mem[wobj].data[f]) => buf.data = mem[wobj].data
      BY SMTT(30), <3>2
    <3> QED
      BY SMTT(30), <3>1, <3>3
  <2> QED
    BY SMTT(30), <2>1, <2>2, <2>3
       DEF QueueInv, TypeOK, CleanInv, Marking, Writing, WriteSnapshot, EndWrite
<1>4. WriteInv'
  BY DEF Calm, QueueInv, TypeOK, WriteInv, StateInv, ThreadInv, Live, Marking,
     WriteSnapshot, EndWrite
<1>5. CandidateInv'
  <2>1. file' = [file EXCEPT ![wobj] = buf]
    BY Zenon, EntriesAssumption DEF WriteSnapshot, WriteInv
  <2> QED
    BY <2>1 DEF QueueInv, TypeOK, CandidateInv, Queued, WriteSnapshot, EndWrite
<1> QED
  BY <1>1, <1>2, <1>3, <1>4, <1>5

(* PerformHomogeneousSpaceCompact keeps the invariant.                *)
LEMMA CalmPerformHomogeneousSpaceCompact ==
  ASSUME Calm, CalmInv, TypeOK', PerformHomogeneousSpaceCompact
  PROVE  StateInv' /\ ThreadInv' /\ CleanInv' /\ WriteInv' /\ CandidateInv'
PROOF
<1> USE DEF CalmInv, queueVars, threadVars, writeVars, heapVars
<1>1. StateInv'
  <2>1. \A o \in createStubSet : file[o] \in Image
    BY SMTT(30) DEF Calm, CandidateInv, Queued, Stopped, PerformHomogeneousSpaceCompact
  <2>2. \A o \in Objects : resident[o] /\ Reclaimable(o) => ~file[o].hdr.dirty
    <3>1. wpc = "idle"
      BY DEF Stopped, PerformHomogeneousSpaceCompact
    <3>2. \A o \in Objects : ~Writing(o)
      BY <3>1 DEF Writing
    <3> QED
      BY <3>2 DEF CleanInv, Reclaimable
  <2> DEFINE stubs == createStubSet \cup {o \in Objects : state[o] = "stubbed"}
             out == {o \in stubs : resident[o] /\ Reclaimable(o)}
  <2>3. PICK dead \in SUBSET {o \in Objects : Live(o)} :
          /\ state' = [o \in Objects |-> IF o \in dead THEN "free"
                                         ELSE IF o \in stubs THEN "stubbed" ELSE state[o]]
          /\ resident' = [o \in Objects |-> resident[o] /\ o \notin out \cup dead]
          /\ file' = [o \in Objects |-> IF o \in dead THEN NoEntry ELSE file[o]]
          /\ rte' = [o \in Objects |->
                       (rte[o] \/ o \in createStubSet) /\ ~(o \in dead /\ InMaps(o))]
    BY ZenonT(30) DEF PerformHomogeneousSpaceCompact
  <2>4. ~streamBad'
    BY DEF StateInv, PerformHomogeneousSpaceCompact
  <2>5. \A o \in Objects : (rte[o] \/ o \in createStubSet) => o \in stubs /\ InMaps(o)
    BY <2>1, EntriesAssumption DEF StateInv, InMaps
  <2>6. \A o \in stubs : file[o] \in Image /\ (~resident[o] => ~file[o].hdr.dirty)
    BY <2>1 DEF QueueInv, TypeOK, CandidatesArePlain, StateInv
  <2>7. \A o \in Objects : o \notin stubs => state[o] # "stubbed"
    BY SMTT(30)
  <2>8. ASSUME NEW o \in Objects
        PROVE  /\ state'[o] = "plain" => resident'[o]
               /\ resident'[o] => state'[o] # "free"
               /\ rte'[o] => state'[o] = "stubbed"
               /\ file'[o] \in Image \cup {NoEntry}
               /\ state'[o] = "stubbed" => file'[o] \in Image
               /\ state'[o] = "stubbed" /\ ~resident'[o] => ~file'[o].hdr.dirty
    <3> HIDE DEF stubs
    <3>1. CASE o \in dead
      BY Zenon, <2>3, <2>5, <3>1
    <3>2. CASE o \notin dead
      BY ZenonT(30), <2>2, <2>3, <2>5, <2>6, <2>7, <3>2 DEF StateInv, Live
    <3> QED
      BY SMTT(30), <3>1, <3>2
  <2> QED
    BY SMTT(30), <2>4, <2>8 DEF StateInv, Live
<1>2. ThreadInv'
  BY SMTT(30) DEF Calm, QueueInv, TypeOK, ThreadInv, StateInv, Live,
     PerformHomogeneousSpaceCompact, ClearQueue, Stopped, InMaps, Reclaimable
<1>3. CleanInv'
  BY DEF Calm, QueueInv, TypeOK, CleanInv, StateInv, ThreadInv, Live, Marking, Writing,
     PerformHomogeneousSpaceCompact, ClearQueue, Stopped, InMaps, Reclaimable
<1>4. WriteInv'
  BY SMTT(30) DEF Calm, QueueInv, TypeOK, WriteInv, StateInv, ThreadInv, Live, Marking,
     PerformHomogeneousSpaceCompact, ClearQueue, Stopped, InMaps, Reclaimable
<1>5. CandidateInv'
  BY SMTT(30) DEF Calm, QueueInv, TypeOK, CandidateInv, StateInv, CleanInv, Live, Queued,
     PerformHomogeneousSpaceCompact, ClearQueue, Stopped, InMaps, Reclaimable
<1> QED
  BY <1>1, <1>2, <1>3, <1>4, <1>5

(* SwapObjectsIn keeps the invariant.                                 *)
LEMMA CalmSwapObjectsIn ==
  ASSUME Calm, CalmInv, TypeOK', SwapObjectsIn
  PROVE  StateInv' /\ ThreadInv' /\ CleanInv' /\ WriteInv' /\ CandidateInv'
PROOF
<1> USE DEF CalmInv, queueVars, threadVars, writeVars, heapVars
<1>1. StateInv'
  BY SMTT(30), EntriesAssumption DEF Calm, QueueInv, TypeOK, StateInv, Live,
     SwapObjectsIn,
     ReadBack, Stopped, SwapsIn, InMaps
<1>2. ThreadInv'
  BY SMTT(30) DEF Calm, QueueInv, TypeOK, ThreadInv, StateInv, Live, SwapObjectsIn,
     ReadBack,
     Stopped, SwapsIn, InMaps
<1>3. CleanInv'
  <2>1. \A o \in Objects : SwapsIn(o) => ReadBack(o) = file[o]
    BY ZenonT(30), EntriesAssumption DEF StateInv, SwapsIn, ReadBack
  <2> QED
    BY <2>1 DEF QueueInv, TypeOK, CleanInv, StateInv, Marking, Writing, SwapsIn,
       SwapObjectsIn
<1>4. WriteInv'
  BY SMTT(30) DEF Calm, QueueInv, TypeOK, WriteInv, StateInv, ThreadInv, Live, Marking,
     SwapObjectsIn, ReadBack, Stopped, SwapsIn, InMaps
<1>5. CandidateInv'
  BY DEF Calm, QueueInv, TypeOK, CandidateInv, StateInv, CleanInv, Live, Queued,
     SwapObjectsIn, ReadBack, Stopped, SwapsIn, InMaps
<1> QED
  BY <1>1, <1>2, <1>3, <1>4, <1>5

(* Every step keeps the invariant of the calm case.                        *)
LEMMA CalmStep ==
  ASSUME Calm, CalmInv, [Next]_vars
  PROVE  CalmInv'
PROOF
<1>1. QueueInv'
  BY TypeStep, QueueStep DEF CalmInv, QueueInv
<1>2. StateInv' /\ ThreadInv' /\ CleanInv' /\ WriteInv' /\ CandidateInv'
  <2>1. TypeOK'
    BY SMTT(30), <1>1 DEF QueueInv
  <2>2. CASE UNCHANGED vars
    BY SMTT(30), <2>2 DEF CalmInv, StateInv, ThreadInv, CleanInv, WriteInv, CandidateInv,
       vars,
       heapVars, queueVars, threadVars, writeVars, Live, Queued, Marking, Writing
  <2>3. CASE Next
    <3>1. ~\E t \in Threads : CasField(t)
      BY DEF Calm, CasField
    <3>2. ~WriteFails
      BY DEF Calm, WriteFails
    <3> QED
      BY <2>1, <2>3, <3>1, <3>2,
         CalmAllocate, CalmCheckAndUpdate, CalmGcRecordFree, CalmBeginAccess,
            CalmSwapInOnDemand, CalmReadSnapshot, CalmInstallSnapshot, CalmReadField,
            CalmStoreField, CalmSetWriteBitAndDirtyBit, CalmDequeue,
            CalmClearDirtyBit, CalmCopyHeader, CalmCopyField, CalmLookup,
            CalmWriteSnapshot, CalmPerformHomogeneousSpaceCompact, CalmSwapObjectsIn
      DEF Next, AppStep, WriteTaskStep
  <2> QED
    BY <2>2, <2>3
<1> QED
  BY <1>1, <1>2 DEF CalmInv

(* The inductive invariant of the calm case.                               *)
THEOREM CalmInvariance == Calm => (Spec => []CalmInv)
PROOF
<1> SUFFICES ASSUME Calm PROVE Spec => []CalmInv
  BY SMTT(30)
<1>1. Init => StateInv /\ ThreadInv /\ CleanInv /\ WriteInv /\ CandidateInv
  BY DEF Init, StateInv, ThreadInv, CleanInv, WriteInv, CandidateInv, Live
<1>2. Init => QueueInv
  <2>1. Init => WrittenIsResident /\ CandidatesArePlain
    BY DEF Init, WrittenIsResident, CandidatesArePlain, Queued
  <2> QED
    BY <2>1, InitTypes DEF QueueInv
<1>3. CalmInv /\ [Next]_vars => CalmInv'
  BY CalmStep
<1> QED
  BY <1>1, <1>2, <1>3, PTL DEF Spec, CalmInv

(* What the comment on doKernelReclamationChecks promises: whatever passes *)
(* the checks can be restored from the swap file.                          *)
THEOREM SafeReclamation == Calm => (Spec => []SafeToReclaim)
PROOF
<1>1. CalmInv => SafeToReclaim
  BY DEF CalmInv, StateInv, CleanInv, SafeToReclaim, Stopped, Marking, Writing,
     Reclaimable
<1> QED
  BY <1>1, CalmInvariance, PTL

(* Every live stub is a key of the object maps, as                         *)
(* SemiSpaceRecordStubMappings assumes.                                    *)
THEOREM StubsMapped == Calm => (Spec => []StubsInMaps)
PROOF
<1>1. CalmInv => StubsInMaps
  BY EntriesAssumption DEF CalmInv, StateInv, StubsInMaps, InMaps
<1> QED
  BY <1>1, CalmInvariance, PTL

(* No table entry outlives its stub.                                       *)
THEOREM NoEntryLeaks == Calm => (Spec => []NoLeakedEntry)
PROOF
<1>1. CalmInv => NoLeakedEntry
  BY SMTT(30) DEF CalmInv, StateInv, NoLeakedEntry
<1> QED
  BY <1>1, CalmInvariance, PTL

(* Whatever the WriteTask and the stores interleave to, what swapInObject  *)
(* reads back has a clear dirty bit.                                       *)
THEOREM SwapInReadsClean == Calm => (Spec => []RestoredIsClean)
PROOF
<1>1. CalmInv => RestoredIsClean
  <2> SUFFICES ASSUME CalmInv PROVE RestoredIsClean
    OBVIOUS
  <2>1. ASSUME NEW t \in Threads, pc[t] = "install"
        PROVE  ~mem[at[t]].hdr.dirty
    BY <2>1 DEF CalmInv, QueueInv, TypeOK, StateInv, ThreadInv
  <2>2. ASSUME NEW o \in Objects, SwapsIn(o)
        PROVE  ~ReadBack(o).hdr.dirty
    BY <2>2, EntriesAssumption DEF CalmInv, StateInv, SwapsIn, ReadBack
  <2> QED
    BY <2>1, <2>2 DEF RestoredIsClean
<1> QED
  BY <1>1, CalmInvariance, PTL

-----------------------------------------------------------------------------
(* Swapping is transparent.                                                *)

(* What the program sees of one object.                                    *)
View(o) ==
  IF ~Live(o) THEN Unallocated
  ELSE IF resident[o] THEN mem[o].data
  ELSE IF file[o] \in Image THEN file[o].data ELSE ZeroImage.data

(* The contents are a function of the views.                               *)
LEMMA Views ==
  /\ Contents = [o \in Objects |-> View(o)]
  /\ Contents' = [o \in Objects |-> View(o)']
PROOF
  BY SMTT(30) DEF Contents, View

(* Live objects never look unallocated.                                    *)
LEMMA LiveViews ==
  ASSUME TypeOK, NEW o \in Objects
  PROVE  View(o) = Unallocated <=> ~Live(o)
PROOF
<1>1. mem[o].data \in Data /\ (file[o] \in Image => file[o].data \in Data)
  BY DEF TypeOK, Image
<1>2. ZeroImage.data \in Data
  BY ConstantImages DEF Image
<1> QED
  BY <1>1, <1>2, EntriesAssumption DEF View

(* A step that keeps every view stutters.                                  *)
LEMMA SameViews ==
  ASSUME \A o \in Objects : View(o)' = View(o)
  PROVE  UNCHANGED Contents
PROOF
  BY Views

(* An allocation is an allocation.                                         *)
LEMMA StoreAllocate ==
  ASSUME CalmInv, NEW o \in Objects, Allocate(o)
  PROVE  Store!Next
PROOF
<1>1. TypeOK
  BY DEF CalmInv, QueueInv
<1>2. View(o) = Unallocated
  BY SMTT(30), <1>1, LiveViews DEF Allocate, Live
<1>3. View(o)' = [f \in Fields |-> InitialValue]
  BY SMTT(30), <1>1 DEF Allocate, View, Live, TypeOK, NewImage
<1>4. \A x \in Objects \ {o} : View(x)' = View(x)
  BY <1>1 DEF Allocate, View, Live, TypeOK
<1>5. Store!Allocate(o)
  BY SMTT(30), <1>2, <1>3, <1>4, Views DEF Store!Allocate
<1> QED
  BY <1>5 DEF Store!Next

(* A store is a store.                                                     *)
LEMMA StoreStore ==
  ASSUME CalmInv, NEW t \in Threads, StoreField(t)
  PROVE  Store!Next
PROOF
<1>1. TypeOK
  BY DEF CalmInv, QueueInv
<1>2. PICK f \in Fields, v \in Values : mem' = [mem EXCEPT ![at[t]].data[f] = v]
  BY Zenon DEF StoreField
<1>3. PICK o \in Objects : o = at[t] /\ resident[o] /\ Live(o)
  BY <1>1 DEF StoreField, TypeOK, CalmInv, ThreadInv, StateInv
<1>4. /\ mem'[o].data = [mem[o].data EXCEPT ![f] = v]
      /\ \A x \in Objects \ {o} : mem'[x] = mem[x]
  <2>1. /\ mem'[at[t]].data = [mem[at[t]].data EXCEPT ![f] = v]
        /\ \A x \in Objects \ {at[t]} : mem'[x] = mem[x]
    BY <1>1, <1>2, StoredMem DEF TypeOK
  <2> QED
    BY <1>3, <2>1
<1>5. View(o) = mem[o].data /\ View(o)' = [mem[o].data EXCEPT ![f] = v]
  BY <1>3, <1>4 DEF StoreField, View, Live
<1>6. \A x \in Objects \ {o} : View(x)' = View(x)
  BY ZenonT(30), <1>4 DEF StoreField, View, Live
<1>7. View(o) # Unallocated
  BY <1>1, <1>3, LiveViews
<1>8. Store!Store(o, f, v)
  BY SMTT(30), <1>3, <1>5, <1>6, <1>7, Views DEF Store!Store
<1> QED
  BY <1>3, <1>8 DEF Store!Next

(* A collected object is collected.                                        *)
LEMMA StoreFree ==
  ASSUME CalmInv, NEW o \in Objects, GcRecordFree(o)
  PROVE  Store!Next
PROOF
<1>1. TypeOK
  BY DEF CalmInv, QueueInv
<1>2. View(o)' = Unallocated
  BY SMTT(30), <1>1 DEF GcRecordFree, View, Live, TypeOK
<1>3. \A x \in Objects \ {o} : View(x)' = View(x)
  BY <1>1 DEF GcRecordFree, View, Live, TypeOK
<1>4. Store!Collect({o})
  BY <1>2, <1>3, Views DEF Store!Collect
<1> QED
  BY <1>4 DEF Store!Next

(* A compaction collects the dead objects, and the ones that it swaps out  *)
(* look the same in the swap file.                                         *)
LEMMA StoreCompact ==
  ASSUME CalmInv, PerformHomogeneousSpaceCompact
  PROVE  Store!Next
PROOF
<1> DEFINE stubs   == createStubSet \cup {o \in Objects : state[o] = "stubbed"}
           swapOut == {o \in stubs : resident[o] /\ Reclaimable(o)}
<1>1. TypeOK
  BY DEF CalmInv, QueueInv
<1>2. PICK dead \in SUBSET {o \in Objects : Live(o)} :
        /\ state' = [o \in Objects |->
                       IF o \in dead THEN "free"
                       ELSE IF o \in stubs THEN "stubbed" ELSE state[o]]
        /\ resident' = [o \in Objects |-> resident[o] /\ o \notin swapOut \cup dead]
        /\ mem' = [o \in Objects |-> IF o \in swapOut THEN ZeroImage ELSE mem[o]]
        /\ file' = [o \in Objects |-> IF o \in dead THEN NoEntry ELSE file[o]]
  BY ZenonT(30) DEF PerformHomogeneousSpaceCompact
<1>3. \A o \in swapOut : file[o] \in Image /\ file[o].data = mem[o].data
  BY <1>1 DEF PerformHomogeneousSpaceCompact, Stopped, Marking, Writing, Reclaimable,
     TypeOK, CalmInv, CleanInv
<1>4. \A o \in stubs : Live(o)
  BY SMTT(30) DEF CalmInv, QueueInv, CandidatesArePlain, Live
<1> HIDE DEF stubs, swapOut
<1>5. \A o \in dead : View(o)' = Unallocated
  <2>1. \A o \in dead : state'[o] = "free"
    BY <1>2
  <2> QED
    BY Zenon, <2>1 DEF View, Live
<1>6. \A o \in swapOut \ dead : o \in Objects => View(o)' = View(o)
  <2>1. \A o \in swapOut : o \in stubs /\ resident[o]
    BY DEF swapOut
  <2> QED
    BY Zenon, <1>2, <1>3, <1>4, <2>1 DEF View, Live
<1>7. \A o \in Objects \ (swapOut \cup dead) : View(o)' = View(o)
  BY SMTT(30), <1>1, <1>2, <1>4 DEF View, Live, TypeOK
<1>8. Store!Collect(dead)
  BY Zenon, <1>2, <1>5, <1>6, <1>7, Views DEF Store!Collect
<1> QED
  BY Zenon, <1>2, <1>8 DEF Store!Next

(* What SwapObjectsIn leaves in memory is what the program saw.            *)
LEMMA SameSwapObjectsIn ==
  ASSUME CalmInv, SwapObjectsIn
  PROVE  UNCHANGED Contents
PROOF
<1>1. TypeOK
  BY DEF CalmInv, QueueInv
<1>2. \A o \in Objects : SwapsIn(o) => Live(o) /\ file[o] \in Image /\ ReadBack(o) = file[o]
  BY <1>1, EntriesAssumption DEF CalmInv, StateInv, SwapsIn, ReadBack, Live
<1>3. \A o \in Objects : View(o)' = View(o)
  BY Zenon, <1>1, <1>2 DEF SwapObjectsIn, View, Live, TypeOK, SwapsIn
<1> QED
  BY <1>3, SameViews

(* The swap-in on demand leaves it alone until the object is resident,     *)
(* with the data of the snapshot.                                          *)
LEMMA SameSwapIn ==
  ASSUME CalmInv, NEW t \in Threads,
         SwapInOnDemand(t) \/ ReadSnapshot(t) \/ InstallSnapshot(t)
  PROVE  UNCHANGED Contents
PROOF
<1>1. TypeOK /\ at[t] \in Objects
  BY SMTT(30) DEF CalmInv, QueueInv, TypeOK
<1>2. PICK o \in Objects :
        o = at[t] /\ state[o] = "stubbed" /\ ~resident[o] /\ file[o] \in Image
  BY SMTT(30), <1>1 DEF CalmInv, ThreadInv, StateInv, SwapInOnDemand, ReadSnapshot,
     InstallSnapshot
<1>3. CASE SwapInOnDemand(t)
  <2>1. file' = file
    BY <1>1, <1>2, <1>3, EntriesAssumption DEF SwapInOnDemand, TypeOK
  <2> QED
    BY <1>3, <2>1, SameViews DEF SwapInOnDemand, View, Live
<1>4. CASE ReadSnapshot(t)
  <2>1. \A x \in Objects \ {o} : mem'[x] = mem[x]
    BY SMTT(30), <1>1, <1>2, <1>4 DEF ReadSnapshot, TypeOK
  <2>2. View(o)' = View(o)
    BY SMTT(30), <1>2, <1>4 DEF ReadSnapshot, View, Live
  <2>3. \A x \in Objects \ {o} : View(x)' = View(x)
    BY <1>4, <2>1 DEF ReadSnapshot, View, Live
  <2> QED
    BY <2>2, <2>3, SameViews
<1>5. CASE InstallSnapshot(t)
  <2>1. mem[o] = file[o]
    BY <1>1, <1>2, <1>5 DEF InstallSnapshot, CalmInv, ThreadInv
  <2>2. \A x \in Objects : View(x)' = View(x)
    BY Zenon, <1>1, <1>2, <1>5, <2>1 DEF InstallSnapshot, View, Live, TypeOK
  <2> QED
    BY SMTT(30), <2>2, SameViews
<1> QED
  BY <1>3, <1>4, <1>5

(* Neither do the header updates, which keep the data.                     *)
LEMMA SameHeaders ==
  ASSUME CalmInv,
         \/ \E o \in Objects : CheckAndUpdate(o)
         \/ \E t \in Threads : SetWriteBitAndDirtyBit(t)
         \/ ClearDirtyBit
  PROVE  UNCHANGED Contents
PROOF
<1>1. TypeOK
  BY SMTT(30) DEF CalmInv, QueueInv
<1>2. UNCHANGED <<state, resident, file>>
  BY Zenon DEF CheckAndUpdate, SetWriteBitAndDirtyBit, ClearDirtyBit
<1>3. \A x \in Objects : mem'[x].data = mem[x].data
  <2>1. ASSUME NEW o \in Objects, CheckAndUpdate(o)
        PROVE  \A x \in Objects : mem'[x].data = mem[x].data
    <3>1. PICK w \in WriteBit(mem[o].hdr.written, FALSE) :
            mem' = [mem EXCEPT ![o].hdr = Aged(@, w)]
      BY Zenon, <2>1 DEF CheckAndUpdate
    <3>2. w \in BOOLEAN
      BY Zenon, <1>1, <3>1 DEF TypeOK, WriteBit, Image, Header
    <3> QED
      BY <1>1, <3>1, <3>2, AgedMem
  <2>2. ASSUME NEW t \in Threads, SetWriteBitAndDirtyBit(t)
        PROVE  \A x \in Objects : mem'[x].data = mem[x].data
    <3>1. PICK w \in WriteBit(mem[at[t]].hdr.written, TRUE) :
            mem' = [mem EXCEPT ![at[t]].hdr.dirty = TRUE, ![at[t]].hdr.written = w]
      BY Zenon, <2>2 DEF SetWriteBitAndDirtyBit
    <3>2. at[t] \in Objects /\ w \in BOOLEAN
      BY ZenonT(30), <1>1, <3>1 DEF TypeOK, WriteBit, Image, Header
    <3> QED
      BY Zenon, <1>1, <3>1, <3>2, MarkedMem
  <2>3. ASSUME ClearDirtyBit
        PROVE  \A x \in Objects : mem'[x].data = mem[x].data
    <3>1. wobj \in Objects
      BY <1>1 DEF TypeOK
    <3>2. CASE UNCHANGED mem
      BY <3>2
    <3>3. CASE mem' = [mem EXCEPT ![wobj].hdr.dirty = FALSE]
      BY <1>1, <3>1, <3>3, ClearedMem
    <3> QED
      BY <2>3, <3>2, <3>3 DEF ClearDirtyBit
  <2> QED
    BY <2>1, <2>2, <2>3
<1>4. \A x \in Objects : View(x)' = View(x)
  BY <1>2, <1>3 DEF View, Live
<1> QED
  BY <1>4, SameViews

(* A write to the swap file is of an object that is in memory.             *)
LEMMA SameWrite ==
  ASSUME CalmInv, WriteSnapshot
  PROVE  UNCHANGED Contents
PROOF
<1>1. TypeOK /\ resident[wobj]
  BY DEF CalmInv, QueueInv, WriteInv, WriteSnapshot
<1>2. \A x \in Objects : View(x)' = View(x)
  BY <1>1 DEF WriteSnapshot, View, Live, TypeOK
<1> QED
  BY <1>2, SameViews

(* Every step is a step of the object store or stutters.                   *)
LEMMA StoreStep ==
  ASSUME Calm, CalmInv, [Next]_vars
  PROVE  [Store!Next]_Contents
PROOF
<1>1. ASSUME UNCHANGED heapVars
      PROVE  UNCHANGED Contents
  BY <1>1 DEF heapVars, Contents, Live
<1>2. CASE UNCHANGED vars
  BY <1>1, <1>2 DEF vars
<1>3. ASSUME NEW o \in Objects, Allocate(o) \/ CheckAndUpdate(o) \/ GcRecordFree(o)
      PROVE  [Store!Next]_Contents
  BY <1>3, StoreAllocate, SameHeaders, StoreFree
<1>4. ASSUME NEW t \in Threads, AppStep(t)
      PROVE  [Store!Next]_Contents
  <2>1. ~CasField(t)
    BY DEF Calm, CasField
  <2>2. ReadField(t) => UNCHANGED heapVars
    BY DEF ReadField
  <2> QED
    BY <1>1, <1>4, <2>1, <2>2, SameSwapIn, SameHeaders, StoreStore DEF AppStep
<1>5. ASSUME NEW t \in Threads, NEW o \in Objects, BeginAccess(t, o)
      PROVE  [Store!Next]_Contents
  BY <1>1, <1>5 DEF BeginAccess
<1>6. CASE WriteTaskStep
  <2>1. ~WriteFails
    BY DEF Calm, WriteFails
  <2>2. Dequeue \/ CopyHeader \/ CopyField \/ Lookup => UNCHANGED heapVars
    BY DEF Dequeue, CopyHeader, CopyField, Lookup
  <2> QED
    BY <1>1, <1>6, <2>1, <2>2, SameHeaders, SameWrite DEF WriteTaskStep
<1> QED
  BY SMTT(30), <1>2, <1>3, <1>4, <1>5, <1>6, StoreCompact, SameSwapObjectsIn DEF Next

(* Swapping is transparent: an object's fields change only by the          *)
(* program's own stores, whatever is swapped out and in meanwhile.         *)
THEOREM Transparency == Calm => (Spec => ImplementsStore)
PROOF
<1> SUFFICES ASSUME Calm PROVE Spec => ImplementsStore
  BY SMTT(30)
<1>1. Init => Store!Init
  BY DEF Init, Contents, Live, Store!Init
<1>2. CalmInv /\ [Next]_vars => [Store!Next]_Contents
  BY StoreStep
<1>3. Spec => []CalmInv
  BY CalmInvariance
<1> QED
  BY <1>1, <1>2, <1>3, PTL DEF Spec, ImplementsStore, Store!Spec

=============================================================================
