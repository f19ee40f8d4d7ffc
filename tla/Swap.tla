-------------------------------- MODULE Swap --------------------------------
(***************************************************************************)
(* The life of a swappable object (runtime/marvin_swap.cc): the collector  *)
(* finds it cold, the WriteTask snapshots it to the swap file, CreateStubs *)
(* gives it a stub, SwapObjectsOut discards its pages, and an access or a  *)
(* move to the foreground reads the snapshot back.                         *)
(*                                                                         *)
(* As in the program, stubs are created and objects reclaimed with the     *)
(* world stopped, so the reclamation-table lock (ReclamationTable.tla)     *)
(* never waits here and is left out.  Objects are the ones that qualify    *)
(* for swapping by size, type and space.  An object keeps its name when    *)
(* its map key changes from the object to its stub, as                     *)
(* replaceDataStructurePointers arranges.                                  *)
(***************************************************************************)
EXTENDS Integers, Sequences

CONSTANTS
  Objects, Threads, Fields, Values,
  InitialValue,     \* what allocation leaves in every field
  Zero,             \* what a discarded page reads as
  WsrTop,           \* highest bit of the write shift register, 8 in the code
  AllocGC,          \* a collection may run on an app thread, beside WriteTask
  EarlyCompaction,  \* the heap may be compacted before the queue is drained
  IoErrors,         \* a write to the swap file may fail
  CasWrites,        \* the program uses compare-and-swap operations
  NoEntry, Unwritten, EmptyEntry, Unallocated

ASSUME WsrAssumption == WsrTop \in Nat \ {0}
ASSUME ValuesAssumption == InitialValue \in Values

VARIABLES
  state,        \* "free" memory, a "plain" object, or one with a stub
  resident,     \* the resident bit; plain objects are in memory
  mem,          \* each object in memory: its header bits and its data
  file,         \* its snapshot and its entry in the object maps
  rte,          \* whether an occupied table entry belongs to it
  streamBad,    \* error state of swapfile, which only a compaction clears
  writeQueue,   \* writeQueue, and writeSet as its range
  createStubSet,
  pc, at,       \* each app thread's step and the object it works on
  wpc, wobj, buf, wleft, inSwapFile  \* the WriteTask and writeToSwapFile

heapVars   == <<state, resident, mem, file, rte, streamBad>>
queueVars  == <<writeQueue, createStubSet>>
threadVars == <<pc, at>>
writeVars  == <<wpc, wobj, buf, wleft, inSwapFile>>
vars == <<heapVars, queueVars, threadVars, writeVars>>

Header == [dirty : BOOLEAN, written : BOOLEAN, wsr : 0 .. 2 * WsrTop - 1]
Data   == [Fields -> Values \cup {Zero}]
Image  == [hdr : Header, data : Data]

ASSUME EntriesAssumption ==
  /\ \A e \in {NoEntry, Unwritten, EmptyEntry} : e \notin Image
  /\ NoEntry \notin {Unwritten, EmptyEntry}
  /\ Unallocated \notin Data

(* Pages discarded by madvise read as zeros.                               *)
ZeroImage == [hdr  |-> [dirty |-> FALSE, written |-> FALSE, wsr |-> 0],
              data |-> [f \in Fields |-> Zero]]

(* Allocation stores the class, which marks the object written and dirty.  *)
NewImage == [hdr  |-> [dirty |-> TRUE, written |-> TRUE, wsr |-> 0],
             data |-> [f \in Fields |-> InitialValue]]

(* objectIsCold: no write in the last collections but the oldest recorded. *)
Cold(h) == h.wsr < 2 /\ ~h.written

Live(o)  == state[o] # "free"
InMaps(o) == file[o] # NoEntry
Queued(o) == \E i \in DOMAIN writeQueue : writeQueue[i] = o

Init ==
  /\ state    = [o \in Objects |-> "free"]
  /\ resident = [o \in Objects |-> FALSE]
  /\ mem      = [o \in Objects |-> ZeroImage]
  /\ file     = [o \in Objects |-> NoEntry]
  /\ rte      = [o \in Objects |-> FALSE]
  /\ streamBad = FALSE
  /\ writeQueue = << >>
  /\ createStubSet = {}
  /\ pc = [t \in Threads |-> "idle"]
  /\ \E o \in Objects : at = [t \in Threads |-> o] /\ wobj = o
  /\ wpc = "idle" /\ buf = ZeroImage /\ wleft = {}
  /\ inSwapFile = FALSE

Goto(t, step) == pc' = [pc EXCEPT ![t] = step]

-----------------------------------------------------------------------------
(* App threads.                                                            *)

Allocate(o) ==
  /\ state[o] = "free"
  /\ state' = [state EXCEPT ![o] = "plain"]
  /\ resident' = [resident EXCEPT ![o] = TRUE]
  /\ mem' = [mem EXCEPT ![o] = NewImage]
  /\ UNCHANGED <<file, rte, streamBad, queueVars, threadVars, writeVars>>

(* SWAP_PREAMBLE: an access through a stub looks at the resident bit.      *)
NeedsSwapIn(o) == ~resident[o]

BeginAccess(t, o) ==
  /\ pc[t] = "idle"
  /\ Live(o)
  /\ at' = [at EXCEPT ![t] = o]
  /\ Goto(t, IF NeedsSwapIn(o) THEN "swapin" ELSE "use")
  /\ UNCHANGED <<heapVars, queueVars, writeVars>>

(* SwapInOnDemand: operator[] adds an empty entry for a key not in the     *)
(* maps.  A set resident bit fails swapInObject's first CHECK.             *)
SwapInOnDemand(t) ==
  /\ pc[t] = "swapin"
  /\ ~resident[at[t]]
  /\ file' = [file EXCEPT ![at[t]] = IF @ = NoEntry THEN EmptyEntry ELSE @]
  /\ Goto(t, "read")
  /\ UNCHANGED <<state, resident, mem, rte, streamBad, queueVars, at, writeVars>>

(* What reading the object back leaves in memory: nothing is read from a   *)
(* failed stream or for an entry without data.                             *)
ReadBack(o) ==
  IF streamBad \/ file[o] \in {NoEntry, EmptyEntry, Unwritten} THEN mem[o] ELSE file[o]

(* Mutant: CopyRefsInto, which may set the dirty bit, comes before the     *)
(* CHECK of that bit.                                                      *)
ReadAndCopyRefs(t) ==
  /\ pc[t] = "read"
  /\ mem' = [mem EXCEPT ![at[t]] = [ReadBack(at[t]) EXCEPT !.hdr.dirty = TRUE]]
  /\ Goto(t, "install")
  /\ UNCHANGED <<state, resident, file, rte, streamBad, queueVars, at, writeVars>>
ReadSnapshot(t) ==
  /\ pc[t] = "read"
  /\ mem' = [mem EXCEPT ![at[t]] = ReadBack(at[t])]
  /\ Goto(t, "install")
  /\ UNCHANGED <<state, resident, file, rte, streamBad, queueVars, at, writeVars>>

(* The rest of swapInObject.  A set dirty bit fails its last CHECK.        *)
InstallSnapshot(t) ==
  /\ pc[t] = "install"
  /\ ~mem[at[t]].hdr.dirty
  /\ resident' = [resident EXCEPT ![at[t]] = TRUE]
  /\ Goto(t, "use")
  /\ UNCHANGED <<state, mem, file, rte, streamBad, queueVars, at, writeVars>>

ReadField(t) ==
  /\ pc[t] = "use"
  /\ Goto(t, "idle")
  /\ UNCHANGED <<heapVars, queueVars, at, writeVars>>

(* SetField and HandleFieldSet: the store first, then the two bits.        *)
StoreField(t) ==
  /\ pc[t] = "use"
  /\ \E f \in Fields, v \in Values : mem' = [mem EXCEPT ![at[t]].data[f] = v]
  /\ Goto(t, "mark")
  /\ UNCHANGED <<state, resident, file, rte, streamBad, queueVars, at, writeVars>>

(* App threads, the collector and the WriteTask update x_access_bits_      *)
(* without atomics, so an update of the write bit may be lost.             *)
WriteBit(old, new) == {old, new}

SetWriteBitAndDirtyBit(t) ==
  /\ pc[t] = "mark"
  /\ \E w \in WriteBit(mem[at[t]].hdr.written, TRUE) :
       mem' = [mem EXCEPT ![at[t]].hdr.dirty = TRUE, ![at[t]].hdr.written = w]
  /\ Goto(t, "idle")
  /\ UNCHANGED <<state, resident, file, rte, streamBad, queueVars, at, writeVars>>

(* The CasField operations change a field and set neither bit.             *)
CasField(t) ==
  /\ CasWrites
  /\ pc[t] = "use"
  /\ \E f \in Fields, v \in Values : mem' = [mem EXCEPT ![at[t]].data[f] = v]
  /\ Goto(t, "idle")
  /\ UNCHANGED <<state, resident, file, rte, streamBad, queueVars, at, writeVars>>

-----------------------------------------------------------------------------
(* The collector: on the heap task thread between WriteTasks, or on an app *)
(* thread that runs out of memory, at any time.                            *)
MayCollect == AllocGC \/ wpc = "idle"

(* UpdateWriteShiftRegister and ClearWriteBit.                             *)
Aged(h, w) ==
  [h EXCEPT !.wsr = (@ \div 2) + (IF h.written THEN WsrTop ELSE 0),
            !.written = w]

(* Mutants: an object with a stub becomes a candidate again; writeSet is   *)
(* not consulted; only objects with a stub are queued.                     *)
AnyCandidate(o) == Cold(mem[o].hdr)
MustWriteAgain(o) == Cold(mem[o].hdr) /\ mem[o].hdr.dirty
MustWriteStub(o) ==
  Cold(mem[o].hdr) /\ mem[o].hdr.dirty /\ ~Queued(o) /\ state[o] = "stubbed"

(* CheckAndUpdate, for an object the marking phase visits.                 *)
IsCandidate(o) == Cold(mem[o].hdr) /\ state[o] = "plain"
MustWrite(o) == Cold(mem[o].hdr) /\ mem[o].hdr.dirty /\ ~Queued(o)

CheckAndUpdate(o) ==
  /\ MayCollect
  /\ Live(o) /\ resident[o]
  /\ createStubSet' = createStubSet \cup {c \in {o} : IsCandidate(c)}
  /\ writeQueue' = IF MustWrite(o) THEN Append(writeQueue, o) ELSE writeQueue
  /\ \E w \in WriteBit(mem[o].hdr.written, FALSE) :
       mem' = [mem EXCEPT ![o].hdr = Aged(@, w)]
  /\ UNCHANGED <<state, resident, file, rte, streamBad, threadVars, writeVars>>

NotUsed(o) == \A t \in Threads : at[t] = o => pc[t] = "idle"

(* Mutant: the table entry of a freed stub stays occupied.                 *)
KeepEntry(o) == UNCHANGED rte
ReleaseEntry(o) == rte' = [rte EXCEPT ![o] = FALSE]

(* The write queue without the first place where the object is.            *)
Erased(o) ==
  IF Queued(o)
    THEN LET i == CHOOSE i \in DOMAIN writeQueue : writeQueue[i] = o
         IN [j \in 1 .. Len(writeQueue) - 1 |-> writeQueue[IF j < i THEN j ELSE j + 1]]
    ELSE writeQueue

(* GcRecordFree and the free it is called from.                            *)
GcRecordFree(o) ==
  /\ MayCollect
  /\ Live(o) /\ NotUsed(o)
  /\ state' = [state EXCEPT ![o] = "free"]
  /\ resident' = [resident EXCEPT ![o] = FALSE]
  /\ file' = [file EXCEPT ![o] = NoEntry]
  /\ ReleaseEntry(o)
  /\ writeQueue' = Erased(o)
  /\ createStubSet' = createStubSet \ {o}
  /\ UNCHANGED <<mem, streamBad, threadVars, writeVars>>

-----------------------------------------------------------------------------
(* The WriteTask and writeToSwapFile.                                      *)

(* Mutant: take the back of the queue.                                     *)
DequeueBack ==
  /\ wpc = "idle" /\ writeQueue # << >> /\ ~streamBad
  /\ wobj' = writeQueue[Len(writeQueue)]
  /\ writeQueue' = SubSeq(writeQueue, 1, Len(writeQueue) - 1)
  /\ wpc' = "clear"
  /\ UNCHANGED <<heapVars, createStubSet, threadVars, buf, wleft, inSwapFile>>

(* Take the front of the queue.  After an I/O error no WriteTask is        *)
(* scheduled.                                                              *)
Dequeue ==
  /\ wpc = "idle" /\ writeQueue # << >> /\ ~streamBad
  /\ wobj' = Head(writeQueue)
  /\ writeQueue' = Tail(writeQueue)
  /\ wpc' = "clear"
  /\ UNCHANGED <<heapVars, createStubSet, threadVars, buf, wleft, inSwapFile>>

(* A reclaimed object has a null class and is skipped.                     *)
ClearDirtyBit ==
  /\ wpc = "clear"
  /\ IF state[wobj] = "stubbed" /\ ~resident[wobj]
       THEN wpc' = "idle" /\ UNCHANGED mem
       ELSE wpc' = "header" /\ mem' = [mem EXCEPT ![wobj].hdr.dirty = FALSE]
  /\ UNCHANGED <<state, resident, file, rte, streamBad, queueVars, threadVars,
                 wobj, buf, wleft, inSwapFile>>

(* memcpy, concurrent with the stores of app threads.                      *)
CopyHeader ==
  /\ wpc = "header"
  /\ buf' = [buf EXCEPT !.hdr = mem[wobj].hdr]
  /\ wleft' = Fields
  /\ wpc' = "fields"
  /\ UNCHANGED <<heapVars, queueVars, threadVars, wobj, inSwapFile>>

CopyField ==
  /\ wpc = "fields"
  /\ \E f \in wleft : /\ buf' = [buf EXCEPT !.data[f] = mem[wobj].data[f]]
                      /\ wleft' = wleft \ {f}
  /\ UNCHANGED <<heapVars, queueVars, threadVars, wpc, wobj, inSwapFile>>

(* Mutant: the dirty bit is cleared after the copy.                        *)
LookupAndClear ==
  /\ wpc = "fields" /\ wleft = {}
  /\ mem' = [mem EXCEPT ![wobj].hdr.dirty = FALSE]
  /\ inSwapFile' = (state[wobj] = "stubbed" \/ InMaps(wobj))
  /\ wpc' = "write"
  /\ UNCHANGED <<state, resident, file, rte, streamBad, queueVars, threadVars,
                 wobj, buf, wleft>>

(* An object with a stub is taken to be in the swap file.                  *)
Lookup ==
  /\ wpc = "fields" /\ wleft = {}
  /\ inSwapFile' = (state[wobj] = "stubbed" \/ InMaps(wobj))
  /\ wpc' = "write"
  /\ UNCHANGED <<heapVars, queueVars, threadVars, wobj, buf, wleft>>

EndWrite == wpc' = "idle" /\ buf' = ZeroImage /\ UNCHANGED <<wobj, wleft, inSwapFile>>

(* The first write appends; a later one overwrites the snapshot unless the *)
(* recorded size differs, as that of an entry operator[] just added does.  *)
WriteSnapshot ==
  /\ wpc = "write"
  /\ file' = [file EXCEPT ![wobj] =
                IF inSwapFile /\ @ \in {NoEntry, EmptyEntry} THEN EmptyEntry ELSE buf]
  /\ EndWrite
  /\ UNCHANGED <<state, resident, mem, rte, streamBad, queueVars, threadVars>>

(* The write fails: the first one has recorded an entry all the same.      *)
WriteFails ==
  /\ IoErrors
  /\ wpc = "write"
  /\ ~(inSwapFile /\ file[wobj] \in {NoEntry, EmptyEntry})
  /\ file' = [file EXCEPT ![wobj] = IF inSwapFile THEN @ ELSE Unwritten]
  /\ streamBad' = TRUE
  /\ EndWrite
  /\ UNCHANGED <<state, resident, mem, rte, queueVars, threadVars>>

-----------------------------------------------------------------------------
(* What is done with the world stopped.  The WriteTask holds the mutator   *)
(* lock while it writes, so the world stops only between two objects.      *)
Stopped == wpc = "idle" /\ \A t \in Threads : pc[t] = "idle"

(* doKernelReclamationChecks on an entry that is not locked.               *)
Reclaimable(o) == ~mem[o].hdr.dirty /\ Cold(mem[o].hdr)

(* Mutant: CreateStubs leaves the write queue alone.                       *)
KeepQueue == createStubSet' = {} /\ UNCHANGED writeQueue
(* CreateStubs empties the write queue, whose pointers a semi-space        *)
(* collection would invalidate.                                            *)
ClearQueue == createStubSet' = {} /\ writeQueue' = << >>

(* PerformHomogeneousSpaceCompact: CreateStubs, SwapObjectsOut, and the    *)
(* semi-space collection, which frees the dead objects.  The entry of a    *)
(* dead stub is released only if SemiSpaceRecordStubMappings found the     *)
(* stub in the object maps.                                                *)
PerformHomogeneousSpaceCompact ==
  /\ Stopped
  /\ EarlyCompaction \/ writeQueue = << >>
  /\ LET stubs   == createStubSet \cup {o \in Objects : state[o] = "stubbed"}
         swapOut == {o \in stubs : resident[o] /\ Reclaimable(o)}
     IN \E dead \in SUBSET {o \in Objects : Live(o)} :
          /\ state' = [o \in Objects |->
                         IF o \in dead THEN "free"
                         ELSE IF o \in stubs THEN "stubbed" ELSE state[o]]
          /\ resident' = [o \in Objects |-> resident[o] /\ o \notin swapOut \cup dead]
          /\ mem' = [o \in Objects |-> IF o \in swapOut THEN ZeroImage ELSE mem[o]]
          /\ file' = [o \in Objects |-> IF o \in dead THEN NoEntry ELSE file[o]]
          /\ rte' = [o \in Objects |->
                       (rte[o] \/ o \in createStubSet) /\ ~(o \in dead /\ InMaps(o))]
  /\ ClearQueue
  /\ UNCHANGED <<streamBad, threadVars, writeVars>>

(* Mutant: objects already swapped in on demand are read again.            *)
SwapsInAgain(o) == state[o] = "stubbed" /\ InMaps(o)
(* SwapObjectsIn, when the app comes to the foreground: every stub in the  *)
(* object maps that was not swapped in on demand.                          *)
SwapsIn(o) == state[o] = "stubbed" /\ InMaps(o) /\ ~resident[o]

SwapObjectsIn ==
  /\ Stopped
  /\ LET swapIn == {o \in Objects : SwapsIn(o)}
     IN /\ swapIn # {}
        /\ \A o \in swapIn : ~ReadBack(o).hdr.dirty
        /\ mem' = [o \in Objects |-> IF o \in swapIn THEN ReadBack(o) ELSE mem[o]]
        /\ resident' = [o \in Objects |-> resident[o] \/ o \in swapIn]
  /\ UNCHANGED <<state, file, rte, streamBad, queueVars, threadVars, writeVars>>

-----------------------------------------------------------------------------
AppStep(t) ==
  \/ SwapInOnDemand(t) \/ ReadSnapshot(t) \/ InstallSnapshot(t)
  \/ ReadField(t) \/ StoreField(t) \/ SetWriteBitAndDirtyBit(t) \/ CasField(t)
WriteTaskStep ==
  \/ Dequeue \/ ClearDirtyBit \/ CopyHeader \/ CopyField \/ Lookup
  \/ WriteSnapshot \/ WriteFails

Next ==
  \/ \E o \in Objects : Allocate(o) \/ CheckAndUpdate(o) \/ GcRecordFree(o)
  \/ \E t \in Threads : AppStep(t) \/ \E o \in Objects : BeginAccess(t, o)
  \/ WriteTaskStep
  \/ PerformHomogeneousSpaceCompact
  \/ SwapObjectsIn

Spec == Init /\ [][Next]_vars

(* The WriteTask is scheduled again until a write fails, and each of its   *)
(* steps terminates.                                                       *)
FairSpec == Spec /\ WF_vars(WriteTaskStep)

-----------------------------------------------------------------------------
(* Types: the heap, the maps, the queue without duplicates, the threads    *)
(* and the WriteTask.                                                      *)
TypeOK ==
  /\ state \in [Objects -> {"free", "plain", "stubbed"}]
  /\ resident \in [Objects -> BOOLEAN]
  /\ mem \in [Objects -> Image]
  /\ file \in [Objects -> Image \cup {NoEntry, Unwritten, EmptyEntry}]
  /\ rte \in [Objects -> BOOLEAN]
  /\ streamBad \in BOOLEAN
  /\ writeQueue \in Seq(Objects)
  /\ \A i, j \in DOMAIN writeQueue : writeQueue[i] = writeQueue[j] => i = j
  /\ createStubSet \subseteq Objects
  /\ pc \in [Threads -> {"idle", "swapin", "read", "install", "use", "mark"}]
  /\ at \in [Threads -> Objects]
  /\ wpc \in {"idle", "clear", "header", "fields", "write"}
  /\ wobj \in Objects
  /\ buf \in Image
  /\ wleft \subseteq Fields
  /\ inSwapFile \in BOOLEAN

(* An object's fields as the program sees them: in memory while resident,  *)
(* in the swap file otherwise.                                             *)
Contents ==
  [o \in Objects |->
     IF ~Live(o) THEN Unallocated
     ELSE IF resident[o] THEN mem[o].data
     ELSE IF file[o] \in Image THEN file[o].data ELSE ZeroImage.data]

Store == INSTANCE ObjectStore WITH contents <- Contents

(* Swapping is transparent: whatever the collector, the WriteTask, the     *)
(* reclaimer and the swap-in paths do, an object's fields change only by   *)
(* the program's own stores.                                               *)
ImplementsStore == Store!Spec

(* What the comment on doKernelReclamationChecks says: an object on which  *)
(* the checks succeed is safe to reclaim, because the swap file holds its  *)
(* present data with a clear dirty bit.                                    *)
SafeToReclaim ==
  \A o \in Objects :
    Stopped /\ state[o] = "stubbed" /\ resident[o] /\ Reclaimable(o) =>
      ~streamBad /\ file[o] \in Image /\ file[o].data = mem[o].data /\ ~file[o].hdr.dirty

(* The assumption SemiSpaceRecordStubMappings states: every live stub is a *)
(* key of the object maps.                                                 *)
StubsInMaps == \A o \in Objects : state[o] = "stubbed" => InMaps(o)

(* No table entry outlives its stub: once an object is freed, by either    *)
(* collector, its entry can be handed out again.                           *)
NoLeakedEntry == \A o \in Objects : rte[o] => state[o] = "stubbed"

(* The assertion of swapInObject on what it has read, on both ways of      *)
(* swapping in: the dirty bit is clear.  The WriteTask copies the header   *)
(* while stores set that bit, so there are snapshots in which it is set;   *)
(* none of them may be the one from which a reclaimed object comes back.   *)
RestoredIsClean ==
  /\ \A t \in Threads : pc[t] = "install" => ~mem[at[t]].hdr.dirty
  /\ \A o \in Objects : SwapsIn(o) => ~ReadBack(o).hdr.dirty

(* What writeToSwapFile's comment says: an object with a stub is not       *)
(* reclaimed while, or before, it is written to the swap file.             *)
WrittenIsResident ==
  /\ \A o \in Objects : Queued(o) => resident[o]
  /\ wpc # "idle" /\ state[wobj] = "stubbed" => resident[wobj]

(* The assumption that GC and the other tasks share one thread: the object *)
(* the WriteTask took from the queue is not freed before it is written.    *)
WrittenIsLive == wpc # "idle" => Live(wobj)

(* CreateStubs' assertions on its candidates: live, and without a stub.    *)
CandidatesArePlain == \A o \in createStubSet : state[o] = "plain"

(* No queued object waits for ever: the WriteTask reaches it, or it is     *)
(* collected or stubbed first.                                             *)
QueueDrains == \A o \in Objects : Queued(o) ~> ~Queued(o)

=============================================================================
