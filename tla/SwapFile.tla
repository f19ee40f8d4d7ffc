------------------------------ MODULE SwapFile ------------------------------
(***************************************************************************)
(* The swap file, its one stream and the two maps that say where each      *)
(* object's snapshot lies (runtime/marvin_swap.cc), while the heap task    *)
(* thread writes snapshots and compacts the file, app threads swap objects *)
(* in on demand, heap compactions swap objects out and a move to the       *)
(* foreground swaps everything in.                                         *)
(*                                                                         *)
(* swapFileMutex guards the file, swapFileMapsMutex (shared or exclusive)  *)
(* the maps.  A critical section that takes no second mutex is one step.   *)
(* The three that take both, and the loop of CompactSwapFile, which others *)
(* may share the maps with, are spread over the program counters hpc and   *)
(* fpc, which say who holds what.  A key keeps its name when its object    *)
(* gets a stub or is moved.                                                *)
(***************************************************************************)
EXTENDS Integers, Sequences, FiniteSets

CONSTANTS
  Keys,      \* keys of the maps, in the order of std::map; 0 is nullptr
  Size,      \* the size of the object at each key
  Threads,   \* app threads
  MaxFile,   \* bound: no first write that makes the file longer than this
  OneMishap, \* bound: no fault or race after the first, and no first write after
             \* one that leaves nothing to say of the file
  Pid        \* the header that InitIfNecessary writes

ASSUME KeysAssumption == Keys \subseteq Nat \ {0} /\ Size \in [Keys -> Nat \ {0}]

VARIABLES
  file, pos, streamBad,       \* contents, position and error state of swapfile
  offsets, sizes,             \* objectOffsetMap and objectSizeMap
  freedSize, swapfileSize,
  state,                      \* what is at a key: nothing, an object, its stub ...
  version,                    \* the contents the object had when last written
  writeTask,                  \* "on", "last" after an I/O error, then "off"
  hpc, hkey, hoff,            \* the heap task thread
  oldFile, newFile, newOffsets, \* locals of CompactSwapFile
  tpc, tkey, toff, tsize,     \* app threads in SwapInOnDemand
  fpc,                        \* the thread in SwapObjectsIn
  mishap                      \* history: the race or fault met so far

fileVars  == <<file, pos, streamBad>>
mapVars   == <<offsets, sizes, freedSize, swapfileSize>>
objVars   == <<state, version>>
heapVars  == <<writeTask, hpc, hkey, hoff, oldFile, newFile, newOffsets>>
readVars  == <<tpc, tkey, toff, tsize, fpc>>
vars == <<fileVars, mapVars, objVars, heapVars, readVars, mishap>>

(* What an object's snapshot looks like in the file.                       *)
Cells(k, v) == [i \in 1 .. Size[k] |-> <<k, v>>]

With(f, k, v) == [x \in DOMAIN f \cup {k} |-> IF x = k THEN v ELSE f[x]]
Without(f, k) == [x \in DOMAIN f \ {k} |-> f[x]]
(* std::map::operator[]: a missing key gets a zero entry.                  *)
Get(f, k)   == IF k \in DOMAIN f THEN f[k] ELSE 0
Touch(f, k) == IF k \in DOMAIN f THEN f ELSE With(f, k, 0)

(* The bytes of the snapshots whose sizes sz gives, and how many they are. *)
Bytes(sz) == UNION {{k} \X (1 .. sz[k]) : k \in DOMAIN sz}
Total(sz) == Cardinality(Bytes(sz))

InFile(f, off, n) == off >= 0 /\ (n = 0 \/ off + n <= Len(f))
ReadAt(f, off, n) == SubSeq(f, off + 1, off + n)
WriteAt(f, off, cells) ==
  [i \in 1 .. (IF off + Len(cells) > Len(f) THEN off + Len(cells) ELSE Len(f)) |->
     IF i \in off + 1 .. off + Len(cells) THEN cells[i - off] ELSE f[i]]

(* Who holds what.  swapFileMutex: validateSwapFile while it waits for the *)
(* maps.  swapFileMapsMutex: CompactSwapFile, exclusive, while it waits    *)
(* for the file, and shared during its loop; SwapObjectsIn, shared, during *)
(* its loop.                                                               *)
FileFree      == hpc # "check"
MapsShareable == hpc # "swap"
MapsFree      == hpc \notin {"copy", "swap"} /\ fpc = "idle"

(* Threads run unless SwapObjectsIn has suspended them.                    *)
Running == fpc = "idle"
(* The world can stop: no app thread and no WriteTask is in the middle of  *)
(* something.  CompactSwapFile runs without the mutator lock.              *)
CanStop == hpc \notin {"record", "rewrite"} /\ \A t \in Threads : tpc[t] = "idle"

(* A fault or a race happens.  The first one is remembered, but an I/O     *)
(* error goes before any race, "moved" before the other races, and every   *)
(* other race before "counted".                                            *)
Mishap(m) ==
  /\ OneMishap => mishap = "none"
  /\ mishap' = IF m = "io" \/ (m = "moved" /\ mishap # "io") \/ mishap \in {"none", "counted"}
                 THEN m ELSE mishap
NoMishap  == UNCHANGED mishap
MishapIf(c, m) == IF c THEN Mishap(m) ELSE NoMishap

Init ==
  /\ file = <<Pid>> /\ pos = 1 /\ streamBad = FALSE
  /\ offsets = << >> /\ sizes = << >> /\ freedSize = 0 /\ swapfileSize = 0
  /\ state = [k \in Keys |-> "free"] /\ version = [k \in Keys |-> 0]
  /\ writeTask = "on" /\ hpc = "idle" /\ hkey = 0 /\ hoff = 0
  /\ oldFile = << >> /\ newFile = << >> /\ newOffsets = << >>
  /\ tpc = [t \in Threads |-> "idle"] /\ tkey = [t \in Threads |-> 0]
  /\ toff = [t \in Threads |-> 0] /\ tsize = [t \in Threads |-> 0]
  /\ fpc = "idle" /\ mishap = "none"

-----------------------------------------------------------------------------
(* Objects come, get stubs and lose their pages, and go.                   *)

Allocate(k) ==
  /\ Running /\ state[k] = "free"
  /\ state' = [state EXCEPT ![k] = "plain"]
  /\ UNCHANGED <<fileVars, mapVars, version, heapVars, readVars, mishap>>

(* A heap compaction runs on the heap task thread or on an app thread that *)
(* is out of memory, with the world stopped.  It gives k another key or    *)
(* takes its key away, and moves every other object of the RosAlloc space: *)
(* newObjectOffsetMap keeps, of its keys, only those of large objects.     *)
CompactHeap(k) ==
  /\ Running /\ CanStop /\ MapsFree
  /\ \E large \in SUBSET (DOMAIN newOffsets \ {k}) :
       /\ \A l \in large : state[l] = "plain"
       /\ newOffsets' = [l \in large |-> newOffsets[l]]
       /\ MishapIf(large # DOMAIN newOffsets, "moved")

(* PerformHomogeneousSpaceCompact: CreateStubs and SwapObjectsOut, of an   *)
(* object that has been written.                                           *)
Reclaim(k) ==
  /\ CompactHeap(k)
  /\ state[k] \in {"plain", "stub"} /\ k \in DOMAIN offsets
  /\ state' = [state EXCEPT ![k] = "out"]
  /\ UNCHANGED <<fileVars, mapVars, version, writeTask, hpc, hkey, hoff, oldFile, newFile,
                 readVars>>

(* The semi-space collector finds k dead: replaceDataStructurePointers     *)
(* erases it, and does not count its bytes as freed.                       *)
CollectSemiSpace(k) ==
  /\ CompactHeap(k)
  /\ state[k] # "free"
  /\ IF k \in DOMAIN offsets
       THEN offsets' = Without(offsets, k) /\ sizes' = Without(sizes, k)
       ELSE UNCHANGED <<offsets, sizes>>
  /\ state' = [state EXCEPT ![k] = "free"]
  /\ UNCHANGED <<fileVars, freedSize, swapfileSize, version, writeTask, hpc, hkey, hoff,
                 oldFile, newFile, readVars>>

(* The heap task thread may be about to reinstate or record the key.       *)
HeldOnTo(k) == k = hkey \/ k \in DOMAIN newOffsets

(* Dead, as the other collectors see it: no thread is swapping it in.      *)
Unreachable(k) == state[k] # "free" /\ \A t \in Threads : tkey[t] # k

(* GcRecordFree, on the heap task thread or on an allocating app thread.   *)
(* What it adds to freedSize after the reset in CompactSwapFile is no part *)
(* of the new file.                                                        *)
GcRecordFree(k) ==
  /\ Running /\ MapsFree /\ Unreachable(k)
  /\ IF k \in DOMAIN offsets \cap DOMAIN sizes
       THEN /\ offsets' = Without(offsets, k)
            /\ sizes' = Without(sizes, k)
            /\ freedSize' = freedSize + sizes[k]
       ELSE UNCHANGED <<offsets, sizes, freedSize>>
  /\ state' = [state EXCEPT ![k] = "free"]
  /\ IF HeldOnTo(k) THEN Mishap("freed")
                    ELSE MishapIf(hpc = "build" /\ k \in DOMAIN sizes, "counted")
  /\ UNCHANGED <<fileVars, swapfileSize, version, heapVars, readVars>>

-----------------------------------------------------------------------------
(* writeToSwapFile, in the WriteTask.  Its dirty bit is clear whatever     *)
(* becomes of the write, so the version counts as written.                 *)

Written(k) == version' = [version EXCEPT ![k] = 1 - @]

(* The stream accepts the cells, or it fails, now or because it had.       *)
StreamWrite(k, off) ==
  \/ /\ ~streamBad
     /\ file' = WriteAt(file, off, Cells(k, 1 - version[k]))
     /\ NoMishap /\ UNCHANGED <<streamBad, writeTask>>
  \/ /\ MishapIf(~streamBad, "io")
     /\ streamBad' = TRUE /\ writeTask' = "last" /\ UNCHANGED file

MayWrite == hpc = "idle" /\ Running /\ writeTask = "on"

(* The first write goes where the stream stands.                           *)
FirstWrite(k) ==
  /\ MayWrite
  /\ state[k] = "plain" /\ k \notin DOMAIN offsets
  /\ Len(file) + Size[k] <= MaxFile /\ (OneMishap => mishap \notin {"io", "moved"})
  /\ hkey' = k /\ hpc' = "record"
  /\ hoff' = IF streamBad THEN -1 ELSE pos
  /\ StreamWrite(k, pos)
  /\ pos' = IF streamBad' THEN pos ELSE pos + Size[k]
  /\ Written(k)
  /\ UNCHANGED <<mapVars, state, oldFile, newFile, newOffsets, readVars>>

(* Mutant: the two maps get each other's value.                            *)
RecordSwapped ==
  /\ hpc = "record" /\ MapsFree
  /\ offsets' = With(offsets, hkey, Size[hkey])
  /\ sizes' = With(sizes, hkey, hoff)
  /\ swapfileSize' = swapfileSize + Size[hkey]
  /\ hpc' = "idle" /\ hkey' = 0 /\ hoff' = 0
  /\ UNCHANGED <<fileVars, freedSize, objVars, writeTask, oldFile, newFile,
                 newOffsets, readVars, mishap>>

Record ==
  /\ hpc = "record" /\ MapsFree
  /\ offsets' = With(offsets, hkey, hoff)
  /\ sizes' = With(sizes, hkey, Size[hkey])
  /\ swapfileSize' = swapfileSize + Size[hkey]
  /\ hpc' = "idle" /\ hkey' = 0 /\ hoff' = 0
  /\ UNCHANGED <<fileVars, freedSize, objVars, writeTask, oldFile, newFile,
                 newOffsets, readVars, mishap>>

(* A later write looks the place up; a different size ends it.             *)
LookupSnapshot(k) ==
  /\ MayWrite
  /\ \/ state[k] = "stub"
     \/ state[k] = "plain" /\ k \in DOMAIN offsets
  /\ offsets' = Touch(offsets, k) /\ sizes' = Touch(sizes, k)
  /\ IF Get(sizes, k) = Size[k]
       THEN hpc' = "rewrite" /\ hkey' = k /\ hoff' = Get(offsets, k) /\ UNCHANGED version
       ELSE Written(k) /\ UNCHANGED <<hpc, hkey, hoff>>
  /\ UNCHANGED <<fileVars, freedSize, swapfileSize, state, writeTask, oldFile,
                 newFile, newOffsets, readVars, mishap>>

(* Mutant: the stream is left behind the snapshot.                         *)
RewriteStays ==
  /\ hpc = "rewrite"
  /\ StreamWrite(hkey, hoff) /\ Written(hkey)
  /\ hpc' = "idle" /\ hkey' = 0 /\ hoff' = 0 /\ pos' = hoff + Size[hkey]
  /\ UNCHANGED <<mapVars, state, oldFile, newFile, newOffsets, readVars>>

Rewrite ==
  /\ hpc = "rewrite"
  /\ StreamWrite(hkey, hoff) /\ Written(hkey)
  /\ hpc' = "idle" /\ hkey' = 0 /\ hoff' = 0 /\ UNCHANGED pos
  /\ UNCHANGED <<mapVars, state, oldFile, newFile, newOffsets, readVars>>

-----------------------------------------------------------------------------
(* The end of the WriteTask: CompactSwapFile and validateSwapFile.         *)

(* COMPACT_THRESHOLD is a quarter.                                         *)
NeedsCompaction == 4 * freedSize > swapfileSize

(* No compaction: after an I/O error no other WriteTask follows.           *)
EndWriteTask ==
  /\ hpc = "idle" /\ writeTask = "last" /\ ~NeedsCompaction
  /\ writeTask' = "off"
  /\ UNCHANGED <<fileVars, mapVars, objVars, hpc, hkey, hoff, oldFile, newFile,
                 newOffsets, readVars, mishap>>

(* The counters are reset, the swap file is copied and opened again at its *)
(* end.  If no copy can be opened the loop over the keys ends at once.     *)
BeginCompaction(lost) ==
  /\ hpc = "idle" /\ writeTask # "off" /\ NeedsCompaction
  /\ swapfileSize' = 0
  /\ writeTask' = IF writeTask = "last" THEN "off" ELSE "on"
  /\ \/ oldFile' = file /\ hpc' = "build" /\ MishapIf(lost, "counted")
     \/ hpc' = "install" /\ Mishap("io") /\ UNCHANGED oldFile
  /\ pos' = Len(file) /\ streamBad' = FALSE
  /\ UNCHANGED <<file, version, hkey, hoff, newFile, newOffsets, readVars>>

(* Mutant: what was freed stays on the books.                              *)
CopyFileKeepsCount ==
  /\ BeginCompaction(FALSE)
  /\ UNCHANGED <<offsets, sizes, freedSize, state>>

CopyFile ==
  /\ BeginCompaction(FALSE)
  /\ freedSize' = 0
  /\ UNCHANGED <<offsets, sizes, state>>

(* The reset of freedSize, which no mutex guards, comes between the load   *)
(* and the store of the += in GcRecordFree, and is lost.                   *)
LoseReset(k) ==
  /\ BeginCompaction(TRUE)
  /\ Running /\ MapsFree /\ Unreachable(k) /\ k \in DOMAIN offsets \cap DOMAIN sizes
  /\ offsets' = Without(offsets, k) /\ sizes' = Without(sizes, k)
  /\ freedSize' = freedSize + sizes[k]
  /\ state' = [state EXCEPT ![k] = "free"]

(* The loop over the keys holds the maps, shared, from here on.            *)
BeginLoop ==
  /\ hpc = "build" /\ hpc' = "copy"
  /\ UNCHANGED <<fileVars, mapVars, objVars, writeTask, hkey, hoff, oldFile, newFile,
                 newOffsets, readVars, mishap>>

(* The iterator has the keys that it has not reached before it.            *)
Ahead(k) == k \in DOMAIN offsets /\ \A l \in DOMAIN newOffsets : l < k
IsNext(k) == Ahead(k) /\ \A l \in Keys : Ahead(l) => k <= l

(* Mutant: every object is put where the first one is.                     *)
EnterAtStart(k) == newOffsets' = With(newOffsets, k, 0)
(* newObjectOffsetMap gets the place where the stream of the new file is.  *)
Enter(k) == newOffsets' = With(newOffsets, k, Len(newFile))

(* The old bytes of a snapshot, or junk where the old file has none.       *)
Readable(k) == InFile(oldFile, offsets[k], Get(sizes, k))
Copied(k) ==
  IF Readable(k) THEN ReadAt(oldFile, offsets[k], Get(sizes, k))
                 ELSE [i \in 1 .. Get(sizes, k) |-> Pid]

(* One turn of the loop.  An error is noticed, and ends the loop, after    *)
(* the key was entered.                                                    *)
CopySnapshot(k) ==
  /\ hpc = "copy" /\ IsNext(k)
  /\ Enter(k)
  /\ sizes' = Touch(sizes, k) /\ swapfileSize' = swapfileSize + Get(sizes, k)
  /\ \/ /\ newFile' = newFile \o Copied(k)
        /\ hpc' = IF Readable(k) THEN "copy" ELSE "install"
        /\ NoMishap
     \/ hpc' = "install" /\ Mishap("io") /\ UNCHANGED newFile
  /\ UNCHANGED <<fileVars, offsets, freedSize, objVars, writeTask, hkey, hoff,
                 oldFile, readVars>>

EndLoop ==
  /\ hpc = "copy" /\ \A k \in Keys : ~Ahead(k)
  /\ hpc' = "install"
  /\ UNCHANGED <<fileVars, mapVars, objVars, writeTask, hkey, hoff, oldFile, newFile,
                 newOffsets, readVars, mishap>>

InstallOffsets ==
  /\ hpc = "install" /\ MapsFree
  /\ offsets' = newOffsets
  /\ hpc' = "swap"
  /\ UNCHANGED <<fileVars, sizes, freedSize, swapfileSize, objVars, writeTask, hkey,
                 hoff, oldFile, newFile, newOffsets, readVars, mishap>>

(* A thread that has looked its offset up reads the new file with it.      *)
InstallFile ==
  /\ hpc = "swap" /\ FileFree
  /\ file' = newFile /\ pos' = Len(newFile) /\ streamBad' = FALSE
  /\ hpc' = "validate"
  /\ oldFile' = << >> /\ newFile' = << >> /\ newOffsets' = << >>
  /\ MishapIf(\E t \in Threads : tpc[t] = "read", "stale")
  /\ UNCHANGED <<mapVars, objVars, writeTask, hkey, hoff, readVars>>

BeginValidation ==
  /\ hpc = "validate" /\ FileFree
  /\ hpc' = "check"
  /\ UNCHANGED <<fileVars, mapVars, objVars, writeTask, hkey, hoff, oldFile, newFile,
                 newOffsets, readVars, mishap>>

(* Mutant: validation starts again when it finds an error.                 *)
ValidateUntilGood ==
  /\ hpc = "check" /\ MapsShareable
  /\ streamBad' = (streamBad \/ \E k \in DOMAIN offsets :
                                  ~InFile(file, offsets[k], Get(sizes, k)))
  /\ sizes' = [k \in DOMAIN sizes \cup DOMAIN offsets |-> Get(sizes, k)]
  /\ hpc' = IF streamBad' THEN "validate" ELSE "idle"
  /\ UNCHANGED <<file, pos, offsets, freedSize, swapfileSize, objVars, writeTask, hkey,
                 hoff, oldFile, newFile, newOffsets, readVars, mishap>>

(* validateSwapFile reads every snapshot; a read beyond the end leaves the *)
(* stream failed.  A size it does not find becomes 0.                      *)
ValidateSwapFile ==
  /\ hpc = "check" /\ MapsShareable
  /\ streamBad' = (streamBad \/ \E k \in DOMAIN offsets :
                                  ~InFile(file, offsets[k], Get(sizes, k)))
  /\ sizes' = [k \in DOMAIN sizes \cup DOMAIN offsets |-> Get(sizes, k)]
  /\ hpc' = "idle"
  /\ UNCHANGED <<file, pos, offsets, freedSize, swapfileSize, objVars, writeTask, hkey,
                 hoff, oldFile, newFile, newOffsets, readVars, mishap>>

-----------------------------------------------------------------------------
(* Swapping in.                                                            *)

(* Mutant: the position is not restored.                                   *)
SwapInAndStay(k, off, n) ==
  LET readable == ~streamBad /\ InFile(file, off, n)
  IN /\ state' = [state EXCEPT ![k] =
                    IF readable /\ ReadAt(file, off, n) = Cells(k, version[k])
                      THEN "stub" ELSE "damaged"]
     /\ streamBad' = ~readable
     /\ pos' = IF readable THEN off + n ELSE pos

(* swapInObject: reads and returns to where the stream was.  A failed or   *)
(* short read leaves the object other than it was written.  Its CHECK that *)
(* the object is not resident may stop a second thread and may come too    *)
(* early to: the second one goes on here.                                  *)
swapInObject(k, off, n) ==
  LET readable == ~streamBad /\ InFile(file, off, n)
  IN /\ state' = [state EXCEPT ![k] =
                    IF readable /\ ReadAt(file, off, n) = Cells(k, version[k])
                      THEN "stub" ELSE "damaged"]
     /\ streamBad' = ~readable
     /\ UNCHANGED pos

SwapInOnDemand(t, k) ==
  /\ Running /\ tpc[t] = "idle" /\ MapsShareable
  /\ state[k] = "out"
  /\ tkey' = [tkey EXCEPT ![t] = k]
  /\ toff' = [toff EXCEPT ![t] = Get(offsets, k)]
  /\ tsize' = [tsize EXCEPT ![t] = Get(sizes, k)]
  /\ offsets' = Touch(offsets, k) /\ sizes' = Touch(sizes, k)
  /\ tpc' = [tpc EXCEPT ![t] = "read"]
  /\ UNCHANGED <<fileVars, freedSize, swapfileSize, objVars, heapVars, fpc, mishap>>

ReadOnDemand(t) ==
  /\ tpc[t] = "read" /\ FileFree
  /\ swapInObject(tkey[t], toff[t], tsize[t])
  /\ tpc' = [tpc EXCEPT ![t] = "idle"] /\ tkey' = [tkey EXCEPT ![t] = 0]
  /\ toff' = [toff EXCEPT ![t] = 0] /\ tsize' = [tsize EXCEPT ![t] = 0]
  /\ UNCHANGED <<file, mapVars, version, heapVars, fpc, mishap>>

Out == {k \in DOMAIN offsets : state[k] = "out"}

(* SwapObjectsIn keeps the maps shared while it goes from stub to stub.    *)
BeginSwapObjectsIn ==
  /\ Running /\ CanStop /\ MapsShareable /\ Out # {}
  /\ fpc' = "loop"
  /\ UNCHANGED <<fileVars, mapVars, objVars, heapVars, tpc, tkey, toff, tsize, mishap>>

SwapObjectsInNext ==
  /\ fpc = "loop" /\ FileFree
  /\ \E k \in Out :
       /\ \A l \in Out : k <= l
       /\ sizes' = Touch(sizes, k)
       /\ swapInObject(k, offsets[k], Get(sizes, k))
  /\ UNCHANGED <<file, offsets, freedSize, swapfileSize, version, heapVars, readVars, mishap>>

EndSwapObjectsIn ==
  /\ fpc = "loop" /\ Out = {}
  /\ fpc' = "idle"
  /\ UNCHANGED <<fileVars, mapVars, objVars, heapVars, tpc, tkey, toff, tsize, mishap>>

-----------------------------------------------------------------------------
HeapStep ==
  \/ Record \/ Rewrite
  \/ BeginLoop \/ (\E k \in Keys : CopySnapshot(k)) \/ EndLoop
  \/ InstallOffsets \/ InstallFile \/ BeginValidation \/ ValidateSwapFile
ForegroundStep == SwapObjectsInNext \/ EndSwapObjectsIn

Next ==
  \/ \E k \in Keys :
       \/ Allocate(k) \/ Reclaim(k) \/ CollectSemiSpace(k) \/ GcRecordFree(k)
       \/ FirstWrite(k) \/ LookupSnapshot(k) \/ LoseReset(k)
       \/ \E t \in Threads : SwapInOnDemand(t, k)
  \/ EndWriteTask \/ CopyFile \/ HeapStep
  \/ \E t \in Threads : ReadOnDemand(t)
  \/ BeginSwapObjectsIn \/ ForegroundStep

Spec == Init /\ [][Next]_vars

(* What has begun goes on: no step waits for anything but a mutex.  An app *)
(* thread may find swapFileMutex held by one validation after the other,   *)
(* and CompactSwapFile the maps shared by one SwapObjectsIn after the      *)
(* other; the mutex lets each in some time.                                *)
FairSpec ==
  /\ Spec /\ SF_vars(HeapStep) /\ WF_vars(ForegroundStep)
  /\ \A t \in Threads : SF_vars(ReadOnDemand(t))

-----------------------------------------------------------------------------
(* Types of the file, the maps, the objects and the threads.               *)
TypeOK ==
  /\ file \in Seq({Pid} \cup Keys \X {0, 1}) /\ pos \in Nat /\ streamBad \in BOOLEAN
  /\ DOMAIN offsets \subseteq Keys /\ \A k \in DOMAIN offsets : offsets[k] \in Nat \cup {-1}
  /\ DOMAIN sizes \subseteq Keys /\ \A k \in DOMAIN sizes : sizes[k] \in {0, Size[k]}
  /\ freedSize \in Nat /\ swapfileSize \in Nat
  /\ state \in [Keys -> {"free", "plain", "stub", "out", "damaged"}]
  /\ version \in [Keys -> {0, 1}]
  /\ writeTask \in {"on", "last", "off"}
  /\ hpc \in {"idle", "record", "rewrite", "build", "copy", "install", "swap",
             "validate", "check"}
  /\ tpc \in [Threads -> {"idle", "read"}] /\ fpc \in {"idle", "loop"}
  /\ mishap \in {"none", "io", "moved", "freed", "stale", "counted"}

(* The swap file is right: unless a fault or one of the three races below  *)
(* has happened, the maps have the same keys and lead to the bytes that    *)
(* were last written for each key, whatever was appended, overwritten,     *)
(* freed and compacted.                                                    *)
SnapshotsInPlace ==
  mishap \in {"none", "counted"} /\ hpc # "swap" =>
    /\ DOMAIN offsets = DOMAIN sizes
    /\ \A k \in DOMAIN offsets :
         ReadAt(file, offsets[k], sizes[k]) = Cells(k, version[k])

(* Swap-in restores every object, also for two threads at a time, if no    *)
(* fault has happened, no key was freed or changed by a heap compaction    *)
(* while CompactSwapFile or writeToSwapFile held on to it, and no file was *)
(* installed between a lookup and its read.                                *)
SwapInRestores == mishap \in {"none", "counted"} => \A k \in Keys : state[k] # "damaged"

(* What the comment on swapFileMutex says, with no fault and no key freed  *)
(* or renamed at a bad time: reads under it "return valid data" and        *)
(* "reflect the latest writes", since WriteTask and compaction share a     *)
(* thread.                                                                 *)
ReadsReturnValidData ==
  mishap \notin {"io", "moved", "freed"} => \A k \in Keys : state[k] # "damaged"

(* Whatever was freed or installed at a bad time, a stream that has met no *)
(* I/O error stands at the end of the file between operations, so a first  *)
(* write overwrites nothing.  (A size whose offset was lost in a heap      *)
(* compaction is rewritten at 0, maybe beyond the end.)                    *)
AppendsAtEnd == mishap \notin {"io", "moved"} /\ ~streamBad => pos = Len(file)

(* What compaction is decided on, between tasks: swapfileSize is the       *)
(* length of the file, but for the header that goes with the first         *)
(* compaction, and freedSize counts no more than the bytes of the file     *)
(* that belong to no snapshot, unless a free raced with the reset of       *)
(* freedSize.  It may count less: the semi-space collector does not add to *)
(* it, so garbage may stay below the threshold for good.                   *)
GarbageAccounted ==
  hpc = "idle" =>
    /\ mishap \in {"none", "counted"} => Len(file) - swapfileSize \in {0, 1}
    /\ mishap = "none" => freedSize + Total(sizes) <= swapfileSize

(* No lock order deadlocks: a write, a compaction with its validation, an  *)
(* on-demand swap-in and SwapObjectsIn all come to their end.              *)
OperationsEnd ==
  /\ hpc # "idle" ~> hpc = "idle"
  /\ \A t \in Threads : tpc[t] = "read" ~> tpc[t] = "idle"
  /\ fpc = "loop" ~> fpc = "idle"

=============================================================================
