--------------------------- MODULE SwapFileProofs ---------------------------
(***************************************************************************)
(* The swap file keeps every snapshot through appends, overwrites, frees   *)
(* and compactions, for any keys, sizes, app threads and any number of     *)
(* races and faults: the steps of compaction and validation keep the       *)
(* invariant of SwapFileInvariant, as the steps of SwapFileSteps do, and   *)
(* the properties follow from it.                                          *)
(***************************************************************************)
EXTENDS SwapFileSteps

(* CompactSwapFile and validateSwapFile.                                   *)

(* CompactSwapFile begins, with the reset of freedSize or without it.      *)
LEMMA BeginCompactionStep ==
  ASSUME IInv, NEW lost \in BOOLEAN, BeginCompaction(lost)
  PROVE  /\ FileOK' /\ ThreadInv' /\ swapfileSize' = 0
         /\ mishap' \in {"none", "io", "moved", "freed", "stale", "counted"}
         /\ writeTask' \in {"on", "last", "off"} /\ (writeTask' = "on" => writeTask = "on")
         /\ hpc = "idle" /\ hpc' \in {"build", "install"} /\ (mishap' # "io" => hpc' = "build")
         /\ oldFile' \in Seq(Cell) /\ (hpc' = "build" => oldFile' = file)
         /\ newFile = << >> /\ DOMAIN newOffsets = {} /\ hkey = 0 /\ hoff = 0
         /\ mishap' \notin {"io", "counted"} => mishap' = mishap
         /\ mishap' = "none" => ~lost
         /\ mishap' = "counted" => mishap \in {"none", "counted"}
         /\ file' = file /\ pos' = Len(file) /\ streamBad' = FALSE
         /\ UNCHANGED <<version, hkey, hoff, newFile, newOffsets, tpc, tkey, toff, tsize, fpc>>
PROOF
<1>1. FileOK /\ RestOK /\ LocalsInv /\ ThreadInv
  BY TypeParts DEF IInv
<1>2. file' = file /\ pos' = Len(file) /\ streamBad' = FALSE /\ hpc = "idle" /\ swapfileSize' = 0
      /\ UNCHANGED <<version, hkey, hoff, newFile, newOffsets, tpc, tkey, toff, tsize, fpc>>
  BY DEF BeginCompaction, readVars
<1>3. pos' \in Nat
  BY <1>1, <1>2 DEF FileOK
<1>4. FileOK'
  BY <1>1, <1>2, <1>3, Zenon DEF FileOK
<1>5. hpc' \in {"build", "install"} /\ (hpc' = "build" => oldFile' = file)
      /\ (hpc' = "install" => mishap' = "io" /\ oldFile' = oldFile)
      /\ (hpc' = "build" => MishapIf(lost, "counted"))
  BY DEF BeginCompaction, Mishap
<1>6. mishap' \in {"none", "io", "moved", "freed", "stale", "counted"}
      /\ (mishap' \notin {"io", "counted"} => mishap' = mishap) /\ (mishap' = "none" => ~lost)
      /\ (mishap' = "counted" => mishap \in {"none", "counted"})
      /\ (mishap' # "io" => hpc' = "build")
  BY <1>1, <1>5 DEF MishapIf, Mishap, NoMishap, RestOK
<1>7. writeTask' \in {"on", "last", "off"} /\ (writeTask' = "on" => writeTask = "on")
  BY <1>1 DEF BeginCompaction, RestOK
<1>8. oldFile' \in Seq(Cell) /\ newFile = << >> /\ DOMAIN newOffsets = {} /\ hkey = 0 /\ hoff = 0
  BY <1>1, <1>2, <1>5 DEF FileOK, LocalsInv
<1>9. ThreadInv'
  BY <1>1, <1>2, <1>5 DEF ThreadInv
<1> QED
  BY <1>2, <1>4, <1>5, <1>6, <1>7, <1>8, <1>9

LEMMA CopyFileStep ==
  ASSUME IInv, CopyFile
  PROVE  IInv'
PROOF
<1>a. MapsOK /\ RestOK /\ LocalsInv /\ AppendInv /\ GoodInv
  BY TypeParts DEF IInv
<1>b. /\ FileOK' /\ ThreadInv' /\ swapfileSize' = 0
      /\ mishap' \in {"none", "io", "moved", "freed", "stale", "counted"}
      /\ writeTask' \in {"on", "last", "off"} /\ (writeTask' = "on" => writeTask = "on")
      /\ hpc = "idle" /\ hpc' \in {"build", "install"} /\ (mishap' # "io" => hpc' = "build")
      /\ oldFile' \in Seq(Cell) /\ (hpc' = "build" => oldFile' = file)
      /\ newFile = << >> /\ DOMAIN newOffsets = {} /\ hkey = 0 /\ hoff = 0
      /\ mishap' \notin {"io", "counted"} => mishap' = mishap
      /\ mishap' = "none" => ~FALSE
      /\ mishap' = "counted" => mishap \in {"none", "counted"}
      /\ file' = file /\ pos' = Len(file) /\ streamBad' = FALSE
      /\ UNCHANGED <<version, hkey, hoff, newFile, newOffsets, tpc, tkey, toff, tsize, fpc>>
  BY BeginCompactionStep DEF CopyFile
<1>c. UNCHANGED <<offsets, sizes, state>> /\ freedSize' = 0
  BY DEF CopyFile
<1>1. TypeOK'
  <2>1. MapsOK' /\ RestOK'
    BY <1>a, <1>b, <1>c DEF MapsOK, RestOK
  <2> QED
    BY <1>b, <2>1, TypeParts
<1>2. LocalsInv'
  BY <1>a, <1>b, <1>c DEF LocalsInv, Mapped
<1>3. ThreadInv'
  BY <1>b
<1>4. AppendInv'
  BY <1>a, <1>b, <1>c DEF AppendInv, Sized, Mapped
<1>5. GoodInv'
  <2> SUFFICES ASSUME Good' PROVE GoodInv'
    BY DEF GoodInv
  <2>1. Good /\ hpc' = "build"
    BY <1>b DEF Good
  <2>2. writeTask' = "on"
    BY <1>a, <2>1 DEF GoodInv, CopyFile, BeginCompaction
  <2> QED
    BY <1>a, <1>b, <1>c, <2>1, <2>2 DEF GoodInv, Holds, Mapped
<1>6. LengthInv'
  BY <1>b DEF LengthInv, Good
<1>7. CountInv'
  BY <1>b, <1>c, BytesNone DEF IInv, CountInv
<1> QED
  BY <1>1, <1>2, <1>3, <1>4, <1>5, <1>6, <1>7 DEF IInv

LEMMA LoseResetStep ==
  ASSUME IInv, NEW k \in Keys, LoseReset(k)
  PROVE  IInv'
PROOF
<1>a. MapsOK /\ RestOK /\ LocalsInv /\ AppendInv /\ GoodInv
  BY TypeParts DEF IInv
<1>b. /\ FileOK' /\ ThreadInv' /\ swapfileSize' = 0
      /\ mishap' \in {"none", "io", "moved", "freed", "stale", "counted"}
      /\ writeTask' \in {"on", "last", "off"} /\ (writeTask' = "on" => writeTask = "on")
      /\ hpc = "idle" /\ hpc' \in {"build", "install"} /\ (mishap' # "io" => hpc' = "build")
      /\ oldFile' \in Seq(Cell) /\ (hpc' = "build" => oldFile' = file)
      /\ newFile = << >> /\ DOMAIN newOffsets = {} /\ hkey = 0 /\ hoff = 0
      /\ mishap' \notin {"io", "counted"} => mishap' = mishap
      /\ mishap' = "none" => ~TRUE
      /\ mishap' = "counted" => mishap \in {"none", "counted"}
      /\ file' = file /\ pos' = Len(file) /\ streamBad' = FALSE
      /\ UNCHANGED <<version, hkey, hoff, newFile, newOffsets, tpc, tkey, toff, tsize, fpc>>
  BY BeginCompactionStep DEF LoseReset
<1>c. /\ DOMAIN offsets' = DOMAIN offsets \ {k} /\ \A l \in DOMAIN offsets' : offsets'[l] = offsets[l]
      /\ DOMAIN sizes' = DOMAIN sizes \ {k} /\ \A l \in DOMAIN sizes' : sizes'[l] = sizes[l]
  BY DEF LoseReset, Without
<1>d. /\ state'[k] = "free" /\ \A l \in Keys \ {k} : state'[l] = state[l]
      /\ state' \in [Keys -> {"free", "plain", "stub", "out", "damaged"}]
  BY <1>a DEF LoseReset, RestOK
<1>e. freedSize' \in Nat
  <2>1. k \in DOMAIN sizes /\ sizes[k] \in {0, Size[k]} /\ Size[k] \in Nat /\ freedSize \in Nat
    BY <1>a, KeysAssumption DEF MapsOK, LoseReset
  <2> QED
    BY <2>1 DEF LoseReset
<1>1. TypeOK'
  <2>1. MapsOK' /\ RestOK'
    BY <1>a, <1>b, <1>c, <1>d, <1>e DEF MapsOK, RestOK
  <2> QED
    BY <1>b, <2>1, TypeParts
<1>2. LocalsInv'
  BY <1>a, <1>b, <1>c DEF LocalsInv, Mapped
<1>3. ThreadInv'
  BY <1>b
<1>4. AppendInv'
  BY <1>a, <1>b, <1>c, <1>d DEF AppendInv, Sized, Mapped
<1>5. GoodInv'
  <2> SUFFICES ASSUME Good' PROVE GoodInv'
    BY DEF GoodInv
  <2>1. Good /\ hpc' = "build"
    BY <1>b DEF Good
  <2>2. writeTask' = "on"
    BY <1>a, <2>1 DEF GoodInv, LoseReset, BeginCompaction
  <2>3. \A t \in Threads : tpc[t] = "read" => tkey[t] \in DOMAIN offsets'
    BY <1>a, <1>b, <1>c, <2>1 DEF IInv, ThreadInv, GoodInv, LoseReset, Unreachable
  <2>4. \A t \in Threads : tpc[t] = "read" => tkey[t] \in Keys \ {k}
    BY DEF IInv, ThreadInv, LoseReset, Unreachable
  <2> QED
    BY <1>a, <1>b, <1>c, <1>d, <2>1, <2>2, <2>3, <2>4 DEF GoodInv, Holds, Mapped
<1>6. LengthInv'
  BY <1>b DEF LengthInv, Good
<1>7. CountInv'
  BY <1>b DEF CountInv
<1> QED
  BY <1>1, <1>2, <1>3, <1>4, <1>5, <1>6, <1>7 DEF IInv

LEMMA BeginLoopStep ==
  ASSUME IInv, BeginLoop
  PROVE  IInv'
PROOF
<1> USE KeysAssumption DEF BeginLoop, fileVars, mapVars, objVars, heapVars, readVars
<1>1. TypeOK'
  BY DEF IInv, TypeOK
<1>2. LocalsInv'
  BY DEF IInv, LocalsInv, Mapped
<1>3. ThreadInv'
  BY DEF IInv, ThreadInv
<1>4. AppendInv'
  BY DEF IInv, LocalsInv, AppendInv, Sized, Mapped, Ahead
<1>5. GoodInv'
  BY DEF IInv, LocalsInv, GoodInv, Good, Holds, Mapped
<1>6. LengthInv'
  BY DEF IInv, LengthInv, Good
<1>7. CountInv'
  BY DEF IInv, CountInv
<1> QED
  BY <1>1, <1>2, <1>3, <1>4, <1>5, <1>6, <1>7 DEF IInv

LEMMA CopySnapshotStep ==
  ASSUME IInv, NEW k \in Keys, CopySnapshot(k)
  PROVE  IInv'
PROOF
<1> USE KeysAssumption
<1>a. FileOK /\ MapsOK /\ RestOK /\ LocalsInv /\ ThreadInv /\ AppendInv /\ GoodInv
  BY TypeParts DEF IInv
<1>b. k \in DOMAIN offsets /\ k \notin DOMAIN newOffsets /\ DOMAIN newOffsets \subseteq Keys
  BY <1>a DEF CopySnapshot, IsNext, Ahead, LocalsInv
<1>c. /\ Copied(k) \in Seq(Cell) /\ Len(Copied(k)) = Get(sizes, k)
      /\ Get(sizes, k) \in {0, Size[k]} /\ Get(sizes, k) \in Nat
  BY <1>a, <1>b, CopiedFacts DEF LocalsInv
<1>d. newFile \in Seq(Cell) /\ Len(newFile) \in Nat
  BY <1>a DEF LocalsInv
<1>e. /\ newFile' \in Seq(Cell) /\ Len(newFile') \in Nat /\ Len(newFile) <= Len(newFile')
      /\ newFile' = newFile \/ newFile' = newFile \o Copied(k)
  <2>1. newFile \o Copied(k) \in Seq(Cell) /\ Len(newFile \o Copied(k)) = Len(newFile) + Get(sizes, k)
    BY <1>c, <1>d
  <2>2. newFile' = newFile \/ newFile' = newFile \o Copied(k)
    BY DEF CopySnapshot
  <2>3. CASE newFile' = newFile
    BY <1>d, <2>3
  <2>4. CASE newFile' = newFile \o Copied(k)
    <3>1. newFile' \in Seq(Cell) /\ Len(newFile') = Len(newFile) + Get(sizes, k)
      BY <2>1, <2>4
    <3> QED
      BY <1>c, <1>d, <2>4, <3>1
  <2> QED
    BY <2>2, <2>3, <2>4
<1>f. /\ DOMAIN newOffsets' = DOMAIN newOffsets \cup {k} /\ newOffsets'[k] = Len(newFile)
      /\ \A l \in DOMAIN newOffsets : newOffsets'[l] = newOffsets[l]
  BY <1>b DEF CopySnapshot, Enter, With
<1>g. ASSUME mishap \notin {"io", "moved"}, writeTask = "on" PROVE Readable(k)
  <2>1. /\ oldFile = file /\ offsets[k] \in Nat
        /\ \A l \in Keys : Sized(l) => Fits(l, offsets[l], file)
    BY <1>a, <1>b, <1>g DEF AppendInv, CopySnapshot, Mapped
  <2>2. Size[k] \in Nat \ {0}
    OBVIOUS
  <2>3. CASE Get(sizes, k) = 0
    BY <2>1, <2>3 DEF Readable, InFile
  <2>4. CASE Get(sizes, k) = Size[k]
    <3>1. Fits(k, offsets[k], oldFile)
      BY <2>1, <2>2, <2>4 DEF Sized, Get
    <3> QED
      BY <2>4, <3>1 DEF Readable, InFile, Fits
  <2> QED
    BY <1>c, <2>3, <2>4
<1>1. TypeOK'
  <2>1. FileOK'
    BY TypeParts DEF IInv, FileOK, CopySnapshot, fileVars
  <2>2. MapsOK'
    <3>1. swapfileSize' \in Nat
      BY <1>a, <1>c DEF CopySnapshot, MapsOK
    <3> QED
      BY <1>a, <3>1 DEF MapsOK, CopySnapshot, Touch, With
  <2>3. RestOK'
    BY TypeParts DEF IInv, RestOK, CopySnapshot, Mishap, NoMishap, objVars, readVars
  <2> QED
    BY <2>1, <2>2, <2>3, TypeParts
<1>2. LocalsInv'
  <2>1. \A l \in DOMAIN newOffsets' : newOffsets'[l] \in Nat /\ newOffsets'[l] <= Len(newFile')
    BY <1>a, <1>d, <1>e, <1>f DEF LocalsInv
  <2>2. DOMAIN newOffsets' \subseteq Keys
    BY <1>b, <1>f
  <2>3. hpc = "copy" /\ hpc' \in {"copy", "install"}
    BY DEF CopySnapshot
  <2> QED
    BY <1>a, <1>e, <2>1, <2>2, <2>3 DEF LocalsInv, Mapped, CopySnapshot, fileVars
<1>3. ThreadInv'
  BY DEF IInv, ThreadInv, CopySnapshot, readVars
<1>4. AppendInv'
  <2> SUFFICES ASSUME mishap' \notin {"io", "moved"} PROVE AppendInv'
    BY DEF AppendInv
  <2>1. mishap \notin {"io", "moved"} /\ newFile' = newFile \o Copied(k)
        /\ hpc = "copy" /\ hpc' = IF Readable(k) THEN "copy" ELSE "install"
    BY DEF CopySnapshot, Mishap, NoMishap
  <2> SUFFICES ASSUME writeTask = "on" PROVE AppendInv'
    BY <1>a, <2>1 DEF AppendInv, CopySnapshot, fileVars
  <2>2. /\ oldFile = file /\ \A l \in DOMAIN offsets : offsets[l] \in Nat
        /\ \A l \in Keys : Sized(l) => l \in DOMAIN offsets /\ Fits(l, offsets[l], file)
        /\ \A l \in DOMAIN offsets : l \in DOMAIN newOffsets \/ Ahead(l)
        /\ \A l \in DOMAIN newOffsets : Sized(l) => Fits(l, newOffsets[l], newFile)
    BY <1>a, <2>1 DEF AppendInv, Mapped
  <2>3. Size[k] \in Nat \ {0} /\ DOMAIN sizes \subseteq Keys /\ DOMAIN offsets \subseteq Keys
    BY <1>a DEF MapsOK
  <2>4. \A l \in Keys : Sized(l)' <=> Sized(l)
    BY <2>3 DEF Sized, Touch, With, CopySnapshot
  <2>5. Get(sizes, k) = Size[k] => Sized(k)
    BY <2>3 DEF Sized, Get
  <2>6. Readable(k)
    BY <1>g, <2>1
  <2>7. Sized(k) => Fits(k, Len(newFile), newFile')
    <3>1. Len(newFile \o Copied(k)) = Len(newFile) + Get(sizes, k)
      BY <1>c, <1>d
    <3> QED
      BY <1>d, <2>1, <2>3, <3>1 DEF Fits, Sized, Get
  <2>8. \A l \in DOMAIN newOffsets : Sized(l) => Fits(l, newOffsets'[l], newFile')
    BY <1>b, <1>d, <1>e, <1>f, <2>2, FitsLonger
  <2>9. \A l \in DOMAIN newOffsets' : Sized(l)' => Fits(l, newOffsets'[l], newFile')
    BY <1>b, <1>f, <2>4, <2>7, <2>8
  <2>10. \A l \in DOMAIN offsets : l \in DOMAIN newOffsets' \/ Ahead(l)'
    <3> SUFFICES ASSUME NEW l \in DOMAIN offsets, l \notin DOMAIN newOffsets' PROVE Ahead(l)'
      OBVIOUS
    <3>1. Ahead(l) /\ l # k /\ l \in Keys /\ l \in Nat /\ k \in Nat
      BY <1>f, <2>2, <2>3, Zenon
    <3>2. k < l
      BY <3>1 DEF CopySnapshot, IsNext
    <3> QED
      BY <1>f, <3>1, <3>2 DEF Ahead, CopySnapshot
  <2>11. UNCHANGED <<fileVars, offsets, objVars, writeTask, oldFile>> /\ hpc' = "copy"
    BY <2>1, <2>6 DEF CopySnapshot
  <2> QED
    BY <1>a, <2>1, <2>2, <2>4, <2>9, <2>10, <2>11 DEF AppendInv, Mapped, fileVars, objVars
<1>5. GoodInv'
  <2> SUFFICES ASSUME Good' PROVE GoodInv'
    BY DEF GoodInv
  <2>1. /\ Good /\ mishap' = mishap /\ newFile' = newFile \o Copied(k)
        /\ hpc = "copy" /\ hpc' = IF Readable(k) THEN "copy" ELSE "install"
    BY DEF CopySnapshot, Mishap, NoMishap, Good
  <2>2. /\ writeTask = "on" /\ DOMAIN sizes = DOMAIN offsets /\ sizes[k] = Size[k]
        /\ Holds(k, offsets[k], file) /\ DOMAIN newOffsets \subseteq DOMAIN offsets
        /\ \A l \in DOMAIN newOffsets : Holds(l, newOffsets[l], newFile)
    BY <1>a, <1>b, <2>1 DEF GoodInv, Mapped
  <2>3. oldFile = file /\ file \in Seq(Cell) /\ version \in [Keys -> {0, 1}]
    BY <1>a, <2>1, <2>2 DEF AppendInv, Good, FileOK, RestOK
  <2>4. sizes' = sizes /\ Get(sizes, k) = Size[k]
    BY <1>b, <2>2 DEF CopySnapshot, Touch, Get
  <2>5. InFile(file, offsets[k], Size[k])
    BY <2>2, <2>3, HoldsReads DEF Holds
  <2>6. Readable(k) /\ Copied(k) = ReadAt(file, offsets[k], Size[k])
    BY <2>3, <2>4, <2>5 DEF Readable, Copied
  <2>7. HoldsV(k, Len(newFile), newFile', version[k])
    BY <1>d, <2>1, <2>2, <2>3, <2>6, CopyHolds DEF Holds
  <2>8. \A l \in DOMAIN newOffsets : HoldsV(l, newOffsets[l], newFile', version[l])
    BY <1>b, <1>c, <1>d, <2>1, <2>2, AppendKeeps DEF Holds
  <2>9. \A l \in DOMAIN newOffsets' : HoldsV(l, newOffsets'[l], newFile', version[l])
    BY <1>f, <2>7, <2>8
  <2>10. DOMAIN newOffsets' \subseteq DOMAIN offsets /\ hpc' = "copy"
    BY <1>b, <1>f, <2>1, <2>2, <2>6
  <2>11. UNCHANGED <<fileVars, offsets, objVars, writeTask, readVars>>
    BY DEF CopySnapshot
  <2> QED
    BY <1>a, <2>1, <2>4, <2>9, <2>10, <2>11 DEF GoodInv, Holds, Mapped, fileVars, objVars, readVars
<1>6. LengthInv'
  <2> SUFFICES ASSUME Good' PROVE LengthInv'
    BY DEF LengthInv
  <2>1. Good /\ newFile' = newFile \o Copied(k) /\ hpc = "copy" /\ hpc' \in {"copy", "install"}
        /\ swapfileSize' = swapfileSize + Get(sizes, k)
    BY DEF CopySnapshot, Mishap, NoMishap, Good
  <2>2. swapfileSize = Len(newFile)
    BY <2>1 DEF IInv, LengthInv
  <2>3. Len(newFile \o Copied(k)) = Len(newFile) + Get(sizes, k)
    BY <1>c, <1>d
  <2> QED
    BY <2>1, <2>2, <2>3 DEF LengthInv
<1>7. CountInv'
  <2> SUFFICES ASSUME mishap' = "none" PROVE CountInv'
    BY DEF CountInv
  <2>1. mishap = "none" /\ Good' /\ Good /\ hpc = "copy"
    BY DEF CopySnapshot, Mishap, NoMishap, Good
  <2>2. sizes[k] = Size[k] /\ k \in DOMAIN sizes
    BY <1>a, <1>b, <2>1 DEF GoodInv
  <2>3. sizes' = sizes /\ swapfileSize' = swapfileSize + Size[k] /\ freedSize' = freedSize
    BY <2>2 DEF CopySnapshot, Touch, Get
  <2>4. /\ IsFiniteSet(BytesOf(DOMAIN sizes)) /\ IsFiniteSet(BytesOf(DOMAIN newOffsets))
        /\ freedSize = 0 /\ swapfileSize = Cardinality(BytesOf(DOMAIN newOffsets))
    BY <2>1 DEF IInv, CountInv
  <2>5. /\ IsFiniteSet(BytesOf(DOMAIN newOffsets'))
        /\ Cardinality(BytesOf(DOMAIN newOffsets')) = Cardinality(BytesOf(DOMAIN newOffsets)) + Size[k]
    <3>1. DOMAIN newOffsets \in SUBSET Keys /\ k \in Keys \ DOMAIN newOffsets
          /\ DOMAIN newOffsets' = DOMAIN newOffsets \cup {k}
      BY <1>b, <1>f
    <3> QED
      BY <2>4, <3>1, BytesAdd
  <2>6. hpc' = "copy"
    BY <1>a, <1>g, <2>1 DEF GoodInv, CopySnapshot, Mishap
  <2> QED
    BY <2>3, <2>4, <2>5, <2>6 DEF CountInv
<1> QED
  BY <1>1, <1>2, <1>3, <1>4, <1>5, <1>6, <1>7 DEF IInv

LEMMA EndLoopStep ==
  ASSUME IInv, EndLoop
  PROVE  IInv'
PROOF
<1> USE KeysAssumption
<1>1. TypeOK'
  BY DEF IInv, TypeOK, EndLoop, fileVars, mapVars, objVars, readVars
<1>2. LocalsInv'
  BY DEF IInv, LocalsInv, Mapped, EndLoop, fileVars, mapVars
<1>3. ThreadInv'
  BY DEF IInv, ThreadInv, EndLoop, readVars
<1>4. AppendInv'
  <2> SUFFICES ASSUME mishap \notin {"io", "moved"} PROVE AppendInv'
    BY DEF AppendInv, EndLoop
  <2>1. writeTask = "on" => DOMAIN offsets \subseteq DOMAIN newOffsets
    BY Zenon DEF IInv, TypeOK, AppendInv, EndLoop
  <2> QED
    BY <2>1 DEF IInv, AppendInv, Sized, Mapped, EndLoop, fileVars, mapVars, objVars
<1>5. GoodInv'
  <2> SUFFICES ASSUME Good PROVE GoodInv'
    BY DEF GoodInv, Good, EndLoop
  <2>1. DOMAIN offsets \subseteq DOMAIN newOffsets
    BY Zenon DEF IInv, TypeOK, AppendInv, GoodInv, Good, EndLoop
  <2> QED
    BY <2>1 DEF IInv, GoodInv, Holds, Mapped, EndLoop, fileVars, mapVars, objVars, readVars
<1>6. LengthInv'
  BY DEF IInv, LengthInv, Good, EndLoop, mapVars
<1>7. CountInv'
  <2> SUFFICES ASSUME mishap = "none" PROVE CountInv'
    BY DEF CountInv, EndLoop
  <2>1. DOMAIN newOffsets = DOMAIN sizes
    BY <1>5 DEF GoodInv, Good, EndLoop, mapVars
  <2>2. swapfileSize \in Nat
    BY DEF IInv, TypeOK
  <2>3. /\ IsFiniteSet(BytesOf(DOMAIN sizes)) /\ IsFiniteSet(BytesOf(DOMAIN newOffsets))
        /\ freedSize = 0 /\ swapfileSize = Cardinality(BytesOf(DOMAIN newOffsets))
        /\ hpc' = "install" /\ UNCHANGED <<mapVars, newOffsets>>
    BY Zenon DEF IInv, CountInv, EndLoop
  <2> QED
    BY <2>1, <2>2, <2>3 DEF CountInv, mapVars
<1> QED
  BY <1>1, <1>2, <1>3, <1>4, <1>5, <1>6, <1>7 DEF IInv

LEMMA InstallOffsetsStep ==
  ASSUME IInv, InstallOffsets
  PROVE  IInv'
PROOF
<1> USE KeysAssumption DEF InstallOffsets, MapsFree, fileVars, mapVars, objVars, heapVars, readVars
<1>1. TypeOK'
  BY DEF IInv, TypeOK, LocalsInv
<1>2. LocalsInv'
  BY DEF IInv, LocalsInv, Mapped
<1>3. ThreadInv'
  BY DEF IInv, ThreadInv
<1>4. AppendInv'
  BY DEF IInv, LocalsInv, AppendInv, Sized, Mapped
<1>5. GoodInv'
  BY Zenon DEF IInv, GoodInv, Good, Holds, Mapped
<1>6. LengthInv'
  BY DEF IInv, LengthInv, Good
<1>7. CountInv'
  BY Zenon DEF IInv, CountInv
<1> QED
  BY <1>1, <1>2, <1>3, <1>4, <1>5, <1>6, <1>7 DEF IInv

LEMMA InstallFileStep ==
  ASSUME IInv, InstallFile
  PROVE  IInv'
PROOF
<1> USE KeysAssumption
<1>1. TypeOK'
  <2>1. FileOK'
    <3>1. newFile \in Seq(Cell) /\ file' = newFile /\ pos' = Len(newFile) /\ streamBad' = FALSE
      BY DEF IInv, LocalsInv, InstallFile
    <3>2. pos' \in Nat
      BY <3>1
    <3> QED
      BY <3>1, <3>2, Zenon DEF FileOK
  <2>2. MapsOK'
    BY TypeParts DEF IInv, MapsOK, InstallFile, mapVars
  <2>3. RestOK'
    BY TypeParts DEF IInv, RestOK, InstallFile, MishapIf, Mishap, NoMishap, fileVars, objVars,
      readVars
  <2> QED
    BY <2>1, <2>2, <2>3, TypeParts
<1>2. LocalsInv'
  BY DEF IInv, LocalsInv, Mapped, InstallFile, mapVars
<1>3. ThreadInv'
  BY DEF IInv, ThreadInv, InstallFile, readVars
<1>4. AppendInv'
  BY DEF IInv, AppendInv, Sized, Mapped, InstallFile, MishapIf, Mishap, NoMishap, mapVars, objVars
<1>5. GoodInv'
  BY Zenon DEF IInv, GoodInv, Good, Holds, Mapped, InstallFile, MishapIf, Mishap, NoMishap,
    mapVars, objVars, readVars
<1>6. LengthInv'
  <2> SUFFICES ASSUME Good' PROVE LengthInv'
    BY DEF LengthInv
  <2>1. Good /\ hpc = "swap" /\ hpc' = "validate" /\ file' = newFile /\ swapfileSize' = swapfileSize
    BY DEF Good, InstallFile, MishapIf, Mishap, NoMishap, mapVars
  <2>2. swapfileSize = Len(newFile) /\ swapfileSize \in Nat
    BY <2>1 DEF IInv, LengthInv, TypeOK
  <2> QED
    BY <2>1, <2>2 DEF LengthInv
<1>7. CountInv'
  <2>1. newOffsets' = << >>
    BY DEF InstallFile
  <2>2. DOMAIN newOffsets' = {}
    BY <2>1
  <2> QED
    BY <2>2, BytesNone DEF IInv, CountInv, InstallFile, MishapIf, Mishap, NoMishap, mapVars
<1> QED
  BY <1>1, <1>2, <1>3, <1>4, <1>5, <1>6, <1>7 DEF IInv

LEMMA BeginValidationStep ==
  ASSUME IInv, BeginValidation
  PROVE  IInv'
PROOF
<1> USE KeysAssumption
<1>a. /\ hpc = "validate" /\ hpc' = "check" /\ fpc' = fpc
      /\ UNCHANGED <<file, pos, streamBad, offsets, sizes, freedSize, swapfileSize, state, version,
                     writeTask, hkey, hoff, oldFile, newFile, newOffsets, tpc, tkey, toff, tsize,
                     mishap>>
  BY DEF BeginValidation, fileVars, mapVars, objVars, readVars
<1>1. TypeOK'
  BY <1>a DEF IInv, TypeOK
<1>2. LocalsInv'
  BY <1>a DEF IInv, LocalsInv, Mapped
<1>3. ThreadInv'
  BY <1>a DEF IInv, ThreadInv
<1>4. AppendInv'
  <2>1. AppendInv
    BY DEF IInv
  <2> QED
    BY <1>a, <2>1 DEF AppendInv, Sized, Mapped
<1>5. GoodInv'
  <2>1. GoodInv
    BY DEF IInv
  <2> QED
    BY <1>a, <2>1 DEF GoodInv, Good, Holds, Mapped
<1>6. LengthInv'
  BY <1>a DEF IInv, LengthInv, Good
<1>7. CountInv'
  BY <1>a, Zenon DEF IInv, CountInv
<1> QED
  BY <1>1, <1>2, <1>3, <1>4, <1>5, <1>6, <1>7 DEF IInv

LEMMA ValidateSwapFileStep ==
  ASSUME IInv, ValidateSwapFile
  PROVE  IInv'
PROOF
<1> USE KeysAssumption
<1>1. TypeOK'
  BY DEF IInv, TypeOK, ValidateSwapFile, Get, objVars, readVars
<1>2. LocalsInv'
  BY DEF IInv, LocalsInv, Mapped, ValidateSwapFile
<1>3. ThreadInv'
  BY DEF IInv, ThreadInv, ValidateSwapFile, readVars
<1>4. AppendInv'
  BY Zenon DEF IInv, TypeOK, AppendInv, Sized, Mapped, ValidateSwapFile, Get, objVars
<1>5. GoodInv'
  <2> SUFFICES ASSUME Good PROVE GoodInv'
    BY Zenon DEF GoodInv, Good, ValidateSwapFile
  <2>1. file \in Seq(Cell) /\ version \in [Keys -> {0, 1}] /\ DOMAIN offsets \subseteq Keys
    BY TypeParts, Zenon DEF IInv, FileOK, RestOK, MapsOK
  <2>2. \A k \in DOMAIN offsets : HoldsV(k, offsets[k], file, version[k])
    BY Zenon DEF IInv, GoodInv, Holds, Mapped, ValidateSwapFile
  <2>3. \A k \in DOMAIN offsets : InFile(file, offsets[k], Size[k])
    BY <2>1, <2>2, HoldsReads, Zenon
  <2>4. DOMAIN sizes = DOMAIN offsets /\ (\A k \in DOMAIN sizes : sizes[k] = Size[k]) /\ ~streamBad
    BY DEF IInv, GoodInv
  <2>5. ~streamBad' /\ DOMAIN sizes' = DOMAIN sizes /\ \A k \in DOMAIN sizes : sizes'[k] = sizes[k]
    BY <2>3, <2>4, Zenon DEF ValidateSwapFile, Get
  <2>6. /\ hpc = "check" /\ hpc' = "idle"
        /\ UNCHANGED <<file, offsets, state, version, writeTask, hkey, hoff, newFile, newOffsets>>
        /\ UNCHANGED <<tpc, tkey, toff, tsize>>
    BY DEF ValidateSwapFile, objVars, readVars
  <2>7. GoodInv
    BY DEF IInv
  <2> QED
    BY <2>4, <2>5, <2>6, <2>7 DEF GoodInv, Holds, Mapped
<1>6. LengthInv'
  BY DEF IInv, LengthInv, Good, ValidateSwapFile
<1>7. CountInv'
  <2> SUFFICES ASSUME mishap = "none" PROVE CountInv'
    BY DEF CountInv, ValidateSwapFile
  <2>1. DOMAIN sizes' = DOMAIN sizes
    BY DEF IInv, GoodInv, Good, ValidateSwapFile
  <2> QED
    BY <2>1 DEF IInv, CountInv, ValidateSwapFile
<1> QED
  BY <1>1, <1>2, <1>3, <1>4, <1>5, <1>6, <1>7 DEF IInv

-----------------------------------------------------------------------------
LEMMA NextStep == IInv /\ [Next]_vars => IInv'
PROOF
<1> SUFFICES ASSUME IInv, [Next]_vars PROVE IInv'
  OBVIOUS
<1>1. ASSUME NEW k \in Keys,
             \/ Allocate(k) \/ Reclaim(k) \/ CollectSemiSpace(k) \/ GcRecordFree(k)
             \/ FirstWrite(k) \/ LookupSnapshot(k) \/ LoseReset(k)
      PROVE  IInv'
  BY <1>1, AllocateStep, ReclaimStep, CollectSemiSpaceStep, GcRecordFreeStep, FirstWriteStep,
     LookupSnapshotStep, LoseResetStep
<1>2. ASSUME NEW t \in Threads, NEW k \in Keys, SwapInOnDemand(t, k) PROVE IInv'
  BY <1>2, SwapInOnDemandStep
<1>3. ASSUME EndWriteTask \/ CopyFile \/ HeapStep PROVE IInv'
  BY <1>3, EndWriteTaskStep, CopyFileStep, RecordStep, RewriteStep, BeginLoopStep, CopySnapshotStep,
     EndLoopStep, InstallOffsetsStep, InstallFileStep, BeginValidationStep, ValidateSwapFileStep
  DEF HeapStep
<1>4. ASSUME NEW t \in Threads, ReadOnDemand(t) PROVE IInv'
  BY <1>4, ReadOnDemandStep
<1>5. ASSUME BeginSwapObjectsIn \/ ForegroundStep PROVE IInv'
  BY <1>5, BeginSwapObjectsInStep, SwapObjectsInNextStep, EndSwapObjectsInStep DEF ForegroundStep
<1>6. CASE UNCHANGED vars
  BY <1>6, StutterStep
<1> QED
  BY <1>1, <1>2, <1>3, <1>4, <1>5, <1>6 DEF Next

LEMMA Invariance == Spec => []IInv
PROOF
  BY InitIInv, NextStep, PTL DEF Spec

-----------------------------------------------------------------------------
(* The variables keep their types in every step of writeToSwapFile,        *)
(* CompactSwapFile, validateSwapFile, swap-in and GcRecordFree: offsets    *)
(* are positions or the -1 of a failed tellp, sizes 0 or the object's.     *)
THEOREM TypeCorrect == Spec => []TypeOK
PROOF
<1>1. IInv => TypeOK
  BY Zenon DEF IInv
<1> QED
  BY <1>1, Invariance, PTL

(* Without a fault or a race on a snapshot, objectOffsetMap and            *)
(* objectSizeMap lead to the bytes last written for every key, whatever    *)
(* writeToSwapFile, GcRecordFree and CompactSwapFile did.                  *)
THEOREM SnapshotsStay == Spec => []SnapshotsInPlace
PROOF
<1>1. IInv => SnapshotsInPlace
  <2> SUFFICES ASSUME IInv, Good, hpc # "swap"
               PROVE  /\ DOMAIN offsets = DOMAIN sizes
                      /\ \A k \in DOMAIN offsets :
                           ReadAt(file, offsets[k], sizes[k]) = Cells(k, version[k])
    BY Zenon DEF SnapshotsInPlace, Good
  <2>1. /\ DOMAIN offsets = DOMAIN sizes
        /\ \A k \in DOMAIN offsets : sizes[k] = Size[k] /\ HoldsV(k, offsets[k], file, version[k])
    BY DEF IInv, GoodInv, Holds, Mapped
  <2>2. DOMAIN offsets \subseteq Keys /\ file \in Seq(Cell) /\ \A k \in Keys : version[k] \in {0, 1}
    BY TypeParts, Zenon DEF IInv, FileOK, MapsOK, RestOK
  <2>3. ASSUME NEW k \in DOMAIN offsets
        PROVE  ReadAt(file, offsets[k], sizes[k]) = Cells(k, version[k])
    <3>1. /\ file \in Seq(Cell) /\ k \in Keys /\ version[k] \in {0, 1}
          /\ sizes[k] = Size[k] /\ HoldsV(k, offsets[k], file, version[k])
      BY <2>1, <2>2
    <3> QED
      BY <3>1, HoldsReads
  <2> QED
    BY <2>1, <2>3
<1> QED
  BY <1>1, Invariance, PTL

(* Without those, swapInObject finds in the file what was written, on      *)
(* demand or in SwapObjectsIn: no object comes back damaged.               *)
THEOREM SwapInIsRight == Spec => []SwapInRestores
PROOF
<1>1. IInv => SwapInRestores
  BY Zenon DEF IInv, GoodInv, Good, SwapInRestores
<1> QED
  BY <1>1, Invariance, PTL

(* Every operation that moves the stream, an overwrite in writeToSwapFile, *)
(* swapInObject, validateSwapFile, CompactSwapFile, takes it back to the   *)
(* end of the file, unless there was an I/O error or a key was renamed     *)
(* while CompactSwapFile held on to it.                                    *)
THEOREM StreamAtEnd == Spec => []AppendsAtEnd
PROOF
<1>1. IInv => AppendsAtEnd
  BY DEF IInv, AppendInv, AppendsAtEnd
<1> QED
  BY <1>1, Invariance, PTL

(* The counters that CompactSwapFile decides by, between tasks:            *)
(* swapfileSize is the length of the file but for its header, and          *)
(* freedSize with the sizes in objectSizeMap comes to no more.             *)
THEOREM GarbageNotOverstated == Spec => []GarbageAccounted
PROOF
<1>1. IInv => GarbageAccounted
  <2> SUFFICES ASSUME IInv, hpc = "idle", Good
               PROVE  /\ Len(file) - swapfileSize \in {0, 1}
                      /\ mishap = "none" => freedSize + Total(sizes) <= swapfileSize
    BY DEF GarbageAccounted, Good
  <2>1. \A k \in DOMAIN sizes : sizes[k] = Size[k]
    BY DEF IInv, GoodInv
  <2>2. Total(sizes) = Cardinality(BytesOf(DOMAIN sizes))
    BY <2>1, BytesTotal
  <2>3. Len(file) - swapfileSize \in {0, 1}
    BY DEF IInv, LengthInv
  <2> QED
    BY <2>2, <2>3 DEF IInv, CountInv
<1> QED
  BY <1>1, Invariance, PTL

=============================================================================
