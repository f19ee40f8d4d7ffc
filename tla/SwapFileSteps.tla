--------------------------- MODULE SwapFileSteps ----------------------------
(***************************************************************************)
(* The steps that write snapshots to the swap file and that read them from *)
(* it, those of the WriteTask and of swapping in, keep the invariant of    *)
(* SwapFileInvariant.                                                      *)
(***************************************************************************)
EXTENDS SwapFileInvariant

(* The WriteTask and writeToSwapFile.                                      *)

LEMMA FirstWriteStep ==
  ASSUME IInv, NEW k \in Keys, FirstWrite(k)
  PROVE  IInv'
PROOF
<1> USE KeysAssumption
<1>a. FileOK /\ MapsOK /\ RestOK /\ LocalsInv /\ ThreadInv /\ AppendInv /\ GoodInv
  BY TypeParts DEF IInv
<1>b. pos \in Offset /\ pos <= Len(file) /\ pos \in Nat /\ Size[k] \in Nat /\ Len(file) \in Nat
  BY <1>a DEF FileOK, LocalsInv, Offset
<1>c. Streamed(k, pos)
  BY <1>a, <1>b, StreamFacts DEF FirstWrite
<1>d. file' \in Seq(Cell) /\ Len(file) <= Len(file') /\ Len(file') \in Nat
  BY <1>a, <1>b, <1>c DEF Streamed, Overwrites, FileOK
<1>1. TypeOK'
  <2>1. FileOK'
    <3>1. streamBad' \in BOOLEAN
      BY <1>a, <1>c, Zenon DEF Streamed, FileOK
    <3>2. pos' \in Nat
      BY <1>b DEF FirstWrite
    <3> QED
      BY <1>d, <3>1, <3>2 DEF FileOK
  <2>2. MapsOK'
    BY TypeParts DEF IInv, MapsOK, FirstWrite, mapVars
  <2>3. RestOK'
    BY TypeParts DEF IInv, RestOK, FirstWrite, StreamWrite, Written, MishapIf, Mishap, NoMishap,
      readVars
  <2> QED
    BY <2>1, <2>2, <2>3, TypeParts
<1>2. LocalsInv'
  <2>1. pos' \in Nat /\ pos' <= Len(file') /\ hoff' \in Offset /\ hoff' <= Len(file')
    BY <1>b, <1>c, <1>d DEF FirstWrite, Streamed, Overwrites, Offset
  <2>2. \A l \in DOMAIN offsets : offsets[l] \in Int /\ offsets[l] <= Len(file)
    BY <1>a DEF LocalsInv, MapsOK, Offset, Mapped, FirstWrite, MayWrite
  <2>3. \A l \in DOMAIN offsets' : offsets'[l] <= Len(Mapped')
    BY <1>b, <1>d, <2>2 DEF Mapped, FirstWrite, mapVars
  <2> QED
    BY <1>a, <2>1, <2>3 DEF LocalsInv, FirstWrite, MayWrite, objVars, heapVars, readVars
<1>3. ThreadInv'
  BY DEF IInv, ThreadInv, FirstWrite, MayWrite, Running, readVars
<1>4. AppendInv'
  <2> SUFFICES ASSUME mishap' \notin {"io", "moved"} PROVE AppendInv'
    BY DEF AppendInv
  <2>1. mishap \notin {"io", "moved"}
    BY <1>c DEF Streamed
  <2>2. CASE ~streamBad'
    <3>1. ~streamBad /\ Overwrites(file', file, pos, k, 1 - version[k]) /\ writeTask' = writeTask
      BY <1>c, <2>2, Zenon DEF Streamed
    <3>2. pos = Len(file) /\ pos' = pos + Size[k] /\ Len(file') = pos + Size[k] /\ hoff' = pos
      <4>1. pos = Len(file)
        BY <1>a, <2>1, <3>1, Zenon DEF AppendInv
      <4>2. pos' = pos + Size[k] /\ hoff' = pos
        BY <2>2, <3>1, Zenon DEF FirstWrite
      <4>3. Len(file') = pos + Size[k]
        BY <1>b, <3>1, <4>1 DEF Overwrites
      <4> QED
        BY <4>1, <4>2, <4>3
    <3>3. \A l \in Keys : \A o : Fits(l, o, file) => Fits(l, o, file')
      BY <1>a, <1>d, FitsLonger DEF FileOK
    <3>4. Fits(k, pos, file')
      BY <1>b, <3>2 DEF Fits
    <3> QED
      BY <1>a, <2>1, <3>1, <3>2, <3>3, <3>4
      DEF AppendInv, Sized, Mapped, FirstWrite, MayWrite, fileVars, mapVars, objVars, heapVars, readVars
  <2>3. CASE streamBad'
    <3>1. writeTask' # "on"
      BY <1>c, <2>3, Zenon DEF Streamed
    <3> QED
      BY <2>3, <3>1 DEF AppendInv
  <2> QED
    BY <2>2, <2>3
<1>5. GoodInv'
  <2> SUFFICES ASSUME Good' PROVE GoodInv'
    BY DEF GoodInv
  <2>1. /\ Good /\ ~streamBad /\ streamBad' = streamBad
        /\ Overwrites(file', file, pos, k, 1 - version[k]) /\ writeTask' = writeTask
    BY <1>a, <1>c, Zenon DEF Streamed, Good, GoodInv
  <2>2. pos = Len(file) /\ hoff' = pos
    BY <1>a, <2>1 DEF AppendInv, Good, FirstWrite
  <2>a. version[k] \in {0, 1}
    BY <1>a DEF RestOK
  <2>b. 1 - version[k] \in {0, 1}
    BY <2>a
  <2>3. Len(file') = pos + Size[k] /\ file \in Seq(Cell) /\ OwnPlace(file, pos, k)
    BY <1>a, <1>b, <2>1, <2>2 DEF Overwrites, FileOK, OwnPlace
  <2>4. \A l \in Keys \ {k} : \A o, u : HoldsV(l, o, file, u) => HoldsV(l, o, file', u)
    <3> TAKE l \in Keys \ {k}
    <3> TAKE o, u
    <3> HAVE HoldsV(l, o, file, u)
    <3> QED
      BY <1>b, <2>b, <2>1, <2>2, <2>3, OthersKept
  <2>5. HoldsV(k, pos, file', 1 - version[k])
    BY <1>b, <2>1, <2>3 DEF Overwrites, HoldsV, Fits
  <2>6. version' = [version EXCEPT ![k] = 1 - version[k]] /\ version \in [Keys -> {0, 1}]
    BY <1>a DEF FirstWrite, Written, RestOK
  <2>7. \A l \in Keys \ {k} : \A o : Holds(l, o, file) => HoldsV(l, o, file', version'[l])
    BY <2>4, <2>6 DEF Holds
  <2>8. HoldsV(k, pos, file', version'[k])
    BY <2>5, <2>6
  <2>9. k \notin DOMAIN offsets /\ state[k] = "plain" /\ DOMAIN offsets \subseteq Keys
        /\ hpc' = "record" /\ hkey' = k /\ hpc = "idle"
    BY <1>a DEF FirstWrite, MayWrite, MapsOK
  <2>10. Mapped = file /\ Mapped' = file'
    BY <2>9, Zenon DEF Mapped
  <2>11. \A t \in Threads : tpc[t] = "read" => tkey[t] \in Keys \ {k}
    BY <1>a, <2>1, <2>9 DEF GoodInv, ThreadInv
  <2>12. UNCHANGED <<mapVars, state, readVars>>
    BY Zenon DEF FirstWrite
  <2> QED
    BY <1>a, <2>1, <2>2, <2>7, <2>8, <2>9, <2>10, <2>11, <2>12, Zenon
    DEF GoodInv, Holds, mapVars, readVars
<1>6. LengthInv'
  <2> SUFFICES ASSUME Good' PROVE LengthInv'
    BY DEF LengthInv
  <2>1. Good /\ ~streamBad /\ Overwrites(file', file, pos, k, 1 - version[k]) /\ hpc = "idle"
    BY <1>a, <1>c, Zenon DEF Streamed, Good, GoodInv, FirstWrite, MayWrite
  <2>2. pos = Len(file)
    BY <1>a, <2>1 DEF AppendInv, Good
  <2>3. Len(file') = Len(file) + Size[k]
    BY <1>b, <2>1, <2>2 DEF Overwrites
  <2>4. Len(file) - swapfileSize \in {0, 1} /\ swapfileSize \in Nat
    BY <1>a, <2>1 DEF IInv, LengthInv, MapsOK
  <2>5. hpc' = "record" /\ hkey' = k /\ swapfileSize' = swapfileSize
    BY DEF FirstWrite, mapVars
  <2> QED
    BY <1>b, <2>3, <2>4, <2>5 DEF LengthInv
<1>7. CountInv'
  BY Zenon DEF IInv, CountInv, FirstWrite, MayWrite, StreamWrite, MishapIf, Mishap, NoMishap,
    mapVars
<1> QED
  BY <1>1, <1>2, <1>3, <1>4, <1>5, <1>6, <1>7 DEF IInv

LEMMA RecordStep ==
  ASSUME IInv, Record
  PROVE  IInv'
PROOF
<1> USE KeysAssumption
<1>1. TypeOK'
  BY DEF IInv, TypeOK, LocalsInv, Offset, Record, With, fileVars, objVars, readVars
<1>2. LocalsInv'
  BY DEF IInv, LocalsInv, Mapped, Offset, Record, With, fileVars
<1>3. ThreadInv'
  BY DEF IInv, ThreadInv, Record, readVars
<1>4. AppendInv'
  <2>1. hkey \in Keys /\ Mapped' = file /\ Mapped = file /\ hpc' = "idle"
    BY DEF IInv, LocalsInv, Record, Mapped, fileVars
  <2>2. ASSUME mishap \notin {"io", "moved"}, writeTask = "on" PROVE Fits(hkey, hoff, file)
    BY <2>2 DEF IInv, AppendInv, Record
  <2>3. /\ DOMAIN offsets' = DOMAIN offsets \cup {hkey} /\ offsets'[hkey] = hoff
        /\ \A l \in DOMAIN offsets : l # hkey => offsets'[l] = offsets[l]
    BY DEF Record, With
  <2>4. \A l \in Keys : l # hkey => (Sized(l)' <=> Sized(l))
    BY DEF Record, With, Sized
  <2>5. UNCHANGED <<fileVars, objVars, writeTask, mishap>>
    BY DEF Record
  <2>6. ASSUME mishap \notin {"io", "moved"}, writeTask = "on" PROVE hoff \in Nat
    BY <2>2, <2>6, Zenon DEF Fits
  <2> QED
    BY <2>1, <2>2, <2>3, <2>4, <2>5, <2>6 DEF IInv, AppendInv, fileVars, objVars
<1>5. GoodInv'
  <2> SUFFICES ASSUME Good PROVE GoodInv'
    BY DEF GoodInv, Good, Record
  <2>1. GoodInv /\ hpc = "record" /\ hkey \in Keys /\ hkey \notin DOMAIN offsets
        /\ state[hkey] = "plain" /\ Holds(hkey, hoff, file)
    BY DEF IInv, GoodInv, LocalsInv, Record
  <2>2. /\ DOMAIN offsets' = DOMAIN offsets \cup {hkey} /\ offsets'[hkey] = hoff
        /\ \A l \in DOMAIN offsets : offsets'[l] = offsets[l]
        /\ DOMAIN sizes' = DOMAIN sizes \cup {hkey} /\ sizes'[hkey] = Size[hkey]
        /\ \A l \in DOMAIN sizes : l # hkey => sizes'[l] = sizes[l]
    BY <2>1 DEF Record, With
  <2>3. /\ UNCHANGED <<file, streamBad, state, version, writeTask, newFile, newOffsets>>
        /\ UNCHANGED <<tpc, tkey, toff, tsize>> /\ hpc' = "idle"
    BY DEF Record, fileVars, objVars, readVars
  <2>4. \A t \in Threads : tpc[t] = "read" => tkey[t] \in DOMAIN offsets
    BY <2>1 DEF IInv, ThreadInv, GoodInv
  <2> QED
    BY <2>1, <2>2, <2>3, <2>4 DEF GoodInv, Holds, Mapped
<1>6. LengthInv'
  <2>1. swapfileSize' = swapfileSize + Size[hkey] /\ hpc = "record" /\ hpc' = "idle"
        /\ file' = file /\ mishap' = mishap
    BY DEF Record, fileVars
  <2> QED
    BY <2>1 DEF IInv, LengthInv, Good
<1>7. CountInv'
  <2> SUFFICES ASSUME mishap' = "none" PROVE CountInv'
    BY DEF CountInv
  <2>1. mishap = "none" /\ hpc = "record" /\ hpc' = "idle" /\ newOffsets' = newOffsets
        /\ freedSize' = freedSize /\ swapfileSize' = swapfileSize + Size[hkey]
    BY DEF Record
  <2>2. hkey \in Keys \ DOMAIN sizes /\ DOMAIN sizes \in SUBSET Keys
    BY <2>1 DEF IInv, GoodInv, Good, LocalsInv, TypeOK
  <2>3. /\ IsFiniteSet(BytesOf(DOMAIN sizes)) /\ IsFiniteSet(BytesOf(DOMAIN newOffsets))
        /\ freedSize + Cardinality(BytesOf(DOMAIN sizes)) <= swapfileSize
    BY <2>1 DEF IInv, CountInv
  <2>4. /\ IsFiniteSet(BytesOf(DOMAIN sizes \cup {hkey}))
        /\ Cardinality(BytesOf(DOMAIN sizes \cup {hkey})) =
             Cardinality(BytesOf(DOMAIN sizes)) + Size[hkey]
    BY <2>2, <2>3, BytesAdd
  <2>5. DOMAIN sizes' = DOMAIN sizes \cup {hkey}
    BY DEF Record, With
  <2>6. Cardinality(BytesOf(DOMAIN sizes)) \in Nat /\ Size[hkey] \in Nat /\ freedSize \in Nat
        /\ swapfileSize \in Nat
    BY <2>2, <2>3, FS_CardinalityType DEF IInv, TypeOK
  <2>7. freedSize' + Cardinality(BytesOf(DOMAIN sizes \cup {hkey})) <= swapfileSize'
    BY <2>1, <2>3, <2>4, <2>6
  <2> QED
    BY <2>1, <2>3, <2>4, <2>5, <2>7 DEF CountInv
<1> QED
  BY <1>1, <1>2, <1>3, <1>4, <1>5, <1>6, <1>7 DEF IInv

LEMMA LookupSnapshotStep ==
  ASSUME IInv, NEW k \in Keys, LookupSnapshot(k)
  PROVE  IInv'
PROOF
<1> USE KeysAssumption
<1>1. TypeOK'
  <2>1. FileOK'
    BY TypeParts DEF IInv, FileOK, LookupSnapshot, fileVars
  <2>2. MapsOK'
    BY TypeParts DEF IInv, MapsOK, Offset, LookupSnapshot, Touch, With
  <2>3. RestOK'
    <3>1. RestOK
      BY TypeParts DEF IInv
    <3>2. version' \in [Keys -> {0, 1}]
      BY <3>1 DEF RestOK, LookupSnapshot, Written
    <3> QED
      BY <3>1, <3>2 DEF RestOK, LookupSnapshot, readVars
  <2> QED
    BY <2>1, <2>2, <2>3, TypeParts
<1>2. LocalsInv'
  BY DEF IInv, TypeOK, LocalsInv, Mapped, Offset, LookupSnapshot, MayWrite, Touch, With, Get,
    fileVars
<1>3. ThreadInv'
  BY DEF IInv, ThreadInv, LookupSnapshot, MayWrite, Running, readVars
<1>4. AppendInv'
  BY Zenon DEF IInv, AppendInv, Sized, Mapped, LookupSnapshot, MayWrite, Touch, With, Get,
    fileVars
<1>5. GoodInv'
  <2> SUFFICES ASSUME Good' PROVE GoodInv'
    BY DEF GoodInv
  <2>1. Good /\ GoodInv /\ hpc = "idle" /\ state[k] \in {"plain", "stub"}
    BY DEF IInv, Good, LookupSnapshot, MayWrite
  <2>2. k \in DOMAIN offsets /\ k \in DOMAIN sizes /\ sizes[k] = Size[k]
    BY <2>1 DEF GoodInv, LookupSnapshot
  <2>3. UNCHANGED <<offsets, sizes, version>> /\ hpc' = "rewrite" /\ hkey' = k /\ hoff' = offsets[k]
    BY <2>2, Zenon DEF LookupSnapshot, Touch, Get
  <2>4. UNCHANGED <<file, streamBad, state, writeTask, newOffsets, newFile, tpc, tkey, toff, tsize>>
    BY DEF LookupSnapshot, fileVars, readVars
  <2> QED
    BY <2>1, <2>2, <2>3, <2>4 DEF GoodInv, Holds, Mapped
<1>6. LengthInv'
  BY DEF IInv, LengthInv, Good, LookupSnapshot, MayWrite, fileVars
<1>7. CountInv'
  BY Zenon DEF IInv, GoodInv, Good, CountInv, LookupSnapshot, MayWrite, Touch
<1> QED
  BY <1>1, <1>2, <1>3, <1>4, <1>5, <1>6, <1>7 DEF IInv

LEMMA RewriteStep ==
  ASSUME IInv, Rewrite
  PROVE  IInv'
PROOF
<1> USE KeysAssumption
<1>a. FileOK /\ MapsOK /\ RestOK /\ LocalsInv /\ ThreadInv /\ AppendInv /\ GoodInv
  BY TypeParts DEF IInv
<1>b. hoff \in Offset /\ hoff <= Len(file) /\ hkey \in Keys /\ Size[hkey] \in Nat
      /\ Len(file) \in Nat /\ pos \in Nat
  BY <1>a DEF FileOK, LocalsInv, Rewrite
<1>c. Streamed(hkey, hoff)
  BY <1>a, <1>b, StreamFacts DEF Rewrite
<1>d. file' \in Seq(Cell) /\ Len(file) <= Len(file') /\ Len(file') \in Nat
  BY <1>a, <1>b, <1>c DEF Streamed, Overwrites, FileOK
<1>1. TypeOK'
  <2>1. FileOK'
    <3>1. streamBad' \in BOOLEAN
      BY <1>a, <1>c, Zenon DEF Streamed, FileOK
    <3> QED
      BY <1>b, <1>d, <3>1 DEF FileOK, Rewrite
  <2>2. MapsOK'
    BY TypeParts DEF IInv, MapsOK, Rewrite, mapVars
  <2>3. RestOK'
    BY TypeParts DEF IInv, RestOK, LocalsInv, Rewrite, StreamWrite, Written, MishapIf, Mishap,
      NoMishap, readVars
  <2> QED
    BY <2>1, <2>2, <2>3, TypeParts
<1>2. LocalsInv'
  <2>1. pos' <= Len(file') /\ 0 <= Len(file')
    BY <1>a, <1>b, <1>d DEF Rewrite, LocalsInv
  <2>2. \A l \in DOMAIN offsets : offsets[l] \in Int /\ offsets[l] <= Len(file)
    BY <1>a DEF LocalsInv, MapsOK, Offset, Mapped, Rewrite
  <2>3. \A l \in DOMAIN offsets' : offsets'[l] <= Len(Mapped')
    BY <1>b, <1>d, <2>2 DEF Mapped, Rewrite, mapVars
  <2> QED
    BY <1>a, <2>1, <2>3 DEF LocalsInv, Offset, Rewrite
<1>3. ThreadInv'
  BY DEF IInv, ThreadInv, Rewrite, readVars
<1>4. AppendInv'
  <2> SUFFICES ASSUME mishap' \notin {"io", "moved"} PROVE AppendInv'
    BY DEF AppendInv
  <2>1. mishap \notin {"io", "moved"}
    BY <1>c DEF Streamed
  <2>2. CASE ~streamBad'
    <3>1. ~streamBad /\ Overwrites(file', file, hoff, hkey, 1 - version[hkey]) /\ writeTask' = writeTask
      BY <1>c, <2>2 DEF Streamed
    <3>2. Fits(hkey, hoff, file) /\ pos = Len(file)
      BY <1>a, <2>1, <3>1 DEF AppendInv, LocalsInv, Rewrite
    <3>3. Len(file') = Len(file)
      BY <1>b, <3>1, <3>2 DEF Overwrites, Fits
    <3>4. \A l \in Keys : \A o : Fits(l, o, file) => Fits(l, o, file')
      BY <3>3 DEF Fits
    <3> QED
      BY <1>a, <2>1, <3>1, <3>2, <3>3, <3>4
      DEF AppendInv, Sized, Mapped, Rewrite, fileVars, mapVars, objVars, heapVars, readVars
  <2>3. CASE streamBad'
    <3>1. writeTask' # "on"
      BY <1>c, <2>3, Zenon DEF Streamed
    <3> QED
      BY <2>3, <3>1 DEF AppendInv
  <2> QED
    BY <2>2, <2>3
<1>5. GoodInv'
  <2> SUFFICES ASSUME Good' PROVE GoodInv'
    BY Zenon DEF GoodInv
  <2> DEFINE k == hkey
  <2>1. /\ Good /\ ~streamBad /\ streamBad' = streamBad
        /\ Overwrites(file', file, hoff, k, 1 - version[k]) /\ writeTask' = writeTask
    BY <1>a, <1>c, ZenonT(30) DEF Streamed, Good, GoodInv
  <2>2. HoldsV(k, hoff, file, version[k]) /\ hoff \in Nat /\ hoff + Size[k] <= Len(file)
    BY <1>a, <2>1 DEF GoodInv, Rewrite, Holds, HoldsV, Fits
  <2>a. version[k] \in {0, 1}
    BY <1>a, <1>b DEF RestOK
  <2>b. 1 - version[k] \in {0, 1}
    BY <2>a
  <2>3. Len(file') = Len(file) /\ file \in Seq(Cell) /\ OwnPlace(file, hoff, k)
    BY <1>a, <1>b, <2>1, <2>2 DEF Overwrites, FileOK, OwnPlace
  <2>4. \A l \in Keys \ {k} : \A o, u : HoldsV(l, o, file, u) => HoldsV(l, o, file', u)
    <3> TAKE l \in Keys \ {k}
    <3> TAKE o, u
    <3> HAVE HoldsV(l, o, file, u)
    <3> QED
      BY <1>b, <2>b, <2>1, <2>2, <2>3, OthersKept
  <2>5. HoldsV(k, hoff, file', 1 - version[k])
    BY <1>b, <2>1, <2>2, <2>3 DEF Overwrites, HoldsV, Fits
  <2>6. version' = [version EXCEPT ![k] = 1 - version[k]] /\ version \in [Keys -> {0, 1}]
    BY <1>a DEF Rewrite, Written, RestOK
  <2>7. \A l \in Keys \ {k} : \A o : Holds(l, o, file) => HoldsV(l, o, file', version'[l])
    BY <2>4, <2>6 DEF Holds
  <2>8. HoldsV(k, hoff, file', version'[k])
    BY <1>b, <2>5, <2>6, Zenon
  <2>9. /\ k \in DOMAIN offsets /\ hoff = offsets[k] /\ state[k] \in {"plain", "stub"}
        /\ DOMAIN offsets \subseteq Keys /\ hpc' = "idle" /\ hpc = "rewrite"
    BY <1>a, <2>1, Zenon DEF GoodInv, Rewrite, MapsOK
  <2>10. Mapped = file /\ Mapped' = file'
    BY <2>9, Zenon DEF Mapped
  <2>11. \A t \in Threads : tpc[t] = "read" => HoldsV(tkey[t], toff[t], file', version'[tkey[t]])
    <3> TAKE t \in Threads
    <3> HAVE tpc[t] = "read"
    <3>1. tkey[t] \in Keys /\ Holds(tkey[t], toff[t], file) /\ toff[t] = offsets[tkey[t]]
      BY <1>a, <2>1, <2>9 DEF GoodInv, ThreadInv
    <3>2. CASE tkey[t] = k
      BY <2>8, <2>9, <3>1, <3>2
    <3>3. CASE tkey[t] # k
      BY <2>7, <3>1, <3>3
    <3> QED
      BY <3>2, <3>3
  <2>12. UNCHANGED <<mapVars, state, readVars>>
    BY Zenon DEF Rewrite
  <2> HIDE DEF k
  <2> QED
    BY <1>a, <2>1, <2>2, <2>7, <2>8, <2>9, <2>10, <2>11, <2>12, ZenonT(30)
    DEF GoodInv, Holds, mapVars, readVars
<1>6. LengthInv'
  <2> SUFFICES ASSUME Good' PROVE LengthInv'
    BY DEF LengthInv
  <2>1. Good /\ Overwrites(file', file, hoff, hkey, 1 - version[hkey]) /\ hpc = "rewrite"
    BY <1>a, <1>c, Zenon DEF Streamed, Good, GoodInv, Rewrite
  <2>2. hoff \in Nat /\ hoff + Size[hkey] <= Len(file)
    BY <1>a, <2>1 DEF GoodInv, Holds, HoldsV, Fits
  <2>3. Len(file') = Len(file)
    BY <1>b, <2>1, <2>2 DEF Overwrites
  <2>4. Len(file) - swapfileSize \in {0, 1}
    BY <2>1 DEF IInv, LengthInv
  <2>5. hpc' = "idle" /\ swapfileSize' = swapfileSize
    BY DEF Rewrite, mapVars
  <2> QED
    BY <2>3, <2>4, <2>5 DEF LengthInv
<1>7. CountInv'
  BY DEF IInv, CountInv, Rewrite, StreamWrite, MishapIf, Mishap, NoMishap, mapVars
<1> QED
  BY <1>1, <1>2, <1>3, <1>4, <1>5, <1>6, <1>7 DEF IInv

LEMMA EndWriteTaskStep ==
  ASSUME IInv, EndWriteTask
  PROVE  IInv'
PROOF
<1> USE KeysAssumption DEF EndWriteTask, fileVars, mapVars, objVars, heapVars, readVars
<1>1. TypeOK'
  BY DEF IInv, TypeOK
<1>2. LocalsInv'
  BY DEF IInv, LocalsInv, Mapped
<1>3. ThreadInv'
  BY DEF IInv, ThreadInv
<1>4. AppendInv'
  BY Zenon DEF IInv, AppendInv
<1>5. GoodInv'
  <2>1. ~Good
    BY DEF IInv, GoodInv
  <2> QED
    BY <2>1 DEF GoodInv, Good
<1>6. LengthInv'
  <2>1. ~Good
    BY DEF IInv, GoodInv
  <2> QED
    BY <2>1 DEF LengthInv, Good
<1>7. CountInv'
  BY Zenon DEF IInv, CountInv
<1> QED
  BY <1>1, <1>2, <1>3, <1>4, <1>5, <1>6, <1>7, Zenon DEF IInv

-----------------------------------------------------------------------------
(* Swapping in.                                                            *)

LEMMA SwapInOnDemandStep ==
  ASSUME IInv, NEW t \in Threads, NEW k \in Keys, SwapInOnDemand(t, k)
  PROVE  IInv'
PROOF
<1> USE KeysAssumption
<1>1. TypeOK'
  BY DEF IInv, TypeOK, SwapInOnDemand, Touch, With, fileVars, objVars, heapVars
<1>2. LocalsInv'
  BY DEF IInv, LocalsInv, Mapped, SwapInOnDemand, MapsShareable, Touch, With, fileVars, heapVars
<1>3. ThreadInv'
  <2>1. Get(offsets, k) \in Offset /\ Get(sizes, k) \in Nat
    BY DEF IInv, TypeOK, Offset, Get
  <2>2. tpc \in [Threads -> {"idle", "read"}] /\ ThreadInv
    BY DEF IInv, TypeOK
  <2> QED
    BY <2>1, <2>2 DEF ThreadInv, SwapInOnDemand, Running, heapVars
<1>4. AppendInv'
  <2>1. UNCHANGED <<fileVars, heapVars, state, mishap>>
    BY DEF SwapInOnDemand, objVars
  <2> SUFFICES ASSUME mishap \notin {"io", "moved"}, writeTask = "on" PROVE AppendInv'
    BY <2>1 DEF IInv, AppendInv, fileVars, heapVars
  <2>2. k \in DOMAIN offsets
    BY DEF IInv, AppendInv, SwapInOnDemand
  <2>3. offsets' = offsets
    BY <2>2 DEF SwapInOnDemand, Touch
  <2>4. Size[k] # 0 /\ DOMAIN sizes \subseteq Keys /\ DOMAIN newOffsets \subseteq Keys
    BY DEF IInv, TypeOK, LocalsInv
  <2>5. \A l \in Keys : Sized(l)' <=> Sized(l)
    BY <2>4, Zenon DEF Sized, Touch, With, SwapInOnDemand
  <2> QED
    BY <2>1, <2>3, <2>4, <2>5, Zenon DEF IInv, AppendInv, Mapped, Ahead, fileVars, heapVars
<1>5. GoodInv'
  BY DEF IInv, ThreadInv, GoodInv, Good, Holds, Mapped, SwapInOnDemand, MapsShareable, Touch, Get,
    fileVars, objVars, heapVars
<1>6. LengthInv'
  BY DEF IInv, LengthInv, Good, SwapInOnDemand, fileVars, heapVars
<1>7. CountInv'
  BY DEF IInv, GoodInv, Good, CountInv, SwapInOnDemand, Touch, heapVars
<1> QED
  BY <1>1, <1>2, <1>3, <1>4, <1>5, <1>6, <1>7 DEF IInv

LEMMA ReadOnDemandStep ==
  ASSUME IInv, NEW t \in Threads, ReadOnDemand(t)
  PROVE  IInv'
PROOF
<1> USE KeysAssumption
<1>1. TypeOK'
  BY DEF IInv, TypeOK, ThreadInv, ReadOnDemand, swapInObject, mapVars, heapVars
<1>2. LocalsInv'
  BY DEF IInv, LocalsInv, Mapped, ReadOnDemand, swapInObject, mapVars, heapVars
<1>3. ThreadInv'
  BY Zenon DEF IInv, TypeOK, ThreadInv, Offset, ReadOnDemand
<1>4. AppendInv'
  <2>1. state \in [Keys -> {"free", "plain", "stub", "out", "damaged"}] /\ AppendInv
    BY DEF IInv, TypeOK
  <2>2. \A l \in Keys : state'[l] = "out" => state[l] = "out"
    BY <2>1 DEF ReadOnDemand, swapInObject
  <2>3. UNCHANGED <<file, pos, mapVars, heapVars, mishap>>
    BY DEF ReadOnDemand, swapInObject
  <2>4. ~streamBad' => ~streamBad
    BY Zenon DEF ReadOnDemand, swapInObject
  <2> QED
    BY <2>1, <2>2, <2>3, <2>4 DEF AppendInv, Sized, Mapped, Ahead, mapVars, heapVars
<1>5. GoodInv'
  <2> SUFFICES ASSUME Good PROVE GoodInv'
    BY DEF GoodInv, Good, ReadOnDemand
  <2> DEFINE k == tkey[t]
  <2>1. file \in Seq(Cell) /\ version \in [Keys -> {0, 1}]
        /\ state \in [Keys -> {"free", "plain", "stub", "out", "damaged"}]
    BY TypeParts DEF IInv, FileOK, RestOK
  <2>2. /\ k \in Keys /\ tsize[t] = Size[k] /\ state[k] \in {"out", "stub"} /\ k \in DOMAIN offsets
        /\ HoldsV(k, toff[t], file, version[k]) /\ ~streamBad
    BY Zenon DEF IInv, ThreadInv, GoodInv, Holds, ReadOnDemand
  <2>3. ReadAt(file, toff[t], Size[k]) = Cells(k, version[k]) /\ InFile(file, toff[t], Size[k])
    <3>1. TypeOK /\ Holds(k, toff[t], file)
      BY <2>2 DEF IInv, Holds
    <3>2. k \in Keys
      BY <2>2
    <3> HIDE DEF k
    <3> QED
      BY <3>1, <3>2, HoldsReadsNow
  <2>4. state' = [state EXCEPT ![k] = "stub"] /\ ~streamBad' /\ pos' = pos
    BY <2>2, <2>3, Zenon DEF ReadOnDemand, swapInObject
  <2>5. \A u \in Threads : tpc'[u] = "read" =>
          tpc[u] = "read" /\ tkey'[u] = tkey[u] /\ toff'[u] = toff[u] /\ tsize'[u] = tsize[u]
    BY DEF IInv, TypeOK, ThreadInv, ReadOnDemand
  <2>6. \A u \in Threads : tpc[u] = "read" => tkey[u] \in Keys
    BY DEF IInv, ThreadInv
  <2>7. UNCHANGED <<file, mapVars, version, heapVars>>
    BY Zenon DEF ReadOnDemand
  <2> HIDE DEF k
  <2>8. state'[k] = "stub" /\ \A l \in Keys \ {k} : state'[l] = state[l]
    BY <2>1, <2>2, <2>4, Zenon
  <2>9. hpc \in {"record", "rewrite"} => hkey \in Keys
    BY Zenon DEF IInv, LocalsInv
  <2>10. DOMAIN sizes \subseteq Keys
    BY DEF IInv, TypeOK
  <2>11. GoodInv
    BY DEF IInv
  <2>12. \A u \in Threads : tpc'[u] = "read" =>
          /\ state'[tkey'[u]] \in {"out", "stub"} /\ tsize'[u] = Size[tkey'[u]]
          /\ Holds(tkey'[u], toff'[u], file) /\ (hpc # "swap" => toff'[u] = offsets[tkey'[u]])
    <3> TAKE u \in Threads
    <3> HAVE tpc'[u] = "read"
    <3>1. /\ state[tkey[u]] \in {"out", "stub"} /\ tsize[u] = Size[tkey[u]]
          /\ Holds(tkey[u], toff[u], file) /\ (hpc # "swap" => toff[u] = offsets[tkey[u]])
      BY <2>5, <2>11 DEF GoodInv
    <3> QED
      BY <2>5, <2>6, <2>8, <3>1, ZenonT(30)
  <2>13. \A l \in Keys : /\ state'[l] # "damaged"
                         /\ state'[l] \in {"stub", "out"} => l \in DOMAIN offsets
                         /\ state'[l] = "free" => l \notin DOMAIN offsets
    BY <2>2, <2>8, <2>11, Zenon DEF GoodInv
  <2>14. /\ hpc = "record" => state'[hkey] = "plain"
         /\ hpc = "rewrite" => state'[hkey] \in {"plain", "stub"}
    BY <2>2, <2>8, <2>9, <2>11 DEF GoodInv
  <2>15. /\ UNCHANGED <<file, version, offsets, sizes>>
         /\ UNCHANGED <<writeTask, hpc, hkey, hoff, newFile, newOffsets>>
    BY <2>7 DEF mapVars, heapVars
  <2> QED
    BY <2>4, <2>11, <2>12, <2>13, <2>14, <2>15 DEF GoodInv, Good, Holds, Mapped
<1>6. LengthInv'
  BY DEF IInv, LengthInv, Good, ReadOnDemand, mapVars, heapVars
<1>7. CountInv'
  BY Zenon DEF IInv, CountInv, ReadOnDemand, mapVars, heapVars
<1> QED
  BY <1>1, <1>2, <1>3, <1>4, <1>5, <1>6, <1>7, Zenon DEF IInv

LEMMA BeginSwapObjectsInStep ==
  ASSUME IInv, BeginSwapObjectsIn
  PROVE  IInv'
PROOF
<1> USE KeysAssumption DEF BeginSwapObjectsIn, Running, CanStop, MapsShareable, Out,
  fileVars, mapVars, objVars, heapVars, readVars
<1>1. TypeOK'
  BY DEF IInv, TypeOK
<1>2. LocalsInv'
  BY DEF IInv, LocalsInv, Mapped
<1>3. ThreadInv'
  BY DEF IInv, ThreadInv
<1>4. AppendInv'
  BY Zenon DEF IInv, AppendInv, Sized, Mapped, Ahead
<1>5. GoodInv'
  BY ZenonT(30) DEF IInv, GoodInv, Good, Holds, Mapped
<1>6. LengthInv'
  BY DEF IInv, LengthInv, Good
<1>7. CountInv'
  BY Zenon DEF IInv, CountInv
<1> QED
  BY <1>1, <1>2, <1>3, <1>4, <1>5, <1>6, <1>7 DEF IInv

LEMMA SwapObjectsInNextStep ==
  ASSUME IInv, SwapObjectsInNext
  PROVE  IInv'
PROOF
<1> USE KeysAssumption
<1>1. TypeOK'
  BY DEF IInv, TypeOK, SwapObjectsInNext, swapInObject, Out, Touch, With, heapVars, readVars
<1>2. LocalsInv'
  BY DEF IInv, LocalsInv, Mapped, SwapObjectsInNext, swapInObject, heapVars
<1>3. ThreadInv'
  BY DEF IInv, ThreadInv, SwapObjectsInNext, heapVars, readVars
<1>4. AppendInv'
  <2>1. PICK k \in Out : sizes' = Touch(sizes, k) /\ swapInObject(k, offsets[k], Get(sizes, k))
    BY DEF SwapObjectsInNext
  <2>2. k \in Keys /\ Size[k] # 0 /\ DOMAIN sizes \subseteq Keys
    BY Zenon DEF Out, IInv, TypeOK
  <2>3. \A l \in Keys : Sized(l)' <=> Sized(l)
    BY <2>1, <2>2 DEF Sized, Touch, With
  <2>4. pos' = pos /\ (~streamBad' => ~streamBad)
    BY <2>1, Zenon DEF swapInObject
  <2>5. UNCHANGED <<file, offsets, mishap, heapVars>>
    BY DEF SwapObjectsInNext
  <2>6. DOMAIN newOffsets \subseteq Keys
    BY DEF IInv, LocalsInv
  <2>7. \A l \in Keys : state'[l] = "out" => state[l] = "out"
    BY <2>1 DEF swapInObject, IInv, TypeOK
  <2> QED
    BY <2>3, <2>4, <2>5, <2>6, <2>7, Zenon DEF IInv, AppendInv, Mapped, Ahead, heapVars
<1>5. GoodInv'
  <2> SUFFICES ASSUME Good PROVE GoodInv'
    BY Zenon DEF GoodInv, Good, SwapObjectsInNext
  <2>1. PICK k \in Out : sizes' = Touch(sizes, k) /\ swapInObject(k, offsets[k], Get(sizes, k))
    BY DEF SwapObjectsInNext
  <2>2. file \in Seq(Cell) /\ version \in [Keys -> {0, 1}]
        /\ state \in [Keys -> {"free", "plain", "stub", "out", "damaged"}]
    BY TypeParts, Zenon DEF IInv, FileOK, RestOK
  <2>3. /\ k \in Keys /\ k \in DOMAIN offsets /\ k \in DOMAIN sizes /\ sizes[k] = Size[k]
        /\ Holds(k, offsets[k], Mapped) /\ ~streamBad
    BY DEF IInv, TypeOK, GoodInv, Out
  <2>4. Mapped = file /\ \A t \in Threads : tpc[t] # "read"
    BY DEF Mapped, IInv, ThreadInv, SwapObjectsInNext
  <2>5. ReadAt(file, offsets[k], Size[k]) = Cells(k, version[k]) /\ InFile(file, offsets[k], Size[k])
    <3>1. version[k] \in {0, 1} /\ HoldsV(k, offsets[k], file, version[k])
      BY <2>2, <2>3, <2>4 DEF Holds
    <3> QED
      BY <2>2, <2>3, <3>1, HoldsReads
  <2>6. state' = [state EXCEPT ![k] = "stub"] /\ ~streamBad' /\ sizes' = sizes
    BY <2>1, <2>3, <2>5, Zenon DEF swapInObject, Touch, Get
  <2>7. UNCHANGED <<file, offsets, version, heapVars, readVars>>
    BY DEF SwapObjectsInNext
  <2>8. hpc \notin {"record", "rewrite"}
    BY DEF IInv, ThreadInv, SwapObjectsInNext
  <2> QED
    BY <2>2, <2>3, <2>4, <2>6, <2>7, <2>8, ZenonT(30)
    DEF IInv, GoodInv, Holds, Mapped, heapVars, readVars
<1>6. LengthInv'
  BY DEF IInv, LengthInv, Good, SwapObjectsInNext, heapVars
<1>7. CountInv'
  BY Zenon DEF IInv, GoodInv, Good, CountInv, SwapObjectsInNext, Out, Touch, heapVars
<1> QED
  BY <1>1, <1>2, <1>3, <1>4, <1>5, <1>6, <1>7 DEF IInv

LEMMA EndSwapObjectsInStep ==
  ASSUME IInv, EndSwapObjectsIn
  PROVE  IInv'
PROOF
<1> USE KeysAssumption DEF EndSwapObjectsIn, Out, fileVars, mapVars, objVars, heapVars, readVars
<1>1. TypeOK'
  BY DEF IInv, TypeOK
<1>2. LocalsInv'
  BY Zenon DEF IInv, LocalsInv, Mapped
<1>3. ThreadInv'
  BY DEF IInv, ThreadInv
<1>4. AppendInv'
  BY Zenon DEF IInv, AppendInv, Sized, Mapped, Ahead
<1>5. GoodInv'
  BY ZenonT(30) DEF IInv, GoodInv, Good, Holds, Mapped
<1>6. LengthInv'
  BY DEF IInv, LengthInv, Good
<1>7. CountInv'
  BY Zenon DEF IInv, CountInv
<1> QED
  BY <1>1, <1>2, <1>3, <1>4, <1>5, <1>6, <1>7, Zenon DEF IInv

=============================================================================
