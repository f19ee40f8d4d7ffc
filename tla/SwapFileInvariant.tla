------------------------- MODULE SwapFileInvariant --------------------------
(***************************************************************************)
(* The inductive invariant of the swap file, what it needs to know of the  *)
(* cells and the counters, and the proof that it holds at the start and    *)
(* that the steps of the mutator and of the collector keep it.             *)
(***************************************************************************)
EXTENDS SwapFile, FiniteSetTheorems, TLAPS

Cell == {Pid} \cup Keys \X {0, 1}
Offset == Nat \cup {-1}

(* Good: no fault and no race that touches a snapshot.                     *)
Good == mishap \in {"none", "counted"}

(* The file that offsets leads into.                                       *)
Mapped == IF hpc = "swap" THEN newFile ELSE file

(* Variables that TypeOK does not speak of, and how far offsets may lead:  *)
(* a write there leaves no gap in the file.                                *)
LocalsInv ==
  /\ pos <= Len(file)
  /\ \A k \in DOMAIN offsets : offsets[k] <= Len(Mapped)
  /\ hkey \in Keys \cup {0} /\ hoff \in Offset /\ hoff <= Len(file)
  /\ hpc \in {"record", "rewrite"} => hkey \in Keys
  /\ hpc \notin {"record", "rewrite"} => hkey = 0 /\ hoff = 0
  /\ hpc = "rewrite" => writeTask = "on"
  /\ oldFile \in Seq(Cell) /\ newFile \in Seq(Cell)
  /\ DOMAIN newOffsets \subseteq Keys
  /\ \A k \in DOMAIN newOffsets : newOffsets[k] \in Nat /\ newOffsets[k] <= Len(newFile)
  /\ hpc \notin {"copy", "install", "swap"} => newFile = << >> /\ DOMAIN newOffsets = {}
  /\ hpc = "swap" => offsets = newOffsets

(* Who is where: readers, the suspension of SwapObjectsIn, and the locks.  *)
ThreadInv ==
  /\ tkey \in [Threads -> Keys \cup {0}]
  /\ toff \in [Threads -> Offset] /\ tsize \in [Threads -> Nat]
  /\ \A t \in Threads : IF tpc[t] = "read" THEN tkey[t] \in Keys ELSE tkey[t] = 0
  /\ fpc = "loop" =>
       hpc \notin {"record", "rewrite", "swap"} /\ \A t \in Threads : tpc[t] = "idle"

(* As long as the WriteTask goes on, a size that was recorded has a place  *)
(* in the file, so that an overwrite does not lengthen it, and an object   *)
(* that is swapped out has an offset.                                      *)
Fits(k, off, f) == off \in Nat /\ off + Size[k] <= Len(f)
Sized(k) == k \in DOMAIN sizes /\ sizes[k] = Size[k]
AppendInv ==
  mishap \notin {"io", "moved"} =>
    /\ ~streamBad => pos = Len(file)
    /\ writeTask = "on" =>
         /\ \A k \in DOMAIN offsets : offsets[k] \in Nat
         /\ \A k \in Keys : Sized(k) => k \in DOMAIN offsets /\ Fits(k, offsets[k], Mapped)
         /\ \A k \in Keys : state[k] = "out" => k \in DOMAIN offsets
         /\ hpc \in {"record", "rewrite"} => Fits(hkey, hoff, file)
         /\ hpc \in {"build", "copy"} => oldFile = file
         /\ hpc = "copy" => \A k \in DOMAIN offsets : k \in DOMAIN newOffsets \/ Ahead(k)
         /\ hpc = "install" => DOMAIN offsets \subseteq DOMAIN newOffsets
         /\ hpc \in {"copy", "install"} =>
              \A k \in DOMAIN newOffsets : Sized(k) => Fits(k, newOffsets[k], newFile)

(* The snapshot of k, as last written, lies at off in the file f.          *)
HoldsV(k, off, f, v) == Fits(k, off, f) /\ \A i \in 1 .. Size[k] : f[off + i] = <<k, v>>
Holds(k, off, f) == HoldsV(k, off, f, version[k])
GoodInv ==
  Good =>
    /\ ~streamBad /\ writeTask = "on"
    /\ DOMAIN sizes = DOMAIN offsets /\ \A k \in DOMAIN sizes : sizes[k] = Size[k]
    /\ \A k \in DOMAIN offsets : Holds(k, offsets[k], Mapped)
    /\ \A k \in Keys : /\ state[k] # "damaged"
                       /\ state[k] \in {"stub", "out"} => k \in DOMAIN offsets
                       /\ state[k] = "free" => k \notin DOMAIN offsets
    /\ hpc \in {"record", "rewrite"} => Holds(hkey, hoff, file)
    /\ hpc = "record" => state[hkey] = "plain" /\ hkey \notin DOMAIN offsets
    /\ hpc = "rewrite" =>
         state[hkey] \in {"plain", "stub"} /\ hkey \in DOMAIN offsets /\ hoff = offsets[hkey]
    /\ hpc \in {"copy", "install"} =>
         DOMAIN newOffsets \subseteq DOMAIN offsets
         /\ \A k \in DOMAIN newOffsets : Holds(k, newOffsets[k], newFile)
    /\ hpc = "install" => DOMAIN newOffsets = DOMAIN offsets
    /\ \A t \in Threads : tpc[t] = "read" =>
         /\ state[tkey[t]] \in {"out", "stub"} /\ tsize[t] = Size[tkey[t]]
         /\ Holds(tkey[t], toff[t], file)
         /\ hpc # "swap" => toff[t] = offsets[tkey[t]]

(* swapfileSize is the length of the file that is being filled, and the    *)
(* header, which is one cell, is in the first one.                         *)
LengthInv ==
  Good =>
    /\ hpc \in {"build", "copy", "install", "swap"} => swapfileSize = Len(newFile)
    /\ hpc = "record" => Len(file) - (swapfileSize + Size[hkey]) \in {0, 1}
    /\ hpc \in {"idle", "rewrite", "validate", "check"} => Len(file) - swapfileSize \in {0, 1}

(* The counters, from the reset at the start of a compaction to its end.   *)
BytesOf(ks) == UNION {{k} \X (1 .. Size[k]) : k \in ks}
CountInv ==
  mishap = "none" =>
    /\ IsFiniteSet(BytesOf(DOMAIN sizes)) /\ IsFiniteSet(BytesOf(DOMAIN newOffsets))
    /\ hpc \in {"build", "copy"} =>
         freedSize = 0 /\ swapfileSize = Cardinality(BytesOf(DOMAIN newOffsets))
    /\ hpc \notin {"build", "copy"} =>
         freedSize + Cardinality(BytesOf(DOMAIN sizes)) <= swapfileSize

(* TypeOK in three parts: the file, the maps, and the rest.                *)
FileOK == file \in Seq(Cell) /\ pos \in Nat /\ streamBad \in BOOLEAN
MapsOK ==
  /\ DOMAIN offsets \subseteq Keys /\ \A k \in DOMAIN offsets : offsets[k] \in Offset
  /\ DOMAIN sizes \subseteq Keys /\ \A k \in DOMAIN sizes : sizes[k] \in {0, Size[k]}
  /\ freedSize \in Nat /\ swapfileSize \in Nat
RestOK ==
  /\ state \in [Keys -> {"free", "plain", "stub", "out", "damaged"}]
  /\ version \in [Keys -> {0, 1}]
  /\ writeTask \in {"on", "last", "off"}
  /\ hpc \in {"idle", "record", "rewrite", "build", "copy", "install", "swap", "validate", "check"}
  /\ tpc \in [Threads -> {"idle", "read"}] /\ fpc \in {"idle", "loop"}
  /\ mishap \in {"none", "io", "moved", "freed", "stale", "counted"}

IInv == TypeOK /\ LocalsInv /\ ThreadInv /\ AppendInv /\ GoodInv /\ LengthInv /\ CountInv

-----------------------------------------------------------------------------
LEMMA TypeParts ==
  /\ TypeOK => FileOK /\ MapsOK /\ RestOK
  /\ FileOK' /\ MapsOK' /\ RestOK' => TypeOK'
PROOF
  BY DEF TypeOK, FileOK, MapsOK, RestOK, Cell, Offset

-----------------------------------------------------------------------------
(* The file as a sequence of cells.                                        *)

LEMMA CellsFacts ==
  ASSUME NEW k \in Keys, NEW v \in {0, 1}
  PROVE  /\ Cells(k, v) \in Seq(Cell) /\ Len(Cells(k, v)) = Size[k] /\ Size[k] \in Nat \ {0}
         /\ \A i \in 1 .. Size[k] : Cells(k, v)[i] = <<k, v>>
PROOF
<1>1. Size[k] \in Nat \ {0} /\ <<k, v>> \in Cell
  BY KeysAssumption DEF Cell
<1> DEFINE n == Size[k]
           p == <<k, v>>
<1>2. Cells(k, v) = [i \in 1 .. n |-> p]
  BY DEF Cells
<1>3. n \in Nat /\ p \in Cell
  BY <1>1
<1> HIDE DEF n, p
<1>4. [i \in 1 .. n |-> p] \in Seq(Cell) /\ Len([i \in 1 .. n |-> p]) = n
      /\ \A i \in 1 .. n : [j \in 1 .. n |-> p][i] = p
  BY <1>3
<1> QED
  BY <1>1, <1>2, <1>4 DEF n, p

(* What the file g has, once the cells of k are written at off in f.       *)
Overwrites(g, f, off, k, v) ==
  /\ g \in Seq(Cell) /\ Len(f) <= Len(g)
  /\ Len(g) = IF off + Size[k] > Len(f) THEN off + Size[k] ELSE Len(f)
  /\ off \in Nat => \A i \in 1 .. Size[k] : g[off + i] = <<k, v>>
  /\ \A i \in 1 .. Len(f) : i \notin off + 1 .. off + Size[k] => g[i] = f[i]

(* A write does not begin beyond the end of the file.                      *)
LEMMA WriteAtFacts ==
  ASSUME NEW f \in Seq(Cell), NEW off \in Offset, off <= Len(f), NEW k \in Keys, NEW v \in {0, 1}
  PROVE  Overwrites(WriteAt(f, off, Cells(k, v)), f, off, k, v)
PROOF
<1> DEFINE g == WriteAt(f, off, Cells(k, v))
           n == IF off + Size[k] > Len(f) THEN off + Size[k] ELSE Len(f)
           c(i) == IF i \in off + 1 .. off + Size[k] THEN Cells(k, v)[i - off] ELSE f[i]
<1>1. Size[k] \in Nat \ {0} /\ Len(f) \in Nat /\ off \in Int /\ -1 <= off
  BY CellsFacts DEF Offset
<1>2. n \in Nat /\ Len(f) <= n
  BY <1>1
<1>3. g = [i \in 1 .. n |-> c(i)]
  BY CellsFacts DEF WriteAt
<1>4. \A i \in 1 .. n : i \in off + 1 .. off + Size[k] => c(i) = <<k, v>>
  BY <1>1, CellsFacts
<1>5. \A i \in 1 .. n : i \notin off + 1 .. off + Size[k] => c(i) = f[i] /\ i \in 1 .. Len(f)
  BY <1>1
<1>6. <<k, v>> \in Cell
  BY DEF Cell
<1>7. \A i \in 1 .. n : c(i) \in Cell
  BY <1>4, <1>5, <1>6
<1> HIDE DEF c, g
<1>8. g \in Seq(Cell) /\ Len(g) = n
  BY <1>2, <1>3, <1>7
<1>9. \A i \in 1 .. n : g[i] = c(i)
  BY <1>3
<1>10. off \in Nat => \A i \in 1 .. Size[k] :
          off + i \in 1 .. n /\ off + i \in off + 1 .. off + Size[k]
  BY <1>1
<1>11. off \in Nat => \A i \in 1 .. Size[k] : g[off + i] = <<k, v>>
  BY <1>4, <1>9, <1>10
<1>12. \A i \in 1 .. Len(f) : i \notin off + 1 .. off + Size[k] => g[i] = f[i]
  BY <1>1, <1>2, <1>5, <1>9
<1> QED
  BY <1>2, <1>8, <1>11, <1>12 DEF Overwrites, g

(* Reading a stretch that the file has.                                    *)
LEMMA ReadAtFacts ==
  ASSUME NEW f \in Seq(Cell), NEW off \in Nat, NEW n \in Nat, off + n <= Len(f)
  PROVE  /\ ReadAt(f, off, n) \in Seq(Cell) /\ Len(ReadAt(f, off, n)) = n
         /\ \A i \in 1 .. n : ReadAt(f, off, n)[i] = f[off + i]
PROOF
  BY DEF ReadAt

(* A snapshot where k was last written is what swap-in compares with.      *)
LEMMA HoldsReads ==
  ASSUME NEW f \in Seq(Cell), NEW off, NEW k \in Keys, NEW v \in {0, 1},
         HoldsV(k, off, f, v)
  PROVE  ReadAt(f, off, Size[k]) = Cells(k, v) /\ InFile(f, off, Size[k])
PROOF
<1>1. off \in Nat /\ off + Size[k] <= Len(f) /\ Size[k] \in Nat
      /\ \A i \in 1 .. Size[k] : f[off + i] = <<k, v>>
  BY CellsFacts DEF HoldsV, Fits
<1>2. /\ ReadAt(f, off, Size[k]) \in Seq(Cell) /\ Len(ReadAt(f, off, Size[k])) = Size[k]
      /\ \A i \in 1 .. Size[k] : ReadAt(f, off, Size[k])[i] = <<k, v>>
  BY <1>1, ReadAtFacts, Zenon
<1>3. Cells(k, v) \in Seq(Cell) /\ Len(Cells(k, v)) = Size[k]
      /\ \A i \in 1 .. Size[k] : Cells(k, v)[i] = <<k, v>>
  BY CellsFacts
<1>4. ReadAt(f, off, Size[k]) = Cells(k, v)
  <2> DEFINE a == ReadAt(f, off, Size[k])
             b == Cells(k, v)
  <2>1. a \in Seq(Cell) /\ b \in Seq(Cell) /\ Len(a) = Len(b) /\ \A i \in 1 .. Len(a) : a[i] = b[i]
    BY <1>2, <1>3, Zenon
  <2> HIDE DEF a, b
  <2>2. a = b
    BY <2>1
  <2> QED
    BY <2>2 DEF a, b
<1>5. InFile(f, off, Size[k])
  BY <1>1 DEF InFile
<1> QED
  BY <1>4, <1>5

LEMMA HoldsReadsNow ==
  ASSUME TypeOK, NEW k \in Keys, NEW off, Holds(k, off, file)
  PROVE  ReadAt(file, off, Size[k]) = Cells(k, version[k]) /\ InFile(file, off, Size[k])
PROOF
<1>1. file \in Seq(Cell) /\ version[k] \in {0, 1}
  BY TypeParts DEF FileOK, RestOK
<1>2. HoldsV(k, off, file, version[k])
  BY DEF Holds
<1> QED
  BY <1>1, <1>2, HoldsReads

(* A write leaves the snapshot of another key alone, if it goes to the end *)
(* of the file or over the snapshot of its own key: the cells say whose    *)
(* they are, so two snapshots do not overlap.                              *)
OwnPlace(f, off, k) == off = Len(f) \/ \E w : HoldsV(k, off, f, w)

LEMMA OthersKept ==
  ASSUME NEW f \in Seq(Cell), NEW off \in Nat, NEW k \in Keys, NEW v \in {0, 1},
         OwnPlace(f, off, k), NEW g, Overwrites(g, f, off, k, v),
         NEW l \in Keys, l # k, NEW o, NEW u, HoldsV(l, o, f, u)
  PROVE  HoldsV(l, o, g, u)
PROOF
<1>2. Len(f) <= Len(g) /\ Len(g) \in Nat
      /\ \A i \in 1 .. Len(f) : i \notin off + 1 .. off + Size[k] => g[i] = f[i]
  BY DEF Overwrites
<1>3. o \in Nat /\ o + Size[l] <= Len(f) /\ Size[l] \in Nat /\ Size[k] \in Nat
      /\ \A i \in 1 .. Size[l] : f[o + i] = <<l, u>>
  BY CellsFacts DEF HoldsV, Fits
<1>4. ASSUME NEW i \in 1 .. Size[l] PROVE g[o + i] = <<l, u>>
  <2>1. o + i \in 1 .. Len(f) /\ f[o + i] = <<l, u>>
    BY <1>3
  <2>2. CASE off = Len(f)
    BY <1>2, <2>1, <2>2
  <2>3. CASE \E w : HoldsV(k, off, f, w)
    <3>1. PICK w : \A j \in 1 .. Size[k] : f[off + j] = <<k, w>>
      BY <2>3, Zenon DEF HoldsV
    <3>2. \A j \in 1 .. Size[k] : off + j # o + i
      BY <3>1, <2>1
    <3>3. o + i \notin off + 1 .. off + Size[k]
      <4> SUFFICES ASSUME o + i \in off + 1 .. off + Size[k] PROVE FALSE
        OBVIOUS
      <4>1. o + i - off \in 1 .. Size[k] /\ off + (o + i - off) = o + i
        BY <1>3
      <4> QED
        BY <4>1, <3>2
    <3> QED
      BY <1>2, <2>1, <3>3
  <2> QED
    BY <2>2, <2>3 DEF OwnPlace
<1>5. o + Size[l] <= Len(g)
  BY <1>2, <1>3
<1> QED
  BY <1>3, <1>4, <1>5 DEF HoldsV, Fits

(* What follows the old contents changes no snapshot in them.              *)
LEMMA AppendKeeps ==
  ASSUME NEW f \in Seq(Cell), NEW s \in Seq(Cell), NEW l \in Keys, NEW o, NEW u, HoldsV(l, o, f, u)
  PROVE  HoldsV(l, o, f \o s, u)
PROOF
<1>1. o \in Nat /\ o + Size[l] <= Len(f) /\ Size[l] \in Nat
      /\ \A i \in 1 .. Size[l] : f[o + i] = <<l, u>>
  BY CellsFacts DEF HoldsV, Fits
<1>2. Len(f \o s) = Len(f) + Len(s) /\ Len(s) \in Nat /\ \A i \in 1 .. Len(f) : (f \o s)[i] = f[i]
  OBVIOUS
<1>3. \A i \in 1 .. Size[l] : (f \o s)[o + i] = <<l, u>>
  BY <1>1, <1>2
<1>4. o + Size[l] <= Len(f \o s)
  BY <1>1, <1>2
<1> QED
  BY <1>1, <1>3, <1>4 DEF HoldsV, Fits

(* A snapshot that is copied to the end of another file.                   *)
LEMMA CopyHolds ==
  ASSUME NEW f \in Seq(Cell), NEW h \in Seq(Cell), NEW k \in Keys, NEW off, NEW v,
         HoldsV(k, off, f, v)
  PROVE  HoldsV(k, Len(h), h \o ReadAt(f, off, Size[k]), v)
PROOF
<1> DEFINE s == ReadAt(f, off, Size[k])
<1>1. off \in Nat /\ off + Size[k] <= Len(f) /\ Size[k] \in Nat
      /\ \A i \in 1 .. Size[k] : f[off + i] = <<k, v>>
  BY CellsFacts DEF HoldsV, Fits
<1>2. s \in Seq(Cell) /\ Len(s) = Size[k] /\ \A i \in 1 .. Size[k] : s[i] = <<k, v>>
  BY <1>1, ReadAtFacts, Zenon
<1> HIDE DEF s
<1>3. Len(h \o s) = Len(h) + Len(s) /\ Len(h) \in Nat
      /\ \A i \in 1 .. Len(s) : (h \o s)[Len(h) + i] = s[i]
  BY <1>2
<1> QED
  BY <1>1, <1>2, <1>3 DEF HoldsV, Fits, s

-----------------------------------------------------------------------------
(* How many bytes the snapshots of some keys have.                         *)

LEMMA BytesNone == IsFiniteSet(BytesOf({})) /\ Cardinality(BytesOf({})) = 0
PROOF
<1>1. BytesOf({}) = {}
  BY DEF BytesOf
<1> QED
  BY <1>1, FS_EmptySet

LEMMA BytesAdd ==
  ASSUME NEW ks \in SUBSET Keys, IsFiniteSet(BytesOf(ks)), NEW k \in Keys \ ks
  PROVE  /\ IsFiniteSet(BytesOf(ks \cup {k}))
         /\ Cardinality(BytesOf(ks \cup {k})) = Cardinality(BytesOf(ks)) + Size[k]
PROOF
<1> DEFINE a == BytesOf(ks)
           b == {k} \X (1 .. Size[k])
<1>1. BytesOf(ks \cup {k}) = a \cup b
  BY DEF BytesOf
<1>2. a \cap b = {}
  BY DEF BytesOf
<1>3. Size[k] \in Nat
  BY KeysAssumption
<1>4. IsFiniteSet({k}) /\ Cardinality({k}) = 1
  BY FS_Singleton
<1>5. IsFiniteSet(1 .. Size[k]) /\ Cardinality(1 .. Size[k]) = Size[k]
  <2>1. 1 \in Int /\ Size[k] \in Int
    BY <1>3
  <2>2. /\ IsFiniteSet(1 .. Size[k])
        /\ Cardinality(1 .. Size[k]) = IF 1 > Size[k] THEN 0 ELSE Size[k] - 1 + 1
    BY <2>1, FS_Interval, Zenon
  <2> QED
    BY <1>3, <2>2
<1>6. IsFiniteSet(b) /\ Cardinality(b) = Size[k]
  <2>1. IsFiniteSet(b) /\ Cardinality(b) = Cardinality({k}) * Cardinality(1 .. Size[k])
    BY <1>4, <1>5, FS_Product, Zenon
  <2> QED
    BY <2>1, <1>3, <1>4, <1>5
<1> HIDE DEF a, b
<1>7. IsFiniteSet(a)
  BY DEF a
<1>8. /\ IsFiniteSet(a \cup b)
      /\ Cardinality(a \cup b) = Cardinality(a) + Cardinality(b) - Cardinality(a \cap b)
  BY <1>6, <1>7, FS_Union
<1>9. Cardinality(a \cap b) = 0 /\ Cardinality(a) \in Nat
  BY <1>2, <1>7, FS_EmptySet, FS_CardinalityType, Zenon
<1>10. Cardinality(a \cup b) = Cardinality(a) + Size[k]
  BY <1>3, <1>6, <1>8, <1>9
<1>11. IsFiniteSet(BytesOf(ks \cup {k})) /\ Cardinality(BytesOf(ks \cup {k})) = Cardinality(a) + Size[k]
  BY <1>1, <1>8, <1>10, Zenon
<1> QED
  BY <1>11 DEF a

LEMMA BytesRemove ==
  ASSUME NEW ks \in SUBSET Keys, IsFiniteSet(BytesOf(ks)), NEW k \in ks
  PROVE  /\ IsFiniteSet(BytesOf(ks \ {k}))
         /\ Cardinality(BytesOf(ks)) = Cardinality(BytesOf(ks \ {k})) + Size[k]
PROOF
<1> DEFINE rest == ks \ {k}
<1>1. rest \in SUBSET Keys /\ k \in Keys \ rest /\ rest \cup {k} = ks
  OBVIOUS
<1>2. BytesOf(rest) \in SUBSET BytesOf(ks)
  BY DEF BytesOf
<1>3. IsFiniteSet(BytesOf(rest))
  BY <1>2, FS_Subset, Zenon
<1> HIDE DEF rest
<1>4. Cardinality(BytesOf(rest \cup {k})) = Cardinality(BytesOf(rest)) + Size[k]
  BY <1>1, <1>3, BytesAdd
<1> QED
  BY <1>1, <1>3, <1>4 DEF rest

LEMMA BytesTotal ==
  ASSUME \A k \in DOMAIN sizes : sizes[k] = Size[k]
  PROVE  Total(sizes) = Cardinality(BytesOf(DOMAIN sizes))
PROOF
<1>1. Bytes(sizes) = BytesOf(DOMAIN sizes)
  BY DEF Bytes, BytesOf
<1> QED
  BY <1>1 DEF Total

(* What a write through the stream comes to.                               *)
Streamed(k, off) ==
  \/ /\ ~streamBad /\ Overwrites(file', file, off, k, 1 - version[k])
     /\ streamBad' = streamBad /\ writeTask' = writeTask /\ mishap' = mishap
  \/ /\ file' = file /\ streamBad' = TRUE /\ writeTask' = "last"
     /\ mishap' = IF streamBad THEN mishap ELSE "io"

LEMMA StreamFacts ==
  ASSUME FileOK, RestOK, NEW k \in Keys, NEW off \in Offset, off <= Len(file),
         StreamWrite(k, off)
  PROVE  Streamed(k, off)
PROOF
<1>1. 1 - version[k] \in {0, 1}
  BY DEF RestOK
<1>2. file \in Seq(Cell)
  BY DEF FileOK
<1>3. Overwrites(WriteAt(file, off, Cells(k, 1 - version[k])), file, off, k, 1 - version[k])
  BY <1>1, <1>2, WriteAtFacts
<1> QED
  BY <1>3 DEF StreamWrite, Streamed, MishapIf, Mishap, NoMishap

LEMMA FitsLonger ==
  ASSUME NEW k \in Keys, NEW off, NEW f \in Seq(Cell), NEW g \in Seq(Cell), Len(f) <= Len(g),
         Fits(k, off, f)
  PROVE  Fits(k, off, g)
PROOF
<1>1. Size[k] \in Nat /\ Len(f) \in Nat /\ Len(g) \in Nat
  BY KeysAssumption
<1> QED
  BY <1>1 DEF Fits

(* What the loop of CompactSwapFile appends to the new file.               *)
LEMMA CopiedFacts ==
  ASSUME MapsOK, oldFile \in Seq(Cell), NEW k \in DOMAIN offsets
  PROVE  /\ Copied(k) \in Seq(Cell) /\ Len(Copied(k)) = Get(sizes, k)
         /\ Get(sizes, k) \in {0, Size[k]} /\ Get(sizes, k) \in Nat
PROOF
<1> DEFINE n == Get(sizes, k)
           off == offsets[k]
<1>1. k \in Keys /\ off \in Offset /\ n \in {0, Size[k]} /\ n \in Nat
  <2>1. Size[k] \in Nat /\ k \in Keys
    BY KeysAssumption, Zenon DEF MapsOK
  <2> QED
    BY <2>1 DEF MapsOK, Get
<1>2. Copied(k) = IF InFile(oldFile, off, n) THEN ReadAt(oldFile, off, n) ELSE [i \in 1 .. n |-> Pid]
  BY DEF Copied, Readable
<1> HIDE DEF n, off
<1>3. CASE InFile(oldFile, off, n) /\ n # 0
  <2>1. off \in Nat /\ off + n <= Len(oldFile)
    BY <1>1, <1>3 DEF InFile, Offset
  <2>2. ReadAt(oldFile, off, n) \in Seq(Cell) /\ Len(ReadAt(oldFile, off, n)) = n
    BY <1>1, <2>1, ReadAtFacts
  <2> QED
    BY <1>1, <1>2, <1>3, <2>2 DEF n
<1>4. CASE InFile(oldFile, off, n) /\ n = 0
  <2>1. off \in Int
    BY <1>1 DEF Offset
  <2>2. SubSeq(oldFile, off + 1, off + 0) = << >>
    BY <2>1
  <2>3. Copied(k) = << >>
    BY <1>2, <1>4, <2>2 DEF ReadAt
  <2> QED
    BY <1>1, <1>4, <2>3 DEF n
<1>5. CASE ~InFile(oldFile, off, n)
  <2>1. Pid \in Cell
    BY DEF Cell
  <2>2. [i \in 1 .. n |-> Pid] \in Seq(Cell) /\ Len([i \in 1 .. n |-> Pid]) = n
    BY <1>1, <2>1
  <2> QED
    BY <1>1, <1>2, <1>5, <2>2 DEF n
<1> QED
  BY <1>3, <1>4, <1>5

-----------------------------------------------------------------------------
(* The invariant holds at the start, and nothing changes it by itself.     *)

LEMMA InitIInv == Init => IInv
PROOF
<1> SUFFICES ASSUME Init PROVE IInv
  OBVIOUS
<1> USE KeysAssumption DEF Init
<1>1. Pid \in Cell /\ file = <<Pid>> /\ Len(file) = 1
  BY DEF Cell
<1>2. DOMAIN offsets = {} /\ DOMAIN sizes = {} /\ DOMAIN newOffsets = {}
  OBVIOUS
<1>3. file \in Seq(Cell) /\ oldFile \in Seq(Cell) /\ newFile \in Seq(Cell)
  BY <1>1
<1>4. TypeOK
  BY <1>2, <1>3, Zenon DEF TypeOK, Cell
<1>5. LocalsInv
  BY <1>1, <1>2, <1>3 DEF LocalsInv, Mapped, Offset
<1>6. ThreadInv
  BY DEF ThreadInv, Offset
<1>7. AppendInv
  BY <1>1, <1>2 DEF AppendInv, Sized
<1>8. GoodInv
  BY <1>2 DEF GoodInv
<1>9. LengthInv
  BY <1>1 DEF LengthInv
<1>10. CountInv
  BY <1>2, BytesNone DEF CountInv
<1> QED
  BY <1>4, <1>5, <1>6, <1>7, <1>8, <1>9, <1>10 DEF IInv

LEMMA StutterStep == IInv /\ UNCHANGED vars => IInv'
PROOF
<1> SUFFICES ASSUME IInv, UNCHANGED vars PROVE IInv'
  OBVIOUS
<1> USE DEF vars, fileVars, mapVars, objVars, heapVars, readVars
<1>1. TypeOK' /\ LocalsInv' /\ ThreadInv'
  BY DEF IInv, TypeOK, LocalsInv, ThreadInv, Mapped
<1>2. AppendInv'
  BY DEF IInv, AppendInv, Sized, Mapped, Ahead
<1>3. GoodInv'
  BY Zenon DEF IInv, GoodInv, Good, Holds, Mapped
<1>4. LengthInv'
  BY DEF IInv, LengthInv, Good
<1>5. CountInv'
  BY DEF IInv, CountInv
<1> QED
  BY <1>1, <1>2, <1>3, <1>4, <1>5 DEF IInv

-----------------------------------------------------------------------------
(* Objects come, lose their pages and go.                                  *)

LEMMA AllocateStep ==
  ASSUME IInv, NEW k \in Keys, Allocate(k)
  PROVE  IInv'
PROOF
<1> USE KeysAssumption DEF Allocate, Running, fileVars, mapVars, objVars, heapVars, readVars
<1>1. TypeOK'
  BY DEF IInv, TypeOK
<1>2. LocalsInv'
  BY DEF IInv, LocalsInv, Mapped
<1>3. ThreadInv'
  BY DEF IInv, TypeOK, ThreadInv
<1>4. AppendInv'
  BY DEF IInv, AppendInv, Sized, Mapped, Ahead
<1>5. GoodInv'
  BY DEF IInv, GoodInv, Good, Holds, Mapped
<1>6. LengthInv'
  BY DEF IInv, LengthInv, Good
<1>7. CountInv'
  BY DEF IInv, CountInv
<1> QED
  BY <1>1, <1>2, <1>3, <1>4, <1>5, <1>6, <1>7 DEF IInv

(* What a heap compaction may do to newObjectOffsetMap, and when.          *)
LEMMA CompactHeapFacts ==
  ASSUME RestOK, NEW k \in Keys, CompactHeap(k)
  PROVE  /\ DOMAIN newOffsets' \subseteq DOMAIN newOffsets \ {k}
         /\ \A l \in DOMAIN newOffsets' : newOffsets'[l] = newOffsets[l]
         /\ mishap' \in {"none", "io", "moved", "freed", "stale", "counted"}
         /\ mishap' \notin {"io", "moved"} =>
              mishap' = mishap /\ DOMAIN newOffsets' = DOMAIN newOffsets /\ k \notin DOMAIN newOffsets
         /\ hpc \notin {"copy", "swap", "record", "rewrite"} /\ fpc = "idle"
         /\ \A t \in Threads : tpc[t] = "idle"
PROOF
<1>1. PICK large \in SUBSET (DOMAIN newOffsets \ {k}) :
        /\ newOffsets' = [l \in large |-> newOffsets[l]]
        /\ MishapIf(large # DOMAIN newOffsets, "moved")
  BY DEF CompactHeap
<1>2. DOMAIN newOffsets' = large /\ \A l \in large : newOffsets'[l] = newOffsets[l]
  BY <1>1
<1>3. CASE large = DOMAIN newOffsets
  BY <1>1, <1>2, <1>3 DEF CompactHeap, CanStop, MapsFree, MishapIf, NoMishap, RestOK
<1>4. CASE large # DOMAIN newOffsets
  <2>1. mishap' \in {"io", "moved"}
    BY <1>1, <1>4 DEF MishapIf, Mishap
  <2> QED
    BY <1>2, <2>1 DEF CompactHeap, CanStop, MapsFree
<1> QED
  BY <1>3, <1>4

LEMMA ReclaimStep ==
  ASSUME IInv, NEW k \in Keys, Reclaim(k)
  PROVE  IInv'
PROOF
<1>a. FileOK /\ MapsOK /\ RestOK /\ LocalsInv /\ ThreadInv /\ AppendInv /\ GoodInv /\ LengthInv
  BY TypeParts DEF IInv
<1>b. /\ DOMAIN newOffsets' \subseteq DOMAIN newOffsets \ {k}
      /\ \A l \in DOMAIN newOffsets' : newOffsets'[l] = newOffsets[l]
      /\ mishap' \in {"none", "io", "moved", "freed", "stale", "counted"}
      /\ mishap' \notin {"io", "moved"} =>
           mishap' = mishap /\ DOMAIN newOffsets' = DOMAIN newOffsets /\ k \notin DOMAIN newOffsets
      /\ hpc \notin {"copy", "swap", "record", "rewrite"} /\ fpc = "idle"
      /\ \A t \in Threads : tpc[t] = "idle"
  BY <1>a, CompactHeapFacts DEF Reclaim
<1>c. /\ UNCHANGED <<file, pos, streamBad, offsets, sizes, freedSize, swapfileSize, version>>
      /\ UNCHANGED <<writeTask, hpc, hkey, hoff, oldFile, newFile, tpc, tkey, toff, tsize, fpc>>
  BY DEF Reclaim, fileVars, mapVars, readVars
<1>d. /\ state[k] \in {"plain", "stub"} /\ k \in DOMAIN offsets /\ state'[k] = "out"
      /\ \A l \in Keys \ {k} : state'[l] = state[l]
      /\ state' \in [Keys -> {"free", "plain", "stub", "out", "damaged"}]
  BY <1>a DEF Reclaim, RestOK
<1>1. TypeOK'
  <2>1. FileOK' /\ MapsOK'
    BY <1>a, <1>c DEF FileOK, MapsOK
  <2>2. RestOK'
    BY <1>a, <1>b, <1>c, <1>d DEF RestOK
  <2> QED
    BY <2>1, <2>2, TypeParts
<1>2. LocalsInv'
  BY <1>a, <1>b, <1>c DEF LocalsInv, Mapped
<1>3. ThreadInv'
  BY <1>a, <1>c DEF ThreadInv
<1>4. AppendInv'
  BY <1>a, <1>b, <1>c, <1>d DEF AppendInv, Sized, Mapped
<1>5. GoodInv'
  <2> SUFFICES ASSUME Good' PROVE GoodInv'
    BY DEF GoodInv
  <2>1. Good /\ DOMAIN newOffsets' = DOMAIN newOffsets
    BY <1>b DEF Good
  <2> QED
    BY <1>a, <1>b, <1>c, <1>d, <2>1 DEF GoodInv, Holds, Mapped
<1>6. LengthInv'
  BY <1>a, <1>b, <1>c DEF LengthInv, Good
<1>7. CountInv'
  BY <1>b, <1>c DEF IInv, CountInv
<1> QED
  BY <1>1, <1>2, <1>3, <1>4, <1>5, <1>6, <1>7 DEF IInv

(* The bytes of the snapshots that are left when k is erased.               *)
LEMMA ErasedLess ==
  ASSUME DOMAIN sizes \in SUBSET Keys, IsFiniteSet(BytesOf(DOMAIN sizes)), NEW k \in Keys,
         DOMAIN sizes' = DOMAIN sizes \ {k}
  PROVE  /\ IsFiniteSet(BytesOf(DOMAIN sizes'))
         /\ Cardinality(BytesOf(DOMAIN sizes')) \in Nat /\ Size[k] \in Nat
         /\ Cardinality(BytesOf(DOMAIN sizes)) =
              Cardinality(BytesOf(DOMAIN sizes')) + (IF k \in DOMAIN sizes THEN Size[k] ELSE 0)
PROOF
<1>1. Size[k] \in Nat
  BY KeysAssumption
<1>2. CASE k \in DOMAIN sizes
  <2>1. /\ IsFiniteSet(BytesOf(DOMAIN sizes'))
        /\ Cardinality(BytesOf(DOMAIN sizes)) = Cardinality(BytesOf(DOMAIN sizes')) + Size[k]
    BY <1>2, BytesRemove
  <2>2. Cardinality(BytesOf(DOMAIN sizes')) \in Nat
    BY <2>1, FS_CardinalityType
  <2> QED
    BY <1>1, <1>2, <2>1, <2>2
<1>3. CASE k \notin DOMAIN sizes
  <2>1. DOMAIN sizes' = DOMAIN sizes
    BY <1>3
  <2>2. Cardinality(BytesOf(DOMAIN sizes)) \in Nat
    BY FS_CardinalityType
  <2> QED
    BY <1>1, <1>3, <2>1, <2>2
<1> QED
  BY <1>2, <1>3

LEMMA CollectSemiSpaceStep ==
  ASSUME IInv, NEW k \in Keys, CollectSemiSpace(k)
  PROVE  IInv'
PROOF
<1>a. FileOK /\ MapsOK /\ RestOK /\ LocalsInv /\ ThreadInv /\ AppendInv /\ GoodInv /\ LengthInv
  BY TypeParts DEF IInv
<1>b. /\ DOMAIN newOffsets' \subseteq DOMAIN newOffsets \ {k}
      /\ \A l \in DOMAIN newOffsets' : newOffsets'[l] = newOffsets[l]
      /\ mishap' \in {"none", "io", "moved", "freed", "stale", "counted"}
      /\ mishap' \notin {"io", "moved"} =>
           mishap' = mishap /\ DOMAIN newOffsets' = DOMAIN newOffsets /\ k \notin DOMAIN newOffsets
      /\ hpc \notin {"copy", "swap", "record", "rewrite"} /\ fpc = "idle"
      /\ \A t \in Threads : tpc[t] = "idle"
  BY <1>a, CompactHeapFacts DEF CollectSemiSpace
<1>c. /\ UNCHANGED <<file, pos, streamBad, freedSize, swapfileSize, version>>
      /\ UNCHANGED <<writeTask, hpc, hkey, hoff, oldFile, newFile, tpc, tkey, toff, tsize, fpc>>
  BY DEF CollectSemiSpace, fileVars, readVars
<1>d. /\ state'[k] = "free" /\ \A l \in Keys \ {k} : state'[l] = state[l]
      /\ state' \in [Keys -> {"free", "plain", "stub", "out", "damaged"}]
  BY <1>a DEF CollectSemiSpace, RestOK
<1>e. /\ DOMAIN offsets' = DOMAIN offsets \ {k} /\ \A l \in DOMAIN offsets' : offsets'[l] = offsets[l]
      /\ DOMAIN sizes' \subseteq DOMAIN sizes /\ \A l \in DOMAIN sizes' : sizes'[l] = sizes[l]
      /\ k \in DOMAIN offsets => DOMAIN sizes' = DOMAIN sizes \ {k}
      /\ k \notin DOMAIN offsets => DOMAIN sizes' = DOMAIN sizes
  BY DEF CollectSemiSpace, Without
<1>1. TypeOK'
  <2>1. FileOK' /\ MapsOK'
    BY <1>a, <1>c, <1>e DEF FileOK, MapsOK
  <2>2. RestOK'
    BY <1>a, <1>b, <1>c, <1>d DEF RestOK
  <2> QED
    BY <2>1, <2>2, TypeParts
<1>2. LocalsInv'
  BY <1>a, <1>b, <1>c, <1>e DEF LocalsInv, Mapped
<1>3. ThreadInv'
  BY <1>a, <1>c DEF ThreadInv
<1>4. AppendInv'
  BY <1>a, <1>b, <1>c, <1>d, <1>e DEF AppendInv, Sized, Mapped
<1>5. GoodInv'
  <2> SUFFICES ASSUME Good' PROVE GoodInv'
    BY DEF GoodInv
  <2>1. Good /\ DOMAIN newOffsets' = DOMAIN newOffsets /\ k \notin DOMAIN newOffsets
    BY <1>b DEF Good
  <2>2. DOMAIN sizes = DOMAIN offsets
    BY <1>a, <2>1 DEF GoodInv
  <2>3. DOMAIN sizes' = DOMAIN sizes \ {k}
    BY <1>e, <2>2
  <2> QED
    BY <1>a, <1>b, <1>c, <1>d, <1>e, <2>1, <2>3 DEF GoodInv, Holds, Mapped
<1>6. LengthInv'
  BY <1>a, <1>b, <1>c DEF LengthInv, Good
<1>7. CountInv'
  <2> SUFFICES ASSUME mishap' = "none" PROVE CountInv'
    BY DEF CountInv
  <2>1. mishap = "none" /\ DOMAIN newOffsets' = DOMAIN newOffsets
    BY <1>b
  <2>2. DOMAIN sizes' = DOMAIN sizes \ {k} /\ DOMAIN sizes \in SUBSET Keys
    BY <1>a, <1>e, <2>1 DEF GoodInv, Good, MapsOK
  <2>3. CountInv /\ IsFiniteSet(BytesOf(DOMAIN sizes)) /\ freedSize \in Nat /\ swapfileSize \in Nat
    BY <1>a, <2>1 DEF IInv, CountInv, MapsOK
  <2>4. /\ IsFiniteSet(BytesOf(DOMAIN sizes')) /\ Cardinality(BytesOf(DOMAIN sizes')) \in Nat
        /\ Cardinality(BytesOf(DOMAIN sizes)) \in Nat
        /\ Cardinality(BytesOf(DOMAIN sizes')) <= Cardinality(BytesOf(DOMAIN sizes))
    BY <2>2, <2>3, ErasedLess
  <2> QED
    BY <1>c, <2>1, <2>3, <2>4 DEF CountInv
<1> QED
  BY <1>1, <1>2, <1>3, <1>4, <1>5, <1>6, <1>7 DEF IInv

LEMMA GcRecordFreeStep ==
  ASSUME IInv, NEW k \in Keys, GcRecordFree(k)
  PROVE  IInv'
PROOF
<1> USE KeysAssumption
<1>1. TypeOK'
  <2>1. FileOK'
    BY TypeParts DEF IInv, FileOK, GcRecordFree, fileVars
  <2>2. MapsOK'
    <3>1. MapsOK
      BY TypeParts DEF IInv
    <3>2. \A l \in Keys : Size[l] \in Nat
      OBVIOUS
    <3>3. ASSUME NEW l \in DOMAIN sizes PROVE sizes[l] \in Nat
      <4>1. l \in Keys /\ (sizes[l] = 0 \/ sizes[l] = Size[l])
        BY <3>1 DEF MapsOK
      <4>2. Size[l] \in Nat /\ 0 \in Nat
        BY <3>2, <4>1, Zenon
      <4> QED
        BY <4>1, <4>2, Zenon
    <3> QED
      BY <3>1, <3>3 DEF MapsOK, GcRecordFree, Without
  <2>3. RestOK'
    BY TypeParts DEF IInv, RestOK, GcRecordFree, MishapIf, Mishap, NoMishap, heapVars, readVars
  <2> QED
    BY <2>1, <2>2, <2>3, TypeParts
<1>2. LocalsInv'
  BY DEF IInv, TypeOK, LocalsInv, ThreadInv, Mapped, Cell, Offset, GcRecordFree, Running,
    MapsFree, HeldOnTo, Without, MishapIf, Mishap, NoMishap, fileVars, mapVars, objVars, heapVars,
    readVars
<1>3. ThreadInv'
  BY DEF IInv, ThreadInv, GcRecordFree, heapVars, readVars
<1>4. AppendInv'
  <2> SUFFICES ASSUME mishap' \notin {"io", "moved"} PROVE AppendInv'
    BY DEF AppendInv
  <2>1. mishap \notin {"io", "moved"} /\ AppendInv /\ hpc \notin {"copy", "swap"}
    BY DEF IInv, GcRecordFree, MapsFree, MishapIf, Mishap, NoMishap
  <2>2. /\ \A l \in DOMAIN offsets' : l \in DOMAIN offsets /\ offsets'[l] = offsets[l]
        /\ \A l \in DOMAIN sizes' : l \in DOMAIN sizes /\ sizes'[l] = sizes[l]
        /\ \A l \in DOMAIN offsets \ {k} : l \in DOMAIN offsets'
        /\ k \in DOMAIN offsets => k \notin DOMAIN sizes'
    BY DEF GcRecordFree, Without
  <2>3. \A l \in Keys : state'[l] = "out" => l # k /\ state[l] = "out"
    BY DEF IInv, TypeOK, GcRecordFree
  <2>4. UNCHANGED <<fileVars, heapVars>>
    BY DEF GcRecordFree
  <2> QED
    BY <2>1, <2>2, <2>3, <2>4 DEF AppendInv, Sized, Mapped, fileVars, heapVars
<1>5. GoodInv'
  <2> SUFFICES ASSUME Good' PROVE GoodInv'
    BY DEF GoodInv
  <2>1. Good /\ ~HeldOnTo(k)
    BY DEF Good, GcRecordFree, MishapIf, Mishap, NoMishap
  <2>2. DOMAIN sizes = DOMAIN offsets /\ GoodInv /\ LocalsInv /\ ThreadInv
    BY <2>1 DEF IInv, GoodInv
  <2>3. /\ DOMAIN offsets' = DOMAIN offsets \ {k} /\ \A l \in DOMAIN offsets' : offsets'[l] = offsets[l]
        /\ DOMAIN sizes' = DOMAIN sizes \ {k} /\ \A l \in DOMAIN sizes' : sizes'[l] = sizes[l]
    BY <2>2, Zenon DEF GcRecordFree, Without
  <2>4. state' = [state EXCEPT ![k] = "free"]
        /\ state \in [Keys -> {"free", "plain", "stub", "out", "damaged"}]
    BY DEF GcRecordFree, IInv, TypeOK
  <2>5. k # hkey /\ k \notin DOMAIN newOffsets /\ (\A t \in Threads : tkey[t] # k)
        /\ hpc \notin {"copy", "swap"}
    BY <2>1 DEF HeldOnTo, GcRecordFree, MapsFree, Unreachable
  <2>6. /\ UNCHANGED <<file, streamBad, version, writeTask, hpc, hkey, hoff, newFile, newOffsets>>
        /\ UNCHANGED <<tpc, tkey, toff, tsize>>
    BY DEF GcRecordFree, fileVars, heapVars, readVars
  <2>7. \A l \in DOMAIN offsets' : Holds(l, offsets[l], Mapped)
    BY <2>1, <2>2, <2>3 DEF GoodInv
  <2>8. \A l \in Keys : /\ state'[l] # "damaged"
                        /\ state'[l] \in {"stub", "out"} => l \in DOMAIN offsets'
                        /\ state'[l] = "free" => l \notin DOMAIN offsets'
    BY <2>1, <2>2, <2>3, <2>4 DEF GoodInv
  <2>9. state'[hkey] = state[hkey] /\ \A t \in Threads : state'[tkey[t]] = state[tkey[t]]
    <3>1. \A l : l # k => state'[l] = state[l]
      BY <2>4
    <3> QED
      BY <2>5, <3>1
  <2>10. /\ ~streamBad' /\ writeTask' = "on"
         /\ DOMAIN sizes' = DOMAIN offsets' /\ \A l \in DOMAIN sizes' : sizes'[l] = Size[l]
         /\ \A l \in DOMAIN offsets' : Holds(l, offsets[l], Mapped)'
    BY <2>1, <2>2, <2>3, <2>6, <2>7 DEF GoodInv, Holds, Mapped
  <2>11. /\ hpc \in {"record", "rewrite"} => Holds(hkey, hoff, file)'
         /\ hpc = "record" => state'[hkey] = "plain" /\ hkey \notin DOMAIN offsets'
         /\ hpc = "rewrite" =>
              state'[hkey] \in {"plain", "stub"} /\ hkey \in DOMAIN offsets' /\ hoff = offsets'[hkey]
    BY <2>1, <2>2, <2>3, <2>5, <2>6, <2>9 DEF GoodInv, Holds
  <2>12. /\ hpc \in {"copy", "install"} =>
              DOMAIN newOffsets \subseteq DOMAIN offsets'
              /\ \A l \in DOMAIN newOffsets : Holds(l, newOffsets[l], newFile)'
         /\ hpc = "install" => DOMAIN newOffsets = DOMAIN offsets'
    BY <2>1, <2>2, <2>3, <2>5, <2>6 DEF GoodInv, Holds
  <2>13. \A t \in Threads : tpc[t] = "read" =>
           /\ state'[tkey[t]] \in {"out", "stub"} /\ tsize[t] = Size[tkey[t]]
           /\ Holds(tkey[t], toff[t], file)' /\ toff[t] = offsets'[tkey[t]]
    <3> TAKE t \in Threads
    <3> HAVE tpc[t] = "read"
    <3>1. /\ state[tkey[t]] \in {"out", "stub"} /\ tsize[t] = Size[tkey[t]]
          /\ Holds(tkey[t], toff[t], file) /\ toff[t] = offsets[tkey[t]]
      BY <2>1, <2>2, <2>5 DEF GoodInv
    <3>2. tkey[t] \in Keys /\ tkey[t] # k
      BY <2>2, <2>5 DEF ThreadInv
    <3>3. tkey[t] \in DOMAIN offsets'
      BY <2>1, <2>2, <2>3, <3>1, <3>2 DEF GoodInv
    <3>4. Holds(tkey[t], toff[t], file)'
      BY <2>6, <3>1 DEF Holds
    <3> QED
      BY <2>3, <2>9, <3>1, <3>3, <3>4
  <2> QED
    BY <2>6, <2>8, <2>10, <2>11, <2>12, <2>13 DEF GoodInv
<1>6. LengthInv'
  BY DEF IInv, LengthInv, Good, GcRecordFree, MishapIf, Mishap, NoMishap, fileVars, heapVars
<1>7. CountInv'
  <2> SUFFICES ASSUME mishap' = "none" PROVE CountInv'
    BY DEF CountInv
  <2>1. mishap = "none" /\ ~(hpc = "build" /\ k \in DOMAIN sizes) /\ hpc # "copy"
    BY DEF GcRecordFree, MishapIf, Mishap, NoMishap, MapsFree
  <2>2. DOMAIN sizes = DOMAIN offsets /\ \A l \in DOMAIN sizes : sizes[l] = Size[l]
    BY <2>1 DEF IInv, GoodInv, Good
  <2>3. DOMAIN sizes \in SUBSET Keys /\ freedSize \in Nat /\ swapfileSize \in Nat
    BY DEF IInv, TypeOK
  <2>4. CountInv /\ IsFiniteSet(BytesOf(DOMAIN sizes))
    BY <2>1 DEF IInv, CountInv
  <2>5. hpc' = hpc /\ newOffsets' = newOffsets /\ swapfileSize' = swapfileSize
    BY DEF GcRecordFree, heapVars
  <2>6. CASE k \in DOMAIN sizes
    <3>1. DOMAIN sizes' = DOMAIN sizes \ {k} /\ freedSize' = freedSize + Size[k]
      BY <2>2, <2>6 DEF GcRecordFree, Without
    <3>2. /\ IsFiniteSet(BytesOf(DOMAIN sizes'))
          /\ Cardinality(BytesOf(DOMAIN sizes')) \in Nat /\ Size[k] \in Nat
          /\ Cardinality(BytesOf(DOMAIN sizes)) = Cardinality(BytesOf(DOMAIN sizes')) + Size[k]
      BY <2>3, <2>4, <2>6, <3>1, ErasedLess
    <3> QED
      BY <2>1, <2>3, <2>4, <2>5, <2>6, <3>1, <3>2 DEF CountInv
  <2>7. CASE k \notin DOMAIN sizes
    BY <2>1, <2>4, <2>5, <2>7 DEF CountInv, GcRecordFree
  <2> QED
    BY <2>6, <2>7
<1> QED
  BY <1>1, <1>2, <1>3, <1>4, <1>5, <1>6, <1>7 DEF IInv

=============================================================================
