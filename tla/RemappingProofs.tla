--------------------------- MODULE RemappingProofs --------------------------
(***************************************************************************)
(* The maps and the reclamation table follow the objects, for any heap and *)
(* any address layout.                                                     *)
(*                                                                         *)
(* Between a move and the renaming of the key, the key is found through    *)
(* the table: Pending is the set of old addresses whose keys are yet to be *)
(* renamed, and At(a) the present address of the object whose key is a.    *)
(***************************************************************************)
EXTENDS Remapping, TLAPS

Pending == IF phase \in {"replace", "replaceMoved"} THEN todo ELSE DOMAIN addrTable
At(a) == IF a \in Pending THEN addrTable[a] ELSE a

(* No two objects have the same place; freed ones are forgotten, and those *)
(* whose table entries have leaked do not come back.                       *)
PlacesInv ==
  /\ \A o, q \in Objects : place[o] = place[q] /\ Live(o) => o = q
  /\ \A o \in written : Live(o)
  /\ \A o \in stubs : Live(o) /\ place[o] \notin Los
  /\ \A o \in leaked : ~Live(o)
  /\ \A o \in Objects : Live(o) =>
       \/ place[o] \in RosAlloc[space] \cup Los
       \/ phase = "forward" /\ place[o] \in RosAlloc[1 - space]

(* Each key that is not to be removed leads to its object, each object     *)
(* with a snapshot has such a key, and no object has two.                  *)
KeysInv ==
  /\ \A a \in DOMAIN offsetMap \ removeSet :
       offsetMap[a] \in written /\ place[offsetMap[a]] = At(a)
  /\ \A o \in written : \E a \in DOMAIN offsetMap \ removeSet : offsetMap[a] = o
  /\ \A a, b \in DOMAIN offsetMap : offsetMap[a] = offsetMap[b] => a = b

(* The new address of a key that is to be renamed, if it is also to be     *)
(* renamed, comes before it.                                               *)
TableInv ==
  /\ Pending \subseteq DOMAIN addrTable
  /\ Pending \cap removeSet = {}
  /\ \A a \in Pending : addrTable[a] \in Pending => addrTable[a] < a

(* What holds in the several phases.                                       *)
PhaseInv ==
  /\ phase = "run" => DOMAIN addrTable = {} /\ todo = {}
  /\ phase \in {"run", "create"} =>
       \A a \in createStubSet \ DOMAIN addrTable :
         \E o \in Objects : place[o] = a /\ o \notin stubs
  /\ phase = "create" =>
       /\ \A a \in DOMAIN addrTable : \E o \in stubs : place[o] = addrTable[a]
       /\ todo = createStubSet \ DOMAIN addrTable
       /\ \A a \in DOMAIN addrTable : \A b \in todo : a < b
  /\ phase # "replaceMoved" =>
       /\ removeSet = {} /\ rtes = stubs \cup leaked
       /\ DOMAIN offsetMap \subseteq RosAlloc[space] \cup Los
  /\ phase \in {"forward", "replaceMoved"} => createStubSet = {} /\ writeSet = {}
  /\ phase = "forward" =>
       /\ DOMAIN addrTable \subseteq RosAlloc[space]
       /\ \A a \in DOMAIN addrTable : addrTable[a] \in RosAlloc[1 - space] /\ Vacant(a)
       /\ \A a \in DOMAIN stubRTEMap :
            a \in DOMAIN offsetMap /\ offsetMap[a] = stubRTEMap[a] /\ stubRTEMap[a] \in stubs
       /\ \A o \in stubs \cap written : \E a \in DOMAIN stubRTEMap : stubRTEMap[a] = o
  /\ phase = "replaceMoved" =>
       /\ removeSet \subseteq RosAlloc[1 - space] /\ todo \subseteq RosAlloc[1 - space]
       /\ \A a \in todo : addrTable[a] \in RosAlloc[space]
       /\ rtes \ FreedEntries = stubs \cup leaked

IInv == TypeOK /\ PlacesInv /\ KeysInv /\ TableInv /\ PhaseInv

(* The spaces are disjoint, and no address is Nowhere.                     *)
LEMMA Disjoint ==
  ASSUME TypeOK
  PROVE  /\ RosAlloc[space] \cap RosAlloc[1 - space] = {}
         /\ RosAlloc[space] \cap Los = {} /\ RosAlloc[1 - space] \cap Los = {}
         /\ 1 - space \in {0, 1} /\ 1 - (1 - space) = space
         /\ Nowhere \notin Addresses
         /\ Addresses = RosAlloc[space] \cup RosAlloc[1 - space] \cup Los
PROOF
<1>1. CASE space = 0
  BY <1>1, AddressAssumption DEF Addresses
<1>2. CASE space = 1
  BY <1>2, AddressAssumption DEF Addresses
<1> QED
  BY <1>1, <1>2 DEF TypeOK

(* Allocate keeps the invariant.                                       *)
LEMMA AllocateStep ==
  ASSUME IInv, NEW o \in Objects, NEW a \in Addresses, Allocate(o, a)
  PROVE  IInv'
PROOF
<1> USE DEF Live, Vacant
<1>1. TypeOK'
  BY Disjoint DEF IInv, TypeOK, Allocate, objVars, tableVars, loopVars
<1>2. PlacesInv'
  BY Disjoint DEF IInv, TypeOK, PlacesInv, Allocate, objVars, tableVars, loopVars
<1>3. KeysInv'
  BY Disjoint DEF IInv, TypeOK, PlacesInv, KeysInv, TableInv, PhaseInv, At, Pending,
     Allocate, objVars, tableVars, loopVars
<1>4. TableInv'
  BY Disjoint DEF IInv, TypeOK, PlacesInv, KeysInv, TableInv, PhaseInv, At, Pending,
     Allocate, objVars, tableVars, loopVars
<1>5. PhaseInv'
  BY Disjoint DEF IInv, TypeOK, PlacesInv, KeysInv, TableInv, PhaseInv, At, Pending,
     Allocate, objVars, tableVars, loopVars
<1> QED
  BY <1>1, <1>2, <1>3, <1>4, <1>5 DEF IInv

(* CheckAndUpdate keeps the invariant.                                 *)
LEMMA CheckAndUpdateStep ==
  ASSUME IInv, NEW o \in Objects, CheckAndUpdate(o)
  PROVE  IInv'
PROOF
<1> USE DEF Live, Vacant
<1>1. TypeOK'
  BY Disjoint DEF IInv, TypeOK, CheckAndUpdate, objVars, tableVars, loopVars
<1>2. PlacesInv'
  BY Disjoint DEF IInv, TypeOK, PlacesInv, CheckAndUpdate, objVars, tableVars, loopVars
<1>3. KeysInv'
  BY Disjoint DEF IInv, TypeOK, PlacesInv, KeysInv, TableInv, PhaseInv, At, Pending,
     CheckAndUpdate, objVars, tableVars, loopVars
<1>4. TableInv'
  BY Disjoint DEF IInv, TypeOK, PlacesInv, KeysInv, TableInv, PhaseInv, At, Pending,
     CheckAndUpdate, objVars, tableVars, loopVars
<1>5. PhaseInv'
  BY Disjoint DEF IInv, TypeOK, PlacesInv, KeysInv, TableInv, PhaseInv, At, Pending,
     CheckAndUpdate, objVars, tableVars, loopVars
<1> QED
  BY <1>1, <1>2, <1>3, <1>4, <1>5 DEF IInv

(* WriteToSwapFile keeps the invariant.                                *)
LEMMA WriteToSwapFileStep ==
  ASSUME IInv, NEW p \in Addresses, WriteToSwapFile(p)
  PROVE  IInv'
PROOF
<1> USE DEF Live, Vacant
<1>a. /\ phase = "run" /\ removeSet = {} /\ Pending = {} /\ Pending' = {}
      /\ DOMAIN addrTable = {} /\ todo = {} /\ writeSet' \subseteq writeSet
      /\ UNCHANGED <<place, stubs, rtes, leaked, createStubSet, addrTable>>
      /\ UNCHANGED <<todo, removeSet, stubRTEMap, space, phase>>
  BY DEF IInv, PhaseInv, Pending, WriteToSwapFile, loopVars
<1>1. CASE UNCHANGED <<offsetMap, written>>
  BY <1>a, <1>1 DEF IInv, TypeOK, PlacesInv, KeysInv, TableInv, PhaseInv, At
<1>2. ASSUME NEW o \in Objects, place[o] = p, offsetMap' = With(offsetMap, p, o),
             written' = written \cup {o}
      PROVE  IInv'
  <2>1. /\ DOMAIN offsetMap' = DOMAIN offsetMap \cup {p} /\ offsetMap'[p] = o
        /\ \A a \in DOMAIN offsetMap \ {p} : offsetMap'[a] = offsetMap[a]
    BY <1>2 DEF With
  <2>2. Live(o)
    BY <1>2, Disjoint DEF IInv
  <2>3. \A a \in DOMAIN offsetMap : offsetMap[a] = o => a = p
    BY <1>a, <1>2 DEF IInv, KeysInv, At
  <2>4. TypeOK'
    BY <1>a, <1>2, <2>1 DEF IInv, TypeOK
  <2>5. PlacesInv'
    BY <1>a, <1>2, <2>2 DEF IInv, PlacesInv
  <2>6. KeysInv'
    <3>1. p \in DOMAIN offsetMap => offsetMap[p] = o
      BY <1>a, <1>2, <2>2 DEF IInv, TypeOK, PlacesInv, KeysInv, At
    <3>2. \A a \in DOMAIN offsetMap' \ removeSet' :
            offsetMap'[a] \in written' /\ place'[offsetMap'[a]] = At(a)'
      BY <1>a, <1>2, <2>1 DEF IInv, KeysInv, At
    <3>3. \A q \in written' : \E a \in DOMAIN offsetMap' \ removeSet' : offsetMap'[a] = q
      BY <1>a, <1>2, <2>1, <3>1 DEF IInv, KeysInv
    <3>4. \A a, b \in DOMAIN offsetMap' : offsetMap'[a] = offsetMap'[b] => a = b
      BY <2>1, <2>3 DEF IInv, KeysInv
    <3> QED
      BY <3>2, <3>3, <3>4 DEF KeysInv
  <2>7. TableInv'
    BY <1>a DEF TableInv
  <2>8. p \in RosAlloc[space] \cup Los
    BY <1>a, <1>2, <2>2 DEF IInv, PlacesInv
  <2>9. PhaseInv'
    BY <1>a, <2>1, <2>8 DEF IInv, PhaseInv
  <2> QED
    BY <2>4, <2>5, <2>6, <2>7, <2>9 DEF IInv
<1> QED
  BY <1>1, <1>2 DEF WriteToSwapFile

(* Exclude keeps the invariant.                                        *)
LEMMA ExcludeStep ==
  ASSUME IInv, NEW a \in Addresses, Exclude(a)
  PROVE  IInv'
PROOF
<1> USE DEF Live, Vacant
<1>1. TypeOK'
  BY Disjoint DEF IInv, TypeOK, Exclude, objVars, tableVars, loopVars
<1>2. PlacesInv'
  BY Disjoint DEF IInv, TypeOK, PlacesInv, Exclude, objVars, tableVars, loopVars
<1>3. KeysInv'
  BY Disjoint DEF IInv, TypeOK, PlacesInv, KeysInv, TableInv, PhaseInv, At, Pending,
     Exclude, objVars, tableVars, loopVars
<1>4. TableInv'
  BY Disjoint DEF IInv, TypeOK, PlacesInv, KeysInv, TableInv, PhaseInv, At, Pending,
     Exclude, objVars, tableVars, loopVars
<1>5. PhaseInv'
  BY Disjoint DEF IInv, TypeOK, PlacesInv, KeysInv, TableInv, PhaseInv, At, Pending,
     Exclude, objVars, tableVars, loopVars
<1> QED
  BY <1>1, <1>2, <1>3, <1>4, <1>5 DEF IInv

(* GcRecordFree keeps the invariant.                                   *)
LEMMA GcRecordFreeStep ==
  ASSUME IInv, NEW o \in Objects, GcRecordFree(o)
  PROVE  IInv'
PROOF
<1> USE DEF Live, Vacant
<1>1. TypeOK'
  BY Disjoint DEF IInv, TypeOK, GcRecordFree, Except, FreedEntries, objVars, tableVars,
     loopVars
<1>2. PlacesInv'
  BY Disjoint DEF IInv, TypeOK, PlacesInv, GcRecordFree, Except, FreedEntries, objVars,
     tableVars, loopVars
<1>3. KeysInv'
  BY Disjoint DEF IInv, TypeOK, PlacesInv, KeysInv, TableInv, PhaseInv, At, Pending,
     GcRecordFree, Except, FreedEntries, objVars, tableVars, loopVars
<1>4. TableInv'
  BY Disjoint DEF IInv, TypeOK, PlacesInv, KeysInv, TableInv, PhaseInv, At, Pending,
     GcRecordFree, Except, FreedEntries, objVars, tableVars, loopVars
<1>5. PhaseInv'
  BY Disjoint DEF IInv, TypeOK, PlacesInv, KeysInv, TableInv, PhaseInv, At, Pending,
     GcRecordFree, Except, FreedEntries, objVars, tableVars, loopVars
<1> QED
  BY <1>1, <1>2, <1>3, <1>4, <1>5 DEF IInv

(* BeginCreateStubs keeps the invariant.                               *)
LEMMA BeginCreateStubsStep ==
  ASSUME IInv, BeginCreateStubs
  PROVE  IInv'
PROOF
<1> USE DEF Live, Vacant
<1>1. TypeOK'
  BY Disjoint DEF IInv, TypeOK, BeginCreateStubs, objVars, tableVars, loopVars
<1>2. PlacesInv'
  BY Disjoint DEF IInv, TypeOK, PlacesInv, BeginCreateStubs, objVars, tableVars, loopVars
<1>3. KeysInv'
  BY Disjoint DEF IInv, TypeOK, PlacesInv, KeysInv, TableInv, PhaseInv, At, Pending,
     BeginCreateStubs, objVars, tableVars, loopVars
<1>4. TableInv'
  BY Disjoint DEF IInv, TypeOK, PlacesInv, KeysInv, TableInv, PhaseInv, At, Pending,
     BeginCreateStubs, objVars, tableVars, loopVars
<1>5. PhaseInv'
  BY Disjoint DEF IInv, TypeOK, PlacesInv, KeysInv, TableInv, PhaseInv, At, Pending,
     BeginCreateStubs, objVars, tableVars, loopVars
<1> QED
  BY <1>1, <1>2, <1>3, <1>4, <1>5 DEF IInv

(* CreateStub keeps the invariant.                                     *)
LEMMA CreateStubStep ==
  ASSUME IInv, NEW o \in Objects, NEW a \in Addresses, CreateStub(o, a)
  PROVE  IInv'
PROOF
<1> USE DEF Live, Vacant
<1>a. place[o] \in todo /\ o \notin stubs
  BY Disjoint DEF IInv, TypeOK, PlacesInv, PhaseInv, CreateStub, IsNext
<1>b. /\ place[o] \in DOMAIN offsetMap => offsetMap[place[o]] = o
      /\ \A c \in DOMAIN addrTable : addrTable[c] # place[o]
      /\ \A c \in DOMAIN offsetMap : offsetMap[c] = o => c = place[o]
  BY <1>a, Disjoint DEF IInv, TypeOK, PlacesInv, KeysInv, PhaseInv, At, Pending, CreateStub
<1>1. TypeOK'
  BY Disjoint DEF IInv, TypeOK, CreateStub, With, IsNext, objVars, tableVars, loopVars
<1>2. PlacesInv'
  BY <1>a, Disjoint DEF IInv, TypeOK, PlacesInv, CreateStub, With, IsNext, objVars,
     tableVars, loopVars
<1>3. KeysInv'
  BY <1>a, <1>b, Disjoint DEF IInv, TypeOK, PlacesInv, KeysInv, TableInv, PhaseInv, At, Pending,
     CreateStub, With, IsNext, objVars, tableVars, loopVars
<1>4. TableInv'
  BY <1>a, <1>b, Disjoint DEF IInv, TypeOK, PlacesInv, KeysInv, TableInv, PhaseInv, At, Pending,
     CreateStub, With, IsNext, objVars, tableVars, loopVars
<1>5. PhaseInv'
  <2>1. /\ DOMAIN addrTable' = DOMAIN addrTable \cup {place[o]}
        /\ todo' = todo \ {place[o]} /\ phase = "create" /\ phase' = "create"
        /\ stubs' = stubs \cup {o} /\ rtes' = rtes \cup {o}
        /\ UNCHANGED <<leaked, offsetMap, createStubSet, removeSet, space>>
    BY DEF CreateStub, With
  <2>2. \A c \in createStubSet' \ DOMAIN addrTable' :
          \E q \in Objects : place'[q] = c /\ q \notin stubs'
    BY <1>a, <2>1 DEF IInv, TypeOK, PhaseInv, CreateStub
  <2>4. \A c \in DOMAIN addrTable' : \E q \in stubs' : place'[q] = addrTable'[c]
    BY <1>a, <2>1 DEF IInv, TypeOK, PhaseInv, CreateStub, With
  <2>3. \A c \in DOMAIN addrTable' : \A d \in todo' : c < d
    <3>1. \A d \in todo' : place[o] < d
      <4>1. todo \subseteq Nat
        BY AddressAssumption DEF IInv, TypeOK
      <4>2. \A d \in todo : place[o] <= d
        BY DEF CreateStub, IsNext
      <4>3. ASSUME NEW d \in todo' PROVE place[o] < d
        <5>1. d \in Nat /\ place[o] \in Nat /\ d # place[o] /\ place[o] <= d
          BY <1>a, <2>1, <4>1, <4>2
        <5> HIDE <1>a, <2>1, <4>1, <4>2
        <5> QED
          BY <5>1
      <4> QED
        BY <4>3
    <3> QED
      BY <2>1, <3>1 DEF IInv, PhaseInv
  <2> QED
    BY <2>1, <2>2, <2>3, <2>4 DEF IInv, PhaseInv
<1> QED
  BY <1>1, <1>2, <1>3, <1>4, <1>5 DEF IInv

(* BeginReplaceStubs keeps the invariant.                              *)
LEMMA BeginReplaceStubsStep ==
  ASSUME IInv, BeginReplaceStubs
  PROVE  IInv'
PROOF
<1> USE DEF Live, Vacant
<1>1. TypeOK'
  BY Disjoint DEF IInv, TypeOK, BeginReplaceStubs, objVars, tableVars, loopVars
<1>2. PlacesInv'
  BY Disjoint DEF IInv, TypeOK, PlacesInv, BeginReplaceStubs, objVars, tableVars, loopVars
<1>3. KeysInv'
  BY Disjoint DEF IInv, TypeOK, PlacesInv, KeysInv, TableInv, PhaseInv, At, Pending,
     BeginReplaceStubs, objVars, tableVars, loopVars
<1>4. TableInv'
  BY Disjoint DEF IInv, TypeOK, PlacesInv, KeysInv, TableInv, PhaseInv, At, Pending,
     BeginReplaceStubs, objVars, tableVars, loopVars
<1>5. PhaseInv'
  BY Disjoint DEF IInv, TypeOK, PlacesInv, KeysInv, TableInv, PhaseInv, At, Pending,
     BeginReplaceStubs, objVars, tableVars, loopVars
<1> QED
  BY <1>1, <1>2, <1>3, <1>4, <1>5 DEF IInv

(* ReplacePointer keeps the invariant.                                 *)
LEMMA ReplacePointerStep ==
  ASSUME IInv, NEW a \in Addresses, ReplacePointer(a)
  PROVE  IInv'
PROOF
<1> USE DEF Live, Vacant
<1> DEFINE b == addrTable[a]
<1>a. a \in todo /\ Pending = todo /\ a \in DOMAIN addrTable
  BY DEF IInv, TableInv, Pending, ReplacePointer, IsNext
<1>b. b \in Addresses /\ b \notin removeSet
  BY <1>a, Disjoint DEF IInv, TypeOK, PhaseInv, ReplacePointer
<1>c. /\ todo' = todo \ {a} /\ Pending' = todo \ {a}
      /\ UNCHANGED <<place, written, stubs, rtes, leaked, removeSet, addrTable>>
      /\ UNCHANGED <<writeSet, createStubSet, stubRTEMap, space, phase>>
  BY <1>a DEF ReplacePointer, objVars, Pending
<1>d. TableInv'
  BY <1>a, <1>c DEF IInv, TableInv
<1>1. CASE a \notin DOMAIN offsetMap
  <2>1. offsetMap' = offsetMap
    BY <1>1 DEF ReplacePointer, RenameKey
  <2>2. TypeOK' /\ PlacesInv'
    BY <1>c, <2>1 DEF IInv, TypeOK, PlacesInv
  <2>3. KeysInv'
    BY <1>1, <1>a, <1>c, <2>1 DEF IInv, KeysInv, At
  <2>4. PhaseInv'
    BY <1>c, <2>1 DEF IInv, PhaseInv, ReplacePointer, FreedEntries
  <2> QED
    BY <1>d, <2>2, <2>3, <2>4 DEF IInv
<1>2. CASE a \in DOMAIN offsetMap
  <2>1. a \notin removeSet /\ offsetMap[a] \in Objects /\ place[offsetMap[a]] = b
    BY <1>2, <1>a DEF IInv, TypeOK, KeysInv, TableInv, At
  <2>2. b \notin DOMAIN offsetMap /\ b \notin todo
    <3>1. ASSUME b \in todo PROVE FALSE
      BY <1>a, <3>1, AddressAssumption DEF IInv, TypeOK, TableInv, ReplacePointer, IsNext
    <3>2. ASSUME b \in DOMAIN offsetMap, b \notin todo PROVE FALSE
      BY <1>2, <1>a, <1>b, <2>1, <3>2, Disjoint DEF IInv, TypeOK, KeysInv, PlacesInv, At
    <3> QED
      BY <3>1, <3>2
  <2>3. /\ DOMAIN offsetMap' = (DOMAIN offsetMap \cup {b}) \ {a} /\ a # b
        /\ offsetMap'[b] = offsetMap[a]
        /\ \A c \in DOMAIN offsetMap \ {a} : offsetMap'[c] = offsetMap[c]
    BY <1>2, <2>2 DEF ReplacePointer, RenameKey, With, Except
  <2> HIDE DEF b
  <2>4. TypeOK'
    BY <1>2, <1>a, <1>b, <1>c, <2>3 DEF IInv, TypeOK
  <2>5. PlacesInv'
    BY <1>c DEF IInv, PlacesInv
  <2>6. KeysInv'
    <3>1. \A c \in DOMAIN offsetMap' \ removeSet' :
            offsetMap'[c] \in written' /\ place'[offsetMap'[c]] = At(c)'
      BY <1>2, <1>a, <1>c, <2>1, <2>2, <2>3 DEF IInv, KeysInv, TableInv, At
    <3>2. \A o \in written' : \E c \in DOMAIN offsetMap' \ removeSet' : offsetMap'[c] = o
      BY <1>2, <1>b, <1>c, <2>3 DEF IInv, KeysInv
    <3>3. \A c, d \in DOMAIN offsetMap' : offsetMap'[c] = offsetMap'[d] => c = d
      BY <1>2, <2>2, <2>3 DEF IInv, KeysInv
    <3> QED
      BY <3>1, <3>2, <3>3 DEF KeysInv
  <2>7. phase # "replaceMoved" => b \in RosAlloc[space] \cup Los
    BY <1>b, <2>1, Disjoint DEF IInv, PlacesInv, PhaseInv, ReplacePointer
  <2>8. PhaseInv'
    BY <1>c, <2>3, <2>7 DEF IInv, PhaseInv, ReplacePointer, FreedEntries
  <2> QED
    BY <1>d, <2>4, <2>5, <2>6, <2>8 DEF IInv
<1> QED
  BY <1>1, <1>2

(* RecordStubMappings keeps the invariant.                             *)
LEMMA RecordStubMappingsStep ==
  ASSUME IInv, RecordStubMappings
  PROVE  IInv'
PROOF
<1> USE DEF Live, Vacant
<1>1. TypeOK'
  BY Disjoint DEF IInv, TypeOK, RecordStubMappings, Empty, objVars, tableVars, loopVars
<1>2. PlacesInv'
  BY Disjoint DEF IInv, TypeOK, PlacesInv, RecordStubMappings, Empty, objVars, tableVars,
     loopVars
<1>3. KeysInv'
  BY Disjoint DEF IInv, TypeOK, PlacesInv, KeysInv, TableInv, PhaseInv, At, Pending,
     RecordStubMappings, Empty, objVars, tableVars, loopVars
<1>4. TableInv'
  BY Disjoint DEF IInv, TypeOK, PlacesInv, KeysInv, TableInv, PhaseInv, At, Pending,
     RecordStubMappings, Empty, objVars, tableVars, loopVars
<1>5. PhaseInv'
  BY Disjoint DEF IInv, TypeOK, PlacesInv, KeysInv, TableInv, PhaseInv, At, Pending,
     RecordStubMappings, Empty, objVars, tableVars, loopVars
<1> QED
  BY <1>1, <1>2, <1>3, <1>4, <1>5 DEF IInv

(* Forward keeps the invariant.                                        *)
LEMMA ForwardStep ==
  ASSUME IInv, NEW o \in Objects, NEW a \in Addresses, Forward(o, a)
  PROVE  IInv'
PROOF
<1> USE DEF Live, Vacant
<1>1. TypeOK'
  BY Disjoint DEF IInv, TypeOK, Forward, Records, With, objVars, tableVars, loopVars
<1>2. PlacesInv'
  BY Disjoint DEF IInv, TypeOK, PlacesInv, Forward, Records, With, objVars, tableVars,
     loopVars
<1>3. KeysInv'
  BY Disjoint DEF IInv, TypeOK, PlacesInv, KeysInv, TableInv, PhaseInv, At, Pending,
     Forward, Records, With, objVars, tableVars, loopVars
<1>4. TableInv'
  BY Disjoint DEF IInv, TypeOK, PlacesInv, KeysInv, TableInv, PhaseInv, At, Pending,
     Forward, Records, With, objVars, tableVars, loopVars
<1>5. PhaseInv'
  BY Disjoint DEF IInv, TypeOK, PlacesInv, KeysInv, TableInv, PhaseInv, At, Pending,
     Forward, Records, With, objVars, tableVars, loopVars
<1> QED
  BY <1>1, <1>2, <1>3, <1>4, <1>5 DEF IInv

(* BeginReplaceMoved keeps the invariant.                              *)
LEMMA BeginReplaceMovedStep ==
  ASSUME IInv, BeginReplaceMoved
  PROVE  IInv'
PROOF
<1> USE DEF Live, Vacant
<1>1. TypeOK'
  BY Disjoint DEF IInv, TypeOK, BeginReplaceMoved, FreedEntries, objVars, tableVars,
     loopVars
<1>2. PlacesInv'
  BY Disjoint DEF IInv, TypeOK, PlacesInv, BeginReplaceMoved, FreedEntries, objVars,
     tableVars, loopVars
<1>3. KeysInv'
  BY Disjoint DEF IInv, TypeOK, PlacesInv, KeysInv, TableInv, PhaseInv, At, Pending,
     BeginReplaceMoved, FreedEntries, objVars, tableVars, loopVars
<1>4. TableInv'
  BY Disjoint DEF IInv, TypeOK, PlacesInv, KeysInv, TableInv, PhaseInv, At, Pending,
     BeginReplaceMoved, FreedEntries, objVars, tableVars, loopVars
<1>5. PhaseInv'
  BY Disjoint DEF IInv, TypeOK, PlacesInv, KeysInv, TableInv, PhaseInv, At, Pending,
     BeginReplaceMoved, FreedEntries, objVars, tableVars, loopVars
<1> QED
  BY <1>1, <1>2, <1>3, <1>4, <1>5 DEF IInv

(* EndReplaceMoved keeps the invariant.                                *)
LEMMA EndReplaceMovedStep ==
  ASSUME IInv, EndReplaceMoved
  PROVE  IInv'
PROOF
<1> USE DEF Live, Vacant
<1>1. TypeOK'
  BY Disjoint DEF IInv, TypeOK, EndReplaceMoved, Except, Empty, FreedEntries, objVars,
     tableVars, loopVars
<1>2. PlacesInv'
  BY Disjoint DEF IInv, TypeOK, PlacesInv, EndReplaceMoved, Except, Empty, FreedEntries,
     objVars, tableVars, loopVars
<1>3. KeysInv'
  BY Disjoint DEF IInv, TypeOK, PlacesInv, KeysInv, TableInv, PhaseInv, At, Pending,
     EndReplaceMoved, Except, Empty, FreedEntries, objVars, tableVars, loopVars
<1>4. TableInv'
  BY Disjoint DEF IInv, TypeOK, PlacesInv, KeysInv, TableInv, PhaseInv, At, Pending,
     EndReplaceMoved, Except, Empty, FreedEntries, objVars, tableVars, loopVars
<1>5. PhaseInv'
  BY Disjoint DEF IInv, TypeOK, PlacesInv, KeysInv, TableInv, PhaseInv, At, Pending,
     EndReplaceMoved, Except, Empty, FreedEntries, objVars, tableVars, loopVars
<1> QED
  BY <1>1, <1>2, <1>3, <1>4, <1>5 DEF IInv
-----------------------------------------------------------------------------
(* Every reachable state satisfies the inductive invariant.                *)
THEOREM Invariance == Spec => []IInv
PROOF
<1>1. Init => IInv
  BY AddressAssumption DEF Init, Empty, IInv, TypeOK, PlacesInv, KeysInv, TableInv,
     PhaseInv,
     At, Pending, Live
<1>2. ASSUME IInv, [Next]_vars PROVE IInv'
  <2>1. CASE UNCHANGED vars
    BY <1>2, <2>1 DEF IInv, TypeOK, PlacesInv, KeysInv, TableInv, PhaseInv, At, Pending,
       Live, Vacant, FreedEntries, vars, objVars, tableVars, loopVars
  <2>2. CASE Next
    BY <1>2, <2>2, AllocateStep, CheckAndUpdateStep, WriteToSwapFileStep, ExcludeStep,
       GcRecordFreeStep,
       BeginCreateStubsStep, CreateStubStep, BeginReplaceStubsStep, ReplacePointerStep,
       RecordStubMappingsStep, ForwardStep, BeginReplaceMovedStep, EndReplaceMovedStep
    DEF Next
  <2> QED
    BY <1>2, <2>1, <2>2
<1> QED
  BY <1>1, <1>2, PTL DEF Spec

(* replaceDataStructurePointers keeps every snapshot with its object: for  *)
(* every heap and address layout, between pauses the keys of the maps are  *)
(* the addresses of the objects that have an entry, each with its own.     *)
THEOREM KeysFollow == Spec => []KeysFollowObjects
PROOF
<1>1. IInv => KeysFollowObjects
  <2> SUFFICES ASSUME IInv, phase = "run" PROVE KeysFollowObjects
    BY DEF KeysFollowObjects
  <2>1. removeSet = {} /\ \A a : At(a) = a
    BY DEF IInv, PhaseInv, At, Pending
  <2>2. \A a \in DOMAIN offsetMap : offsetMap[a] \in written /\ place[offsetMap[a]] = a
    BY <2>1 DEF IInv, KeysInv
  <2>3. \A o \in written : place[o] \in DOMAIN offsetMap /\ offsetMap[place[o]] = o
    BY <2>1, <2>2 DEF IInv, KeysInv
  <2>4. DOMAIN offsetMap = {place[o] : o \in written}
    BY <2>2, <2>3
  <2> QED
    BY <2>3, <2>4 DEF KeysFollowObjects
<1> QED
  BY <1>1, Invariance, PTL

(* The clean-up after a semi-space collection, and GcRecordFree, release   *)
(* the table entries of dead stubs and of no others.                       *)
THEOREM EntriesFollow == Spec => []EntriesFollowStubs
PROOF
<1>1. IInv => EntriesFollowStubs
  BY DEF IInv, PhaseInv, EntriesFollowStubs
<1> QED
  BY <1>1, Invariance, PTL

(* Whatever the collector moves or frees, every key of the maps and every  *)
(* address they lead to is one of the heap's: a failed lookup never gets   *)
(* into a map.                                                             *)
THEOREM TypeCorrect == Spec => []TypeOK
PROOF
<1>1. IInv => TypeOK
  BY DEF IInv
<1> QED
  BY <1>1, Invariance, PTL

=============================================================================
