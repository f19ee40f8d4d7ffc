------------------------------ MODULE Remapping -----------------------------
(***************************************************************************)
(* How the swap file's maps follow objects whose addresses change          *)
(* (runtime/marvin_swap.cc).  The keys of objectOffsetMap are addresses.   *)
(* PerformHomogeneousSpaceCompact changes them twice in one pause:         *)
(* CreateStubs moves the key of a candidate to its stub, and the           *)
(* semi-space collector moves everything in the RosAlloc space to the      *)
(* other RosAlloc space.  Both collect old and new addresses in a table,   *)
(* which replaceDataStructurePointers goes through in address order.       *)
(*                                                                         *)
(* An object is its place: the address of the object or of its stub.       *)
(* objectSizeMap changes with objectOffsetMap and is left out, as is the   *)
(* order of writeQueue, which has the members of writeSet.  A collection   *)
(* beside the WriteTask is in Swap and SwapFile; here it comes between two *)
(* writes.                                                                 *)
(***************************************************************************)
EXTENDS Naturals

CONSTANTS
  Objects,
  RosAlloc,   \* the addresses of the two RosAlloc spaces
  Los,        \* the addresses of the large object space
  Nowhere     \* the place of an object that does not exist

Addresses == RosAlloc[0] \cup RosAlloc[1] \cup Los

ASSUME AddressAssumption ==
  /\ Addresses \subseteq Nat /\ Nowhere \notin Nat
  /\ RosAlloc[0] \cap RosAlloc[1] = {}
  /\ (RosAlloc[0] \cup RosAlloc[1]) \cap Los = {}

VARIABLES
  place,         \* where each object, or its stub, is
  stubs,         \* objects that have a stub
  rtes,          \* objects with an occupied reclamation table entry
  written,       \* history: objects that have been given an entry of the maps
  leaked,        \* history: dead stubs whose table entries nobody freed
  offsetMap,     \* objectOffsetMap: from addresses to whose entry it is
  writeSet,      \* addresses of objects and stubs to be written
  createStubSet, \* addresses of candidates
  addrTable,     \* remappingTable, then semiSpaceRemappingTable
  todo,          \* addresses that the loop at hand has not come to
  removeSet, stubRTEMap,
  space,         \* the RosAlloc space in use
  phase

objVars   == <<place, stubs, rtes, written, leaked>>
tableVars == <<offsetMap, writeSet, createStubSet, addrTable>>
loopVars  == <<todo, removeSet, stubRTEMap, space, phase>>
vars == <<objVars, tableVars, loopVars>>

Empty == [a \in {} |-> Nowhere]
With(f, x, y) == [z \in DOMAIN f \cup {x} |-> IF z = x THEN y ELSE f[z]]
Except(f, xs) == [z \in DOMAIN f \ xs |-> f[z]]

Live(o) == place[o] # Nowhere
Vacant(a) == \A o \in Objects : place[o] # a
(* The loops go through std::set and std::map in address order.            *)
IsNext(a) == a \in todo /\ \A b \in todo : a <= b

Init ==
  /\ place = [o \in Objects |-> Nowhere] /\ stubs = {} /\ rtes = {} /\ written = {}
  /\ leaked = {} /\ offsetMap = Empty /\ writeSet = {} /\ createStubSet = {} /\ addrTable = Empty
  /\ todo = {} /\ removeSet = {} /\ stubRTEMap = Empty
  /\ space = 0 /\ phase = "run"

-----------------------------------------------------------------------------
(* Between pauses.                                                         *)

(* An object whose table entry has leaked keeps its name.                  *)
Allocate(o, a) ==
  /\ phase = "run" /\ ~Live(o) /\ o \notin leaked
  /\ Vacant(a) /\ a \in RosAlloc[space] \cup Los
  /\ place' = [place EXCEPT ![o] = a]
  /\ UNCHANGED <<stubs, rtes, written, leaked, tableVars, loopVars>>

(* Mutant: an object that has been freed is checked as well.               *)
CheckFreed(o) ==
  /\ phase = "run"
  /\ createStubSet' = IF o \in stubs THEN createStubSet ELSE createStubSet \cup {place[o]}
  /\ UNCHANGED <<objVars, offsetMap, writeSet, addrTable, loopVars>>
(* A cold object without a stub becomes a candidate.  A dirty one, or the  *)
(* stub of a dirty one, is to be written.                                  *)
CheckAndUpdate(o) ==
  /\ phase = "run" /\ Live(o)
  /\ createStubSet' = IF o \in stubs THEN createStubSet ELSE createStubSet \cup {place[o]}
  /\ \E dirty \in BOOLEAN :
       writeSet' = IF dirty THEN writeSet \cup {place[o]} ELSE writeSet
  /\ UNCHANGED <<objVars, offsetMap, addrTable, loopVars>>

(* The WriteTask takes an object and writes it, unless its NoSwapFlag has  *)
(* been set.  If it has no entry in the maps it gets one, which for a stub *)
(* is the empty entry that operator[] makes.                               *)
WriteToSwapFile(a) ==
  /\ phase = "run" /\ a \in writeSet /\ writeSet' = writeSet \ {a}
  /\ \/ \E o \in Objects :
          /\ place[o] = a
          /\ offsetMap' = With(offsetMap, a, o) /\ written' = written \cup {o}
     \/ UNCHANGED <<offsetMap, written>>
  /\ UNCHANGED <<place, stubs, rtes, leaked, createStubSet, addrTable, loopVars>>

(* CreateStubs skips a candidate whose NoSwapFlag has been set.  It stays  *)
(* a key if it was written.                                                *)
Exclude(a) ==
  /\ phase = "run" /\ a \in createStubSet
  /\ createStubSet' = createStubSet \ {a}
  /\ UNCHANGED <<objVars, offsetMap, writeSet, addrTable, loopVars>>

(* GcRecordFree, in a mark-sweep collection or, for a large object, in the *)
(* semi-space collection.                                                  *)
GcRecordFree(o) ==
  /\ Live(o)
  /\ \/ phase = "run"
     \/ phase = "forward" /\ place[o] \in Los
  /\ offsetMap' = Except(offsetMap, {place[o]})
  /\ writeSet' = writeSet \ {place[o]} /\ createStubSet' = createStubSet \ {place[o]}
  /\ place' = [place EXCEPT ![o] = Nowhere]
  /\ stubs' = stubs \ {o} /\ rtes' = rtes \ {o} /\ written' = written \ {o}
  /\ UNCHANGED <<leaked, addrTable, loopVars>>

-----------------------------------------------------------------------------
(* CreateStubs.                                                            *)

BeginCreateStubs ==
  /\ phase = "run" /\ phase' = "create" /\ todo' = createStubSet
  /\ UNCHANGED <<objVars, tableVars, removeSet, stubRTEMap, space>>

(* One round of the loop: the stub is allocated before the object is       *)
(* freed, but maybe where an earlier one was.                              *)
CreateStub(o, s) ==
  /\ phase = "create" /\ IsNext(place[o]) /\ Vacant(s) /\ s \in RosAlloc[space]
  /\ addrTable' = With(addrTable, place[o], s)
  /\ place' = [place EXCEPT ![o] = s]
  /\ stubs' = stubs \cup {o} /\ rtes' = rtes \cup {o}
  /\ todo' = todo \ {place[o]}
  /\ UNCHANGED <<written, leaked, offsetMap, writeSet, createStubSet>>
  /\ UNCHANGED <<removeSet, stubRTEMap, space, phase>>

BeginReplaceStubs ==
  /\ phase = "create" /\ todo = {}
  /\ phase' = "replace" /\ todo' = DOMAIN addrTable
  /\ UNCHANGED <<objVars, tableVars, removeSet, stubRTEMap, space>>

-----------------------------------------------------------------------------
(* replaceDataStructurePointers.                                           *)

(* Mutant: the old key is not erased.                                      *)
CopyKey(a, b) ==
  IF a \in DOMAIN offsetMap THEN With(offsetMap, b, offsetMap[a]) ELSE offsetMap
RenameKey(a, b) ==
  IF a \in DOMAIN offsetMap THEN Except(With(offsetMap, b, offsetMap[a]), {a}) ELSE offsetMap

(* One round of the loop.  The new address may itself be an old one, of a  *)
(* candidate freed before the stub was allocated.                          *)
ReplacePointer(a) ==
  /\ phase \in {"replace", "replaceMoved"} /\ IsNext(a)
  /\ offsetMap' = RenameKey(a, addrTable[a])
  /\ todo' = todo \ {a}
  /\ UNCHANGED <<objVars, writeSet, createStubSet, addrTable>>
  /\ UNCHANGED <<removeSet, stubRTEMap, space, phase>>

(* The end of CreateStubs, which forgets what was to be written, and       *)
(* SemiSpaceRecordStubMappings: the stubs among the keys, with their table *)
(* entries.                                                                *)
RecordStubMappings ==
  /\ phase = "replace" /\ todo = {}
  /\ addrTable' = Empty /\ createStubSet' = {} /\ writeSet' = {}
  /\ stubRTEMap' = [a \in {place[o] : o \in stubs} \cap DOMAIN offsetMap |->
                      CHOOSE o \in stubs : place[o] = a]
  /\ phase' = "forward"
  /\ UNCHANGED <<objVars, offsetMap, todo, removeSet, space>>

-----------------------------------------------------------------------------
(* The semi-space collection.                                              *)

(* RecordForwardedObject looks the address up in the map.                  *)
Records(o) == place[o] \in DOMAIN offsetMap

Forward(o, n) ==
  /\ phase = "forward" /\ place[o] \in RosAlloc[space]
  /\ n \in RosAlloc[1 - space] /\ Vacant(n)
  /\ addrTable' = IF Records(o) THEN With(addrTable, place[o], n) ELSE addrTable
  /\ place' = [place EXCEPT ![o] = n]
  /\ UNCHANGED <<stubs, rtes, written, leaked, offsetMap, writeSet, createStubSet>>
  /\ UNCHANGED loopVars

(* What was not forwarded is gone.  SemiSpaceUpdateDataStructures begins:  *)
(* the keys to remove are those without a new address.                     *)
BeginReplaceMoved ==
  /\ phase = "forward" /\ phase' = "replaceMoved"
  /\ LET dead == {o \in Objects : place[o] \in RosAlloc[space]}
     IN /\ place' = [o \in Objects |-> IF o \in dead THEN Nowhere ELSE place[o]]
        /\ stubs' = stubs \ dead /\ written' = written \ dead
        /\ leaked' = leaked \cup {o \in dead \cap stubs : place[o] \notin DOMAIN offsetMap}
  /\ removeSet' = DOMAIN offsetMap \ (DOMAIN addrTable \cup Los)
  /\ todo' = DOMAIN addrTable
  /\ space' = 1 - space
  /\ UNCHANGED <<rtes, tableVars, stubRTEMap>>

(* Mutant: entries are freed by the stubs' new addresses.                  *)
FreedByNewAddress == {stubRTEMap[a] : a \in DOMAIN stubRTEMap \
                                             {addrTable[b] : b \in DOMAIN addrTable}}
(* The entries of the stubs that were not forwarded.                       *)
FreedEntries == {stubRTEMap[a] : a \in DOMAIN stubRTEMap \ DOMAIN addrTable}

EndReplaceMoved ==
  /\ phase = "replaceMoved" /\ todo = {}
  /\ offsetMap' = Except(offsetMap, removeSet)
  /\ rtes' = rtes \ FreedEntries
  /\ removeSet' = {} /\ stubRTEMap' = Empty /\ addrTable' = Empty
  /\ phase' = "run"
  /\ UNCHANGED <<place, stubs, written, leaked, writeSet, createStubSet, todo, space>>

-----------------------------------------------------------------------------
Next ==
  \/ \E o \in Objects :
       \/ CheckAndUpdate(o) \/ GcRecordFree(o)
       \/ \E a \in Addresses : Allocate(o, a) \/ CreateStub(o, a) \/ Forward(o, a)
  \/ \E a \in Addresses : WriteToSwapFile(a) \/ Exclude(a) \/ ReplacePointer(a)
  \/ BeginCreateStubs \/ BeginReplaceStubs \/ RecordStubMappings
  \/ BeginReplaceMoved \/ EndReplaceMoved

Spec == Init /\ [][Next]_vars

-----------------------------------------------------------------------------
(* Types of the places, the map and the tables.                            *)
TypeOK ==
  /\ place \in [Objects -> Addresses \cup {Nowhere}]
  /\ stubs \subseteq Objects /\ rtes \subseteq Objects /\ written \subseteq Objects
  /\ leaked \subseteq Objects
  /\ DOMAIN offsetMap \subseteq Addresses
  /\ \A a \in DOMAIN offsetMap : offsetMap[a] \in Objects
  /\ writeSet \subseteq Addresses /\ createStubSet \subseteq Addresses
  /\ DOMAIN addrTable \subseteq Addresses
  /\ \A a \in DOMAIN addrTable : addrTable[a] \in Addresses
  /\ todo \subseteq Addresses /\ removeSet \subseteq Addresses
  /\ DOMAIN stubRTEMap \subseteq Addresses
  /\ \A a \in DOMAIN stubRTEMap : stubRTEMap[a] \in Objects
  /\ space \in {0, 1}
  /\ phase \in {"run", "create", "replace", "forward", "replaceMoved"}

(* Between pauses the keys of the maps are the addresses of the objects    *)
(* and stubs that have an entry, each with its own, however often both     *)
(* kinds of moves have renamed them.  A stub may take the address of a     *)
(* candidate freed a moment before, so that its new key is another's old   *)
(* one; that no snapshot is lost then rests on the two loops going through *)
(* the addresses in the same order.                                        *)
KeysFollowObjects ==
  phase = "run" =>
    /\ DOMAIN offsetMap = {place[o] : o \in written}
    /\ \A o \in written : offsetMap[place[o]] = o

(* Between pauses the occupied table entries are those of the live stubs   *)
(* and of the stubs that were no key of the maps when they died in a       *)
(* semi-space collection.  SemiSpaceRecordStubMappings assumes that every  *)
(* stub is a key; a stub made before its object was written is none, and   *)
(* its entry leaks.  No other entry leaks, and none is freed under a live  *)
(* stub.                                                                   *)
EntriesFollowStubs == phase = "run" => rtes = stubs \cup leaked

=============================================================================
