------------------------------ MODULE StubRefs ------------------------------
(***************************************************************************)
(* The references of one object that has a stub.  They exist twice: in the *)
(* object's copy in swappedInSpace, which the app reads and writes while   *)
(* it is resident, and in the stub, which is all that the mark-sweep       *)
(* collector scans and what swap-in copies back over the snapshot          *)
(* (runtime/marvin_stub.cc, mirror/object-inl.h, the arm64 code generator  *)
(* and the two collectors).                                                *)
(*                                                                         *)
(* A store on an app thread writes the object, then lets PopulateFrom      *)
(* clear and refill the stub, then marks the stub's card.  The collector's *)
(* concurrent marking reads the stub meanwhile.                            *)
(***************************************************************************)
EXTENDS Naturals

CONSTANTS
  Fields,    \* reference fields of the object
  Targets,   \* objects its fields may refer to
  Threads,   \* app threads
  Null

ASSUME NullAssumption == Null \notin Targets \X {0, 1}

VARIABLES
  obj,               \* the references in the object's copy, if resident
  stub, stubFlag,    \* the references in the stub, and its stub flag
  resident, dirty,
  addr, freed,       \* where each target is; targets the collector has freed
  roots,             \* targets held by threads or other live objects
  pc, val, left, cur, seen,  \* app threads in a reference store or swapping in
  gpc, unscanned, marked,    \* the concurrent mark-sweep collector
  card,              \* the stub's card is dirty
  mishap             \* history: the race met so far

objVars    == <<obj, resident, dirty>>
stubVars   == <<stub, stubFlag>>
heapVars   == <<addr, freed, roots>>
threadVars == <<pc, val, left, cur, seen>>
gcVars     == <<gpc, unscanned, marked, card>>
vars == <<objVars, stubVars, heapVars, threadVars, gcVars, mishap>>

Refs == Targets \X {0, 1} \cup {Null}
Ref(x) == <<x, addr[x]>>
Target(r) == r[1]
TargetsOf(refs) == {Target(r) : r \in {refs[f] : f \in Fields} \ {Null}}
NoRefs == [f \in Fields |-> Null]

(* No thread is in a store or swapping in.  Neither has a suspend point,   *)
(* so the world stops only then.                                           *)
Quiet == \A t \in Threads : pc[t] = "idle"
SwappingIn(t) == pc[t] \in {"swapin", "restored"}
Storing(t) == pc[t] \in {"stored", "unflagged", "copy", "put"}

(* Bound: one race in a behaviour.                                         *)
Mishap(m) == mishap = "none" /\ mishap' = m
MishapIf(c, m) == IF c THEN Mishap(m) ELSE UNCHANGED mishap

Init ==
  /\ obj = NoRefs /\ stub = NoRefs /\ stubFlag = TRUE /\ resident = TRUE /\ dirty = FALSE
  /\ addr = [x \in Targets |-> 0] /\ freed = Targets /\ roots = {}
  /\ pc = [t \in Threads |-> "idle"] /\ val = [t \in Threads |-> Null]
  /\ left = [t \in Threads |-> {}] /\ cur = [t \in Threads |-> Null]
  /\ seen = [t \in Threads |-> Null]
  /\ gpc = "idle" /\ unscanned = {} /\ marked = {} /\ card = FALSE
  /\ mishap = "none"

-----------------------------------------------------------------------------
(* The rest of the app: targets are allocated (and live until the next     *)
(* collection), loaded from the object and forgotten.                      *)

Allocate(x) ==
  /\ x \in freed
  /\ freed' = freed \ {x} /\ roots' = roots \cup {x}
  /\ marked' = IF gpc # "idle" THEN marked \cup {x} ELSE marked
  /\ UNCHANGED <<objVars, stubVars, addr, threadVars, gpc, unscanned, card, mishap>>

Forget(x) ==
  /\ x \in roots /\ roots' = roots \ {x}
  /\ UNCHANGED <<objVars, stubVars, addr, freed, threadVars, gcVars, mishap>>

(* A read.                                                                 *)
Load(f) ==
  /\ stubFlag /\ resident
  /\ roots' = IF obj[f] = Null THEN roots ELSE roots \cup {Target(obj[f])}
  /\ UNCHANGED <<objVars, stubVars, addr, freed, threadVars, gcVars, mishap>>

-----------------------------------------------------------------------------
(* Swapping in.                                                            *)

(* An access finds the resident bit clear.  The entry's lock is a counter, *)
(* so that several threads may.  swapInObject CHECKs the bit once more: a  *)
(* thread that finds it set then ends the process.                         *)
SwapInOnDemand(t) ==
  /\ pc[t] = "idle" /\ stubFlag /\ ~resident
  /\ pc' = [pc EXCEPT ![t] = "swapin"]
  /\ MishapIf(\E u \in Threads : SwappingIn(u), "doubled")
  /\ UNCHANGED <<objVars, stubVars, heapVars, val, left, cur, seen, gcVars>>

(* CopyRefsInto puts the stub's references over the snapshot's, which      *)
(* makes the object dirty if one of them was out of date.                  *)
CopyRefsInto == obj' = stub /\ dirty' \in BOOLEAN

(* swapInObject reads the snapshot over the object, whether or not the     *)
(* object is resident by now.                                              *)
SwapInObject(t) ==
  /\ pc[t] = "swapin"
  /\ CopyRefsInto
  /\ pc' = [pc EXCEPT ![t] = "restored"]
  /\ UNCHANGED <<resident, stubVars, heapVars, val, left, cur, seen, gcVars, mishap>>

SetResidentBit(t) ==
  /\ pc[t] = "restored"
  /\ resident' = TRUE
  /\ pc' = [pc EXCEPT ![t] = "idle"]
  /\ UNCHANGED <<obj, dirty, stubVars, heapVars, val, left, cur, seen, gcVars, mishap>>

(* The same with all threads suspended.                                    *)
SwapObjectsIn ==
  /\ Quiet /\ ~resident
  /\ CopyRefsInto /\ resident' = TRUE
  /\ UNCHANGED <<stubVars, heapVars, threadVars, gcVars, mishap>>

-----------------------------------------------------------------------------
(* A reference store: HandleFieldSet, GenerateUpdateStub, PopulateFrom.    *)

(* The store itself.  Compiled code unlocks the entry here and locks it    *)
(* again for PopulateStub.                                                 *)
Store(t, f, v) ==
  /\ pc[t] = "idle" /\ stubFlag /\ resident
  /\ obj' = [obj EXCEPT ![f] = v] /\ dirty' = TRUE
  /\ pc' = [pc EXCEPT ![t] = "stored"] /\ val' = [val EXCEPT ![t] = v]
  /\ MishapIf(\E u \in Threads : Storing(u), "overlap")
  /\ UNCHANGED <<resident, stubVars, heapVars, left, cur, seen, gcVars>>

(* PopulateFrom clears the flags and sets the stub flag again, then clears *)
(* every reference ...                                                     *)
ClearFlags(t) ==
  /\ pc[t] = "stored"
  /\ stubFlag' = FALSE
  /\ pc' = [pc EXCEPT ![t] = "unflagged"]
  /\ UNCHANGED <<objVars, stub, heapVars, val, left, cur, seen, gcVars, mishap>>

PopulateClear(t) ==
  /\ pc[t] = "unflagged"
  /\ stubFlag' = TRUE /\ stub' = NoRefs
  /\ pc' = [pc EXCEPT ![t] = "copy"] /\ left' = [left EXCEPT ![t] = Fields]
  /\ UNCHANGED <<objVars, heapVars, val, cur, seen, gcVars, mishap>>

(* ... and copies them from the object, one after the other.               *)
PopulateRead(t, f) ==
  /\ pc[t] = "copy" /\ f \in left[t]
  /\ cur' = [cur EXCEPT ![t] = f] /\ seen' = [seen EXCEPT ![t] = obj[f]]
  /\ left' = [left EXCEPT ![t] = @ \ {f}]
  /\ pc' = [pc EXCEPT ![t] = "put"]
  /\ UNCHANGED <<objVars, stubVars, heapVars, val, gcVars, mishap>>

PopulateWrite(t) ==
  /\ pc[t] = "put"
  /\ stub' = [stub EXCEPT ![cur[t]] = seen[t]]
  /\ pc' = [pc EXCEPT ![t] = "copy"]
  /\ cur' = [cur EXCEPT ![t] = Null] /\ seen' = [seen EXCEPT ![t] = Null]
  /\ UNCHANGED <<objVars, stubFlag, heapVars, val, left, gcVars, mishap>>

(* Mutant: the write barrier is forgotten.                                 *)
NoBarrier(t) ==
  /\ pc[t] = "copy" /\ left[t] = {}
  /\ pc' = [pc EXCEPT ![t] = "idle"] /\ val' = [val EXCEPT ![t] = Null]
  /\ UNCHANGED <<objVars, stubVars, heapVars, left, cur, seen, gcVars, mishap>>

(* MarkGCCard, which a null reference needs not.                           *)
MarkGCCard(t) ==
  /\ pc[t] = "copy" /\ left[t] = {}
  /\ card' = (card \/ val[t] # Null)
  /\ pc' = [pc EXCEPT ![t] = "idle"] /\ val' = [val EXCEPT ![t] = Null]
  /\ UNCHANGED <<objVars, stubVars, heapVars, left, cur, seen, gpc, unscanned, marked, mishap>>

(* Compare-and-set changes the object alone.                               *)
Cas(f, v) ==
  /\ stubFlag /\ resident /\ obj[f] # v
  /\ obj' = [obj EXCEPT ![f] = v]
  /\ Mishap("cas")
  /\ UNCHANGED <<resident, dirty, stubVars, heapVars, threadVars, gcVars>>

(* SWAP_PREAMBLE_VOID does not return: a primitive store of the            *)
(* interpreter goes to the stub as well as to the object, over a reference *)
(* if the field lies there.                                                *)
StorePrimitive(f) ==
  /\ stubFlag /\ resident /\ dirty' = TRUE
  /\ stub' = [stub EXCEPT ![f] = Null]
  /\ Mishap("primitive")
  /\ UNCHANGED <<obj, resident, stubFlag, heapVars, threadVars, gcVars>>

(* Everyone who meets the stub while its flag is down takes it for an      *)
(* object; nothing is said of what becomes of it then.                     *)
TakenForObject ==
  /\ ~stubFlag /\ Mishap("unflagged")
  /\ UNCHANGED <<objVars, stubVars, heapVars, threadVars, gcVars>>

-----------------------------------------------------------------------------
(* Snapshots and reclamation.                                              *)

(* The WriteTask's lock on the entry keeps no app thread out.              *)
WriteSnapshot ==
  /\ stubFlag /\ resident /\ dirty
  /\ dirty' = FALSE
  /\ UNCHANGED <<obj, resident, stubVars, heapVars, threadVars, gcVars, mishap>>

(* Mutant: the stub's references go with the object's pages.               *)
ReclaimRefs ==
  /\ Quiet /\ resident /\ ~dirty
  /\ resident' = FALSE /\ obj' = NoRefs /\ stub' = NoRefs
  /\ UNCHANGED <<dirty, stubFlag, heapVars, threadVars, gcVars, mishap>>

(* SwapObjectsOut gives the pages back; the stub keeps the references.     *)
Reclaim ==
  /\ Quiet /\ resident /\ ~dirty
  /\ resident' = FALSE /\ obj' = NoRefs
  /\ UNCHANGED <<dirty, stubVars, heapVars, threadVars, gcVars, mishap>>

-----------------------------------------------------------------------------
(* Mark-sweep.  The stub is reachable; its references are scanned while    *)
(* threads run, once more if its card is dirty then, and again in the      *)
(* pause if its card has become dirty since.                               *)

BeginMark ==
  /\ gpc = "idle" /\ gpc' = "mark"
  /\ unscanned' = Fields /\ marked' = {} /\ card' = FALSE
  /\ UNCHANGED <<objVars, stubVars, heapVars, threadVars, mishap>>

(* The reference is missing from the stub, and the thread that has cleared *)
(* it and will refill it will not dirty the card.                          *)
Missed(f) ==
  /\ stub[f] = Null /\ obj[f] # Null
  /\ \E t \in Threads : pc[t] # "idle" /\ val[t] = Null

ScanStub(f) ==
  /\ gpc # "idle" /\ f \in unscanned /\ stubFlag
  /\ unscanned' = unscanned \ {f}
  /\ marked' = IF stub[f] = Null THEN marked ELSE marked \cup {Target(stub[f])}
  /\ MishapIf(Missed(f), "missed")
  /\ UNCHANGED <<objVars, stubVars, heapVars, threadVars, gpc, card>>

(* PreCleanCards ages the card and has the stub scanned again.             *)
PreCleanCards ==
  /\ gpc = "mark" /\ unscanned = {} /\ gpc' = "preclean"
  /\ unscanned' = IF card THEN Fields ELSE {}
  /\ card' = FALSE
  /\ UNCHANGED <<objVars, stubVars, heapVars, threadVars, marked, mishap>>

Rescanned == IF card THEN TargetsOf(stub) ELSE {}

(* The pause marks the roots and rescans dirty cards; then the sweep.      *)
PauseAndSweep ==
  /\ gpc = "preclean" /\ unscanned = {} /\ Quiet
  /\ freed' = Targets \ (marked \cup roots \cup Rescanned)
  /\ gpc' = "idle" /\ marked' = {} /\ card' = FALSE
  /\ UNCHANGED <<objVars, stubVars, addr, roots, threadVars, unscanned, mishap>>

-----------------------------------------------------------------------------
(* Targets move.                                                           *)

(* What becomes of a reference when the targets in xs change places.       *)
Moved(r, xs) == IF r # Null /\ Target(r) \in xs /\ r = Ref(Target(r))
                  THEN <<Target(r), 1 - r[2]>> ELSE r
MovedAll(refs, xs) == [f \in Fields |-> Moved(refs[f], xs)]
(* Mutant: a space that was left is never used again.                      *)
NewAddrOnwards(xs) == [x \in Targets |-> IF x \in xs THEN 1 + addr[x] ELSE addr[x]]
NewAddr(xs) == [x \in Targets |-> IF x \in xs THEN 1 - addr[x] ELSE addr[x]]

(* Mutant: of a stub only the object's references are visited.             *)
SemiSpaceObjectOnly ==
  /\ Quiet /\ gpc = "idle"
  /\ LET live == roots \cup TargetsOf(stub) \cup (IF resident THEN TargetsOf(obj) ELSE {})
     IN freed' = Targets \ live /\ addr' = NewAddr(live)
        /\ obj' = MovedAll(obj, live) /\ UNCHANGED stub
  /\ UNCHANGED <<resident, dirty, stubFlag, roots, threadVars, gcVars, mishap>>

(* The semi-space collector: ScanObject visits the references of the       *)
(* object, if resident, and those of the stub.                             *)
SemiSpace ==
  /\ Quiet /\ gpc = "idle"
  /\ LET live == roots \cup TargetsOf(stub) \cup (IF resident THEN TargetsOf(obj) ELSE {})
     IN freed' = Targets \ live /\ addr' = NewAddr(live)
        /\ obj' = MovedAll(obj, live) /\ stub' = MovedAll(stub, live)
  /\ UNCHANGED <<resident, dirty, stubFlag, roots, threadVars, gcVars, mishap>>

(* CreateStubs gives a target a stub: patchStubReferences replaces its     *)
(* address, in the object through SetFieldObject.                          *)
PatchTarget(x) ==
  /\ Quiet /\ gpc = "idle" /\ x \notin freed
  /\ addr' = NewAddr({x})
  /\ stub' = MovedAll(stub, {x}) /\ obj' = MovedAll(obj, {x})
  /\ dirty' = (dirty \/ obj' # obj)
  /\ UNCHANGED <<resident, stubFlag, freed, roots, threadVars, gcVars, mishap>>

-----------------------------------------------------------------------------
Values == {Ref(x) : x \in roots} \cup {Null}

Next ==
  \/ \E x \in Targets : Allocate(x) \/ Forget(x) \/ PatchTarget(x)
  \/ \E f \in Fields :
       \/ Load(f) \/ StorePrimitive(f) \/ ScanStub(f)
       \/ \E v \in Values : Cas(f, v)
  \/ \E t \in Threads :
       \/ \E f \in Fields : PopulateRead(t, f) \/ \E v \in Values : Store(t, f, v)
       \/ ClearFlags(t) \/ PopulateClear(t) \/ PopulateWrite(t) \/ MarkGCCard(t)
       \/ SwapInOnDemand(t) \/ SwapInObject(t) \/ SetResidentBit(t)
  \/ TakenForObject \/ WriteSnapshot \/ Reclaim \/ SwapObjectsIn
  \/ BeginMark \/ PreCleanCards \/ PauseAndSweep \/ SemiSpace

Spec == Init /\ [][Next]_vars

-----------------------------------------------------------------------------
(* Types of the references, the threads and the collector.                 *)
TypeOK ==
  /\ obj \in [Fields -> Refs] /\ stub \in [Fields -> Refs]
  /\ stubFlag \in BOOLEAN /\ resident \in BOOLEAN /\ dirty \in BOOLEAN
  /\ addr \in [Targets -> {0, 1}] /\ freed \subseteq Targets /\ roots \subseteq Targets
  /\ pc \in [Threads -> {"idle", "stored", "unflagged", "copy", "put", "swapin", "restored"}]
  /\ val \in [Threads -> Refs] /\ left \in [Threads -> SUBSET Fields]
  /\ cur \in [Threads -> Fields \cup {Null}] /\ seen \in [Threads -> Refs]
  /\ gpc \in {"idle", "mark", "preclean"} /\ unscanned \subseteq Fields
  /\ marked \subseteq Targets /\ card \in BOOLEAN
  /\ mishap \in {"none", "overlap", "cas", "primitive", "missed", "unflagged", "doubled"}

(* The references as the app sees them.                                    *)
AppRefs == IF resident THEN obj ELSE stub

(* The collector, which sees only the stub, frees nothing that the object  *)
(* refers to, and every reference the app sees leads to where its target   *)
(* is now, across moves that happened while the object was reclaimed.      *)
NoDanglingReference ==
  mishap = "none" =>
    \A f \in Fields : AppRefs[f] # Null =>
      Target(AppRefs[f]) \notin freed /\ AppRefs[f] = Ref(Target(AppRefs[f]))

(* "Don't we keep the stub's references updated whenever the object's      *)
(* references change": between stores the stub has the object's.           *)
StubUpdated == Quiet /\ resident => stub = obj

(* StubUpdated holds but for overlapping stores or swap-ins, a             *)
(* compare-and-set, a primitive store through the interpreter, and a stub  *)
(* met while its flag is down.                                             *)
StubRefsMatch == mishap \in {"none", "missed"} => StubUpdated

(* Reclaiming, swapping in, collecting and moving leave the object's       *)
(* references with the targets they have; only a store changes one.  Of    *)
(* two threads that swap the object in at once, the second may read the    *)
(* snapshot over what the first has stored since (mishap "doubled").       *)
TargetAt(refs, f) == IF refs[f] = Null THEN Null ELSE Target(refs[f])
OnlyStoresChangeRefs ==
  [][mishap' = "none" =>
       \/ \A f \in Fields : TargetAt(AppRefs', f) = TargetAt(AppRefs, f)
       \/ \E t \in Threads : pc[t] = "idle" /\ pc'[t] = "stored"]_vars

=============================================================================
