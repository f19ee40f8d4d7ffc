--------------------------- MODULE StubRefsProofs ---------------------------
(***************************************************************************)
(* The stub's references stand for the object's, for any number of fields, *)
(* targets and threads, as long as none of the races named by mishap has   *)
(* happened.                                                               *)
(***************************************************************************)
EXTENDS StubRefs, TLAPS

Matching == mishap \in {"none", "missed"}

(* A thread in a store keeps the object resident, and what it carries is   *)
(* forgotten at the end.                                                   *)
ThreadInv ==
  /\ \A t \in Threads : Storing(t) => resident
  /\ \A t \in Threads : ~Storing(t) => val[t] = Null
  /\ \A t \in Threads : pc[t] # "put" => seen[t] = Null

(* One thread at a time stores or swaps in.  While it stores, the stub has *)
(* the object's old references, then those that PopulateFrom has copied;   *)
(* afterwards it has all of them.                                          *)
MatchInv ==
  Matching =>
    /\ \A t, u \in Threads : pc[t] # "idle" /\ pc[u] # "idle" => t = u
    /\ Quiet /\ resident => stub = obj
    /\ \A t \in Threads :
         /\ SwappingIn(t) => ~resident
         /\ pc[t] = "restored" => obj = stub
         /\ pc[t] \in {"stored", "unflagged"} =>
              \A f \in Fields : stub[f] = obj[f] \/ obj[f] = val[t]
         /\ pc[t] = "copy" =>
              \A f \in Fields : stub[f] = IF f \in left[t] THEN Null ELSE obj[f]
         /\ pc[t] = "put" =>
              /\ cur[t] \in Fields \ left[t] /\ seen[t] = obj[cur[t]]
              /\ \A f \in Fields :
                   stub[f] = IF f \in left[t] \cup {cur[t]} THEN Null ELSE obj[f]

(* A reference to a live target, with the target's present address.        *)
Good(r) == r # Null => Target(r) \notin freed /\ r = Ref(Target(r))

(* Every reference that the object, the stub or a thread has is good.      *)
GoodInv ==
  mishap = "none" =>
    /\ \A f \in Fields : Good(stub[f]) /\ (resident => Good(obj[f]))
    /\ \A t \in Threads : Good(val[t]) /\ Good(seen[t])
    /\ roots \cap freed = {}

(* The marker's invariant: what it has passed is marked, or will be        *)
(* rescanned because the card is dirty or a store is about to dirty it.    *)
MarkInv ==
  mishap = "none" /\ gpc # "idle" =>
    \A f \in Fields \ unscanned : AppRefs[f] # Null =>
      \/ Target(AppRefs[f]) \in marked
      \/ card
      \/ \E t \in Threads : pc[t] # "idle" /\ val[t] # Null

IInv == TypeOK /\ ThreadInv /\ MatchInv /\ GoodInv /\ MarkInv


(* Allocate keeps the invariant.                                       *)
LEMMA AllocateStep ==
  ASSUME IInv, NEW x \in Targets, Allocate(x)
  PROVE  IInv'
PROOF
<1> USE DEF objVars, stubVars, heapVars, threadVars, gcVars, Storing, SwappingIn
<1>1. TypeOK'
  BY NullAssumption DEF IInv, TypeOK, Refs, Ref, Target, Allocate
<1>2. ThreadInv'
  BY DEF IInv, TypeOK, ThreadInv, Quiet, Allocate
<1>3. MatchInv'
  BY DEF IInv, TypeOK, ThreadInv, MatchInv, Matching, Quiet, Allocate
<1>4. GoodInv'
  BY NullAssumption DEF IInv, TypeOK, Refs, ThreadInv, MatchInv, Matching, GoodInv,
     MarkInv, AppRefs, Good, Quiet, Ref, Target, Allocate
<1>5. MarkInv'
  BY NullAssumption DEF IInv, TypeOK, Refs, ThreadInv, MatchInv, Matching, GoodInv, Good,
     MarkInv, AppRefs, Quiet, Ref, Target, Allocate
<1> QED
  BY <1>1, <1>2, <1>3, <1>4, <1>5 DEF IInv

(* Forget keeps the invariant.                                         *)
LEMMA ForgetStep ==
  ASSUME IInv, NEW x \in Targets, Forget(x)
  PROVE  IInv'
PROOF
<1> USE DEF objVars, stubVars, heapVars, threadVars, gcVars, Storing, SwappingIn
<1>1. TypeOK'
  BY NullAssumption DEF IInv, TypeOK, Refs, Ref, Target, Forget
<1>2. ThreadInv'
  BY DEF IInv, TypeOK, ThreadInv, Quiet, Forget
<1>3. MatchInv'
  BY DEF IInv, TypeOK, ThreadInv, MatchInv, Matching, Quiet, Forget
<1>4. GoodInv'
  BY NullAssumption DEF IInv, TypeOK, Refs, ThreadInv, MatchInv, Matching, GoodInv,
     MarkInv, AppRefs, Good, Quiet, Ref, Target, Forget
<1>5. MarkInv'
  BY NullAssumption DEF IInv, TypeOK, Refs, ThreadInv, MatchInv, Matching, GoodInv, Good,
     MarkInv, AppRefs, Quiet, Ref, Target, Forget
<1> QED
  BY <1>1, <1>2, <1>3, <1>4, <1>5 DEF IInv

(* PatchTarget keeps the invariant.                                    *)
LEMMA PatchTargetStep ==
  ASSUME IInv, NEW x \in Targets, PatchTarget(x)
  PROVE  IInv'
PROOF
<1> USE DEF objVars, stubVars, heapVars, threadVars, gcVars, Storing, SwappingIn
<1>1. TypeOK'
  BY NullAssumption DEF IInv, TypeOK, Refs, Ref, Target, PatchTarget, NewAddr, MovedAll,
     Moved, Quiet
<1>2. ThreadInv'
  BY DEF IInv, TypeOK, ThreadInv, Quiet, PatchTarget, NewAddr, MovedAll, Moved
<1>3. MatchInv'
  BY DEF IInv, TypeOK, ThreadInv, MatchInv, Matching, Quiet, PatchTarget, NewAddr,
     MovedAll, Moved
<1>4. GoodInv'
  BY NullAssumption DEF IInv, TypeOK, Refs, ThreadInv, MatchInv, Matching, GoodInv,
     MarkInv, AppRefs, Good, Quiet, Ref, Target, PatchTarget, NewAddr, MovedAll, Moved,
     Quiet
<1>5. MarkInv'
  BY NullAssumption DEF IInv, TypeOK, Refs, ThreadInv, MatchInv, Matching, GoodInv, Good,
     MarkInv, AppRefs, Quiet, Ref, Target, PatchTarget, NewAddr, MovedAll, Moved, Quiet
<1> QED
  BY <1>1, <1>2, <1>3, <1>4, <1>5 DEF IInv

(* Load keeps the invariant.                                           *)
LEMMA LoadStep ==
  ASSUME IInv, NEW f \in Fields, Load(f)
  PROVE  IInv'
PROOF
<1> USE DEF objVars, stubVars, heapVars, threadVars, gcVars, Storing, SwappingIn
<1>1. TypeOK'
  <2>1. obj[f] # Null => Target(obj[f]) \in Targets
    BY DEF IInv, TypeOK, Refs, Target
  <2> QED
    BY <2>1 DEF IInv, TypeOK, Load
<1>2. ThreadInv'
  BY DEF IInv, TypeOK, ThreadInv, Quiet, Load
<1>3. MatchInv'
  BY DEF IInv, TypeOK, ThreadInv, MatchInv, Matching, Quiet, Load
<1>4. GoodInv'
  BY NullAssumption DEF IInv, TypeOK, Refs, ThreadInv, MatchInv, Matching, GoodInv,
     MarkInv, AppRefs, Good, Quiet, Ref, Target, Load
<1>5. MarkInv'
  BY NullAssumption DEF IInv, TypeOK, Refs, ThreadInv, MatchInv, Matching, GoodInv, Good,
     MarkInv, AppRefs, Quiet, Ref, Target, Load
<1> QED
  BY <1>1, <1>2, <1>3, <1>4, <1>5 DEF IInv

(* StorePrimitive keeps the invariant.                                 *)
LEMMA StorePrimitiveStep ==
  ASSUME IInv, NEW f \in Fields, StorePrimitive(f)
  PROVE  IInv'
PROOF
<1> USE DEF objVars, stubVars, heapVars, threadVars, gcVars, Storing, SwappingIn
<1>1. TypeOK'
  BY NullAssumption DEF IInv, TypeOK, Refs, Ref, Target, StorePrimitive, Mishap
<1>2. ThreadInv'
  BY DEF IInv, TypeOK, ThreadInv, Quiet, StorePrimitive, Mishap
<1>3. MatchInv'
  BY DEF IInv, TypeOK, ThreadInv, MatchInv, Matching, Quiet, StorePrimitive, Mishap
<1>4. GoodInv'
  BY NullAssumption DEF IInv, TypeOK, Refs, ThreadInv, MatchInv, Matching, GoodInv,
     MarkInv, AppRefs, Good, Quiet, Ref, Target, StorePrimitive, Mishap
<1>5. MarkInv'
  BY NullAssumption DEF IInv, TypeOK, Refs, ThreadInv, MatchInv, Matching, GoodInv, Good,
     MarkInv, AppRefs, Quiet, Ref, Target, StorePrimitive, Mishap
<1> QED
  BY <1>1, <1>2, <1>3, <1>4, <1>5 DEF IInv

(* ScanStub keeps the invariant.                                       *)
LEMMA ScanStubStep ==
  ASSUME IInv, NEW f \in Fields, ScanStub(f)
  PROVE  IInv'
PROOF
<1> USE DEF objVars, stubVars, heapVars, threadVars, gcVars, Storing, SwappingIn
<1>1. TypeOK'
  BY NullAssumption DEF IInv, TypeOK, Refs, Ref, Target, ScanStub, MishapIf, Mishap,
     Missed
<1>2. ThreadInv'
  BY DEF IInv, TypeOK, ThreadInv, Quiet, ScanStub, MishapIf, Mishap, Missed
<1>3. MatchInv'
  BY DEF IInv, TypeOK, ThreadInv, MatchInv, Matching, Quiet, ScanStub, MishapIf, Mishap,
     Missed
<1>4. GoodInv'
  BY NullAssumption DEF IInv, TypeOK, Refs, ThreadInv, MatchInv, Matching, GoodInv,
     MarkInv, AppRefs, Good, Quiet, Ref, Target, ScanStub, MishapIf, Mishap, Missed
<1>5. MarkInv'
  <2> SUFFICES ASSUME mishap' = "none", gpc' # "idle", NEW g \in Fields \ unscanned',
                      AppRefs'[g] # Null,
                      Target(AppRefs'[g]) \notin marked', ~card',
                      \A t \in Threads : pc'[t] # "idle" => val'[t] = Null
               PROVE  FALSE
    BY DEF MarkInv
  <2>1. mishap = "none" /\ gpc # "idle" /\ ~Missed(f) /\ AppRefs' = AppRefs
        /\ UNCHANGED <<pc, val, card>>
    BY DEF ScanStub, MishapIf, Mishap, AppRefs
  <2>2. CASE g # f
    BY <2>1, <2>2 DEF ScanStub, IInv, MarkInv
  <2>3. CASE g = f
    <3>1. stub[f] # Null => stub[f] # AppRefs[f]
      BY <2>1, <2>3 DEF ScanStub
    <3>2. resident /\ stub[f] # obj[f] /\ obj[f] # Null
      BY <2>1, <2>3, <3>1 DEF AppRefs
    <3>3. PICK t \in Threads : pc[t] # "idle"
      BY <2>1, <3>2 DEF IInv, MatchInv, Matching, Quiet
    <3>4. val[t] = Null
      BY <2>1, <3>3
    <3>5. stub[f] # Null
      BY <2>1, <3>2, <3>3, <3>4 DEF Missed
    <3> QED
      BY <2>1, <3>2, <3>3, <3>4, <3>5 DEF IInv, TypeOK, MatchInv, Matching
  <2> QED
    BY <2>2, <2>3
<1> QED
  BY <1>1, <1>2, <1>3, <1>4, <1>5 DEF IInv

(* Cas keeps the invariant.                                            *)
LEMMA CasStep ==
  ASSUME IInv, NEW f \in Fields, NEW v \in Values, Cas(f, v)
  PROVE  IInv'
PROOF
<1> USE DEF objVars, stubVars, heapVars, threadVars, gcVars, Storing, SwappingIn
<1>1. TypeOK'
  BY NullAssumption DEF IInv, TypeOK, Refs, Ref, Target, Cas, Mishap, Values
<1>2. ThreadInv'
  BY DEF IInv, TypeOK, ThreadInv, Quiet, Cas, Mishap, Values
<1>3. MatchInv'
  BY DEF IInv, TypeOK, ThreadInv, MatchInv, Matching, Quiet, Cas, Mishap, Values
<1>4. GoodInv'
  BY NullAssumption DEF IInv, TypeOK, Refs, ThreadInv, MatchInv, Matching, GoodInv,
     MarkInv, AppRefs, Good, Quiet, Ref, Target, Cas, Mishap, Values
<1>5. MarkInv'
  BY NullAssumption DEF IInv, TypeOK, Refs, ThreadInv, MatchInv, Matching, GoodInv, Good,
     MarkInv, AppRefs, Quiet, Ref, Target, Cas, Mishap, Values
<1> QED
  BY <1>1, <1>2, <1>3, <1>4, <1>5 DEF IInv

(* PopulateRead keeps the invariant.                                   *)
LEMMA PopulateReadStep ==
  ASSUME IInv, NEW t \in Threads, NEW f \in Fields, PopulateRead(t, f)
  PROVE  IInv'
PROOF
<1> USE DEF objVars, stubVars, heapVars, threadVars, gcVars, Storing, SwappingIn
<1>1. TypeOK'
  BY NullAssumption DEF IInv, TypeOK, Refs, Ref, Target, PopulateRead
<1>2. ThreadInv'
  BY DEF IInv, TypeOK, ThreadInv, Quiet, PopulateRead
<1>3. MatchInv'
  BY DEF IInv, TypeOK, ThreadInv, MatchInv, Matching, Quiet, PopulateRead
<1>4. GoodInv'
  BY NullAssumption DEF IInv, TypeOK, Refs, ThreadInv, MatchInv, Matching, GoodInv,
     MarkInv, AppRefs, Good, Quiet, Ref, Target, PopulateRead
<1>5. MarkInv'
  BY NullAssumption DEF IInv, TypeOK, Refs, ThreadInv, MatchInv, Matching, GoodInv, Good,
     MarkInv, AppRefs, Quiet, Ref, Target, PopulateRead
<1> QED
  BY <1>1, <1>2, <1>3, <1>4, <1>5 DEF IInv

(* Store keeps the invariant.                                          *)
LEMMA StoreStep ==
  ASSUME IInv, NEW t \in Threads, NEW f \in Fields, NEW v \in Values, Store(t, f, v)
  PROVE  IInv'
PROOF
<1> USE DEF objVars, stubVars, heapVars, threadVars, gcVars, Storing, SwappingIn
<1>1. TypeOK'
  BY NullAssumption DEF IInv, TypeOK, Refs, Ref, Target, Store, MishapIf, Mishap, Values
<1>2. ThreadInv'
  BY DEF IInv, TypeOK, ThreadInv, Quiet, Store, MishapIf, Mishap, Values
<1>3. MatchInv'
  BY DEF IInv, TypeOK, ThreadInv, MatchInv, Matching, Quiet, Store, MishapIf, Mishap,
     Values
<1>4. GoodInv'
  BY NullAssumption DEF IInv, TypeOK, Refs, ThreadInv, MatchInv, Matching, GoodInv,
     MarkInv, AppRefs, Good, Quiet, Ref, Target, Store, MishapIf, Mishap, Values
<1>5. MarkInv'
  BY NullAssumption DEF IInv, TypeOK, Refs, ThreadInv, MatchInv, Matching, GoodInv, Good,
     MarkInv, AppRefs, Quiet, Ref, Target, Store, MishapIf, Mishap, Values
<1> QED
  BY <1>1, <1>2, <1>3, <1>4, <1>5 DEF IInv

(* ClearFlags keeps the invariant.                                     *)
LEMMA ClearFlagsStep ==
  ASSUME IInv, NEW t \in Threads, ClearFlags(t)
  PROVE  IInv'
PROOF
<1> USE DEF objVars, stubVars, heapVars, threadVars, gcVars, Storing, SwappingIn
<1>1. TypeOK'
  BY NullAssumption DEF IInv, TypeOK, Refs, Ref, Target, ClearFlags
<1>2. ThreadInv'
  BY DEF IInv, TypeOK, ThreadInv, Quiet, ClearFlags
<1>3. MatchInv'
  BY DEF IInv, TypeOK, ThreadInv, MatchInv, Matching, Quiet, ClearFlags
<1>4. GoodInv'
  BY NullAssumption DEF IInv, TypeOK, Refs, ThreadInv, MatchInv, Matching, GoodInv,
     MarkInv, AppRefs, Good, Quiet, Ref, Target, ClearFlags
<1>5. MarkInv'
  BY NullAssumption DEF IInv, TypeOK, Refs, ThreadInv, MatchInv, Matching, GoodInv, Good,
     MarkInv, AppRefs, Quiet, Ref, Target, ClearFlags
<1> QED
  BY <1>1, <1>2, <1>3, <1>4, <1>5 DEF IInv

(* PopulateClear keeps the invariant.                                  *)
LEMMA PopulateClearStep ==
  ASSUME IInv, NEW t \in Threads, PopulateClear(t)
  PROVE  IInv'
PROOF
<1> USE DEF objVars, stubVars, heapVars, threadVars, gcVars, Storing, SwappingIn
<1>1. TypeOK'
  BY NullAssumption DEF IInv, TypeOK, Refs, Ref, Target, PopulateClear, NoRefs
<1>2. ThreadInv'
  BY DEF IInv, TypeOK, ThreadInv, Quiet, PopulateClear, NoRefs
<1>3. MatchInv'
  BY DEF IInv, TypeOK, ThreadInv, MatchInv, Matching, Quiet, PopulateClear, NoRefs
<1>4. GoodInv'
  BY NullAssumption DEF IInv, TypeOK, Refs, ThreadInv, MatchInv, Matching, GoodInv,
     MarkInv, AppRefs, Good, Quiet, Ref, Target, PopulateClear, NoRefs
<1>5. MarkInv'
  BY NullAssumption DEF IInv, TypeOK, Refs, ThreadInv, MatchInv, Matching, GoodInv, Good,
     MarkInv, AppRefs, Quiet, Ref, Target, PopulateClear, NoRefs
<1> QED
  BY <1>1, <1>2, <1>3, <1>4, <1>5 DEF IInv

(* PopulateWrite keeps the invariant.                                  *)
LEMMA PopulateWriteStep ==
  ASSUME IInv, NEW t \in Threads, PopulateWrite(t)
  PROVE  IInv'
PROOF
<1> USE DEF objVars, stubVars, heapVars, threadVars, gcVars, Storing, SwappingIn
<1>1. TypeOK'
  BY NullAssumption DEF IInv, TypeOK, Refs, Ref, Target, PopulateWrite
<1>2. ThreadInv'
  BY DEF IInv, TypeOK, ThreadInv, Quiet, PopulateWrite
<1>3. MatchInv'
  <2> SUFFICES ASSUME Matching PROVE MatchInv'
    BY DEF MatchInv, Matching, PopulateWrite
  <2>1. \A u \in Threads \ {t} : pc[u] = "idle" /\ pc'[u] = "idle"
    BY DEF IInv, TypeOK, MatchInv, PopulateWrite
  <2>2. pc'[t] = "copy" /\ ~Quiet'
    BY DEF IInv, TypeOK, Quiet, PopulateWrite
  <2>3. \A f \in Fields : stub'[f] = IF f \in left'[t] THEN Null ELSE obj'[f]
    BY DEF IInv, TypeOK, MatchInv, PopulateWrite
  <2> QED
    BY <2>1, <2>2, <2>3 DEF MatchInv
<1>4. GoodInv'
  BY NullAssumption DEF IInv, TypeOK, Refs, ThreadInv, MatchInv, Matching, GoodInv,
     MarkInv, AppRefs, Good, Quiet, Ref, Target, PopulateWrite
<1>5. MarkInv'
  BY NullAssumption DEF IInv, TypeOK, Refs, ThreadInv, MatchInv, Matching, GoodInv, Good,
     MarkInv, AppRefs, Quiet, Ref, Target, PopulateWrite
<1> QED
  BY <1>1, <1>2, <1>3, <1>4, <1>5 DEF IInv

(* MarkGCCard keeps the invariant.                                     *)
LEMMA MarkGCCardStep ==
  ASSUME IInv, NEW t \in Threads, MarkGCCard(t)
  PROVE  IInv'
PROOF
<1> USE DEF objVars, stubVars, heapVars, threadVars, gcVars, Storing, SwappingIn
<1>1. TypeOK'
  BY NullAssumption DEF IInv, TypeOK, Refs, Ref, Target, MarkGCCard
<1>2. ThreadInv'
  BY DEF IInv, TypeOK, ThreadInv, Quiet, MarkGCCard
<1>3. MatchInv'
  BY DEF IInv, TypeOK, ThreadInv, MatchInv, Matching, Quiet, MarkGCCard
<1>4. GoodInv'
  BY NullAssumption DEF IInv, TypeOK, Refs, ThreadInv, MatchInv, Matching, GoodInv,
     MarkInv, AppRefs, Good, Quiet, Ref, Target, MarkGCCard
<1>5. MarkInv'
  BY NullAssumption DEF IInv, TypeOK, Refs, ThreadInv, MatchInv, Matching, GoodInv, Good,
     MarkInv, AppRefs, Quiet, Ref, Target, MarkGCCard
<1> QED
  BY <1>1, <1>2, <1>3, <1>4, <1>5 DEF IInv

(* TakenForObject keeps the invariant.                                 *)
LEMMA TakenForObjectStep ==
  ASSUME IInv, TakenForObject
  PROVE  IInv'
PROOF
<1> USE DEF objVars, stubVars, heapVars, threadVars, gcVars, Storing, SwappingIn
<1>1. TypeOK'
  BY NullAssumption DEF IInv, TypeOK, Refs, Ref, Target, TakenForObject, Mishap
<1>2. ThreadInv'
  BY DEF IInv, TypeOK, ThreadInv, Quiet, TakenForObject, Mishap
<1>3. MatchInv'
  BY DEF IInv, TypeOK, ThreadInv, MatchInv, Matching, Quiet, TakenForObject, Mishap
<1>4. GoodInv'
  BY NullAssumption DEF IInv, TypeOK, Refs, ThreadInv, MatchInv, Matching, GoodInv,
     MarkInv, AppRefs, Good, Quiet, Ref, Target, TakenForObject, Mishap
<1>5. MarkInv'
  BY NullAssumption DEF IInv, TypeOK, Refs, ThreadInv, MatchInv, Matching, GoodInv, Good,
     MarkInv, AppRefs, Quiet, Ref, Target, TakenForObject, Mishap
<1> QED
  BY <1>1, <1>2, <1>3, <1>4, <1>5 DEF IInv

(* WriteSnapshot keeps the invariant.                                  *)
LEMMA WriteSnapshotStep ==
  ASSUME IInv, WriteSnapshot
  PROVE  IInv'
PROOF
<1> USE DEF objVars, stubVars, heapVars, threadVars, gcVars, Storing, SwappingIn
<1>1. TypeOK'
  BY NullAssumption DEF IInv, TypeOK, Refs, Ref, Target, WriteSnapshot
<1>2. ThreadInv'
  BY DEF IInv, TypeOK, ThreadInv, Quiet, WriteSnapshot
<1>3. MatchInv'
  BY DEF IInv, TypeOK, ThreadInv, MatchInv, Matching, Quiet, WriteSnapshot
<1>4. GoodInv'
  BY NullAssumption DEF IInv, TypeOK, Refs, ThreadInv, MatchInv, Matching, GoodInv,
     MarkInv, AppRefs, Good, Quiet, Ref, Target, WriteSnapshot
<1>5. MarkInv'
  BY NullAssumption DEF IInv, TypeOK, Refs, ThreadInv, MatchInv, Matching, GoodInv, Good,
     MarkInv, AppRefs, Quiet, Ref, Target, WriteSnapshot
<1> QED
  BY <1>1, <1>2, <1>3, <1>4, <1>5 DEF IInv

(* Reclaim keeps the invariant.                                        *)
LEMMA ReclaimStep ==
  ASSUME IInv, Reclaim
  PROVE  IInv'
PROOF
<1> USE DEF objVars, stubVars, heapVars, threadVars, gcVars, Storing, SwappingIn
<1>1. TypeOK'
  BY NullAssumption DEF IInv, TypeOK, Refs, Ref, Target, Reclaim, NoRefs
<1>2. ThreadInv'
  BY DEF IInv, TypeOK, ThreadInv, Quiet, Reclaim, NoRefs
<1>3. MatchInv'
  BY DEF IInv, TypeOK, ThreadInv, MatchInv, Matching, Quiet, Reclaim, NoRefs
<1>4. GoodInv'
  BY NullAssumption DEF IInv, TypeOK, Refs, ThreadInv, MatchInv, Matching, GoodInv,
     MarkInv, AppRefs, Good, Quiet, Ref, Target, Reclaim, NoRefs
<1>5. MarkInv'
  BY NullAssumption DEF IInv, TypeOK, Refs, ThreadInv, MatchInv, Matching, GoodInv, Good,
     MarkInv, AppRefs, Quiet, Ref, Target, Reclaim, NoRefs
<1> QED
  BY <1>1, <1>2, <1>3, <1>4, <1>5 DEF IInv

(* SwapInOnDemand keeps the invariant.                                 *)
LEMMA SwapInOnDemandStep ==
  ASSUME IInv, NEW t \in Threads, SwapInOnDemand(t)
  PROVE  IInv'
PROOF
<1> USE DEF objVars, stubVars, heapVars, threadVars, gcVars, Storing, SwappingIn
<1>1. TypeOK'
  BY NullAssumption DEF IInv, TypeOK, Refs, Ref, Target, SwapInOnDemand, MishapIf, Mishap
<1>2. ThreadInv'
  BY DEF IInv, TypeOK, ThreadInv, Quiet, SwapInOnDemand, MishapIf, Mishap
<1>3. MatchInv'
  BY DEF IInv, TypeOK, ThreadInv, MatchInv, Matching, Quiet, SwapInOnDemand, MishapIf, Mishap
<1>4. GoodInv'
  BY NullAssumption DEF IInv, TypeOK, Refs, ThreadInv, MatchInv, Matching, GoodInv,
     MarkInv, AppRefs, Good, Quiet, Ref, Target, SwapInOnDemand, MishapIf, Mishap
<1>5. MarkInv'
  BY NullAssumption DEF IInv, TypeOK, Refs, ThreadInv, MatchInv, Matching, GoodInv, Good,
     MarkInv, AppRefs, Quiet, Ref, Target, SwapInOnDemand, MishapIf, Mishap
<1> QED
  BY <1>1, <1>2, <1>3, <1>4, <1>5 DEF IInv

(* SwapInObject keeps the invariant.                                   *)
LEMMA SwapInObjectStep ==
  ASSUME IInv, NEW t \in Threads, SwapInObject(t)
  PROVE  IInv'
PROOF
<1> USE DEF objVars, stubVars, heapVars, threadVars, gcVars, Storing, SwappingIn
<1>1. TypeOK'
  BY NullAssumption DEF IInv, TypeOK, Refs, Ref, Target, SwapInObject, CopyRefsInto
<1>2. ThreadInv'
  BY DEF IInv, TypeOK, ThreadInv, Quiet, SwapInObject, CopyRefsInto
<1>3. MatchInv'
  BY DEF IInv, TypeOK, ThreadInv, MatchInv, Matching, Quiet, SwapInObject, CopyRefsInto
<1>4. GoodInv'
  BY NullAssumption DEF IInv, TypeOK, Refs, ThreadInv, MatchInv, Matching, GoodInv,
     MarkInv, AppRefs, Good, Quiet, Ref, Target, SwapInObject, CopyRefsInto
<1>5. MarkInv'
  BY NullAssumption DEF IInv, TypeOK, Refs, ThreadInv, MatchInv, Matching, GoodInv, Good,
     MarkInv, AppRefs, Quiet, Ref, Target, SwapInObject, CopyRefsInto
<1> QED
  BY <1>1, <1>2, <1>3, <1>4, <1>5 DEF IInv

(* SetResidentBit keeps the invariant.                                 *)
LEMMA SetResidentBitStep ==
  ASSUME IInv, NEW t \in Threads, SetResidentBit(t)
  PROVE  IInv'
PROOF
<1> USE DEF objVars, stubVars, heapVars, threadVars, gcVars, Storing, SwappingIn
<1>1. TypeOK'
  BY NullAssumption DEF IInv, TypeOK, Refs, Ref, Target, SetResidentBit
<1>2. ThreadInv'
  BY DEF IInv, TypeOK, ThreadInv, Quiet, SetResidentBit
<1>3. MatchInv'
  BY DEF IInv, TypeOK, ThreadInv, MatchInv, Matching, Quiet, SetResidentBit
<1>4. GoodInv'
  BY NullAssumption DEF IInv, TypeOK, Refs, ThreadInv, MatchInv, Matching, GoodInv,
     MarkInv, AppRefs, Good, Quiet, Ref, Target, SetResidentBit
<1>5. MarkInv'
  BY NullAssumption DEF IInv, TypeOK, Refs, ThreadInv, MatchInv, Matching, GoodInv, Good,
     MarkInv, AppRefs, Quiet, Ref, Target, SetResidentBit
<1> QED
  BY <1>1, <1>2, <1>3, <1>4, <1>5 DEF IInv

(* SwapObjectsIn keeps the invariant.                                  *)
LEMMA SwapObjectsInStep ==
  ASSUME IInv, SwapObjectsIn
  PROVE  IInv'
PROOF
<1> USE DEF objVars, stubVars, heapVars, threadVars, gcVars, Storing, SwappingIn
<1>1. TypeOK'
  BY NullAssumption DEF IInv, TypeOK, Refs, Ref, Target, SwapObjectsIn, CopyRefsInto
<1>2. ThreadInv'
  BY DEF IInv, TypeOK, ThreadInv, Quiet, SwapObjectsIn, CopyRefsInto
<1>3. MatchInv'
  BY DEF IInv, TypeOK, ThreadInv, MatchInv, Matching, Quiet, SwapObjectsIn, CopyRefsInto
<1>4. GoodInv'
  BY NullAssumption DEF IInv, TypeOK, Refs, ThreadInv, MatchInv, Matching, GoodInv,
     MarkInv, AppRefs, Good, Quiet, Ref, Target, SwapObjectsIn, CopyRefsInto
<1>5. MarkInv'
  BY NullAssumption DEF IInv, TypeOK, Refs, ThreadInv, MatchInv, Matching, GoodInv, Good,
     MarkInv, AppRefs, Quiet, Ref, Target, SwapObjectsIn, CopyRefsInto
<1> QED
  BY <1>1, <1>2, <1>3, <1>4, <1>5 DEF IInv

(* BeginMark keeps the invariant.                                      *)
LEMMA BeginMarkStep ==
  ASSUME IInv, BeginMark
  PROVE  IInv'
PROOF
<1> USE DEF objVars, stubVars, heapVars, threadVars, gcVars, Storing, SwappingIn
<1>1. TypeOK'
  BY NullAssumption DEF IInv, TypeOK, Refs, Ref, Target, BeginMark
<1>2. ThreadInv'
  BY DEF IInv, TypeOK, ThreadInv, Quiet, BeginMark
<1>3. MatchInv'
  BY DEF IInv, TypeOK, ThreadInv, MatchInv, Matching, Quiet, BeginMark
<1>4. GoodInv'
  BY NullAssumption DEF IInv, TypeOK, Refs, ThreadInv, MatchInv, Matching, GoodInv,
     MarkInv, AppRefs, Good, Quiet, Ref, Target, BeginMark
<1>5. MarkInv'
  BY NullAssumption DEF IInv, TypeOK, Refs, ThreadInv, MatchInv, Matching, GoodInv, Good,
     MarkInv, AppRefs, Quiet, Ref, Target, BeginMark
<1> QED
  BY <1>1, <1>2, <1>3, <1>4, <1>5 DEF IInv

(* PreCleanCards keeps the invariant.                                  *)
LEMMA PreCleanCardsStep ==
  ASSUME IInv, PreCleanCards
  PROVE  IInv'
PROOF
<1> USE DEF objVars, stubVars, heapVars, threadVars, gcVars, Storing, SwappingIn
<1>1. TypeOK'
  BY NullAssumption DEF IInv, TypeOK, Refs, Ref, Target, PreCleanCards
<1>2. ThreadInv'
  BY DEF IInv, TypeOK, ThreadInv, Quiet, PreCleanCards
<1>3. MatchInv'
  BY DEF IInv, TypeOK, ThreadInv, MatchInv, Matching, Quiet, PreCleanCards
<1>4. GoodInv'
  BY NullAssumption DEF IInv, TypeOK, Refs, ThreadInv, MatchInv, Matching, GoodInv,
     MarkInv, AppRefs, Good, Quiet, Ref, Target, PreCleanCards
<1>5. MarkInv'
  BY NullAssumption DEF IInv, TypeOK, Refs, ThreadInv, MatchInv, Matching, GoodInv, Good,
     MarkInv, AppRefs, Quiet, Ref, Target, PreCleanCards
<1> QED
  BY <1>1, <1>2, <1>3, <1>4, <1>5 DEF IInv

(* PauseAndSweep keeps the invariant.                                  *)
LEMMA PauseAndSweepStep ==
  ASSUME IInv, PauseAndSweep
  PROVE  IInv'
PROOF
<1> USE DEF objVars, stubVars, heapVars, threadVars, gcVars, Storing, SwappingIn
<1>1. TypeOK'
  BY NullAssumption DEF IInv, TypeOK, Refs, Ref, Target, PauseAndSweep, Rescanned,
     TargetsOf
<1>2. ThreadInv'
  BY DEF IInv, TypeOK, ThreadInv, Quiet, PauseAndSweep, Rescanned, TargetsOf
<1>3. MatchInv'
  BY DEF IInv, TypeOK, ThreadInv, MatchInv, Matching, Quiet, PauseAndSweep, Rescanned,
     TargetsOf
<1>4. GoodInv'
  BY NullAssumption DEF IInv, TypeOK, Refs, ThreadInv, MatchInv, Matching, GoodInv,
     MarkInv, AppRefs, Good, Quiet, Ref, Target, PauseAndSweep, Rescanned, TargetsOf
<1>5. MarkInv'
  BY NullAssumption DEF IInv, TypeOK, Refs, ThreadInv, MatchInv, Matching, GoodInv, Good,
     MarkInv, AppRefs, Quiet, Ref, Target, PauseAndSweep, Rescanned, TargetsOf
<1> QED
  BY <1>1, <1>2, <1>3, <1>4, <1>5 DEF IInv

(* SemiSpace keeps the invariant.                                      *)
LEMMA SemiSpaceStep ==
  ASSUME IInv, SemiSpace
  PROVE  IInv'
PROOF
<1> USE DEF objVars, stubVars, heapVars, threadVars, gcVars, Storing, SwappingIn
<1>1. TypeOK'
  BY NullAssumption DEF IInv, TypeOK, Refs, Ref, Target, SemiSpace, NewAddr, MovedAll,
     Moved, TargetsOf
<1>2. ThreadInv'
  BY DEF IInv, TypeOK, ThreadInv, Quiet, SemiSpace, NewAddr, MovedAll, Moved, TargetsOf
<1>3. MatchInv'
  BY DEF IInv, TypeOK, ThreadInv, MatchInv, Matching, Quiet, SemiSpace, NewAddr, MovedAll,
     Moved, TargetsOf
<1>4. GoodInv'
  <2> SUFFICES ASSUME mishap = "none" PROVE GoodInv'
    BY DEF SemiSpace, GoodInv
  <2> DEFINE live == roots \cup TargetsOf(stub) \cup (IF resident THEN TargetsOf(obj) ELSE {})
  <2>1. /\ live \subseteq Targets
        /\ \A f \in Fields : stub[f] # Null => Target(stub[f]) \in live
        /\ \A f \in Fields : resident /\ obj[f] # Null => Target(obj[f]) \in live
        /\ roots \subseteq live
    BY NullAssumption DEF IInv, TypeOK, Refs, Target, TargetsOf
  <2>2. /\ freed' = Targets \ live /\ addr' = NewAddr(live)
        /\ obj' = MovedAll(obj, live) /\ stub' = MovedAll(stub, live)
        /\ UNCHANGED <<roots, resident, val, seen, pc>> /\ Quiet
    BY DEF SemiSpace
  <2> HIDE DEF live
  <2>3. ASSUME NEW f \in Fields
        PROVE  Good(stub[f])' /\ (resident' => Good(obj[f])')
    BY SMTT(30), <2>1, <2>2, NullAssumption
       DEF IInv, TypeOK, Refs, GoodInv, Good, Ref, Target, Moved, MovedAll, NewAddr
  <2>4. \A t \in Threads : Good(val[t])' /\ Good(seen[t])'
    BY <2>2 DEF IInv, ThreadInv, Quiet, Good
  <2>5. roots' \cap freed' = {}
    BY SMTT(30), <2>1, <2>2
  <2> QED
    BY <2>3, <2>4, <2>5 DEF GoodInv
<1>5. MarkInv'
  BY NullAssumption DEF IInv, TypeOK, Refs, ThreadInv, MatchInv, Matching, GoodInv, Good,
     MarkInv, AppRefs, Quiet, Ref, Target, SemiSpace, NewAddr, MovedAll, Moved, TargetsOf
<1> QED
  BY <1>1, <1>2, <1>3, <1>4, <1>5 DEF IInv
-----------------------------------------------------------------------------
(* Every reachable state satisfies the inductive invariant.                *)
THEOREM Invariance == Spec => []IInv
PROOF
<1>1. Init => IInv
  <2> SUFFICES ASSUME Init PROVE IInv
    OBVIOUS
  <2>1. TypeOK
    BY ZenonT(30) DEF Init, NoRefs, Refs, TypeOK
  <2>2. ThreadInv
    BY DEF Init, ThreadInv
  <2>3. MatchInv /\ MarkInv
    BY DEF Init, MatchInv, SwappingIn, MarkInv
  <2>4. GoodInv
    BY DEF Init, NoRefs, GoodInv, Good
  <2> QED
    BY <2>1, <2>2, <2>3, <2>4 DEF IInv
<1>2. ASSUME IInv, [Next]_vars PROVE IInv'
  <2>1. CASE UNCHANGED vars
    <3> USE <1>2, <2>1 DEF IInv, vars, objVars, stubVars, heapVars, threadVars, gcVars
    <3>1. TypeOK'
      BY DEF TypeOK
    <3>2. ThreadInv'
      BY DEF ThreadInv, Storing
    <3>3. MatchInv'
      BY DEF MatchInv, Matching, Quiet, SwappingIn
    <3>4. GoodInv'
      BY DEF GoodInv, Good, Ref
    <3>5. MarkInv'
      BY DEF MarkInv, AppRefs
    <3> QED
      BY <3>1, <3>2, <3>3, <3>4, <3>5
  <2>2. CASE Next
    BY <1>2, <2>2, AllocateStep, ForgetStep, PatchTargetStep, LoadStep,
       StorePrimitiveStep, ScanStubStep, CasStep, PopulateReadStep, StoreStep,
       ClearFlagsStep, PopulateClearStep,
       PopulateWriteStep, MarkGCCardStep, SwapInOnDemandStep, SwapInObjectStep,
       SetResidentBitStep, TakenForObjectStep, WriteSnapshotStep, ReclaimStep, SwapObjectsInStep,
       BeginMarkStep, PreCleanCardsStep, PauseAndSweepStep, SemiSpaceStep
    DEF Next
  <2> QED
    BY <1>2, <2>1, <2>2
<1> QED
  BY <1>1, <1>2, PTL DEF Spec

(* The collector that scans only the stub frees nothing that the object    *)
(* refers to, and moves leave no stale address, whether the object is      *)
(* resident or reclaimed at the time.                                      *)
THEOREM NoneDangles == Spec => []NoDanglingReference
PROOF
<1>1. IInv => NoDanglingReference
  BY DEF IInv, GoodInv, Good, NoDanglingReference, AppRefs
<1> QED
  BY <1>1, Invariance, PTL

(* PopulateFrom brings the stub up to date before the store is over.       *)
THEOREM StubMatches == Spec => []StubRefsMatch
PROOF
<1>1. IInv => StubRefsMatch
  BY SMTT(30) DEF IInv, MatchInv, Matching, StubRefsMatch, StubUpdated
<1> QED
  BY <1>1, Invariance, PTL

(* Swapping and collecting change no reference of the object.              *)
THEOREM OnlyStores == Spec => OnlyStoresChangeRefs
PROOF
<1> DEFINE Same == \A f \in Fields : TargetAt(AppRefs', f) = TargetAt(AppRefs, f)
           Began == \E t \in Threads : pc[t] = "idle" /\ pc'[t] = "stored"
<1>1. ASSUME IInv, Next, mishap' = "none" PROVE Same \/ Began
  <2> USE <1>1 DEF objVars, stubVars, heapVars, threadVars, gcVars
  <2>1. mishap = "none"
    BY DEF Next, Allocate, Forget, PatchTarget, Load, StorePrimitive, ScanStub, Cas,
       PopulateRead, Store, ClearFlags, PopulateClear, PopulateWrite, MarkGCCard,
       SwapInOnDemand, SwapInObject, SetResidentBit, SwapObjectsIn, TakenForObject,
       WriteSnapshot, Reclaim, BeginMark, PreCleanCards, PauseAndSweep, SemiSpace,
       Mishap, MishapIf
  <2>2. ASSUME AppRefs' = AppRefs PROVE Same
    BY <2>2 DEF TargetAt
  <2>3. ASSUME NEW x \in Targets, Allocate(x) \/ Forget(x) PROVE Same
    BY <2>2, <2>3 DEF Allocate, Forget, AppRefs
  <2>4. ASSUME NEW xs, resident' = resident, obj' = MovedAll(obj, xs), stub' = MovedAll(stub, xs)
        PROVE  Same
    BY SMTT(30), <2>4, NullAssumption DEF IInv, TypeOK, Refs, MovedAll, Moved, Ref, Target,
       TargetAt, AppRefs
  <2>5. ASSUME NEW x \in Targets, PatchTarget(x) PROVE Same
    BY <2>4, <2>5 DEF PatchTarget
  <2>6. CASE SemiSpace
    BY <2>4, <2>6 DEF SemiSpace
  <2>7. ASSUME NEW f \in Fields, Load(f) PROVE Same
    BY <2>2, <2>7 DEF Load, AppRefs
  <2>8. ASSUME NEW f \in Fields, ScanStub(f) PROVE Same
    BY <2>2, <2>8 DEF ScanStub, AppRefs
  <2>9. ASSUME NEW t \in Threads, NEW f \in Fields, NEW v \in Values, Store(t, f, v) PROVE Began
    BY <2>9 DEF IInv, TypeOK, Store
  <2>10. ASSUME NEW t \in Threads, NEW f,
                \/ PopulateRead(t, f) \/ ClearFlags(t) \/ PopulateClear(t)
                \/ PopulateWrite(t) \/ MarkGCCard(t)
         PROVE  Same
    <3>1. resident /\ UNCHANGED <<resident, obj>>
      BY <2>10 DEF IInv, ThreadInv, Storing, PopulateRead, ClearFlags, PopulateClear,
         PopulateWrite, MarkGCCard
    <3> QED
      BY <2>2, <3>1 DEF AppRefs
  <2>11. CASE WriteSnapshot \/ BeginMark \/ PreCleanCards \/ PauseAndSweep
    BY <2>2, <2>11 DEF WriteSnapshot, BeginMark, PreCleanCards, PauseAndSweep, AppRefs
  <2>12. CASE Reclaim
    BY <2>1, <2>2, <2>12 DEF IInv, MatchInv, Matching, Reclaim, AppRefs
  <2>18. ASSUME NEW t \in Threads,
                SwapInOnDemand(t) \/ SwapInObject(t) \/ SetResidentBit(t)
         PROVE  Same
    <3>1. AppRefs' = AppRefs
      <4>1. CASE SwapInOnDemand(t)
        BY <4>1 DEF SwapInOnDemand, AppRefs
      <4>2. CASE SwapInObject(t)
        BY <2>1, <4>2 DEF IInv, MatchInv, Matching, SwappingIn, SwapInObject, AppRefs
      <4>3. CASE SetResidentBit(t)
        BY <2>1, <4>3 DEF IInv, MatchInv, Matching, SwappingIn, SetResidentBit, AppRefs
      <4> QED
        BY <2>18, <4>1, <4>2, <4>3
    <3> QED
      BY <2>2, <3>1
  <2>19. CASE SwapObjectsIn
    BY <2>2, <2>19 DEF SwapObjectsIn, CopyRefsInto, AppRefs
  <2>13. ASSUME NEW f, NEW v, StorePrimitive(f) \/ Cas(f, v) \/ TakenForObject
         PROVE  FALSE
    BY <2>13 DEF StorePrimitive, Cas, TakenForObject, Mishap
  <2> HIDE DEF Same, Began
  <2>14. ASSUME NEW x \in Targets, Allocate(x) \/ Forget(x) \/ PatchTarget(x) PROVE Same
    BY <2>3, <2>5, <2>14
  <2>15. ASSUME NEW f \in Fields,
                Load(f) \/ StorePrimitive(f) \/ ScanStub(f) \/ \E v \in Values : Cas(f, v)
         PROVE  Same
    BY <2>7, <2>8, <2>13, <2>15
  <2>16. ASSUME NEW t \in Threads,
                \/ \E f \in Fields : PopulateRead(t, f) \/ \E v \in Values : Store(t, f, v)
                \/ ClearFlags(t) \/ PopulateClear(t) \/ PopulateWrite(t) \/ MarkGCCard(t)
                \/ SwapInOnDemand(t) \/ SwapInObject(t) \/ SetResidentBit(t)
         PROVE  Same \/ Began
    BY <2>9, <2>10, <2>16, <2>18
  <2>17. ~TakenForObject
    BY <2>13
  <2> QED
    BY ZenonT(30), <2>6, <2>11, <2>12, <2>14, <2>15, <2>16, <2>17,
       <2>19 DEF Next
<1>2. UNCHANGED vars => Same
  BY DEF vars, objVars, stubVars, AppRefs, TargetAt
<1>3. ASSUME IInv, [Next]_vars PROVE [mishap' = "none" => Same \/ Began]_vars
  BY <1>1, <1>2, <1>3
<1> QED
  BY <1>3, Invariance, PTL DEF Spec, OnlyStoresChangeRefs

(* Whatever the threads and the collector do, the reference slots of the   *)
(* object and of its stub hold the old or the new address of a target or   *)
(* nil, and every thread and the collector are at a step of the code.      *)
THEOREM TypeCorrect == Spec => []TypeOK
PROOF
<1>1. IInv => TypeOK
  BY DEF IInv
<1> QED
  BY <1>1, Invariance, PTL

=============================================================================
