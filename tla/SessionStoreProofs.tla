-------------------------- MODULE SessionStoreProofs --------------------------
(***************************************************************************)
(* The L1 cache of the session store agrees with the backend, and a store  *)
(* that was destroyed is left alone, for any number of callers and keys.   *)
(* The gate's own invariant is the one of SharedExclusiveGateProofs: every *)
(* step of the store is a step of the gate, or leaves it as it is.         *)
(***************************************************************************)
EXTENDS SessionStore, SharedExclusiveGateProofs

Under(t, k) == op[t].phase \in {"sent", "answered", "filling"} /\ k \in op[t].keys
Mutating(t, k) == op[t].kind \in Mutations /\ Under(t, k)
Reading(t, k) == op[t].kind \in Reads /\ Under(t, k)

\* What an operation is doing says where its caller is in the gate.
Placed(t) ==
  /\ op[t].phase = "none" <=> op[t].kind = "none"
  /\ op[t].kind = "none" => status[t] \in {"idle", "rejected"}
  /\ op[t].phase = "called" =>
       status[t] \in IF op[t].kind = "clear" THEN {"waitExclusive", "exclusive"}
                     ELSE {"waitShared", "shared"}
  /\ op[t].phase \in {"sent", "answered", "filling"} =>
       status[t] = IF op[t].kind = "clear" THEN "exclusive" ELSE "shared"
  /\ op[t].phase = "missed" => op[t].kind \in Reads /\ status[t] = "shared"
  /\ op[t].phase = "filling" =>
       op[t].kind \in Reads /\ \A k \in op[t].keys : op[t].fetched[k] # Null
  /\ op[t].phase # "filling" => op[t].slot = {}
  /\ op[t].slot \subseteq op[t].keys
  /\ op[t].gen <= generation

Linked == \A t \in Tasks : Placed(t)

\* The mutations that were called and have not begun are accounted for.
WithinBounds == generation + Cardinality(Mutators) <= MaxMutations

\* Once close was called the gate stays closed, once it returned also empty;
\* destroy comes after.
GateShut ==
  /\ closer # "none" => closed
  /\ closer = "done" => Drained

Shut ==
  /\ GateShut
  /\ destroyed => closer = "done"

\* Two mutations of one key that overlap know of each other.
Alone ==
  \A t, u \in Tasks : \A k \in Keys :
    t # u /\ Mutating(t, k) /\ Mutating(u, k) => ~op[t].alone

\* A mutation that was applied, and was alone, is what the backend holds.
Applied ==
  \A t \in Tasks : \A k \in Keys :
    Mutating(t, k) /\ op[t].phase = "answered" /\ op[t].alone =>
      backend[k] = IF op[t].kind \in Sets THEN op[t].gen + 1 ELSE Null

\* No mutation of k is between its effect on the backend and the one on L1.
Untouched(k) == \A t \in Tasks : ~(Mutating(t, k) /\ op[t].phase = "answered")

\* L1 agrees with the backend while no mutation of the key is between the two.
Cached == \A k \in Keys \ exposed : Untouched(k) => l1[k] \in {Null, backend[k]}

\* What a read is about to put into an empty slot of L1.
MayFill(t) == op[t].phase = "filling" \/ (op[t].phase = "answered" /\ Coherent(t))

\* A read that may still fill L1 either fetched what the backend holds, or
\* comes too late to find the slot empty; the slot it is about to fill it did
\* find empty.
Fetched ==
  \A k \in Keys \ exposed : Untouched(k) =>
    \A t \in Tasks : Reading(t, k) /\ MayFill(t) =>
      \/ l1[k] # Null /\ k \notin op[t].slot
      \/ op[t].fetched[k] \in {Null, backend[k]}

\* A read that noted its generation after a delete began is not held back by
\* it: its keys are exposed.
Deleting ==
  \A t, u \in Tasks : \A k \in Keys :
    /\ Reading(t, k) /\ Mutating(u, k)
    /\ op[u].kind = "delete" /\ op[t].gen >= op[u].gen
    => k \in exposed

\* The inductive invariant, in two layers: who is where, and what L1 holds.
PlacesInvariant == GateInv /\ TypeOK /\ Linked /\ WithinBounds /\ Shut
CacheInvariant == Alone /\ Applied /\ Cached /\ Fetched /\ Deleting

-----------------------------------------------------------------------------
\* Every step of the store is a step of its gate, or leaves the gate alone.
LEMMA StepsTheGate == [Next]_vars => [GateNext]_gate
<1> SUFFICES ASSUME [Next]_vars PROVE [GateNext]_gate
  OBVIOUS
<1>1. ASSUME NEW t \in Tasks, Return(t) PROVE GateNext
  BY <1>1 DEF Return, GateNext
<1>2. ASSUME NEW t \in Tasks, Resume(t) PROVE GateNext
  BY <1>2 DEF Resume, GateNext
<1>3. ASSUME NEW t \in Tasks, Body(t) PROVE Return(t) \/ UNCHANGED gate
  BY <1>3 DEF Body, LookUp, BeginRead, BeginMutation, BackendAnswers, BackendFails,
     CompleteRead, NextEntry, FillSlot, LookAtNext, GoOn, CompleteMutation
<1>4. ASSUME NEW t \in Tasks, NEW kind \in Ops, NEW ks \in SUBSET Keys, Call(t, kind, ks)
      PROVE  GateNext
  BY <1>4 DEF Call, GateNext
<1>5. ASSUME NEW k \in Keys, Evict(k) PROVE UNCHANGED gate
  BY <1>5 DEF Evict
<1>6. ASSUME CloseGate PROVE GateNext
  BY <1>6 DEF CloseGate, GateNext
<1>7. ASSUME DestroyStore PROVE UNCHANGED gate
  BY <1>7 DEF DestroyStore
<1>8. ASSUME UNCHANGED vars PROVE UNCHANGED gate
  BY <1>8 DEF vars
<1> QED BY <1>1, <1>2, <1>3, <1>4, <1>5, <1>6, <1>7, <1>8 DEF Next

\* A gate that is closed and empty stays so: its counters count nobody, so
\* nobody is there to leave, and nobody is let in.
LEMMA StaysShut ==
  ASSUME GateInv, GateShut, [GateNext]_gate
  PROVE  GateShut'
<1>0. status \in [Tasks -> Status]
  BY DEF GateInv, GateTypeOK
<1>1. CASE closer = "done"
  <2>1. closed /\ activeShared = 0 /\ ~exclusiveActive /\ pendingExclusive = 0
    BY <1>1 DEF GateShut, Drained
  <2>2. Sharing = {} /\ Excluding = {} /\ WaitingToExclude = {}
    BY <2>1, GroupsFinite DEF GateInv, CountersMatch
  <2>3. \A t \in Tasks : status[t] \notin {"shared", "exclusive", "waitExclusive"}
    BY <2>2 DEF Sharing, Excluding, WaitingToExclude
  <2>4. ASSUME NEW t \in Tasks,
               \/ RunShared(t) \/ ResumeShared(t) \/ ReleaseShared(t)
               \/ RunExclusive(t) \/ ResumeExclusive(t) \/ ReleaseExclusive(t)
        PROVE  UNCHANGED <<closed, activeShared, exclusiveActive, pendingExclusive>>
    BY <2>1, <2>3, <2>4 DEF RunShared, ResumeShared, ReleaseShared, RunExclusive,
       ResumeExclusive, ReleaseExclusive
  <2>5. ASSUME Close \/ ResumeClose PROVE FALSE
    BY <1>1, <2>5 DEF Close, ResumeClose
  <2>6. UNCHANGED <<closed, activeShared, exclusiveActive, pendingExclusive>>
    BY <2>4, <2>5 DEF GateNext, gate
  <2>7. closed' /\ activeShared' = 0 /\ pendingExclusive' = 0
    BY <2>1, <2>6
  <2>8. ~exclusiveActive'
    BY <2>1, <2>6
  <2> QED BY <2>7, <2>8 DEF GateShut, Drained
<1>2. CASE closer # "done"
  <2>1. ASSUME NEW t \in Tasks,
               \/ RunShared(t) \/ ResumeShared(t) \/ ReleaseShared(t)
               \/ RunExclusive(t) \/ ResumeExclusive(t) \/ ReleaseExclusive(t)
        PROVE  UNCHANGED closer /\ closed' = closed
    BY <2>1 DEF RunShared, ResumeShared, ReleaseShared, RunExclusive,
       ResumeExclusive, ReleaseExclusive
  <2>2. ASSUME Close PROVE GateShut'
    BY <2>2 DEF Close, GateShut, Drained
  <2>3. ASSUME ResumeClose PROVE GateShut'
    BY <2>3 DEF ResumeClose, GateShut, Drained
  <2> QED BY <1>2, <2>1, <2>2, <2>3 DEF GateShut, GateNext, gate, Drained
<1> QED BY <1>1, <1>2

-----------------------------------------------------------------------------
\* One operation's record changes, and no other's.
LEMMA OneOperation ==
  ASSUME op \in [Tasks -> OpType], NEW t \in Tasks, NEW o, OpBecomes(t, o)
  PROVE  op'[t] = o /\ \A u \in Tasks : u # t => op'[u] = op[u]
BY DEF OpBecomes

\* The operation that returns is gone from the records and from the gate.
LEMMA Returns ==
  ASSUME PlacesInvariant, NEW t \in Tasks, Return(t)
  PROVE  /\ op' = [op EXCEPT ![t] = NoOp]
         /\ op'[t] = NoOp
         /\ \A u \in Tasks : u # t => op'[u] = op[u]
         /\ status' = [status EXCEPT ![t] = "idle"]
         /\ UNCHANGED closed
<1>1. op \in [Tasks -> OpType]
  BY DEF PlacesInvariant, TypeOK
<1>2. op' = [op EXCEPT ![t] = NoOp]
  BY DEF Return, OpBecomes
<1>3. op'[t] = NoOp /\ \A u \in Tasks : u # t => op'[u] = op[u]
  BY <1>1, <1>2
<1>4. status' = [status EXCEPT ![t] = "idle"] /\ UNCHANGED closed
  BY DEF Return, ReleaseShared, ReleaseExclusive, Become
<1> QED BY <1>2, <1>3, <1>4

\* The records' own type.
LEMMA NoOpTyped == NoOp \in OpType
BY StoreAssumption DEF NoOp, OpType, Empty, Values, Null, StoreAssumption

\* Typing, one record at a time.
LEMMA OperationTyped ==
  ASSUME TypeOK, NEW t \in Tasks
  PROVE  /\ op[t] \in OpType
         /\ op[t].kind \in {"none", "get", "getBatch", "set", "setBatch", "delete", "clear"}
         /\ op[t].keys \in SUBSET Keys
         /\ op[t].phase \in {"none", "called", "missed", "sent", "answered", "filling"}
         /\ op[t].gen \in 0..MaxMutations
         /\ op[t].gen \in Nat
         /\ op[t].fetched \in [Keys -> Values]
         /\ op[t].slot \in SUBSET Keys
         /\ op[t].alone \in BOOLEAN
<1>1. op[t] \in OpType
  BY DEF TypeOK
<1>2. \A n \in 0..MaxMutations : n \in Nat
  BY StoreAssumption DEF StoreAssumption
<1> QED BY <1>1, <1>2 DEF OpType

\* Replacing one record by a typed one keeps the records typed.
LEMMA RecordTyped ==
  ASSUME op \in [Tasks -> OpType], NEW t \in Tasks, NEW o \in OpType, OpBecomes(t, o)
  PROVE  op' \in [Tasks -> OpType]
BY DEF OpBecomes

\* The generation has room for every mutation that was called.
LEMMA RoomToBegin ==
  ASSUME TypeOK, WithinBounds, NEW t \in Mutators
  PROVE  generation + 1 \in 0..MaxMutations
<1>1. IsFiniteSet(Mutators)
  BY FS_Subset, GateAssumption DEF GateAssumption, Mutators
<1>2. Cardinality(Mutators) \in Nat /\ Cardinality(Mutators) - 1 \in Nat
  BY <1>1, CountStep
<1> QED BY <1>2, StoreAssumption DEF TypeOK, WithinBounds, StoreAssumption

-----------------------------------------------------------------------------
\* A read that looked at a slot goes on about the entries that are left; the
\* slot it may fill next was empty.
ReadsOn(t) ==
  /\ UNCHANGED gate
  /\ op' = [op EXCEPT ![t] = op'[t]] /\ op'[t] \in OpType
  /\ op[t].phase = "answered" => Coherent(t)
  /\ op'[t].phase = "filling"
  /\ op'[t].kind = op[t].kind /\ op'[t].gen = op[t].gen
  /\ op'[t].alone = op[t].alone /\ op'[t].fetched = op[t].fetched
  /\ op'[t].keys \subseteq op[t].keys
  /\ \A k \in op'[t].keys : op[t].fetched[k] # Null
  /\ op'[t].slot \subseteq op'[t].keys
  /\ \A k \in op'[t].slot : l1[k] = Null

LEMMA GoesOnOrReturns ==
  ASSUME PlacesInvariant, NEW t \in Tasks, NEW ks, NEW slot, GoOn(t, ks, slot),
         ks \subseteq op[t].keys, slot \subseteq ks,
         op[t].phase = "answered" => Coherent(t),
         \A k \in ks : op[t].fetched[k] # Null,
         \A k \in slot : l1[k] = Null
  PROVE  Return(t) \/ ReadsOn(t)
<1> DEFINE o == [op[t] EXCEPT !.phase = "filling", !.keys = ks, !.slot = slot]
<1>0. TypeOK /\ op \in [Tasks -> OpType]
  BY DEF PlacesInvariant, TypeOK
<1>1. CASE Return(t)
  BY <1>1
<1>2. CASE OpBecomes(t, o) /\ UNCHANGED gate
  <2>1. ks \in SUBSET Keys /\ slot \in SUBSET Keys
    BY <1>0, OperationTyped
  <2>2. /\ o \in OpType /\ o.phase = "filling" /\ o.kind = op[t].kind /\ o.gen = op[t].gen
        /\ o.alone = op[t].alone /\ o.fetched = op[t].fetched
        /\ o.keys = ks /\ o.slot = slot
    BY <1>0, <2>1, OperationTyped DEF OpType
  <2> HIDE DEF o
  <2>3. op'[t] = o /\ op' = [op EXCEPT ![t] = o]
    BY <1>0, <1>2 DEF OpBecomes
  <2> QED BY <1>2, <2>2, <2>3 DEF ReadsOn
<1> QED BY <1>1, <1>2 DEF GoOn

LEMMA LooksOn ==
  ASSUME PlacesInvariant, NEW t \in Tasks, NEW ks, LookAtNext(t, ks),
         ks \subseteq op[t].keys,
         op[t].phase = "answered" => Coherent(t),
         \A k \in ks : op[t].fetched[k] # Null
  PROVE  Return(t) \/ ReadsOn(t)
<1> PICK k \in ks : IF l1[k] = Null THEN GoOn(t, ks, {k}) ELSE GoOn(t, ks \ {k}, {})
  BY DEF LookAtNext
<1>1. CASE l1[k] = Null
  <2>1. GoOn(t, ks, {k})
    BY <1>1
  <2> QED BY <1>1, <2>1, GoesOnOrReturns
<1>2. CASE l1[k] # Null
  <2>1. GoOn(t, ks \ {k}, {})
    BY <1>2
  <2> QED BY <2>1, GoesOnOrReturns
<1> QED BY <1>1, <1>2

\* The three steps of a read whose answer has come.
Populating(t) == CompleteRead(t) \/ NextEntry(t) \/ FillSlot(t)

LEMMA PopulatingStep ==
  ASSUME PlacesInvariant, NEW t \in Tasks, Populating(t)
  PROVE  /\ op[t].kind \in Reads /\ op[t].phase \in {"answered", "filling"}
         /\ UNCHANGED <<generation, backend, destroyed, exposed>>
         /\ Return(t) \/ ReadsOn(t)
<1>0. Placed(t)
  BY DEF PlacesInvariant, Linked
<1>1. CASE CompleteRead(t)
  <2> DEFINE found == {k \in op[t].keys : op[t].fetched[k] # Null}
  <2>1. CASE Coherent(t) /\ LookAtNext(t, found)
    BY <1>1, <2>1, LooksOn DEF CompleteRead, Is
  <2>2. CASE Return(t)
    BY <1>1, <2>2 DEF CompleteRead, Is
  <2> QED BY <1>1, <2>1, <2>2 DEF CompleteRead
<1>2. CASE NextEntry(t)
  BY <1>0, <1>2, LooksOn DEF NextEntry, Is, Placed
<1>3. CASE FillSlot(t)
  BY <1>0, <1>3, GoesOnOrReturns DEF FillSlot, Is, Placed
<1> QED BY <1>1, <1>2, <1>3 DEF Populating

\* What a mutation writes is a session value.
LEMMA WrittenTyped ==
  ASSUME TypeOK, NEW t \in Tasks
  PROVE  op[t].gen + 1 \in Values /\ op[t].gen + 1 # Null /\ Null \in Values
BY OperationTyped, StoreAssumption DEF Values, Null, StoreAssumption

\* Every step keeps the types of what the store adds to the gate.
LEMMA StepTyped == PlacesInvariant /\ [Next]_vars /\ GateTypeOK' => TypeOK'
<1> SUFFICES ASSUME PlacesInvariant, [Next]_vars PROVE
      /\ generation' \in 0..MaxMutations
      /\ l1' \in [Keys -> Values]
      /\ backend' \in [Keys -> Values]
      /\ op' \in [Tasks -> OpType]
      /\ destroyed' \in BOOLEAN
      /\ exposed' \subseteq Keys
  BY DEF TypeOK
<1> DEFINE Goal ==
      /\ generation' \in 0..MaxMutations
      /\ l1' \in [Keys -> Values]
      /\ backend' \in [Keys -> Values]
      /\ op' \in [Tasks -> OpType]
      /\ destroyed' \in BOOLEAN
      /\ exposed' \subseteq Keys
<1>0. /\ TypeOK
      /\ generation \in 0..MaxMutations
      /\ l1 \in [Keys -> Values]
      /\ backend \in [Keys -> Values]
      /\ op \in [Tasks -> OpType]
      /\ destroyed \in BOOLEAN
      /\ exposed \subseteq Keys
  BY DEF PlacesInvariant, TypeOK
<1>1. ASSUME NEW t \in Tasks, NEW o \in OpType, OpBecomes(t, o) PROVE op' \in [Tasks -> OpType]
  BY <1>0, <1>1, RecordTyped
<1>2. ASSUME NEW t \in Tasks, Return(t) PROVE op' \in [Tasks -> OpType]
  BY <1>0, <1>2, NoOpTyped, RecordTyped DEF Return
<1>3. ASSUME NEW t \in Tasks, NEW kind \in Ops, NEW ks \in SUBSET Keys, Call(t, kind, ks)
      PROVE  Goal
  <2>1. [NoOp EXCEPT !.kind = kind, !.keys = ks, !.phase = "called"] \in OpType
    BY NoOpTyped, StoreAssumption DEF OpType, StoreAssumption
  <2>2. op' \in [Tasks -> OpType]
    BY <1>1, <1>3, <2>1, NoOpTyped DEF Call
  <2> QED BY <1>0, <1>3, <2>2 DEF Call
<1>4. ASSUME NEW t \in Tasks, Resume(t) PROVE Goal
  <2>1. op' \in [Tasks -> OpType]
    BY <1>0, <1>4, NoOpTyped DEF Resume
  <2> QED BY <1>0, <1>4, <2>1 DEF Resume
<1>16. ASSUME NEW t \in Tasks, LookUp(t) PROVE Goal
  <2> DEFINE missing == {k \in op[t].keys : l1[k] = Null}
  <2>1. [op[t] EXCEPT !.phase = "missed", !.keys = missing] \in OpType
    BY <1>0, OperationTyped DEF OpType
  <2>2. op' \in [Tasks -> OpType]
    BY <1>1, <1>2, <1>16, <2>1 DEF LookUp
  <2> QED BY <1>0, <1>16, <2>2 DEF LookUp
<1>5. ASSUME NEW t \in Tasks, BeginRead(t) PROVE Goal
  <2>1. [op[t] EXCEPT !.phase = "sent", !.gen = generation] \in OpType
    BY <1>0, OperationTyped DEF OpType
  <2>2. op' \in [Tasks -> OpType]
    BY <1>1, <1>5, <2>1 DEF BeginRead
  <2>3. exposed' \subseteq Keys
    BY <1>0, <1>5, OperationTyped DEF BeginRead
  <2> QED BY <1>0, <1>5, <2>2, <2>3 DEF BeginRead
<1>6. ASSUME NEW t \in Tasks, BeginMutation(t) PROVE Goal
  <2>1. generation + 1 \in 0..MaxMutations
    BY <1>6, RoomToBegin DEF PlacesInvariant, BeginMutation, Is, Mutators
  <2>2. [op[t] EXCEPT !.phase = "sent", !.gen = generation + 1, !.alone = Overlapping(t) = {}]
          \in OpType
    BY <1>0, <2>1, OperationTyped DEF OpType
  <2>3. \A u \in Tasks : [op[u] EXCEPT !.alone = @ /\ u \notin Overlapping(t)] \in OpType
    BY <1>0, OperationTyped DEF OpType
  <2>4. op' \in [Tasks -> OpType]
    BY <1>6, <2>2, <2>3 DEF BeginMutation
  <2> QED BY <1>0, <1>6, <2>1, <2>4 DEF BeginMutation
<1>7. ASSUME NEW t \in Tasks, BackendAnswers(t) PROVE Goal
  <2> DEFINE f == [k \in Keys |-> IF op[t].kind \in Reads /\ k \in op[t].keys
                                  THEN backend[k] ELSE Null]
  <2>1. f \in [Keys -> Values]
    BY <1>0, WrittenTyped
  <2>2. [op[t] EXCEPT !.phase = "answered", !.fetched = f] \in OpType
    BY <1>0, <2>1, OperationTyped DEF OpType
  <2>3. op' \in [Tasks -> OpType]
    BY <1>1, <1>7, <2>2 DEF BackendAnswers
  <2>4. ASSUME NEW k \in Keys PROVE backend'[k] \in Values
    <3>1. k \notin op[t].keys => backend'[k] = backend[k]
      BY <1>7 DEF BackendAnswers
    <3>2. k \in op[t].keys =>
            backend'[k] = CASE op[t].kind \in Reads -> backend[k]
                            [] op[t].kind \in Sets -> op[t].gen + 1
                            [] op[t].kind \in {"delete", "clear"} -> Null
      BY <1>7 DEF BackendAnswers
    <3>3. op[t].kind \in {"get", "getBatch", "set", "setBatch", "delete", "clear"}
      BY <1>0, <1>7, OperationTyped DEF BackendAnswers, PlacesInvariant, Linked, Placed
    <3> QED BY <1>0, <3>1, <3>2, <3>3, WrittenTyped DEF Reads, Sets
  <2>5. backend' \in [Keys -> Values]
    BY <2>4, <1>7 DEF BackendAnswers
  <2> QED BY <1>0, <1>7, <2>3, <2>5 DEF BackendAnswers
<1>8. ASSUME NEW t \in Tasks, BackendFails(t) PROVE Goal
  BY <1>0, <1>2, <1>8, OperationTyped DEF BackendFails
<1>9. ASSUME NEW t \in Tasks, Populating(t) PROVE Goal
  <2>1. op' \in [Tasks -> OpType]
    BY <1>0, <1>2, <1>9, PopulatingStep DEF ReadsOn
  <2>2. l1' \in [Keys -> Values]
    BY <1>0, <1>9, OperationTyped DEF Populating, CompleteRead, NextEntry, FillSlot
  <2> QED BY <1>0, <1>9, <2>1, <2>2, PopulatingStep
<1>12. ASSUME NEW t \in Tasks, CompleteMutation(t) PROVE Goal
  <2>1. l1' \in [Keys -> Values]
    BY <1>0, <1>12, WrittenTyped DEF CompleteMutation
  <2>2. exposed' \subseteq Keys
    BY <1>0, <1>12, OperationTyped DEF CompleteMutation, Overtaking
  <2>3. op' \in [Tasks -> OpType] /\ UNCHANGED <<generation, backend, destroyed>>
    BY <1>2, <1>12 DEF CompleteMutation
  <2> QED BY <1>0, <2>1, <2>2, <2>3
<1>13. ASSUME NEW k \in Keys, Evict(k) PROVE Goal
  <2>1. Null \in Values
    BY StoreAssumption DEF Values, Null, StoreAssumption
  <2>2. l1' \in [Keys -> Values] /\ exposed' \subseteq Keys
    BY <1>0, <1>13, <2>1 DEF Evict
  <2> QED BY <1>0, <1>13, <2>2 DEF Evict
<1>14. ASSUME CloseGate \/ UNCHANGED vars PROVE Goal
  BY <1>0, <1>14 DEF CloseGate, cache, vars
<1>15. ASSUME DestroyStore PROVE Goal
  BY <1>0, <1>15, NoOpTyped DEF DestroyStore, NoOp, OpType
<1> QED
  BY <1>3, <1>4, <1>5, <1>6, <1>7, <1>8, <1>9, <1>12, <1>13, <1>14, <1>15, <1>16
  DEF Next, Body, Populating

-----------------------------------------------------------------------------
\* The caller whose record becomes NoOp as it leaves the gate is in place.
LEMMA ReturnPlaced ==
  ASSUME PlacesInvariant, NEW t \in Tasks, Return(t), UNCHANGED generation
  PROVE  Linked'
<1>1. /\ op'[t] = NoOp /\ status'[t] = "idle"
      /\ \A u \in Tasks : u # t => op'[u] = op[u] /\ status'[u] = status[u]
  BY Returns DEF PlacesInvariant, GateInv, GateTypeOK
<1>2. generation \in Nat
  BY StoreAssumption DEF PlacesInvariant, TypeOK, StoreAssumption
<1>3. Placed(t)'
  BY <1>1, <1>2 DEF Placed, NoOp
<1>4. ASSUME NEW u \in Tasks, u # t PROVE Placed(u)'
  BY <1>1, <1>4 DEF PlacesInvariant, Linked, Placed
<1> QED BY <1>3, <1>4 DEF Linked

\* An operation goes on inside the gate: only its record changes.
LEMMA GoesOnPlaced ==
  ASSUME PlacesInvariant, NEW t \in Tasks, NEW o, OpBecomes(t, o),
         UNCHANGED <<status, generation>>,
         Admitted(t), op[t].phase # "none",
         o.kind = op[t].kind, o.phase \in {"missed", "sent", "answered"},
         o.phase = "missed" => o.kind \in Reads, o.slot = {}, o.gen <= generation
  PROVE  Linked'
<1>1. op'[t] = o /\ \A u \in Tasks : u # t => op'[u] = op[u]
  BY OneOperation DEF PlacesInvariant, TypeOK
<1>2. Placed(t)'
  BY <1>1, OperationTyped DEF PlacesInvariant, Linked, Placed, Admitted, Reads
<1>3. ASSUME NEW u \in Tasks, u # t PROVE Placed(u)'
  BY <1>1, <1>3 DEF PlacesInvariant, Linked, Placed
<1> QED BY <1>2, <1>3 DEF Linked

\* Whoever is under way is inside the gate.
LEMMA InsideWhenUnderWay ==
  ASSUME PlacesInvariant, NEW t \in Tasks, op[t].phase \in {"sent", "answered", "filling"}
  PROVE  /\ Admitted(t)
         /\ op[t].kind # "none"
         /\ status[t] = IF op[t].kind = "clear" THEN "exclusive" ELSE "shared"
BY DEF PlacesInvariant, Linked, Placed, Admitted

LEMMA StepLinked == PlacesInvariant /\ [Next]_vars => Linked'
<1> SUFFICES ASSUME PlacesInvariant, [Next]_vars PROVE Linked'
  OBVIOUS
<1>0. /\ TypeOK /\ Linked
      /\ op \in [Tasks -> OpType]
      /\ status \in [Tasks -> Status]
      /\ generation \in Nat
  BY StoreAssumption DEF PlacesInvariant, TypeOK, GateTypeOK, StoreAssumption
<1>1. ASSUME NEW t \in Tasks, NEW kind \in Ops, NEW ks \in SUBSET Keys, Call(t, kind, ks)
      PROVE  Linked'
  <2> DEFINE o == [NoOp EXCEPT !.kind = kind, !.keys = ks, !.phase = "called"]
  <2>1. o.kind = kind /\ o.phase = "called" /\ o.gen = 0 /\ o.slot = {} /\ kind # "none"
    BY StoreAssumption DEF NoOp, StoreAssumption
  <2>2. op'[t] = (IF closed THEN NoOp ELSE o) /\ \A u \in Tasks : u # t => op'[u] = op[u]
    BY <1>0, <1>1, OneOperation DEF Call
  <2>3. /\ closed => status'[t] = "rejected"
        /\ ~closed => status'[t] \in IF kind = "clear" THEN {"waitExclusive", "exclusive"}
                                      ELSE {"waitShared", "shared"}
        /\ \A u \in Tasks : u # t => status'[u] = status[u]
    BY <1>0, <1>1 DEF Call, RunShared, RunExclusive, Become
  <2>4. Placed(t)'
    <3>1. CASE closed
      BY <1>0, <1>1, <2>2, <2>3, <3>1 DEF Placed, NoOp, Call
    <3>2. CASE ~closed
      <4>1. op'[t] = o /\ UNCHANGED generation
        BY <1>1, <2>2, <3>2 DEF Call
      <4> HIDE DEF o
      <4> QED BY <1>0, <2>1, <2>3, <3>2, <4>1 DEF Placed
    <3> QED BY <3>1, <3>2
  <2>5. ASSUME NEW u \in Tasks, u # t PROVE Placed(u)'
    BY <1>0, <1>1, <2>2, <2>3, <2>5 DEF Linked, Placed, Call
  <2> QED BY <2>4, <2>5 DEF Linked
<1>2. ASSUME NEW t \in Tasks, Resume(t) PROVE Linked'
  <2>1. /\ op[t].phase = "called"
        /\ status[t] \in {"waitShared", "waitExclusive"}
    BY <1>0, <1>2, OperationTyped DEF Resume, ResumeShared, ResumeExclusive, Linked, Placed
  <2>2. /\ closed => status'[t] = "rejected"
        /\ ~closed => \/ status'[t] = status[t]
                      \/ status[t] = "waitShared" /\ status'[t] = "shared"
                      \/ status[t] = "waitExclusive" /\ status'[t] = "exclusive"
        /\ \A u \in Tasks : u # t => status'[u] = status[u]
    BY <1>0, <1>2 DEF Resume, ResumeShared, ResumeExclusive, Become
  <2>3. /\ closed => op'[t] = NoOp
        /\ ~closed => op'[t] = op[t]
        /\ \A u \in Tasks : u # t => op'[u] = op[u]
    BY <1>0, <1>2 DEF Resume
  <2>4. Placed(t)'
    <3>1. CASE closed
      BY <1>0, <1>2, <2>2, <2>3, <3>1 DEF Placed, NoOp, Resume
    <3>2. CASE ~closed
      BY <1>0, <1>2, <2>1, <2>2, <2>3, <3>2 DEF Linked, Placed, Resume
    <3> QED BY <3>1, <3>2
  <2>5. ASSUME NEW u \in Tasks, u # t PROVE Placed(u)'
    BY <1>0, <1>2, <2>2, <2>3, <2>5 DEF Linked, Placed, Resume
  <2> QED BY <2>4, <2>5 DEF Linked
<1>3. ASSUME NEW t \in Tasks, LookUp(t) \/ BeginRead(t) PROVE Linked'
  <2>0. op[t].kind \in Reads /\ op[t].phase \in {"called", "missed"} /\ Admitted(t)
        /\ op[t].slot = {} /\ op[t].gen <= generation /\ UNCHANGED generation
    BY <1>0, <1>3 DEF LookUp, BeginRead, Is, Linked, Placed, Admitted
  <2>1. CASE Return(t)
    BY <2>0, <2>1, ReturnPlaced
  <2>2. CASE LookUp(t) /\ ~Return(t)
    <3> DEFINE o == [op[t] EXCEPT !.phase = "missed", !.keys = {k \in op[t].keys : l1[k] = Null}]
    <3>1. o.kind = op[t].kind /\ o.phase = "missed" /\ o.gen = op[t].gen /\ o.slot = op[t].slot
      BY <1>0, OperationTyped DEF OpType
    <3>2. OpBecomes(t, o) /\ UNCHANGED status
      BY <2>2 DEF LookUp, gate
    <3> HIDE DEF o
    <3> QED BY <2>0, <3>1, <3>2, GoesOnPlaced
  <2>3. CASE BeginRead(t)
    <3> DEFINE o == [op[t] EXCEPT !.phase = "sent", !.gen = generation]
    <3>1. o.kind = op[t].kind /\ o.phase = "sent" /\ o.gen = generation /\ o.slot = op[t].slot
      BY <1>0, OperationTyped DEF OpType
    <3>2. OpBecomes(t, o) /\ UNCHANGED status
      BY <2>3 DEF BeginRead, gate
    <3> HIDE DEF o
    <3> QED BY <1>0, <2>0, <3>1, <3>2, GoesOnPlaced
  <2> QED BY <1>3, <2>1, <2>2, <2>3
<1>4. ASSUME NEW t \in Tasks, BeginMutation(t) PROVE Linked'
  <2>1. /\ op'[t].phase = "sent" /\ op'[t].kind = op[t].kind /\ op'[t].gen = generation + 1
        /\ op'[t].slot = op[t].slot
        /\ \A u \in Tasks : u # t => /\ op'[u].phase = op[u].phase
                                      /\ op'[u].kind = op[u].kind
                                      /\ op'[u].gen = op[u].gen
                                      /\ op'[u].slot = op[u].slot
                                      /\ op'[u].keys = op[u].keys
                                      /\ op'[u].fetched = op[u].fetched
    BY <1>0, <1>4, OperationTyped DEF BeginMutation, OpType
  <2>2. /\ op[t].kind \in {"set", "setBatch", "delete", "clear"} /\ op[t].phase = "called"
        /\ op[t].slot = {}
        /\ status[t] = IF op[t].kind = "clear" THEN "exclusive" ELSE "shared"
    BY <1>0, <1>4 DEF Linked, Placed, BeginMutation, Is, Admitted, Mutations, Sets
  <2>3. UNCHANGED status /\ generation' = generation + 1
    BY <1>4 DEF BeginMutation, gate
  <2>4. Placed(t)'
    BY <1>0, <2>1, <2>2, <2>3 DEF Placed
  <2>5. ASSUME NEW u \in Tasks, u # t PROVE Placed(u)'
    <3>1. Placed(u) /\ op[u].gen \in Nat
      BY <1>0, OperationTyped DEF Linked
    <3> QED BY <1>0, <2>1, <2>3, <2>5, <3>1 DEF Placed
  <2> QED BY <2>4, <2>5 DEF Linked
<1>5. ASSUME NEW t \in Tasks, BackendAnswers(t) PROVE Linked'
  <2> DEFINE o == [op[t] EXCEPT !.phase = "answered",
                     !.fetched = [k \in Keys |-> IF op[t].kind \in Reads /\ k \in op[t].keys
                                                 THEN backend[k] ELSE Null]]
  <2>1. o.kind = op[t].kind /\ o.phase = "answered" /\ o.gen = op[t].gen
        /\ o.slot = op[t].slot
    BY <1>0, OperationTyped DEF OpType
  <2>2. OpBecomes(t, o)
    BY <1>5 DEF BackendAnswers
  <2>3. Admitted(t) /\ op[t].gen <= generation /\ op[t].slot = {}
    BY <1>0, <1>5, InsideWhenUnderWay DEF BackendAnswers, Linked, Placed
  <2> HIDE DEF o
  <2> QED BY <1>0, <1>5, <2>1, <2>2, <2>3, GoesOnPlaced DEF BackendAnswers, gate
<1>6. ASSUME NEW t \in Tasks, BackendFails(t) \/ CompleteMutation(t)
      PROVE  Linked'
  BY <1>6, ReturnPlaced DEF BackendFails, CompleteMutation
<1>7. ASSUME NEW t \in Tasks, Populating(t) PROVE Linked'
  <2>1. CASE Return(t)
    BY <1>7, <2>1, ReturnPlaced, PopulatingStep
  <2>2. CASE ReadsOn(t)
    <3>1. UNCHANGED <<status, generation>> /\ \A u \in Tasks : u # t => op'[u] = op[u]
      BY <1>0, <1>7, <2>2, PopulatingStep DEF ReadsOn, gate
    <3>2. Placed(t)'
      <4>1. /\ op[t].kind \in {"get", "getBatch"} /\ op[t].phase \in {"answered", "filling"}
            /\ status[t] = "shared" /\ op[t].gen <= generation
        BY <1>0, <1>7, PopulatingStep DEF Linked, Placed, Reads
      <4>2. /\ op'[t].phase = "filling" /\ op'[t].kind = op[t].kind /\ op'[t].gen = op[t].gen
            /\ op'[t].fetched = op[t].fetched /\ op'[t].slot \subseteq op'[t].keys
            /\ \A k \in op'[t].keys : op[t].fetched[k] # Null
        BY <2>2 DEF ReadsOn
      <4> QED BY <3>1, <4>1, <4>2 DEF Placed, Reads
    <3>3. ASSUME NEW u \in Tasks, u # t PROVE Placed(u)'
      BY <1>0, <3>1, <3>3 DEF Linked, Placed
    <3> QED BY <3>2, <3>3 DEF Linked
  <2> QED BY <1>7, <2>1, <2>2, PopulatingStep
<1>9. ASSUME (\E k \in Keys : Evict(k)) \/ CloseGate \/ DestroyStore \/ UNCHANGED vars
      PROVE  Linked'
  BY <1>0, <1>9 DEF Linked, Placed, Evict, CloseGate, Close, ResumeClose, DestroyStore, vars,
     cache, gate
<1> QED
  BY <1>1, <1>2, <1>3, <1>4, <1>5, <1>6, <1>7, <1>9 DEF Next, Body, Populating

-----------------------------------------------------------------------------
\* Mutations that begin or go are fewer to come.
LEMMA FewerMutators ==
  ASSUME TypeOK, NEW S, S \subseteq Mutators
  PROVE  /\ Cardinality(Mutators) \in Nat /\ Cardinality(S) \in Nat
         /\ Cardinality(S) <= Cardinality(Mutators)
<1>1. IsFiniteSet(Mutators)
  BY FS_Subset, GateAssumption DEF GateAssumption, Mutators
<1>2. IsFiniteSet(S) /\ Cardinality(S) <= Cardinality(Mutators)
  BY <1>1, FS_Subset
<1> QED BY <1>1, <1>2, FS_CardinalityType

\* Only Call makes a mutation wait to begin, and BeginMutation is the only
\* step that advances the generation.
LEMMA StepWithinBounds == PlacesInvariant /\ [Next]_vars => WithinBounds'
<1> SUFFICES ASSUME PlacesInvariant, [Next]_vars PROVE WithinBounds'
  OBVIOUS
<1>0. /\ TypeOK /\ Linked /\ WithinBounds
      /\ op \in [Tasks -> OpType]
      /\ generation \in Nat /\ MaxMutations \in Nat
  BY StoreAssumption DEF PlacesInvariant, TypeOK, StoreAssumption
<1>1. ASSUME Mutators' \subseteq Mutators, UNCHANGED generation PROVE WithinBounds'
  BY <1>0, <1>1, FewerMutators DEF WithinBounds
<1>2. ASSUME NEW t \in Tasks, Return(t), UNCHANGED generation PROVE WithinBounds'
  BY <1>1, <1>2, Returns DEF Mutators, NoOp
<1>3. ASSUME NEW t \in Tasks, NEW o, OpBecomes(t, o), o.phase # "called", UNCHANGED generation
      PROVE  WithinBounds'
  <2>1. op'[t] = o /\ \A u \in Tasks : u # t => op'[u] = op[u]
    BY <1>0, <1>3, OneOperation
  <2>2. Mutators' \subseteq Mutators
    BY <1>3, <2>1 DEF Mutators
  <2> QED BY <1>1, <1>3, <2>2
<1>4. ASSUME NEW t \in Tasks, NEW kind \in Ops, NEW ks \in SUBSET Keys, Call(t, kind, ks)
      PROVE  WithinBounds'
  <2> DEFINE o == [NoOp EXCEPT !.kind = kind, !.keys = ks, !.phase = "called"]
  <2>1. UNCHANGED generation
    BY <1>4 DEF Call
  <2>2. CASE closed \/ kind \in Reads
    <3>1. op'[t].phase # "called" \/ op'[t].kind \notin Mutations
      <4>1. OpBecomes(t, IF closed THEN NoOp ELSE o)
        BY <1>4 DEF Call
      <4>2. op'[t] = IF closed THEN NoOp ELSE o
        BY <1>0, <4>1, OneOperation
      <4>3. NoOp.phase # "called" /\ o.kind = kind
        BY DEF NoOp
      <4> QED BY <2>2, <4>2, <4>3 DEF Reads, Mutations, Sets
    <3>2. \A u \in Tasks : u # t => op'[u] = op[u]
      BY <1>0, <1>4, OneOperation DEF Call
    <3>3. Mutators' \subseteq Mutators
      BY <3>1, <3>2 DEF Mutators
    <3> QED BY <1>1, <2>1, <3>3
  <2>3. CASE ~closed /\ kind \notin Reads
    <3>1. generation + Cardinality(Mutators) < MaxMutations
      BY <1>4, <2>3 DEF Call
    <3>2. Mutators' \subseteq Mutators \cup {t}
      BY <1>0, <1>4, OneOperation DEF Call, Mutators
    <3>3. IsFiniteSet(Mutators) /\ IsFiniteSet(Mutators \cup {t})
      BY FS_Subset, GateAssumption DEF GateAssumption, Mutators
    <3>4. /\ Cardinality(Mutators) \in Nat
          /\ Cardinality(Mutators \cup {t}) <= Cardinality(Mutators) + 1
      <4>1. CASE t \in Mutators
        <5>1. Mutators \cup {t} = Mutators
          BY <4>1
        <5>2. Cardinality(Mutators) \in Nat
          BY <3>3, CountStep
        <5>3. Cardinality(Mutators \cup {t}) = Cardinality(Mutators)
          BY <5>1, Zenon
        <5> QED BY <5>2, <5>3
      <4>2. CASE t \notin Mutators
        <5>1. /\ Cardinality(Mutators) \in Nat
              /\ Cardinality(Mutators \cup {t}) = Cardinality(Mutators) + 1
          BY <3>3, <4>2, CountStep
        <5> QED BY <5>1
      <4> QED BY <4>1, <4>2
    <3>5. /\ Cardinality(Mutators') <= Cardinality(Mutators \cup {t})
          /\ IsFiniteSet(Mutators')
      BY <3>2, <3>3, FS_Subset
    <3>6. Cardinality(Mutators') \in Nat /\ Cardinality(Mutators \cup {t}) \in Nat
      BY <3>3, <3>5, FS_CardinalityType
    <3> QED BY <1>0, <2>1, <3>1, <3>4, <3>5, <3>6 DEF WithinBounds
  <2> QED BY <2>2, <2>3
<1>5. ASSUME NEW t \in Tasks, Resume(t) PROVE WithinBounds'
  BY <1>0, <1>1, <1>5 DEF Resume, Mutators, NoOp
<1>6. ASSUME NEW t \in Tasks, LookUp(t) \/ BeginRead(t) PROVE WithinBounds'
  <2>1. /\ [op[t] EXCEPT !.phase = "missed", !.keys = {k \in op[t].keys : l1[k] = Null}].phase
             = "missed"
        /\ [op[t] EXCEPT !.phase = "sent", !.gen = generation].phase = "sent"
    BY <1>0, OperationTyped DEF OpType
  <2> QED BY <1>2, <1>3, <1>6, <2>1 DEF LookUp, BeginRead
<1>7. ASSUME NEW t \in Tasks, BeginMutation(t) PROVE WithinBounds'
  <2>1. /\ op'[t].phase = "sent"
        /\ \A u \in Tasks : u # t => op'[u].phase = op[u].phase /\ op'[u].kind = op[u].kind
    BY <1>0, <1>7, OperationTyped DEF BeginMutation, OpType
  <2>2. t \in Mutators /\ Mutators' = Mutators \ {t} /\ generation' = generation + 1
    BY <1>7, <2>1 DEF BeginMutation, Is, Mutators
  <2>3. IsFiniteSet(Mutators)
    BY FS_Subset, GateAssumption DEF GateAssumption, Mutators
  <2>4. /\ Cardinality(Mutators) \in Nat
        /\ Cardinality(Mutators') = Cardinality(Mutators) - 1
    BY <2>2, <2>3, CountStep
  <2> QED BY <1>0, <2>2, <2>4 DEF WithinBounds
<1>8. ASSUME NEW t \in Tasks, BackendAnswers(t) PROVE WithinBounds'
  <2> DEFINE o == [op[t] EXCEPT !.phase = "answered",
                     !.fetched = [k \in Keys |-> IF op[t].kind \in Reads /\ k \in op[t].keys
                                                 THEN backend[k] ELSE Null]]
  <2>1. o.phase = "answered" /\ OpBecomes(t, o) /\ UNCHANGED generation
    BY <1>0, <1>8, OperationTyped DEF OpType, BackendAnswers
  <2> HIDE DEF o
  <2> QED BY <1>3, <2>1
<1>9. ASSUME NEW t \in Tasks, BackendFails(t) \/ CompleteMutation(t)
      PROVE  WithinBounds'
  BY <1>2, <1>9 DEF BackendFails, CompleteMutation
<1>10. ASSUME NEW t \in Tasks, Populating(t) PROVE WithinBounds'
  <2>1. CASE ReadsOn(t)
    <3>1. Mutators' \subseteq Mutators /\ UNCHANGED generation
      BY <1>0, <1>10, <2>1, PopulatingStep DEF ReadsOn, Mutators
    <3> QED BY <1>1, <3>1
  <2> QED BY <1>2, <1>10, <2>1, PopulatingStep
<1>12. ASSUME (\E k \in Keys : Evict(k)) \/ CloseGate \/ DestroyStore \/ UNCHANGED vars
       PROVE  WithinBounds'
  BY <1>1, <1>12 DEF Evict, CloseGate, DestroyStore, vars, cache, Mutators
<1> QED
  BY <1>4, <1>5, <1>6, <1>7, <1>8, <1>9, <1>10, <1>12 DEF Next, Body, Populating

\* destroy goes on only after close returned.
LEMMA StepShut == PlacesInvariant /\ [Next]_vars => Shut'
<1> SUFFICES ASSUME PlacesInvariant, [Next]_vars PROVE Shut'
  OBVIOUS
<1>1. GateShut'
  BY StepsTheGate, StaysShut DEF PlacesInvariant, Shut
<1>2. closer = "done" => closer' = "done"
  <2>1. [GateNext]_gate
    BY StepsTheGate
  <2> QED
    BY <2>1 DEF GateNext, gate, RunShared, ResumeShared, ReleaseShared, RunExclusive,
       ResumeExclusive, ReleaseExclusive, Close, ResumeClose
<1>3. destroyed' => destroyed \/ closer = "done"
  BY DEF Next, Body, Call, Resume, LookUp, BeginRead, BeginMutation, BackendAnswers,
     BackendFails, CompleteRead, NextEntry, FillSlot, CompleteMutation, Evict, CloseGate,
     cache, DestroyStore, vars
<1> QED BY <1>1, <1>2, <1>3 DEF PlacesInvariant, Shut

\* Nothing has been called yet.
LEMMA InitPlaces == Init => PlacesInvariant
<1> SUFFICES ASSUME Init PROVE PlacesInvariant
  OBVIOUS
<1>1. GateInv
  BY InitGateInv DEF Init
<1>2. TypeOK
  <2>1. Null \in Values /\ 0 \in Values /\ 1 \in Values /\ 0 \in 0..MaxMutations
    BY StoreAssumption DEF Values, Null, StoreAssumption
  <2>2. l1 \in [Keys -> Values] /\ backend \in [Keys -> Values]
    BY <2>1 DEF Init, Empty
  <2>3. op \in [Tasks -> OpType]
    BY NoOpTyped DEF Init
  <2> QED BY <1>1, <2>1, <2>2, <2>3 DEF Init, GateInv, TypeOK
<1>3. Linked
  BY DEF Init, GateInit, Linked, Placed, NoOp
<1>4. WithinBounds
  <2>1. Mutators = {}
    BY DEF Init, Mutators, NoOp
  <2> QED BY <2>1, FS_EmptySet, StoreAssumption DEF Init, WithinBounds, StoreAssumption
<1>5. Shut
  BY DEF Init, GateInit, Shut, GateShut
<1> QED BY <1>1, <1>2, <1>3, <1>4, <1>5 DEF PlacesInvariant

LEMMA StepPlaces == PlacesInvariant /\ [Next]_vars => PlacesInvariant'
<1> SUFFICES ASSUME PlacesInvariant, [Next]_vars PROVE PlacesInvariant'
  OBVIOUS
<1>1. GateInv'
  BY StepsTheGate, StepGateInv DEF PlacesInvariant
<1>2. TypeOK'
  BY <1>1, StepTyped DEF GateInv
<1> QED BY <1>1, <1>2, StepLinked, StepWithinBounds, StepShut DEF PlacesInvariant

\* The fields of the gate, the records of the operations, L1 and the backend
\* stay in their types, and the generation within its bound.
THEOREM StoreTyping == Spec => []TypeOK
<1>1. Init => PlacesInvariant
  BY InitPlaces
<1>2. PlacesInvariant /\ [Next]_vars => PlacesInvariant'
  BY StepPlaces
<1>3. PlacesInvariant => TypeOK
  BY DEF PlacesInvariant
<1> QED BY <1>1, <1>2, <1>3, PTL DEF Spec

\* Once destroy went on to the cache and the backend, the gate of
\* withSessionLock has nobody inside and lets nobody in: no operation that was
\* waiting, or that is called later, uses what was destroyed.
THEOREM DestroyedIsLeftAlone == Spec => []NoUseAfterDestroy
<1>1. Init => PlacesInvariant
  BY InitPlaces
<1>2. PlacesInvariant /\ [Next]_vars => PlacesInvariant'
  BY StepPlaces
<1>3. PlacesInvariant => NoUseAfterDestroy
  <2> SUFFICES ASSUME PlacesInvariant, destroyed, NEW t \in Tasks, Admitted(t) PROVE FALSE
    BY DEF NoUseAfterDestroy
  <2>1. activeShared = 0 /\ ~exclusiveActive
    BY DEF PlacesInvariant, Shut, GateShut, Drained
  <2>2. Sharing = {} /\ Excluding = {}
    BY <2>1, GroupsFinite DEF PlacesInvariant, GateInv, CountersMatch
  <2> QED BY <2>2 DEF Admitted, Sharing, Excluding
<1> QED BY <1>1, <1>2, <1>3, PTL DEF Spec

-----------------------------------------------------------------------------
\* An operation that is under way goes on about the same keys, or fewer.
GoesOn(t) ==
  /\ op[t].phase \in {"sent", "answered", "filling"}
  /\ op'[t].kind = op[t].kind
  /\ op'[t].keys \subseteq op[t].keys
  /\ op'[t].gen = op[t].gen
  /\ op'[t].alone => op[t].alone
  /\ \A k \in op'[t].slot : k \in op[t].slot \/ l1[k] = Null
  /\ \/ op'[t].phase = op[t].phase /\ op'[t].fetched = op[t].fetched
     \/ op'[t].phase = "answered" /\ BackendAnswers(t)
     \/ /\ op[t].phase = "answered" /\ op'[t].phase = "filling" /\ Coherent(t)
        /\ op'[t].fetched = op[t].fetched

\* What a read that missed notes as it begins.
LEMMA ReadBegins ==
  ASSUME TypeOK, NEW t \in Tasks, BeginRead(t)
  PROVE  /\ op'[t].kind = op[t].kind /\ op'[t].kind \in Reads
         /\ op'[t].keys = op[t].keys /\ op'[t].slot = op[t].slot
         /\ op[t].phase = "missed" /\ op'[t].phase = "sent" /\ op'[t].gen = generation
         /\ \A k \in op'[t].keys : UnderWay({"delete"}, k) => k \in exposed'
         /\ \A u \in Tasks : u # t => op'[u] = op[u]
<1> DEFINE o == [op[t] EXCEPT !.phase = "sent", !.gen = generation]
<1>0. op \in [Tasks -> OpType]
  BY DEF TypeOK
<1>1. /\ o.kind = op[t].kind /\ o.phase = "sent" /\ o.gen = generation
      /\ o.keys = op[t].keys /\ o.slot = op[t].slot
  BY OperationTyped DEF OpType
<1>2. op[t].kind \in Reads /\ op[t].phase = "missed"
  BY DEF BeginRead, Is
<1>3. exposed' = exposed \cup {k \in op[t].keys : UnderWay({"delete"}, k)} /\ OpBecomes(t, o)
  BY DEF BeginRead
<1> HIDE DEF o
<1>4. op'[t] = o /\ \A u \in Tasks : u # t => op'[u] = op[u]
  BY <1>0, <1>3, OneOperation
<1> QED BY <1>1, <1>2, <1>3, <1>4

\* A read that looks into L1 is not under way before, nor after.
LEMMA LooksUp ==
  ASSUME TypeOK, NEW t \in Tasks, LookUp(t)
  PROVE  /\ op[t].phase = "called" /\ op'[t].phase \in {"none", "missed"}
         /\ \A u \in Tasks : u # t => op'[u] = op[u]
<1> DEFINE o == [op[t] EXCEPT !.phase = "missed", !.keys = {k \in op[t].keys : l1[k] = Null}]
<1>0. op \in [Tasks -> OpType] /\ op[t].phase = "called"
  BY DEF TypeOK, LookUp, Is
<1>1. o.phase = "missed" /\ NoOp.phase = "none"
  BY OperationTyped DEF OpType, NoOp
<1>2. OpBecomes(t, o) \/ OpBecomes(t, NoOp)
  BY DEF LookUp, Return
<1> HIDE DEF o
<1> QED BY <1>0, <1>1, <1>2, OneOperation

\* What a mutation notes as it begins, and what the others then know.
LEMMA MutationBegins ==
  ASSUME TypeOK, NEW t \in Tasks, BeginMutation(t)
  PROVE  /\ op'[t].kind = op[t].kind /\ op'[t].kind \in Mutations
         /\ op'[t].keys = op[t].keys
         /\ op'[t].phase = "sent" /\ op'[t].gen = generation + 1
         /\ op'[t].alone => Overlapping(t) = {}
         /\ op'[t].slot = op[t].slot
         /\ \A u \in Tasks : u # t =>
              /\ op'[u].kind = op[u].kind /\ op'[u].keys = op[u].keys
              /\ op'[u].phase = op[u].phase /\ op'[u].gen = op[u].gen
              /\ op'[u].fetched = op[u].fetched /\ op'[u].slot = op[u].slot
              /\ op'[u].alone => op[u].alone /\ u \notin Overlapping(t)
<1>1. op'[t] = [op[t] EXCEPT !.phase = "sent", !.gen = generation + 1,
                            !.alone = Overlapping(t) = {}]
  BY DEF BeginMutation
<1>2. ASSUME NEW u \in Tasks, u # t
      PROVE  op'[u] = [op[u] EXCEPT !.alone = @ /\ u \notin Overlapping(t)]
  BY <1>2 DEF BeginMutation
<1>3. op[t].kind \in Mutations
  BY DEF BeginMutation, Is
<1> HIDE DEF Overlapping
<1>4. /\ op'[t].kind = op[t].kind /\ op'[t].keys = op[t].keys
      /\ op'[t].phase = "sent" /\ op'[t].gen = generation + 1
      /\ op'[t].alone = (Overlapping(t) = {}) /\ op'[t].slot = op[t].slot
  BY <1>1, OperationTyped DEF OpType
<1>5. ASSUME NEW u \in Tasks, u # t
      PROVE  /\ op'[u].kind = op[u].kind /\ op'[u].keys = op[u].keys
             /\ op'[u].phase = op[u].phase /\ op'[u].gen = op[u].gen
             /\ op'[u].fetched = op[u].fetched /\ op'[u].slot = op[u].slot
             /\ op'[u].alone = (op[u].alone /\ u \notin Overlapping(t))
  BY <1>2, <1>5, OperationTyped DEF OpType
<1> QED BY <1>3, <1>4, <1>5

\* After a step an operation is not under way, or began, or goes on.
LEMMA UnderWayFrom ==
  ASSUME PlacesInvariant, [Next]_vars, NEW u \in Tasks,
         op'[u].phase \in {"sent", "answered", "filling"}
  PROVE  GoesOn(u) \/ BeginRead(u) \/ BeginMutation(u)
<1> DEFINE Goal == GoesOn(u) \/ BeginRead(u) \/ BeginMutation(u)
<1>0. TypeOK /\ op \in [Tasks -> OpType]
  BY DEF PlacesInvariant, TypeOK
<1>1. ASSUME op'[u] = op[u] PROVE Goal
  BY <1>0, <1>1, OperationTyped DEF GoesOn
<1>2. ASSUME NEW t \in Tasks, Return(t) PROVE Goal
  BY <1>1, <1>2, Returns DEF NoOp
<1>3. ASSUME NEW t \in Tasks, NEW kind \in Ops, NEW ks \in SUBSET Keys, Call(t, kind, ks)
      PROVE  Goal
  <2>1. op'[u] \in {op[u], NoOp, [NoOp EXCEPT !.kind = kind, !.keys = ks, !.phase = "called"]}
    BY <1>0, <1>3, OneOperation DEF Call
  <2>2. /\ NoOp.phase = "none"
        /\ [NoOp EXCEPT !.kind = kind, !.keys = ks, !.phase = "called"].phase = "called"
    BY DEF NoOp
  <2> QED BY <1>1, <2>1, <2>2
<1>4. ASSUME NEW t \in Tasks, Resume(t) PROVE Goal
  BY <1>0, <1>1, <1>4 DEF Resume, NoOp
<1>5. ASSUME NEW t \in Tasks, LookUp(t) \/ BeginRead(t) PROVE Goal
  BY <1>0, <1>1, <1>5, ReadBegins, LooksUp
<1>6. ASSUME NEW t \in Tasks, BeginMutation(t) PROVE Goal
  BY <1>0, <1>6, MutationBegins, OperationTyped DEF GoesOn
<1>7. ASSUME NEW t \in Tasks, BackendAnswers(t) PROVE Goal
  <2> DEFINE o == [op[t] EXCEPT !.phase = "answered",
                     !.fetched = [k \in Keys |-> IF op[t].kind \in Reads /\ k \in op[t].keys
                                                 THEN backend[k] ELSE Null]]
  <2>1. /\ o.kind = op[t].kind /\ o.keys = op[t].keys /\ o.gen = op[t].gen
        /\ o.alone = op[t].alone /\ o.phase = "answered" /\ o.slot = op[t].slot
    BY <1>0, OperationTyped DEF OpType
  <2>2. OpBecomes(t, o) /\ op[t].phase = "sent"
    BY <1>7 DEF BackendAnswers
  <2> HIDE DEF o
  <2>3. op'[t] = o /\ \A v \in Tasks : v # t => op'[v] = op[v]
    BY <1>0, <2>2, OneOperation
  <2>4. GoesOn(t)
    BY <1>7, <2>1, <2>2, <2>3 DEF GoesOn
  <2> QED BY <1>1, <2>3, <2>4
<1>8. ASSUME NEW t \in Tasks, BackendFails(t) \/ CompleteMutation(t)
      PROVE  Goal
  BY <1>2, <1>8 DEF BackendFails, CompleteMutation
<1>9. ASSUME NEW t \in Tasks, Populating(t) PROVE Goal
  <2>1. CASE ReadsOn(t) /\ u = t
    BY <1>9, <2>1, PopulatingStep DEF ReadsOn, GoesOn
  <2>2. CASE ReadsOn(t) /\ u # t
    <3>1. op'[u] = op[u]
      BY <1>0, <2>2 DEF ReadsOn
    <3> QED BY <1>1, <3>1
  <2> QED BY <1>2, <1>9, <2>1, <2>2, PopulatingStep
<1>11. ASSUME (\E k \in Keys : Evict(k)) \/ CloseGate \/ DestroyStore \/ UNCHANGED vars
       PROVE  Goal
  BY <1>1, <1>11 DEF Evict, CloseGate, DestroyStore, vars, cache
<1> QED
  BY <1>3, <1>4, <1>5, <1>6, <1>7, <1>8, <1>9, <1>11 DEF Next, Body, Populating

\* A key is hidden again only by a mutation of it that was alone, and was no
\* delete.
LEMMA ExposedUntil ==
  ASSUME PlacesInvariant, [Next]_vars, NEW k \in exposed, k \notin exposed'
  PROVE  \E t \in Tasks : /\ CompleteMutation(t) /\ op[t].alone /\ op[t].kind # "delete"
                          /\ k \in op[t].keys
<1>1. ASSUME NEW t \in Tasks, CompleteMutation(t)
      PROVE  op[t].alone /\ op[t].kind # "delete" /\ k \in op[t].keys
  BY <1>1 DEF CompleteMutation
<1>2. ASSUME NEW t \in Tasks, Body(t), ~CompleteMutation(t) PROVE FALSE
  BY <1>2 DEF Body, LookUp, BeginRead, BeginMutation, BackendAnswers, BackendFails,
     CompleteRead, NextEntry, FillSlot
<1>3. ASSUME NEW t \in Tasks, Resume(t) PROVE FALSE
  BY <1>3 DEF Resume
<1>4. ASSUME NEW t \in Tasks, NEW kind \in Ops, NEW ks \in SUBSET Keys, Call(t, kind, ks)
      PROVE  FALSE
  BY <1>4 DEF Call
<1>5. ASSUME (\E i \in Keys : Evict(i)) \/ CloseGate \/ DestroyStore \/ UNCHANGED vars
      PROVE  FALSE
  BY <1>5 DEF Evict, CloseGate, DestroyStore, vars, cache
<1> QED BY <1>1, <1>2, <1>3, <1>4, <1>5 DEF Next

-----------------------------------------------------------------------------
\* Mutations of one key that overlap keep knowing of each other.
LEMMA StepAlone == PlacesInvariant /\ Alone /\ [Next]_vars => Alone'
<1> SUFFICES ASSUME PlacesInvariant, Alone, [Next]_vars,
                    NEW t \in Tasks, NEW u \in Tasks, NEW k \in Keys,
                    t # u, Mutating(t, k)', Mutating(u, k)', op'[t].alone
             PROVE  FALSE
  BY DEF Alone
<1>1. /\ op'[t].kind \in Mutations /\ k \in op'[t].keys
      /\ op'[t].phase \in {"sent", "answered", "filling"}
      /\ op'[u].kind \in Mutations /\ k \in op'[u].keys
      /\ op'[u].phase \in {"sent", "answered", "filling"}
  BY DEF Mutating, Under
<1>2. TypeOK /\ Linked
  BY DEF PlacesInvariant
<1>3. \A v \in Tasks : op'[v].kind \in Mutations => ~BeginRead(v)
  BY <1>2, ReadBegins DEF Mutations, Sets, Reads, NoOp
<1>4. /\ GoesOn(t) \/ BeginMutation(t)
      /\ GoesOn(u) \/ BeginMutation(u)
  BY <1>1, <1>3, UnderWayFrom
<1>5. ASSUME NEW v \in Tasks, NEW w \in Tasks, v # w, BeginMutation(v),
             op'[w].kind \in Mutations, k \in op'[w].keys, k \in op'[v].keys,
             op'[w].phase \in {"sent", "answered", "filling"}
      PROVE  ~op'[v].alone /\ ~op'[w].alone
  <2>1. /\ op[w].kind \in Mutations /\ k \in op[w].keys /\ k \in op[v].keys
        /\ op[w].phase \in {"sent", "answered", "filling"}
    BY <1>2, <1>5, MutationBegins
  <2>2. op[w].phase # "filling"
    BY <1>2, <2>1 DEF Linked, Placed, Mutations, Sets, Reads
  <2>3. w \in Overlapping(v)
    BY <1>5, <2>1, <2>2 DEF Overlapping
  <2> QED BY <1>2, <1>5, <2>3, MutationBegins
<1>6. CASE BeginMutation(t) \/ BeginMutation(u)
  BY <1>1, <1>5, <1>6
<1>7. CASE GoesOn(t) /\ GoesOn(u)
  <2>1. Mutating(t, k) /\ Mutating(u, k) /\ op[t].alone
    BY <1>1, <1>7 DEF GoesOn, Mutating, Under
  <2> QED BY <2>1 DEF Alone
<1> QED BY <1>4, <1>6, <1>7

\* A read that noted its generation while a delete was under way stays exposed
\* as long as both last.
LEMMA StepDeleting ==
  PlacesInvariant /\ Alone /\ Deleting /\ [Next]_vars => Deleting'
<1> SUFFICES ASSUME PlacesInvariant, Alone, Deleting, [Next]_vars,
                    NEW t \in Tasks, NEW u \in Tasks, NEW k \in Keys,
                    Reading(t, k)', Mutating(u, k)', op'[u].kind = "delete",
                    op'[t].gen >= op'[u].gen, k \notin exposed'
             PROVE  FALSE
  BY DEF Deleting
<1>1. /\ op'[t].kind \in Reads /\ k \in op'[t].keys
      /\ op'[t].phase \in {"sent", "answered", "filling"}
      /\ op'[u].kind \in Mutations /\ k \in op'[u].keys
      /\ op'[u].phase \in {"sent", "answered", "filling"}
      /\ t # u
  BY DEF Mutating, Reading, Under, Reads, Mutations, Sets
<1>2. TypeOK /\ Linked /\ generation \in Nat
  BY StoreAssumption DEF PlacesInvariant, TypeOK, StoreAssumption
<1>3. ~BeginRead(u)
  BY <1>1, <1>2, ReadBegins DEF Mutations, Sets, Reads, NoOp
<1>4. ~BeginMutation(t)
  BY <1>1, <1>2, MutationBegins DEF Mutations, Sets, Reads
<1>5. CASE BeginMutation(u)
  <2>1. op'[u].gen = generation + 1 /\ op'[t].gen = op[t].gen
    BY <1>1, <1>2, <1>5, MutationBegins
  <2>2. op[t].gen \in Nat /\ op[t].gen <= generation
    BY <1>2, OperationTyped DEF Linked, Placed
  <2> QED BY <1>2, <2>1, <2>2
<1>6. CASE BeginRead(t) /\ GoesOn(u)
  <2>1. UnderWay({"delete"}, k)
    BY <1>1, <1>6 DEF GoesOn, UnderWay
  <2> QED BY <1>1, <1>2, <1>6, <2>1, ReadBegins
<1>7. CASE GoesOn(t) /\ GoesOn(u)
  <2>1. Reading(t, k) /\ Mutating(u, k) /\ op[u].kind = "delete" /\ op[t].gen >= op[u].gen
    BY <1>1, <1>7 DEF GoesOn, Reading, Mutating, Under
  <2>2. k \in exposed
    BY <2>1 DEF Deleting
  <2>3. PICK v \in Tasks : /\ CompleteMutation(v) /\ op[v].alone /\ op[v].kind # "delete"
                            /\ k \in op[v].keys
    BY <2>2, ExposedUntil
  <2>4. Mutating(v, k)
    BY <2>3 DEF CompleteMutation, Is, Mutating, Under
  <2> QED BY <2>1, <2>3, <2>4 DEF Alone
<1> QED BY <1>1, <1>3, <1>4, <1>5, <1>6, <1>7, UnderWayFrom

-----------------------------------------------------------------------------
\* What the backend does to a key when it answers one operation.
LEMMA AnswerEffect ==
  ASSUME PlacesInvariant, NEW t \in Tasks, BackendAnswers(t), NEW k \in Keys
  PROVE  /\ op[t].phase = "sent" /\ op'[t].phase = "answered"
         /\ op'[t].kind = op[t].kind /\ op'[t].keys = op[t].keys /\ op'[t].gen = op[t].gen
         /\ op'[t].fetched[k] = IF op[t].kind \in Reads /\ k \in op[t].keys
                                THEN backend[k] ELSE Null
         /\ k \notin op[t].keys \/ op[t].kind \notin Mutations => backend'[k] = backend[k]
         /\ k \in op[t].keys /\ op[t].kind \in Mutations =>
              backend'[k] = IF op[t].kind \in Sets THEN op[t].gen + 1 ELSE Null
<1> DEFINE f == [i \in Keys |-> IF op[t].kind \in Reads /\ i \in op[t].keys
                                THEN backend[i] ELSE Null]
           o == [op[t] EXCEPT !.phase = "answered", !.fetched = f]
<1>0. TypeOK /\ op \in [Tasks -> OpType]
  BY DEF PlacesInvariant, TypeOK
<1>1. /\ o.phase = "answered" /\ o.kind = op[t].kind /\ o.keys = op[t].keys
      /\ o.gen = op[t].gen /\ o.fetched = f
  BY <1>0, OperationTyped DEF OpType
<1>2. OpBecomes(t, o) /\ op[t].phase = "sent"
  BY DEF BackendAnswers
<1>3. /\ k \notin op[t].keys => backend'[k] = backend[k]
      /\ k \in op[t].keys =>
           backend'[k] = CASE op[t].kind \in Reads -> backend[k]
                           [] op[t].kind \in Sets -> op[t].gen + 1
                           [] op[t].kind \in {"delete", "clear"} -> Null
  BY DEF BackendAnswers
<1>4. op[t].kind \in {"get", "getBatch", "set", "setBatch", "delete", "clear"}
  BY <1>0, <1>2, OperationTyped DEF PlacesInvariant, Linked, Placed
<1>5. op[t].kind \in Mutations => op[t].kind \notin Reads
  BY DEF Mutations, Sets, Reads
<1>6. k \notin op[t].keys \/ op[t].kind \notin Mutations => backend'[k] = backend[k]
  BY <1>3, <1>4 DEF Mutations, Sets, Reads
<1>7. k \in op[t].keys /\ op[t].kind \in Mutations =>
        backend'[k] = IF op[t].kind \in Sets THEN op[t].gen + 1 ELSE Null
  BY <1>3, <1>4 DEF Mutations, Sets, Reads
<1> HIDE DEF o
<1>8. op'[t] = o
  BY <1>0, <1>2, OneOperation
<1> QED BY <1>1, <1>2, <1>6, <1>7, <1>8

\* The backend changes by its answers only, the generation by mutations that
\* begin, and never back.
LEMMA OnlyAnswers ==
  ASSUME PlacesInvariant, [Next]_vars
  PROVE  /\ UNCHANGED backend \/ \E t \in Tasks : BackendAnswers(t)
         /\ UNCHANGED generation \/ generation' = generation + 1
BY DEF Next, Body, Call, Resume, LookUp, BeginRead, BeginMutation, BackendAnswers,
     BackendFails, CompleteRead, NextEntry, FillSlot, CompleteMutation, Evict, CloseGate,
     cache, DestroyStore, vars

\* Nothing is answered of a mutation that was alone before it is applied, and
\* nothing else touches the key after.
LEMMA StepApplied ==
  PlacesInvariant /\ Alone /\ Applied /\ [Next]_vars => Applied'
<1> SUFFICES ASSUME PlacesInvariant, Alone, Applied, [Next]_vars,
                    NEW t \in Tasks, NEW k \in Keys,
                    Mutating(t, k)', op'[t].phase = "answered", op'[t].alone
             PROVE  backend'[k] = IF op'[t].kind \in Sets THEN op'[t].gen + 1 ELSE Null
  BY DEF Applied
<1>1. op'[t].kind \in Mutations /\ k \in op'[t].keys
  BY DEF Mutating, Under
<1>2. TypeOK
  BY DEF PlacesInvariant
<1>3. ~BeginRead(t) /\ ~BeginMutation(t)
  BY <1>1, <1>2, ReadBegins, MutationBegins DEF Mutations, Sets, Reads, NoOp
<1>4. GoesOn(t)
  BY <1>3, UnderWayFrom
<1>5. Mutating(t, k) /\ op[t].alone
  BY <1>1, <1>4 DEF GoesOn, Mutating, Under
<1>6. CASE BackendAnswers(t)
  BY <1>1, <1>5, <1>6, AnswerEffect DEF Mutating, Under
<1>7. CASE ~BackendAnswers(t)
  <2>1. op[t].phase = "answered" /\ op'[t].kind = op[t].kind /\ op'[t].gen = op[t].gen
    BY <1>4, <1>7 DEF GoesOn
  <2>2. backend[k] = IF op[t].kind \in Sets THEN op[t].gen + 1 ELSE Null
    BY <1>5, <2>1 DEF Applied
  <2>3. ASSUME NEW u \in Tasks, BackendAnswers(u) PROVE backend'[k] = backend[k]
    <3>1. u # t
      BY <1>7, <2>3
    <3>2. ~Mutating(u, k)
      BY <1>5, <3>1 DEF Alone
    <3>3. op[u].phase = "sent"
      BY <2>3, AnswerEffect
    <3>4. k \notin op[u].keys \/ op[u].kind \notin Mutations
      BY <3>2, <3>3 DEF Mutating, Under
    <3> QED BY <2>3, <3>4, AnswerEffect
  <2>4. backend'[k] = backend[k]
    BY <2>3, OnlyAnswers
  <2> QED BY <2>1, <2>2, <2>4
<1> QED BY <1>6, <1>7

-----------------------------------------------------------------------------
\* A mutation that the backend applied is with L1 until it is completed, or
\* its failure exposes its keys.
LEMMA TouchedUntil ==
  ASSUME PlacesInvariant, [Next]_vars, NEW t \in Tasks, NEW k \in Keys,
         Mutating(t, k), op[t].phase = "answered"
  PROVE  \/ Mutating(t, k)' /\ op'[t].phase = "answered"
         \/ CompleteMutation(t)
         \/ k \in exposed'
<1> DEFINE Goal == \/ Mutating(t, k)' /\ op'[t].phase = "answered"
                   \/ CompleteMutation(t)
                   \/ k \in exposed'
<1>0. /\ op[t].kind \in Mutations /\ k \in op[t].keys /\ op[t].phase = "answered"
      /\ TypeOK /\ Linked /\ op \in [Tasks -> OpType]
  BY DEF PlacesInvariant, TypeOK, Mutating, Under
<1>1. ASSUME op'[t] = op[t] PROVE Goal
  BY <1>0, <1>1 DEF Mutating, Under
<1>2. ASSUME NEW u \in Tasks, NEW o, OpBecomes(u, o), u # t PROVE Goal
  BY <1>0, <1>1, <1>2, OneOperation
<1>3. ASSUME NEW u \in Tasks, Return(u), u # t PROVE Goal
  BY <1>1, <1>3, Returns
<1>4. ASSUME NEW u \in Tasks, NEW kind \in Ops, NEW ks \in SUBSET Keys, Call(u, kind, ks)
      PROVE  Goal
  <2>1. status[u] = "idle" /\ status[t] \in {"shared", "exclusive"}
    BY <1>0, <1>4 DEF Call, RunShared, RunExclusive, Linked, Placed
  <2> QED BY <1>2, <1>4, <2>1 DEF Call
<1>5. ASSUME NEW u \in Tasks, Resume(u) PROVE Goal
  <2>1. status[u] \in {"waitShared", "waitExclusive"} /\ status[t] \in {"shared", "exclusive"}
    BY <1>0, <1>5 DEF Resume, ResumeShared, ResumeExclusive, Linked, Placed
  <2> QED BY <1>0, <1>1, <1>5, <2>1 DEF Resume
<1>6. ASSUME NEW u \in Tasks, LookUp(u) \/ BeginRead(u) PROVE Goal
  <2>1. u # t
    BY <1>0, <1>6 DEF LookUp, BeginRead, Is
  <2> QED BY <1>0, <1>1, <1>6, <2>1, ReadBegins, LooksUp
<1>7. ASSUME NEW u \in Tasks, BeginMutation(u) PROVE Goal
  <2>1. u # t
    BY <1>0, <1>7 DEF BeginMutation, Is
  <2> QED BY <1>0, <1>7, <2>1, MutationBegins DEF Mutating, Under
<1>8. ASSUME NEW u \in Tasks, BackendAnswers(u) PROVE Goal
  BY <1>0, <1>2, <1>8 DEF BackendAnswers
<1>9. ASSUME NEW u \in Tasks, BackendFails(u) PROVE Goal
  <2>1. CASE u = t
    BY <1>0, <1>9, <2>1 DEF BackendFails, Is
  <2>2. CASE u # t
    BY <1>3, <1>9, <2>2 DEF BackendFails
  <2> QED BY <2>1, <2>2
<1>10. ASSUME NEW u \in Tasks, CompleteMutation(u) PROVE Goal
  <2>1. CASE u = t
    BY <1>10, <2>1
  <2>2. CASE u # t
    BY <1>3, <1>10, <2>2 DEF CompleteMutation
  <2> QED BY <2>1, <2>2
<1>11. ASSUME NEW u \in Tasks, Populating(u) PROVE Goal
  <2>1. u # t
    BY <1>0, <1>11, PopulatingStep DEF Mutations, Sets, Reads
  <2>2. ReadsOn(u) => op'[t] = op[t]
    BY <1>0, <2>1 DEF ReadsOn
  <2> QED BY <1>1, <1>3, <1>11, <2>1, <2>2, PopulatingStep
<1>13. ASSUME (\E i \in Keys : Evict(i)) \/ CloseGate \/ DestroyStore \/ UNCHANGED vars
       PROVE  Goal
  BY <1>1, <1>13 DEF Evict, CloseGate, DestroyStore, vars, cache
<1> QED
  BY <1>4, <1>5, <1>6, <1>7, <1>8, <1>9, <1>10, <1>11, <1>13 DEF Next, Body, Populating

\* How the L1 entry of a key may change, apart from a mutation's completion.
LEMMA SlotMoves ==
  ASSUME PlacesInvariant, [Next]_vars, NEW k \in Keys,
         \A t \in Tasks : CompleteMutation(t) => k \notin op[t].keys
  PROVE  \/ l1'[k] = l1[k]
         \/ Evict(k) /\ l1'[k] = Null
         \/ DestroyStore /\ l1'[k] = Null
         \/ \E t \in Tasks : /\ Reading(t, k) /\ MayFill(t) /\ k \in op[t].slot
                             /\ l1'[k] = op[t].fetched[k] /\ l1'[k] # Null
<1> DEFINE Fill(t) == /\ Reading(t, k) /\ MayFill(t) /\ k \in op[t].slot
                      /\ l1'[k] = op[t].fetched[k] /\ l1'[k] # Null
           Goal == \/ l1'[k] = l1[k]
                   \/ Evict(k) /\ l1'[k] = Null
                   \/ DestroyStore /\ l1'[k] = Null
                   \/ \E t \in Tasks : Fill(t)
<1>0. l1 \in [Keys -> Values]
  BY DEF PlacesInvariant, TypeOK
<1>1. ASSUME NEW t \in Tasks, FillSlot(t) PROVE Goal
  <2>1. CASE k \in op[t].slot
    <3>1. l1'[k] = op[t].fetched[k]
      BY <1>1, <2>1 DEF FillSlot
    <3>2. /\ op[t].kind \in Reads /\ op[t].phase = "filling" /\ k \in op[t].keys
          /\ op[t].fetched[k] # Null
      BY <1>1, <2>1 DEF FillSlot, Is, PlacesInvariant, Linked, Placed
    <3> QED BY <2>1, <3>1, <3>2 DEF Reading, Under, MayFill
  <2>2. CASE k \notin op[t].slot
    BY <1>1, <2>2 DEF FillSlot
  <2> QED BY <2>1, <2>2
<1>3. ASSUME NEW t \in Tasks, CompleteMutation(t) PROVE Goal
  BY <1>3 DEF CompleteMutation
<1>4. ASSUME NEW i \in Keys, Evict(i) PROVE Goal
  BY <1>0, <1>4 DEF Evict
<1>5. ASSUME DestroyStore PROVE Goal
  BY <1>5 DEF DestroyStore, Empty
<1>6. ASSUME NEW t \in Tasks, Body(t), ~FillSlot(t), ~CompleteMutation(t)
      PROVE  UNCHANGED l1
  BY <1>6 DEF Body, LookUp, BeginRead, BeginMutation, BackendAnswers, BackendFails,
     CompleteRead, NextEntry
<1>7. ASSUME (\E t \in Tasks : Resume(t)) \/ CloseGate \/ UNCHANGED vars
      PROVE  UNCHANGED l1
  BY <1>7 DEF Resume, CloseGate, vars, cache
<1>8. ASSUME NEW t \in Tasks, NEW kind \in Ops, NEW ks \in SUBSET Keys, Call(t, kind, ks)
      PROVE  UNCHANGED l1
  BY <1>8 DEF Call
<1> QED BY <1>1, <1>3, <1>4, <1>5, <1>6, <1>7, <1>8 DEF Next

\* What the completion of a mutation leaves of a key that is not exposed.
LEMMA CompletionEffect ==
  ASSUME PlacesInvariant, Applied, NEW t \in Tasks, CompleteMutation(t),
         NEW k \in op[t].keys, k \in Keys, k \notin exposed'
  PROVE  /\ op[t].alone /\ Mutating(t, k) /\ op[t].phase = "answered"
         /\ UNCHANGED <<generation, backend>>
         /\ l1'[k] = backend[k]
         /\ op[t].kind \in Sets => l1'[k] # Null
         /\ \A u \in Tasks : ~(Is(u, Reads, "filling") /\ k \in op[u].slot)
         /\ op[t].kind = "delete" =>
              /\ k \notin exposed
              /\ \A u \in Tasks : ~(Is(u, Reads, "filling") /\ k \in op[u].keys)
         /\ \A u \in Tasks : u # t => op'[u] = op[u]
         /\ op'[t] = NoOp
<1>1. op[t].kind \in Mutations /\ op[t].phase = "answered" /\ Mutating(t, k)
  BY DEF CompleteMutation, Is, Mutating, Under
<1>2. op[t].alone
  BY DEF CompleteMutation
<1>3. UNCHANGED <<generation, backend>> /\ Return(t)
  BY DEF CompleteMutation
<1>4. l1'[k] = IF op[t].kind \in Sets THEN op[t].gen + 1 ELSE Null
  BY DEF CompleteMutation
<1>5. op[t].gen + 1 # Null
  BY WrittenTyped DEF PlacesInvariant
<1>6. backend[k] = IF op[t].kind \in Sets THEN op[t].gen + 1 ELSE Null
  BY <1>1, <1>2 DEF Applied
<1>7. /\ k \notin Overtaking(t)
      /\ op[t].kind = "delete" => k \notin exposed
  BY <1>2 DEF CompleteMutation
<1>8. \A u \in Tasks : Is(u, Reads, "filling") =>
        k \notin (IF op[t].kind = "delete" THEN op[u].keys ELSE op[u].slot)
  BY <1>7 DEF Overtaking
<1>9. \A u \in Tasks : op[u].slot \subseteq op[u].keys
  BY DEF PlacesInvariant, Linked, Placed
<1> QED BY <1>1, <1>2, <1>3, <1>4, <1>5, <1>6, <1>7, <1>8, <1>9, Returns

\* A key that is neither exposed nor between backend and L1 after a step was
\* neither before it, unless the step completes a mutation of it.
LEMMA WasSettled ==
  ASSUME PlacesInvariant, [Next]_vars, NEW k \in Keys, k \notin exposed', Untouched(k)',
         \A t \in Tasks : CompleteMutation(t) => k \notin op[t].keys
  PROVE  k \notin exposed /\ Untouched(k)
<1>1. k \notin exposed
  BY ExposedUntil
<1>2. ASSUME NEW t \in Tasks, Mutating(t, k), op[t].phase = "answered" PROVE FALSE
  <2>1. CompleteMutation(t)
    BY <1>2, TouchedUntil DEF Untouched
  <2> QED BY <1>2, <2>1 DEF Mutating, Under
<1> QED BY <1>1, <1>2 DEF Untouched

\* An answer that changes a key leaves a mutation of it between the two.
LEMMA BackendStays ==
  ASSUME PlacesInvariant, [Next]_vars, NEW k \in Keys, Untouched(k)'
  PROVE  backend'[k] = backend[k]
<1>1. ASSUME NEW t \in Tasks, BackendAnswers(t) PROVE backend'[k] = backend[k]
  <2>1. ~(Mutating(t, k)' /\ op'[t].phase = "answered")
    BY DEF Untouched
  <2>2. k \notin op[t].keys \/ op[t].kind \notin Mutations
    BY <1>1, <2>1, AnswerEffect DEF Mutating, Under
  <2> QED BY <1>1, <2>2, AnswerEffect
<1> QED BY <1>1, OnlyAnswers

\* L1 goes on agreeing: a slot is emptied, filled with what the backend holds,
\* or written by the mutation that wrote the backend.
LEMMA StepCached ==
  PlacesInvariant /\ Applied /\ Cached /\ Fetched /\ [Next]_vars => Cached'
<1> SUFFICES ASSUME PlacesInvariant, Applied, Cached, Fetched, [Next]_vars,
                    NEW k \in Keys, k \notin exposed', Untouched(k)'
             PROVE  l1'[k] \in {Null, backend'[k]}
  BY DEF Cached
<1>1. CASE \E t \in Tasks : CompleteMutation(t) /\ k \in op[t].keys
  BY <1>1, CompletionEffect
<1>2. CASE \A t \in Tasks : CompleteMutation(t) => k \notin op[t].keys
  <2>1. k \notin exposed /\ Untouched(k)
    BY <1>2, WasSettled
  <2>2. backend'[k] = backend[k] /\ l1[k] \in {Null, backend[k]}
    BY <2>1, BackendStays DEF Cached
  <2>3. ASSUME NEW t \in Tasks, Reading(t, k), MayFill(t), k \in op[t].slot
        PROVE  op[t].fetched[k] \in {Null, backend[k]}
    BY <2>1, <2>3 DEF Fetched
  <2> QED BY <1>2, <2>2, <2>3, SlotMoves
<1> QED BY <1>1, <1>2

\* A read that may fill L1 after a step could before it, or was answered.
LEMMA MightFill ==
  ASSUME PlacesInvariant, [Next]_vars, NEW t \in Tasks, NEW k \in Keys,
         Reading(t, k)', MayFill(t)'
  PROVE  /\ Reading(t, k)
         /\ \/ MayFill(t) /\ op'[t].fetched = op[t].fetched
            \/ BackendAnswers(t)
         /\ k \in op'[t].slot => k \in op[t].slot \/ l1[k] = Null
<1>0. TypeOK /\ Linked /\ generation \in Nat
  BY StoreAssumption DEF PlacesInvariant, TypeOK, StoreAssumption
<1>1. /\ op'[t].kind \in Reads /\ k \in op'[t].keys
      /\ op'[t].phase = "filling" \/ (op'[t].phase = "answered" /\ op'[t].gen = generation')
  BY DEF Reading, Under, MayFill, Coherent
<1>2. ~BeginRead(t) /\ ~BeginMutation(t)
  BY <1>0, <1>1, ReadBegins, MutationBegins DEF NoOp
<1>3. GoesOn(t)
  BY <1>1, <1>2, UnderWayFrom
<1>4. Reading(t, k)
  BY <1>1, <1>3 DEF GoesOn, Reading, Under
<1>5. k \in op'[t].slot => k \in op[t].slot \/ l1[k] = Null
  BY <1>3 DEF GoesOn
<1>6. CASE op'[t].phase = op[t].phase /\ op'[t].fetched = op[t].fetched
  <2>1. op[t].gen \in Nat /\ op[t].gen <= generation
    BY <1>0, OperationTyped DEF Linked, Placed
  <2>2. op'[t].gen = generation' => op[t].gen = generation
    BY <1>0, <1>3, <2>1, OnlyAnswers DEF GoesOn
  <2> QED BY <1>1, <1>4, <1>6, <1>5, <2>2 DEF MayFill, Coherent
<1>7. CASE op[t].phase = "answered" /\ Coherent(t) /\ op'[t].fetched = op[t].fetched
  BY <1>4, <1>7, <1>5 DEF MayFill
<1>8. CASE BackendAnswers(t)
  BY <1>4, <1>5, <1>8
<1> QED BY <1>3, <1>6, <1>7, <1>8 DEF GoesOn

\* What a read may yet put into L1 goes on being what the backend holds, or
\* finds the slot taken: a set takes it, a delete exposes the key unless the
\* read noted an older generation, a clear excludes the reads.
LEMMA StepFetched ==
  PlacesInvariant /\ Applied /\ Fetched /\ Deleting /\ [Next]_vars => Fetched'
<1> SUFFICES ASSUME PlacesInvariant, Applied, Fetched, Deleting, [Next]_vars,
                    NEW k \in Keys, k \notin exposed', Untouched(k)',
                    NEW u \in Tasks, Reading(u, k)', MayFill(u)'
             PROVE  \/ l1'[k] # Null /\ k \notin op'[u].slot
                    \/ op'[u].fetched[k] \in {Null, backend'[k]}
  BY DEF Fetched
<1>0. /\ Reading(u, k)
      /\ op[u].kind \in Reads /\ k \in op[u].keys
      /\ op[u].phase \in {"sent", "answered", "filling"}
      /\ (MayFill(u) /\ op'[u].fetched = op[u].fetched) \/ BackendAnswers(u)
      /\ k \in op'[u].slot => k \in op[u].slot \/ l1[k] = Null
  BY MightFill DEF Reading, Under
<1>1. ASSUME NEW t \in Tasks, CompleteMutation(t), k \in op[t].keys
      PROVE  l1'[k] # Null /\ k \notin op'[u].slot
  <2>1. /\ Mutating(t, k) /\ UNCHANGED generation
        /\ op[t].kind \in Sets => l1'[k] # Null
        /\ op[t].kind = "delete" =>
             /\ k \notin exposed
             /\ ~(Is(u, Reads, "filling") /\ k \in op[u].keys)
        /\ ~(Is(u, Reads, "filling") /\ k \in op[u].slot)
    BY <1>1, CompletionEffect
  <2>2. t # u /\ op[t].kind \in Mutations /\ op[t].phase = "answered"
    BY <1>0, <1>1 DEF CompleteMutation, Is, Mutations, Sets, Reads
  <2>3. op'[u] = op[u]
    BY <1>1, <2>2, CompletionEffect
  <2>4. op[t].kind # "clear"
    <3>1. ASSUME op[t].kind = "clear" PROVE FALSE
      <4>1. status[t] = "exclusive"
        BY <2>2, <3>1, InsideWhenUnderWay
      <4>2. status[u] = "shared"
        BY <1>0, InsideWhenUnderWay DEF Reads
      <4> QED
        BY <2>2, <4>1, <4>2 DEF PlacesInvariant, GateInv, MutualExclusion, Sharing, Excluding
    <3> QED BY <3>1
  <2>5. ASSUME op[t].kind = "delete" PROVE FALSE
    <3>1. op[u].phase # "filling"
      BY <1>0, <2>1, <2>5 DEF Is
    <3>2. op[u].gen = generation
      BY <2>1, <2>3, <3>1 DEF MayFill, Coherent
    <3>3. op[u].gen >= op[t].gen
      <4>1. /\ op[t].gen <= generation /\ op[t].gen \in Nat /\ op[u].gen \in Nat
        BY OperationTyped DEF PlacesInvariant, Linked, Placed
      <4> QED BY <3>2, <4>1
    <3>4. k \in exposed
      BY <1>0, <2>1, <2>5, <3>3 DEF Deleting
    <3> QED BY <2>1, <2>5, <3>4
  <2>6. k \notin op[u].slot
    BY <1>0, <2>1 DEF PlacesInvariant, Linked, Placed, Is
  <2> QED BY <2>1, <2>2, <2>3, <2>4, <2>5, <2>6 DEF Mutations
<1>2. CASE \A t \in Tasks : CompleteMutation(t) => k \notin op[t].keys
  <2>1. k \notin exposed /\ Untouched(k) /\ backend'[k] = backend[k]
    BY <1>2, WasSettled, BackendStays
  <2>2. CASE BackendAnswers(u)
    BY <1>0, <2>1, <2>2, AnswerEffect
  <2>3. CASE MayFill(u) /\ op'[u].fetched = op[u].fetched
    <3>1. \/ l1[k] # Null /\ k \notin op[u].slot
          \/ op[u].fetched[k] \in {Null, backend[k]}
      BY <1>0, <2>1, <2>3 DEF Fetched
    <3>2. ~Evict(k)
      BY <1>0 DEF Evict, UnderWay
    <3>3. ~DestroyStore
      <4>1. SUFFICES ASSUME DestroyStore PROVE FALSE
        OBVIOUS
      <4>2. activeShared = 0
        BY <4>1 DEF DestroyStore, PlacesInvariant, Shut, GateShut, Drained
      <4>3. Sharing = {}
        BY <4>2, GroupsFinite DEF PlacesInvariant, GateInv, CountersMatch
      <4>4. status[u] = "shared"
        BY <1>0, InsideWhenUnderWay DEF Reads
      <4> QED BY <4>3, <4>4 DEF Sharing
    <3>4. l1'[k] = l1[k] \/ l1'[k] # Null
      BY <1>2, <3>2, <3>3, SlotMoves
    <3> QED BY <1>0, <2>1, <2>3, <3>1, <3>4
  <2> QED BY <1>0, <2>2, <2>3
<1> QED BY <1>1, <1>2

\* Nothing is cached and nothing is under way.
LEMMA InitCache == Init => CacheInvariant
<1> SUFFICES ASSUME Init PROVE CacheInvariant
  OBVIOUS
<1>1. \A t \in Tasks : \A k \in Keys : ~Under(t, k)
  BY DEF Init, NoOp, Under
<1>2. \A k \in Keys : l1[k] = Null
  BY DEF Init, Empty
<1> QED
  BY <1>1, <1>2 DEF CacheInvariant, Alone, Applied, Cached, Fetched, Deleting, Mutating, Reading

\* Between mutations of a key its L1 entry is the persisted session or none,
\* for any number of callers and keys, unless one of the six overlaps that
\* exposed names happened to the key: gets, batches, sets, deletes, clears and
\* expiry interleaved at every await of withSessionCache, answers in any order,
\* and a backend that fails or loses its answer.
THEOREM CacheIsCoherent == Spec => []CacheAgrees
<1>1. Init => PlacesInvariant /\ CacheInvariant
  BY InitPlaces, InitCache
<1>2. PlacesInvariant /\ CacheInvariant /\ [Next]_vars => PlacesInvariant' /\ CacheInvariant'
  BY StepPlaces, StepAlone, StepApplied, StepCached, StepFetched, StepDeleting
  DEF CacheInvariant
<1>3. CacheInvariant => CacheAgrees
  <2> SUFFICES ASSUME CacheInvariant, NEW k \in Keys, Settled(k), k \notin exposed
               PROVE  l1[k] \in {Null, backend[k]}
    BY DEF CacheAgrees
  <2>1. Untouched(k)
    BY DEF Settled, UnderWay, Untouched, Mutating, Under
  <2> QED BY <2>1 DEF CacheInvariant, Cached
<1> QED BY <1>1, <1>2, <1>3, PTL DEF Spec
=============================================================================
