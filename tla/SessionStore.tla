---------------------------- MODULE SessionStore -----------------------------
(***************************************************************************)
(* The session store of one account as createStore assembles it:           *)
(* withSessionLock around withSessionCache around a backend.  The gate of  *)
(* the lock is SharedExclusiveGate; this module adds what runs inside it:  *)
(* the L1 map, the generation counter, and the backend, whose requests are *)
(* answered at some later time and not in the order they were made.        *)
(*                                                                         *)
(* A session value is the generation that wrote it, plus one; 0 stands for *)
(* null and 1 for what an earlier process left in the backend.             *)
(***************************************************************************)
EXTENDS SharedExclusiveGate

CONSTANTS
  Keys,         \* session addresses
  Ops,          \* the operations the callers use
  CanEvict,     \* whether L1 entries expire or are evicted by the cap
  AnswersLost,  \* whether the backend may do what it was asked and yet reject
  MaxMutations  \* bound of the model: mutations over the store's life

ASSUME StoreAssumption ==
  /\ IsFiniteSet(Keys)
  /\ Ops \subseteq {"get", "getBatch", "set", "setBatch", "delete", "clear"}
  /\ CanEvict \in BOOLEAN
  /\ AnswersLost \in BOOLEAN
  /\ MaxMutations \in Nat

VARIABLES
  generation,  \* the cache's generation counter
  l1,          \* the cached sessions
  backend,     \* the persisted sessions
  op,          \* what each caller's operation is doing
  destroyed,   \* whether destroy went on to the cache and the backend
  exposed      \* keys whose L1 slot a read may fill late, a failed mutation left
               \* as it was, or mutations that overlapped disagree on (history)

cache == <<generation, l1, backend, op, destroyed, exposed>>
vars == <<gate, cache>>

-----------------------------------------------------------------------------
Values == 0..(MaxMutations + 1)
Null == 0
Empty == [k \in Keys |-> Null]

Reads == {"get", "getBatch"}
Sets == {"set", "setBatch"}
Mutations == Sets \cup {"delete", "clear"}
OnAllKeys == {"getBatch", "setBatch", "clear"}

\* keys: what the operation is about, for a read the keys L1 had no entry of.
\* phase: "called" until the body runs, "missed" once a read found no entry in
\* L1, "sent" and "answered" around the backend's work, "filling" while a read
\* populates L1; keys are then the entries still to come, and slot the one it
\* found empty and is about to fill.
\* alone: no other mutation of its keys was under way with it (history).
NoOp == [kind |-> "none", keys |-> {}, phase |-> "none", gen |-> 0, fetched |-> Empty,
         slot |-> {}, alone |-> TRUE]

OpType == [kind : {"none", "get", "getBatch", "set", "setBatch", "delete", "clear"},
           keys : SUBSET Keys,
           phase : {"none", "called", "missed", "sent", "answered", "filling"},
           gen : 0..MaxMutations,
           fetched : [Keys -> Values],
           slot : SUBSET Keys,
           alone : BOOLEAN]

Is(t, kinds, phase) == op[t].kind \in kinds /\ op[t].phase = phase
UnderWay(kinds, k) ==
  \E t \in Tasks : /\ op[t].kind \in kinds /\ k \in op[t].keys
                   /\ op[t].phase \in {"sent", "answered", "filling"}

Mutators == {t \in Tasks : op[t].kind \in Mutations /\ op[t].phase = "called"}

OpBecomes(t, o) == op' = [op EXCEPT ![t] = o]

Init ==
  /\ GateInit
  /\ generation = 0
  /\ l1 = Empty
  /\ backend \in [Keys -> {0, 1}]
  /\ op = [t \in Tasks |-> NoOp]
  /\ destroyed = FALSE
  /\ exposed = {}

-----------------------------------------------------------------------------
\* SignalProtocol's lock keeps the calls that set one session apart; nothing
\* keeps the callers of deleteSession from them.
NoOtherWriter(kind, k) ==
  kind \in Sets => \A t \in Tasks : ~(op[t].kind \in Sets /\ k \in op[t].keys)

\* A call of the store: it asks the gate of withSessionLock first.
Call(t, kind, ks) ==
  /\ kind \in Ops
  /\ IF kind \in OnAllKeys THEN ks = Keys ELSE \E k \in Keys : ks = {k}
  /\ \A k \in ks : NoOtherWriter(kind, k)
  /\ kind \in Reads \/ generation + Cardinality(Mutators) < MaxMutations
  /\ IF kind = "clear" THEN RunExclusive(t) ELSE RunShared(t)
  /\ OpBecomes(t, IF closed THEN NoOp
                ELSE [NoOp EXCEPT !.kind = kind, !.keys = ks, !.phase = "called"])
  /\ UNCHANGED <<generation, l1, backend, destroyed, exposed>>

\* A caller that waited for the gate is admitted, rejected, or waits again.
Resume(t) ==
  /\ ResumeShared(t) \/ ResumeExclusive(t)
  /\ op' = IF closed THEN [op EXCEPT ![t] = NoOp] ELSE op
  /\ UNCHANGED <<generation, l1, backend, destroyed, exposed>>

Admitted(t) == status[t] \in {"shared", "exclusive"}

\* The operation settles and its finally block leaves the gate.
Return(t) ==
  /\ OpBecomes(t, NoOp)
  /\ ReleaseShared(t) \/ ReleaseExclusive(t)

\* getSession and getSessionsBatch up to the answer of L1.
LookUp(t) ==
  LET missing == {k \in op[t].keys : l1[k] = Null}
  IN /\ Is(t, Reads, "called") /\ Admitted(t)
     /\ \/ /\ missing = {}
           /\ Return(t)
        \/ /\ missing # {}
           /\ OpBecomes(t, [op[t] EXCEPT !.phase = "missed", !.keys = missing])
           /\ UNCHANGED gate
     /\ UNCHANGED <<generation, l1, backend, destroyed, exposed>>

\* After it: the generation is noted, and the backend asked for what is missing.
BeginRead(t) ==
  /\ Is(t, Reads, "missed")
  /\ OpBecomes(t, [op[t] EXCEPT !.phase = "sent", !.gen = generation])
  /\ exposed' = exposed \cup {k \in op[t].keys : UnderWay({"delete"}, k)}
  /\ UNCHANGED <<gate, generation, l1, backend, destroyed>>

Overlapping(t) ==
  {u \in Tasks \ {t} : /\ op[u].kind \in Mutations /\ op[u].phase \in {"sent", "answered"}
                       /\ op[u].keys \cap op[t].keys # {}}

\* setSession, setSessionsBatch, deleteSession and clear until the backend is
\* asked.
BeginMutation(t) ==
  /\ Is(t, Mutations, "called") /\ Admitted(t)
  /\ generation' = generation + 1
  /\ op' = [u \in Tasks |->
       IF u = t THEN [op[t] EXCEPT !.phase = "sent", !.gen = generation + 1,
                                   !.alone = Overlapping(t) = {}]
       ELSE [op[u] EXCEPT !.alone = @ /\ u \notin Overlapping(t)]]
  /\ UNCHANGED <<gate, l1, backend, destroyed, exposed>>

\* The backend does what it was asked; its answer is on the way.  An await of L1
\* is one turn of the microtask queue: operations whose answer has come may go
\* on in it, those answered in it go on after it.
BackendAnswers(t) ==
  LET o == op[t]
  IN /\ o.phase = "sent" /\ \A u \in Tasks : op[u].slot = {}
     /\ backend' = [k \in Keys |->
          IF k \notin o.keys THEN backend[k]
          ELSE CASE o.kind \in Reads -> backend[k]
                 [] o.kind \in Sets -> o.gen + 1
                 [] o.kind \in {"delete", "clear"} -> Null]
     /\ OpBecomes(t, [o EXCEPT !.phase = "answered",
          !.fetched = [k \in Keys |-> IF o.kind \in Reads /\ k \in o.keys
                                      THEN backend[k] ELSE Null]])
     /\ UNCHANGED <<gate, generation, l1, destroyed, exposed>>

\* The operation rejects and L1 stays as it was, whether the backend refused
\* or did what it was asked and then lost its answer.
BackendFails(t) ==
  /\ op[t].phase = "sent" \/ (AnswersLost /\ op[t].phase = "answered")
  /\ Return(t)
  /\ exposed' = IF Is(t, Mutations, "answered")
                THEN exposed \cup op[t].keys ELSE exposed
  /\ UNCHANGED <<generation, l1, backend, destroyed>>

\* Faulty variant of Coherent: the generation is not compared.
AlwaysCoherent(t) == TRUE

\* No mutation began since the read noted the generation.
Coherent(t) == op[t].gen = generation

\* Goes on to the entries ks, or returns when none are left; an await comes first.
GoOn(t, ks, slot) ==
  \/ /\ ks = {}
     /\ Return(t)
  \/ /\ ks # {}
     /\ OpBecomes(t, [op[t] EXCEPT !.phase = "filling", !.keys = ks, !.slot = slot])
     /\ UNCHANGED gate

\* Looks at the slot of the next of ks, which it fills an await later if empty.
LookAtNext(t, ks) ==
  \E k \in ks : IF l1[k] = Null THEN GoOn(t, ks, {k}) ELSE GoOn(t, ks \ {k}, {})

\* getSession and getSessionsBatch after the backend's answer: the generation
\* is compared once, and the first slot looked at.
CompleteRead(t) ==
  LET found == {k \in op[t].keys : op[t].fetched[k] # Null}
  IN /\ Is(t, Reads, "answered")
     /\ \/ /\ Coherent(t) /\ found # {}
           /\ LookAtNext(t, found)
        \/ /\ ~Coherent(t) \/ found = {}
           /\ Return(t)
     /\ UNCHANGED <<generation, l1, backend, destroyed, exposed>>

\* The loop that populates L1, after the await of one entry.
NextEntry(t) ==
  /\ Is(t, Reads, "filling") /\ op[t].slot = {}
  /\ LookAtNext(t, op[t].keys)
  /\ UNCHANGED <<generation, l1, backend, destroyed, exposed>>

\* l1.setSession of a slot that was empty one await earlier.
FillSlot(t) ==
  /\ Is(t, Reads, "filling") /\ op[t].slot # {}
  /\ l1' = [k \in Keys |-> IF k \in op[t].slot THEN op[t].fetched[k] ELSE l1[k]]
  /\ GoOn(t, op[t].keys \ op[t].slot, {})
  /\ UNCHANGED <<generation, backend, destroyed, exposed>>

\* The keys of a mutation that a read may fill after it, with an older session:
\* a delete leaves empty what a read has yet to look at, a set does not.
Overtaking(t) ==
  {k \in op[t].keys : \E u \in Tasks :
     /\ Is(u, Reads, "filling")
     /\ k \in IF op[t].kind = "delete" THEN op[u].keys ELSE op[u].slot}

\* setSession, setSessionsBatch, deleteSession and clear after the backend's
\* answer.
CompleteMutation(t) ==
  LET o == op[t]
  IN /\ Is(t, Mutations, "answered")
     /\ l1' = [k \in Keys |-> IF k \notin o.keys THEN l1[k]
                              ELSE IF o.kind \in Sets THEN o.gen + 1 ELSE Null]
     /\ exposed' = IF ~o.alone THEN exposed \cup o.keys
                   ELSE IF o.kind = "delete" THEN exposed \cup Overtaking(t)
                   ELSE (exposed \ o.keys) \cup Overtaking(t)
     /\ Return(t)
     /\ UNCHANGED <<generation, backend, destroyed>>

\* An idle entry expires, or the cap evicts one.
Evict(k) ==
  /\ CanEvict
  /\ l1[k] # Null
  /\ l1' = [l1 EXCEPT ![k] = Null]
  /\ exposed' = IF UnderWay(Reads, k) THEN exposed \cup {k} ELSE exposed
  /\ UNCHANGED <<gate, generation, backend, op, destroyed>>

\* destroy: close the gate, then empty L1 and destroy the backend.
CloseGate == (Close \/ ResumeClose) /\ UNCHANGED cache

DestroyStore ==
  /\ closer = "done"
  /\ ~destroyed
  /\ destroyed' = TRUE
  /\ l1' = Empty
  /\ UNCHANGED <<gate, generation, backend, op, exposed>>

-----------------------------------------------------------------------------
Body(t) ==
  \/ LookUp(t) \/ BeginRead(t) \/ CompleteRead(t) \/ NextEntry(t) \/ FillSlot(t)
  \/ BeginMutation(t) \/ BackendAnswers(t) \/ BackendFails(t) \/ CompleteMutation(t)

Next ==
  \/ \E t \in Tasks : Resume(t) \/ Body(t)
  \/ \E t \in Tasks, kind \in Ops, ks \in SUBSET Keys : Call(t, kind, ks)
  \/ \E k \in Keys : Evict(k)
  \/ CloseGate \/ DestroyStore

Spec == Init /\ [][Next]_vars

-----------------------------------------------------------------------------
(* Properties *)

TypeOK ==
  /\ GateTypeOK
  /\ generation \in 0..MaxMutations
  /\ l1 \in [Keys -> Values]
  /\ backend \in [Keys -> Values]
  /\ op \in [Tasks -> OpType]
  /\ destroyed \in BOOLEAN
  /\ exposed \subseteq Keys

Settled(k) == ~UnderWay(Mutations, k)

\* Between mutations of a key its L1 entry is the persisted session, however
\* reads, sets, clears and expiry interleave.  The exceptions are named by
\* exposed: a read that begins while the key is being deleted, an eviction
\* under a read, a mutation that completes between the look of a read at the
\* empty slot and its fill, a delete that completes while a batch has yet to
\* look, a delete and a set that overlap, and a mutation applied but reported
\* as failed.
CacheAgrees ==
  \A k \in Keys : Settled(k) /\ k \notin exposed => l1[k] \in {Null, backend[k]}

\* "an in-flight read can never resurrect a concurrently deleted entry"
\* (session.cache.ts): a key that is not persisted any more, with no mutation
\* under way, is not served from L1.
NoResurrection ==
  \A k \in Keys : Settled(k) /\ backend[k] = Null => l1[k] = Null

\* Once destroy reached the cache and the backend, no operation uses them.
NoUseAfterDestroy == destroyed => \A t \in Tasks : ~Admitted(t)
=============================================================================
