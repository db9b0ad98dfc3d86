------------------------ MODULE BackgroundQueueProofs ------------------------
(***************************************************************************)
(* What BackgroundQueue promises for each key, for every set of keys, every *)
(* limit and every number of callers.  The three slots of a key (pending,  *)
(* retry, in flight) are looked at together: KeyOK says how they relate,   *)
(* one lemma per way the code moves an entry shows that it stays so, and   *)
(* the proof for an action only finds out which of the moves it makes.     *)
(***************************************************************************)
EXTENDS BackgroundQueue, FiniteSetTheorems, TLAPS

\* An entry that holds something holds a newest value, not older than s.
Current(e, s) ==
  e.content # {} => \E m \in e.content : s <= m /\ \A i \in e.content : i <= m

\* The slots of one key: p pending, r scheduled, f in flight, n values issued,
\* s in the store, w reported written, d given up.
KeyOK(p, r, f, n, s, w, d) ==
  /\ p \in Entry /\ r \in Entry /\ f \in Entry
  /\ n \in Nat /\ s \in 0..n /\ w \in SUBSET Nat /\ d \in SUBSET Nat
  /\ r.content # {} => p.content = {} /\ f.content = {}
  /\ 1..n = p.content \cup r.content \cup f.content \cup w \cup d
  /\ Current(p, s) /\ Current(r, s) /\ Current(f, s)
  /\ \A m \in p.content, i \in f.content : i < m

\* The entry a value that arrives becomes.
Offer(n, callers) == [content |-> {n}, waiters |-> callers]

-----------------------------------------------------------------------------
(* The moves of an entry *)

\* The newest value of a slot is one of its values and not older than the
\* store's.
LEMMA NewestIsNewest ==
  ASSUME NEW e \in Entry, NEW s \in Nat, Current(e, s), e.content # {}
  PROVE  /\ Newest(e.content) \in e.content
         /\ Newest(e.content) \in Nat
         /\ s <= Newest(e.content)
         /\ \A i \in e.content : i <= Newest(e.content)
<1> USE DEF Entry, NoEntry, Merge, Current, KeyOK
<1>1. e.content \in SUBSET Nat
  OBVIOUS
<1>2. PICK m \in e.content : s <= m /\ \A i \in e.content : i <= m
  OBVIOUS
<1>3. Newest(e.content) \in e.content /\ \A i \in e.content : i <= Newest(e.content)
  BY <1>2 DEF Newest
<1> QED BY <1>1, <1>2, <1>3

\* The drain loop hands a pending entry to the writer.
LEMMA HandOver ==
  ASSUME NEW p, NEW r, NEW f, NEW n, NEW s, NEW w, NEW d,
         KeyOK(p, r, f, n, s, w, d), f.content = {}
  PROVE  KeyOK(NoEntry, r, p, n, s, w, d)
BY DEF Entry, NoEntry, Merge, Current, KeyOK

\* A value is added to what waits for its key.
LEMMA Added ==
  ASSUME NEW p, NEW r, NEW f, NEW n, NEW s, NEW w, NEW d, NEW callers \in SUBSET Calls,
         KeyOK(p, r, f, n, s, w, d)
  PROVE  LET all == Merge(Merge(r, p), Offer(n + 1, callers))
         IN  KeyOK(all, NoEntry, f, n + 1, s, w, d) /\ all.content # {}
<1> USE DEF Entry, NoEntry, Merge, Current, KeyOK
<1> DEFINE all == Merge(Merge(r, p), Offer(n + 1, callers))
<1>1. all \in Entry /\ all.content = r.content \cup p.content \cup {n + 1}
  BY DEF Offer
<1>2. 1..(n + 1) = (1..n) \cup {n + 1}
  OBVIOUS
<1>3. \A i \in p.content \cup r.content \cup f.content : i \in Nat /\ i <= n
  OBVIOUS
<1>4. Current(all, s) /\ all.content # {}
  <2>1. n + 1 \in all.content /\ s <= n + 1 /\ \A i \in all.content : i <= n + 1
    BY <1>1, <1>3
  <2> QED BY <2>1
<1>5. \A m \in all.content, i \in f.content : i < m
  BY <1>1, <1>3
<1>6. 1..(n + 1) = all.content \cup NoEntry.content \cup f.content \cup w \cup d
  BY <1>1, <1>2
<1>7. NoEntry \in Entry /\ Current(NoEntry, s) /\ s \in 0..(n + 1) /\ n + 1 \in Nat
  OBVIOUS
<1>8. KeyOK(all, NoEntry, f, n + 1, s, w, d)
  <2> HIDE DEF all
  <2> QED BY <1>1, <1>4, <1>5, <1>6, <1>7
<1> QED BY <1>4, <1>8

\* A value is refused: it is given up at once.
LEMMA Refused ==
  ASSUME NEW p, NEW r, NEW f, NEW n, NEW s, NEW w, NEW d, KeyOK(p, r, f, n, s, w, d)
  PROVE  KeyOK(p, r, f, n + 1, s, w, d \cup {n + 1})
<1> USE DEF Entry, NoEntry, Merge, Current, KeyOK
<1>1. 1..(n + 1) = (1..n) \cup {n + 1}
  OBVIOUS
<1> QED BY <1>1

\* A write succeeds: its newest value is in the store, all it covers written.
LEMMA Succeeded ==
  ASSUME NEW p, NEW r, NEW f, NEW n, NEW s, NEW w, NEW d, KeyOK(p, r, f, n, s, w, d),
         f.content # {}
  PROVE  /\ KeyOK(p, r, NoEntry, n, Newest(f.content), w \cup f.content, d)
         /\ s <= Newest(f.content)
<1> USE DEF Entry, NoEntry, Merge, Current, KeyOK
<1> DEFINE new == Newest(f.content)
<1>1. new \in f.content /\ new \in Nat /\ s <= new
  BY NewestIsNewest
<1>2. new \in 0..n
  BY <1>1
<1>3. r.content = {} /\ Current(r, new)
  OBVIOUS
<1>4. Current(p, new)
  <2> SUFFICES ASSUME p.content # {} PROVE Current(p, new)
    OBVIOUS
  <2>1. PICK m \in p.content : \A i \in p.content : i <= m
    OBVIOUS
  <2>2. new < m
    BY <1>1
  <2>3. m \in Nat
    OBVIOUS
  <2> QED BY <1>1, <2>1, <2>2, <2>3
<1>5. 1..n = p.content \cup r.content \cup NoEntry.content \cup (w \cup f.content) \cup d
  OBVIOUS
<1>6. w \cup f.content \in SUBSET Nat
  OBVIOUS
<1>7. NoEntry \in Entry /\ Current(NoEntry, new)
  OBVIOUS
<1>8. KeyOK(p, r, NoEntry, n, new, w \cup f.content, d)
  <2> HIDE DEF new
  <2> QED BY <1>1, <1>2, <1>3, <1>4, <1>5, <1>6, <1>7
<1> QED BY <1>1, <1>8

\* A write fails, applied or not: the entry is scheduled, together with what
\* arrived for its key, or without it when coalescing throws.
LEMMA Failed ==
  ASSUME NEW p, NEW r, NEW f, NEW n, NEW s, NEW w, NEW d, KeyOK(p, r, f, n, s, w, d),
         f.content # {}, NEW t \in {s, Newest(f.content)}
  PROVE  /\ KeyOK(NoEntry, Merge(f, p), NoEntry, n, t, w, d)
         /\ KeyOK(NoEntry, f, NoEntry, n, t, w, d \cup p.content)
         /\ s <= t
<1> USE DEF Entry, NoEntry, Merge, Current, KeyOK
<1> DEFINE new == Newest(f.content)
<1>1. /\ new \in f.content /\ new \in Nat /\ s <= new
      /\ \A i \in f.content : i <= new
  BY NewestIsNewest
<1>2. t \in 0..n /\ s <= t /\ t <= new
  BY <1>1
<1>3. Current(f, t)
  BY <1>1, <1>2
<1>4. Current(Merge(f, p), t)
  <2>1. CASE p.content = {}
    BY <1>3, <2>1
  <2>2. CASE p.content # {}
    <3>1. PICK m \in p.content : \A i \in p.content : i <= m
      BY <2>2
    <3>2. new < m /\ m \in Nat
      BY <1>1
    <3>3. \A i \in f.content \cup p.content : i <= m
      BY <1>1, <3>1, <3>2
    <3>4. t <= m
      BY <1>1, <1>2, <3>2
    <3> QED BY <3>1, <3>3, <3>4
  <2> QED BY <2>1, <2>2
<1>5. Merge(f, p) \in Entry /\ Merge(f, p).content = f.content \cup p.content
  OBVIOUS
<1>6. KeyOK(NoEntry, Merge(f, p), NoEntry, n, t, w, d)
  BY <1>2, <1>4, <1>5
<1>7. KeyOK(NoEntry, f, NoEntry, n, t, w, d \cup p.content)
  BY <1>2, <1>3
<1> QED BY <1>2, <1>6, <1>7

\* A write fails after the queue gave up on retries.
LEMMA FailedForGood ==
  ASSUME NEW p, NEW r, NEW f, NEW n, NEW s, NEW w, NEW d, KeyOK(p, r, f, n, s, w, d),
         f.content # {}, NEW t \in {s, Newest(f.content)}
  PROVE  /\ KeyOK(p, r, NoEntry, n, t, w, d \cup f.content)
         /\ s <= t
<1>1. KeyOK(p, r, NoEntry, n, Newest(f.content), w \cup f.content, d) /\ s <= Newest(f.content)
  BY Succeeded
<1> USE DEF Entry, NoEntry, Merge, Current, KeyOK
<1>2. Current(p, t) /\ t \in 0..n /\ s <= t
  BY <1>1
<1>3. d \cup f.content \in SUBSET Nat
  OBVIOUS
<1>4. 1..n = p.content \cup r.content \cup NoEntry.content \cup w \cup (d \cup f.content)
  OBVIOUS
<1> QED BY <1>2, <1>3, <1>4

\* The retry timer fires: the entry is pending again, with or without what
\* was pending.
LEMMA Retried ==
  ASSUME NEW p, NEW r, NEW f, NEW n, NEW s, NEW w, NEW d, KeyOK(p, r, f, n, s, w, d),
         r.content # {}
  PROVE  /\ KeyOK(Merge(r, p), NoEntry, f, n, s, w, d)
         /\ KeyOK(r, NoEntry, f, n, s, w, d \cup p.content)
         /\ f.content = {}
<1> USE DEF Entry, NoEntry, Merge, Current, KeyOK
<1>1. Merge(r, p) \in Entry /\ Merge(r, p).content = r.content
  OBVIOUS
<1> QED BY <1>1

\* What waits is discarded; a write under way goes on.
LEMMA Discarded ==
  ASSUME NEW p, NEW r, NEW f, NEW n, NEW s, NEW w, NEW d, KeyOK(p, r, f, n, s, w, d)
  PROVE  KeyOK(NoEntry, NoEntry, f, n, s, w, d \cup p.content \cup r.content)
BY DEF Entry, NoEntry, Merge, Current, KeyOK

-----------------------------------------------------------------------------
(* The inductive invariant *)

\* The slots of every key relate as KeyOK says.
KeysOK ==
  \A k \in Keys : KeyOK(pending[k], retry[k], inflight[k], issued[k], store[k],
                        written[k], dropped[k])

\* Only a running loop has entries at the writer: a batch is awaited whole.
OneDrain == drain # "running" => Held(inflight) = {}

\* What destroy established when it gave up on the rest, or found nothing left.
Shut ==
  /\ destroyer # "live" => shutdown
  /\ retryDisabled \/ destroyer = "clean" =>
       shutdown /\ NoneAdmitted /\ Held(pending) = {} /\ Held(retry) = {}
  /\ destroyer = "clean" => Held(inflight) = {}

\* A call on its way in knows its key.
Keyed ==
  \A c \in Calls : call[c].status \in {"waiting", "admitted"} => call[c].key \in Keys

IInv == TypeOK /\ KeysOK /\ OneDrain /\ Shut /\ Keyed

\* Key k of the pending map p after a turn of the drain loop: left alone, or
\* handed to a writer that had nothing of it.
Handed(p, k) ==
  \/ pending'[k] = p[k] /\ inflight'[k] = inflight[k]
  \/ pending'[k] = NoEntry /\ inflight'[k] = p[k] /\ inflight[k].content = {}

Turned(p) ==
  /\ pending' \in [Keys -> Entry] /\ inflight' \in [Keys -> Entry]
  /\ before' \in SUBSET (Held(pending') \X Held(pending'))
  /\ drain' \in {"idle", "running", "ending"}
  /\ OneDrain'
  /\ \A k \in Keys : Handed(p, k)

\* A turn of the drain loop on the pending map p, while nothing is in flight.
LEMMA TakeBatchTurns ==
  ASSUME NEW p \in [Keys -> Entry], NEW o \in SUBSET (Held(p) \X Held(p)),
         inflight \in [Keys -> Entry], Held(inflight) = {}, TakeBatch(p, o)
  PROVE  Turned(p)
<1>1. PICK batch \in Batches(p, o) :
         /\ inflight' = [k \in Keys |-> IF k \in batch THEN p[k] ELSE inflight[k]]
         /\ pending' = Cleared(p, batch)
         /\ before' = Unordered(batch, o)
         /\ drain' = IF batch = {} THEN "ending" ELSE "running"
  BY DEF TakeBatch
<1>2. batch \subseteq Held(p)
  BY DEF Batches
<1>3. NoEntry \in Entry /\ NoEntry.content = {}
  BY DEF NoEntry, Entry
<1>4. pending' \in [Keys -> Entry] /\ inflight' \in [Keys -> Entry]
  BY <1>1, <1>3 DEF Cleared
<1>5. \A k \in Keys : Handed(p, k)
  BY <1>1 DEF Handed, Cleared, Held
<1>6. Held(pending') = Held(p) \ batch
  BY <1>1, <1>3 DEF Held, Cleared
<1>7. before' \in SUBSET (Held(pending') \X Held(pending'))
  BY <1>1, <1>6 DEF Unordered
<1>8. OneDrain'
  <2> SUFFICES ASSUME batch = {} PROVE Held(inflight)' = {}
    BY <1>1 DEF OneDrain
  <2> QED BY <1>1 DEF Held
<1> QED BY <1>1, <1>4, <1>5, <1>7, <1>8 DEF Turned

\* ensureDrain, whatever the loop is doing.
LEMMA EnsureDrainTurns ==
  ASSUME TypeOK, OneDrain, NEW p \in [Keys -> Entry],
         NEW o \in SUBSET (Held(p) \X Held(p)), EnsureDrain(p, o)
  PROVE  Turned(p)
<1>1. CASE drain = "idle" /\ TakeBatch(p, o)
  BY <1>1, TakeBatchTurns DEF TypeOK, OneDrain
<1>2. CASE drain # "idle" /\ pending' = p /\ before' = o /\ UNCHANGED <<inflight, drain>>
  BY <1>2 DEF Turned, Handed, TypeOK, OneDrain, Held
<1> QED BY <1>1, <1>2 DEF EnsureDrain

\* The slots of a key survive a turn of the loop.
LEMMA TurnKeepsKey ==
  ASSUME NEW p, NEW k \in Keys, Turned(p), NEW r, NEW n, NEW s, NEW w, NEW d,
         KeyOK(p[k], r, inflight[k], n, s, w, d)
  PROVE  KeyOK(pending'[k], r, inflight'[k], n, s, w, d)
BY HandOver DEF Turned, Handed

\* A turn of the loop on a map with nothing in it moves nothing.
LEMMA TurnOfNothing ==
  ASSUME NEW p, Turned(p), Held(p) = {}
  PROVE  Held(pending') = {} /\ Held(inflight') = Held(inflight)
BY DEF Turned, Handed, Held, NoEntry

\* Settling callers keeps the calls typed, and lets none in.
LEMMA SettleKeepsCalls ==
  ASSUME call \in [Calls -> CallState], NEW ws, NEW st \in {"resolved", "rejected"},
         call' = Settle(ws, st)
  PROVE  /\ call' \in [Calls -> CallState]
         /\ NoneAdmitted => NoneAdmitted'
         /\ Keyed => Keyed'
BY DEF Settle, CallState, CallStatus, NoneAdmitted, Keyed

\* The keys whose writes settle have something in flight.
LEMMA SettlingAreInFlight ==
  ASSUME NEW ks \in SettlingTogether
  PROVE  ks \subseteq Held(inflight) /\ Held(inflight) # {}
BY DEF SettlingTogether, Held

-----------------------------------------------------------------------------
(* Init, and one lemma per action *)

\* The queue starts empty.
LEMMA InitIInv == Init => IInv
<1> SUFFICES ASSUME Init PROVE IInv
  OBVIOUS
<1> USE DEF Init, NoEntry
<1>1. TypeOK
  BY ConstantsOK DEF ConstantsOK, TypeOK, Entry, Held, Destroyer, CallState, CallStatus
<1>2. KeysOK
  BY DEF KeysOK, KeyOK, Entry, Current
<1>3. OneDrain /\ Shut /\ Keyed
  BY DEF OneDrain, Shut, Keyed, Held
<1> QED BY <1>1, <1>2, <1>3 DEF IInv

\* addPendingEntry of the next value of key k, in a queue that still takes it.
LEMMA AddKeeps ==
  ASSUME IInv, NEW k \in Keys, NEW callers \in SUBSET Calls,
         AddPendingEntry(k, Offer(issued[k] + 1, callers)),
         issued' = [issued EXCEPT ![k] = @ + 1],
         UNCHANGED <<batched, store, written, dropped, shutdown, retryDisabled, destroyer>>,
         call' \in [Calls -> CallState], Keyed', ~retryDisabled, destroyer # "clean"
  PROVE  IInv'
<1> DEFINE merged == Merge(Merge(retry[k], pending[k]), Offer(issued[k] + 1, callers))
           p == [pending EXCEPT ![k] = merged]
           o == Ordered(pending, before, k)
<1>1. TypeOK /\ KeysOK /\ OneDrain /\ Shut
  BY DEF IInv
<1>2. /\ KeyOK(merged, NoEntry, inflight[k], issued[k] + 1, store[k], written[k], dropped[k])
      /\ merged.content # {}
  BY <1>1, Added DEF KeysOK
<1>3. merged \in Entry /\ NoEntry \in Entry /\ NoEntry.content = {}
  BY <1>2 DEF KeyOK, NoEntry
<1>4. p \in [Keys -> Entry] /\ Held(p) = Held(pending) \cup {k}
  <2> HIDE DEF merged
  <2> QED BY <1>1, <1>2, <1>3 DEF TypeOK, Held
<1>5. o \in SUBSET (Held(p) \X Held(p))
  BY <1>1, <1>4 DEF TypeOK, Ordered
<1>6. EnsureDrain(p, o) /\ retry' = Cleared(retry, {k})
  BY DEF AddPendingEntry
<1>7. Turned(p)
  BY <1>1, <1>4, <1>5, <1>6, EnsureDrainTurns
<1>8. KeysOK'
  <2> SUFFICES ASSUME NEW j \in Keys
               PROVE  KeyOK(pending'[j], retry'[j], inflight'[j], issued'[j], store[j],
                            written[j], dropped[j])
    BY DEF KeysOK
  <2>1. KeyOK(p[j], retry'[j], inflight[j], issued'[j], store[j], written[j], dropped[j])
    <3>1. CASE j = k
      <4> HIDE DEF merged
      <4> QED BY <1>1, <1>2, <1>6, <3>1 DEF Cleared, TypeOK
    <3>2. CASE j # k
      BY <1>1, <1>6, <3>2 DEF Cleared, TypeOK, KeysOK
    <3> QED BY <3>1, <3>2
  <2> QED BY <1>7, <2>1, TurnKeepsKey
<1>9. TypeOK'
  BY <1>1, <1>3, <1>6, <1>7 DEF TypeOK, Turned, Cleared
<1> HIDE DEF p
<1> QED BY <1>1, <1>7, <1>8, <1>9 DEF IInv, Turned, Shut

\* A turn of the drain loop on what is pending, whoever starts it; values may
\* be refused in the same step.
LEMMA TurnKeeps ==
  ASSUME IInv, Turned(pending), UNCHANGED <<batched, retry, store, written, shutdown,
         retryDisabled, destroyer>>,
         call' \in [Calls -> CallState], Keyed', NoneAdmitted => NoneAdmitted',
         \A k \in Keys : \/ issued'[k] = issued[k] /\ dropped'[k] = dropped[k]
                         \/ /\ issued'[k] = issued[k] + 1
                            /\ dropped'[k] = dropped[k] \cup {issued[k] + 1},
         issued' \in [Keys -> Nat], dropped' \in [Keys -> SUBSET Nat]
  PROVE  IInv'
<1>1. TypeOK /\ KeysOK /\ Shut
  BY DEF IInv
<1>2. KeysOK'
  <2> SUFFICES ASSUME NEW k \in Keys
               PROVE  KeyOK(pending'[k], retry[k], inflight'[k], issued'[k], store[k],
                            written[k], dropped'[k])
    BY DEF KeysOK
  <2>1. KeyOK(pending[k], retry[k], inflight[k], issued[k], store[k], written[k], dropped[k])
    BY <1>1 DEF KeysOK
  <2>2. KeyOK(pending[k], retry[k], inflight[k], issued'[k], store[k], written[k], dropped'[k])
    BY <2>1, Refused
  <2> QED BY <2>2, TurnKeepsKey
<1>3. TypeOK'
  BY <1>1 DEF TypeOK, Turned
<1>4. Shut'
  <2>1. Held(pending) = {} => Held(pending)' = {} /\ Held(inflight)' = Held(inflight)
    BY TurnOfNothing DEF Held
  <2> QED BY <1>1, <2>1 DEF Shut, Held
<1> QED BY <1>2, <1>3, <1>4 DEF IInv, Turned

\* A turn that does nothing.
LEMMA StillTurned ==
  ASSUME IInv, UNCHANGED <<pending, before, inflight, drain>>
  PROVE  Turned(pending)
BY DEF IInv, TypeOK, OneDrain, Held, Turned, Handed

\* enqueue, accepted with or without a throwing coalesce, or refused.
LEMMA EnqueueKeeps ==
  ASSUME IInv, UNCHANGED batched, NEW k \in Keys, Enqueue(k) \/ EnqueueRefused(k)
  PROVE  IInv' /\ UNCHANGED store
<1>1. TypeOK /\ OneDrain /\ Shut /\ Keyed
  BY DEF IInv
<1>2. /\ issued' = [issued EXCEPT ![k] = @ + 1]
      /\ UNCHANGED <<shutdown, retryDisabled, destroyer, call, store, written>>
  BY DEF Enqueue, EnqueueRefused
<1>3. CASE Enqueue(k) /\ AddPendingEntry(k, Offer(issued[k] + 1, {})) /\ UNCHANGED dropped
  <2>1. ~retryDisabled /\ destroyer # "clean"
    BY <1>1, <1>3 DEF Enqueue, Shut
  <2>2. call' \in [Calls -> CallState] /\ Keyed'
    BY <1>1, <1>2 DEF TypeOK, Keyed
  <2>3. {} \in SUBSET Calls /\ UNCHANGED <<batched, store, written, dropped, shutdown,
                                          retryDisabled, destroyer>>
    BY <1>2, <1>3
  <2>4. issued' = [issued EXCEPT ![k] = @ + 1] /\ AddPendingEntry(k, Offer(issued[k] + 1, {}))
    BY <1>2, <1>3
  <2>5. IInv'
    BY <2>1, <2>2, <2>3, <2>4, AddKeeps
  <2> QED BY <1>2, <2>5
<1>4. CASE /\ UNCHANGED slots \/ (UNCHANGED retry /\ EnsureDrain(pending, before))
           /\ dropped' = [dropped EXCEPT ![k] = @ \cup {issued[k] + 1}]
  <2>1. Turned(pending)
    BY <1>1, <1>4, StillTurned, EnsureDrainTurns DEF slots, TypeOK
  <2>2. UNCHANGED retry
    BY <1>4 DEF slots
  <2>3. \A j \in Keys : \/ issued'[j] = issued[j] /\ dropped'[j] = dropped[j]
                        \/ /\ issued'[j] = issued[j] + 1
                           /\ dropped'[j] = dropped[j] \cup {issued[j] + 1}
    BY <1>1, <1>2, <1>4 DEF TypeOK
  <2>4. issued' \in [Keys -> Nat] /\ dropped' \in [Keys -> SUBSET Nat]
    BY <1>1, <1>2, <1>4 DEF TypeOK
  <2>5. call' \in [Calls -> CallState] /\ (NoneAdmitted => NoneAdmitted') /\ Keyed'
    BY <1>1, <1>2 DEF TypeOK, NoneAdmitted, Keyed
  <2> QED BY <1>2, <2>1, <2>2, <2>3, <2>4, <2>5, TurnKeeps
<1>5. CASE EnqueueRefused(k)
  BY <1>4, <1>5 DEF EnqueueRefused
<1>6. CASE Enqueue(k)
  <2>1. \/ /\ AddPendingEntry(k, [content |-> {issued[k] + 1}, waiters |-> {}])
           /\ UNCHANGED dropped
        \/ /\ CoalesceThrows(k)
           /\ dropped' = [dropped EXCEPT ![k] = @ \cup {issued[k] + 1}]
    BY <1>6 DEF Enqueue
  <2>2. CASE CoalesceThrows(k) /\ dropped' = [dropped EXCEPT ![k] = @ \cup {issued[k] + 1}]
    BY <1>4, <2>2 DEF CoalesceThrows
  <2> QED BY <1>3, <1>6, <2>1, <2>2 DEF Offer
<1> QED BY <1>5, <1>6

\* enqueueAsync up to its await, and waitForCapacity after its wait.
LEMMA CallerMovesKeeps ==
  ASSUME IInv, UNCHANGED batched, NEW c \in Calls,
         (\E k \in Keys : EnqueueAsync(c, k)) \/ CapacityWake(c)
  PROVE  IInv' /\ UNCHANGED store
<1>1. TypeOK /\ Shut /\ Keyed
  BY DEF IInv
<1>2. UNCHANGED <<slots, shutdown, retryDisabled, destroyer, issued, store, written, dropped>>
  BY DEF EnqueueAsync, CapacityWake
<1>3. call' \in [Calls -> CallState] /\ (shutdown /\ NoneAdmitted => NoneAdmitted') /\ Keyed'
  <2> USE DEF CallState, CallStatus
  <2>1. call[c] \in CallState /\ call \in [Calls -> CallState]
    BY <1>1 DEF TypeOK
  <2>2. PICK new \in CallState :
          /\ call' = [call EXCEPT ![c] = new]
          /\ new.status \in {"waiting", "admitted"} => new.key \in Keys
          /\ shutdown => new.status # "admitted"
    <3>1. ASSUME NEW k \in Keys, EnqueueAsync(c, k)
          PROVE  \E new \in CallState : /\ call' = [call EXCEPT ![c] = new]
                                        /\ new.status \in {"waiting", "admitted"} => new.key \in Keys
                                        /\ shutdown => new.status # "admitted"
      <4> DEFINE new == [call[c] EXCEPT !.key = k,
                           !.status = IF shutdown THEN "rejected"
                                      ELSE IF HasRoom(k) THEN "admitted" ELSE "waiting"]
      <4>1. call' = [call EXCEPT ![c] = new]
        BY <3>1 DEF EnqueueAsync
      <4>2. new \in CallState /\ new.key = k /\ (shutdown => new.status # "admitted")
        BY <2>1
      <4> QED BY <4>1, <4>2
    <3>2. ASSUME CapacityWake(c)
          PROVE  \E new \in CallState : /\ call' = [call EXCEPT ![c] = new]
                                        /\ new.status \in {"waiting", "admitted"} => new.key \in Keys
                                        /\ shutdown => new.status # "admitted"
      BY <1>1, <2>1, <3>2 DEF CapacityWake, Keyed
    <3> QED BY <3>1, <3>2
  <2>3. call' \in [Calls -> CallState]
    BY <2>1, <2>2
  <2> QED BY <1>1, <2>1, <2>2, <2>3 DEF NoneAdmitted, Keyed
<1>4. TypeOK'
  BY <1>1, <1>2, <1>3 DEF TypeOK, slots, Held
<1>5. KeysOK' /\ OneDrain' /\ Shut'
  BY <1>2, <1>3 DEF IInv, KeysOK, OneDrain, Shut, Held, slots
<1> QED BY <1>2, <1>3, <1>4, <1>5 DEF IInv

\* enqueueAsync after its await.
LEMMA AdmitKeeps ==
  ASSUME IInv, UNCHANGED batched, NEW c \in Calls, AdmitAsync(c)
  PROVE  IInv' /\ UNCHANGED store
<1> DEFINE k == call[c].key
           v == issued[k] + 1
<1>1. TypeOK /\ OneDrain /\ Shut /\ Keyed
  BY DEF IInv
<1>2. /\ call[c].status = "admitted"
      /\ issued' = [issued EXCEPT ![k] = v]
      /\ UNCHANGED <<shutdown, retryDisabled, destroyer, store, written>>
  BY DEF AdmitAsync
<1>3. call[c] \in CallState /\ k \in Keys /\ v \in Nat
  BY <1>1, <1>2 DEF TypeOK, Keyed
<1>4. ~NoneAdmitted
  BY <1>2 DEF NoneAdmitted
<1>5. ~retryDisabled /\ destroyer # "clean"
  BY <1>1, <1>4 DEF Shut
<1>6. \/ /\ AddPendingEntry(k, Offer(v, {c}))
         /\ call' = [call EXCEPT ![c] = [@ EXCEPT !.status = "queued", !.version = v]]
         /\ UNCHANGED dropped
      \/ /\ CoalesceThrows(k)
         /\ call' = [call EXCEPT ![c] = [@ EXCEPT !.status = "rejected", !.version = v]]
         /\ dropped' = [dropped EXCEPT ![k] = @ \cup {v}]
  BY DEF AdmitAsync, Offer
<1>7. call' \in [Calls -> CallState] /\ Keyed'
  <2> HIDE DEF k, v
  <2>1. PICK st \in {"queued", "rejected"} :
          call' = [call EXCEPT ![c] = [@ EXCEPT !.status = st, !.version = v]]
    BY <1>6
  <2>2. [call[c] EXCEPT !.status = st, !.version = v] \in CallState
    BY <1>3 DEF CallState, CallStatus
  <2>3. call' \in [Calls -> CallState]
    BY <1>1, <2>1, <2>2 DEF TypeOK
  <2> QED BY <1>1, <1>3, <2>1, <2>3 DEF Keyed, TypeOK, CallState
<1>8. CASE AddPendingEntry(k, Offer(v, {c})) /\ UNCHANGED dropped
  <2>1. issued' = [issued EXCEPT ![k] = @ + 1]
    BY <1>2
  <2>2. {c} \in SUBSET Calls /\ UNCHANGED <<batched, store, written, dropped, shutdown,
                                           retryDisabled, destroyer>>
    BY <1>2, <1>8
  <2> HIDE DEF k
  <2>3. IInv'
    BY <1>3, <1>5, <1>7, <1>8, <2>1, <2>2, AddKeeps
  <2> QED BY <2>2, <2>3
<1>9. CASE CoalesceThrows(k) /\ dropped' = [dropped EXCEPT ![k] = @ \cup {v}]
  <2>1. Turned(pending) /\ UNCHANGED retry
    BY <1>1, <1>9, EnsureDrainTurns DEF CoalesceThrows, TypeOK
  <2>2. \A j \in Keys : \/ issued'[j] = issued[j] /\ dropped'[j] = dropped[j]
                        \/ /\ issued'[j] = issued[j] + 1
                           /\ dropped'[j] = dropped[j] \cup {issued[j] + 1}
    BY <1>1, <1>2, <1>3, <1>9 DEF TypeOK
  <2>3. issued' \in [Keys -> Nat] /\ dropped' \in [Keys -> SUBSET Nat]
    BY <1>1, <1>2, <1>3, <1>9 DEF TypeOK
  <2> QED BY <1>2, <1>4, <1>7, <2>1, <2>2, <2>3, TurnKeeps
<1> QED BY <1>2, <1>6, <1>8, <1>9

\* The store after some of the writes of ks were applied.
LEMMA StoredValues ==
  ASSUME NEW ks, NEW applied \in SUBSET ks, store \in [Keys -> Nat],
         store' = Stored(applied)
  PROVE  /\ \A k \in Keys \ ks : store'[k] = store[k]
         /\ \A k \in Keys : store'[k] \in {store[k], Newest(inflight[k].content)}
         /\ applied = ks => \A k \in Keys \cap ks : store'[k] = Newest(inflight[k].content)
BY DEF Stored

\* The writer's promise resolved.
LEMMA WriteSucceedsKeeps ==
  ASSUME IInv, UNCHANGED batched, NEW ks \in SUBSET Keys, WriteSucceeds(ks)
  PROVE  IInv' /\ \A k \in Keys : store[k] <= store'[k]
<1>1. TypeOK /\ KeysOK /\ OneDrain /\ Shut /\ Keyed
  BY DEF IInv
<1>2. ks \subseteq Held(inflight)
  BY SettlingAreInFlight DEF WriteSucceeds
<1>3. NoEntry \in Entry /\ NoEntry.content = {}
  BY DEF NoEntry, Entry
<1>4. \A k \in Keys : store'[k] = IF k \in ks THEN Newest(inflight[k].content) ELSE store[k]
  BY DEF WriteSucceeds, Stored
<1>5. ASSUME NEW k \in Keys
      PROVE  /\ KeyOK(pending'[k], retry'[k], inflight'[k], issued'[k], store'[k],
                      written'[k], dropped'[k])
             /\ store[k] <= store'[k]
  <2>1. KeyOK(pending[k], retry[k], inflight[k], issued[k], store[k], written[k], dropped[k])
    BY <1>1 DEF KeysOK
  <2>2. /\ UNCHANGED <<pending, retry, issued, dropped>>
        /\ inflight' = Cleared(inflight, ks)
        /\ written'[k] = IF k \in ks THEN written[k] \cup inflight[k].content ELSE written[k]
    BY DEF WriteSucceeds
  <2>3. CASE k \in ks
    <3>1. inflight[k].content # {}
      BY <1>2, <2>3 DEF Held
    <3>2. inflight'[k] = NoEntry
      BY <2>2, <2>3 DEF Cleared
    <3>3. /\ KeyOK(pending[k], retry[k], NoEntry, issued[k], Newest(inflight[k].content),
                   written[k] \cup inflight[k].content, dropped[k])
          /\ store[k] <= Newest(inflight[k].content)
      BY <2>1, <3>1, Succeeded
    <3>4. /\ store'[k] = Newest(inflight[k].content)
          /\ written'[k] = written[k] \cup inflight[k].content
      BY <1>4, <2>2, <2>3
    <3> QED BY <2>2, <3>2, <3>3, <3>4
  <2>4. CASE k \notin ks
    <3>1. inflight'[k] = inflight[k]
      BY <2>2, <2>4 DEF Cleared
    <3>2. store[k] <= store[k]
      BY <1>1 DEF TypeOK
    <3>3. store'[k] = store[k] /\ written'[k] = written[k]
      BY <1>4, <2>2, <2>4
    <3> QED BY <2>1, <2>2, <3>1, <3>2, <3>3
  <2> QED BY <2>3, <2>4
<1>6. KeysOK'
  BY <1>5 DEF KeysOK
<1>7. call' \in [Calls -> CallState] /\ (NoneAdmitted => NoneAdmitted') /\ Keyed'
  BY <1>1, SettleKeepsCalls DEF WriteSucceeds, TypeOK
<1>8. store' \in [Keys -> Nat] /\ written' \in [Keys -> SUBSET Nat]
  <2>1. \A k \in Keys : store'[k] \in Nat /\ written'[k] \in SUBSET Nat
    BY <1>5 DEF KeyOK
  <2> QED BY <2>1 DEF WriteSucceeds, Stored
<1>9. Held(inflight') \subseteq Held(inflight) /\ inflight' \in [Keys -> Entry]
  BY <1>1, <1>3 DEF WriteSucceeds, Cleared, Held, TypeOK
<1>10. TypeOK'
  BY <1>1, <1>7, <1>8, <1>9 DEF WriteSucceeds, TypeOK, Held
<1>11. OneDrain' /\ Shut'
  BY <1>1, <1>7, <1>9 DEF WriteSucceeds, OneDrain, Shut, Held
<1> QED BY <1>5, <1>6, <1>7, <1>10, <1>11 DEF IInv

\* The writer's promise rejected, and the entries are scheduled.
LEMMA WriteFailsKeeps ==
  ASSUME IInv, UNCHANGED batched, NEW ks \in SUBSET Keys, WriteFails(ks)
  PROVE  IInv' /\ \A k \in Keys : store[k] <= store'[k]
<1>1. TypeOK /\ KeysOK /\ OneDrain /\ Shut /\ Keyed
  BY DEF IInv
<1>2. ks \subseteq Held(inflight) /\ Held(inflight) # {}
  BY SettlingAreInFlight DEF WriteFails
<1>3. NoEntry \in Entry /\ NoEntry.content = {}
  BY DEF NoEntry, Entry
<1>4. PICK applied \in SUBSET ks : store' = Stored(applied)
  BY DEF WriteFails
<1>5. PICK throws \in Coalescing(ks) :
        /\ retry' = [k \in Keys |->
             IF k \in ks THEN MergeForRetry(inflight, k, throws) ELSE retry[k]]
        /\ dropped' = GivenUp(throws, pending)
        /\ call' = Settle(WaitersOf(pending, throws), "rejected")
  BY DEF WriteFails
<1>6. throws \subseteq ks
  BY DEF Coalescing
<1>7. /\ pending' = Cleared(pending, ks)
      /\ before' = Unordered(ks, before)
      /\ inflight' = Cleared(inflight, ks)
      /\ ~retryDisabled
      /\ UNCHANGED <<drain, shutdown, retryDisabled, destroyer, issued, written>>
  BY DEF WriteFails
<1>8. ASSUME NEW k \in Keys
      PROVE  /\ KeyOK(pending'[k], retry'[k], inflight'[k], issued'[k], store'[k],
                      written'[k], dropped'[k])
             /\ store[k] <= store'[k]
  <2>1. KeyOK(pending[k], retry[k], inflight[k], issued[k], store[k], written[k], dropped[k])
    BY <1>1 DEF KeysOK
  <2>2. store'[k] \in {store[k], Newest(inflight[k].content)}
    BY <1>1, <1>4, StoredValues DEF TypeOK
  <2>3. CASE k \in ks
    <3>1. inflight[k].content # {}
      BY <1>2, <2>3 DEF Held
    <3>2. pending'[k] = NoEntry /\ inflight'[k] = NoEntry
      BY <1>7, <2>3 DEF Cleared
    <3>3. /\ KeyOK(NoEntry, Merge(inflight[k], pending[k]), NoEntry, issued[k], store'[k],
                   written[k], dropped[k])
          /\ KeyOK(NoEntry, inflight[k], NoEntry, issued[k], store'[k], written[k],
                   dropped[k] \cup pending[k].content)
          /\ store[k] <= store'[k]
      BY <2>1, <2>2, <3>1, Failed
    <3>4. retry'[k] = IF k \in throws THEN inflight[k] ELSE Merge(inflight[k], pending[k])
      BY <1>5, <2>3 DEF MergeForRetry
    <3>5. dropped'[k] = IF k \in throws THEN dropped[k] \cup pending[k].content ELSE dropped[k]
      BY <1>5 DEF GivenUp
    <3> QED BY <1>7, <3>2, <3>3, <3>4, <3>5
  <2>4. CASE k \notin ks
    <3>1. /\ pending'[k] = pending[k] /\ inflight'[k] = inflight[k] /\ retry'[k] = retry[k]
          /\ dropped'[k] = dropped[k]
      BY <1>5, <1>6, <1>7, <2>4 DEF Cleared, GivenUp
    <3>2. store'[k] = store[k]
      BY <1>1, <1>4, <2>4 DEF Stored
    <3>3. store[k] <= store[k]
      BY <1>1 DEF TypeOK
    <3> QED BY <1>7, <2>1, <3>1, <3>2, <3>3
  <2> QED BY <2>3, <2>4
<1>9. KeysOK'
  BY <1>8 DEF KeysOK
<1>10. call' \in [Calls -> CallState] /\ (NoneAdmitted => NoneAdmitted') /\ Keyed'
  BY <1>1, <1>5, SettleKeepsCalls DEF TypeOK
<1>11. \A k \in Keys : store'[k] \in Nat /\ retry'[k] \in Entry /\ dropped'[k] \in SUBSET Nat
  BY <1>8 DEF KeyOK
<1>12. /\ store' \in [Keys -> Nat] /\ retry' \in [Keys -> Entry]
       /\ dropped' \in [Keys -> SUBSET Nat]
  BY <1>4, <1>5, <1>11 DEF Stored, GivenUp
<1>13. /\ pending' \in [Keys -> Entry] /\ inflight' \in [Keys -> Entry]
       /\ Held(pending') = Held(pending) \ ks /\ Held(inflight') \subseteq Held(inflight)
  BY <1>1, <1>3, <1>7 DEF Cleared, Held, TypeOK
<1>14. before' \in SUBSET (Held(pending') \X Held(pending'))
  BY <1>1, <1>7, <1>13 DEF Unordered, TypeOK
<1>15. TypeOK'
  BY <1>1, <1>7, <1>10, <1>12, <1>13, <1>14 DEF TypeOK, Held
<1>16. OneDrain' /\ Shut'
  BY <1>1, <1>2, <1>7, <1>13 DEF OneDrain, Shut, Held
<1> QED BY <1>8, <1>9, <1>10, <1>15, <1>16 DEF IInv

\* The writer's promise rejected after destroy gave up.
LEMMA WriteFailsForGoodKeeps ==
  ASSUME IInv, UNCHANGED batched, NEW ks \in SUBSET Keys, WriteFailsForGood(ks)
  PROVE  IInv' /\ \A k \in Keys : store[k] <= store'[k]
<1>1. TypeOK /\ KeysOK /\ OneDrain /\ Shut /\ Keyed
  BY DEF IInv
<1>2. ks \subseteq Held(inflight)
  BY SettlingAreInFlight DEF WriteFailsForGood
<1>3. NoEntry \in Entry /\ NoEntry.content = {}
  BY DEF NoEntry, Entry
<1>4. PICK applied \in SUBSET ks : store' = Stored(applied)
  BY DEF WriteFailsForGood
<1>5. /\ dropped' = GivenUp(ks, inflight)
      /\ call' = Settle(WaitersOf(inflight, ks), "rejected")
      /\ inflight' = Cleared(inflight, ks)
      /\ UNCHANGED <<pending, before, retry, drain, shutdown, retryDisabled, destroyer,
                     issued, written>>
  BY DEF WriteFailsForGood
<1>6. ASSUME NEW k \in Keys
      PROVE  /\ KeyOK(pending'[k], retry'[k], inflight'[k], issued'[k], store'[k],
                      written'[k], dropped'[k])
             /\ store[k] <= store'[k]
  <2>1. KeyOK(pending[k], retry[k], inflight[k], issued[k], store[k], written[k], dropped[k])
    BY <1>1 DEF KeysOK
  <2>2. store'[k] \in {store[k], Newest(inflight[k].content)}
    BY <1>1, <1>4, StoredValues DEF TypeOK
  <2>3. CASE k \in ks
    <3>1. inflight[k].content # {}
      BY <1>2, <2>3 DEF Held
    <3>2. /\ inflight'[k] = NoEntry
          /\ dropped'[k] = dropped[k] \cup inflight[k].content
      BY <1>5, <2>3 DEF Cleared, GivenUp
    <3>3. /\ KeyOK(pending[k], retry[k], NoEntry, issued[k], store'[k], written[k],
                   dropped[k] \cup inflight[k].content)
          /\ store[k] <= store'[k]
      <4>1. \A t \in {store[k], Newest(inflight[k].content)} :
              /\ KeyOK(pending[k], retry[k], NoEntry, issued[k], t, written[k],
                       dropped[k] \cup inflight[k].content)
              /\ store[k] <= t
        BY <2>1, <3>1, FailedForGood
      <4> QED BY <2>2, <4>1
    <3> QED BY <1>5, <3>2, <3>3
  <2>4. CASE k \notin ks
    <3>1. inflight'[k] = inflight[k] /\ dropped'[k] = dropped[k]
      BY <1>5, <2>4 DEF Cleared, GivenUp
    <3>2. store'[k] = store[k]
      BY <1>1, <1>4, <2>4 DEF Stored
    <3>3. store[k] <= store[k]
      BY <1>1 DEF TypeOK
    <3> QED BY <1>5, <2>1, <3>1, <3>2, <3>3
  <2> QED BY <2>3, <2>4
<1>7. KeysOK'
  BY <1>6 DEF KeysOK
<1>8. call' \in [Calls -> CallState] /\ (NoneAdmitted => NoneAdmitted') /\ Keyed'
  BY <1>1, <1>5, SettleKeepsCalls DEF TypeOK
<1>9. \A k \in Keys : store'[k] \in Nat /\ dropped'[k] \in SUBSET Nat
  BY <1>6 DEF KeyOK
<1>10. store' \in [Keys -> Nat] /\ dropped' \in [Keys -> SUBSET Nat]
  BY <1>4, <1>5, <1>9 DEF Stored, GivenUp
<1>11. inflight' \in [Keys -> Entry] /\ Held(inflight') \subseteq Held(inflight)
  BY <1>1, <1>3, <1>5 DEF Cleared, Held, TypeOK
<1>12. TypeOK'
  BY <1>1, <1>5, <1>8, <1>10, <1>11 DEF TypeOK, Held
<1>13. OneDrain' /\ Shut'
  BY <1>1, <1>5, <1>8, <1>11 DEF OneDrain, Shut, Held
<1> QED BY <1>6, <1>7, <1>8, <1>12, <1>13 DEF IInv

\* The drain loop after a batch, and its finally callback.
LEMMA DrainKeeps ==
  ASSUME IInv, UNCHANGED batched, DrainContinues \/ DrainEnds
  PROVE  IInv' /\ UNCHANGED store
<1>1. TypeOK /\ OneDrain /\ Keyed
  BY DEF IInv
<1>2. UNCHANGED <<retry, shutdown, retryDisabled, destroyer, call, issued, store,
                  written, dropped>>
  BY DEF DrainContinues, DrainEnds
<1>3. Held(inflight) = {}
  BY <1>1 DEF DrainContinues, DrainEnds, OneDrain
<1>4. Turned(pending)
  <2>1. CASE TakeBatch(pending, before)
    BY <1>1, <1>3, <2>1, TakeBatchTurns DEF TypeOK
  <2>2. CASE drain' = "idle" /\ UNCHANGED <<pending, before, inflight>>
    BY <1>1, <1>3, <2>2 DEF Turned, Handed, TypeOK, OneDrain, Held
  <2> QED BY <2>1, <2>2 DEF DrainContinues, DrainEnds
<1>5. /\ call' \in [Calls -> CallState] /\ Keyed' /\ (NoneAdmitted => NoneAdmitted')
      /\ issued' \in [Keys -> Nat] /\ dropped' \in [Keys -> SUBSET Nat]
      /\ \A k \in Keys : issued'[k] = issued[k] /\ dropped'[k] = dropped[k]
  BY <1>1, <1>2 DEF TypeOK, Keyed, NoneAdmitted
<1>6. UNCHANGED <<batched, retry, store, written, shutdown, retryDisabled, destroyer>>
  BY <1>2
<1>7. IInv'
  BY <1>4, <1>5, <1>6, TurnKeeps
<1> QED BY <1>2, <1>7

\* A retry timer fires.
LEMMA RetryTimerKeeps ==
  ASSUME IInv, UNCHANGED batched, NEW k \in Keys, RetryTimer(k)
  PROVE  IInv' /\ UNCHANGED store
<1>1. TypeOK /\ KeysOK /\ OneDrain /\ Shut /\ Keyed
  BY DEF IInv
<1>2. PICK throws \in Coalescing({k}) :
        /\ EnsureDrain([pending EXCEPT ![k] = MergeForRetry(retry, k, throws)],
                       Ordered(Cleared(pending, {k}), Unordered({k}, before), k))
        /\ dropped' = GivenUp(throws, pending)
        /\ call' = Settle(WaitersOf(pending, throws), "rejected")
  BY DEF RetryTimer
<1> DEFINE back == MergeForRetry(retry, k, throws)
           p == [pending EXCEPT ![k] = back]
           o == Ordered(Cleared(pending, {k}), Unordered({k}, before), k)
<1>3. /\ retry' = Cleared(retry, {k}) /\ retry[k].content # {} /\ ~retryDisabled
      /\ UNCHANGED <<shutdown, retryDisabled, destroyer, issued, store, written>>
  BY DEF RetryTimer, Held
<1>4. KeyOK(pending[k], retry[k], inflight[k], issued[k], store[k], written[k], dropped[k])
  BY <1>1 DEF KeysOK
<1>5. /\ KeyOK(back, NoEntry, inflight[k], issued[k], store[k], written[k], dropped'[k])
      /\ back \in Entry /\ back.content # {}
  <2>1. /\ KeyOK(Merge(retry[k], pending[k]), NoEntry, inflight[k], issued[k], store[k],
                 written[k], dropped[k])
        /\ KeyOK(retry[k], NoEntry, inflight[k], issued[k], store[k], written[k],
                 dropped[k] \cup pending[k].content)
    BY <1>3, <1>4, Retried
  <2>2. back = IF k \in throws THEN retry[k] ELSE Merge(retry[k], pending[k])
    BY DEF MergeForRetry
  <2>3. dropped'[k] = IF k \in throws THEN dropped[k] \cup pending[k].content ELSE dropped[k]
    BY <1>2 DEF GivenUp
  <2>4. KeyOK(back, NoEntry, inflight[k], issued[k], store[k], written[k], dropped'[k])
    BY <2>1, <2>2, <2>3
  <2>5. back.content # {}
    BY <1>3, <2>2 DEF Merge
  <2> QED BY <2>4, <2>5 DEF KeyOK
<1>6. NoEntry \in Entry /\ NoEntry.content = {}
  BY DEF NoEntry, Entry
<1>7. p \in [Keys -> Entry] /\ Held(p) = Held(pending) \cup {k}
  <2> HIDE DEF back
  <2> QED BY <1>1, <1>5 DEF TypeOK, Held
<1>8. o \in SUBSET (Held(p) \X Held(p))
  <2>1. Held(Cleared(pending, {k})) = Held(pending) \ {k}
    BY <1>6 DEF Held, Cleared
  <2>2. Unordered({k}, before) \subseteq Held(pending) \X Held(pending)
    BY <1>1 DEF TypeOK, Unordered
  <2>3. o \subseteq Unordered({k}, before) \cup ((Held(pending) \ {k}) \X {k})
    BY <2>1 DEF Ordered
  <2> HIDE DEF o, p
  <2> QED BY <1>7, <2>2, <2>3
<1>9. Turned(p)
  BY <1>1, <1>2, <1>7, <1>8, EnsureDrainTurns
<1>10. ASSUME NEW j \in Keys
       PROVE  KeyOK(pending'[j], retry'[j], inflight'[j], issued'[j], store'[j],
                    written'[j], dropped'[j])
  <2>1. KeyOK(p[j], retry'[j], inflight[j], issued[j], store[j], written[j], dropped'[j])
    <3>1. CASE j = k
      <4>1. p[k] = back /\ retry'[k] = NoEntry
        BY <1>1, <1>3 DEF Cleared, TypeOK
      <4> HIDE DEF p, back
      <4> QED BY <1>5, <3>1, <4>1
    <3>2. CASE j # k
      <4>1. p[j] = pending[j] /\ retry'[j] = retry[j] /\ dropped'[j] = dropped[j]
        BY <1>1, <1>2, <1>3, <3>2 DEF Cleared, TypeOK, GivenUp, Coalescing
      <4> HIDE DEF p
      <4> QED BY <1>1, <4>1 DEF KeysOK
    <3> QED BY <3>1, <3>2
  <2> HIDE DEF p
  <2> QED BY <1>3, <1>9, <2>1, TurnKeepsKey
<1>11. KeysOK'
  BY <1>10 DEF KeysOK
<1>12. call' \in [Calls -> CallState] /\ Keyed'
  BY <1>1, <1>2, SettleKeepsCalls DEF TypeOK
<1>13. dropped' \in [Keys -> SUBSET Nat] /\ retry' \in [Keys -> Entry]
  <2>1. \A j \in Keys : dropped'[j] \in SUBSET Nat
    BY <1>10 DEF KeyOK
  <2> QED BY <1>1, <1>2, <1>3, <1>6, <2>1 DEF GivenUp, Cleared, TypeOK
<1>14. TypeOK'
  <2> HIDE DEF p
  <2> QED BY <1>1, <1>3, <1>9, <1>12, <1>13 DEF TypeOK, Turned, Held
<1>15. Shut'
  BY <1>1, <1>3 DEF Shut, Held
<1> HIDE DEF p
<1> QED BY <1>3, <1>9, <1>11, <1>12, <1>14, <1>15 DEF IInv, Turned

\* Nothing remains exactly when the three slots of every key are empty.
LEMMA RemainingIsZero ==
  Remaining = 0 <=> Held(pending) = {} /\ Held(retry) = {} /\ Held(inflight) = {}
<1>1. ASSUME NEW slot
      PROVE  /\ Cardinality(Held(slot)) \in Nat
             /\ Cardinality(Held(slot)) = 0 <=> Held(slot) = {}
  <2>1. IsFiniteSet(Held(slot))
    BY FS_Subset, ConstantsOK DEF Held, ConstantsOK
  <2> QED BY <2>1, FS_CardinalityType, FS_EmptySet
<1>2. /\ Cardinality(Held(pending)) \in Nat
      /\ Cardinality(Held(retry)) \in Nat
      /\ Cardinality(Held(inflight)) \in Nat
  BY <1>1
<1>3. Remaining = 0 <=> /\ Cardinality(Held(pending)) = 0
                        /\ Cardinality(Held(retry)) = 0
                        /\ Cardinality(Held(inflight)) = 0
  <2>1. \A a, b, c \in Nat : a + b + c = 0 <=> a = 0 /\ b = 0 /\ c = 0
    OBVIOUS
  <2> QED BY ZenonT(40), <1>2, <2>1 DEF Remaining
<1> QED BY <1>1, <1>3

\* destroy up to its flush, the end of the flush, and the return of destroy.
LEMMA DestroyerMovesKeeps ==
  ASSUME IInv, UNCHANGED batched, Destroy \/ FlushReturns \/ DestroyReturns
  PROVE  IInv' /\ UNCHANGED store
<1>1. TypeOK /\ Shut
  BY DEF IInv
<1>2. UNCHANGED <<slots, retryDisabled, call, issued, store, written, dropped>>
  BY DEF Destroy, FlushReturns, DestroyReturns
<1>3. shutdown' \in BOOLEAN /\ destroyer' \in Destroyer
  BY <1>1 DEF Destroy, FlushReturns, DestroyReturns, TypeOK, Destroyer
<1>4. TypeOK'
  BY <1>1, <1>2, <1>3 DEF TypeOK, slots, Held
<1>5. KeysOK' /\ OneDrain' /\ Keyed'
  BY <1>2 DEF IInv, KeysOK, OneDrain, Keyed, Held, slots
<1>6. Shut'
  <2>1. destroyer' # "live" => shutdown'
    BY <1>1 DEF Destroy, FlushReturns, DestroyReturns, Shut
  <2>2. retryDisabled => shutdown'
    BY <1>1, <2>1 DEF Destroy, FlushReturns, DestroyReturns, Shut
  <2>3. destroyer' = "clean" => NoneAdmitted /\ Remaining = 0
    BY DEF Destroy, FlushReturns, DestroyReturns
  <2> QED BY <1>1, <1>2, <2>1, <2>2, <2>3, RemainingIsZero DEF Shut, slots, Held, NoneAdmitted
<1> QED BY <1>2, <1>4, <1>5, <1>6 DEF IInv

\* destroy discards what its flush left.
LEMMA DestroyDiscardsKeeps ==
  ASSUME IInv, UNCHANGED batched, DestroyDiscards
  PROVE  IInv' /\ UNCHANGED store
<1>1. TypeOK /\ KeysOK /\ OneDrain /\ Shut /\ Keyed
  BY DEF IInv
<1>2. /\ retryDisabled' = TRUE
      /\ dropped' = [k \in Keys |-> dropped[k] \cup pending[k].content \cup retry[k].content]
      /\ call' = Settle(WaitersOf(pending, Keys) \cup WaitersOf(retry, Keys), "rejected")
      /\ pending' = [k \in Keys |-> NoEntry] /\ before' = {}
      /\ retry' = [k \in Keys |-> NoEntry]
      /\ destroyer' = IF Held(inflight) = {} THEN "clean" ELSE "dirty"
      /\ UNCHANGED <<inflight, drain, shutdown, issued, store, written>>
      /\ NoneAdmitted /\ shutdown
  BY <1>1 DEF DestroyDiscards, Shut
<1>3. NoEntry \in Entry /\ NoEntry.content = {}
  BY DEF NoEntry, Entry
<1>4. ASSUME NEW k \in Keys
      PROVE  KeyOK(pending'[k], retry'[k], inflight'[k], issued'[k], store'[k],
                   written'[k], dropped'[k])
  <2>1. KeyOK(NoEntry, NoEntry, inflight[k], issued[k], store[k], written[k],
              dropped[k] \cup pending[k].content \cup retry[k].content)
    BY <1>1, Discarded DEF KeysOK
  <2>2. /\ pending'[k] = NoEntry /\ retry'[k] = NoEntry
        /\ dropped'[k] = dropped[k] \cup pending[k].content \cup retry[k].content
    BY <1>2
  <2> QED BY <1>2, <2>1, <2>2
<1>5. KeysOK'
  BY <1>4 DEF KeysOK
<1>6. call' \in [Calls -> CallState] /\ NoneAdmitted' /\ Keyed'
  BY <1>1, <1>2, SettleKeepsCalls DEF TypeOK
<1>7. dropped' \in [Keys -> SUBSET Nat]
  <2>1. \A k \in Keys : dropped'[k] \in SUBSET Nat
    BY <1>4 DEF KeyOK
  <2> QED BY <1>2, <2>1
<1>8. Held(pending') = {} /\ Held(retry') = {}
  BY <1>2, <1>3 DEF Held
<1>9. TypeOK'
  BY <1>1, <1>2, <1>3, <1>6, <1>7, <1>8 DEF TypeOK, Destroyer, Held
<1>10. OneDrain' /\ Shut'
  BY <1>1, <1>2, <1>6, <1>8 DEF OneDrain, Shut, Held
<1> QED BY <1>2, <1>5, <1>6, <1>9, <1>10 DEF IInv

-----------------------------------------------------------------------------
(* The theorems *)

\* Every step keeps the invariant, and no step takes a key of the store back.
LEMMA StepIInv ==
  ASSUME IInv, [Next]_vars
  PROVE  IInv' /\ (UNCHANGED store \/ \A k \in Keys : store[k] <= store'[k])
<1>1. CASE UNCHANGED vars
  <2>1. UNCHANGED <<batched, pending, before, retry, inflight, drain, shutdown,
                    retryDisabled, destroyer, call, issued, store, written, dropped>>
    BY <1>1 DEF vars, queue
  <2>2. TypeOK' /\ KeysOK' /\ OneDrain' /\ Shut' /\ Keyed'
    BY <2>1 DEF IInv, TypeOK, KeysOK, OneDrain, Shut, Keyed, Held, NoneAdmitted
  <2> QED BY <2>1, <2>2 DEF IInv
<1>2. CASE Next
  <2>1. Step /\ UNCHANGED batched
    BY <1>2 DEF Next
  <2>2. ASSUME NEW k \in Keys, Enqueue(k) \/ EnqueueRefused(k) \/ RetryTimer(k)
        PROVE  IInv' /\ UNCHANGED store
    BY <2>1, <2>2, EnqueueKeeps, RetryTimerKeeps
  <2>3. ASSUME NEW c \in Calls,
               (\E k \in Keys : EnqueueAsync(c, k)) \/ CapacityWake(c) \/ AdmitAsync(c)
        PROVE  IInv' /\ UNCHANGED store
    BY <2>1, <2>3, CallerMovesKeeps, AdmitKeeps
  <2>4. ASSUME NEW ks \in SUBSET Keys,
               WriteSucceeds(ks) \/ WriteFails(ks) \/ WriteFailsForGood(ks)
        PROVE  IInv' /\ \A k \in Keys : store[k] <= store'[k]
    BY <2>1, <2>4, WriteSucceedsKeeps, WriteFailsKeeps, WriteFailsForGoodKeeps
  <2>5. ASSUME DrainContinues \/ DrainEnds \/ Destroy \/ FlushReturns \/ DestroyReturns
                 \/ DestroyDiscards
        PROVE  IInv' /\ UNCHANGED store
    BY <2>1, <2>5, DrainKeeps, DestroyerMovesKeeps, DestroyDiscardsKeeps
  <2> QED BY <2>1, <2>2, <2>3, <2>4, <2>5 DEF Step
<1> QED BY <1>1, <1>2

\* The inductive invariant holds in every reachable state.
LEMMA QueueInvariant == Spec => []IInv
<1>1. IInv /\ [Next]_vars => IInv'
  BY StepIInv
<1> QED BY InitIInv, <1>1, PTL DEF Spec

\* What KeyOK says of each key is what the two per-key properties say.
LEMMA KeysOKGivesProperties ==
  ASSUME KeysOK PROVE RetryStandsAlone /\ EveryWriteAccounted
<1>1. RetryStandsAlone
  BY DEF KeysOK, KeyOK, RetryStandsAlone, Held
<1>2. EveryWriteAccounted
  <2> SUFFICES ASSUME NEW k \in Keys
               PROVE  1..issued[k] = UNION {pending[k].content, retry[k].content,
                                            inflight[k].content, written[k], dropped[k]}
    BY DEF EveryWriteAccounted
  <2>1. 1..issued[k] = pending[k].content \cup retry[k].content \cup inflight[k].content
                         \cup written[k] \cup dropped[k]
    BY DEF KeysOK, KeyOK
  <2> QED BY <2>1
<1> QED BY <1>1, <1>2

\* The types are right, with no bound on the values, whatever the number of
\* keys, callers and limits.
THEOREM QueueTypeOK == Spec => []TypeOK
<1>1. IInv => TypeOK
  BY DEF IInv
<1> QED BY QueueInvariant, <1>1, PTL

\* A key that waits for its retry timer is neither pending nor in flight, in
\* any queue: addPendingEntry takes the timer's entry, and a running loop
\* awaits its batch before it takes another.
THEOREM QueueRetryStandsAlone == Spec => []RetryStandsAlone
<1>1. IInv => RetryStandsAlone
  BY KeysOKGivesProperties DEF IInv
<1> QED BY QueueInvariant, <1>1, PTL

\* No value offered to a queue is ever forgotten: it is in one of the slots,
\* written, or given up.
THEOREM QueueEveryWriteAccounted == Spec => []EveryWriteAccounted
<1>1. IInv => EveryWriteAccounted
  BY KeysOKGivesProperties DEF IInv
<1> QED BY QueueInvariant, <1>1, PTL

\* After destroy gave up on the rest, or reported that nothing was left,
\* nothing is scheduled or pending again.
THEOREM QueueDiscardIsFinal == Spec => []DiscardIsFinal
<1>1. IInv => DiscardIsFinal
  BY RemainingIsZero DEF IInv, Shut, DiscardIsFinal
<1> QED BY QueueInvariant, <1>1, PTL

\* The store never goes back to an older value of any key, through failures
\* that were applied or not, retries, coalescing and destroy.
THEOREM QueueStoreNeverRegresses == Spec => StoreNeverRegresses
<1> DEFINE Forward == \A k \in Keys : store'[k] >= store[k]
<1>1. IInv /\ [Next]_vars => [Forward]_store
  <2> SUFFICES ASSUME IInv, [Next]_vars PROVE Forward \/ UNCHANGED store
    OBVIOUS
  <2>1. IInv' /\ (UNCHANGED store \/ \A k \in Keys : store[k] <= store'[k])
    BY StepIInv
  <2>2. \A k \in Keys : store[k] \in Nat /\ store'[k] \in Nat
    BY <2>1 DEF IInv, TypeOK
  <2> QED BY <2>1, <2>2
<1>2. [][Forward]_store <=> StoreNeverRegresses
  BY PTL DEF StoreNeverRegresses
<1> QED BY QueueInvariant, <1>1, <1>2, PTL DEF Spec

-----------------------------------------------------------------------------
(* The callers of enqueueAsync *)

\* The waiters of entry e of key k are calls whose values it holds.
Tells(e, k, calls) ==
  \A c \in e.waiters :
    /\ c \in Calls /\ calls[c].status = "queued"
    /\ calls[c].key = k /\ calls[c].version \in e.content

\* The slots of key k, as in KeyOK, and the calls made for it: one slot has
\* each that is queued, and what one that resolved wrote was reported written.
Answers(k, p, r, f, w, calls) ==
  /\ Tells(p, k, calls) /\ Tells(r, k, calls) /\ Tells(f, k, calls)
  /\ p.waiters \cap r.waiters = {} /\ p.waiters \cap f.waiters = {} /\ r.waiters \cap f.waiters = {}
  /\ \A c \in Calls : calls[c].key = k =>
       /\ calls[c].status = "queued" => c \in p.waiters \cup r.waiters \cup f.waiters
       /\ calls[c].status = "resolved" => calls[c].version \in w

Promises ==
  /\ \A k \in Keys : Answers(k, pending[k], retry[k], inflight[k], written[k], call)
  /\ \A c \in Calls : call[c].status \in {"queued", "resolved"} => call[c].key \in Keys

LEMMA PromisesGiveProperty ==
  ASSUME Promises PROVE PromisesTrackWrites
<1> SUFFICES ASSUME NEW c \in Calls
             PROVE  LET k == call[c].key
                        holders == {slot \in {"pending", "retry", "inflight"} :
                          c \in CASE slot = "pending" -> pending[k].waiters
                                  [] slot = "retry" -> retry[k].waiters
                                  [] slot = "inflight" -> inflight[k].waiters}
                    IN /\ call[c].status = "resolved" => call[c].version \in written[k]
                       /\ call[c].status = "queued" =>
                            /\ Cardinality(holders) = 1
                            /\ \A slot \in {pending, retry, inflight} :
                                 c \in slot[k].waiters => call[c].version \in slot[k].content
  BY DEF PromisesTrackWrites
<1> DEFINE k == call[c].key
           holders == {slot \in {"pending", "retry", "inflight"} :
             c \in CASE slot = "pending" -> pending[k].waiters
                     [] slot = "retry" -> retry[k].waiters
                     [] slot = "inflight" -> inflight[k].waiters}
<1>1. CASE call[c].status = "resolved"
  BY <1>1 DEF Promises, Answers
<1>2. CASE call[c].status = "queued"
  <2>1. k \in Keys
    BY <1>2 DEF Promises
  <2>2. Answers(k, pending[k], retry[k], inflight[k], written[k], call)
    BY <2>1 DEF Promises
  <2>3. \A slot \in {pending, retry, inflight} :
          c \in slot[k].waiters => call[c].version \in slot[k].content
    BY <2>2 DEF Answers, Tells
  <2>4. holders = {"pending"} \/ holders = {"retry"} \/ holders = {"inflight"}
    <3>1. /\ "pending" \in holders <=> c \in pending[k].waiters
          /\ "retry" \in holders <=> c \in retry[k].waiters
          /\ "inflight" \in holders <=> c \in inflight[k].waiters
          /\ holders \subseteq {"pending", "retry", "inflight"}
      OBVIOUS
    <3> HIDE DEF holders, k
    <3>2. /\ c \in pending[k].waiters \/ c \in retry[k].waiters \/ c \in inflight[k].waiters
          /\ ~(c \in pending[k].waiters /\ c \in retry[k].waiters)
          /\ ~(c \in pending[k].waiters /\ c \in inflight[k].waiters)
          /\ ~(c \in retry[k].waiters /\ c \in inflight[k].waiters)
      BY <1>2, <2>2 DEF Answers, k
    <3> QED BY <3>1, <3>2
  <2>5. Cardinality(holders) = 1
    <3> HIDE DEF holders
    <3> QED BY <2>4, FS_Singleton
  <2> QED BY <1>2, <2>3, <2>5
<1> QED BY <1>1, <1>2

\* A turn of the loop hands entries over with their waiters.
LEMMA LoopHands ==
  ASSUME OneDrain, NEW p, NEW o, (TakeBatch(p, o) /\ Held(inflight) = {}) \/ EnsureDrain(p, o)
  PROVE  \A k \in Keys : Handed(p, k)
<1>1. CASE TakeBatch(p, o) /\ Held(inflight) = {}
  <2>1. PICK batch \in Batches(p, o) :
          /\ inflight' = [k \in Keys |-> IF k \in batch THEN p[k] ELSE inflight[k]]
          /\ pending' = Cleared(p, batch)
    BY <1>1 DEF TakeBatch
  <2> QED BY <1>1, <2>1 DEF Handed, Cleared, Held
<1>2. CASE drain # "idle" /\ pending' = p /\ UNCHANGED inflight
  BY <1>2 DEF Handed
<1> QED BY <1>1, <1>2 DEF EnsureDrain, OneDrain

LEMMA HandedAnswers ==
  ASSUME NEW p, NEW k \in Keys, Handed(p, k), NEW r, NEW w, NEW calls,
         Answers(k, p[k], r, inflight[k], w, calls)
  PROVE  Answers(k, pending'[k], r, inflight'[k], w, calls)
<1>1. CASE pending'[k] = p[k] /\ inflight'[k] = inflight[k]
  BY <1>1
<1>2. CASE pending'[k] = NoEntry /\ inflight'[k] = p[k] /\ inflight[k].content = {}
  <2>1. inflight[k].waiters = {}
    BY <1>2 DEF Answers, Tells
  <2> QED BY <1>2, <2>1 DEF Answers, Tells, NoEntry
<1> QED BY <1>1, <1>2 DEF Handed

\* A turn on the pending map p, with the calls and the other slots as they are then.
LEMMA TurnAnswers ==
  ASSUME NEW p, NEW o, OneDrain, (TakeBatch(p, o) /\ Held(inflight) = {}) \/ EnsureDrain(p, o),
         \A k \in Keys : Answers(k, p[k], retry'[k], inflight[k], written'[k], call'),
         \A c \in Calls : call'[c].status \in {"queued", "resolved"} => call'[c].key \in Keys
  PROVE  Promises'
<1>1. \A k \in Keys : Answers(k, pending'[k], retry'[k], inflight'[k], written'[k], call')
  BY LoopHands, HandedAnswers
<1> QED BY <1>1 DEF Promises

\* Calls that are told: they were waiting at key k, and no other key has them.
LEMMA SettledCalls ==
  ASSUME call \in [Calls -> CallState], NEW ws, NEW st, call' = Settle(ws, st)
  PROVE  \A c \in Calls :
           /\ call'[c].key = call[c].key /\ call'[c].version = call[c].version
           /\ call'[c].status = IF c \in ws THEN st ELSE call[c].status
BY DEF Settle, CallState

LEMMA EnqueuePromises ==
  ASSUME IInv, Promises, NEW k \in Keys, Enqueue(k) \/ EnqueueRefused(k)
  PROVE  Promises'
<1>1. /\ UNCHANGED <<call, written>> /\ OneDrain
      /\ \A c \in Calls : call'[c].status \in {"queued", "resolved"} => call'[c].key \in Keys
  BY DEF Enqueue, EnqueueRefused, IInv, Promises
<1>2. pending \in [Keys -> Entry] /\ retry \in [Keys -> Entry]
  BY DEF IInv, TypeOK
<1>3. CASE UNCHANGED slots
  BY <1>1, <1>3 DEF slots, Promises
<1>4. CASE UNCHANGED retry /\ EnsureDrain(pending, before)
  BY <1>1, <1>4, TurnAnswers DEF Promises
<1>5. CASE AddPendingEntry(k, [content |-> {issued[k] + 1}, waiters |-> {}])
  <2> DEFINE merged == Merge(Merge(retry[k], pending[k]), [content |-> {issued[k] + 1}, waiters |-> {}])
             p == [pending EXCEPT ![k] = merged]
  <2>1. EnsureDrain(p, Ordered(pending, before, k)) /\ retry' = Cleared(retry, {k})
    BY <1>5 DEF AddPendingEntry
  <2>2. ASSUME NEW j \in Keys
        PROVE  Answers(j, p[j], retry'[j], inflight[j], written'[j], call')
    <3>1. Answers(j, pending[j], retry[j], inflight[j], written[j], call)
      BY DEF Promises
    <3>2. CASE j = k
      BY <1>1, <1>2, <2>1, <3>1, <3>2 DEF Answers, Tells, Cleared, Merge, NoEntry
    <3>3. CASE j # k
      BY <1>1, <1>2, <2>1, <3>1, <3>3 DEF Cleared
    <3> QED BY <3>2, <3>3
  <2> HIDE DEF p
  <2> QED BY <1>1, <2>1, <2>2, TurnAnswers
<1> QED BY <1>3, <1>4, <1>5 DEF Enqueue, EnqueueRefused, CoalesceThrows

\* A call that waits for room is in no entry.
LEMMA CallerMovesPromises ==
  ASSUME IInv, Promises, NEW c \in Calls, (\E k \in Keys : EnqueueAsync(c, k)) \/ CapacityWake(c)
  PROVE  Promises'
<1>1. PICK new : /\ call' = [call EXCEPT ![c] = new]
                 /\ new.status \notin {"queued", "resolved"}
  <2>1. call[c] \in CallState
    BY DEF IInv, TypeOK
  <2>2. ASSUME NEW k \in Keys, EnqueueAsync(c, k)
        PROVE  \E new : /\ call' = [call EXCEPT ![c] = new]
                        /\ new.status \notin {"queued", "resolved"}
    <3> DEFINE new == [call[c] EXCEPT !.key = k,
                         !.status = IF shutdown THEN "rejected"
                                    ELSE IF HasRoom(k) THEN "admitted" ELSE "waiting"]
    <3>1. call' = [call EXCEPT ![c] = new]
      BY <2>2 DEF EnqueueAsync
    <3>2. new.status \notin {"queued", "resolved"}
      BY <2>1 DEF CallState
    <3> QED BY <3>1, <3>2
  <2>3. ASSUME NEW st \in {"rejected", "admitted"}, call' = [call EXCEPT ![c].status = st]
        PROVE  \E new : /\ call' = [call EXCEPT ![c] = new]
                        /\ new.status \notin {"queued", "resolved"}
    <3> DEFINE new == [call[c] EXCEPT !.status = st]
    <3>1. call' = [call EXCEPT ![c] = new]
      BY <2>3
    <3>2. new.status \notin {"queued", "resolved"}
      BY <2>1 DEF CallState
    <3> QED BY <3>1, <3>2
  <2> QED BY <2>2, <2>3 DEF CapacityWake
<1>2. call[c].status \notin {"queued", "resolved"} /\ UNCHANGED <<slots, written>>
  BY DEF EnqueueAsync, CapacityWake
<1>3. \A d \in Calls : call'[d] = IF d = c THEN new ELSE call[d]
  BY <1>1 DEF IInv, TypeOK
<1>4. ASSUME NEW k \in Keys
      PROVE  Answers(k, pending[k], retry[k], inflight[k], written[k], call')
  <2>1. Answers(k, pending[k], retry[k], inflight[k], written[k], call)
    BY DEF Promises
  <2> QED BY <1>1, <1>2, <1>3, <2>1 DEF Answers, Tells
<1> QED BY <1>1, <1>2, <1>3, <1>4 DEF Promises, slots

LEMMA AdmitPromises ==
  ASSUME IInv, Promises, NEW c \in Calls, AdmitAsync(c)
  PROVE  Promises'
<1> DEFINE k == call[c].key
           v == issued[k] + 1
<1>1. call[c].status = "admitted" /\ UNCHANGED written /\ OneDrain
  BY DEF AdmitAsync, IInv
<1>2. /\ pending \in [Keys -> Entry] /\ retry \in [Keys -> Entry]
      /\ k \in Keys /\ call[c] \in CallState /\ call \in [Calls -> CallState]
  BY <1>1 DEF IInv, TypeOK, Keyed
<1>3. CASE /\ AddPendingEntry(k, [content |-> {v}, waiters |-> {c}])
           /\ call' = [call EXCEPT ![c] = [@ EXCEPT !.status = "queued", !.version = v]]
  <2> DEFINE merged == Merge(Merge(retry[k], pending[k]), [content |-> {v}, waiters |-> {c}])
             p == [pending EXCEPT ![k] = merged]
  <2>1. EnsureDrain(p, Ordered(pending, before, k)) /\ retry' = Cleared(retry, {k})
    BY <1>3 DEF AddPendingEntry
  <2>2. /\ call'[c].status = "queued" /\ call'[c].version = v /\ call'[c].key = k
        /\ \A d \in Calls : d # c => call'[d] = call[d]
    BY <1>2, <1>3 DEF CallState
  <2> HIDE DEF k, v
  <2>3. ASSUME NEW j \in Keys
        PROVE  Answers(j, p[j], retry'[j], inflight[j], written'[j], call')
    <3>1. Answers(j, pending[j], retry[j], inflight[j], written[j], call)
      BY DEF Promises
    <3>2. c \notin pending[j].waiters \cup retry[j].waiters \cup inflight[j].waiters
      BY <1>1, <3>1 DEF Answers, Tells
    <3>3. CASE j = k
      <4>1. /\ p[j].waiters = pending[j].waiters \cup retry[j].waiters \cup {c}
            /\ p[j].content = pending[j].content \cup retry[j].content \cup {v}
            /\ retry'[j] = NoEntry
        BY <1>2, <2>1, <3>3 DEF Cleared, Merge
      <4> HIDE DEF p
      <4> QED BY <1>1, <2>2, <3>1, <3>2, <3>3, <4>1 DEF Answers, Tells, NoEntry
    <3>4. CASE j # k
      <4>1. p[j] = pending[j] /\ retry'[j] = retry[j]
        BY <1>2, <2>1, <3>4 DEF Cleared
      <4> HIDE DEF p
      <4> QED BY <1>1, <2>2, <3>1, <3>2, <3>4, <4>1 DEF Answers, Tells
    <3> QED BY <3>3, <3>4
  <2>4. \A d \in Calls : call'[d].status \in {"queued", "resolved"} => call'[d].key \in Keys
    BY <1>2, <2>2 DEF Promises
  <2> HIDE DEF p
  <2> QED BY <1>1, <2>1, <2>3, <2>4, TurnAnswers
<1>4. CASE /\ UNCHANGED retry /\ EnsureDrain(pending, before)
           /\ call' = [call EXCEPT ![c] = [@ EXCEPT !.status = "rejected", !.version = v]]
  <2> HIDE DEF k, v
  <2>1. call'[c].status = "rejected" /\ \A d \in Calls : d # c => call'[d] = call[d]
    BY <1>2, <1>4 DEF CallState
  <2>2. ASSUME NEW j \in Keys
        PROVE  Answers(j, pending[j], retry'[j], inflight[j], written'[j], call')
    <3>1. Answers(j, pending[j], retry[j], inflight[j], written[j], call)
      BY DEF Promises
    <3> QED BY <1>1, <1>4, <2>1, <3>1 DEF Answers, Tells
  <2>3. \A d \in Calls : call'[d].status \in {"queued", "resolved"} => call'[d].key \in Keys
    BY <2>1 DEF Promises
  <2> QED BY <1>1, <1>4, <2>2, <2>3, TurnAnswers
<1> QED BY <1>3, <1>4 DEF AdmitAsync, CoalesceThrows

\* Which calls are told, key by key: those of the slots that are given up or
\* written there.
LEMMA ToldAtKey ==
  ASSUME IInv, Promises, NEW k \in Keys, NEW ks \in SUBSET Keys, NEW slot \in {pending, retry, inflight},
         NEW c \in Calls, call[c].key = k
  PROVE  c \in WaitersOf(slot, ks) <=> k \in ks /\ c \in slot[k].waiters
<1>1. ASSUME NEW j \in Keys, c \in slot[j].waiters PROVE j = k
  BY <1>1 DEF Promises, Answers, Tells
<1> QED BY <1>1 DEF WaitersOf

LEMMA WriteSucceedsPromises ==
  ASSUME IInv, Promises, NEW ks \in SUBSET Keys, WriteSucceeds(ks)
  PROVE  Promises'
<1>1. /\ call' = Settle(WaitersOf(inflight, ks), "resolved")
      /\ inflight' = Cleared(inflight, ks) /\ UNCHANGED <<pending, retry>>
      /\ call \in [Calls -> CallState]
  BY DEF WriteSucceeds, IInv, TypeOK
<1>2. \A c \in Calls :
        /\ call'[c].key = call[c].key /\ call'[c].version = call[c].version
        /\ call'[c].status = IF c \in WaitersOf(inflight, ks) THEN "resolved" ELSE call[c].status
  BY <1>1, SettledCalls
<1>3. ASSUME NEW k \in Keys
      PROVE  Answers(k, pending'[k], retry'[k], inflight'[k], written'[k], call')
  <2>1. Answers(k, pending[k], retry[k], inflight[k], written[k], call)
    BY DEF Promises
  <2>2. \A c \in Calls : call[c].key = k =>
          /\ call'[c].key = k /\ call'[c].version = call[c].version
          /\ call'[c].status = IF k \in ks /\ c \in inflight[k].waiters THEN "resolved"
                               ELSE call[c].status
    BY <1>2, ToldAtKey
  <2>3. \A c \in Calls : call'[c].key = k => call[c].key = k
    BY <1>2
  <2>4. CASE k \in ks
    <3>1. inflight'[k] = NoEntry /\ written'[k] = written[k] \cup inflight[k].content
      BY <1>1, <2>4 DEF WriteSucceeds, Cleared
    <3> QED BY <1>1, <2>1, <2>2, <2>3, <2>4, <3>1 DEF Answers, Tells, NoEntry
  <2>5. CASE k \notin ks
    <3>1. inflight'[k] = inflight[k] /\ written'[k] = written[k]
      BY <1>1, <2>5 DEF WriteSucceeds, Cleared
    <3> QED BY <1>1, <2>1, <2>2, <2>3, <2>5, <3>1 DEF Answers, Tells
  <2> QED BY <2>4, <2>5
<1>4. \A c \in Calls : call'[c].status \in {"queued", "resolved"} => call'[c].key \in Keys
  <2>1. \A c \in WaitersOf(inflight, ks) : call[c].key \in Keys
    BY DEF WaitersOf, Promises, Answers, Tells
  <2> QED BY <1>2, <2>1 DEF Promises
<1> QED BY <1>3, <1>4 DEF Promises

\* A write that failed is scheduled, with what arrived or without it.
LEMMA WriteFailsPromises ==
  ASSUME IInv, Promises, NEW ks \in SUBSET Keys, WriteFails(ks)
  PROVE  Promises'
<1>1. PICK throws \in Coalescing(ks) :
        /\ retry' = [k \in Keys |->
             IF k \in ks THEN MergeForRetry(inflight, k, throws) ELSE retry[k]]
        /\ call' = Settle(WaitersOf(pending, throws), "rejected")
  BY DEF WriteFails
<1>2. /\ throws \in SUBSET Keys /\ throws \subseteq ks /\ ks \subseteq Held(inflight)
      /\ pending' = Cleared(pending, ks) /\ inflight' = Cleared(inflight, ks)
      /\ UNCHANGED written /\ call \in [Calls -> CallState]
  BY SettlingAreInFlight DEF WriteFails, Coalescing, IInv, TypeOK
<1>3. \A c \in Calls :
        /\ call'[c].key = call[c].key /\ call'[c].version = call[c].version
        /\ call'[c].status = IF c \in WaitersOf(pending, throws) THEN "rejected" ELSE call[c].status
  BY <1>1, <1>2, SettledCalls
<1>4. ASSUME NEW k \in Keys
      PROVE  Answers(k, pending'[k], retry'[k], inflight'[k], written'[k], call')
  <2>1. Answers(k, pending[k], retry[k], inflight[k], written[k], call)
    BY DEF Promises
  <2>2. \A c \in Calls : call[c].key = k =>
          /\ call'[c].key = k /\ call'[c].version = call[c].version
          /\ call'[c].status = IF k \in throws /\ c \in pending[k].waiters THEN "rejected"
                               ELSE call[c].status
    BY <1>2, <1>3, ToldAtKey
  <2>3. \A c \in Calls : call'[c].key = k => call[c].key = k
    BY <1>3
  <2>4. CASE k \in ks
    <3>1. pending'[k] = NoEntry /\ inflight'[k] = NoEntry
      BY <1>2, <2>4 DEF Cleared
    <3>2. retry'[k] = IF k \in throws THEN inflight[k] ELSE Merge(inflight[k], pending[k])
      BY <1>1, <2>4 DEF MergeForRetry
    <3>3. retry[k].waiters = {}
      <4>1. retry[k].content = {}
        BY <1>2, <2>4 DEF IInv, KeysOK, KeyOK, Held
      <4> QED BY <2>1, <4>1 DEF Answers, Tells
    <3>4. CASE k \in throws
      BY <1>2, <2>1, <2>2, <2>3, <3>1, <3>2, <3>3, <3>4 DEF Answers, Tells, NoEntry
    <3>5. CASE k \notin throws
      BY <1>2, <2>1, <2>2, <2>3, <3>1, <3>2, <3>3, <3>5 DEF Answers, Tells, NoEntry, Merge
    <3> QED BY <3>4, <3>5
  <2>5. CASE k \notin ks
    <3>1. pending'[k] = pending[k] /\ inflight'[k] = inflight[k] /\ retry'[k] = retry[k] /\ k \notin throws
      BY <1>1, <1>2, <2>5 DEF Cleared
    <3> QED BY <1>2, <2>1, <2>2, <2>3, <3>1 DEF Answers, Tells
  <2> QED BY <2>4, <2>5
<1> QED BY <1>3, <1>4 DEF Promises

LEMMA WriteFailsForGoodPromises ==
  ASSUME IInv, Promises, NEW ks \in SUBSET Keys, WriteFailsForGood(ks)
  PROVE  Promises'
<1>1. /\ call' = Settle(WaitersOf(inflight, ks), "rejected")
      /\ inflight' = Cleared(inflight, ks) /\ UNCHANGED <<pending, retry, written>>
      /\ call \in [Calls -> CallState]
  BY DEF WriteFailsForGood, IInv, TypeOK
<1>2. \A c \in Calls :
        /\ call'[c].key = call[c].key /\ call'[c].version = call[c].version
        /\ call'[c].status = IF c \in WaitersOf(inflight, ks) THEN "rejected" ELSE call[c].status
  BY <1>1, SettledCalls
<1>3. ASSUME NEW k \in Keys
      PROVE  Answers(k, pending'[k], retry'[k], inflight'[k], written'[k], call')
  <2>1. Answers(k, pending[k], retry[k], inflight[k], written[k], call)
    BY DEF Promises
  <2>2. \A c \in Calls : call[c].key = k =>
          /\ call'[c].key = k /\ call'[c].version = call[c].version
          /\ call'[c].status = IF k \in ks /\ c \in inflight[k].waiters THEN "rejected"
                               ELSE call[c].status
    BY <1>2, ToldAtKey
  <2>3. \A c \in Calls : call'[c].key = k => call[c].key = k
    BY <1>2
  <2>4. inflight'[k] = IF k \in ks THEN NoEntry ELSE inflight[k]
    BY <1>1 DEF Cleared
  <2> QED BY <1>1, <2>1, <2>2, <2>3, <2>4 DEF Answers, Tells, NoEntry
<1> QED BY <1>2, <1>3 DEF Promises

LEMMA DrainPromises ==
  ASSUME IInv, Promises, DrainContinues \/ DrainEnds
  PROVE  Promises'
<1>1. UNCHANGED <<retry, call, written>> /\ OneDrain
  BY DEF DrainContinues, DrainEnds, IInv
<1>2. Held(inflight) = {}
  BY <1>1 DEF DrainContinues, DrainEnds, OneDrain
<1>3. CASE TakeBatch(pending, before)
  BY <1>1, <1>2, <1>3, TurnAnswers DEF Promises
<1>4. CASE UNCHANGED <<pending, inflight>>
  BY <1>1, <1>4 DEF Promises
<1> QED BY <1>3, <1>4 DEF DrainContinues, DrainEnds

LEMMA RetryTimerPromises ==
  ASSUME IInv, Promises, NEW k \in Keys, RetryTimer(k)
  PROVE  Promises'
<1>1. PICK throws \in Coalescing({k}) :
        /\ EnsureDrain([pending EXCEPT ![k] = MergeForRetry(retry, k, throws)],
                       Ordered(Cleared(pending, {k}), Unordered({k}, before), k))
        /\ call' = Settle(WaitersOf(pending, throws), "rejected")
  BY DEF RetryTimer
<1>2. /\ throws \in SUBSET Keys /\ throws \subseteq {k} /\ OneDrain
      /\ retry' = Cleared(retry, {k}) /\ UNCHANGED written
      /\ call \in [Calls -> CallState] /\ pending \in [Keys -> Entry]
  BY DEF RetryTimer, Coalescing, IInv, TypeOK
<1>3. \A c \in Calls :
        /\ call'[c].key = call[c].key /\ call'[c].version = call[c].version
        /\ call'[c].status = IF c \in WaitersOf(pending, throws) THEN "rejected" ELSE call[c].status
  BY <1>1, <1>2, SettledCalls
<1> DEFINE p == [pending EXCEPT ![k] = MergeForRetry(retry, k, throws)]
<1>4. ASSUME NEW j \in Keys
      PROVE  Answers(j, p[j], retry'[j], inflight[j], written'[j], call')
  <2>1. Answers(j, pending[j], retry[j], inflight[j], written[j], call)
    BY DEF Promises
  <2>2. \A c \in Calls : call[c].key = j =>
          /\ call'[c].key = j /\ call'[c].version = call[c].version
          /\ call'[c].status = IF j \in throws /\ c \in pending[j].waiters THEN "rejected"
                               ELSE call[c].status
    BY <1>2, <1>3, ToldAtKey
  <2>3. \A c \in Calls : call'[c].key = j => call[c].key = j
    BY <1>3
  <2>4. CASE j = k
    <3>1. /\ retry'[j] = NoEntry
          /\ p[j] = IF j \in throws THEN retry[j] ELSE Merge(retry[j], pending[j])
      BY <1>2, <2>4 DEF Cleared, MergeForRetry
    <3> HIDE DEF p
    <3>2. pending[j].waiters = {} /\ j \notin throws
      <4>1. pending[j].content = {}
        BY <2>4 DEF RetryTimer, IInv, KeysOK, KeyOK, Held
      <4>2. j \notin throws
        BY <1>1, <4>1 DEF Coalescing, Held
      <4> QED BY <2>1, <4>1, <4>2 DEF Answers, Tells
    <3>3. /\ p[j].waiters = retry[j].waiters
          /\ retry[j].content \subseteq p[j].content
      BY <3>1, <3>2 DEF Merge
    <3>4. \A c \in Calls : call'[c].key = j =>
            call[c].key = j /\ call'[c].version = call[c].version /\ call'[c].status = call[c].status
      BY <2>2, <2>3, <3>2
    <3>5. \A c \in Calls : call[c].key = j =>
            call'[c].key = j /\ call'[c].version = call[c].version /\ call'[c].status = call[c].status
      BY <2>2, <3>2
    <3>6. Tells(p[j], j, call') /\ Tells(inflight[j], j, call') /\ Tells(retry'[j], j, call')
      BY <2>1, <3>1, <3>3, <3>5 DEF Answers, Tells, NoEntry
    <3>7. written'[j] = written[j] /\ retry'[j].waiters = {}
      BY <1>2, <3>1 DEF NoEntry
    <3> QED BY <2>1, <3>2, <3>3, <3>4, <3>6, <3>7 DEF Answers
  <2>5. CASE j # k
    <3>1. retry'[j] = retry[j] /\ p[j] = pending[j] /\ j \notin throws
      BY <1>2, <2>5 DEF Cleared
    <3> HIDE DEF p
    <3> QED BY <1>2, <2>1, <2>2, <2>3, <3>1 DEF Answers, Tells
  <2> QED BY <2>4, <2>5
<1>5. \A c \in Calls : call'[c].status \in {"queued", "resolved"} => call'[c].key \in Keys
  BY <1>3 DEF Promises
<1>6. EnsureDrain(p, Ordered(Cleared(pending, {k}), Unordered({k}, before), k))
  BY <1>1
<1> HIDE DEF p
<1> QED BY <1>2, <1>4, <1>5, <1>6, TurnAnswers

LEMMA DestroyDiscardsPromises ==
  ASSUME IInv, Promises, DestroyDiscards
  PROVE  Promises'
<1> DEFINE told == WaitersOf(pending, Keys) \cup WaitersOf(retry, Keys)
<1>1. /\ call' = Settle(told, "rejected")
      /\ pending' = [k \in Keys |-> NoEntry] /\ retry' = [k \in Keys |-> NoEntry]
      /\ UNCHANGED <<inflight, written>> /\ call \in [Calls -> CallState]
  BY DEF DestroyDiscards, IInv, TypeOK
<1>2. \A c \in Calls : c \in told <=> (c \in WaitersOf(pending, Keys) \/ c \in WaitersOf(retry, Keys))
  OBVIOUS
<1> HIDE DEF told
<1>3. \A c \in Calls :
        /\ call'[c].key = call[c].key /\ call'[c].version = call[c].version
        /\ call'[c].status = IF c \in told THEN "rejected" ELSE call[c].status
  BY <1>1, SettledCalls
<1>4. ASSUME NEW k \in Keys
      PROVE  Answers(k, pending'[k], retry'[k], inflight'[k], written'[k], call')
  <2>1. Answers(k, pending[k], retry[k], inflight[k], written[k], call)
    BY DEF Promises
  <2>2. ASSUME NEW c \in Calls, call[c].key = k
        PROVE  /\ call'[c].key = k /\ call'[c].version = call[c].version
               /\ call'[c].status = IF c \in pending[k].waiters \cup retry[k].waiters THEN "rejected"
                                    ELSE call[c].status
    <3>1. c \in WaitersOf(pending, Keys) <=> c \in pending[k].waiters
      BY <2>2, ToldAtKey
    <3>2. c \in WaitersOf(retry, Keys) <=> c \in retry[k].waiters
      BY <2>2, ToldAtKey
    <3> QED BY <1>2, <1>3, <2>2, <3>1, <3>2
  <2>3. \A c \in Calls : call'[c].key = k => call[c].key = k
    BY <1>3
  <2>4. pending'[k] = NoEntry /\ retry'[k] = NoEntry
    BY <1>1
  <2> QED BY <1>1, <2>1, <2>2, <2>3, <2>4 DEF Answers, Tells, NoEntry
<1> QED BY <1>3, <1>4 DEF Promises

LEMMA StepPromises ==
  ASSUME IInv, Promises, [Next]_vars
  PROVE  Promises'
<1>1. CASE UNCHANGED <<pending, retry, inflight, written, call>>
  BY <1>1 DEF Promises
<1>2. CASE UNCHANGED vars
  BY <1>1, <1>2 DEF vars, queue
<1>3. CASE Next
  <2>1. Step
    BY <1>3 DEF Next
  <2>2. ASSUME NEW k \in Keys, Enqueue(k) \/ EnqueueRefused(k) \/ RetryTimer(k)
        PROVE  Promises'
    BY <2>2, EnqueuePromises, RetryTimerPromises
  <2>3. ASSUME NEW c \in Calls,
               (\E k \in Keys : EnqueueAsync(c, k)) \/ CapacityWake(c) \/ AdmitAsync(c)
        PROVE  Promises'
    BY <2>3, CallerMovesPromises, AdmitPromises
  <2>4. ASSUME NEW ks \in SUBSET Keys,
               WriteSucceeds(ks) \/ WriteFails(ks) \/ WriteFailsForGood(ks)
        PROVE  Promises'
    BY <2>4, WriteSucceedsPromises, WriteFailsPromises, WriteFailsForGoodPromises
  <2>5. CASE DrainContinues \/ DrainEnds \/ DestroyDiscards
    BY <2>5, DrainPromises, DestroyDiscardsPromises
  <2>6. CASE Destroy \/ FlushReturns \/ DestroyReturns
    BY <1>1, <2>6 DEF Destroy, FlushReturns, DestroyReturns, slots
  <2> QED BY <2>1, <2>2, <2>3, <2>4, <2>5, <2>6 DEF Step
<1> QED BY <1>2, <1>3

\* A promise of enqueueAsync that resolved had its value written, and one that is
\* open will be settled by the one entry that holds its value, whatever was
\* merged, retried, thrown out by coalesce or discarded.
THEOREM QueuePromisesTrackWrites == Spec => []PromisesTrackWrites
<1>1. Init => Promises
  BY DEF Init, Promises, Answers, Tells, NoEntry
<1>2. IInv /\ Promises /\ [Next]_vars => Promises'
  BY StepPromises
<1>3. Promises => PromisesTrackWrites
  BY PromisesGiveProperty
<1> QED BY QueueInvariant, <1>1, <1>2, <1>3, PTL DEF Spec
=============================================================================
