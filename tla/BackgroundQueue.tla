--------------------------- MODULE BackgroundQueue ---------------------------
(***************************************************************************)
(* The write-behind queue of src/src/infra/perf/BackgroundQueue.ts: values *)
(* are accepted per key, coalesced while they wait, handed to a writer by  *)
(* a single drain loop, and scheduled for a retry when the write fails.    *)
(*                                                                         *)
(* The value of the n-th accepted enqueue of a key is the number n; a      *)
(* queue entry holds the set of the numbers coalesced into it, and its     *)
(* newest member is what the writer gets (the default coalescing keeps     *)
(* the incoming value).  Attempt numbers, delays and the onError and       *)
(* onPressure callbacks are left out: no decision depends on them.         *)
(*                                                                         *)
(* One action is one run of JavaScript to completion: a call of the API,   *)
(* the settling of the writer's promise, a timer, or a microtask.          *)
(***************************************************************************)
EXTENDS Integers, FiniteSets

CONSTANTS
  Keys,             \* the keys written through the queue
  Calls,            \* the enqueueAsync calls made over the queue's life
  Modes,            \* the kinds of queue: TRUE with a batchWriter, whose batch
                    \* settles as a unit, FALSE with the plain writer
  BatchLimit,       \* maxBatchSize, or maxWriteConcurrency without a batchWriter
  MaxPendingKeys,   \* maxPendingKeys
  CoalesceMayThrow, \* whether the coalesce callback may throw
  MaxVersion,       \* bound of the model: values offered per key
  NoKey             \* the key of a call that was not made yet

ASSUME ConstantsOK ==
  /\ IsFiniteSet(Keys)
  /\ Modes \in SUBSET BOOLEAN
  /\ CoalesceMayThrow \in BOOLEAN
  /\ BatchLimit \in Nat \ {0}
  /\ MaxPendingKeys \in Nat \ {0}
  /\ MaxVersion \in Nat
  /\ NoKey \notin Keys

VARIABLES
  batched,       \* whether this queue was given a batchWriter
  pending,       \* pendingByKey, as a function: an empty content is no entry
  before,        \* the insertion order of pendingByKey, as a strict order
  retry,         \* the entries retryTimersByKey holds
  inflight,      \* the entries the writer was given and has not settled
  drain,         \* "idle": drainingPromise is null; "running": drainLoop runs;
                 \* "ending": it returned and its finally callback is queued
  shutdown,      \* shutdownRequested
  retryDisabled, \* retryDisabled
  destroyer,     \* where the destroy call is
  call,          \* the state of each enqueueAsync call
  issued,        \* how many values were offered for each key
  store,         \* the value the store holds for each key
  written,       \* the values whose write was reported successful (history)
  dropped        \* the values given up: given to onDiscard, or refused with
                 \* a rejected enqueueAsync (history)

queue == <<pending, before, retry, inflight, drain, shutdown, retryDisabled,
           destroyer, call, issued, store, written, dropped>>

vars == <<batched, queue>>

slots == <<pending, before, retry, inflight, drain>>

-----------------------------------------------------------------------------
Entry == [content : SUBSET Nat, waiters : SUBSET Calls]
NoEntry == [content |-> {}, waiters |-> {}]

CallStatus == {"new", "waiting", "admitted", "queued", "resolved", "rejected"}
CallState == [status : CallStatus, key : Keys \cup {NoKey}, version : Nat]

Destroyer == {"live", "flushing", "flushed", "timedOut", "clean", "dirty"}

Held(slot) == {k \in Keys : slot[k].content # {}}

Cleared(slot, ks) == [k \in Keys |-> IF k \in ks THEN NoEntry ELSE slot[k]]

\* Faulty variant of Merge: only the newer entry's callers are kept.
MergeNewerCallers(older, newer) ==
  [content |-> older.content \cup newer.content, waiters |-> newer.waiters]

Merge(older, newer) == [content |-> older.content \cup newer.content,
                        waiters |-> older.waiters \cup newer.waiters]

\* The value the writer is given: the newest of those coalesced.
Newest(content) == CHOOSE n \in content : \A m \in content : m <= n

TrackedKeys == Held(pending) \cup Held(retry)
Remaining == Cardinality(Held(pending)) + Cardinality(Held(retry))
               + Cardinality(Held(inflight))

HasRoom(k) == \/ k \in TrackedKeys
              \/ Cardinality(Held(pending)) + Cardinality(Held(retry)) < MaxPendingKeys

Settle(waiters, status) ==
  [c \in Calls |-> IF c \in waiters THEN [call[c] EXCEPT !.status = status] ELSE call[c]]

GivenUp(ks, slot) ==
  [k \in Keys |-> IF k \in ks THEN dropped[k] \cup slot[k].content ELSE dropped[k]]

WaitersOf(slot, ks) == UNION {slot[k].waiters : k \in ks}

\* Bound of the model: calls still to be added reserve a version.
MayOffer(k) ==
  issued[k] + Cardinality({c \in Calls : /\ call[c].key = k
                                         /\ call[c].status \in {"waiting", "admitted"}})
    < MaxVersion

-----------------------------------------------------------------------------
\* The insertion order o of the pending map p once key k is added, at the end
\* unless it is there already; and once the keys ks are deleted.
Ordered(p, o, k) == IF k \in Held(p) THEN o ELSE o \cup (Held(p) \X {k})
\* Faulty variant of Unordered: a deleted key keeps its place.
KeepsPlace(ks, o) == o

Unordered(ks, o) == {pair \in o : pair[1] \notin ks /\ pair[2] \notin ks}

\* takeBatch: the batches that hold the oldest entries, up to the limit.
Batches(p, o) ==
  {batch \in SUBSET Held(p) :
     /\ \/ Cardinality(batch) = BatchLimit
        \/ batch = Held(p) /\ Cardinality(batch) < BatchLimit
     /\ \A pair \in o : pair[2] \in batch => pair[1] \in batch}

\* One turn of drainLoop on pending map p with insertion order o: it hands
\* the next batch to the writer, or returns when nothing is pending.
TakeBatch(p, o) ==
  \E batch \in Batches(p, o) :
    /\ inflight' = [k \in Keys |-> IF k \in batch THEN p[k] ELSE inflight[k]]
    /\ pending' = Cleared(p, batch)
    /\ before' = Unordered(batch, o)
    /\ drain' = IF batch = {} THEN "ending" ELSE "running"

\* ensureDrain: the loop starts at once unless drainingPromise is set.
EnsureDrain(p, o) ==
  \/ /\ drain = "idle"
     /\ TakeBatch(p, o)
  \/ /\ drain # "idle"
     /\ pending' = p
     /\ before' = o
     /\ UNCHANGED <<inflight, drain>>

\* Faulty variant of AddPendingEntry: a scheduled retry is not looked at.
AddBesideRetry(k, added) ==
  /\ UNCHANGED retry
  /\ EnsureDrain([pending EXCEPT ![k] = Merge(pending[k], added)],
                 Ordered(pending, before, k))

\* addPendingEntry: the value joins what is pending or scheduled for the key,
\* whose retry timer is cancelled.
AddPendingEntry(k, added) ==
  LET merged == Merge(Merge(retry[k], pending[k]), added)
  IN /\ retry' = Cleared(retry, {k})
     /\ EnsureDrain([pending EXCEPT ![k] = merged], Ordered(pending, before, k))

\* The coalesce callback throws: what was offered is dropped, the rest stays.
CoalesceThrows(k) ==
  /\ CoalesceMayThrow
  /\ k \in TrackedKeys
  /\ UNCHANGED retry
  /\ EnsureDrain(pending, before)

-----------------------------------------------------------------------------
Init ==
  /\ batched \in Modes
  /\ pending = [k \in Keys |-> NoEntry]
  /\ before = {}
  /\ retry = [k \in Keys |-> NoEntry]
  /\ inflight = [k \in Keys |-> NoEntry]
  /\ drain = "idle"
  /\ shutdown = FALSE
  /\ retryDisabled = FALSE
  /\ destroyer = "live"
  /\ call = [c \in Calls |-> [status |-> "new", key |-> NoKey, version |-> 0]]
  /\ issued = [k \in Keys |-> 0]
  /\ store = [k \in Keys |-> 0]
  /\ written = [k \in Keys |-> {}]
  /\ dropped = [k \in Keys |-> {}]

\* enqueue(key, value), accepted.
Enqueue(k) ==
  /\ MayOffer(k)
  /\ ~shutdown
  /\ HasRoom(k)
  /\ issued' = [issued EXCEPT ![k] = @ + 1]
  /\ \/ /\ AddPendingEntry(k, [content |-> {issued[k] + 1}, waiters |-> {}])
        /\ UNCHANGED dropped
     \/ /\ CoalesceThrows(k)
        /\ dropped' = [dropped EXCEPT ![k] = @ \cup {issued[k] + 1}]
  /\ UNCHANGED <<shutdown, retryDisabled, destroyer, call, store, written>>

\* enqueue(key, value), refused: the queue is destroyed or full.
EnqueueRefused(k) ==
  /\ MayOffer(k)
  /\ shutdown \/ ~HasRoom(k)
  /\ issued' = [issued EXCEPT ![k] = @ + 1]
  /\ dropped' = [dropped EXCEPT ![k] = @ \cup {issued[k] + 1}]
  /\ UNCHANGED <<slots, shutdown, retryDisabled, destroyer, call, store, written>>

\* enqueueAsync(key, value) up to its first await: refused when destroyed,
\* past waitForCapacity when there is room, waiting for a change otherwise.
EnqueueAsync(c, k) ==
  /\ call[c].status = "new"
  /\ MayOffer(k)
  /\ call' = [call EXCEPT ![c] =
       [@ EXCEPT !.key = k,
                 !.status = IF shutdown THEN "rejected"
                            ELSE IF HasRoom(k) THEN "admitted" ELSE "waiting"]]
  /\ UNCHANGED <<slots, shutdown, retryDisabled, destroyer, issued, store, written, dropped>>

\* Faulty variant of CapacityWake: a destroyed queue is not noticed.
CapacityWakeUnaware(c) ==
  /\ call[c].status = "waiting"
  /\ ~shutdown
  /\ HasRoom(call[c].key)
  /\ call' = [call EXCEPT ![c].status = "admitted"]
  /\ UNCHANGED <<slots, shutdown, retryDisabled, destroyer, issued, store, written, dropped>>

\* waitForCapacity after waitForStateChange resolved, by a notification or by
\* its timeout, so at any time; a call that finds no room waits again.
CapacityWake(c) ==
  /\ call[c].status = "waiting"
  /\ \/ /\ shutdown
        /\ call' = [call EXCEPT ![c].status = "rejected"]
     \/ /\ ~shutdown
        /\ HasRoom(call[c].key)
        /\ call' = [call EXCEPT ![c].status = "admitted"]
  /\ UNCHANGED <<slots, shutdown, retryDisabled, destroyer, issued, store, written, dropped>>

\* enqueueAsync after its await: the value is added, whatever the room is now
\* and even when a destroy call has begun in between.
AdmitAsync(c) ==
  LET k == call[c].key
      v == issued[k] + 1
  IN /\ call[c].status = "admitted"
     /\ issued' = [issued EXCEPT ![k] = v]
     /\ \/ /\ AddPendingEntry(k, [content |-> {v}, waiters |-> {c}])
           /\ call' = [call EXCEPT ![c] = [@ EXCEPT !.status = "queued", !.version = v]]
           /\ UNCHANGED dropped
        \/ /\ CoalesceThrows(k)
           /\ call' = [call EXCEPT ![c] = [@ EXCEPT !.status = "rejected", !.version = v]]
           /\ dropped' = [dropped EXCEPT ![k] = @ \cup {v}]
     /\ UNCHANGED <<shutdown, retryDisabled, destroyer, store, written>>

-----------------------------------------------------------------------------
\* The sets of keys whose writes settle together: the whole batch that a
\* batchWriter was given, one key for the plain writer.
SettlingTogether ==
  IF batched THEN {Held(inflight)} \ {{}} ELSE {{k} : k \in Held(inflight)}

Stored(ks) ==
  [k \in Keys |-> IF k \in ks THEN Newest(inflight[k].content) ELSE store[k]]

\* processBatch and processEntry, the writer's promise resolved.
WriteSucceeds(ks) ==
  /\ ks \in SettlingTogether
  /\ store' = Stored(ks)
  /\ written' = [k \in Keys |->
       IF k \in ks THEN written[k] \cup inflight[k].content ELSE written[k]]
  /\ call' = Settle(WaitersOf(inflight, ks), "resolved")
  /\ inflight' = Cleared(inflight, ks)
  /\ UNCHANGED <<pending, before, retry, drain, shutdown, retryDisabled,
                 destroyer, issued, dropped>>

\* Faulty variant of MergeForRetry: what arrived in the meantime is forgotten.
RetryAlone(failed, k, throws) == failed[k]

\* mergeForRetry: a failed entry takes the values that arrived for its key in
\* the meantime; when coalescing throws, those are dropped instead.
MergeForRetry(failed, k, throws) ==
  IF k \in throws THEN failed[k] ELSE Merge(failed[k], pending[k])

Coalescing(ks) == IF CoalesceMayThrow THEN SUBSET (ks \cap Held(pending)) ELSE {{}}

\* The writer's promise rejected; some of the values may have reached the
\* store all the same.
WriteFails(ks) ==
  /\ ks \in SettlingTogether
  /\ ~retryDisabled
  /\ \E applied \in SUBSET ks : store' = Stored(applied)
  /\ \E throws \in Coalescing(ks) :
       /\ retry' = [k \in Keys |->
            IF k \in ks THEN MergeForRetry(inflight, k, throws) ELSE retry[k]]
       /\ dropped' = GivenUp(throws, pending)
       /\ call' = Settle(WaitersOf(pending, throws), "rejected")
  /\ pending' = Cleared(pending, ks)
  /\ before' = Unordered(ks, before)
  /\ inflight' = Cleared(inflight, ks)
  /\ UNCHANGED <<drain, shutdown, retryDisabled, destroyer, issued, written>>

\* The writer's promise rejected after a destroy gave up on the rest.
WriteFailsForGood(ks) ==
  /\ ks \in SettlingTogether
  /\ retryDisabled
  /\ \E applied \in SUBSET ks : store' = Stored(applied)
  /\ dropped' = GivenUp(ks, inflight)
  /\ call' = Settle(WaitersOf(inflight, ks), "rejected")
  /\ inflight' = Cleared(inflight, ks)
  /\ UNCHANGED <<pending, before, retry, drain, shutdown, retryDisabled,
                 destroyer, issued, written>>

\* drainLoop after the await of a whole batch.
DrainContinues ==
  /\ drain = "running"
  /\ Held(inflight) = {}
  /\ TakeBatch(pending, before)
  /\ UNCHANGED <<retry, shutdown, retryDisabled, destroyer, call, issued,
                 store, written, dropped>>

\* Faulty variant of DrainEnds: the pending map is not looked at again.
DrainEndsBlindly ==
  /\ drain = "ending"
  /\ drain' = "idle"
  /\ UNCHANGED <<pending, before, inflight, retry, shutdown, retryDisabled,
                 destroyer, call, issued, store, written, dropped>>

\* The finally callback of ensureDrain: values that arrived between the end
\* of the loop and this callback start it again.
DrainEnds ==
  /\ drain = "ending"
  /\ \/ /\ Held(pending) = {}
        /\ drain' = "idle"
        /\ UNCHANGED <<pending, before, inflight>>
     \/ /\ Held(pending) # {}
        /\ TakeBatch(pending, before)
  /\ UNCHANGED <<retry, shutdown, retryDisabled, destroyer, call, issued,
                 store, written, dropped>>

\* The timer scheduleRetry set: the entry becomes pending again.  (The
\* callback's own test of retryDisabled never succeeds: destroy cleared every
\* timer when it set the flag, see DiscardIsFinal.)
RetryTimer(k) ==
  /\ k \in Held(retry)
  /\ ~retryDisabled
  /\ \E throws \in Coalescing({k}) :
       /\ EnsureDrain([pending EXCEPT ![k] = MergeForRetry(retry, k, throws)],
                      Ordered(Cleared(pending, {k}), Unordered({k}, before), k))
       /\ dropped' = GivenUp(throws, pending)
       /\ call' = Settle(WaitersOf(pending, throws), "rejected")
  /\ retry' = Cleared(retry, {k})
  /\ UNCHANGED <<shutdown, retryDisabled, destroyer, issued, store, written>>

-----------------------------------------------------------------------------
\* destroy(): no value is accepted any more, and flush() looks at what is left.
Destroy ==
  /\ destroyer = "live"
  /\ shutdown' = TRUE
  /\ destroyer' = IF Remaining = 0 THEN "flushed" ELSE "flushing"
  /\ UNCHANGED <<slots, retryDisabled, call, issued, store, written, dropped>>

\* flush(): returns when nothing is left, or at its deadline.
FlushReturns ==
  /\ destroyer = "flushing"
  /\ destroyer' \in IF Remaining = 0 THEN {"flushed"} ELSE {"timedOut"}
  /\ UNCHANGED <<slots, shutdown, retryDisabled, call, issued, store, written, dropped>>

\* A call that was past waitForCapacity when destroy began resumes before
\* destroy does: its continuation is ahead in the microtask queue.
NoneAdmitted == \A c \in Calls : call[c].status # "admitted"

\* destroy() after a flush that left nothing: it reports what remains now.
DestroyReturns ==
  /\ destroyer = "flushed"
  /\ NoneAdmitted
  /\ destroyer' = IF Remaining = 0 THEN "clean" ELSE "dirty"
  /\ UNCHANGED <<slots, shutdown, retryDisabled, call, issued, store, written, dropped>>

\* Faulty variant of DestroyDiscards: the retry timers are left armed, and
\* retryDisabled is not set for the writes under way.
DestroyLeavesTimers ==
  /\ destroyer = "timedOut"
  /\ NoneAdmitted
  /\ dropped' = GivenUp(Keys, pending)
  /\ call' = Settle(WaitersOf(pending, Keys), "rejected")
  /\ pending' = Cleared(pending, Keys)
  /\ before' = {}
  /\ destroyer' = IF Held(inflight) = {} THEN "clean" ELSE "dirty"
  /\ UNCHANGED <<inflight, retry, retryDisabled, drain, shutdown, issued, store, written>>

\* destroy() after a flush that timed out: discardPending drops all that
\* waits; the writes under way go on.
DestroyDiscards ==
  /\ destroyer = "timedOut"
  /\ NoneAdmitted
  /\ retryDisabled' = TRUE
  /\ dropped' = [k \in Keys |-> dropped[k] \cup pending[k].content \cup retry[k].content]
  /\ call' = Settle(WaitersOf(pending, Keys) \cup WaitersOf(retry, Keys), "rejected")
  /\ pending' = [k \in Keys |-> NoEntry]
  /\ before' = {}
  /\ retry' = [k \in Keys |-> NoEntry]
  /\ destroyer' = IF Held(inflight) = {} THEN "clean" ELSE "dirty"
  /\ UNCHANGED <<inflight, drain, shutdown, issued, store, written>>

-----------------------------------------------------------------------------
Step ==
  \/ \E k \in Keys : Enqueue(k) \/ EnqueueRefused(k) \/ RetryTimer(k)
  \/ \E c \in Calls, k \in Keys : EnqueueAsync(c, k)
  \/ \E c \in Calls : CapacityWake(c) \/ AdmitAsync(c)
  \/ \E ks \in SUBSET Keys : WriteSucceeds(ks) \/ WriteFails(ks) \/ WriteFailsForGood(ks)
  \/ DrainContinues \/ DrainEnds
  \/ Destroy \/ FlushReturns \/ DestroyReturns \/ DestroyDiscards

Next == Step /\ UNCHANGED batched

Spec == Init /\ [][Next]_vars

\* The scheduler runs what is due: continuations, timers (the capacity wait
\* and flush have one), and the store settles every write it was given.
Scheduling ==
  /\ \A k \in Keys : WF_queue(RetryTimer(k))
  /\ \A c \in Calls : WF_queue(CapacityWake(c)) /\ WF_queue(AdmitAsync(c))
  /\ \A k \in Keys : WF_queue(\E ks \in SUBSET Keys :
       /\ k \in ks
       /\ WriteSucceeds(ks) \/ WriteFails(ks) \/ WriteFailsForGood(ks))
  /\ WF_queue(DrainContinues) /\ WF_queue(DrainEnds)
  /\ WF_queue(FlushReturns) /\ WF_queue(DestroyReturns) /\ WF_queue(DestroyDiscards)

FairSpec == Spec /\ Scheduling

\* A store that is tried again and again works again at some point.
StoreRecovers ==
  \A k \in Keys : SF_queue(\E ks \in SUBSET Keys : k \in ks /\ WriteSucceeds(ks))

RecoveringSpec == FairSpec /\ StoreRecovers

-----------------------------------------------------------------------------
(* Properties *)

TypeOK ==
  /\ batched \in BOOLEAN
  /\ pending \in [Keys -> Entry]
  /\ before \in SUBSET (Held(pending) \X Held(pending))
  /\ retry \in [Keys -> Entry]
  /\ inflight \in [Keys -> Entry]
  /\ drain \in {"idle", "running", "ending"}
  /\ shutdown \in BOOLEAN
  /\ retryDisabled \in BOOLEAN
  /\ destroyer \in Destroyer
  /\ call \in [Calls -> CallState]
  /\ issued \in [Keys -> Nat]
  /\ store \in [Keys -> Nat]
  /\ written \in [Keys -> SUBSET Nat]
  /\ dropped \in [Keys -> SUBSET Nat]

\* A key that waits for its retry timer is neither pending nor being written.
\* addPendingEntry and scheduleRetry merge or overwrite what they find under
\* the key without looking at the writer: with two such slots a retry would
\* write an older value after a newer one, or lose the waiters of a timer.
RetryStandsAlone ==
  /\ Held(retry) \cap Held(pending) = {}
  /\ Held(retry) \cap Held(inflight) = {}

\* Every value ever offered for a key is pending, scheduled, being written,
\* written, or given up: no merge, retry or destroy path forgets one.
EveryWriteAccounted ==
  \A k \in Keys :
    1..issued[k] = UNION {pending[k].content, retry[k].content,
                          inflight[k].content, written[k], dropped[k]}

\* The promise of enqueueAsync tells the truth: it resolved only if a write
\* that includes its value succeeded, and while it is open exactly one entry,
\* the one that holds its value, will settle it.
PromisesTrackWrites ==
  \A c \in Calls :
    LET k == call[c].key
        holders == {slot \in {"pending", "retry", "inflight"} :
                      c \in CASE slot = "pending" -> pending[k].waiters
                              [] slot = "retry" -> retry[k].waiters
                              [] slot = "inflight" -> inflight[k].waiters}
    IN /\ call[c].status = "resolved" => call[c].version \in written[k]
       /\ call[c].status = "queued" =>
            /\ Cardinality(holders) = 1
            /\ \A slot \in {pending, retry, inflight} :
                 c \in slot[k].waiters => call[c].version \in slot[k].content

\* Once destroy dropped what was waiting, nothing is scheduled or handed to
\* the writer again; once it reported nothing left, nothing ever is.
DiscardIsFinal ==
  /\ retryDisabled => Held(retry) \cup Held(pending) = {}
  /\ destroyer = "clean" => Remaining = 0

\* The store never goes back to an older value of a key, whatever fails, is
\* retried or is coalesced in between.
StoreNeverRegresses == [][\A k \in Keys : store'[k] >= store[k]]_store

\* What was offered for a key and neither written nor given up yet.
Owed(k) == (1..issued[k]) \ (written[k] \cup dropped[k])

\* With a store that recovers, and offers that end, every value offered is
\* written or given up: no wakeup of the drain loop is lost.
EveryWriteSettles == \A k \in Keys : Owed(k) # {} ~> Owed(k) = {}

\* With a store that recovers, every enqueueAsync call settles: of several
\* callers that wait for room and are woken together, one may take it, and an
\* enqueue that does not wait may take it before any of them.  The offers end
\* (MaxVersion): a caller that waits has no place in a line, and enqueue calls
\* without end could take the room from it every time.
EveryCallSettles ==
  \A c \in Calls :
    (call[c].status # "new") ~> (call[c].status \in {"resolved", "rejected"})
=============================================================================
