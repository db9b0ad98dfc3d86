------------------------------- MODULE AppState --------------------------------
(***************************************************************************)
(* App-state sync of one client: the mutations its user makes, queued and  *)
(* flushed by WaAppStateMutationCoordinator, the sync runs of              *)
(* WaAppStateSyncClient that carry them, the store with the copies of the  *)
(* collections and the sync keys, the server, and the account's other      *)
(* devices, which add patches and share keys.                              *)
(*                                                                         *)
(* There is one run at a time.  Whoever asks for a sync during a run joins *)
(* it, and what he asked with is dropped.                                  *)
(*                                                                         *)
(* A write is a number, in the order writes are made; a removal is one.    *)
(* Hashes and MACs follow the contents and are left out.                   *)
(***************************************************************************)
EXTENDS Naturals, SequencesExt

CONSTANTS
  Collections,
  Indexes,      \* of the mutations in a collection
  Calls,        \* what the user's calls touch, each a set of slots
  Changes,      \* the slots other devices change
  MaxRounds,    \* maxSyncIterations
  FirstKeys,    \* sync keys the store has at first; a key is its epoch
  MaxKey,       \* newest key of the account
  Page,         \* patches the server puts in one answer, at most
  MaxWrites,    \* bound of the model: writes of all devices together
  MaxFaults     \* bound of the model: queries, downloads and saves that fail

Slots == Collections \X Indexes

ASSUME AppStateAssumption ==
  /\ Calls \subseteq (SUBSET Slots) \ {{}} /\ Changes \subseteq Slots
  /\ MaxRounds \in Nat \ {0} /\ Page \in Nat \ {0}
  /\ MaxKey \in Nat \ {0} /\ FirstKeys \subseteq 1..MaxKey
  /\ MaxWrites \in Nat /\ MaxFaults \in Nat

VARIABLES
  log,    \* the server's patches of each collection
  store,  \* what is persisted: the copies of the collections and the keys
  run,    \* the sync under way and its caches
  flush,  \* the coordinator's queue and the flush under way
  dirty,  \* a notification of new patches is on its way
  hist    \* what happened (history)

vars == <<log, store, run, flush, dirty, hist>>

-----------------------------------------------------------------------------
NoWrite == 0
Writes == 1..MaxWrites
Keys == 1..MaxKey
Values == [Indexes -> Writes \cup {NoWrite}]
Nothing == [i \in Indexes |-> NoWrite]
Nowhere == [c \in Collections |-> Nothing]
Patches == [set : Values, key : Keys]

\* What mutations leave of earlier ones: per index the later one counts.
Over(values, later) ==
  [i \in Indexes |-> IF later[i] # NoWrite THEN later[i] ELSE values[i]]
\* The mutations of patches lo to hi, the last one per index.
Merged(patches, lo, hi) ==
  [i \in Indexes |->
     LET touching == {v \in lo..hi : patches[v].set[i] # NoWrite}
     IN IF touching = {} THEN NoWrite ELSE patches[Max(touching)].set[i]]

\* A collection as the store and a run's cache keep it.
Copies == [initialized : BOOLEAN, version : Nat, map : Values]
Fresh == [initialized |-> FALSE, version |-> 0, map |-> Nothing]

Success == {"success", "success_has_more"}
Conflict == {"conflict", "conflict_has_more"}
Errors == {"error_retry", "error_fatal"}
States == Success \cup Conflict \cup Errors \cup {"blocked"}

\* The answer for a collection: a snapshot of a version, 0 for none, and patches
\* lo to hi, of which there are none when hi is 0.
Payload(state, version, snapshot, lo, hi) ==
  [state |-> state, version |-> version, snapshot |-> snapshot, lo |-> lo, hi |-> hi]
Payloads == [state : States \cup {"missing", "no_download"}, version : Nat,
             snapshot : Nat, lo : Nat, hi : Nat]

Stages == {"none", "round", "answered", "notifying", "saving"}

\* cache, unsaved and missing are the run's context; results holds the state and
\* the mutations of the collections a round has finished with.  silent counts the
\* versions whose mutations no result of the run carries (history).
Runs == [stage : Stages, collections : SUBSET Collections, toSync : SUBSET Collections,
         pending : [Collections -> Values], iteration : 0..MaxRounds,
         cache : [Collections -> Copies], unsaved : SUBSET Collections,
         missing : SUBSET Keys,
         answers : [Collections -> Payloads],
         results : [Collections -> [state : States, mutations : Values]],
         silent : [Collections -> Nat]]

NoAnswers == [c \in Collections |-> Payload("missing", 0, 0, 1, 0)]
\* A collection without a result is reported as ERROR_RETRY.
NoResults == [c \in Collections |-> [state |-> "error_retry", mutations |-> Nothing]]
Idle == [stage |-> "none", collections |-> {}, toSync |-> {}, pending |-> Nowhere,
         iteration |-> 0, cache |-> [c \in Collections |-> Fresh], unsaved |-> {},
         missing |-> {}, answers |-> NoAnswers, results |-> NoResults,
         silent |-> [c \in Collections |-> 0]]

\* outcome: what the sync of the batch returned, absent for collections it did
\* not have.  own: the run is the one the flush started.  askers await the flush.
Flushes == [queue : [Collections -> Values], batch : [Collections -> Values],
            stage : {"none", "syncing", "returned", "threw", "ended"}, own : BOOLEAN,
            outcome : [Collections -> States \cup {"absent"}],
            askers : SUBSET Writes, failed : BOOLEAN]
NoOutcome == [c \in Collections |-> "absent"]

\* newest: the user's last write at each index; local: his writes; told: those
\* whose call succeeded; emitted: the writes reported as events.  The rest are
\* exceptions the properties name: writes dropped by a flush that joined, calls
\* that joined a flush at its end, versions nobody was told of, and lapses.
Histories == [writes : 0..MaxWrites, newest : [Collections -> Values],
              local : SUBSET Writes, told : SUBSET Writes, emitted : SUBSET Writes,
              joined : SUBSET Writes, late : SUBSET Writes,
              silent : [Collections -> SUBSET Nat],
              lapses : SUBSET {"joined", "failed"}, faults : 0..MaxFaults]

TypeOK ==
  /\ log \in [Collections -> Seq(Patches)]
  /\ store \in [keys : SUBSET Keys, have : [Collections -> Copies]]
  /\ run \in Runs /\ flush \in Flushes /\ dirty \in BOOLEAN /\ hist \in Histories

Init ==
  /\ log = [c \in Collections |-> <<>>]
  /\ store = [keys |-> FirstKeys, have |-> [c \in Collections |-> Fresh]]
  /\ run = Idle
  /\ flush = [queue |-> Nowhere, batch |-> Nowhere, stage |-> "none", own |-> FALSE,
              outcome |-> NoOutcome, askers |-> {}, failed |-> FALSE]
  /\ dirty = FALSE
  /\ hist = [writes |-> 0, newest |-> Nowhere, local |-> {}, told |-> {}, emitted |-> {},
             joined |-> {}, late |-> {}, silent |-> [c \in Collections |-> {}],
             lapses |-> {}, faults |-> 0]

-----------------------------------------------------------------------------
(* Faults, each counted and remembered. *)

Fails(h) == [h EXCEPT !.faults = @ + 1, !.lapses = @ \cup {"failed"}]
MayFail == hist.faults < MaxFaults

-----------------------------------------------------------------------------
(* WaAppStateSyncClient. *)

Started(collections, pending) ==
  [Idle EXCEPT !.stage = "round", !.collections = collections, !.toSync = collections,
               !.pending = pending, !.iteration = 1,
               !.cache = [c \in Collections |-> IF c \in collections
                                                THEN store.have[c] ELSE Fresh]]

\* sync(): a run under way is joined.
Synced(collections, pending) ==
  IF run.stage = "none" THEN Started(collections, pending) ELSE run

\* Nothing is uploaded before the collection is bootstrapped.
Uploads(c) == run.pending[c] # Nothing /\ run.cache[c].initialized
SkipsUpload(c) == run.pending[c] # Nothing /\ ~Uploads(c)

Threw(f) == IF f.stage = "syncing" THEN [f EXCEPT !.stage = "threw"] ELSE f

RunThrows == run' = Idle /\ flush' = Threw(flush)

ActiveKey == Max(store.keys)

\* Without a key there is no patch to upload, and no sync of the others.
NoKeyToUpload == store.keys = {} /\ \E c \in run.toSync : Uploads(c)

RoundThrows ==
  /\ run.stage = "round" /\ NoKeyToUpload
  /\ RunThrows
  /\ hist' = [hist EXCEPT !.lapses = @ \cup {"failed"}]
  /\ UNCHANGED <<log, store, dirty>>

\* The server takes an upload from a client that has all patches.
Accepts(c) == Uploads(c) /\ run.cache[c].version = Len(log[c])
Least(m, n) == IF m <= n THEN m ELSE n

\* snapshot: the version of the one the server has at hand; page: as many patches.
AnswerTo(c, snapshot, page) ==
  LET all == Len(log[c])
      asks == ~run.cache[c].initialized
      from == IF asks THEN Least(snapshot, all) ELSE run.cache[c].version
      to == Least(from + page, all)
  IN IF Accepts(c) THEN Payload("success", all + 1, 0, 1, 0)
     ELSE Payload(IF Uploads(c)
                  THEN IF to < all THEN "conflict_has_more" ELSE "conflict"
                  ELSE IF to < all THEN "success_has_more" ELSE "success",
                  all, IF asks THEN from ELSE 0,
                  from + 1, IF to > from THEN to ELSE 0)

\* What can be wrong with one answer: it is missing, an error, its blob cannot be
\* downloaded, or the server repeats patches of the copy or of the snapshot it
\* sends.  The blob of a patch that fails after the snapshot was applied comes to
\* the same as the last: the cached copy is the snapshot, and the round failed.
Spoiled(c, p) ==
  {[p EXCEPT !.state = s, !.hi = 0] : s \in {"missing"} \cup Errors}
  \cup {[p EXCEPT !.state = "no_download"] : x \in {p.snapshot, p.hi} \ {0}}
  \cup {[p EXCEPT !.lo = 1, !.hi = v] : v \in 1..run.cache[c].version \cup 1..p.snapshot}

Refuses(p) == p.state \in {"missing"} \cup Errors

\* A round is sent and the server answers it.
ServerAnswers(snapshot, page) ==
  /\ run.stage = "round" /\ ~NoKeyToUpload
  /\ \E answers \in {[c \in Collections |-> IF c \in run.toSync THEN AnswerTo(c, snapshot, page)
                                            ELSE NoAnswers[c]]} :
       \/ /\ run' = [run EXCEPT !.stage = "answered", !.answers = answers]
          /\ UNCHANGED hist
       \/ /\ MayFail /\ hist' = Fails(hist)
          /\ \E c \in run.toSync : \E p \in Spoiled(c, answers[c]) :
               run' = [run EXCEPT !.stage = "answered", !.answers = [answers EXCEPT ![c] = p]]
  /\ log' = [c \in Collections |->
               IF c \in run.toSync /\ Accepts(c) /\ ~Refuses(run'.answers[c])
               THEN Append(log[c], [set |-> run.pending[c], key |-> ActiveKey])
               ELSE log[c]]
  /\ UNCHANGED <<store, flush, dirty>>

\* The query times out or the connection goes, before the server has the request
\* or, once it has, before the answer is here.
QueryFails ==
  /\ run.stage \in {"round", "answered"} /\ MayFail
  /\ RunThrows
  /\ hist' = Fails(hist)
  /\ UNCHANGED <<log, store, dirty>>

-----------------------------------------------------------------------------
(* processCollectionRound. *)

\* A key once looked up in vain stays missing for the run.
Lacks(k) == k \notin store.keys \/ k \in run.missing

SnapshotKeys(c, n) ==
  LET current == {v \in 1..n : \E i \in Indexes : log[c][v].set[i] = Merged(log[c], 1, n)[i]
                                                  /\ log[c][v].set[i] # NoWrite}
  IN {log[c][v].key : v \in current \cup {n}}

\* applySnapshot, unless the answer has none.
Bootstrapped(copy, c, n) ==
  IF n = 0 THEN copy
  ELSE [initialized |-> TRUE, version |-> n, map |-> Merged(log[c], 1, n)]

\* Faulty variant of FollowsOn: the version of a patch is not looked at.
FollowsOnAnyway(copy, lo) == TRUE
\* applyPatch takes a patch only on top of its predecessor.
FollowsOn(copy, lo) == copy.version = lo - 1

Patched(copy, c, lo, hi) ==
  [initialized |-> TRUE, version |-> hi, map |-> Over(copy.map, Merged(log[c], lo, hi))]

\* The upload came through: what was computed for it is the new copy.
Uploaded(c) ==
  [initialized |-> TRUE, version |-> run.cache[c].version + 1,
   map |-> Over(run.cache[c].map, run.pending[c])]

ConflictRefetch(c, p) ==
  \/ p.state = "conflict_has_more"
  \/ p.state = "conflict" /\ run.pending[c] # Nothing

Outcome(copy, state, mutations, refetch, needs) ==
  [copy |-> copy, state |-> state, mutations |-> mutations, refetch |-> refetch,
   needs |-> needs]

\* Faulty variant of Reported: the last patch's mutations replace the others'.
ReportedLast(c, p) == IF p.hi = 0 THEN Nothing ELSE log[c][p.hi].set
Reported(c, p) == Merged(log[c], p.lo, p.hi)

\* Patches are applied in order up to the first whose key is missing.
ApplyPatches(c, p, copy) ==
  LET locked == {v \in p.lo..p.hi : Lacks(log[c][v].key)}
  IN IF p.hi # 0 /\ ~FollowsOn(copy, p.lo)
     THEN Outcome(copy, "error_retry", Nothing, TRUE, {})
     ELSE IF locked # {}
     THEN Outcome(IF Min(locked) = p.lo THEN copy ELSE Patched(copy, c, p.lo, Min(locked) - 1),
                  "blocked", Nothing, ConflictRefetch(c, p), {log[c][Min(locked)].key})
     ELSE Outcome(IF p.hi # 0 THEN Patched(copy, c, p.lo, p.hi)
                  ELSE IF /\ Uploads(c) /\ p.state = "success"
                          /\ p.version = run.cache[c].version + 1
                  THEN Uploaded(c)
                  ELSE IF ~copy.initialized /\ p.state = "success"
                  THEN [copy EXCEPT !.initialized = TRUE, !.version = p.version]
                  ELSE copy,
                  IF p.state = "conflict" /\ run.pending[c] = Nothing THEN "success"
                  ELSE p.state,
                  Reported(c, p),
                  \/ ConflictRefetch(c, p) \/ p.state = "success_has_more"
                  \/ p.state = "success" /\ SkipsUpload(c),
                  {})

Process(c, p) ==
  LET copy == run.cache[c]
      locked == IF p.snapshot = 0 THEN {} ELSE {k \in SnapshotKeys(c, p.snapshot) : Lacks(k)}
  IN IF Refuses(p)
     THEN Outcome(copy, IF p.state = "missing" THEN "error_retry" ELSE p.state,
                  Nothing, FALSE, {})
     ELSE IF p.state = "no_download" THEN Outcome(copy, "error_retry", Nothing, TRUE, {})
     ELSE IF locked # {} THEN Outcome(copy, "blocked", Nothing, ConflictRefetch(c, p), locked)
     ELSE ApplyPatches(c, p, Bootstrapped(copy, c, p.snapshot))

\* Versions nobody will be told of: those of a snapshot, those a round applied
\* before it failed, and those of an earlier round, whose result is replaced.
SilentUpTo(c, o) ==
  Max({run.silent[c]}
      \cup {run.cache[c].version : x \in {run.results[c].mutations} \ {Nothing}}
      \cup {run.answers[c].snapshot : x \in {o.state} \ {"blocked"}}
      \cup {o.copy.version : x \in {o.state} \cap (Errors \cup {"blocked"})})

\* Faulty variant of RoundsOver: rounds go on until nothing is to be refetched.
RoundsOverNever(r) == FALSE
RoundsOver(r) == r.iteration = MaxRounds

\* On to the next round, if there is one.
Advance(r) ==
  IF r.toSync = {} THEN [r EXCEPT !.stage = "saving"]
  ELSE IF RoundsOver(r)
  THEN [r EXCEPT !.stage = "saving", !.toSync = {},
                 !.results = [c \in Collections |-> IF c \in r.toSync
                                                    THEN NoResults[c] ELSE @[c]],
                 !.silent = [c \in Collections |-> IF c \in r.toSync /\ r.cache[c].initialized
                                                   THEN r.cache[c].version ELSE @[c]]]
  ELSE [r EXCEPT !.stage = "round", !.iteration = @ + 1]

Outcomes == [c \in run.toSync |-> Process(c, run.answers[c])]
Needs == UNION {Outcomes[c].needs : c \in run.toSync}
Processed ==
  LET Each(old, new(_)) == [c \in Collections |-> IF c \in run.toSync THEN new(c) ELSE old[c]]
  IN [run EXCEPT
        !.cache = Each(@, LAMBDA c : Outcomes[c].copy),
        !.unsaved = @ \cup {c \in run.toSync : Outcomes[c].copy # run.cache[c]},
        !.missing = @ \cup Needs,
        !.results = Each(@, LAMBDA c : [state |-> Outcomes[c].state,
                                        mutations |-> Outcomes[c].mutations]),
        !.silent = Each(@, LAMBDA c : SilentUpTo(c, Outcomes[c])),
        !.toSync = {c \in @ : Outcomes[c].refetch},
        !.answers = NoAnswers]

\* The collections of the answer, one after the other.
ProcessRound ==
  /\ run.stage = "answered"
  /\ run' = IF Needs # {} THEN [Processed EXCEPT !.stage = "notifying"] ELSE Advance(Processed)
  /\ UNCHANGED <<log, store, flush, dirty, hist>>

\* The request for the missing keys is sent, or failed to be.
Notified ==
  /\ run.stage = "notifying"
  /\ run' = Advance(run)
  /\ UNCHANGED <<log, store, flush, dirty, hist>>

-----------------------------------------------------------------------------
(* The end of a run: the copies are saved, then the results are out. *)

Emitted == (UNION {{run.results[c].mutations[i] : i \in Indexes} : c \in run.collections})
             \ {NoWrite}

Returned(f) ==
  IF f.stage # "syncing" THEN f
  ELSE [f EXCEPT !.stage = "returned",
                 !.outcome = [c \in Collections |-> IF c \in run.collections
                                                    THEN run.results[c].state ELSE "absent"]]

Save ==
  /\ run.stage = "saving"
  /\ store' = [store EXCEPT !.have = [c \in Collections |-> IF c \in run.unsaved
                                                            THEN run.cache[c] ELSE @[c]]]
  /\ flush' = Returned(flush)
  /\ hist' = [hist EXCEPT
                !.emitted = @ \cup Emitted,
                !.silent = [c \in Collections |->
                              @[c] \cup (store.have[c].version + 1)..run.silent[c]],
                !.lapses = @ \cup {"failed" : x \in {run.results[c].state : c \in run.collections}
                                                    \cap (Errors \cup Conflict)}]
  /\ run' = Idle
  /\ UNCHANGED <<log, dirty>>

SaveFails ==
  /\ run.stage = "saving" /\ run.unsaved # {} /\ MayFail
  /\ RunThrows
  /\ hist' = Fails(hist)
  /\ UNCHANGED <<log, store, dirty>>

-----------------------------------------------------------------------------
(* WaAppStateMutationCoordinator. *)

\* Faulty variant of Requeue: what failed replaces what was queued since.
RequeueOver(queue, batch, failed) ==
  [c \in Collections |-> IF c \in failed THEN Over(queue[c], batch[c]) ELSE queue[c]]
\* What failed goes back before what was queued since.
Requeue(queue, batch, failed) ==
  [c \in Collections |-> IF c \in failed THEN Over(batch[c], queue[c]) ELSE queue[c]]

Ended(f, failed) ==
  [f EXCEPT !.queue = Requeue(@, f.batch, failed), !.batch = Nowhere, !.stage = "ended",
            !.outcome = NoOutcome, !.own = FALSE, !.failed = (failed # {})]

\* flushPendingMutationsLoop, from its top to the sync of a batch, which is
\* refused when the client is not connected.  h is what happened before.
FlushOn(f, h) ==
  LET touched == {c \in Collections : f.queue[c] # Nothing}
  IN \/ /\ touched = {}
        /\ flush' = Ended(f, {})
        /\ UNCHANGED run /\ hist' = h
     \/ /\ touched # {}
        /\ flush' = [f EXCEPT !.queue = Nowhere, !.batch = f.queue, !.stage = "syncing",
                              !.outcome = NoOutcome, !.own = (run.stage = "none")]
        /\ run' = Synced(touched, f.queue) /\ hist' = h
     \/ /\ touched # {} /\ MayFail
        /\ flush' = [Ended(f, {}) EXCEPT !.failed = TRUE]
        /\ UNCHANGED run /\ hist' = Fails(h)

Enqueue(f, w, slots) ==
  [f EXCEPT !.queue = [c \in Collections |-> [i \in Indexes |->
                          IF <<c, i>> \in slots THEN w ELSE @[c][i]]],
            !.askers = @ \cup {w}]

Noted(w, slots) ==
  [hist EXCEPT
     !.writes = w, !.local = @ \cup {w},
     !.newest = [c \in Collections |-> [i \in Indexes |->
                   IF <<c, i>> \in slots THEN w ELSE @[c][i]]],
     !.late = @ \cup {w : x \in {flush.stage} \cap {"ended"}}]

\* enqueueAndFlush: one call, which may touch several collections.  A flush
\* under way is joined.
EnqueueAndFlush(slots) ==
  /\ hist.writes < MaxWrites
  /\ LET w == hist.writes + 1
         f == Enqueue(flush, w, slots)
     IN IF flush.stage = "none" THEN FlushOn(f, Noted(w, slots))
        ELSE flush' = f /\ UNCHANGED run /\ hist' = Noted(w, slots)
  /\ UNCHANGED <<log, store, dirty>>

\* Faulty variant of Flushed: a blocked collection counts as flushed.
FlushedEvenBlocked(state) == state \in Success \cup {"blocked"}
Flushed(state) == state \in Success

FlushReturns ==
  /\ flush.stage = "returned"
  /\ LET touched == {c \in Collections : flush.batch[c] # Nothing}
         failed == {c \in touched : ~Flushed(flush.outcome[c])}
         dropped == UNION {{flush.batch[c][i] : i \in Indexes} : c \in touched \ failed}
         h == [hist EXCEPT !.joined = IF flush.own THEN @ ELSE @ \cup (dropped \ {NoWrite})]
     IN IF failed = {} THEN FlushOn([flush EXCEPT !.batch = Nowhere], h)
        ELSE flush' = Ended(flush, failed) /\ UNCHANGED run /\ hist' = h
  /\ UNCHANGED <<log, store, dirty>>

FlushThrows ==
  /\ flush.stage = "threw"
  /\ flush' = Ended(flush, Collections)
  /\ UNCHANGED <<log, store, run, dirty, hist>>

\* flushPromise is cleared, and those who awaited it learn how it went.
FlushSettles ==
  /\ flush.stage = "ended"
  /\ flush' = [flush EXCEPT !.stage = "none", !.askers = {}, !.failed = FALSE]
  /\ hist' = [hist EXCEPT !.told = IF flush.failed THEN @ ELSE @ \cup flush.askers]
  /\ UNCHANGED <<log, store, run, dirty>>

-----------------------------------------------------------------------------
(* What comes from outside. *)

\* A sync of all collections; it may find a run to join.
SyncAll(h) ==
  /\ run' = Synced(Collections, Nowhere)
  /\ hist' = [h EXCEPT !.lapses = @ \cup {"joined" : x \in {run.stage} \ {"none"}}]

\* Another device adds a patch.
Publish(c, i, k) ==
  /\ hist.writes < MaxWrites
  /\ LET w == hist.writes + 1
     IN /\ log' = [log EXCEPT ![c] = Append(@, [set |-> [Nothing EXCEPT ![i] = w], key |-> k])]
        /\ hist' = [hist EXCEPT !.writes = w]
  /\ dirty' = TRUE
  /\ UNCHANGED <<store, run, flush>>

\* The server's notification that there are new patches.
DirtyArrives ==
  /\ dirty /\ dirty' = FALSE
  /\ SyncAll(hist)
  /\ UNCHANGED <<log, store, flush>>

\* Faulty variant of KeyShareArrives: no sync follows.
KeyShareArrivesQuietly(k) ==
  /\ k \notin store.keys
  /\ store' = [store EXCEPT !.keys = @ \cup {k}]
  /\ UNCHANGED <<log, run, flush, dirty, hist>>
\* A device shares a key, asked to or not.
KeyShareArrives(k) ==
  /\ k \notin store.keys
  /\ store' = [store EXCEPT !.keys = @ \cup {k}]
  /\ SyncAll(hist)
  /\ UNCHANGED <<log, flush, dirty>>

-----------------------------------------------------------------------------
SyncStep == \/ RoundThrows \/ \E n \in 1..MaxWrites, page \in 1..Page : ServerAnswers(n, page)
            \/ ProcessRound \/ Notified \/ Save
FlushStep == FlushReturns \/ FlushThrows \/ FlushSettles

Next ==
  \/ SyncStep \/ QueryFails \/ SaveFails \/ FlushStep
  \/ \E slots \in Calls : EnqueueAndFlush(slots)
  \/ \E slot \in Changes, k \in Keys : Publish(slot[1], slot[2], k)
  \/ DirtyArrives
  \/ \E k \in Keys : KeyShareArrives(k)

Spec == Init /\ [][Next]_vars

-----------------------------------------------------------------------------
(* Properties. *)

(* Whatever answers are lost, repeated, cut short by a missing key or fail  *)
(* to be saved, the stored copy of a collection is what a prefix of the     *)
(* server's log contains, and it never goes back.                           *)
AsPromised ==
  INSTANCE Replica WITH
    log <- [c \in Collections |-> [v \in DOMAIN log[c] |-> log[c][v].set]],
    have <- [c \in Collections |-> [version |-> store.have[c].version,
                                    map |-> store.have[c].map]]
ReplicaSpec == AsPromised!Spec

OnServer(c, i, w) == \E v \in DOMAIN log[c] : log[c][v].set[i] = w

(* The user's last write at an index is queued, in the batch under way or   *)
(* on the server, through failed runs, requeued batches, writes made during *)
(* a flush and answers that were lost.  Excepted is the batch of a flush    *)
(* that joined a run, which is taken for flushed and dropped.               *)
NoWriteLost ==
  \A c \in Collections, i \in Indexes :
    LET w == hist.newest[c][i]
    IN \/ w = NoWrite \/ w \in hist.joined
       \/ flush.queue[c][i] = w \/ flush.batch[c][i] = w \/ OnServer(c, i, w)

(* The same without the exception: "Failed collections are re-queued before *)
(* the error is rethrown" (WaAppStateMutationCoordinator.flushMutations).   *)
NoWriteEverLost ==
  \A c \in Collections, i \in Indexes :
    LET w == hist.newest[c][i]
    IN \/ w = NoWrite
       \/ flush.queue[c][i] = w \/ flush.batch[c][i] = w \/ OnServer(c, i, w)

(* A call that succeeded has its writes on the server, unless the user      *)
(* overwrote them since.  Excepted are joined runs, and calls that came     *)
(* when the flush they joined had seen the queue empty.                     *)
ToldTheTruth ==
  \A w \in hist.told \ (hist.joined \cup hist.late) :
    \A c \in Collections, i \in Indexes :
      hist.newest[c][i] = w => OnServer(c, i, w)

(* A change another device made, once it is in the stored copy and not      *)
(* overwritten there, has been reported.  Excepted are snapshots, by        *)
(* design, and the versions of rounds whose result another one replaced.    *)
ChangesReported ==
  \A c \in Collections, i \in Indexes :
    LET touching == {v \in 1..store.have[c].version : log[c][v].set[i] # NoWrite}
        last == Max(touching)
    IN touching # {} =>
         \/ log[c][last].set[i] \in hist.emitted \cup hist.local
         \/ last \in hist.silent[c]

(* When all is quiet the copies are up to date, or wait for a key that has  *)
(* not come.  Who misses the patch or the key that comes during a run must  *)
(* be told again.  Excepted is what failed, which nobody retries, and a     *)
(* sync that joined a run.                                                  *)
QuietIsCurrent ==
  run.stage = "none" /\ flush.stage = "none" /\ ~dirty /\ hist.lapses = {} =>
    \A c \in Collections :
      \/ store.have[c].version = Len(log[c])
      \/ \E v \in 1..Len(log[c]) : log[c][v].key \notin store.keys

=============================================================================
