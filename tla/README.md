# TLA+ models of zapo

zapo is a WhatsApp Web client library in TypeScript (`src/src`). This directory
holds TLA+ modules that model the parts of it where order matters: the
connection and its lifecycle, the queues, locks and caches in front of the
stores, the Signal sessions and pre-keys, and app-state sync. TLC checks them on
small instances; TLAPS proves theorems about each of them for all values of
their constants.

The program runs on one thread. What interleaves are the continuations of
promises, timers, socket callbacks and the answers of stores and of the server.
Throughout, **a step is one run of JavaScript to completion**: a call, a
callback or a timer, with the continuations it releases at once when nothing
else can come between.

Contents: [inventory](#inventory) · [what is modelled](#what-is-modelled) ·
[disagreements](#disagreements-with-the-documentation) ·
[observations](#observations) · [proofs](#proofs) ·
[only model-checked](#only-model-checked) · [not modelled](#not-modelled) ·
[plan](#plan) · [running](#running)

## Inventory

Paths are relative to `src/src`. Names in brackets are the modules.

### Connection

| Component | State | Operations | Talks to | What makes it correct |
|---|---|---|---|---|
| Raw sockets and `WaWebSocket` (`transport/WaWebSocket.ts`) [Comms] | socket in use, connecting sockets, close waiters | `open` (races one socket per URL), `send`, `close` (awaits the close event, up to a timeout) | `WaComms` by handlers | one open socket per account; callbacks of a socket that was replaced are ignored |
| `WaComms` (`transport/WaComms.ts`) [Comms, CommsContract] | started, connected, generation, noise session, reconnect timer and count, resume in flight, restart hold | `startComms`, `waitForConnection`, `stopComms`, `closeSocketAndResume`, `holdForServerRestart` | `WaWebSocket`, `WaNoiseSession`, connection manager | a started connection is live or will be retried; a stop is final; no session is paired with another's socket |
| `WaNoiseSession` (`transport/noise/`) [Comms, by phases] | handshake step, pending frame, ciphers | `start`, `pushFrame`, `rejectPending`, encrypt, decrypt | `WaComms` | a failed or replaced handshake has no effect on the next |
| Connection manager (`client/connection/`) [Lifecycle over CommsContract] | lifecycle generation and queue, comms, restart state | `connect`, `disconnect`, pairing restart, reconnect as registered | everything of the client | the last of connect and disconnect wins; a restart runs once |
| Keep-alive (`transport/keepalive/`) [Lifecycle] | generation, timer, ping in flight | `start`, `stop`, ping with timeout | node queries, `closeSocketAndResume` | a ping of an old connection does not touch a new one |
| Node queries (`transport/node/WaNodeOrchestrator.ts`) | pending queries by id | `query`, `handleIncoming`, `clear` | `WaComms` | each query settles once, by its own answer |
| Stream control, failure stanzas (`WaStreamControlCoordinator`, `client/incoming`) [Lifecycle] | lifecycle promise | stream errors, failures, routing | connection manager | a fatal error is acted on, once |
| Offline resume (`WaOfflineResumeCoordinator`) | remaining count, batch, timers, generation | preview, batch request, stanza timeout | comms, receipts | every backlog ends: complete, timed out or torn down |
| Credentials (`auth/WaAuthClient.ts`, `auth/credentials-flow.ts`) [Lifecycle, PreKeys] | credentials in memory and saved | load, patch, save, clear, restore into the stores | connection manager, stores | a connection is made with the credentials in use |
| Receipt queue (`client/connection/WaReceiptQueue.ts`) | receipts not sent | queue, flush | passive tasks | no receipt is lost |

### Storage

| Component | State | Operations | Talks to | What makes it correct |
|---|---|---|---|---|
| Write-behind queue (`infra/perf/BackgroundQueue.ts`) [BackgroundQueue] | pending, in-flight and retry entries, drain promise, shutdown flags | `enqueue`, `enqueueAsync`, `flush`, `destroy`, drain loop, retry timers | a writer | no value forgotten, no older value over a newer one, promises that tell the truth, a destroy that is final |
| Write-behind persistence (`client/persistence/WriteBehindPersistence.ts`) | three queues | persist message, thread, contact; `flush`, `destroy`, `restart` | the queue | a restart gets fresh queues |
| Reader/writer gate (`infra/perf/SharedExclusiveGate.ts`) [SharedExclusiveGate] | counters, waiters, closed | `runShared`, `runExclusive`, `close` | store locks | exclusion, no starvation of `clear`, `close` returns |
| Store locks (`infra/perf/StoreLock.ts`, `store/locks`) | promise chain per key | `run`, `runMany`, `shutdown` | stores, Signal | per-key order, no deadlock between batches |
| Session store (`store/locks/session.lock.ts`, `store/cache/session.cache.ts`) [SessionStore] | L1 map, generation | get, set, delete, batches, clear, destroy | the gate, a backend | a cached session is the persisted one |
| Other caches and stores (`store/`) | maps with limits | the same scheme | | the same |

### Cryptographic state and messages

| Component | State | Operations | What makes it correct |
|---|---|---|---|
| Signal sessions (`signal/session`) [Ratchet, Sessions] | session record, chains, skipped keys, previous sessions | establish, encrypt, decrypt | a message is decrypted at most once, in any order of arrival, and a key is used once |
| Sender keys (`signal/group`) | sender key record per group | prepare, distribute, encrypt, decrypt | no iteration of a chain is used twice |
| Pre-keys (`WaPassiveTasksCoordinator`, `signal/api`, `store/memory/pre-key.store.ts`) [PreKeys] | keys, upload mark, flag that the server has keys, signed key | upload, low notice, digest check, rotation, retry receipts, consume | a key the server hands out exists and is used once |
| Retry (`retry/`) | counters, outgoing messages | request, answer a retry receipt | bounded; no session deleted by a stale receipt |
| App-state sync (`appstate`, `WaAppStateMutationCoordinator`) [Replica, AppState] | queue of mutations, run under way, copies of collections, sync keys | flush, sync, key share, dirty notice | a write of the user is not lost, a copy is a prefix of the server's log |
| Message dispatch, pairing (`client/messaging`, `auth`) | | | see [not modelled](#not-modelled) |

### What is hard

Interleavings around `await` (state read before and used after), late events of
something that was replaced (sockets, pings, queries, resumes), failures in the
middle of a multi-part write, retries that meet newer values, shutdown while
work is under way, and limits (reconnects, pending keys, batches).
`PROJECT.json` lists the hazards one by one, with the line where each bites and
the properties that cover it.

## What is modelled

Each module's `map` entry in `PROJECT.json` gives the source lines of every
definition. Faulty variants (comments that begin "Faulty variant of") are
plausible bugs; each is used in place of the definition it varies to see that a
property catches it. They are part of no specification.

### BackgroundQueue

`BackgroundQueue.ts`, all of it. The n-th value offered for a key is the number
n, an entry is the set of numbers coalesced into it with the callers that wait,
and the newest is what the writer gets. `pending`, `retry` and `inflight` are
the three maps, `drain` the drain promise (with the turn between the end of the
loop and its `finally`), `destroyer` the place of the `destroy` call. The writer
is the environment: it succeeds, fails having applied some of what it was given,
key by key (plain writer) or a whole batch at once (batch writer). `written` and
`dropped` are history.

Each handler is one action; `AddPendingEntry` merges with a scheduled retry and
cancels its timer, and starts the drain loop in the same step, as the code does.
`enqueueAsync` is two steps, before and after its await: the place it found may
be gone, and a destroy may have begun.

* `bq_safety` (3 keys, 2 values, 1 waiting caller, batches of 2, 2 pending keys,
  both kinds of writer, a coalesce callback that may throw): `RetryStandsAlone`,
  `EveryWriteAccounted`, `PromisesTrackWrites`, `DiscardIsFinal` and
  `StoreNeverRegresses`. Three keys against a limit of two make callers wait and
  fail admission; two values per key are what merging, overtaking and a retry
  that meets a newer value need.
* `bq_live` (2 keys, 2 values each, 2 waiting callers, batches and limit of 1):
  `EveryWriteSettles`, `EveryCallSettles`. With two callers a wake-up finds both
  waiting, and the one that re-checks second may find the room gone, to the other or
  to an `enqueue` that does not wait; two values per key let a new one come to a key
  that was about to be settled.

That every call settles assumes that the stream of enqueues ends, as it does in the
model when the values are used up. The code promises no more: callers that wait
stand in no line, and a caller of `enqueue`, or a new one of `enqueueAsync`, may take
the room each time before a waiter looks.

Fairness: continuations run and timers fire (the event loop), the writer settles
each write it was given, and a store that is tried again and again succeeds
again at some point (`StoreRecovers`, strong fairness, only in
`RecoveringSpec`). Without the last there is nothing to promise: retries have no
limit in the code.

### SharedExclusiveGate

`SharedExclusiveGate.ts`, all of it. A caller that waits is in `status` and, once
notified, in `woken`; it then looks at the gate again, in any order with the
others. Callers come back as often as they like, so two of a kind and one of the
other are enough for every pair of races: `gate` runs three callers and the
closer. `ExclusiveGetsIn` and `CloseReturns` assume that continuations run and
that the tasks inside end (their stores answer).

### SessionStore

`withSessionLock` over `withSessionCache` over a backend, as `createStore`
assembles them; it extends the gate, so its callers really wait for it.
A backend request is sent, done, and answered in three steps, so requests are
answered in any order; it may fail before it is done or, if `AnswersLost`, after
it.

| Action | Code |
|---|---|
| `LookUp`, `BeginRead` | a read until L1 answered; the generation noted and the backend asked |
| `CompleteRead`, `NextEntry` | the backend answered: the generation compared, and the slot of the first, the next entry looked at |
| `FillSlot` | `l1.setSession` of a slot that was empty at the look, an await earlier |
| `BeginMutation`, `CompleteMutation` | a set, a delete or `clear` until the backend is asked; what it does to L1 afterwards |

An await of L1 resolves in the microtask queue. Whatever was answered before may
continue in it, so a set whose continuation is due writes L1 between the look and
the fill of a read; what the backend does later continues later, so while a read is
between the two no request is done (`BackendAnswers`). Sets of one address are kept
apart by `SignalProtocol`'s lock (`NoOtherWriter`); deletes are not, since their
callers do not take it. Values are numbered by mutation.

* `session_store` (2 callers, 2 keys, 3 mutations, eviction, failures):
  `CacheAgrees` (between mutations, what L1 holds is what is persisted; the
  history variable `exposed` names the six cases the code does not provide for: a
  read that begins during a delete, an eviction under a read, a mutation that
  completes between the look of a read at the empty slot and its fill, a delete that
  completes while a batch has yet to look, a delete and a set that overlap, and a
  mutation that was applied but reported as failed) and `NoUseAfterDestroy`. Two
  callers make every read/write pair, two keys make batches and `clear` differ from
  single operations, three mutations a delete between two writes.
* `session_resurrection`: see below.

### Comms

One `WaComms`, the `WaWebSocket` under it with its raw sockets, and the phases of
the noise handshake, from `startComms` to after `stopComms`. Handlers call each
other synchronously (`onSocketClosed` rejects the handshake that awaits a frame,
which counts a resume failure, and so on), so each is written as a function from
the fields of its object to the fields after it, and an action applies the ones
that run in its turn.

* `comms`, `ws`: the fields of the two objects. A raw socket is a number;
  sockets of one `open()` are created together (`Race`). `connectionGeneration`
  and `noiseSession` hold the number of the socket they belong to.
* `shake`: for each noise session, waiting for the server's hello, computing a
  last message (`finish`), computing the resume handshake's last key agreement
  (`agree`, after which nothing is sent), or over. The server's static key is
  known, so the first handshake is a resume too.
* The environment: sockets open, fail, close, or close too late for the timeout
  of `close()`; the server answers with either handshake or not at all; a
  handshake fails at any point.
* The manager and the other callers: `StartComms` (with an agent, `open()`
  awaits the agent's module first), `waiter` for `waitForConnection`,
  `StopComms`, `CloseSocketAndResume` (keep-alive, stream errors, bad frames) and
  `HoldForServerRestart`.
* `lapses` (history) records the two things the code does not provide for: a
  `close()` that timed out, after which `WaWebSocket` forgets the socket without
  telling `WaComms`, and a stop that misses an `open()` under way.

Two assumptions on time, both named in the module: timers of seconds do not fire
while a key agreement of milliseconds runs (`NothingComputing`), and the abort of
a socket that is still connecting, a local matter, is reported before another
socket connects (`AbortsReported`).

`comms` runs two URLs, eight raw sockets (four openings) and a limit of one
reconnect: enough for a race in each of a first opening, a resume, a retry and
one more, and for the limit to be reached with any of them under way. It checks
`StrandedOnlyByTimeout` (started means live, or something will try again),
`ConnectedOrRetrying`, `SessionOnItsSocket`, `NoOrphan`, `StoppedIsDown` and
`ContractSpec`, the refinement of `CommsContract`. The violation run uses one URL
and three sockets, for a short trace. There is no liveness here: nothing makes a network
come back.

### Ratchet and Sessions

`Ratchet` is the session record and the functions of `SignalSession.ts` and
`SignalRatchet.ts` on it, with symbolic keys: a key pair is its owner and a
number, a root or chain key is the list of key agreements it was derived from.
Two parties agree on a key exactly when they made the same agreements, so a MAC
that verifies is an equality. `Sessions` is `SignalProtocol.ts` for two parties
that talk to each other, each with a session store and a pre-key store:

| Action | Code |
|---|---|
| `Resolve`, `Persist` | `ensureSessionsBatch`: the stored session, or a bundle fetched and a session prepared and, under the lock, kept unless another appeared |
| `Encrypt`, `Release` | `encryptMessagesBatch` up to its write, with or without the session resolved before; the write, after which the ciphertext goes out |
| `Decrypt`, `Consume`, `Deliver` | `decryptMessage` up to its writes; the one-time pre-key; the session, after which the plaintext is returned |
| `Refetch`, `Reestablish` | the answer to a retry receipt that found no session |
| `Delete` | the callers of `deleteSession`, none of which takes the lock |
| `Interrupt` | a write that fails, applied or not, or the end of the process |

`op` is the operation that holds the lock of the address (`StoreLock`), so two
operations of a party do not interleave, but everything else does with each of
their steps. `sent` is a set that messages never leave: the network loses them by
never delivering, repeats and reorders. The server is external: it hands out each
one-time pre-key at most once, and bundles without when others took the rest.

`sessions` bounds the key pairs and the messages in all; it has one deletion or
failure, one one-time pre-key for each party, one previous session, one chain
besides the new one and one skipped key. Six key pairs are both parties opening
at once and a turn of the ratchet each, or one party opening twice; three messages
on a chain can skip two keys, one too many. These cases were seen to occur:
promotion of a previous session by a message and by a first message, an evicted
skipped key, an index too far ahead, a repeated first message that opens a dropped
session again, a session replaced by `Reestablish`. Not reached: forgetting a
previous session or a receiving chain, which take more openings and messages. With
one deletion *and* one failure the same properties hold, in ten million states.

`lapses` (history) records what a party's session went through, and the
properties name the lapses they except:

* `KeyUsedOnce`, except after *deleted session used*: a sender resolves a session,
  another operation advances it, a handler deletes it, and the sender, which finds
  no stored session, encrypts with the one it resolved. Its index has been used.
* `DecryptedOnce`, except after that, and for first messages of a session that was
  opened without a one-time pre-key and then dropped, or forgotten for later ones:
  nothing is left to tell. TLC finds the second beyond the bounds of the run (ten
  key pairs, two deletions): the first message of the first of three sessions is
  repeated, which its receiver, with room for one previous session, no longer knows.
* `Decryptable`: what was sent can be decrypted, unless its receiver dropped its
  session, evicted keys or was interrupted between the pre-key and the session
  (the message, not only the answer, is then lost), or its sender used a deleted
  session or opened a session again from a repeated first message. *Session
  dropped* includes a session that an incoming message opened while a retry
  receipt was fetching a bundle: `Reestablish` replaces it.

### CommsContract

What the rest of the client may rely on of a `WaComms`: it is new, opening, up or
gone for good; whoever waits for the first connection is answered once; the close
after `holdForServerRestart` is handed on once. `Comms` implements it: `AsPromised`
in `Comms` is the refinement mapping and `ContractSpec` the property of run
`comms`. `Lifecycle` is built on its steps, so that what is checked there is
checked of any number of comms that keep the contract.

### Lifecycle

Who brings the connection up and down.

| Variable | Code |
|---|---|
| `comms`, `made` | the `WaComms` created so far, by contract, and the credentials each was built with |
| `mgr` | `WaConnectionManager`: `comms`, `pendingComms`, `lifecycleGeneration`, the frame handler, the pairing timer, and the queue of operations, whose head holds the place it awaits |
| `caller` | `WaStreamControlCoordinator`, the handler of failure stanzas and the one of identity changes, each with what it has still to do after its disconnect |
| `auth` | `WaAuthClient`: credentials in memory and in the store, those a pairing is saving, and whether a pairing is being answered |
| `alive` | `WaKeepAlive`: off, timer set, or ping sent |

Operations run one after the other; inside `startCommsWithCredentials` each await
(loading, configuring, waiting, persisting, clearing routing info) is a step, and
any call may come between. What a step releases without an await that takes time
comes first (`Urgent`). A pairing sets the credentials in memory, awaits their save
(`PairSaved`, which may fail) and then answers (`Paired`); what it does before it sets
the credentials is one step with that.

`lifecycle` has two connects and one disconnect of the user, two fatal stanzas, which
disconnect as well, one pairing, one fault and four comms: a connect can be
superseded by a disconnect and by a restart in every await, one disconnect by
another, a second error can meet the handling of the first, and the retry without
routing info can meet all of them. The fault is a load, a save, a wipe, a
configuration, a wait or a connection that fails. It takes 2.5 million states, in
about a minute.

* `OneConnection`, `RestartsOnce` hold without exception.
* `ApplicationKnows`, `CurrentCredentials`, `KeepAliveWatches` name theirs in
  `hist.lapses`; see [observations](#observations).
* `CurrentCredentials` has three parts: the connection is of the login in use, it is
  not registered when the credentials are not, and it is when they are. Only a logout
  that overlaps a connect excuses all of it; a pairing that ended before its restart
  (`Unfinished`: the save failed, the answer could not be sent, or the restart found
  no frame handler) excuses the third.

No liveness: nothing obliges a server to answer.

### Replica and AppState

`Replica` is the promise: a collection is a log of patches, the local copy is what
a prefix of it contains, and the prefix only grows. `AppState` is the code: the
queue of `WaAppStateMutationCoordinator` and its flush loop, the sync run of
`WaAppStateSyncClient` with its rounds (query, answer, bootstrap from a snapshot,
patches, the own patch, conflict and refetch, missing keys, result), and the save
at its end; the server, another device that adds patches, and keys that come late.
A write is a number, a patch the writes it makes; hashes and MACs follow the
contents and are left out, so an answer that does not follow on stands for all
that they detect, and for the blob of a patch that fails after the snapshot of the
same answer was applied, which leaves the cached copy the same.

`appstate` has two collections and two indexes, one user call that touches both
collections, three writes in all, two rounds, two patches to a page, two keys of
which none is there at first, and one fault (a query, a download or a save that
fails, or an answer that is repeated or cannot be applied). A run can thus end at
its limit, a key share or a dirty notice can come at any step, a conflict can meet
the user's next write, and a flush can join a run or start one: 3.5 million states,
in about two minutes.

* `ReplicaSpec`: `AppState` implements `Replica`, whatever is lost or repeated.
* `NoWriteLost` (except what a flush that joined a run took with it),
  `ToldTheTruth`, `ChangesReported`, `QuietIsCurrent`.

### PreKeys

The one-time keys and the signed key a client leaves with the server.

| Variable | Code |
|---|---|
| `keys` | `WaPreKeyMemoryStore` (keys, uploaded marks, next id) and the chain of `withPreKeyLock` |
| `signed` | the signed key in the signal store; a key is the number of its rotation |
| `flag`, `creds` | `serverHasPreKeys` in the store and in the credentials, each with the writes its lock has under way |
| `ops` | the tasks after a connect, the handler of a notice, and retry receipts, each at the await it has reached |
| `server`, `peers` | external: what the server holds and sends, keys handed out, first messages on their way |

The passive tasks upload, check the digest, upload again if it differs, and may
rotate the signed key; a notice runs the first or the second of these beside them;
a retry receipt takes and marks one key in two turns of the lock. Consumption has a
lock key of its own. A query is taken by the server or not, answered or not, in any
order with the others; what the server sends arrives in order; a notice that was
not acked is sent again.

`prekeys` has the passive tasks, one notice and two receipts, batches of two and
room for three of four keys (so that the store must make room), two connects, one
rotation, two keys handed out, one fault (a query, a write of the flag, a save or the
process), and follows a behaviour until two different lapses occurred (`FewLapses`).
That is 4.6 million states, in two to four minutes; receipts are symmetric.

* `HandedOutOnce`, `HandedOutIsHeld`: a one-time key goes to one peer, and is
  there when its message comes.
* `SignedKeyHeld`: the server hands out the signed key of the store.
* `FlagIsRight`: the flag that keeps the next connect from uploading is not up
  while the server is known to be low, nor before what was uploaded is marked.

Each exception in a property was seen to be needed: without it TLC finds a
behaviour. `TypeOK` of `PreKeys`, `Lifecycle` and `SessionStore` states the types
and is in no run's list.

`CHECK_DEADLOCK FALSE` is set in every configuration: a destroyed queue, a
closed gate, a store that reached its bound of mutations and stopped comms have
nothing left to do.

## Disagreements with the documentation

Each is shown by a run that TLC finds violated.

* `session_resurrection`, `NoResurrection`. The comment on `withSessionCache`
  says that an in-flight read "can never resurrect a concurrently deleted
  entry". A read that begins after the delete bumped the generation and is served
  before the delete commits finds its generation unchanged and the slot empty.
  `l1.deleteSession` runs before the read looks, or in the await between its look and
  its fill, and the deleted session is in L1, where nothing removes it.
  `deleteSession` would have to bump the generation again once the backend answered.
* `comms_stranded`, `NeverStranded`. After a failed handshake `WaComms` closes
  the socket and leaves the retry to the close event. If `WaWebSocket.close`
  times out first, it forgets the socket, the late event is stale, and comms that
  are started and in use stay down with nothing scheduled, although the failure
  is logged as "next attempt may fallback to full".
* `appstate_joined`, `NoWriteEverLost`. A flush that begins while a sync run is
  under way gets the promise of that run: its mutations are not in it. When the
  run succeeds, the flush counts them as sent and drops them, although "Failed
  collections are re-queued before the error is rethrown" and its caller is told
  that they were sent.

### Observations

What the exceptions of the properties stand for. Each is a behaviour of the code
that no line of its documentation excludes in so many words.

* SessionStore: the same comment says that a read cannot "overwrite a fresher
  concurrent write". A set begins, a read notes the new generation and is served the
  old session, and the set is done; when both answers are handled in the same turn
  the read finds the slot empty, the set writes L1 in the await that follows, and the
  read then writes the old session over it (`session.cache.ts:76-77`, `98-100`). L1
  is older than the backend until the next write or eviction. It is an exception of
  `CacheAgrees` (`Overtaking`).
* Comms: `onSocketClosed` drops the noise session and leaves the generation alone,
  and the resume handshake sends nothing after its last key agreement: when the
  socket closes during it the handshake still succeeds, and `connected` is true
  with no session until the reconnect that was scheduled repairs it
  (`ConnectedOrRetrying`). A stop misses an `open()` that awaits the agent's module.
* Lifecycle: the retry without routing info drops the frame handler, so that a
  pairing restart after it fails. A connect after the reconnect limit resolves with
  comms that are gone. A second stream error during the handling of one joins it:
  its own action is lost, and the comms it stopped stay stopped. A connect during
  a logout works with credentials that are being wiped. A pairing whose credentials
  cannot be saved (`WaAuthClient.ts:528-529` sets them in memory first; the handler
  ends at `WaPairingFlow.ts:348`), or whose answer cannot be sent, leaves registered
  credentials on an unregistered connection, and nothing restarts it; a
  `pair-success` that comes again is ignored, since the credentials are registered. A
  pairing restart that fails is only logged, and the
  keep-alive it started goes on. A ping sent before an internal reconnect can time
  out after it and resume the new connection.
* AppState: each round replaces the result of a collection, so that changes of
  earlier rounds are not reported. A key share or a dirty notice during a run joins
  it, and nothing follows. A call that joins a flush which already found the queue
  empty is answered with its write still queued. Every caller that joined a sync
  emits its events again.
* PreKeys: every connect puts the signed key of the credentials back into the
  store, and nothing writes a rotated key to them: a rotation lasts until the next
  connect, whose digest check uploads the old key again, and the next rotation uses
  the same id. The new signed key is stored before the server accepts it, and the
  old one is gone. Two operations that take keys before either has marked them
  offer the same key. A store that makes room drops keys the server still has. An
  upload may carry a signed key that was read before a rotation. The low notice is
  acked before the flag is saved. Two uploads beside each other may raise the flag
  one after the other, the second too late. A connect may read credentials saved
  without the flag while their save with the flag is under way, and go on without
  it in memory: the clear of a low notice then saves nothing, and when the process
  ends before the connect saves, the flag is up in the store of a client that is low.

## Proofs

`*Proofs.tla` extend their module and TLAPS. Each has a typing lemma, facts about
the helpers, one lemma per action or group of actions, and theorems that put them
together. The theorems name the formulas TLC checks in the runs; what the runs
show on a small instance they show for all constants that satisfy the
module's assumption. Few of these formulas are inductive by themselves. Each
invariant below was found by failed proof attempts, and its parts were
model-checked before they were proved.

**BackgroundQueueProofs**, for finite `Keys`, any set of calls, any limits, with
or without batches and a coalesce callback that throws (`ConstantsOK`).
`QueueTypeOK`, `QueueRetryStandsAlone`, `QueueEveryWriteAccounted`,
`QueueDiscardIsFinal`, `QueueStoreNeverRegresses` and `QueuePromisesTrackWrites`.
The invariant of the first five is

    IInv == TypeOK /\ KeysOK /\ OneDrain /\ Shut /\ Keyed

where `KeysOK` holds what is true of each key by itself: the accounting, the
separation of a retry from what is pending or being written, and the order of
the values (what the store holds is no newer than what is being written, which
is older than what waits). Order is what keeps the store from regressing, and it
is preserved only because a key is in at most one of retry and in flight; that
in turn needs `OneDrain` (nothing is at the writer unless the loop runs), since a
second loop could take a key that is being written. `Shut` relates the stages of
`destroy` to what may still be waiting; `Keyed` says that a call on its way in
knows its key.
`QueuePromisesTrackWrites` adds `Promises`, one clause `Answers` per key: the
waiters of each slot are queued calls for that key whose value the slot holds,
no two slots share a waiter, every queued call for the key is in one of the
three, and a resolved one has its value among those written. Entries move
between slots whole, and the only places where waiters are told are those where
their entry leaves every slot; `RetryStandsAlone`, from `IInv`, is what makes a
failed write overwrite no waiters of an armed timer.

**SharedExclusiveGateProofs**, for a finite set of callers. `GateIsSafe`: the
counters equal the numbers of callers inside and waiting (`CountersMatch`), from
which exclusion follows, since each caller tests the counters and not the others.
The cardinalities step by one because each action moves one caller.
`GateExclusiveFirst` is the action property, from the same invariant.

**SessionStoreProofs**, for finite `Keys` and any tasks. Each step of the store is
a step of the gate or leaves the gate alone (`StepsTheGate`), so the gate's
invariant is used and not proved again. On top of it:

    PlacesInvariant == GateInv /\ TypeOK /\ Linked /\ WithinBounds /\ Shut
    CacheInvariant  == Alone /\ Applied /\ Cached /\ Fetched /\ Deleting

`Linked` ties the phase of an operation to where its task stands in the gate;
with `Shut` it gives `DestroyedIsLeftAlone` (a destroyed store is not used).
`CacheIsCoherent` (`CacheAgrees`) needs the second layer. `Cached` alone is not
inductive: a read that fetched before a mutation may fill L1 after it. `Fetched`
says that such a read finds its slot taken, when it still has to look, or its
generation old, and that a read between look and fill fetched what is persisted, `Applied` that
what a mutation is about to put into L1 is what it wrote, `Alone` that two
overlapping mutations of a key know of each other, `Deleting` why a delete, which
leaves the slot empty, is the exception (its keys are `exposed`). The three steps of
a read that populates L1 are one lemma (`PopulatingStep`), and `CompletionEffect`
says what a mutation that completes may leave to them.

**LifecycleProofs**, for any set of connections, with `WaComms` as
`CommsContract` allows.

    QueueInvariant == TypeOK /\ InTurn /\ Bound /\ InOrder /\ Unchallenged
    HeldInvariant  == Watching /\ Reported /\ WithCurrent

`InTurn`: only the head of the lifecycle queue has begun. `Bound`: what is live
the manager holds, as pending or as its own; this is `ConnectedOnce`
(`OneConnection`). `InOrder`: generations grow along the queue and after one that
is superseded comes one that is not; without it the "last call wins" of the code
cannot be argued. `RestartsDue` counts restarts done and owed against pairings
(`RestartedOnce`). The held connection is then watched by the keep-alive
(`KeptAlive`), reported (`ReportsAreTrue`) and of the login in use
(`ConnectedAsCurrent`); the three need the queue's order, since what excuses a
state now is an operation that is still to come. `WithCurrent` says this of the held
connection and of the credentials an operation works with: they are of the login in
use, the connection is not registered beyond it, and where it is older, a pairing is
under way or unfinished, or a restart or something that supersedes it is due
(`Outdated`, `Replaced`).

**CommsProofs**, for any number of URLs, attempts and sockets. One invariant,
`IInv`, carries all of it. Its parts: the sockets of a race and the one in use
(`SocketsOK`); the noise session belongs to the open socket and a socket told to
close has no handshake left (`Paired`); what started, stopped and given up say of
the other fields (`Ended`); nothing opens after a stop that missed nothing
(`StopsAll`); an open socket is made use of (`Served`); one close at most is
awaited by a resume (`Resumes`); without a socket something is coming that gets
one (`Retried`). `Retried` is broken and restored within a step, so each handler is
proved from `Steady`, the invariant without it. The
theorems: `CommsTyping`, `OneConnectionOpen`, `SessionStaysOnSocket`,
`StopIsEffective`, `RetryIsNotLost`, `ConnectedIsTrue`.

`KeepsItsContract` is the refinement: every step of `Comms` is a step of
`CommsContract`, which `Lifecycle` is built on, or a stutter, under the mapping
the run checks; one lemma per action.

`ConnectedIsTrue` and `KeepsItsContract` assume `MaxReconnectAttempts > 0`. The
attempt to prove them without failed for a good reason: with 0, TLC finds (one
URL, four sockets) that the last key agreement of a resume handshake can complete
after its socket closed (`WaComms.ts:330-343`). The client then says it is
connected while the timer is pending; the timer gives up at once and leaves
`connected` set on a client that is not started. With one attempt or more the
timer opens a socket instead.

**AppStateProofs**, for any collections, calls, keys, pages and rounds.
`CopiesAreReplicas`, the refinement: the stored copies behave as `Replica`
allows. `Save` is `CatchUp`, every other step is a `Publish` of the server or a
stutter. It needs `CopiesInvariant` (`Stored`, `Cached`, `Answered`: a stored copy,
a cached one and what an answer makes of it are merges of a prefix of the
server's log) and facts about merging patches, proved by the least and the
greatest element of a set of versions in place of an induction.

| Theorem | Invariant | Why the property is not enough |
|---|---|---|
| `WritesAreKept` (`NoWriteLost`) | `InBatch`, `Carried`, `Uploading`, `Confirmed` | a write passes through queue, batch, run and answer, and each must hold the same write |
| `SuccessIsTrue` (`ToldTheTruth`) | `Numbered`, `Awaited` | who is told at the end of a flush waited through all of it |
| `ChangesAreReported` (`ChangesReported`) | `Own`, `Reporting`, `Accounted` | what is stored was told, is the user's, or is in the results of the run that is about to store it |
| `QuietAndCurrent` (`QuietIsCurrent`) | `Bare`, `NoneMissed`, `Newest`, `AllAttended` | that no run is left behind is a fact about runs under way |

These parts were model-checked as invariants on the instance of `AppState.cfg` and
on a larger one (10 million states).

**PreKeysProofs**, for any notices and receipts, batches, room in the store,
rotations and faults; `FewLapses` and the symmetry of the run are not assumed.

| Theorem | Invariant | Why the property is not enough |
|---|---|---|
| `PreKeysTyping` (`TypeOK`) | `Placed` | an operation may generate and change the store only because it is at the head of the lock, and what is queued there waits for it |
| `PreKeysSigned` (`SignedKeyHeld`) | `LineOK`, `SignedOK` | between the store's key and the answer to a rotation the two differ: what is right is that the rotation asks for the key of the store, and that an answer in the line answers one query |
| `PreKeysOnce` (`HandedOutOnce`) | `Apart`, `Before`, `Fresh`, `Known`, `Single` | a key is released once because it is offered by one operation, was not released before, and is marked, or will be by whoever has its confirmation, before anyone else can take it as unused |
| `PreKeysHeld` (`HandedOutIsHeld`) | `Kept`, and all of the above | a key leaves the store only by its message or for room, and what was just generated is not what makes room (`NewStays`) |
| `PreKeysFlag` (`FlagIsRight`) | `Restoring`, `Lowers`, `Numbered`, `MarkedSoon` | store, credentials, memory and the writes under way to each need not be equal; what holds is which of them are down, and that nothing in line raises them |

The lapses a property names are part of its invariant (`Astray`, `Confused`,
`Muddled`), which says nothing once one occurred; most steps are dealt with by two
lemmas about a step that leaves keys and server alone (`Aside`) or in which nobody
is answered (`Silent`).

The invariant of the flag has these parts: at most one restore is under way, and the
connection waits for it (`Restoring`); one operation works on the flags, and who
writes them waits for it (`Alone`); while keys are on their way, a flag is down, or a
write that lowers it is in line and nothing behind that raises it (`Down`,
`DownAtWork`), and what the next restore brings is down too (`NextDown`); the
credentials say "up" while the store says "down" only between two connections
(`Agreed`), and a restore raises nothing while an operation is at work
(`NotRaised`); from a low notice to the next confirmed upload all of these stay down,
over restarts as well (`DownWhenLow`); and a key that was taken is marked, or the
upload that was confirmed is about to mark it (`MarkedSoon`). Most steps leave the
flags alone (`Steady`, `SteadyLowers`); those that write, restore, save or raise them
have a lemma each. The search for this invariant showed that `FlagIsRight`
was false beyond the bounds of its run, with three connects: see the end of the
[observations](#observations). Its exception now names the interruption
(`Interrupts`), and TLC finds the behaviour when it does not.

**SessionsProofs**, for two parties and any one-time pre-keys, room for sessions,
chains and skipped keys, bounds on key pairs, messages and troubles. The assumption
`RatchetAssumption` asks for a previous session and two receiving chains, which the
constants of the code exceed.

`SessionTypes` (`TypeOK`) has its types over `KeysMade`, the key pairs generated so
far: a record or message made before a key was generated cannot contain it. So that
a new chain is a new one (`FreshRoot`) comes with the typing, and no invariant has
to relate the two parties' counters. That skipped keys fit their room is a fact
about finite sets (`KeptFits`).

`SessionKeysOnce` (`KeyUsedOnce`) follows from

    Owned == \A p, q \in Parties : p # q => SendKeys(p) \cap SendKeys(q) = {}
    SoundOrLapsed(p) == Lapsed(p, "deleted session used") \/ Sound(p)

`SendKeys(p)` are the sending chains that p stores, has in a task or in the operation
that holds the lock, or has sent with; a step of p brings only chains it had and
new ones (`Brings`), so a chain stays with one party, lapses or not. `Sound` says
of what is stored, and of what the operation is about to store, that its chains
differ from each other and are ahead of all that was sent with them. This holds for the
chains of previous sessions too, since a message may promote one, and the proof is
that a promotion, a new session in front and a decryption reorder the chains there
were, each at most once, and add at most a new one (`Reorders`, `Follows`). A session
that was prepared and waits to be stored has a chain nothing was sent with; one that
was resolved ("ready") need not be ahead, which is why going back to it is the
exception.

`SessionDecryptsOnce` (`DecryptedOnce`) follows from

    FormedFor(p)     what p stores, resolved, is writing or sent is named as it should
    HearsOrLapsed(p) == Lapsed(p, "deleted session used") \/ Hears(p)
    OnceHeard        what was returned again is one of the exceptions

`FormedFor` says that root and chains of a session begin with its own secret and that
the secret of a session, the sender of a message and its type tell from one another
what they must. `Hears` says how what p returned (`HeardBy`: and what its operation is
about to return) stays apart from what it stores: no session of the record is able to
derive the chain of such a message again (`Deaf`: its ratchet key is not in the chain's
last agreement), and where the chain is still there, the key of the message is used
up. For this to last, the sessions of a record must have neither base key nor ratchet
key nor receiving chain in common (`Apart`), or a promotion would bring back an older
copy; the ratchet key of a prepared session must be unknown to all of them
(`TaskHears`); and the one-time pre-key of a session a peer opened must be gone
(`Spends`), the base key of its first message among those of the record, so that the
message finds its session and not a new one (`FirstHears`). All of it is stated of
the record and of the one being written (`RecordHears`, `WriteHears`), since a write may
fail or be overtaken by a deletion. Dropping and forgetting sessions takes base keys
out of the record, which is why only first messages without a one-time pre-key are
excepted then. A decryption is one of three: it uses a key of a chain that is there
(`KnownDecrypts`), turns the ratchet (`TurnDecrypts`) or opens a session in front
(`OpenDecrypts`). The invariant was model-checked as it is stated, on the instance of
`sessions`, before it was proved. `NoSessionAssumption` says that "no session" is not
a session record, as `null` is not in the code.

`SessionDecryptable` (`Decryptable`) takes the two invariants above and a third, which
relates what one party may say to what the other can hear:

    Ready(p) == Makes(p) /\ SpeaksOrLapsed(p) /\ HearsPeerOrLapsed(p)

A *voice* of p is the ratchet key and the chain of a session that p sent with, stores,
is about to write, or prepared (`Voices`). `Speaks(p)` says that the voices tell
themselves apart: by ratchet key, and by secret and number of turns (`Told`); that p
falls behind none of what it said (`Furthest`), keeps a session with the secret of what
it said (`Opened`, `SecretsKept`), and that what it prepares is new (`OwnKeys`,
`TaskFresh`). `HearsPeer(p)` says that the sessions p stores, and those it is about to
write, are enough for each voice of the peer (`Listens`): one of them has that chain
(`HeardOn`), one of them turns to it (`TurnsTo`), or p can open a session with it, whose
one-time pre-key is still there (`OpensAs`). Nothing else is on the receiving chains, and
no key of them is used up but by a message that was heard (`Received`); and each turn of
the ratchet answers something that the peer sent (`Answers`), so that neither party is two
turns ahead. A step of p is harmless for its own hearing because it keeps sessions or
takes one further (`MoverHears`, with `DecryptListens` for the three ways to decrypt). For
the hearing of the peer, a new voice of p, from a turned ratchet or a new session, is one
the peer can turn to or open (`OthersHeard`, `TurnedHeard`, `PreparedHeard`). The
implication (`ReadyImpliesDecryptable`) is about the code's search: the previous sessions
(`MsgFound`), the session with the base key of a first message (`MatchFound`), or a new
one (`OpenerReads`). The lapses that `Decryptable` excepts enter `Ready` as they are
named: a receiver with any lapse of its own is excused, a sender only when it is not
`Steady`. This invariant too was model-checked before it was proved.

## Only model-checked

* All liveness (`EveryWriteSettles`, `EveryCallSettles`, `ExclusiveGetsIn`,
  `CloseReturns`): fairness and `ENABLED` are out of the prover's reach.

## Not modelled

* Pure functions on bytes (binary nodes, protobuf, ciphers, media), constants and
  generated specifications: data, no control.
* In `Comms`: the buffer of frames that arrive before requests are handled and
  the closing of the socket when it overflows, the queue of frame handlers, the
  Noise certificates. A frame that closes the socket is a `CloseSocketAndResume`
  or a `SocketCloses` at any time.
* The one request, one answer coordinators (groups, profile, privacy, newsletters
  and the like), the event plumbing and the client facade: no state of their own.
* Pairing by QR code, pairing code and passkey, message encoding: linear protocols
  over data; of pairing, `Lifecycle` has what it does to credentials and connection.
* In `Lifecycle`: the clock skew, the media connection cache, and the draining of
  message handlers, values nothing there reads; timers and pings of a stopped
  keep-alive, which the code finds stale by their generation. Failure stanzas are
  handled one at a time, and so are identity changes.
* In `AppState`: the primary device (initial keys, key rotation, answering key
  requests), what hashes and MACs detect, the schema of mutations.
* In `PreKeys`: fetching the bundles of others, registration id and identity in the
  digest (they do not change), active mode and dangling receipts, a restore of the
  flag that fails, the stores of other packages.
* In `Sessions`: identity keys and their mismatches, batches over several
  addresses, signed pre-keys that rotate; `Refetch` leaves out that the bundle of
  a retry receipt may come with the receipt. Group sender keys.
* Other packages (store drivers, native accelerator, VoIP, WAM, MCP server, fake
  server), benchmarks, examples, scripts: separate programs.

## Plan

Done, in this order: `BackgroundQueue` with proofs (everything persisted in the
background goes through it), `SharedExclusiveGate` with proofs, `SessionStore` over
the gate, `Comms`, `Ratchet` and `Sessions`, `CommsContract` with `Lifecycle`,
`Replica` with `AppState`, `PreKeys`.

Proved since: `SessionStore`, `Lifecycle`, `Comms` with its contract, `AppState` with
`Replica`, `PreKeys`, `Sessions`. Each invariant and action property of a passing run
is now stated by a theorem; liveness is not.

To model next: `Queries` (node queries, offline resume and the receipt queue across
reconnects), `StoreLock` (chains, `runMany`, shutdown; `Sessions` and `PreKeys` take
what it promises for granted), the restart of the write-behind persistence, group
sender keys.

## Running

    tlc -workers 2 -config BackgroundQueueSafety.cfg MCBackgroundQueue
    tlc -workers 2 -config Comms.cfg Comms
    tlapm BackgroundQueueProofs.tla

`PROJECT.json` pairs each configuration with its module. The longest runs take
two to four minutes on two cores, the proofs a few minutes.
