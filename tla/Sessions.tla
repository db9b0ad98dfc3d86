------------------------------ MODULE Sessions ------------------------------
(***************************************************************************)
(* Two parties that run SignalProtocol.ts with each other, over a network  *)
(* that loses, repeats and reorders.  Each has a session store and a       *)
(* pre-key store, keeps its locked operations apart (runWithAddressLock    *)
(* and runMany), and has senders that resolve a session first and encrypt  *)
(* later, callers that delete the session without the lock, failing writes *)
(* and crashes.                                                            *)
(*                                                                         *)
(* A locked operation is a step that reads the stores and a step that      *)
(* writes them, with what it awaits in between.                            *)
(***************************************************************************)
EXTENDS Ratchet

CONSTANTS
  Parties,
  OneTimeKeys,  \* the ids of the one-time pre-keys each party has uploaded
  NoSession,    \* no session record
  MaxKeys,      \* bound of the model: key pairs generated in all
  MaxSent,      \* bound of the model: messages in all
  MaxTroubles   \* bound of the model: deletions and interruptions in all

ASSUME SessionsAssumption ==
  /\ \E p, q \in Parties : p # q /\ Parties = {p, q}
  /\ OneTimeKeys \subseteq Nat \ {NoKeyId}
  /\ {MaxKeys, MaxSent, MaxTroubles} \subseteq Nat

\* SignalSessionRecord, with previous sessions of the set Previous.
RecordsWith(Previous) ==
  LET Keys == Parties \X Nat
      Names == Seq((Keys \X Nat) \cup SUBSET Keys)
  IN [aliceBaseKey : Keys, oneTimeId : Nat, initialExchange : BOOLEAN, rootKey : Names,
      recvChains : Seq([ratchetKey : Keys, chainKey : Names, nextMsgIndex : Nat,
                        unused : SUBSET Nat]),
      sendChain : [ratchetKey : Keys, chainKey : Names, nextMsgIndex : Nat],
      prevSessions : Previous]

ASSUME NoSessionAssumption == NoSession \notin RecordsWith(Seq(RecordsWith({<<>>})))

VARIABLES
  session,   \* the session record each party stores for the other
  preKeys,   \* the one-time pre-keys each party stores
  bundles,   \* the one-time pre-keys of each party the server still hands out
  generated, \* how many key pairs each party has generated
  task,      \* a sender or a retry: the session it prepared or resolved
  op,        \* the operation that holds the lock
  sent,      \* the messages released to the network
  got,       \* the messages each party's decryptMessage returned
  again,     \* the messages it returned more than once (history)
  lapses,    \* what happened to each party's session (history)
  spent      \* the deletions and interruptions so far (bound)

vars == <<session, preKeys, bundles, generated, task, op, sent, got, again, lapses, spent>>

-----------------------------------------------------------------------------
Peer(p) == CHOOSE q \in Parties : q # p

Idle == [step |-> "none", session |-> NoSession]
Free == [step |-> "none", session |-> NoSession, message |-> <<>>]

NewKey(p, i) == <<p, generated[p] + i>>
MayGenerate(p, n) == generated[p] + generated[Peer(p)] + n <= MaxKeys

SentBy(p) == {m \in sent : m.from = p}
NextId(p) == Cardinality(SentBy(p)) + 1

Lapse(p, what) == lapses' = [lapses EXCEPT ![p] = @ \cup what]

Init ==
  /\ session = [p \in Parties |-> NoSession]
  /\ preKeys = [p \in Parties |-> OneTimeKeys]
  /\ bundles = [p \in Parties |-> OneTimeKeys]
  /\ generated = [p \in Parties |-> 0]
  /\ task = [p \in Parties |-> Idle]
  /\ op = [p \in Parties |-> Free]
  /\ sent = {}
  /\ got = [p \in Parties |-> {}]
  /\ again = {}
  /\ lapses = [p \in Parties |-> {}]
  /\ spent = 0

-----------------------------------------------------------------------------
(* Sending. *)

\* The server hands a one-time pre-key out once, and a bundle without one when
\* others have taken the rest.
HandedOut(q) == IF bundles[q] = {} THEN {NoKeyId} ELSE {FirstIn(bundles[q]), NoKeyId}

NewSession(p, oneTimeId) == Outgoing(Peer(p), oneTimeId, NewKey(p, 1), NewKey(p, 2))

\* No session is stored, a bundle is fetched and a session made from it.
Prepare(p, step) ==
  /\ session[p] = NoSession
  /\ MayGenerate(p, 2)
  /\ generated' = [generated EXCEPT ![p] = @ + 2]
  /\ \E id \in HandedOut(Peer(p)) :
       /\ bundles' = [bundles EXCEPT ![Peer(p)] = IF id = NoKeyId THEN {} ELSE @ \ {id}]
       /\ task' = [task EXCEPT ![p] = [step |-> step, session |-> NewSession(p, id)]]

\* ensureSessionsBatch: the stored session, or a new one that is prepared.
Resolve(p) ==
  /\ task[p].step = "none"
  /\ \/ /\ session[p] # NoSession
        /\ task' = [task EXCEPT ![p] = [step |-> "ready", session |-> session[p]]]
        /\ UNCHANGED <<bundles, generated>>
     \/ Prepare(p, "prepared")
  /\ UNCHANGED <<session, preKeys, op, sent, got, again, lapses, spent>>

\* persistOutgoingSessionsBatch, and establishOutgoingSession with
\* reuseExisting: a session that appeared in the meantime is kept.
Persist(p) ==
  LET kept == IF session[p] = NoSession THEN task[p].session ELSE session[p]
  IN /\ task[p].step = "prepared" /\ op[p].step = "none"
     /\ session' = [session EXCEPT ![p] = kept]
     /\ task' = [task EXCEPT ![p] = [step |-> "ready", session |-> kept]]
     /\ UNCHANGED <<preKeys, bundles, generated, op, sent, got, again, lapses, spent>>

\* A retry receipt that found no session: fetchMissingPreKeysSession, then
\* establishOutgoingSession, which replaces a session that appeared meanwhile.
Refetch(p) ==
  /\ task[p].step = "none"
  /\ Prepare(p, "renewing")
  /\ UNCHANGED <<session, preKeys, op, sent, got, again, lapses, spent>>

Reestablish(p) ==
  /\ task[p].step = "renewing" /\ op[p].step = "none"
  /\ session' = [session EXCEPT ![p] = task[p].session]
  /\ task' = [task EXCEPT ![p] = Idle]
  /\ Lapse(p, IF session[p] = NoSession THEN {} ELSE {"session dropped"})
  /\ UNCHANGED <<preKeys, bundles, generated, op, sent, got, again, spent>>

\* Faulty variant of SessionToEncrypt: what was resolved earlier is preferred.
PrefetchedFirst(p, prefetched) == IF prefetched THEN task[p].session ELSE session[p]
SessionToEncrypt(p, prefetched) ==
  IF session[p] = NoSession /\ prefetched THEN task[p].session ELSE session[p]

\* encryptMessagesBatch until its writes, with or without the session that was
\* resolved for it.
Encrypt(p, prefetched) ==
  LET s == SessionToEncrypt(p, prefetched)
  IN /\ op[p].step = "none" /\ Cardinality(sent) < MaxSent
     /\ prefetched => task[p].step = "ready"
     /\ s # NoSession
     /\ op' = [op EXCEPT ![p] = [step |-> "encrypted", session |-> Encrypted(s),
                                 message |-> Message(s, p, NextId(p))]]
     /\ task' = IF prefetched THEN [task EXCEPT ![p] = Idle] ELSE task
     /\ Lapse(p, IF session[p] = NoSession THEN {"deleted session used"} ELSE {})
     /\ UNCHANGED <<session, preKeys, bundles, generated, sent, got, again, spent>>

\* The write, after which the ciphertext is returned and sent.
Release(p) ==
  /\ op[p].step = "encrypted"
  /\ session' = [session EXCEPT ![p] = op[p].session]
  /\ sent' = sent \cup {op[p].message}
  /\ op' = [op EXCEPT ![p] = Free]
  /\ UNCHANGED <<preKeys, bundles, generated, task, got, again, lapses, spent>>

-----------------------------------------------------------------------------
(* Receiving. *)

IsFor(p, m) == m.from = Peer(p)

\* decryptPkMsg has a session for m, or may open one.
IsMatched(s, m) == s # NoSession /\ HasMatch(s, m)
HasPreKeys(p, m) == m.oneTimeId \in preKeys[p] \cup {NoKeyId}

\* The session that m is decrypted with.
SessionFor(p, m) ==
  IF m.type = "msg" THEN SessionForMsg(session[p], m)
  ELSE IF IsMatched(session[p], m) THEN FindMatchingSession(session[p], m)
  ELSE IF session[p] = NoSession THEN Incoming(p, m)
  ELSE Succeeding(Incoming(p, m), session[p])

Opens(p, m) == m.type = "pkmsg" /\ ~IsMatched(session[p], m)

CanDecrypt(p, m) ==
  /\ m.type = "msg" => session[p] # NoSession
  /\ Opens(p, m) => HasPreKeys(p, m)
  /\ Decrypts(SessionFor(p, m), m)

\* A message with a new ratchet key of its sender turns the ratchet.
Turns(p, m) == KnownChains(SessionFor(p, m), m) = {}

\* Sessions, and keys, that are forgotten for lack of room.
Forgets(p, m) ==
  /\ Opens(p, m) /\ session[p] # NoSession
  /\ Len(session[p].prevSessions) >= MaxPrevSessions

Evicts(p, m) ==
  LET s == SessionFor(p, m)
      chain == ChainFor(s, m)
  IN \/ Turns(p, m) /\ Len(s.recvChains) >= MaxRecvChains
     \/ m.counter >= chain.nextMsgIndex
          /\ Cardinality(Skipped(chain, m.counter)) > MaxUnusedKeys

\* Nothing tells a first message of a dropped session from one of a new session.
MayReopen(p, m) ==
  /\ Opens(p, m) /\ m.oneTimeId = NoKeyId
  /\ lapses[p] \cap {"session dropped", "session forgotten"} # {}

\* decryptMessage until its writes: a message that does not decrypt changes
\* nothing.
Decrypt(p, m) ==
  /\ op[p].step = "none" /\ IsFor(p, m)
  /\ CanDecrypt(p, m)
  /\ \/ ~Turns(p, m) /\ UNCHANGED generated
     \/ /\ Turns(p, m) /\ MayGenerate(p, 1)
        /\ generated' = [generated EXCEPT ![p] = @ + 1]
  /\ op' = [op EXCEPT ![p] =
       [step |-> IF Opens(p, m) /\ m.oneTimeId # NoKeyId THEN "opened" ELSE "decrypted",
        session |-> DecryptedFrom(SessionFor(p, m), m, NewKey(p, 1)), message |-> m]]
  /\ Lapse(p, (IF Forgets(p, m) THEN {"session forgotten"} ELSE {}) \cup
               (IF Evicts(p, m) THEN {"keys evicted"} ELSE {}) \cup
               (IF MayReopen(p, m) THEN {"session reopened"} ELSE {}))
  /\ UNCHANGED <<session, preKeys, bundles, task, sent, got, again, spent>>

\* consumePreKeyById, after the message decrypted and before the session is set.
Consume(p) ==
  /\ op[p].step = "opened"
  /\ preKeys' = [preKeys EXCEPT ![p] = @ \ {op[p].message.oneTimeId}]
  /\ op' = [op EXCEPT ![p].step = "decrypted"]
  /\ UNCHANGED <<session, bundles, generated, task, sent, got, again, lapses, spent>>

\* setSession, after which the plaintext is returned.
Deliver(p) ==
  LET m == op[p].message
  IN /\ op[p].step = "decrypted"
     /\ session' = [session EXCEPT ![p] = op[p].session]
     /\ got' = [got EXCEPT ![p] = @ \cup {m}]
     /\ again' = IF m \in got[p] THEN again \cup {m} ELSE again
     /\ op' = [op EXCEPT ![p] = Free]
     /\ UNCHANGED <<preKeys, bundles, generated, task, sent, lapses, spent>>

-----------------------------------------------------------------------------
(* What goes wrong. *)

Spend == spent < MaxTroubles /\ spent' = spent + 1

\* deleteSession, by the handlers of retry receipts, identity changes, removed
\* devices and forced synchronisation: none of them takes the lock.
Delete(p) ==
  /\ session[p] # NoSession
  /\ Spend
  /\ session' = [session EXCEPT ![p] = NoSession]
  /\ Lapse(p, {"session dropped"})
  /\ UNCHANGED <<preKeys, bundles, generated, task, op, sent, got, again>>

\* The write of the session fails, applied or not, or the process ends before
\* or after it: nothing is returned.
Interrupt(p) ==
  /\ op[p].step # "none"
  /\ Spend
  /\ \/ UNCHANGED session
     \/ /\ op[p].step # "opened"
        /\ session' = [session EXCEPT ![p] = op[p].session]
  /\ op' = [op EXCEPT ![p] = Free]
  /\ task' \in {task, [task EXCEPT ![p] = Idle]}
  /\ Lapse(p, IF op[p].step = "decrypted" THEN {"message lost"} ELSE {})
  /\ UNCHANGED <<preKeys, bundles, generated, sent, got, again>>

-----------------------------------------------------------------------------
Next ==
  \E p \in Parties :
    \/ Resolve(p) \/ Persist(p) \/ Release(p) \/ Consume(p) \/ Deliver(p)
    \/ Refetch(p) \/ Reestablish(p) \/ Delete(p) \/ Interrupt(p)
    \/ \E prefetched \in BOOLEAN : Encrypt(p, prefetched)
    \/ \E m \in sent : Decrypt(p, m)

Spec == Init /\ [][Next]_vars

-----------------------------------------------------------------------------
(* Properties *)

SessionOK(s) ==
  /\ Len(s.prevSessions) <= MaxPrevSessions
  /\ Len(s.recvChains) \in 0..MaxRecvChains
  /\ \A i \in DOMAIN s.recvChains :
       LET chain == s.recvChains[i]
       IN /\ chain.unused \subseteq 0..(chain.nextMsgIndex - 1)
          /\ Cardinality(chain.unused) <= MaxUnusedKeys

TypeOK ==
  /\ \A p \in Parties : session[p] = NoSession \/ SessionOK(session[p])
  /\ preKeys \in [Parties -> SUBSET OneTimeKeys]
  /\ bundles \in [Parties -> SUBSET OneTimeKeys]
  /\ generated \in [Parties -> 0..MaxKeys]
  /\ \A p \in Parties : /\ task[p].step \in {"none", "prepared", "ready", "renewing"}
                         /\ op[p].step \in {"none", "encrypted", "opened", "decrypted"}
                         /\ got[p] \subseteq SentBy(Peer(p))
  /\ again \subseteq sent

Lapsed(p, what) == what \in lapses[p]

(* No two messages that were sent are encrypted with the same message key   *)
(* (and, as the IV is derived with it, the same IV).  The exception is a    *)
(* sender whose session was deleted after it resolved it: it goes back to   *)
(* the state it resolved.                                                   *)
KeyUsedOnce ==
  \A m, n \in sent :
    m.chainKey = n.chainKey /\ m.counter = n.counter =>
      m = n \/ Lapsed(m.from, "deleted session used")

(* However often the network repeats it, a message is returned once, across *)
(* new sessions, promoted ones, failures and deletions.  The exceptions are *)
(* a session that came back after its deletion, and the first messages of   *)
(* a session that was opened without a one-time pre-key and then dropped,   *)
(* or forgotten for later ones.                                             *)
DecryptedOnce ==
  \A m \in again :
    \/ Lapsed(Peer(m.from), "deleted session used")
    \/ /\ \/ Lapsed(Peer(m.from), "session dropped")
          \/ Lapsed(Peer(m.from), "session forgotten")
       /\ m.type = "pkmsg" /\ m.oneTimeId = NoKeyId

\* More messages than FutureMessagesMax were lost or are late before m.
TooFarAhead(p, m) ==
  /\ m.type = "msg" => session[p] # NoSession
  /\ LET chain == ChainFor(SessionFor(p, m), m)
     IN m.counter > chain.nextMsgIndex + FutureMessagesMax

(* Whatever is lost, late or out of order, and also when both parties open  *)
(* sessions at once, each message that was sent and not lost by its         *)
(* receiver can still be decrypted.  The receiver loses messages when its   *)
(* session is dropped, keys are evicted, an operation is interrupted, or    *)
(* too many messages before it are missing.  A sender that opened a session *)
(* again, from a repeated first message, is behind the ratchet of its peer. *)
Decryptable ==
  \A m \in sent :
    LET p == Peer(m.from)
    IN \/ m \in got[p] \/ op[p].step # "none"
       \/ lapses[p] # {} \/ Lapsed(m.from, "deleted session used")
       \/ Lapsed(m.from, "session reopened")
       \/ CanDecrypt(p, m) \/ TooFarAhead(p, m)
=============================================================================
