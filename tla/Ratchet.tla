------------------------------ MODULE Ratchet -------------------------------
(***************************************************************************)
(* The session record of signal/session and what SignalSession.ts and      *)
(* SignalRatchet.ts compute on it, with symbolic keys: two parties get the *)
(* same chain only if they made the same key agreements in the same order. *)
(*                                                                         *)
(* A key pair is <<owner, number>>; number 0 is the signed pre-key.  A     *)
(* root key is the sequence of the agreements it was derived from, and the *)
(* chain key derived with it has the same name.                            *)
(***************************************************************************)
EXTENDS Naturals, Sequences, FiniteSets

CONSTANTS
  MaxPrevSessions,    \* MAX_PREV_SESSIONS
  MaxRecvChains,      \* MAX_TRACKED_RECV_CHAINS and the one added to them
  FutureMessagesMax,  \* FUTURE_MESSAGES_MAX
  MaxUnusedKeys       \* MAX_UNUSED_KEYS

ASSUME RatchetAssumption ==
  /\ MaxPrevSessions \in Nat \ {0} /\ MaxRecvChains \in Nat \ {0, 1}
  /\ {FutureMessagesMax, MaxUnusedKeys} \subseteq Nat

-----------------------------------------------------------------------------
SignedPreKey(p) == <<p, 0>>
NoKeyId == 0

\* The shared secret of base key and pre-keys; one party owns the base key.
Secret(base, oneTimeId) == << <<base, oneTimeId>> >>

CalculateRatchet(root, mine, theirs) == Append(root, {mine, theirs})

FreshChain(ratchetKey, chainKey) ==
  [ratchetKey |-> ratchetKey, chainKey |-> chainKey, nextMsgIndex |-> 0, unused |-> {}]

\* initiateSessionOutgoing, towards party q with new keys base and ratchet.
Outgoing(q, oneTimeId, base, ratchet) ==
  LET secret == Secret(base, oneTimeId)
      root == CalculateRatchet(secret, ratchet, SignedPreKey(q))
  IN [aliceBaseKey |-> base, oneTimeId |-> oneTimeId, initialExchange |-> TRUE,
      rootKey |-> root,
      recvChains |-> <<FreshChain(SignedPreKey(q), secret)>>,
      sendChain |-> [ratchetKey |-> ratchet, chainKey |-> root, nextMsgIndex |-> 0],
      prevSessions |-> <<>>]

\* initiateSessionIncoming, by party p for the first message m of a session.
Incoming(p, m) ==
  LET secret == Secret(m.baseKey, m.oneTimeId)
  IN [aliceBaseKey |-> m.baseKey, oneTimeId |-> m.oneTimeId, initialExchange |-> FALSE,
      rootKey |-> secret,
      recvChains |-> <<>>,
      sendChain |-> [ratchetKey |-> SignedPreKey(p), chainKey |-> secret, nextMsgIndex |-> 0],
      prevSessions |-> <<>>]

Snapshot(s) == [s EXCEPT !.prevSessions = <<>>]

Without(seq, i) == SubSeq(seq, 1, i - 1) \o SubSeq(seq, i + 1, Len(seq))
LastOf(seq, n) == IF Len(seq) <= n THEN seq ELSE SubSeq(seq, Len(seq) - n + 1, Len(seq))
FirstIn(S) == CHOOSE i \in S : \A j \in S : i <= j

-----------------------------------------------------------------------------
\* encryptMsg: the session after it, and the message, which is the id-th that
\* party p sends.
Encrypted(s) == [s EXCEPT !.sendChain.nextMsgIndex = @ + 1]

Message(s, p, id) ==
  [from |-> p, id |-> id,
   type |-> IF s.initialExchange THEN "pkmsg" ELSE "msg",
   ratchetKey |-> s.sendChain.ratchetKey, chainKey |-> s.sendChain.chainKey,
   counter |-> s.sendChain.nextMsgIndex,
   baseKey |-> s.aliceBaseKey, oneTimeId |-> s.oneTimeId]

\* selectMessageKey.
Selectable(chain, n) ==
  IF n < chain.nextMsgIndex THEN n \in chain.unused
  ELSE n - chain.nextMsgIndex <= FutureMessagesMax

\* Faulty variant of Kept: the skipped keys are never trimmed.
KeptAll(S) == S
Kept(S) == {i \in S : Cardinality({j \in S : j > i}) < MaxUnusedKeys}

Skipped(chain, n) == chain.unused \cup (chain.nextMsgIndex..(n - 1))

\* Faulty variant of Selected: the key of a late message is not removed.
SelectedStays(chain, n) ==
  IF n < chain.nextMsgIndex THEN chain
  ELSE [chain EXCEPT !.nextMsgIndex = n + 1, !.unused = Kept(Skipped(chain, n))]
Selected(chain, n) ==
  IF n < chain.nextMsgIndex THEN [chain EXCEPT !.unused = @ \ {n}]
  ELSE [chain EXCEPT !.nextMsgIndex = n + 1, !.unused = Kept(Skipped(chain, n))]

-----------------------------------------------------------------------------
\* decryptMsgFromSession.
KnownChains(s, m) == {i \in DOMAIN s.recvChains : s.recvChains[i].ratchetKey = m.ratchetKey}

ChainFor(s, m) ==
  IF KnownChains(s, m) # {} THEN s.recvChains[FirstIn(KnownChains(s, m))]
  ELSE FreshChain(m.ratchetKey,
                  CalculateRatchet(s.rootKey, s.sendChain.ratchetKey, m.ratchetKey))

\* The MAC tells whether the derived key is the sender's.
Decrypts(s, m) ==
  LET chain == ChainFor(s, m)
  IN chain.chainKey = m.chainKey /\ Selectable(chain, m.counter)

\* The session after it decrypted m; newKey is for a new sending ratchet.
DecryptedFrom(s, m, newKey) ==
  LET chain == Selected(ChainFor(s, m), m.counter)
      root == CalculateRatchet(chain.chainKey, newKey, m.ratchetKey)
  IN IF KnownChains(s, m) # {}
     THEN [s EXCEPT !.recvChains[FirstIn(KnownChains(s, m))] = chain]
     ELSE [s EXCEPT !.rootKey = root,
                    !.recvChains = Append(LastOf(@, MaxRecvChains - 1), chain),
                    !.sendChain = [ratchetKey |-> newKey, chainKey |-> root, nextMsgIndex |-> 0],
                    !.initialExchange = FALSE]

\* Session s with its i-th previous session in front.
Promoted(s, i) ==
  [s.prevSessions[i] EXCEPT !.prevSessions = <<Snapshot(s)>> \o Without(s.prevSessions, i)]

\* decryptMsg: the current session, then the previous ones.
Fallbacks(s, m) == {i \in DOMAIN s.prevSessions : Decrypts(s.prevSessions[i], m)}
SessionForMsg(s, m) ==
  IF Decrypts(s, m) \/ Fallbacks(s, m) = {} THEN s ELSE Promoted(s, FirstIn(Fallbacks(s, m)))

\* findMatchingSession.
Matches(s, m) == {i \in DOMAIN s.prevSessions : s.prevSessions[i].aliceBaseKey = m.baseKey}
HasMatch(s, m) == s.aliceBaseKey = m.baseKey \/ Matches(s, m) # {}
FindMatchingSession(s, m) ==
  IF s.aliceBaseKey = m.baseKey THEN s ELSE Promoted(s, FirstIn(Matches(s, m)))

\* Faulty variant of Succeeding: what came before is forgotten.
SucceedingAlone(incoming, s) == incoming
\* decryptPkMsg: the base session when there is a current session s.
Succeeding(incoming, s) ==
  [incoming EXCEPT !.prevSessions =
     <<Snapshot(s)>> \o SubSeq(s.prevSessions, 1,
         IF Len(s.prevSessions) < MaxPrevSessions THEN Len(s.prevSessions)
         ELSE MaxPrevSessions - 1)]
=============================================================================
