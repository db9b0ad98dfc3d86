-------------------------------- MODULE PreKeys --------------------------------
(***************************************************************************)
(* The keys a client leaves with the server so that others can write to    *)
(* it: one-time keys, of which each is for one peer, and the signed key.   *)
(* The pre-key store and its lock, the operations that share it (the tasks *)
(* after a connect, the notices of the server, the keys of retry receipts, *)
(* all of which run beside each other), the flag that the server has keys, *)
(* in the store and in the credentials, and the server and peers around.   *)
(*                                                                         *)
(* A one-time key is its id.  A signed key is the number of its rotation:  *)
(* ids of signed keys can repeat, keys cannot.                             *)
(***************************************************************************)
EXTENDS Naturals, SequencesExt

CONSTANTS
  Passive,     \* the tasks after a connect, one run at a time
  Notices,     \* handlers of the server's notices
  Receipts,    \* retry receipts being built
  Count,       \* SIGNAL_UPLOAD_PREKEYS_COUNT
  MaxPreKeys,  \* maxPreKeys of the store
  MaxId,       \* bounds of the model: one-time keys generated,
  MaxRotations,
  MaxNotices,
  MaxHanded,   \* peers given keys, by the server or in a receipt
  MaxConnects,
  MaxFaults    \* queries and saves that fail, crashes

Ops == {Passive} \cup Notices \cup Receipts
Nobody == "nobody"
LowNotice == "low"

ASSUME PreKeysAssumption ==
  /\ Passive \notin Notices \cup Receipts /\ Notices \cap Receipts = {}
  /\ Nobody \notin Ops /\ LowNotice \notin Ops
  /\ {Count, MaxPreKeys, MaxId} \subseteq Nat \ {0} /\ Count <= MaxPreKeys
  /\ {MaxRotations, MaxNotices, MaxHanded, MaxConnects, MaxFaults} \subseteq Nat

VARIABLES
  keys,    \* the pre-key store, and the operations its lock serves in turn
  signed,  \* the signed key in the signal store
  flag,    \* serverHasPreKeys in the store, and the writes of it under way
  creds,   \* the same in the credentials, in memory and saved
  ops,     \* the operations
  link,    \* the connection
  server,  \* what the server holds for this client, and what it sends, in order
  peers,   \* keys handed out, and first messages on their way here
  hist     \* what happened (history)

vars == <<keys, signed, flag, creds, ops, link, server, peers, hist>>

-----------------------------------------------------------------------------
None == MaxRotations + 1   \* no signed key
Initial == 0               \* the signed key of the credentials
Ids == 1..MaxId

\* What an operation does, within which part of its work, with which keys; the
\* signed key it goes by, None when it will read it; what it was answered, and
\* the signed key the server named.
Idle == [at |-> "idle", stage |-> "none", ids |-> {}, skey |-> None,
         answer |-> "none", seen |-> None]
Asking == {"uploading", "digesting", "rotating"}
OpType ==
  [at : {"idle", "starting", "reading", "getting", "generating", "marking",
         "flagging", "clearing", "deciding"} \cup Asking,
   stage : {"none", "upload", "digest", "rotate", "redigest", "receipt"},
   ids : SUBSET Ids, skey : 0..None,
   answer : {"none", "ok", "missing", "refused", "mismatch"}, seen : 0..None]

\* A new client; an upload that failed has left a key that was not taken.
Init ==
  /\ keys = [held |-> {1}, marked |-> {}, next |-> 2, chain |-> <<>>]
  /\ signed = Initial
  /\ flag = [value |-> FALSE, chain |-> <<>>]
  /\ creds = [mem |-> FALSE, saved |-> FALSE, loaded |-> FALSE, chain |-> <<>>]
  /\ ops = [o \in Ops |-> Idle]
  /\ link = "down"
  /\ server = [stock |-> {}, skey |-> None, line |-> <<>>]
  /\ peers = [handed |-> [k \in Ids |-> 0], flying |-> {}]
  /\ hist = [lapses |-> {}, low |-> FALSE, taken |-> {}, made |-> Initial,
             notices |-> 0, handed |-> 0, connects |-> 0, faults |-> 0]

Lapse(l) == hist' = [hist EXCEPT !.lapses = @ \cup l]
Faulty == hist.faults < MaxFaults
Fault(l) == hist' = [hist EXCEPT !.faults = @ + 1, !.lapses = @ \cup l]

-----------------------------------------------------------------------------
(* Where an operation goes from here. *)

\* validateLocalKeyBundle asks.  Without a connection it throws, which is caught.
Digests(op) ==
  IF link = "up" THEN [op EXCEPT !.at = "digesting", !.stage = "digest"]
  ELSE [op EXCEPT !.at = "deciding", !.stage = "rotate"]
\* A part of the work is done.  Only the passive tasks have another.
Continue(o, op) ==
  CASE o = Passive /\ op.stage = "upload" -> Digests(op)
    [] o = Passive /\ op.stage = "digest" -> [op EXCEPT !.at = "deciding", !.stage = "rotate"]
    [] OTHER                              -> Idle
\* It threw: what comes of the digest and of the rotation is caught there.
Failed(o, op) == IF op.stage = "upload" THEN Idle ELSE Continue(o, op)

Become(o, op) == ops' = [ops EXCEPT ![o] = op]
Asks(o, at) == ops[o].at = at /\ ops[o].answer = "none"

\* setServerHasPreKeys and persistServerHasPreKeys, side by side.  Credentials
\* change in memory at once and are saved when that is a change.
SetFlags(o, value) ==
  /\ flag' = [flag EXCEPT !.chain = Append(@, [value |-> value, by |-> o])]
  /\ creds' = IF creds.mem = value THEN creds
              ELSE [creds EXCEPT !.mem = value,
                                 !.chain = Append(@, [does |-> "save", value |-> value, by |-> o])]
\* An upload begins beside another, whose flags may be raised after it.
Beside(o) ==
  {l \in {"side by side"} : \E p \in Ops \ (Receipts \cup {o}) :
     ops[p].at \in {"clearing", "reading", "getting", "generating", "uploading", "marking",
                    "flagging"}}
Setting(o) ==
  \E chain \in {flag.chain, creds.chain} : \E i \in DOMAIN chain : chain[i].by = o

-----------------------------------------------------------------------------
(* The pre-key store. *)

Smallest(n, S) == {k \in S : Cardinality({j \in S : j < k}) < n}
Wanted(o) == IF o \in Receipts THEN 1 ELSE Count
Available == keys.held \ keys.marked
Others(o) == {p \in Ops \ {o} : ops[p].at \in {"uploading", "marking"}}

\* getOrGenPreKeys returns ids to its caller, which offers them.
Obtained(o, ids, store) ==
  LET op == [ops[o] EXCEPT !.ids = ids]
      overlap == {l \in {"overlap"} : \E p \in Others(o) : ops[p].ids \cap ids # {}}
      rest == [store EXCEPT !.chain = Tail(@)]
  IN /\ IF o \in Receipts
        THEN /\ Become(o, [op EXCEPT !.at = "marking"])
             /\ keys' = [rest EXCEPT !.chain = Append(@, o)]
        ELSE /\ Become(o, IF link = "up" THEN [op EXCEPT !.at = "uploading"] ELSE Failed(o, op))
             /\ keys' = rest
     /\ Lapse(overlap \cup {l \in {"evicted"} :
                (keys.held \ store.held)
                  \cap (keys.marked \cup ids \cup UNION {ops[p].ids : p \in Others(o)}) # {}})

IsServed(o, at) == keys.chain # <<>> /\ Head(keys.chain) = o /\ ops[o].at = at

FindKeys(o) ==
  /\ IsServed(o, "getting")
  /\ IF Cardinality(Available) >= Wanted(o)
     THEN Obtained(o, Smallest(Wanted(o), Available), keys)
     ELSE /\ Become(o, [ops[o] EXCEPT !.at = "generating", !.ids = Available])
          /\ UNCHANGED <<keys, hist>>
  /\ UNCHANGED <<signed, flag, creds, link, server, peers>>

\* setBoundedMapEntry drops what went in first.
Evicted(held) == held \ Smallest(IF Cardinality(held) > MaxPreKeys
                                 THEN Cardinality(held) - MaxPreKeys ELSE 0, held)
Generate(o) ==
  /\ IsServed(o, "generating")
  /\ LET next == keys.next + Wanted(o) - Cardinality(ops[o].ids)
         new == keys.next..(next - 1)
         held == Evicted(keys.held \cup new)
     IN /\ next <= MaxId + 1
        /\ Obtained(o, ops[o].ids \cup new,
                    [keys EXCEPT !.held = held, !.marked = @ \cap held, !.next = next])
  /\ UNCHANGED <<signed, flag, creds, link, server, peers>>

Hand(id, skey) == [handed |-> [peers.handed EXCEPT ![id] = IF @ = 0 THEN 1 ELSE 2],
                   flying |-> peers.flying \cup {[id |-> id, skey |-> skey]}]

\* Faulty variant of MarkedUpTo: stops before the last key.
MarkedBelow(id) == keys.marked \cup {k \in keys.held : k < id}

\* markKeyAsUploaded, up to the last key of the batch.  Then a receipt goes out,
\* and an upload sets the flags.
MarkedUpTo(id) == keys.marked \cup {k \in keys.held : k <= id}
Mark(o) ==
  /\ IsServed(o, "marking")
  /\ keys' = [keys EXCEPT !.marked = MarkedUpTo(Max(ops[o].ids)), !.chain = Tail(@)]
  /\ IF o \in Receipts
     THEN /\ peers' = IF link = "up" THEN Hand(Max(ops[o].ids), ops[o].skey) ELSE peers
          /\ Become(o, Idle)
          /\ UNCHANGED <<flag, creds>>
     ELSE /\ SetFlags(o, TRUE)
          /\ Become(o, [ops[o] EXCEPT !.at = "flagging"])
          /\ UNCHANGED peers
  /\ UNCHANGED <<signed, link, server, hist>>

-----------------------------------------------------------------------------
(* The flags. *)

StoreFlag ==
  /\ flag.chain # <<>>
  /\ flag' = [value |-> Head(flag.chain).value, chain |-> Tail(flag.chain)]
  /\ UNCHANGED <<keys, signed, creds, ops, link, server, peers, hist>>

\* A write of a flag that fails ends the operation, whose other write goes on.
GivesUp(o) ==
  Become(o, IF ops[o].at \in {"clearing", "flagging"} THEN Failed(o, ops[o]) ELSE ops[o])
StoreFlagFails ==
  /\ Faulty
  /\ flag.chain # <<>> /\ Head(flag.chain).by # Nobody
  /\ flag' = [flag EXCEPT !.chain = Tail(@)]
  /\ GivesUp(Head(flag.chain).by)
  /\ Fault({"unsaved"})
  /\ UNCHANGED <<keys, signed, creds, link, server, peers>>

\* After the server's static key is saved, the connection is complete.
Save ==
  /\ creds.chain # <<>> /\ Head(creds.chain).does = "save"
  /\ creds' = [creds EXCEPT !.saved = Head(creds.chain).value, !.chain = Tail(@)]
  /\ IF Head(creds.chain).by = Nobody /\ link = "up" /\ ops[Passive] = Idle
     THEN Become(Passive, [Idle EXCEPT !.at = "starting", !.stage = "upload"])
     ELSE UNCHANGED ops
  /\ UNCHANGED <<keys, signed, flag, link, server, peers, hist>>
SaveFails ==
  /\ Faulty
  /\ creds.chain # <<>> /\ Head(creds.chain).by # Nobody
  /\ creds' = [creds EXCEPT !.chain = Tail(@)]
  /\ GivesUp(Head(creds.chain).by)
  /\ Fault({"unsaved"})
  /\ UNCHANGED <<keys, signed, flag, link, server, peers>>

\* With the flags down an upload follows, for which keys are taken.
FlagsSet(o) ==
  /\ ops[o].at \in {"clearing", "flagging"} /\ ~Setting(o)
  /\ IF ops[o].at = "flagging"
     THEN Become(o, Continue(o, ops[o])) /\ UNCHANGED keys
     ELSE IF ops[o].skey = None
     THEN Become(o, [ops[o] EXCEPT !.at = "reading"]) /\ UNCHANGED keys
     ELSE /\ Become(o, [ops[o] EXCEPT !.at = "getting"])
          /\ keys' = [keys EXCEPT !.chain = Append(@, o)]
  /\ UNCHANGED <<signed, flag, creds, link, server, peers, hist>>

\* resolveLocalKeyBundleFromStore
ReadBundle(o) ==
  /\ ops[o].at = "reading"
  /\ Become(o, [ops[o] EXCEPT !.at = "getting", !.skey = signed])
  /\ keys' = [keys EXCEPT !.chain = Append(@, o)]
  /\ UNCHANGED <<signed, flag, creds, link, server, peers, hist>>

-----------------------------------------------------------------------------
(* Queries.  The server takes one and answers, or the query fails first. *)

Arrived(m) == link = "up" /\ server.line # <<>> /\ Head(server.line) = m
Line(s, m) == [s EXCEPT !.line = Append(@, m)]
Handled == server' = [server EXCEPT !.line = Tail(@)]

\* What the server holds once it has taken uploads and rotations.
Takes(S) ==
  {[server EXCEPT !.stock = @ \cup UNION {ops[o].ids : o \in {p \in S : ops[p].at = "uploading"}},
                  !.skey = skey] :
     skey \in IF S = {} THEN {server.skey} ELSE {ops[o].skey : o \in S}}
Untaken == {o \in Ops : Asks(o, "uploading") \/ Asks(o, "rotating")}
\* The server has keys again, and perhaps a signed key that is not the latest.
Restocked(S) == \E o \in S : ops[o].at = "uploading"
Stale(S) ==
  {l \in {"stale upload"} : \E o \in S : ops[o].at = "uploading" /\ ops[o].skey # signed}

ServerTakes(o) ==
  /\ o \in Untaken
  /\ \E s \in Takes({o}) : server' = Line(s, o)
  /\ Become(o, [ops[o] EXCEPT !.answer = "ok"])
  /\ hist' = [hist EXCEPT !.lapses = @ \cup Stale({o}), !.low = @ /\ ~Restocked({o})]
  /\ UNCHANGED <<keys, signed, flag, creds, link, peers>>
ServerRefuses(o) ==
  /\ Faulty
  /\ ops[o].at \in Asking /\ ops[o].answer = "none"
  /\ \E answer \in {"refused"} \cup (IF ops[o].at = "rotating" THEN {"mismatch"} ELSE {}) :
       Become(o, [ops[o] EXCEPT !.answer = answer])
  /\ server' = Line(server, o)
  /\ Fault({l \in {"unconfirmed"} : ops[o].at = "rotating"})
  /\ UNCHANGED <<keys, signed, flag, creds, link, peers>>
\* The digest: the keys the server has for this client, or that it has none.
ServerLists(o) ==
  /\ Asks(o, "digesting")
  /\ Become(o, IF server.skey = None THEN [ops[o] EXCEPT !.answer = "missing"]
               ELSE [ops[o] EXCEPT !.answer = "ok", !.ids = server.stock, !.seen = server.skey])
  /\ server' = Line(server, o)
  /\ UNCHANGED <<keys, signed, flag, creds, link, peers, hist>>

UploadAnswered(o) ==
  /\ ops[o].at = "uploading" /\ Arrived(o) /\ Handled
  /\ IF ops[o].answer = "ok"
     THEN /\ Become(o, [ops[o] EXCEPT !.at = "marking", !.answer = "none"])
          /\ keys' = [keys EXCEPT !.chain = Append(@, o)]
          /\ hist' = [hist EXCEPT !.taken = @ \cup ops[o].ids]
     ELSE /\ Become(o, Continue(o, [ops[o] EXCEPT !.answer = "none", !.ids = {}]))
          /\ UNCHANGED <<keys, hist>>
  /\ UNCHANGED <<signed, flag, creds, link, peers>>

\* validateLocalKeyBundle, with the bundle read before if there is one.
DiffersFrom(op) ==
  \/ op.answer = "missing"
  \/ op.seen # (IF op.skey = None THEN signed ELSE op.skey)
  \/ ~(op.ids \subseteq keys.held)
DigestAnswered(o) ==
  /\ ops[o].at = "digesting" /\ Arrived(o) /\ Handled
  /\ LET done == [ops[o] EXCEPT !.answer = "none", !.ids = {}, !.seen = None] IN
       IF ops[o].answer # "refused" /\ DiffersFrom(ops[o])
       THEN Become(o, [done EXCEPT !.at = "clearing"]) /\ SetFlags(o, FALSE) /\ Lapse(Beside(o))
       ELSE Become(o, Continue(o, done)) /\ UNCHANGED <<flag, creds, hist>>
  /\ UNCHANGED <<keys, signed, link, peers>>

RotateAnswered(o) ==
  /\ ops[o].at = "rotating" /\ Arrived(o) /\ Handled
  /\ Become(o, IF ops[o].answer = "mismatch" /\ link = "up"
               THEN [Idle EXCEPT !.at = "digesting", !.stage = "redigest"] ELSE Idle)
  /\ UNCHANGED <<keys, signed, flag, creds, link, peers, hist>>

\* Queries fail: what was asked may have been done all the same.
Unanswered(S) ==
  {l \in {"unanswered"} : \E o \in S : ops[o].at = "uploading" /\ ops[o].answer # "refused"}
    \cup {l \in {"unconfirmed"} : \E o \in S : ops[o].at = "rotating"}
Rejected(o, op) == Failed(o, [op EXCEPT !.answer = "none", !.ids = {}, !.seen = None])

\* An answer that comes too late is not for anyone.
Without(line, o) ==
  IF Contains(line, o) THEN RemoveAt(line, CHOOSE i \in DOMAIN line : line[i] = o) ELSE line
Timeout(o) ==
  /\ Faulty
  /\ ops[o].at \in Asking
  /\ \E done \in SUBSET (Untaken \cap {o}) :
       /\ \E s \in Takes(done) :
            server' = [s EXCEPT !.line = Without(@, o)]
       /\ Become(o, Rejected(o, ops[o]))
       /\ hist' = [hist EXCEPT !.faults = @ + 1, !.low = @ /\ ~Restocked(done),
                               !.lapses = @ \cup Unanswered({o}) \cup Stale(done)]
  /\ UNCHANGED <<keys, signed, flag, creds, link, peers>>

-----------------------------------------------------------------------------
(* The tasks after a connect, notices and receipts. *)

\* The signed key and the flag, read together.
Start ==
  /\ ops[Passive].at = "starting"
  /\ LET op == [ops[Passive] EXCEPT !.skey = signed] IN
       IF flag.value
       THEN Become(Passive, Digests(op)) /\ UNCHANGED <<keys, hist>>
       ELSE /\ Become(Passive, [op EXCEPT !.at = "getting"])
            /\ keys' = [keys EXCEPT !.chain = Append(@, Passive)]
            /\ Lapse(Beside(Passive))
  /\ UNCHANGED <<signed, flag, creds, link, server, peers>>

\* Faulty variant of Rotate: only the server gets the new key.
RotateUnstored ==
  /\ ops[Passive].at = "deciding"
  /\ hist.made < MaxRotations
  /\ Become(Passive, IF link = "up" THEN [Idle EXCEPT !.at = "rotating", !.stage = "rotate",
                                                     !.skey = hist.made + 1] ELSE Idle)
  /\ hist' = [hist EXCEPT !.made = @ + 1]
  /\ UNCHANGED <<keys, signed, flag, creds, link, server, peers>>

\* rotateSignedPreKeyIfDue: the new key is stored before the server has it.
NotDue ==
  /\ ops[Passive].at = "deciding"
  /\ Become(Passive, Idle)
  /\ UNCHANGED <<keys, signed, flag, creds, link, server, peers, hist>>
Rotate ==
  /\ ops[Passive].at = "deciding"
  /\ hist.made < MaxRotations
  /\ signed' = hist.made + 1
  /\ Become(Passive, IF link = "up" THEN [Idle EXCEPT !.at = "rotating", !.stage = "rotate",
                                                     !.skey = signed'] ELSE Idle)
  /\ hist' = [hist EXCEPT !.made = @ + 1,
                          !.lapses = @ \cup {l \in {"unconfirmed"} : link # "up"}]
  /\ UNCHANGED <<keys, flag, creds, link, server, peers>>

\* Faulty variant of LowArrives: uploads without clearing the flags.
LowArrivesUnflagged(n) ==
  /\ Arrived(LowNotice) /\ Handled /\ ops[n] = Idle
  /\ Become(n, [Idle EXCEPT !.at = "reading", !.stage = "upload"])
  /\ Lapse(Beside(n))
  /\ UNCHANGED <<keys, signed, flag, creds, link, peers>>

\* handlePreKeyLowNotification and handleDigestNotification, once acked.
LowArrives(n) ==
  /\ Arrived(LowNotice) /\ Handled /\ ops[n] = Idle
  /\ Become(n, [Idle EXCEPT !.at = "clearing", !.stage = "upload"])
  /\ SetFlags(n, FALSE)
  /\ Lapse(Beside(n))
  /\ UNCHANGED <<keys, signed, link, peers>>
DigestArrives(n) ==
  /\ link = "up" /\ ops[n] = Idle /\ hist.notices < MaxNotices
  /\ Become(n, [Idle EXCEPT !.at = "digesting", !.stage = "digest"])
  /\ hist' = [hist EXCEPT !.notices = @ + 1]
  /\ UNCHANGED <<keys, signed, flag, creds, link, server, peers>>

\* buildRetryKeysSection
ReceiptBegins(r) ==
  /\ link = "up" /\ ops[r] = Idle /\ hist.handed < MaxHanded
  /\ Become(r, [Idle EXCEPT !.at = "getting", !.stage = "receipt", !.skey = signed])
  /\ keys' = [keys EXCEPT !.chain = Append(@, r)]
  /\ hist' = [hist EXCEPT !.handed = @ + 1]
  /\ UNCHANGED <<signed, flag, creds, link, server, peers>>

-----------------------------------------------------------------------------
(* The connection, and the process. *)

Connect ==
  /\ link = "down" /\ hist.connects < MaxConnects
  /\ link' = "loading"
  /\ creds' = [creds EXCEPT !.chain = Append(@, [does |-> "load", value |-> FALSE, by |-> Nobody])]
  /\ hist' = [hist EXCEPT !.connects = @ + 1]
  /\ UNCHANGED <<keys, signed, flag, ops, server, peers>>
\* restoreSignalStore puts what the credentials hold into the stores.
Load ==
  /\ creds.chain # <<>> /\ Head(creds.chain).does = "load"
  /\ creds' = [creds EXCEPT !.loaded = creds.saved, !.chain = Tail(@)]
  /\ signed' = Initial
  /\ flag' = [flag EXCEPT !.chain = Append(@, [value |-> creds.saved, by |-> Nobody])]
  /\ link' = "restoring"
  /\ Lapse({l \in {"restored"} : signed # Initial})
  /\ UNCHANGED <<keys, ops, server, peers>>
Restored ==
  /\ link = "restoring"
  /\ \A i \in DOMAIN flag.chain : flag.chain[i].by # Nobody
  /\ link' = "connecting"
  /\ creds' = [creds EXCEPT !.mem = creds.loaded, !.loaded = FALSE]
  /\ UNCHANGED <<keys, signed, flag, ops, server, peers, hist>>
\* persistServerStaticKey saves the credentials as they are in memory.
Connected ==
  /\ link = "connecting"
  /\ link' = "up"
  /\ creds' = [creds EXCEPT !.chain =
                 Append(@, [does |-> "save", value |-> creds.mem, by |-> Nobody])]
  /\ UNCHANGED <<keys, signed, flag, ops, server, peers, hist>>

\* A notice that was not acked is sent again.
OnlyNotices(line) ==
  [i \in 1..Cardinality({j \in DOMAIN line : line[j] = LowNotice}) |-> LowNotice]
LineLost(servers) == {[s EXCEPT !.line = OnlyNotices(@)] : s \in servers}
Disconnect ==
  /\ link = "up"
  /\ link' = "down"
  /\ LET asking == {o \in Ops : ops[o].at \in Asking} IN
     \E done \in SUBSET Untaken :
       /\ server' \in LineLost(Takes(done))
       /\ ops' = [o \in Ops |-> IF o \in asking THEN Rejected(o, ops[o]) ELSE ops[o]]
       /\ hist' = [hist EXCEPT !.low = @ /\ ~Restocked(done),
                               !.lapses = @ \cup Unanswered(asking) \cup Stale(done)]
  /\ UNCHANGED <<keys, signed, flag, creds, peers>>

\* Something was under way: an operation, or a save of the credentials.
Interrupts ==
  \/ \E o \in Ops : ops[o].at # "idle"
  \/ \E i \in DOMAIN creds.chain : creds.chain[i].does = "save"
Crash ==
  /\ Faulty
  /\ link' = "down"
  /\ ops' = [o \in Ops |-> Idle]
  /\ keys' = [keys EXCEPT !.chain = <<>>]
  /\ flag' \in {[value |-> v, chain |-> <<>>] :
                  v \in {flag.value} \cup {flag.chain[i].value : i \in DOMAIN flag.chain}}
  /\ \E v \in {creds.saved} \cup {creds.chain[i].value : i \in {j \in DOMAIN creds.chain :
                                                        creds.chain[j].does = "save"}} :
       creds' = [mem |-> v, saved |-> v, loaded |-> FALSE, chain |-> <<>>]
  /\ \E done \in SUBSET Untaken :
       /\ server' \in LineLost(Takes(done))
       /\ hist' = [hist EXCEPT !.faults = @ + 1, !.low = @ /\ ~Restocked(done),
                     !.lapses = @ \cup Unanswered(Ops) \cup Stale(done)
                       \cup {l \in {"interrupted"} : Interrupts}]
  /\ UNCHANGED <<signed, peers>>

-----------------------------------------------------------------------------
(* The server and the peers. *)

SendNotice ==
  /\ server.skey # None /\ Cardinality(server.stock) < Count
  /\ hist.notices < MaxNotices
  /\ server' = Line(server, LowNotice)
  /\ hist' = [hist EXCEPT !.notices = @ + 1, !.low = TRUE]
  /\ UNCHANGED <<keys, signed, flag, creds, ops, link, peers>>
Fetch ==
  /\ hist.handed < MaxHanded
  /\ hist' = [hist EXCEPT !.handed = @ + 1]
  /\ \E id \in server.stock :
       /\ server' = [server EXCEPT !.stock = @ \ {id}]
       /\ peers' = Hand(id, server.skey)
  /\ UNCHANGED <<keys, signed, flag, creds, ops, link>>
\* Faulty variant of Consumed: older keys go as well.
ConsumedUpTo(id) ==
  [keys EXCEPT !.held = {k \in @ : k > id}, !.marked = {k \in @ : k > id}]

\* A first message: both keys are needed, and the one-time key is consumed.
Consumed(id) == [keys EXCEPT !.held = @ \ {id}, !.marked = @ \ {id}]
Receive ==
  /\ link = "up"
  /\ \E m \in peers.flying :
       /\ peers' = [peers EXCEPT !.flying = @ \ {m}]
       /\ keys' = IF m.id \in keys.held /\ m.skey = signed THEN Consumed(m.id) ELSE keys
  /\ UNCHANGED <<signed, flag, creds, ops, link, server, hist>>

Next ==
  \/ \E o \in Ops : \/ FindKeys(o) \/ Generate(o) \/ Mark(o) \/ FlagsSet(o) \/ ReadBundle(o)
                    \/ ServerTakes(o) \/ ServerRefuses(o) \/ ServerLists(o)
                    \/ UploadAnswered(o) \/ DigestAnswered(o) \/ RotateAnswered(o) \/ Timeout(o)
  \/ StoreFlag \/ StoreFlagFails \/ Save \/ SaveFails
  \/ Start \/ NotDue \/ Rotate
  \/ \E n \in Notices : LowArrives(n) \/ DigestArrives(n)
  \/ \E r \in Receipts : ReceiptBegins(r)
  \/ Connect \/ Load \/ Restored \/ Connected \/ Disconnect \/ Crash
  \/ SendNotice \/ Fetch \/ Receive

Spec == Init /\ [][Next]_vars

-----------------------------------------------------------------------------
LapseNames == {"overlap", "evicted", "side by side", "unsaved", "stale upload", "unanswered",
               "unconfirmed", "restored", "interrupted"}
Writes == [value : BOOLEAN, by : Ops \cup {Nobody}]
Saves == [does : {"save", "load"}, value : BOOLEAN, by : Ops \cup {Nobody}]
Messages == [id : Ids, skey : 0..None]

KeyStores ==
  {k \in [held : SUBSET Ids, marked : SUBSET Ids, next : 1..(MaxId + 1), chain : Seq(Ops)] :
     k.held \subseteq 1..(k.next - 1) /\ k.marked \subseteq k.held}
Flags == [value : BOOLEAN, chain : Seq(Writes)]
Credentials == [mem : BOOLEAN, saved : BOOLEAN, loaded : BOOLEAN, chain : Seq(Saves)]
Servers == [stock : SUBSET Ids, skey : 0..None, line : Seq(Ops \cup {LowNotice})]
Peers == [handed : [Ids -> 0..2], flying : SUBSET Messages]
Histories ==
  [lapses : SUBSET LapseNames, low : BOOLEAN, taken : SUBSET Ids, made : 0..MaxRotations,
   notices : Nat, handed : Nat, connects : Nat, faults : Nat]

TypeOK ==
  /\ keys \in KeyStores /\ signed \in 0..MaxRotations
  /\ flag \in Flags /\ creds \in Credentials
  /\ ops \in [Ops -> OpType]
  /\ link \in {"down", "loading", "restoring", "connecting", "up"}
  /\ server \in Servers /\ peers \in Peers
  /\ hist \in Histories

Except(names) == hist.lapses \cap names # {}

\* A one-time key goes to one peer.  Except: two operations offer the keys that
\* neither has marked, or keys were offered without the client knowing.
HandedOutOnce ==
  \A id \in Ids : peers.handed[id] < 2 \/ Except({"overlap", "unanswered", "interrupted"})

\* A key that is with the server, or that a message on its way was made with, is
\* in the store.  Except as above, or the store had to make room.
HandedOutIsHeld ==
  \A id \in server.stock \cup {m.id : m \in peers.flying} :
    id \in keys.held \/ Except({"overlap", "unanswered", "interrupted", "evicted"})

\* The signed key the server hands out is the one in the store.
SignedKeyHeld ==
  \/ server.skey \in {None, signed}
  \/ ops[Passive].at = "rotating"
  \/ Except({"unconfirmed", "restored", "stale upload"})

\* The flag does not say that the server has keys when it has not: it is up
\* neither after the last low notice was handled, if the server got nothing since,
\* nor before the keys of the uploads that were confirmed are marked.
FlagIsRight ==
  flag.value =>
    /\ hist.low /\ ~Contains(server.line, LowNotice) =>
         flag.chain # <<>> \/ Except({"side by side", "interrupted", "unsaved"})
    /\ hist.taken \cap keys.held \subseteq keys.marked
         \/ Except({"side by side", "interrupted", "unsaved"})
=============================================================================
