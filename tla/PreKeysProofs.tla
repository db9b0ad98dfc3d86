----------------------------- MODULE PreKeysProofs -----------------------------
(***************************************************************************)
(* That the server hands out the signed key of the store, that a one-time  *)
(* key goes to one peer, that it is there when its message comes, and that *)
(* the flag is down whenever keys are short: for any notices and receipts, *)
(* batches, room in the store, and faults.                                 *)
(***************************************************************************)
EXTENDS PreKeys, FiniteSetTheorems, WellFoundedInduction, SequenceTheorems, TLAPS

-----------------------------------------------------------------------------
(* Numbers, and sets of keys.                                              *)

\* A set of numbers that is not empty has a least one.
LEMMA MinIs ==
  ASSUME NEW S \in SUBSET Nat, S # {}
  PROVE  Min(S) \in S /\ \A y \in S : Min(S) <= y
<1> DEFINE T == {0..x : x \in S}
           R == StrictSubsetOrdering(Nat)
<1>1. IsWellFoundedOn(R, FiniteSubsetsOf(Nat))
  BY FS_StrictSubsetOrderingWellFounded
<1>2. T \subseteq FiniteSubsetsOf(Nat) /\ T # {}
  <2>1. ASSUME NEW x \in S PROVE 0..x \in FiniteSubsetsOf(Nat)
    <3>1. IsFiniteSet(0..x)
      BY FS_Interval
    <3> QED BY <3>1 DEF FiniteSubsetsOf
  <2> QED BY <2>1
<1>3. PICK t \in T : \A u \in T : ~(<<u, t>> \in R)
  BY <1>1, <1>2, WFMin
<1>4. PICK x \in S : t = 0..x
  OBVIOUS
<1>5. ASSUME NEW y \in S PROVE x <= y
  <2>1. ~(<<0..y, 0..x>> \in R)
    BY <1>3, <1>4
  <2> SUFFICES ASSUME y < x PROVE FALSE
    OBVIOUS
  <2>2. 0..y \subseteq 0..x /\ x \in 0..x /\ x \notin 0..y
    OBVIOUS
  <2> QED BY <2>1, <2>2 DEF StrictSubsetOrdering
<1> QED BY <1>5 DEF Min

\* And a greatest one if it is bounded.
LEMMA MaxIs ==
  ASSUME NEW S \in SUBSET Nat, S # {}, NEW n \in Nat, \A y \in S : y <= n
  PROVE  Max(S) \in S /\ \A y \in S : y <= Max(S)
<1> DEFINE T == {k \in 0..n : n - k \in S}
<1>1. T \in SUBSET Nat /\ T # {}
  <2>1. PICK y \in S : TRUE
    OBVIOUS
  <2>2. n - y \in T
    BY <2>1
  <2> QED BY SMTT(20), <2>2
<1>2. Min(T) \in T /\ \A k \in T : Min(T) <= k
  BY <1>1, MinIs
<1>3. PICK x \in S : x = n - Min(T)
  BY <1>2
<1>4. \A y \in S : y <= x
  <2> TAKE y \in S
  <2>1. n - y \in T
    OBVIOUS
  <2> QED BY <1>2, <1>3, <2>1
<1> QED BY <1>3, <1>4 DEF Max

LEMMA MaxOfKeys ==
  ASSUME PreKeysAssumption, NEW ids \in SUBSET Ids, ids # {}
  PROVE  Max(ids) \in ids /\ Max(ids) \in Ids /\ \A k \in ids : k <= Max(ids)
<1>1. MaxId \in Nat /\ ids \in SUBSET Nat /\ \A k \in ids : k <= MaxId
  BY DEF PreKeysAssumption, Ids
<1> QED BY <1>1, MaxIs

\* Sets of keys are finite.
LEMMA KeysAreFinite ==
  ASSUME PreKeysAssumption, NEW S \in SUBSET Ids
  PROVE  IsFiniteSet(S) /\ Cardinality(S) \in Nat /\ (Cardinality(S) = 0 <=> S = {})
<1>1. IsFiniteSet(Ids)
  BY FS_Interval DEF PreKeysAssumption, Ids
<1>2. IsFiniteSet(S)
  BY <1>1, FS_Subset
<1> QED BY <1>2, FS_CardinalityType, FS_EmptySet

LEMMA WantedIs ==
  ASSUME PreKeysAssumption, NEW o
  PROVE  Wanted(o) \in Nat \ {0} /\ Wanted(o) <= MaxPreKeys
BY DEF PreKeysAssumption, Wanted

\* The smallest keys of a set that is not empty.
LEMMA SmallestIs ==
  ASSUME PreKeysAssumption, NEW n \in Nat \ {0}, NEW S \in SUBSET Ids, S # {}
  PROVE  Smallest(n, S) \subseteq S /\ Smallest(n, S) # {}
<1>1. S \in SUBSET Nat
  BY DEF PreKeysAssumption, Ids
<1>2. PICK m \in S : \A k \in S : m <= k
  BY <1>1, MinIs
<1>3. {j \in S : j < m} = {}
  <2>1. \A j \in S : ~(j < m)
    BY <1>1, <1>2
  <2> QED BY <2>1
<1>4. Cardinality({j \in S : j < m}) = 0
  BY <1>3, FS_EmptySet
<1>5. m \in Smallest(n, S)
  BY <1>2, <1>4 DEF Smallest
<1> QED BY <1>5 DEF Smallest

-----------------------------------------------------------------------------
(* Sequences.                                                              *)

LEMMA TailIs ==
  ASSUME NEW S, NEW q \in Seq(S), q # <<>>
  PROVE /\ Tail(q) \in Seq(S)
        /\ Head(q) \in S /\ Head(q) = q[1]
        /\ Len(q) \in Nat \ {0}
        /\ Len(Tail(q)) = Len(q) - 1
        /\ \A k \in 1..Len(Tail(q)) : Tail(q)[k] = q[k + 1]
<1>1. Len(q) \in Nat \ {0}
  OBVIOUS
<1> QED BY <1>1

LEMMA AppendIs ==
  ASSUME NEW S, NEW q \in Seq(S), NEW e \in S
  PROVE /\ Append(q, e) \in Seq(S)
        /\ Append(q, e) # <<>>
        /\ Len(q) \in Nat
        /\ Len(Append(q, e)) = Len(q) + 1
        /\ \A k \in 1..Len(q) : Append(q, e)[k] = q[k]
        /\ Append(q, e)[Len(q) + 1] = e
        /\ Head(Append(q, e)) = IF q = <<>> THEN e ELSE Head(q)
<1>1. /\ Append(q, e) \in Seq(S) /\ Append(q, e) # <<>> /\ Len(q) \in Nat
      /\ Len(Append(q, e)) = Len(q) + 1
      /\ \A k \in 1..Len(q) : Append(q, e)[k] = q[k]
      /\ Append(q, e)[Len(q) + 1] = e
  OBVIOUS
<1>2. Head(Append(q, e)) = Append(q, e)[1]
  BY <1>1
<1>3. CASE q = <<>>
  BY <1>1, <1>2, <1>3
<1>4. CASE q # <<>>
  BY <1>1, <1>2, <1>4
<1> QED BY <1>1, <1>3, <1>4

-----------------------------------------------------------------------------
(* Operations.                                                             *)

\* What an operation that offers no keys becomes.
Leaves(o, op) ==
  /\ op \in OpType /\ op.answer = "none"
  /\ op.at \in {"idle", "digesting", "deciding"} /\ (op.at # "idle" => o = Passive)

LEMMA BoundsAre ==
  ASSUME PreKeysAssumption
  PROVE  /\ None \in Nat /\ None \in 0..None /\ 0..MaxRotations \subseteq 0..None
         /\ Initial \in 0..MaxRotations /\ MaxRotations \in Nat /\ None \notin 0..MaxRotations
         /\ Ids \subseteq Nat \ {0} /\ \A k \in Ids : k <= MaxId
BY DEF PreKeysAssumption, None, Initial, Ids

LEMMA OpIs ==
  ASSUME NEW op \in OpType
  PROVE  /\ op.at \in {"idle", "starting", "reading", "getting", "generating", "marking",
                       "flagging", "clearing", "deciding", "uploading", "digesting", "rotating"}
         /\ op.stage \in {"none", "upload", "digest", "rotate", "redigest", "receipt"}
         /\ op.ids \subseteq Ids /\ op.skey \in 0..None /\ op.seen \in 0..None
         /\ op.answer \in {"none", "ok", "missing", "refused", "mismatch"}
BY DEF OpType, Asking

LEMMA IdleIs ==
  ASSUME PreKeysAssumption
  PROVE  /\ Idle \in OpType
         /\ Idle.at = "idle" /\ Idle.stage = "none" /\ Idle.ids = {} /\ Idle.answer = "none"
         /\ Idle.skey = None /\ Idle.seen = None
BY BoundsAre DEF Idle, OpType, Asking

LEMMA DigestsIs ==
  ASSUME NEW op \in OpType
  PROVE  /\ Digests(op) \in OpType
         /\ Digests(op).at \in {"digesting", "deciding"} /\ Digests(op).answer = op.answer
<1>1. CASE link = "up"
  <2>1. Digests(op) = [op EXCEPT !.at = "digesting", !.stage = "digest"]
    BY <1>1 DEF Digests
  <2> QED BY <2>1 DEF OpType, Asking
<1>2. CASE link # "up"
  <2>1. Digests(op) = [op EXCEPT !.at = "deciding", !.stage = "rotate"]
    BY <1>2 DEF Digests
  <2> QED BY <2>1 DEF OpType, Asking
<1> QED BY <1>1, <1>2

LEMMA ContinueIs ==
  ASSUME PreKeysAssumption, NEW o, NEW op \in OpType, op.answer = "none"
  PROVE  Leaves(o, Continue(o, op)) /\ Leaves(o, Failed(o, op))
<1>1. Leaves(o, Idle)
  BY IdleIs DEF Leaves
<1>2. Leaves(o, Continue(o, op))
  <2>1. CASE o # Passive
    BY <1>1, <2>1 DEF Continue
  <2>2. CASE o = Passive /\ op.stage = "upload"
    <3>1. Continue(o, op) = Digests(op)
      BY <2>2 DEF Continue
    <3> QED BY <2>2, <3>1, DigestsIs DEF Leaves
  <2>3. CASE o = Passive /\ op.stage = "digest"
    <3> DEFINE new == [op EXCEPT !.at = "deciding", !.stage = "rotate"]
    <3>1. Continue(o, op) = new
      BY <2>3 DEF Continue
    <3>2. new \in OpType /\ new.answer = "none" /\ new.at = "deciding"
      BY DEF OpType, Asking
    <3> QED BY <2>3, <3>1, <3>2 DEF Leaves
  <2>4. CASE o = Passive /\ op.stage \notin {"upload", "digest"}
    BY <1>1, <2>4 DEF Continue
  <2> QED BY <2>1, <2>2, <2>3, <2>4
<1> QED BY <1>1, <1>2 DEF Failed

LEMMA RejectedIs ==
  ASSUME PreKeysAssumption, NEW o, NEW op \in OpType
  PROVE  Leaves(o, Rejected(o, op))
<1> DEFINE bare == [op EXCEPT !.answer = "none", !.ids = {}, !.seen = None]
<1>1. bare \in OpType /\ bare.answer = "none"
  BY BoundsAre DEF OpType, Asking
<1> HIDE DEF bare
<1>2. Rejected(o, op) = Failed(o, bare)
  BY DEF Rejected, bare
<1> QED BY <1>1, <1>2, ContinueIs

\* One operation becomes another, the others stay.
Becomes(o, op) == ops'[o] = op /\ \A p \in Ops : p # o => ops'[p] = ops[p]

LEMMA BecomeIs ==
  ASSUME ops \in [Ops -> OpType], NEW o \in Ops, NEW op \in OpType, Become(o, op)
  PROVE  ops' \in [Ops -> OpType] /\ Becomes(o, op)
BY DEF Become, Becomes

-----------------------------------------------------------------------------
(* What operations may be, and who generates keys.                         *)

\* An operation of o: what it holds where it is, and whose it is.
Fits(o, op) ==
  /\ op.at = "generating" => Cardinality(op.ids) < Wanted(o)
  /\ op.at \in {"uploading", "marking"} => op.ids # {}
  /\ op.at \in {"starting", "deciding", "rotating"} => o = Passive
  /\ op.at \in {"uploading", "flagging", "clearing", "digesting"} => o \notin Receipts
  /\ op.at \notin Asking => op.answer = "none"
  /\ op.at = "rotating" => op.answer # "missing"
OpsFit == \A o \in Ops : Fits(o, ops[o])

\* Who generates keys is at the head of the lock.
AtHead(o) == keys.chain # <<>> /\ Head(keys.chain) = o
Queued == \A o \in Ops : ops[o].at = "generating" => AtHead(o)

Placed == TypeOK /\ OpsFit /\ Queued

\* What TypeOK says of the key store, the flags and the history.
LEMMA KeyStoreIs ==
  ASSUME NEW k \in KeyStores
  PROVE  /\ k.held \subseteq Ids /\ k.marked \subseteq k.held /\ k.held \subseteq 1..(k.next - 1)
         /\ k.next \in 1..(MaxId + 1) /\ k.chain \in Seq(Ops)
BY DEF KeyStores

\* The same keys, another order of the lock.
SameKeys == keys'.held = keys.held /\ keys'.marked = keys.marked /\ keys'.next = keys.next
LEMMA ChainedIs ==
  ASSUME NEW k \in KeyStores, NEW chain \in Seq(Ops)
  PROVE  LET new == [k EXCEPT !.chain = chain]
         IN /\ new \in KeyStores /\ new.chain = chain
            /\ new.held = k.held /\ new.marked = k.marked /\ new.next = k.next
BY DEF KeyStores

LEMMA QueuesUp ==
  ASSUME keys \in KeyStores, NEW o \in Ops, keys' = [keys EXCEPT !.chain = Append(@, o)]
  PROVE  keys' \in KeyStores /\ SameKeys /\ keys'.chain = Append(keys.chain, o)
<1>1. keys.chain \in Seq(Ops)
  BY KeyStoreIs
<1>2. Append(keys.chain, o) \in Seq(Ops)
  BY <1>1, AppendIs
<1>3. keys' = [keys EXCEPT !.chain = Append(keys.chain, o)]
  BY DEF KeyStores
<1> QED BY <1>2, <1>3, ChainedIs DEF SameKeys, KeyStores

\* The history has l among its lapses as well.
Notes(l) == hist' \in Histories /\ hist'.lapses = hist.lapses \cup l
Remembers == hist'.low = hist.low /\ hist'.taken = hist.taken

LEMMA LapseIs ==
  ASSUME hist \in Histories, NEW l \in SUBSET LapseNames, Lapse(l)
  PROVE  Notes(l) /\ Remembers
BY DEF Lapse, Histories, Notes, Remembers

\* The operation leaves, and offers nothing from now on.
LEMMA LeavesIs ==
  ASSUME PreKeysAssumption, NEW o, NEW op, Leaves(o, op)
  PROVE  /\ Fits(o, op) /\ op \in OpType /\ op.answer = "none"
         /\ op.at \notin {"generating", "uploading", "marking", "rotating", "starting"}
BY DEF Leaves, Fits, PreKeysAssumption

\* What a step does to who generates keys.
LEMMA StaysQueued ==
  ASSUME Queued, NEW o \in Ops, NEW op, Becomes(o, op), op.at # "generating",
         \A p \in Ops : p # o /\ AtHead(p) => AtHead(p)'
  PROVE  Queued'
BY DEF Queued, Becomes

LEMMA OneFits ==
  ASSUME OpsFit, NEW o \in Ops, NEW op, Becomes(o, op), Fits(o, op)
  PROVE  OpsFit'
<1> SUFFICES ASSUME NEW p \in Ops PROVE Fits(p, ops'[p])
  BY DEF OpsFit, Fits
<1>1. CASE p = o
  BY <1>1 DEF Becomes
<1>2. CASE p # o
  BY <1>2 DEF Becomes, OpsFit
<1> QED BY <1>1, <1>2

-----------------------------------------------------------------------------
(* Keys are taken from the store.                                          *)

\* o leaves the lock with ids, which it offers, unless it cannot.
Offered(o, ids) ==
  \/ Leaves(o, ops'[o]) /\ keys'.chain = Tail(keys.chain)
  \/ /\ ops'[o].at = (IF o \in Receipts THEN "marking" ELSE "uploading")
     /\ ops'[o].ids = ids /\ ops'[o].answer = "none"
     /\ keys'.chain = (IF o \in Receipts THEN Append(Tail(keys.chain), o) ELSE Tail(keys.chain))
Offers(o, ids, held) ==
  /\ ops' \in [Ops -> OpType] /\ keys' \in KeyStores
  /\ \A p \in Ops : p # o => ops'[p] = ops[p]
  /\ Offered(o, ids)
  /\ hist' \in Histories /\ hist.lapses \subseteq hist'.lapses /\ Remembers
  /\ "overlap" \notin hist'.lapses => \A p \in Others(o) : ops[p].ids \cap ids = {}
  /\ "evicted" \notin hist'.lapses =>
       /\ (keys.held \ held) \cap (keys.marked \cup ids) = {}
       /\ \A p \in Others(o) : (keys.held \ held) \cap ops[p].ids = {}

LEMMA OffersIs ==
  ASSUME PreKeysAssumption, TypeOK, NEW o \in Ops, ops[o].answer = "none", AtHead(o),
         NEW ids \in SUBSET Ids, NEW store \in KeyStores, store.chain = keys.chain,
         Obtained(o, ids, store)
  PROVE  /\ Offers(o, ids, store.held)
         /\ keys'.held = store.held /\ keys'.marked = store.marked /\ keys'.next = store.next
<1> DEFINE op == [ops[o] EXCEPT !.ids = ids]
           overlap == {l \in {"overlap"} : \E p \in Others(o) : ops[p].ids \cap ids # {}}
           lost == keys.held \ store.held
           theirs == UNION {ops[p].ids : p \in Others(o)}
           evicted == {l \in {"evicted"} : lost \cap ((keys.marked \cup ids) \cup theirs) # {}}
           rest == [store EXCEPT !.chain = Tail(@)]
<1>1. op \in OpType /\ op.answer = "none" /\ op.ids = ids
  BY DEF TypeOK, OpType
<1>2. /\ rest \in KeyStores /\ rest.chain = Tail(keys.chain)
      /\ rest.held = store.held /\ rest.marked = store.marked /\ rest.next = store.next
  <2>1. store.chain \in Seq(Ops) /\ store.chain # <<>>
    BY KeyStoreIs DEF AtHead
  <2>2. Tail(store.chain) \in Seq(Ops)
    BY <2>1, TailIs
  <2>3. rest = [store EXCEPT !.chain = Tail(store.chain)]
    OBVIOUS
  <2> HIDE DEF rest
  <2> QED BY ZenonT(40), <2>2, <2>3, ChainedIs
<1>3. Notes(overlap \cup evicted) /\ Remembers
  <2>1. overlap \cup evicted \in SUBSET LapseNames
    BY DEF LapseNames
  <2>2. Lapse(overlap \cup evicted)
    BY DEF Obtained
  <2> HIDE DEF overlap, evicted
  <2> QED BY <2>1, <2>2, LapseIs DEF TypeOK
<1>4. /\ "overlap" \notin hist'.lapses => \A p \in Others(o) : ops[p].ids \cap ids = {}
      /\ "evicted" \notin hist'.lapses =>
           /\ lost \cap (keys.marked \cup ids) = {}
           /\ \A p \in Others(o) : lost \cap ops[p].ids = {}
  <2>1. "overlap" \notin hist'.lapses => "overlap" \notin overlap
    BY <1>3 DEF Notes
  <2>2. "evicted" \notin hist'.lapses => "evicted" \notin evicted
    BY <1>3 DEF Notes
  <2>3. "overlap" \notin overlap => \A p \in Others(o) : ops[p].ids \cap ids = {}
    OBVIOUS
  <2>4. "evicted" \notin evicted => lost \cap ((keys.marked \cup ids) \cup theirs) = {}
    OBVIOUS
  <2> HIDE DEF overlap, evicted
  <2> QED BY <2>1, <2>2, <2>3, <2>4
<1>5. hist' \in Histories /\ hist.lapses \subseteq hist'.lapses
  BY <1>3 DEF Notes
<1>6. CASE o \in Receipts
  <2> DEFINE new == [op EXCEPT !.at = "marking"]
  <2>1. new \in OpType /\ new.at = "marking" /\ new.ids = ids /\ new.answer = "none"
    BY <1>1 DEF OpType, Asking
  <2>2. Become(o, new) /\ keys' = [rest EXCEPT !.chain = Append(@, o)]
    BY <1>6 DEF Obtained
  <2>3. Append(rest.chain, o) \in Seq(Ops)
    BY <1>2, KeyStoreIs, AppendIs
  <2>4. keys' = [rest EXCEPT !.chain = Append(rest.chain, o)]
    BY <2>2
  <2> HIDE DEF new, rest, overlap, evicted, lost, theirs, op
  <2>5. /\ keys' \in KeyStores /\ keys'.chain = Append(rest.chain, o)
        /\ keys'.held = store.held /\ keys'.marked = store.marked /\ keys'.next = store.next
    BY <1>2, <2>3, <2>4, ChainedIs
  <2>6. ops' \in [Ops -> OpType] /\ Becomes(o, new)
    BY <2>1, <2>2, BecomeIs DEF TypeOK
  <2> QED BY <1>2, <1>3, <1>4, <1>5, <1>6, <2>1, <2>5, <2>6 DEF Offers, Offered, Becomes, lost
<1>7. CASE o \notin Receipts
  <2> DEFINE new == IF link = "up" THEN [op EXCEPT !.at = "uploading"] ELSE Failed(o, op)
  <2>1. new \in OpType
    BY <1>1, ContinueIs DEF OpType, Asking, Leaves
  <2>2. \/ new.at = "uploading" /\ new.ids = ids /\ new.answer = "none"
        \/ Leaves(o, new)
    BY <1>1, ContinueIs DEF OpType
  <2>3. Become(o, new) /\ keys' = rest
    BY <1>7 DEF Obtained
  <2> HIDE DEF new, rest, overlap, evicted, lost, theirs, op
  <2>4. ops' \in [Ops -> OpType] /\ Becomes(o, new)
    BY <2>1, <2>3, BecomeIs DEF TypeOK
  <2> QED BY <1>2, <1>3, <1>4, <1>5, <1>7, <2>2, <2>3, <2>4 DEF Offers, Offered, Becomes, lost
<1> QED BY <1>6, <1>7

LEMMA OffersPlaced ==
  ASSUME PreKeysAssumption, Placed, NEW o \in Ops, AtHead(o), NEW ids, ids # {}, NEW held,
         Offers(o, ids, held), UNCHANGED <<signed, flag, creds, link, server, peers>>
  PROVE  Placed'
<1>1. TypeOK'
  BY DEF Placed, TypeOK, Offers
<1>2. Fits(o, ops'[o]) /\ ops'[o].at # "generating"
  <2>1. CASE Leaves(o, ops'[o])
    BY <2>1, LeavesIs
  <2>2. CASE ops'[o].at = (IF o \in Receipts THEN "marking" ELSE "uploading")
             /\ ops'[o].ids = ids /\ ops'[o].answer = "none"
    BY <2>2 DEF Fits
  <2> QED BY <2>1, <2>2 DEF Offers, Offered
<1>3. Becomes(o, ops'[o])
  BY DEF Offers, Becomes
<1>4. OpsFit'
  BY <1>2, <1>3, OneFits DEF Placed
<1>5. Queued'
  <2>1. \A p \in Ops : p # o => ops[p].at # "generating"
    BY DEF Placed, Queued, AtHead
  <2> QED BY <1>2, <1>3, <2>1 DEF Queued, Becomes
<1> QED BY <1>1, <1>4, <1>5 DEF Placed

\* What FindKeys does: keys that are there are offered, or o will generate more.
FindEffect(o) ==
  /\ AtHead(o) /\ ops[o].at = "getting" /\ SameKeys
  /\ UNCHANGED <<signed, flag, creds, link, server, peers>>
  /\ \/ \E ids \in SUBSET Available : ids # {} /\ Offers(o, ids, keys.held)
     \/ /\ ops'[o].at = "generating" /\ ops'[o].ids = Available
        /\ \A p \in Ops : p # o => ops'[p] = ops[p]
        /\ UNCHANGED <<keys, hist>>

LEMMA FindKeysIs ==
  ASSUME PreKeysAssumption, Placed, NEW o \in Ops, FindKeys(o)
  PROVE  Placed' /\ FindEffect(o)
<1>0. AtHead(o) /\ ops[o].at = "getting" /\ ops[o] \in OpType /\ ops[o].answer = "none"
      /\ UNCHANGED <<signed, flag, creds, link, server, peers>>
  BY DEF FindKeys, IsServed, AtHead, Placed, OpsFit, Fits, TypeOK, Asking
<1>1. Available \in SUBSET Ids /\ Available \subseteq keys.held
  BY KeyStoreIs DEF Available, Placed, TypeOK
<1>2. CASE Cardinality(Available) >= Wanted(o)
  <2> DEFINE ids == Smallest(Wanted(o), Available)
  <2>1. Available # {}
    BY <1>1, <1>2, WantedIs, KeysAreFinite
  <2>2. ids \in SUBSET Available /\ ids # {}
    BY <1>1, <2>1, WantedIs, SmallestIs
  <2>3. Obtained(o, ids, keys)
    BY <1>2 DEF FindKeys
  <2> HIDE DEF ids
  <2>4. Offers(o, ids, keys.held) /\ SameKeys
    BY <1>0, <1>1, <2>2, <2>3, OffersIs DEF Placed, TypeOK, SameKeys
  <2>5. Placed'
    BY <1>0, <2>2, <2>4, OffersPlaced
  <2> QED BY <1>0, <2>2, <2>4, <2>5 DEF FindEffect
<1>3. CASE ~(Cardinality(Available) >= Wanted(o))
  <2> DEFINE new == [ops[o] EXCEPT !.at = "generating", !.ids = Available]
  <2>1. new \in OpType /\ new.at = "generating" /\ new.ids = Available /\ new.answer = "none"
    BY <1>0, <1>1 DEF OpType, Asking
  <2>2. Become(o, new) /\ UNCHANGED <<keys, hist>>
    BY <1>3 DEF FindKeys
  <2> HIDE DEF new
  <2>3. ops' \in [Ops -> OpType] /\ Becomes(o, new)
    BY <2>1, <2>2, BecomeIs DEF Placed, TypeOK
  <2>4. Cardinality(Available) < Wanted(o)
    BY <1>1, <1>3, WantedIs, KeysAreFinite
  <2>5. OpsFit'
    <3>1. Fits(o, new)
      BY <2>1, <2>4 DEF Fits
    <3> QED BY <2>3, <3>1, OneFits DEF Placed
  <2>6. TypeOK'
    BY <1>0, <2>2, <2>3 DEF Placed, TypeOK
  <2>7. Queued'
    BY <1>0, <2>2, <2>3 DEF Placed, Queued, Becomes, AtHead
  <2> QED BY <1>0, <2>1, <2>2, <2>3, <2>5, <2>6, <2>7 DEF Placed, FindEffect, SameKeys, Becomes
<1> QED BY <1>2, <1>3

-----------------------------------------------------------------------------
(* Keys are generated.                                                     *)

LEMMA EvictedIs ==
  ASSUME NEW held
  PROVE  Evicted(held) \subseteq held
BY DEF Evicted

\* What Generate does: new keys are offered with those that were there.
GenerateEffect(o) ==
  /\ AtHead(o) /\ ops[o].at = "generating"
  /\ UNCHANGED <<signed, flag, creds, link, server, peers>>
  /\ \E m \in 1..Wanted(o) :
       LET new == keys.next..(keys.next + m - 1)
       IN /\ keys'.next = keys.next + m
          /\ keys'.held = Evicted(keys.held \cup new)
          /\ keys'.marked = keys.marked \cap keys'.held
          /\ new \subseteq Ids
          /\ Offers(o, ops[o].ids \cup new, Evicted(keys.held \cup new))

LEMMA GenerateIs ==
  ASSUME PreKeysAssumption, Placed, NEW o \in Ops, Generate(o)
  PROVE  Placed' /\ GenerateEffect(o)
<1>0. /\ AtHead(o) /\ ops[o].at = "generating" /\ ops[o] \in OpType /\ ops[o].answer = "none"
      /\ UNCHANGED <<signed, flag, creds, link, server, peers>>
      /\ Cardinality(ops[o].ids) < Wanted(o)
  BY DEF Generate, IsServed, AtHead, Placed, OpsFit, Fits, TypeOK, Asking
<1>1. /\ keys.next \in 1..(MaxId + 1) /\ MaxId \in Nat /\ keys.held \subseteq Ids
      /\ keys.held \subseteq 1..(keys.next - 1) /\ keys.marked \subseteq keys.held
      /\ keys.chain \in Seq(Ops) /\ ops[o].ids \subseteq Ids
      /\ Wanted(o) \in Nat \ {0} /\ Cardinality(ops[o].ids) \in Nat
  BY <1>0, KeyStoreIs, OpIs, WantedIs, KeysAreFinite DEF Placed, TypeOK, PreKeysAssumption
<1> DEFINE m == Wanted(o) - Cardinality(ops[o].ids)
           next == keys.next + Wanted(o) - Cardinality(ops[o].ids)
           new == keys.next..(next - 1)
           held == Evicted(keys.held \cup new)
           store == [keys EXCEPT !.held = held, !.marked = @ \cap held, !.next = next]
<1>2. m \in 1..Wanted(o) /\ next = keys.next + m /\ next \in Nat
  BY SMTT(30), <1>0, <1>1
<1>3. next <= MaxId + 1 /\ Obtained(o, ops[o].ids \cup new, store)
  BY DEF Generate
<1> HIDE DEF m, next
<1>4. new \subseteq Ids /\ new # {} /\ new \subseteq 1..(next - 1) /\ next \in 1..(MaxId + 1)
  <2>1. keys.next \in Nat \ {0} /\ next \in Nat /\ keys.next < next
    BY <1>1, <1>2
  <2>2. keys.next \in new
    BY <2>1
  <2>3. \A k \in new : k \in Nat \ {0} /\ k <= next - 1
    BY <2>1
  <2> HIDE DEF new
  <2> QED BY SMTT(30), <1>1, <1>3, <2>1, <2>2, <2>3 DEF Ids
<1>5. held \subseteq Ids /\ held \subseteq 1..(next - 1)
  <2>1. held \subseteq keys.held \cup new
    BY EvictedIs
  <2>2. keys.held \subseteq 1..(next - 1)
    BY SMTT(30), <1>1, <1>2
  <2> QED BY <1>1, <1>4, <2>1, <2>2
<1> HIDE DEF held, new
<1>6. /\ store \in KeyStores /\ store.chain = keys.chain
      /\ store.held = held /\ store.marked = keys.marked \cap held /\ store.next = next
  BY <1>1, <1>4, <1>5 DEF KeyStores, Placed, TypeOK
<1> HIDE DEF store
<1>7. /\ Offers(o, ops[o].ids \cup new, held)
      /\ keys'.held = held /\ keys'.marked = keys.marked \cap held /\ keys'.next = next
  BY <1>0, <1>1, <1>3, <1>4, <1>6, OffersIs DEF Placed
<1>8. Placed'
  BY <1>0, <1>4, <1>7, OffersPlaced
<1>9. new = keys.next..(keys.next + m - 1)
  <2>1. next - 1 = keys.next + m - 1
    BY SMTT(30), <1>1, <1>2
  <2> QED BY <2>1 DEF new
<1> QED BY <1>0, <1>2, <1>4, <1>7, <1>8, <1>9 DEF GenerateEffect, held

-----------------------------------------------------------------------------
(* Keys are marked, flags set, and what follows.                           *)

\* The flags are to be value, in the store and in the credentials.
FlagsBecome(o, value) ==
  /\ flag' \in Flags /\ creds' \in Credentials
  /\ flag'.value = flag.value /\ flag'.chain = Append(flag.chain, [value |-> value, by |-> o])
  /\ creds'.saved = creds.saved /\ creds'.loaded = creds.loaded /\ creds'.mem = value
  /\ creds'.chain = IF creds.mem = value THEN creds.chain
                    ELSE Append(creds.chain, [does |-> "save", value |-> value, by |-> o])

LEMMA FlagIs ==
  ASSUME NEW f \in Flags
  PROVE  f.value \in BOOLEAN /\ f.chain \in Seq(Writes)
BY DEF Flags

LEMMA CredsAre ==
  ASSUME NEW c \in Credentials
  PROVE  /\ c.mem \in BOOLEAN /\ c.saved \in BOOLEAN /\ c.loaded \in BOOLEAN
         /\ c.chain \in Seq(Saves)
BY DEF Credentials

LEMMA FlagPut ==
  ASSUME flag \in Flags, NEW w \in Writes, flag' = [flag EXCEPT !.chain = Append(@, w)]
  PROVE  flag' \in Flags /\ flag'.value = flag.value /\ flag'.chain = Append(flag.chain, w)
<1>1. Append(flag.chain, w) \in Seq(Writes)
  BY FlagIs, AppendIs
<1>2. flag' = [flag EXCEPT !.chain = Append(flag.chain, w)]
  OBVIOUS
<1> QED BY <1>1, <1>2 DEF Flags

LEMMA SetFlagsIs ==
  ASSUME flag \in Flags, creds \in Credentials, NEW o \in Ops, NEW value \in BOOLEAN,
         SetFlags(o, value)
  PROVE  FlagsBecome(o, value)
<1> DEFINE w == [value |-> value, by |-> o]
           save == [does |-> "save", value |-> value, by |-> o]
<1>1. w \in Writes /\ save \in Saves
  BY DEF Writes, Saves
<1>2. flag' \in Flags /\ flag'.value = flag.value /\ flag'.chain = Append(flag.chain, w)
  BY <1>1, FlagPut DEF SetFlags
<1>3. Append(creds.chain, save) \in Seq(Saves)
  BY <1>1, CredsAre, AppendIs
<1>4. creds' = IF creds.mem = value THEN creds
               ELSE [creds EXCEPT !.mem = value, !.chain = Append(creds.chain, save)]
  BY DEF SetFlags
<1> HIDE DEF w, save
<1>5. CASE creds.mem = value
  <2>1. creds' = creds
    BY <1>4, <1>5
  <2> QED BY <1>2, <1>5, <2>1 DEF FlagsBecome, w
<1>6. CASE creds.mem # value
  <2>1. creds' = [creds EXCEPT !.mem = value, !.chain = Append(creds.chain, save)]
    BY <1>4, <1>6
  <2>2. /\ creds' \in Credentials /\ creds'.saved = creds.saved /\ creds'.loaded = creds.loaded
        /\ creds'.mem = value /\ creds'.chain = Append(creds.chain, save)
    BY <1>3, <2>1 DEF Credentials
  <2> QED BY <1>2, <1>6, <2>2 DEF FlagsBecome, w, save
<1> QED BY <1>5, <1>6

\* A peer is given a key, with some signed key.
Hands(id) ==
  /\ peers' \in Peers
  /\ \A k \in Ids : peers'.handed[k] = IF k # id THEN peers.handed[k]
                                       ELSE IF peers.handed[k] = 0 THEN 1 ELSE 2
  /\ \E skey \in 0..None : peers'.flying = peers.flying \cup {[id |-> id, skey |-> skey]}

LEMMA HandIs ==
  ASSUME peers \in Peers, NEW id \in Ids, NEW skey \in 0..None, peers' = Hand(id, skey)
  PROVE  Hands(id)
<1> DEFINE n == IF peers.handed[id] = 0 THEN 1 ELSE 2
           handed == [peers.handed EXCEPT ![id] = n]
           flying == peers.flying \cup {[id |-> id, skey |-> skey]}
<1>1. n \in 0..2 /\ peers.handed \in [Ids -> 0..2] /\ peers.flying \subseteq Messages
  BY DEF Peers
<1>2. peers' = [handed |-> handed, flying |-> flying]
  BY DEF Hand
<1>3. handed \in [Ids -> 0..2]
  <2> HIDE DEF n
  <2> QED BY <1>1
<1>4. flying \subseteq Messages
  BY <1>1 DEF Messages
<1>5. \A k \in Ids : handed[k] = IF k # id THEN peers.handed[k]
                                 ELSE IF peers.handed[k] = 0 THEN 1 ELSE 2
  BY <1>1
<1>6. \E sk \in 0..None : flying = peers.flying \cup {[id |-> id, skey |-> sk]}
  OBVIOUS
<1> HIDE DEF handed, flying, n
<1> QED BY <1>2, <1>3, <1>4, <1>5, <1>6 DEF Hands, Peers

\* What Mark does: the keys up to the last of the batch are marked; a receipt
\* hands out its key, an upload raises the flags.
MarkEffect(o) ==
  /\ AtHead(o) /\ ops[o].at = "marking" /\ ops[o].ids # {} /\ ops[o].ids \subseteq Ids
  /\ UNCHANGED <<signed, link, server, hist>>
  /\ keys'.held = keys.held /\ keys'.next = keys.next
  /\ keys'.marked = MarkedUpTo(Max(ops[o].ids)) /\ keys'.chain = Tail(keys.chain)
  /\ \A p \in Ops : p # o => ops'[p] = ops[p]
  /\ \/ /\ o \in Receipts /\ ops'[o] = Idle /\ UNCHANGED <<flag, creds>>
        /\ peers' = peers \/ Hands(Max(ops[o].ids))
     \/ /\ o \notin Receipts /\ ops'[o].at = "flagging" /\ peers' = peers
        /\ FlagsBecome(o, TRUE)

LEMMA MarkIs ==
  ASSUME PreKeysAssumption, Placed, NEW o \in Ops, Mark(o)
  PROVE  Placed' /\ MarkEffect(o)
<1>0. /\ AtHead(o) /\ ops[o].at = "marking" /\ ops[o] \in OpType /\ ops[o].answer = "none"
      /\ UNCHANGED <<signed, link, server, hist>> /\ ops[o].ids # {} /\ ops[o].ids \subseteq Ids
  BY OpIs DEF Mark, IsServed, AtHead, Placed, OpsFit, Fits, TypeOK, Asking
<1> DEFINE id == Max(ops[o].ids)
<1>1. id \in Ids
  BY <1>0, MaxOfKeys
<1> HIDE DEF id
<1>2. /\ keys' \in KeyStores /\ keys'.held = keys.held /\ keys'.next = keys.next
      /\ keys'.marked = MarkedUpTo(id) /\ keys'.chain = Tail(keys.chain)
  <2>1. Tail(keys.chain) \in Seq(Ops)
    BY <1>0, KeyStoreIs, TailIs DEF Placed, TypeOK, AtHead
  <2>2. MarkedUpTo(id) \subseteq keys.held
    BY KeyStoreIs DEF MarkedUpTo, Placed, TypeOK
  <2>3. keys' = [keys EXCEPT !.marked = MarkedUpTo(id), !.chain = Tail(keys.chain)]
    BY DEF Mark, id
  <2> QED BY <2>1, <2>2, <2>3 DEF KeyStores, Placed, TypeOK
<1>3. CASE o \in Receipts
  <2>1. ops' \in [Ops -> OpType] /\ Becomes(o, Idle)
    BY <1>3, IdleIs, BecomeIs DEF Mark, Placed, TypeOK
  <2>2. UNCHANGED <<flag, creds>> /\ (peers' = peers \/ peers' = Hand(id, ops[o].skey))
    BY <1>3 DEF Mark, id
  <2>3. ops[o].skey \in 0..None
    BY <1>0, OpIs
  <2>4. peers' = peers \/ Hands(id)
    BY <1>1, <2>2, <2>3, HandIs DEF Placed, TypeOK
  <2>5. peers' \in Peers
    BY <2>4 DEF Hands, Placed, TypeOK
  <2>6. TypeOK'
    BY <1>0, <1>2, <2>1, <2>2, <2>5 DEF Placed, TypeOK
  <2>7. OpsFit'
    <3>1. Fits(o, Idle)
      BY IdleIs DEF Fits
    <3> QED BY <2>1, <3>1, OneFits DEF Placed
  <2>8. Queued'
    BY <1>0, <2>1, IdleIs DEF Placed, Queued, Becomes, AtHead
  <2> QED BY <1>0, <1>2, <1>3, <2>1, <2>2, <2>4, <2>6, <2>7, <2>8
          DEF Placed, MarkEffect, Becomes, id
<1>4. CASE o \notin Receipts
  <2> DEFINE new == [ops[o] EXCEPT !.at = "flagging"]
  <2>1. new \in OpType /\ new.at = "flagging" /\ new.answer = "none"
    BY <1>0 DEF OpType, Asking
  <2>2. SetFlags(o, TRUE) /\ Become(o, new) /\ peers' = peers
    BY <1>4 DEF Mark
  <2> HIDE DEF new
  <2>3. ops' \in [Ops -> OpType] /\ Becomes(o, new)
    BY <2>1, <2>2, BecomeIs DEF Placed, TypeOK
  <2>4. FlagsBecome(o, TRUE)
    BY <2>2, SetFlagsIs DEF Placed, TypeOK
  <2>5. TypeOK'
    BY <1>0, <1>2, <2>2, <2>3, <2>4 DEF Placed, TypeOK, FlagsBecome
  <2>6. OpsFit'
    <3>1. Fits(o, new)
      BY <1>4, <2>1 DEF Fits
    <3> QED BY <2>3, <3>1, OneFits DEF Placed
  <2>7. Queued'
    BY <1>0, <2>1, <2>3 DEF Placed, Queued, Becomes, AtHead
  <2> QED BY <1>0, <1>2, <1>4, <2>1, <2>2, <2>3, <2>4, <2>5, <2>6, <2>7
          DEF Placed, MarkEffect, Becomes, id
<1> QED BY <1>3, <1>4

-----------------------------------------------------------------------------
(* Steps that neither offer keys nor concern the server.                   *)

\* o goes from one place to another, and offers nothing before nor after.
Quiet(o) ==
  /\ SameKeys /\ peers' = peers
  /\ hist' \in Histories /\ hist.lapses \subseteq hist'.lapses
  /\ \A p \in Ops : p # o => ops'[p] = ops[p]
  /\ ops[o].at \notin {"generating", "uploading", "marking", "digesting", "rotating"}
  /\ ops[o].answer = "none" /\ ops'[o].answer = "none"
  /\ ops'[o].at \notin {"generating", "uploading", "marking"}

\* Who is at the head of the lock stays there when another queues up.
LEMMA HeadStays ==
  ASSUME keys \in KeyStores, NEW o \in Ops,
         keys'.chain = keys.chain \/ keys'.chain = Append(keys.chain, o)
  PROVE  \A p \in Ops : AtHead(p) => AtHead(p)'
BY KeyStoreIs, AppendIs DEF AtHead

LEMMA QuietPlaced ==
  ASSUME Placed, NEW o \in Ops, Quiet(o), TypeOK', Fits(o, ops'[o]),
         keys' = keys \/ keys' = [keys EXCEPT !.chain = Append(@, o)]
  PROVE  Placed'
<1>1. Becomes(o, ops'[o])
  BY DEF Quiet, Becomes
<1>2. OpsFit'
  BY <1>1, OneFits DEF Placed
<1>3. \A p \in Ops : AtHead(p) => AtHead(p)'
  BY QueuesUp, HeadStays DEF Placed, TypeOK
<1>4. Queued'
  BY <1>1, <1>3, StaysQueued DEF Quiet, Placed
<1> QED BY <1>2, <1>4 DEF Placed

LEMMA FlagsSetIs ==
  ASSUME PreKeysAssumption, Placed, NEW o \in Ops, FlagsSet(o)
  PROVE  /\ Placed' /\ Quiet(o) /\ ops[o].at \in {"clearing", "flagging"}
         /\ ops'[o].at # "rotating"
         /\ UNCHANGED <<signed, flag, creds, link, server, peers, hist>>
<1>0. /\ ops[o] \in OpType /\ ops[o].at \in {"clearing", "flagging"} /\ ops[o].answer = "none"
      /\ UNCHANGED <<signed, flag, creds, link, server, peers, hist>>
  BY DEF FlagsSet, Placed, OpsFit, Fits, TypeOK, Asking
<1>1. PICK op \in OpType :
        /\ Become(o, op) /\ Fits(o, op) /\ op.answer = "none"
        /\ op.at \notin {"generating", "uploading", "marking", "rotating"}
        /\ keys' = keys \/ keys' = [keys EXCEPT !.chain = Append(@, o)]
  <2>1. CASE ops[o].at = "flagging"
    <3>1. Become(o, Continue(o, ops[o])) /\ keys' = keys
      BY <2>1 DEF FlagsSet
    <3> QED BY <1>0, <3>1, ContinueIs, LeavesIs
  <2>2. CASE ops[o].at # "flagging" /\ ops[o].skey = None
    <3> DEFINE op == [ops[o] EXCEPT !.at = "reading"]
    <3>1. Become(o, op) /\ keys' = keys
      BY <2>2 DEF FlagsSet
    <3>2. op \in OpType /\ op.at = "reading" /\ op.answer = "none"
      BY <1>0 DEF OpType, Asking
    <3>3. Fits(o, op)
      BY <3>2 DEF Fits
    <3> HIDE DEF op
    <3> QED BY <3>1, <3>2, <3>3
  <2>3. CASE ops[o].at # "flagging" /\ ops[o].skey # None
    <3> DEFINE op == [ops[o] EXCEPT !.at = "getting"]
    <3>1. Become(o, op) /\ keys' = [keys EXCEPT !.chain = Append(@, o)]
      BY <2>3 DEF FlagsSet
    <3>2. op \in OpType /\ op.at = "getting" /\ op.answer = "none"
      BY <1>0 DEF OpType, Asking
    <3>3. Fits(o, op)
      BY <3>2 DEF Fits
    <3> HIDE DEF op
    <3> QED BY <3>1, <3>2, <3>3
  <2> QED BY <2>1, <2>2, <2>3
<1>2. ops' \in [Ops -> OpType] /\ Becomes(o, op)
  BY <1>1, BecomeIs DEF Placed, TypeOK
<1>3. keys' \in KeyStores /\ SameKeys
  BY <1>1, QueuesUp DEF Placed, TypeOK, SameKeys
<1>4. Quiet(o)
  BY <1>0, <1>1, <1>2, <1>3 DEF Quiet, Becomes, Placed, TypeOK
<1>5. TypeOK'
  BY <1>0, <1>2, <1>3 DEF Placed, TypeOK
<1>6. Placed'
  BY <1>1, <1>2, <1>4, <1>5, QuietPlaced DEF Becomes
<1> QED BY <1>0, <1>1, <1>2, <1>4, <1>6 DEF Becomes

LEMMA ReadBundleIs ==
  ASSUME PreKeysAssumption, Placed, NEW o \in Ops, ReadBundle(o)
  PROVE  /\ Placed' /\ Quiet(o) /\ ops'[o].at = "getting"
         /\ UNCHANGED <<signed, flag, creds, link, server, peers, hist>>
<1> DEFINE op == [ops[o] EXCEPT !.at = "getting", !.skey = signed]
<1>0. /\ ops[o] \in OpType /\ ops[o].at = "reading" /\ ops[o].answer = "none"
      /\ UNCHANGED <<signed, flag, creds, link, server, peers, hist>>
      /\ Become(o, op) /\ keys' = [keys EXCEPT !.chain = Append(@, o)]
      /\ signed \in 0..None
  BY BoundsAre DEF ReadBundle, Placed, OpsFit, Fits, TypeOK, Asking
<1>1. op \in OpType /\ op.at = "getting" /\ op.answer = "none"
  BY <1>0 DEF OpType, Asking
<1> HIDE DEF op
<1>2. ops' \in [Ops -> OpType] /\ Becomes(o, op)
  BY <1>0, <1>1, BecomeIs DEF Placed, TypeOK
<1>3. keys' \in KeyStores /\ SameKeys
  BY <1>0, QueuesUp DEF Placed, TypeOK
<1>4. Quiet(o)
  BY <1>0, <1>1, <1>2, <1>3 DEF Quiet, Becomes, Placed, TypeOK
<1>5. TypeOK'
  BY <1>0, <1>2, <1>3 DEF Placed, TypeOK
<1>6. Fits(o, op)
  BY <1>1 DEF Fits
<1>7. Placed'
  BY <1>0, <1>2, <1>4, <1>5, <1>6, QuietPlaced DEF Becomes
<1> QED BY <1>0, <1>1, <1>2, <1>4, <1>7 DEF Becomes

LEMMA GoesIs ==
  ASSUME PreKeysAssumption, Placed, NEW o \in Ops, NEW op \in OpType, Become(o, op), Fits(o, op),
         op.at \notin {"generating", "uploading", "marking"}, op.answer = "none",
         ops[o].at \notin {"generating", "uploading", "marking", "digesting", "rotating"},
         keys' = keys \/ keys' = [keys EXCEPT !.chain = Append(@, o)],
         peers' = peers, hist' \in Histories, hist.lapses \subseteq hist'.lapses,
         signed' \in 0..MaxRotations, flag' \in Flags, creds' \in Credentials, link' = link,
         server' \in Servers
  PROVE  Placed' /\ Quiet(o) /\ ops'[o] = op
<1>1. ops' \in [Ops -> OpType] /\ Becomes(o, op)
  BY BecomeIs DEF Placed, TypeOK
<1>2. keys' \in KeyStores /\ SameKeys
  BY QueuesUp DEF Placed, TypeOK, SameKeys
<1>3. ops[o].answer = "none"
  BY DEF Placed, OpsFit, Fits, TypeOK, OpType, Asking
<1>4. Quiet(o)
  BY <1>1, <1>2, <1>3 DEF Quiet, Becomes
<1>5. TypeOK'
  BY <1>1, <1>2 DEF Placed, TypeOK
<1> QED BY <1>1, <1>4, <1>5, QuietPlaced DEF Becomes

LEMMA PassiveIs == Passive \in Ops /\ Notices \subseteq Ops /\ Receipts \subseteq Ops
BY DEF Ops

LEMMA StartIs ==
  ASSUME PreKeysAssumption, Placed, Start
  PROVE  /\ Placed' /\ Quiet(Passive) /\ ops'[Passive].at # "rotating" /\ Remembers
         /\ UNCHANGED <<signed, flag, creds, link, server, peers>>
<1> DEFINE new == [ops[Passive] EXCEPT !.skey = signed]
<1>0. /\ ops[Passive] \in OpType /\ ops[Passive].at = "starting" /\ ops[Passive].answer = "none"
      /\ UNCHANGED <<signed, flag, creds, link, server, peers>> /\ signed \in 0..None
      /\ hist \in Histories
  BY PassiveIs, BoundsAre DEF Start, Placed, OpsFit, Fits, TypeOK, Asking
<1>1. new \in OpType /\ new.answer = "none"
  BY <1>0 DEF OpType
<1>2. PICK op \in OpType :
        /\ Become(Passive, op) /\ Fits(Passive, op) /\ op.answer = "none"
        /\ op.at \notin {"generating", "uploading", "marking", "rotating"}
        /\ keys' = keys \/ keys' = [keys EXCEPT !.chain = Append(@, Passive)]
        /\ hist' \in Histories /\ hist.lapses \subseteq hist'.lapses /\ Remembers
  <2>1. CASE flag.value
    <3>1. Become(Passive, Digests(new)) /\ keys' = keys /\ hist' = hist
      BY <2>1 DEF Start
    <3> HIDE DEF new
    <3>2. Digests(new) \in OpType /\ Digests(new).answer = "none"
          /\ Digests(new).at \in {"digesting", "deciding"}
      BY <1>1, DigestsIs
    <3>3. Fits(Passive, Digests(new))
      BY <3>2, PassiveIs, <1>0 DEF Fits, PreKeysAssumption
    <3> QED BY <1>0, <3>1, <3>2, <3>3 DEF Remembers
  <2>2. CASE ~flag.value
    <3> DEFINE op == [new EXCEPT !.at = "getting"]
    <3>1. Become(Passive, op) /\ keys' = [keys EXCEPT !.chain = Append(@, Passive)]
          /\ Lapse(Beside(Passive))
      BY <2>2 DEF Start
    <3>2. op \in OpType /\ op.at = "getting" /\ op.answer = "none"
      BY <1>1 DEF OpType, Asking
    <3> HIDE DEF op, new
    <3>3. Fits(Passive, op)
      BY <3>2 DEF Fits
    <3>4. Beside(Passive) \in SUBSET LapseNames
      BY DEF Beside, LapseNames
    <3>5. Notes(Beside(Passive)) /\ Remembers
      BY <1>0, <3>1, <3>4, LapseIs
    <3> QED BY <3>1, <3>2, <3>3, <3>5 DEF Notes
  <2> QED BY <2>1, <2>2
<1>3. Placed' /\ Quiet(Passive) /\ ops'[Passive] = op
  BY <1>0, <1>2, PassiveIs, GoesIs DEF Placed, TypeOK
<1> QED BY <1>0, <1>2, <1>3

LEMMA NotDueIs ==
  ASSUME PreKeysAssumption, Placed, NotDue
  PROVE  /\ Placed' /\ Quiet(Passive) /\ ops'[Passive].at = "idle"
         /\ UNCHANGED <<signed, flag, creds, link, server, peers, hist>>
<1>1. /\ Become(Passive, Idle) /\ UNCHANGED <<keys, signed, flag, creds, link, server, peers, hist>>
      /\ ops[Passive].at = "deciding"
  BY DEF NotDue
<1>2. Fits(Passive, Idle)
  BY IdleIs DEF Fits
<1> QED BY <1>1, <1>2, IdleIs, PassiveIs, GoesIs DEF Placed, TypeOK

\* The new signed key is in the store, and the server is asked to take it, or
\* it is noted that it will not.
RotateEffect ==
  /\ Quiet(Passive) /\ Remembers /\ UNCHANGED <<flag, creds, link, server, peers>>
  /\ ops[Passive].at = "deciding" /\ signed' \in 0..MaxRotations
  /\ \/ ops'[Passive].at = "rotating" /\ ops'[Passive].skey = signed'
     \/ ops'[Passive].at = "idle" /\ "unconfirmed" \in hist'.lapses

LEMMA RotateIs ==
  ASSUME PreKeysAssumption, Placed, Rotate
  PROVE  Placed' /\ RotateEffect
<1>0. /\ UNCHANGED <<keys, flag, creds, link, server, peers>> /\ ops[Passive].at = "deciding"
      /\ hist.made < MaxRotations /\ signed' = hist.made + 1 /\ hist \in Histories
  BY DEF Rotate, Placed, TypeOK
<1>1. signed' \in 0..MaxRotations /\ signed' \in 0..None
  BY <1>0, BoundsAre DEF Histories
<1> DEFINE made == hist.made + 1
           l == {x \in {"unconfirmed"} : link # "up"}
           lapses == hist.lapses \cup l
<1>2. /\ hist' \in Histories /\ hist.lapses \subseteq hist'.lapses /\ Remembers
      /\ link # "up" => "unconfirmed" \in hist'.lapses
  <2>1. made \in 0..MaxRotations
    BY <1>0, <1>1
  <2>2. /\ lapses \in SUBSET LapseNames /\ hist.lapses \subseteq lapses
        /\ link # "up" => "unconfirmed" \in lapses
    BY <1>0 DEF Histories, LapseNames
  <2>3. hist' = [hist EXCEPT !.made = made, !.lapses = lapses]
    BY DEF Rotate
  <2> HIDE DEF made, lapses, l
  <2>4. /\ hist'.lapses = lapses /\ hist'.low = hist.low /\ hist'.taken = hist.taken
    BY <1>0, <2>3 DEF Histories
  <2>5. hist' \in Histories
    BY <1>0, <2>1, <2>2, <2>3 DEF Histories
  <2> QED BY <2>2, <2>4, <2>5 DEF Remembers
<1> DEFINE op == IF link = "up" THEN [Idle EXCEPT !.at = "rotating", !.stage = "rotate",
                                                 !.skey = signed'] ELSE Idle
<1>3. Become(Passive, op)
  BY DEF Rotate
<1>4. /\ op \in OpType /\ op.answer = "none"
      /\ \/ link = "up" /\ op.at = "rotating" /\ op.skey = signed'
         \/ link # "up" /\ op.at = "idle"
  BY <1>1, IdleIs DEF OpType, Asking
<1> HIDE DEF op, lapses, made, l
<1>5. Fits(Passive, op)
  BY <1>4 DEF Fits, Asking
<1>6. Placed' /\ Quiet(Passive) /\ ops'[Passive] = op
  BY <1>0, <1>1, <1>2, <1>3, <1>4, <1>5, PassiveIs, GoesIs DEF Placed, TypeOK
<1> QED BY <1>0, <1>1, <1>2, <1>4, <1>6 DEF RotateEffect

\* The server's fields.
LEMMA ServerIs ==
  ASSUME NEW s \in Servers
  PROVE  s.stock \subseteq Ids /\ s.skey \in 0..None /\ s.line \in Seq(Ops \cup {LowNotice})
BY DEF Servers

LEMMA LineIs ==
  ASSUME NEW s \in Servers, NEW m \in Ops \cup {LowNotice}
  PROVE  /\ Line(s, m) \in Servers /\ Line(s, m).line = Append(s.line, m)
         /\ Line(s, m).stock = s.stock /\ Line(s, m).skey = s.skey
<1>1. Append(s.line, m) \in Seq(Ops \cup {LowNotice})
  BY ServerIs, AppendIs
<1>2. Line(s, m) = [s EXCEPT !.line = Append(s.line, m)]
  BY DEF Line
<1> QED BY <1>1, <1>2 DEF Servers

\* The first message of the line, m, is taken.
Hears(m) ==
  /\ server.line # <<>> /\ server.line[1] = m
  /\ server' \in Servers /\ server'.line = Tail(server.line)
  /\ server'.stock = server.stock /\ server'.skey = server.skey

LEMMA HearsIs ==
  ASSUME server \in Servers, NEW m, Arrived(m), Handled
  PROVE  Hears(m)
<1>1. server.line \in Seq(Ops \cup {LowNotice}) /\ server.line # <<>>
  BY ServerIs DEF Arrived
<1>2. Tail(server.line) \in Seq(Ops \cup {LowNotice}) /\ server.line[1] = Head(server.line)
  BY <1>1, TailIs
<1>3. server' = [server EXCEPT !.line = Tail(server.line)]
  BY DEF Handled
<1> QED BY <1>1, <1>2, <1>3 DEF Hears, Servers, Arrived

LEMMA LowArrivesIs ==
  ASSUME PreKeysAssumption, Placed, NEW n \in Notices, LowArrives(n)
  PROVE  /\ Placed' /\ Quiet(n) /\ Remembers /\ Hears(LowNotice)
         /\ ops[n].at = "idle" /\ ops'[n].at = "clearing"
         /\ FlagsBecome(n, FALSE) /\ Notes(Beside(n)) /\ UNCHANGED <<signed, link>>
<1> DEFINE op == [Idle EXCEPT !.at = "clearing", !.stage = "upload"]
<1>0. /\ n \in Ops /\ n \notin Receipts /\ ops[n].at = "idle"
      /\ UNCHANGED <<keys, signed, link, peers>> /\ Become(n, op) /\ SetFlags(n, FALSE)
      /\ Lapse(Beside(n)) /\ Arrived(LowNotice) /\ Handled
      /\ hist \in Histories /\ server \in Servers /\ flag \in Flags /\ creds \in Credentials
  BY PassiveIs, IdleIs DEF LowArrives, Placed, TypeOK, PreKeysAssumption
<1>1. op \in OpType /\ op.at = "clearing" /\ op.answer = "none"
  BY IdleIs DEF OpType, Asking
<1> HIDE DEF op
<1>2. Fits(n, op)
  BY <1>0, <1>1 DEF Fits
<1>3. Hears(LowNotice)
  BY <1>0, HearsIs
<1>4. FlagsBecome(n, FALSE)
  BY <1>0, SetFlagsIs
<1>5. Notes(Beside(n)) /\ Remembers
  <2>1. Beside(n) \in SUBSET LapseNames
    BY DEF Beside, LapseNames
  <2> QED BY <1>0, <2>1, LapseIs
<1>6. Placed' /\ Quiet(n) /\ ops'[n] = op
  BY <1>0, <1>1, <1>2, <1>3, <1>4, <1>5, GoesIs DEF Placed, TypeOK, Hears, FlagsBecome, Notes
<1> QED BY <1>0, <1>1, <1>3, <1>4, <1>5, <1>6

LEMMA DigestArrivesIs ==
  ASSUME PreKeysAssumption, Placed, NEW n \in Notices, DigestArrives(n)
  PROVE  /\ Placed' /\ Quiet(n) /\ Remembers /\ ops[n].at = "idle" /\ ops'[n].at = "digesting"
         /\ hist'.lapses = hist.lapses
         /\ UNCHANGED <<signed, flag, creds, link, server, peers>>
<1> DEFINE op == [Idle EXCEPT !.at = "digesting", !.stage = "digest"]
<1>0. /\ n \in Ops /\ ops[n].at = "idle" /\ Become(n, op)
      /\ UNCHANGED <<keys, signed, flag, creds, link, server, peers>>
      /\ hist \in Histories /\ hist' = [hist EXCEPT !.notices = @ + 1]
  BY PassiveIs, IdleIs DEF DigestArrives, Placed, TypeOK
<1>1. op \in OpType /\ op.at = "digesting" /\ op.answer = "none"
  BY IdleIs DEF OpType, Asking
<1> HIDE DEF op
<1>2. Fits(n, op)
  BY <1>1 DEF Fits
<1>3. hist' \in Histories /\ hist'.lapses = hist.lapses /\ Remembers
  <2> DEFINE n1 == hist.notices + 1
  <2>1. n1 \in Nat /\ hist' = [hist EXCEPT !.notices = n1]
    BY <1>0 DEF Histories
  <2> HIDE DEF n1
  <2> QED BY <1>0, <2>1 DEF Histories, Remembers
<1>4. Placed' /\ Quiet(n) /\ ops'[n] = op
  BY <1>0, <1>1, <1>2, <1>3, GoesIs DEF Placed, TypeOK
<1> QED BY <1>0, <1>1, <1>3, <1>4

LEMMA ReceiptBeginsIs ==
  ASSUME PreKeysAssumption, Placed, NEW r \in Receipts, ReceiptBegins(r)
  PROVE  /\ Placed' /\ Quiet(r) /\ Remembers /\ ops[r].at = "idle" /\ ops'[r].at = "getting"
         /\ hist'.lapses = hist.lapses
         /\ UNCHANGED <<signed, flag, creds, link, server, peers>>
<1> DEFINE op == [Idle EXCEPT !.at = "getting", !.stage = "receipt", !.skey = signed]
<1>0. /\ r \in Ops /\ ops[r].at = "idle" /\ Become(r, op)
      /\ UNCHANGED <<signed, flag, creds, link, server, peers>>
      /\ keys' = [keys EXCEPT !.chain = Append(@, r)]
      /\ hist \in Histories /\ hist' = [hist EXCEPT !.handed = @ + 1] /\ signed \in 0..None
  BY PassiveIs, IdleIs, BoundsAre DEF ReceiptBegins, Placed, TypeOK
<1>1. op \in OpType /\ op.at = "getting" /\ op.answer = "none"
  BY <1>0, IdleIs DEF OpType, Asking
<1> HIDE DEF op
<1>2. Fits(r, op)
  BY <1>1 DEF Fits
<1>3. hist' \in Histories /\ hist'.lapses = hist.lapses /\ Remembers
  <2> DEFINE n1 == hist.handed + 1
  <2>1. n1 \in Nat /\ hist' = [hist EXCEPT !.handed = n1]
    BY <1>0 DEF Histories
  <2> HIDE DEF n1
  <2> QED BY <1>0, <2>1 DEF Histories, Remembers
<1>4. Placed' /\ Quiet(r) /\ ops'[r] = op
  BY <1>0, <1>1, <1>2, <1>3, GoesIs DEF Placed, TypeOK
<1> QED BY <1>0, <1>1, <1>3, <1>4

-----------------------------------------------------------------------------
(* The line of the server.                                                 *)

\* Without(line, o) is the line, or the line less one place where o was.
Cut(line, new, o) ==
  \/ new = line /\ \A i \in 1..Len(line) : line[i] # o
  \/ \E k \in 1..Len(line) :
       /\ line[k] = o /\ Len(new) = Len(line) - 1
       /\ \A i \in 1..(Len(line) - 1) : new[i] = IF i < k THEN line[i] ELSE line[i + 1]

LEMMA WithoutIs ==
  ASSUME NEW S, NEW line \in Seq(S), NEW o
  PROVE  Without(line, o) \in Seq(S) /\ Cut(line, Without(line, o), o)
<1>1. CASE \A i \in 1..Len(line) : line[i] # o
  <2>1. ~Contains(line, o)
    BY <1>1 DEF Contains
  <2> QED BY <1>1, <2>1 DEF Without, Cut
<1>2. CASE \E i \in 1..Len(line) : line[i] = o
  <2> DEFINE k == CHOOSE i \in DOMAIN line : line[i] = o
  <2>1. k \in 1..Len(line) /\ line[k] = o
    BY <1>2
  <2>2. Without(line, o) = RemoveAt(line, k)
    BY <1>2 DEF Without, Contains
  <2> HIDE DEF k
  <2> DEFINE head == SubSeq(line, 1, k - 1)
             rest == SubSeq(line, k + 1, Len(line))
  <2>3. Without(line, o) = head \o rest
    BY <2>2 DEF RemoveAt
  <2>4. /\ head \in Seq(S) /\ Len(head) = k - 1
        /\ \A i \in 1..(k - 1) : head[i] = line[i]
    BY <2>1
  <2>5. /\ rest \in Seq(S) /\ Len(rest) = Len(line) - k
        /\ \A i \in 1..(Len(line) - k) : rest[i] = line[k + i]
    BY <2>1
  <2> HIDE DEF head, rest
  <2>6. /\ head \o rest \in Seq(S) /\ Len(head \o rest) = Len(line) - 1
        /\ \A i \in 1..(Len(line) - 1) :
             (head \o rest)[i] = IF i <= k - 1 THEN head[i] ELSE rest[i - (k - 1)]
    <3>1. Len(head) + Len(rest) = Len(line) - 1
      BY <2>1, <2>4, <2>5
    <3> QED BY <2>4, <2>5, <3>1, ConcatProperties
  <2>7. ASSUME NEW i \in 1..(Len(line) - 1)
        PROVE  (head \o rest)[i] = IF i < k THEN line[i] ELSE line[i + 1]
    <3>1. CASE i < k
      BY <2>1, <2>4, <2>6, <3>1
    <3>2. CASE ~(i < k)
      <4>1. (head \o rest)[i] = rest[i - (k - 1)]
        BY <2>1, <2>6, <3>2
      <4>2. i - (k - 1) \in 1..(Len(line) - k) /\ k + (i - (k - 1)) = i + 1
        BY <2>1, <3>2
      <4> QED BY <2>5, <3>2, <4>1, <4>2
    <3> QED BY <3>1, <3>2
  <2> QED BY <2>1, <2>3, <2>6, <2>7 DEF Cut
<1> QED BY <1>1, <1>2

LEMMA OnlyNoticesIs ==
  ASSUME NEW S, LowNotice \in S, NEW line \in Seq(S)
  PROVE  /\ OnlyNotices(line) \in Seq(S)
         /\ \A i \in 1..Len(OnlyNotices(line)) : OnlyNotices(line)[i] = LowNotice
<1> DEFINE T == {j \in DOMAIN line : line[j] = LowNotice}
           n == Cardinality(T)
<1>1. n \in Nat
  <2>1. IsFiniteSet(1..Len(line)) /\ T \subseteq 1..Len(line)
    BY FS_Interval
  <2> QED BY <2>1, FS_Subset, FS_CardinalityType
<1>2. OnlyNotices(line) = [i \in 1..n |-> LowNotice]
  BY DEF OnlyNotices
<1> HIDE DEF n
<1> QED BY <1>1, <1>2

-----------------------------------------------------------------------------
(* The server takes, refuses and lists keys.                               *)

\* What the server holds once it has taken the keys of S.
TakesIn(s, S) ==
  /\ s \in Servers /\ s.line = server.line
  /\ s.stock = server.stock \cup UNION {ops[o].ids : o \in {p \in S : ops[p].at = "uploading"}}
  /\ s.skey = server.skey \/ \E o \in S : s.skey = ops[o].skey

LEMMA TakesIs ==
  ASSUME Placed, NEW S \in SUBSET Ops, NEW s \in Takes(S)
  PROVE  TakesIn(s, S)
<1> DEFINE theirs == UNION {ops[o].ids : o \in {p \in S : ops[p].at = "uploading"}}
           stock == server.stock \cup theirs
<1>1. server \in Servers /\ \A o \in Ops : ops[o].skey \in 0..None /\ ops[o].ids \subseteq Ids
  BY OpIs DEF Placed, TypeOK
<1>2. PICK skey : /\ s = [server EXCEPT !.stock = stock, !.skey = skey]
                  /\ skey = server.skey \/ \E o \in S : skey = ops[o].skey
  BY <1>1 DEF Takes, Servers
<1>3. skey \in 0..None
  BY <1>1, <1>2, ServerIs
<1>4. stock \subseteq Ids
  BY <1>1, ServerIs
<1> HIDE DEF stock
<1>5. s \in Servers /\ s.line = server.line /\ s.stock = stock /\ s.skey = skey
  BY <1>1, <1>2, <1>3, <1>4 DEF Servers
<1> QED BY <1>2, <1>5 DEF TakesIn, stock

\* An operation is answered, and its answer is sent.
Answered(o) ==
  /\ \A p \in Ops : p # o => ops'[p] = ops[p]
  /\ ops[o].at \in Asking /\ ops[o].answer = "none" /\ ops'[o].answer # "none"
  /\ ops'[o].at = ops[o].at /\ ops'[o].skey = ops[o].skey /\ ops'[o].stage = ops[o].stage
  /\ server'.line = Append(server.line, o)
  /\ hist' \in Histories /\ hist.lapses \subseteq hist'.lapses
  /\ UNCHANGED <<keys, signed, flag, creds, link, peers>>

\* o takes its answer, and is then op.
LEMMA AnsweredPlaced ==
  ASSUME PreKeysAssumption, Placed, NEW o \in Ops, NEW op \in OpType, Become(o, op),
         ops[o].at \in Asking, ops[o].answer = "none", op.answer # "none",
         op.at = "rotating" => op.answer # "missing",
         op.at = ops[o].at, op.skey = ops[o].skey, op.stage = ops[o].stage,
         op.at = "uploading" => op.ids = ops[o].ids,
         NEW s \in Servers, s.line = server.line, server' = Line(s, o),
         hist' \in Histories, hist.lapses \subseteq hist'.lapses,
         UNCHANGED <<keys, signed, flag, creds, link, peers>>
  PROVE  Placed' /\ Answered(o) /\ ops'[o] = op /\ server'.stock = s.stock /\ server'.skey = s.skey
<1>1. ops' \in [Ops -> OpType] /\ Becomes(o, op)
  BY BecomeIs DEF Placed, TypeOK
<1>2. /\ server' \in Servers /\ server'.line = Append(server.line, o)
      /\ server'.stock = s.stock /\ server'.skey = s.skey
  BY LineIs
<1>3. Answered(o)
  BY <1>1, <1>2 DEF Answered, Becomes
<1>4. Fits(o, ops[o])
  BY DEF Placed, OpsFit
<1>5. Fits(o, op)
  BY <1>4 DEF Fits, Asking
<1>6. OpsFit'
  BY <1>1, <1>5, OneFits DEF Placed
<1>7. \A p \in Ops : AtHead(p) => AtHead(p)'
  BY DEF AtHead
<1>8. op.at # "generating"
  BY DEF Asking
<1>9. Queued'
  BY <1>1, <1>7, <1>8, StaysQueued DEF Placed
<1>10. TypeOK'
  BY <1>1, <1>2 DEF Placed, TypeOK
<1> QED BY <1>1, <1>2, <1>3, <1>6, <1>9, <1>10 DEF Placed, Becomes

\* What ServerTakes does.
TakesEffect(o) ==
  /\ Answered(o) /\ ops[o].at \in {"uploading", "rotating"} /\ ops'[o].answer = "ok"
  /\ ops'[o].ids = ops[o].ids
  /\ server'.stock = IF ops[o].at = "uploading" THEN server.stock \cup ops[o].ids ELSE server.stock
  /\ server'.skey = ops[o].skey
  /\ hist'.taken = hist.taken /\ (hist'.low <=> hist.low /\ ops[o].at # "uploading")
  /\ "stale upload" \notin hist'.lapses /\ ops[o].at = "uploading" => ops[o].skey = signed

LEMMA ServerTakesIs ==
  ASSUME PreKeysAssumption, Placed, NEW o \in Ops, ServerTakes(o)
  PROVE  Placed' /\ TakesEffect(o)
<1> DEFINE op == [ops[o] EXCEPT !.answer = "ok"]
           low == hist.low /\ ~Restocked({o})
           lapses == hist.lapses \cup Stale({o})
<1>0. /\ ops[o] \in OpType /\ ops[o].at \in {"uploading", "rotating"} /\ ops[o].answer = "none"
      /\ UNCHANGED <<keys, signed, flag, creds, link, peers>> /\ Become(o, op)
      /\ hist' = [hist EXCEPT !.lapses = lapses, !.low = low] /\ hist \in Histories
  BY DEF ServerTakes, Untaken, Asks, Placed, TypeOK
<1>1. PICK s \in Takes({o}) : server' = Line(s, o)
  BY DEF ServerTakes
<1>2. TakesIn(s, {o})
  BY TakesIs
<1>3. s.stock = IF ops[o].at = "uploading" THEN server.stock \cup ops[o].ids ELSE server.stock
  BY <1>2 DEF TakesIn
<1>4. s.skey = ops[o].skey
  <2>1. s = [server EXCEPT !.stock = @ \cup UNION {ops[q].ids : q \in {p \in {o} : ops[p].at = "uploading"}},
                           !.skey = ops[o].skey]
    BY DEF Takes
  <2>2. server \in Servers
    BY DEF Placed, TypeOK
  <2> QED BY <2>1, <2>2 DEF Servers
<1>5. /\ op \in OpType /\ op.at = ops[o].at /\ op.skey = ops[o].skey /\ op.stage = ops[o].stage
      /\ op.ids = ops[o].ids /\ op.answer = "ok"
  BY <1>0 DEF OpType
<1>6. /\ low \in BOOLEAN /\ lapses \subseteq LapseNames
      /\ low <=> hist.low /\ ops[o].at # "uploading"
      /\ "stale upload" \notin lapses /\ ops[o].at = "uploading" => ops[o].skey = signed
  BY <1>0 DEF Restocked, Stale, LapseNames, Histories
<1> HIDE DEF op, low, lapses
<1>7. /\ hist' \in Histories /\ hist'.lapses = lapses /\ hist'.low = low
      /\ hist'.taken = hist.taken
  BY <1>0, <1>6 DEF Histories
<1>8. hist.lapses \subseteq hist'.lapses
  BY <1>7 DEF lapses
<1>9. ops[o].at \in Asking
  BY <1>0 DEF Asking
<1>10. Placed' /\ Answered(o) /\ ops'[o] = op /\ server'.stock = s.stock /\ server'.skey = s.skey
  BY <1>0, <1>1, <1>2, <1>5, <1>7, <1>8, <1>9, AnsweredPlaced DEF TakesIn
<1> QED BY <1>0, <1>3, <1>4, <1>5, <1>6, <1>7, <1>10 DEF TakesEffect

LEMMA ServerRefusesIs ==
  ASSUME PreKeysAssumption, Placed, NEW o \in Ops, ServerRefuses(o)
  PROVE  /\ Placed' /\ Answered(o) /\ Remembers /\ ops'[o].answer \in {"refused", "mismatch"}
         /\ ops'[o].ids = ops[o].ids
         /\ ops'[o].answer = "mismatch" => ops[o].at = "rotating"
         /\ server'.stock = server.stock /\ server'.skey = server.skey
         /\ ops[o].at = "rotating" => "unconfirmed" \in hist'.lapses
<1>0. /\ ops[o] \in OpType /\ ops[o].at \in Asking /\ ops[o].answer = "none"
      /\ UNCHANGED <<keys, signed, flag, creds, link, peers>>
      /\ server' = Line(server, o) /\ server \in Servers /\ hist \in Histories
  BY DEF ServerRefuses, Placed, TypeOK
<1>1. PICK answer \in {"refused", "mismatch"} :
        /\ answer = "mismatch" => ops[o].at = "rotating"
        /\ Become(o, [ops[o] EXCEPT !.answer = answer])
  BY DEF ServerRefuses
<1> DEFINE op == [ops[o] EXCEPT !.answer = answer]
           faults == hist.faults + 1
           l == {x \in {"unconfirmed"} : ops[o].at = "rotating"}
           lapses == hist.lapses \cup l
<1>2. /\ op \in OpType /\ op.at = ops[o].at /\ op.skey = ops[o].skey /\ op.stage = ops[o].stage
      /\ op.ids = ops[o].ids /\ op.answer = answer
  BY <1>0 DEF OpType
<1>3. /\ faults \in Nat /\ lapses \subseteq LapseNames
      /\ ops[o].at = "rotating" => "unconfirmed" \in lapses
      /\ hist' = [hist EXCEPT !.faults = faults, !.lapses = lapses]
  <2>1. faults \in Nat /\ lapses \subseteq LapseNames
    <3>1. hist.faults \in Nat /\ hist.lapses \subseteq LapseNames
      BY <1>0 DEF Histories
    <3>2. l \subseteq LapseNames
      BY DEF LapseNames
    <3> HIDE DEF l
    <3> QED BY <3>1, <3>2
  <2>2. ops[o].at = "rotating" => "unconfirmed" \in lapses
    OBVIOUS
  <2>3. hist' = [hist EXCEPT !.faults = faults, !.lapses = lapses]
    BY <1>0 DEF ServerRefuses, Fault, Histories
  <2> QED BY <2>1, <2>2, <2>3
<1> HIDE DEF op, faults, lapses
<1>4. hist' \in Histories /\ hist'.lapses = lapses /\ Remembers
  BY <1>0, <1>3 DEF Histories, Remembers
<1>5. hist.lapses \subseteq hist'.lapses
  BY <1>4 DEF lapses
<1>6. Placed' /\ Answered(o) /\ ops'[o] = op /\ server'.stock = server.stock /\ server'.skey = server.skey
  <2>1. Become(o, op) /\ op.answer # "none" /\ op.answer # "missing"
    BY <1>1, <1>2 DEF op
  <2> QED BY <1>0, <1>2, <1>4, <1>5, <2>1, AnsweredPlaced
<1> QED BY <1>1, <1>2, <1>3, <1>4, <1>6

LEMMA ServerListsIs ==
  ASSUME PreKeysAssumption, Placed, NEW o \in Ops, ServerLists(o)
  PROVE  /\ Placed' /\ Answered(o) /\ ops[o].at = "digesting" /\ UNCHANGED hist
         /\ server'.stock = server.stock /\ server'.skey = server.skey
<1>0. /\ ops[o] \in OpType /\ ops[o].at = "digesting" /\ ops[o].answer = "none"
      /\ UNCHANGED <<keys, signed, flag, creds, link, peers, hist>>
      /\ server' = Line(server, o) /\ server \in Servers /\ hist \in Histories
  BY DEF ServerLists, Asks, Placed, TypeOK
<1>1. PICK op \in OpType :
        /\ Become(o, op) /\ op.at = "digesting" /\ op.skey = ops[o].skey
        /\ op.stage = ops[o].stage /\ op.answer # "none"
  <2>1. CASE server.skey = None
    <3> DEFINE op == [ops[o] EXCEPT !.answer = "missing"]
    <3>1. Become(o, op)
      BY <2>1 DEF ServerLists
    <3>2. /\ op \in OpType /\ op.at = "digesting" /\ op.skey = ops[o].skey
          /\ op.stage = ops[o].stage /\ op.answer # "none"
      BY <1>0 DEF OpType
    <3> QED BY <3>1, <3>2
  <2>2. CASE server.skey # None
    <3> DEFINE op == [ops[o] EXCEPT !.answer = "ok", !.ids = server.stock, !.seen = server.skey]
    <3>1. Become(o, op)
      BY <2>2 DEF ServerLists
    <3>2. server.stock \subseteq Ids /\ server.skey \in 0..None
      BY <1>0, ServerIs
    <3>3. /\ op \in OpType /\ op.at = "digesting" /\ op.skey = ops[o].skey
          /\ op.stage = ops[o].stage /\ op.answer # "none"
      BY <1>0, <3>2 DEF OpType
    <3> QED BY <3>1, <3>3
  <2> QED BY <2>1, <2>2
<1>2. /\ ops[o].at \in Asking
      /\ op.at = "rotating" => op.answer # "missing" 
      /\ op.at = "uploading" => op.ids = ops[o].ids
  BY <1>0, <1>1 DEF Asking
<1>3. Placed' /\ Answered(o) /\ server'.stock = server.stock /\ server'.skey = server.skey
  BY <1>0, <1>1, <1>2, AnsweredPlaced
<1> QED BY <1>0, <1>3

-----------------------------------------------------------------------------
(* Answers.                                                                *)

\* Who takes its answer, which was the first message of the line.
Takes1(o) ==
  /\ Hears(o) /\ ops[o].at \in Asking
  /\ \A p \in Ops : p # o => ops'[p] = ops[p]
  /\ ops'[o].answer = "none"
  /\ SameKeys /\ UNCHANGED <<signed, link, peers>>

\* o goes on to op, and may queue up for the lock.
LEMMA TakesOnPlaced ==
  ASSUME PreKeysAssumption, Placed, NEW o \in Ops, NEW op \in OpType, Become(o, op), Fits(o, op),
         op.at # "generating", op.answer = "none", ops[o].at \in Asking, Hears(o),
         keys' = keys \/ keys' = [keys EXCEPT !.chain = Append(@, o)],
         flag' \in Flags, creds' \in Credentials, hist' \in Histories,
         UNCHANGED <<signed, link, peers>>
  PROVE  Placed' /\ Takes1(o) /\ ops'[o] = op
<1>1. ops' \in [Ops -> OpType] /\ Becomes(o, op)
  BY BecomeIs DEF Placed, TypeOK
<1>2. keys' \in KeyStores /\ SameKeys
  BY QueuesUp DEF Placed, TypeOK, SameKeys
<1>3. Takes1(o)
  BY <1>1, <1>2 DEF Takes1, Becomes
<1>4. OpsFit'
  BY <1>1, OneFits DEF Placed
<1>5. \A p \in Ops : AtHead(p) => AtHead(p)'
  BY QueuesUp, HeadStays DEF Placed, TypeOK
<1>6. Queued'
  BY <1>1, <1>5, StaysQueued DEF Placed
<1>7. TypeOK'
  BY <1>1, <1>2 DEF Placed, TypeOK, Hears
<1> QED BY <1>1, <1>3, <1>4, <1>6, <1>7 DEF Placed, Becomes

\* What UploadAnswered does.
UploadEffect(o) ==
  /\ Takes1(o) /\ ops[o].at = "uploading" /\ UNCHANGED <<flag, creds>>
  /\ hist'.lapses = hist.lapses /\ hist'.low = hist.low
  /\ \/ /\ ops[o].answer = "ok" /\ ops'[o].at = "marking" /\ ops'[o].ids = ops[o].ids
        /\ hist'.taken = hist.taken \cup ops[o].ids
     \/ /\ ops[o].answer # "ok" /\ Leaves(o, ops'[o]) /\ UNCHANGED <<keys, hist>>

LEMMA UploadAnsweredIs ==
  ASSUME PreKeysAssumption, Placed, NEW o \in Ops, UploadAnswered(o)
  PROVE  Placed' /\ UploadEffect(o)
<1>0. /\ ops[o] \in OpType /\ ops[o].at = "uploading" /\ ops[o].at \in Asking
      /\ UNCHANGED <<signed, flag, creds, link, peers>> /\ Hears(o)
      /\ hist \in Histories /\ keys \in KeyStores /\ flag \in Flags /\ creds \in Credentials
      /\ ops[o].ids # {} /\ ops[o].ids \subseteq Ids
  BY HearsIs, OpIs DEF UploadAnswered, Asking, Placed, TypeOK, OpsFit, Fits
<1>1. CASE ops[o].answer = "ok"
  <2> DEFINE op == [ops[o] EXCEPT !.at = "marking", !.answer = "none"]
             taken == hist.taken \cup ops[o].ids
  <2>1. /\ op \in OpType /\ op.at = "marking" /\ op.answer = "none" /\ op.ids = ops[o].ids
    BY <1>0 DEF OpType, Asking
  <2>2. /\ Become(o, op) /\ keys' = [keys EXCEPT !.chain = Append(@, o)]
        /\ hist' = [hist EXCEPT !.taken = taken]
    BY <1>0, <1>1 DEF UploadAnswered, Histories
  <2>3. taken \subseteq Ids
    BY <1>0 DEF Histories
  <2> HIDE DEF op, taken
  <2>4. /\ hist' \in Histories /\ hist'.taken = taken
        /\ hist'.lapses = hist.lapses /\ hist'.low = hist.low
    BY <1>0, <2>2, <2>3 DEF Histories
  <2>5. Fits(o, op)
    BY <1>0, <2>1 DEF Fits
  <2>6. Placed' /\ Takes1(o) /\ ops'[o] = op
    BY <1>0, <2>1, <2>2, <2>4, <2>5, TakesOnPlaced
  <2> QED BY <1>0, <1>1, <2>1, <2>4, <2>6 DEF UploadEffect, taken
<1>2. CASE ops[o].answer # "ok"
  <2> DEFINE bare == [ops[o] EXCEPT !.answer = "none", !.ids = {}]
             op == Continue(o, bare)
  <2>1. bare \in OpType /\ bare.answer = "none"
    BY <1>0 DEF OpType
  <2>2. Become(o, op) /\ UNCHANGED <<keys, hist>>
    BY <1>2 DEF UploadAnswered
  <2> HIDE DEF bare
  <2>3. Leaves(o, op)
    BY <2>1, ContinueIs
  <2> HIDE DEF op
  <2>4. op \in OpType /\ Fits(o, op) /\ op.at # "generating" /\ op.answer = "none"
    BY <2>3, LeavesIs
  <2>5. Placed' /\ Takes1(o) /\ ops'[o] = op
    BY <1>0, <2>2, <2>4, TakesOnPlaced
  <2> QED BY <1>0, <1>2, <2>2, <2>3, <2>5 DEF UploadEffect
<1> QED BY <1>1, <1>2

\* What DigestAnswered does.
DigestEffect(o) ==
  /\ Takes1(o) /\ ops[o].at = "digesting" /\ UNCHANGED keys
  /\ \/ /\ ops'[o].at = "clearing" /\ FlagsBecome(o, FALSE) /\ Notes(Beside(o)) /\ Remembers
     \/ /\ Leaves(o, ops'[o]) /\ UNCHANGED <<flag, creds, hist>>

LEMMA DigestAnsweredIs ==
  ASSUME PreKeysAssumption, Placed, NEW o \in Ops, DigestAnswered(o)
  PROVE  Placed' /\ DigestEffect(o)
<1> DEFINE done == [ops[o] EXCEPT !.answer = "none", !.ids = {}, !.seen = None]
<1>0. /\ ops[o] \in OpType /\ ops[o].at = "digesting" /\ ops[o].at \in Asking
      /\ UNCHANGED <<keys, signed, link, peers>> /\ Hears(o)
      /\ hist \in Histories /\ keys \in KeyStores /\ flag \in Flags /\ creds \in Credentials
      /\ Fits(o, ops[o])
  BY HearsIs, OpIs DEF DigestAnswered, Asking, Placed, TypeOK, OpsFit
<1>1. done \in OpType /\ done.answer = "none"
  BY <1>0, BoundsAre DEF OpType
<1>2. \/ Become(o, [done EXCEPT !.at = "clearing"]) /\ SetFlags(o, FALSE) /\ Lapse(Beside(o))
      \/ Become(o, Continue(o, done)) /\ UNCHANGED <<flag, creds, hist>>
  BY DEF DigestAnswered
<1>3. CASE Become(o, [done EXCEPT !.at = "clearing"]) /\ SetFlags(o, FALSE) /\ Lapse(Beside(o))
  <2> DEFINE op == [done EXCEPT !.at = "clearing"]
  <2>1. op \in OpType /\ op.at = "clearing" /\ op.answer = "none"
    BY <1>1 DEF OpType, Asking
  <2>2. Become(o, op)
    BY <1>3
  <2> HIDE DEF op, done
  <2>3. FlagsBecome(o, FALSE)
    BY <1>0, <1>3, SetFlagsIs
  <2>4. Notes(Beside(o)) /\ Remembers
    <3>1. Beside(o) \in SUBSET LapseNames
      BY DEF Beside, LapseNames
    <3> QED BY <1>0, <1>3, <3>1, LapseIs
  <2>5. Fits(o, op)
    BY <1>0, <2>1 DEF Fits
  <2>6. Placed' /\ Takes1(o) /\ ops'[o] = op
    BY <1>0, <2>1, <2>2, <2>3, <2>4, <2>5, TakesOnPlaced DEF FlagsBecome, Notes
  <2> QED BY <1>0, <2>1, <2>3, <2>4, <2>6 DEF DigestEffect
<1>4. CASE Become(o, Continue(o, done)) /\ UNCHANGED <<flag, creds, hist>>
  <2> DEFINE op == Continue(o, done)
  <2> HIDE DEF done
  <2>1. Leaves(o, op)
    BY <1>1, ContinueIs
  <2>2. Become(o, op)
    BY <1>4
  <2> HIDE DEF op
  <2>3. op \in OpType /\ Fits(o, op) /\ op.at # "generating" /\ op.answer = "none"
    BY <2>1, LeavesIs
  <2>4. Placed' /\ Takes1(o) /\ ops'[o] = op
    BY <1>0, <1>4, <2>2, <2>3, TakesOnPlaced
  <2> QED BY <1>0, <1>4, <2>1, <2>4 DEF DigestEffect
<1> QED BY <1>2, <1>3, <1>4

LEMMA RotateAnsweredIs ==
  ASSUME PreKeysAssumption, Placed, NEW o \in Ops, RotateAnswered(o)
  PROVE  /\ Placed' /\ Takes1(o) /\ ops[o].at = "rotating" /\ Leaves(o, ops'[o])
         /\ UNCHANGED <<keys, flag, creds, hist>>
<1> DEFINE op == IF ops[o].answer = "mismatch" /\ link = "up"
                 THEN [Idle EXCEPT !.at = "digesting", !.stage = "redigest"] ELSE Idle
<1>0. /\ ops[o] \in OpType /\ ops[o].at = "rotating" /\ ops[o].at \in Asking
      /\ UNCHANGED <<keys, signed, flag, creds, link, peers, hist>> /\ Hears(o)
      /\ hist \in Histories /\ flag \in Flags /\ creds \in Credentials
      /\ o = Passive /\ Become(o, op)
  BY HearsIs DEF RotateAnswered, Asking, Placed, TypeOK, OpsFit, Fits
<1>1. Leaves(o, op)
  BY <1>0, IdleIs DEF Leaves, OpType, Asking
<1> HIDE DEF op
<1>2. op \in OpType /\ Fits(o, op) /\ op.at # "generating" /\ op.answer = "none"
  BY <1>1, LeavesIs
<1>3. Placed' /\ Takes1(o) /\ ops'[o] = op
  BY <1>0, <1>2, TakesOnPlaced
<1> QED BY <1>0, <1>1, <1>3

-----------------------------------------------------------------------------
(* Queries fail.                                                           *)

\* Of S, queries failed: the server may have done what they asked, and if so
\* that is noted.
Failing(S) ==
  /\ hist' \in Histories /\ hist.lapses \subseteq hist'.lapses
  /\ hist'.low => hist.low
  /\ hist'.taken = hist.taken
  /\ "unanswered" \notin hist'.lapses =>
       /\ server'.stock = server.stock
       /\ \A o \in S : ops[o].at = "uploading" => ops[o].answer = "refused"
  /\ "unconfirmed" \notin hist'.lapses => \A o \in S : ops[o].at # "rotating"
  /\ hist'.lapses \cap {"unconfirmed", "stale upload"} = {} => server'.skey \in {server.skey, signed}

LEMMA FailingIs ==
  ASSUME Placed, NEW S \in SUBSET Ops, NEW done \in SUBSET (Untaken \cap S), NEW s \in Takes(done),
         server'.stock = s.stock, server'.skey = s.skey, hist' \in Histories,
         hist'.low => hist.low, hist'.taken = hist.taken,
         hist.lapses \cup Unanswered(S) \cup Stale(done) \subseteq hist'.lapses
  PROVE  Failing(S)
<1>1. TakesIn(s, done)
  BY TakesIs DEF Untaken
<1>2. "unanswered" \notin hist'.lapses =>
        \A o \in S : ops[o].at = "uploading" => ops[o].answer = "refused"
  BY DEF Unanswered
<1>3. "unconfirmed" \notin hist'.lapses => \A o \in S : ops[o].at # "rotating"
  BY DEF Unanswered
<1>4. \A o \in done : o \in S /\ ops[o].at \in {"uploading", "rotating"} /\ ops[o].answer = "none"
  BY DEF Untaken, Asks
<1>5. "unanswered" \notin hist'.lapses => server'.stock = server.stock
  <2> SUFFICES ASSUME "unanswered" \notin hist'.lapses PROVE server'.stock = server.stock
    OBVIOUS
  <2>1. {p \in done : ops[p].at = "uploading"} = {}
    BY <1>2, <1>4
  <2> QED BY <1>1, <2>1 DEF TakesIn
<1>6. hist'.lapses \cap {"unconfirmed", "stale upload"} = {} => server'.skey \in {server.skey, signed}
  <2> SUFFICES ASSUME "unconfirmed" \notin hist'.lapses, "stale upload" \notin hist'.lapses
               PROVE  server'.skey \in {server.skey, signed}
    OBVIOUS
  <2>1. \A o \in done : ops[o].at = "uploading"
    BY <1>3, <1>4
  <2>2. \A o \in done : ops[o].skey = signed
    BY <2>1 DEF Stale
  <2> QED BY <1>1, <2>2 DEF TakesIn
<1> QED BY <1>2, <1>3, <1>5, <1>6 DEF Failing

TimeoutEffect(o) ==
  /\ ops[o].at \in Asking /\ Leaves(o, ops'[o]) /\ Failing({o})
  /\ \A p \in Ops : p # o => ops'[p] = ops[p]
  /\ Cut(server.line, server'.line, o)
  /\ UNCHANGED <<keys, signed, flag, creds, link, peers>>

LEMMA TimeoutIs ==
  ASSUME PreKeysAssumption, Placed, NEW o \in Ops, Timeout(o)
  PROVE  Placed' /\ TimeoutEffect(o)
<1> DEFINE op == Rejected(o, ops[o])
<1>0. /\ ops[o] \in OpType /\ ops[o].at \in Asking /\ hist \in Histories
      /\ UNCHANGED <<keys, signed, flag, creds, link, peers>>
      /\ Become(o, op)
  BY DEF Timeout, Placed, TypeOK
<1>1. PICK done \in SUBSET (Untaken \cap {o}) :
        /\ \E s \in Takes(done) : server' = [s EXCEPT !.line = Without(@, o)]
        /\ hist' = [hist EXCEPT !.faults = @ + 1, !.low = @ /\ ~Restocked(done),
                                !.lapses = @ \cup Unanswered({o}) \cup Stale(done)]
  BY DEF Timeout
<1>2. PICK s \in Takes(done) : server' = [s EXCEPT !.line = Without(@, o)]
  BY <1>1
<1>3. TakesIn(s, done)
  BY <1>1, TakesIs DEF Untaken
<1> DEFINE line == Without(server.line, o)
<1>4. line \in Seq(Ops \cup {LowNotice}) /\ Cut(server.line, line, o)
  BY ServerIs, WithoutIs DEF Placed, TypeOK
<1> HIDE DEF line
<1>5. /\ server' \in Servers /\ server'.line = line
      /\ server'.stock = s.stock /\ server'.skey = s.skey
  <2>1. server' = [s EXCEPT !.line = line]
    BY <1>2, <1>3 DEF TakesIn, line, Servers
  <2> QED BY <1>3, <1>4, <2>1 DEF TakesIn, Servers
<1> DEFINE faults == hist.faults + 1
           low == hist.low /\ ~Restocked(done)
           lapses == hist.lapses \cup Unanswered({o}) \cup Stale(done)
<1>6. /\ faults \in Nat /\ low \in BOOLEAN /\ lapses \subseteq LapseNames
      /\ hist' = [hist EXCEPT !.faults = faults, !.low = low, !.lapses = lapses]
  <2>1. hist.faults \in Nat /\ hist.lapses \subseteq LapseNames
    BY <1>0 DEF Histories
  <2>2. Unanswered({o}) \subseteq LapseNames /\ Stale(done) \subseteq LapseNames
    BY DEF Unanswered, Stale, LapseNames
  <2>3. hist' = [hist EXCEPT !.faults = faults, !.low = low, !.lapses = lapses]
    BY <1>1
  <2> QED BY <2>1, <2>2, <2>3
<1>7. low => hist.low
  OBVIOUS
<1>8. hist.lapses \cup Unanswered({o}) \cup Stale(done) = lapses
  OBVIOUS
<1> HIDE DEF faults, low, lapses
<1>9. /\ hist' \in Histories /\ hist'.low = low /\ hist'.taken = hist.taken
      /\ hist'.lapses = lapses
  BY <1>0, <1>6 DEF Histories
<1>10. Failing({o})
  BY <1>5, <1>7, <1>8, <1>9, FailingIs
<1>11. Leaves(o, op)
  BY <1>0, RejectedIs
<1> HIDE DEF op
<1>12. op \in OpType /\ Fits(o, op) /\ op.at # "generating"
  BY <1>11, LeavesIs
<1>13. ops' \in [Ops -> OpType] /\ Becomes(o, op)
  BY <1>0, <1>12, BecomeIs DEF Placed, TypeOK
<1>14. OpsFit'
  BY <1>12, <1>13, OneFits DEF Placed
<1>15. \A p \in Ops : AtHead(p) => AtHead(p)'
  BY <1>0 DEF AtHead
<1>16. Queued'
  BY <1>12, <1>13, <1>15, StaysQueued DEF Placed
<1>17. TypeOK'
  BY <1>0, <1>5, <1>9, <1>13 DEF Placed, TypeOK
<1> QED BY <1>0, <1>4, <1>5, <1>10, <1>11, <1>13, <1>14, <1>16, <1>17
        DEF Placed, TimeoutEffect, Becomes

\* What Disconnect does.
AskingOps == {o \in Ops : ops[o].at \in Asking}
DisconnectEffect ==
  /\ \A o \in Ops : IF ops[o].at \in Asking THEN Leaves(o, ops'[o]) ELSE ops'[o] = ops[o]
  /\ Failing(AskingOps)
  /\ \A i \in 1..Len(server'.line) : server'.line[i] = LowNotice
  /\ UNCHANGED <<keys, signed, flag, creds, peers>>

\* The server after the line was lost.
LEMMA LineLostIs ==
  ASSUME Placed, NEW done \in SUBSET Ops, server' \in LineLost(Takes(done))
  PROVE  \E s \in Takes(done) :
           /\ server' \in Servers /\ server'.stock = s.stock /\ server'.skey = s.skey
           /\ \A i \in 1..Len(server'.line) : server'.line[i] = LowNotice
<1>1. PICK s \in Takes(done) : server' = [s EXCEPT !.line = OnlyNotices(@)]
  BY DEF LineLost
<1>2. TakesIn(s, done)
  BY TakesIs
<1> DEFINE line == OnlyNotices(server.line)
<1>3. /\ line \in Seq(Ops \cup {LowNotice})
      /\ \A i \in 1..Len(line) : line[i] = LowNotice
  BY ServerIs, OnlyNoticesIs DEF Placed, TypeOK
<1> HIDE DEF line
<1>4. server' = [s EXCEPT !.line = line]
  BY <1>1, <1>2 DEF TakesIn, line, Servers
<1>5. server' \in Servers /\ server'.line = line /\ server'.stock = s.stock /\ server'.skey = s.skey
  BY <1>2, <1>3, <1>4 DEF TakesIn, Servers
<1> QED BY <1>3, <1>5

LEMMA DisconnectIs ==
  ASSUME PreKeysAssumption, Placed, Disconnect
  PROVE  Placed' /\ DisconnectEffect
<1>0. UNCHANGED <<keys, signed, flag, creds, peers>> /\ link' = "down" /\ hist \in Histories
  BY DEF Disconnect, Placed, TypeOK
<1>1. PICK done \in SUBSET Untaken :
        /\ server' \in LineLost(Takes(done))
        /\ ops' = [o \in Ops |-> IF o \in AskingOps THEN Rejected(o, ops[o]) ELSE ops[o]]
        /\ hist' = [hist EXCEPT !.low = @ /\ ~Restocked(done),
                                !.lapses = @ \cup Unanswered(AskingOps) \cup Stale(done)]
  BY DEF Disconnect, AskingOps
<1>2. done \in SUBSET Ops /\ done \in SUBSET (Untaken \cap AskingOps) /\ AskingOps \in SUBSET Ops
  BY DEF Untaken, AskingOps, Asks, Asking
<1>3. PICK s \in Takes(done) :
           /\ server' \in Servers /\ server'.stock = s.stock /\ server'.skey = s.skey
           /\ \A i \in 1..Len(server'.line) : server'.line[i] = LowNotice
  BY <1>1, <1>2, LineLostIs
<1> DEFINE low == hist.low /\ ~Restocked(done)
           lapses == hist.lapses \cup Unanswered(AskingOps) \cup Stale(done)
<1>4. /\ low \in BOOLEAN /\ lapses \subseteq LapseNames
      /\ hist' = [hist EXCEPT !.low = low, !.lapses = lapses]
  <2>1. hist.lapses \subseteq LapseNames
    BY <1>0 DEF Histories
  <2>2. Unanswered(AskingOps) \subseteq LapseNames /\ Stale(done) \subseteq LapseNames
    BY DEF Unanswered, Stale, LapseNames
  <2>3. hist' = [hist EXCEPT !.low = low, !.lapses = lapses]
    BY <1>1
  <2> QED BY <2>1, <2>2, <2>3
<1>5. low => hist.low
  OBVIOUS
<1>6. hist.lapses \cup Unanswered(AskingOps) \cup Stale(done) = lapses
  OBVIOUS
<1> HIDE DEF low, lapses
<1>7. /\ hist' \in Histories /\ hist'.low = low /\ hist'.taken = hist.taken
      /\ hist'.lapses = lapses
  BY <1>0, <1>4 DEF Histories
<1>8. Failing(AskingOps)
  BY <1>2, <1>3, <1>5, <1>6, <1>7, FailingIs
<1>9. ASSUME NEW o \in Ops
      PROVE  /\ ops'[o] \in OpType /\ Fits(o, ops'[o])
             /\ IF ops[o].at \in Asking THEN Leaves(o, ops'[o]) ELSE ops'[o] = ops[o]
  <2>1. ops[o] \in OpType /\ Fits(o, ops[o])
    BY DEF Placed, TypeOK, OpsFit
  <2>2. CASE ops[o].at \in Asking
    <3>1. ops'[o] = Rejected(o, ops[o])
      BY <1>1, <2>2 DEF AskingOps
    <3>2. Leaves(o, ops'[o])
      BY <2>1, <3>1, RejectedIs
    <3> QED BY <2>2, <3>2, LeavesIs
  <2>3. CASE ops[o].at \notin Asking
    <3>1. ops'[o] = ops[o]
      BY <1>1, <2>3 DEF AskingOps
    <3> QED BY <2>1, <2>3, <3>1
  <2> QED BY <2>2, <2>3
<1>10. ops' \in [Ops -> OpType]
  <2>1. ops' = [o \in Ops |-> ops'[o]]
    BY <1>1
  <2> QED BY <1>9, <2>1
<1>11. OpsFit'
  BY <1>9 DEF OpsFit, Fits
<1>12. Queued'
  <2> SUFFICES ASSUME NEW o \in Ops, ops'[o].at = "generating" PROVE AtHead(o)'
    BY DEF Queued
  <2>1. ops[o].at = "generating"
    BY <1>9 DEF Leaves
  <2> QED BY <1>0, <2>1 DEF Placed, Queued, AtHead
<1>13. TypeOK'
  BY <1>0, <1>3, <1>7, <1>10 DEF Placed, TypeOK
<1> QED BY <1>0, <1>3, <1>8, <1>9, <1>11, <1>12, <1>13 DEF Placed, DisconnectEffect

\* What Crash does.
CrashEffect ==
  /\ \A o \in Ops : ops'[o] = Idle
  /\ Failing(Ops) /\ SameKeys
  /\ \A i \in 1..Len(server'.line) : server'.line[i] = LowNotice
  /\ UNCHANGED <<signed, peers>>
  /\ "interrupted" \notin hist'.lapses => \A o \in Ops : ops[o].at = "idle"

LEMMA CrashIs ==
  ASSUME PreKeysAssumption, Placed, Crash
  PROVE  Placed' /\ CrashEffect
<1>0. UNCHANGED <<signed, peers>> /\ link' = "down" /\ ops' = [o \in Ops |-> Idle]
      /\ hist \in Histories
  BY DEF Crash, Placed, TypeOK
<1>1. PICK done \in SUBSET Untaken :
        /\ server' \in LineLost(Takes(done))
        /\ hist' = [hist EXCEPT !.faults = @ + 1, !.low = @ /\ ~Restocked(done),
                      !.lapses = @ \cup Unanswered(Ops) \cup Stale(done)
                        \cup {l \in {"interrupted"} : Interrupts}]
  BY DEF Crash
<1>2. done \in SUBSET Ops /\ done \in SUBSET (Untaken \cap Ops)
  BY DEF Untaken
<1>3. PICK s \in Takes(done) :
           /\ server' \in Servers /\ server'.stock = s.stock /\ server'.skey = s.skey
           /\ \A i \in 1..Len(server'.line) : server'.line[i] = LowNotice
  BY <1>1, <1>2, LineLostIs
<1> DEFINE faults == hist.faults + 1
           low == hist.low /\ ~Restocked(done)
           more == {l \in {"interrupted"} : Interrupts}
           lapses == hist.lapses \cup Unanswered(Ops) \cup Stale(done) \cup more
<1>4. /\ faults \in Nat /\ low \in BOOLEAN /\ lapses \subseteq LapseNames
      /\ hist' = [hist EXCEPT !.faults = faults, !.low = low, !.lapses = lapses]
  <2>1. hist.faults \in Nat /\ hist.lapses \subseteq LapseNames
    BY <1>0 DEF Histories
  <2>2. /\ Unanswered(Ops) \subseteq LapseNames /\ Stale(done) \subseteq LapseNames
        /\ more \subseteq LapseNames
    BY DEF Unanswered, Stale, LapseNames
  <2>3. hist' = [hist EXCEPT !.faults = faults, !.low = low, !.lapses = lapses]
    BY <1>1
  <2> QED BY <2>1, <2>2, <2>3
<1>5. low => hist.low
  OBVIOUS
<1>6. /\ hist.lapses \cup Unanswered(Ops) \cup Stale(done) \subseteq lapses
      /\ "interrupted" \notin lapses => \A o \in Ops : ops[o].at = "idle"
  BY DEF Interrupts
<1> HIDE DEF faults, low, lapses
<1>7. /\ hist' \in Histories /\ hist'.low = low /\ hist'.taken = hist.taken
      /\ hist'.lapses = lapses
  BY <1>0, <1>4 DEF Histories
<1>8. Failing(Ops)
  BY <1>2, <1>3, <1>5, <1>6, <1>7, FailingIs
<1>9. keys' \in KeyStores /\ SameKeys
  <2>1. keys' = [keys EXCEPT !.chain = <<>>] /\ <<>> \in Seq(Ops) /\ keys \in KeyStores
    BY DEF Crash, Placed, TypeOK
  <2> QED BY <2>1, ChainedIs DEF SameKeys
<1>10. flag' \in Flags
  <2>1. flag \in Flags /\ <<>> \in Seq(Writes)
    BY DEF Placed, TypeOK
  <2>2. \A i \in DOMAIN flag.chain : flag.chain[i].value \in BOOLEAN
    <3>1. flag.chain \in Seq(Writes)
      BY <2>1, FlagIs
    <3>2. \A i \in DOMAIN flag.chain : flag.chain[i] \in Writes
      BY <3>1
    <3> QED BY <3>2 DEF Writes
  <2>3. PICK v : v \in BOOLEAN /\ flag' = [value |-> v, chain |-> <<>>]
    BY <2>1, <2>2, FlagIs DEF Crash
  <2> QED BY <2>1, <2>3 DEF Flags
<1>11. creds' \in Credentials
  <2>1. creds \in Credentials /\ <<>> \in Seq(Saves)
    BY DEF Placed, TypeOK
  <2>2. \A i \in DOMAIN creds.chain : creds.chain[i].value \in BOOLEAN
    <3>1. creds.chain \in Seq(Saves)
      BY <2>1, CredsAre
    <3>2. \A i \in DOMAIN creds.chain : creds.chain[i] \in Saves
      BY <3>1
    <3> QED BY <3>2 DEF Saves
  <2>3. PICK v : /\ v \in BOOLEAN
                 /\ creds' = [mem |-> v, saved |-> v, loaded |-> FALSE, chain |-> <<>>]
    BY <2>1, <2>2, CredsAre DEF Crash
  <2> QED BY <2>1, <2>3 DEF Credentials
<1>12. ops' \in [Ops -> OpType] /\ \A o \in Ops : ops'[o] = Idle
  BY <1>0, IdleIs
<1>13. OpsFit'
  <2>1. \A o \in Ops : Fits(o, Idle)
    BY IdleIs DEF Fits
  <2> QED BY <1>12, <2>1 DEF OpsFit, Fits
<1>14. Queued'
  BY <1>12, IdleIs DEF Queued
<1>15. TypeOK'
  BY <1>0, <1>3, <1>7, <1>9, <1>10, <1>11, <1>12 DEF Placed, TypeOK
<1> QED BY <1>0, <1>3, <1>6, <1>7, <1>8, <1>9, <1>12, <1>13, <1>14, <1>15 DEF Placed, CrashEffect

-----------------------------------------------------------------------------
(* Flags and credentials are stored; the connection; the peers.            *)

\* A step that concerns no operation and no keys.
Elsewhere ==
  /\ SameKeys /\ UNCHANGED <<ops, peers>>
  /\ hist' \in Histories /\ hist.lapses \subseteq hist'.lapses
  /\ server'.stock = server.stock /\ server'.skey = server.skey

LEMMA ElsewherePlaced ==
  ASSUME Placed, UNCHANGED <<keys, ops, peers>>, hist' \in Histories,
         hist.lapses \subseteq hist'.lapses,
         server' \in Servers, server'.stock = server.stock, server'.skey = server.skey,
         signed' \in 0..MaxRotations, flag' \in Flags, creds' \in Credentials,
         link' \in {"down", "loading", "restoring", "connecting", "up"}
  PROVE  Placed' /\ Elsewhere
<1>1. OpsFit'
  BY DEF Placed, OpsFit, Fits
<1>2. Queued'
  BY DEF Placed, Queued, AtHead
<1>3. TypeOK'
  BY DEF Placed, TypeOK
<1>4. Elsewhere
  BY DEF Elsewhere, SameKeys
<1> QED BY <1>1, <1>2, <1>3, <1>4 DEF Placed

LEMMA StoreFlagIs ==
  ASSUME Placed, StoreFlag
  PROVE  /\ Placed' /\ Elsewhere /\ UNCHANGED <<signed, creds, link, server, hist>>
         /\ flag.chain # <<>> /\ flag'.value = flag.chain[1].value /\ flag'.chain = Tail(flag.chain)
<1>1. /\ flag.chain # <<>> /\ flag.chain \in Seq(Writes)
      /\ flag' = [value |-> Head(flag.chain).value, chain |-> Tail(flag.chain)]
      /\ UNCHANGED <<keys, signed, creds, ops, link, server, peers, hist>>
  BY FlagIs DEF StoreFlag, Placed, TypeOK
<1>2. /\ Tail(flag.chain) \in Seq(Writes) /\ Head(flag.chain) \in Writes
      /\ Head(flag.chain) = flag.chain[1]
  BY <1>1, TailIs
<1>3. flag' \in Flags
  BY <1>1, <1>2 DEF Flags, Writes
<1>4. Placed' /\ Elsewhere
  BY <1>1, <1>3, ElsewherePlaced DEF Placed, TypeOK
<1> QED BY <1>1, <1>2, <1>4

LEMMA SaveIs ==
  ASSUME PreKeysAssumption, Placed, Save
  PROVE  /\ Placed' /\ SameKeys
         /\ UNCHANGED <<keys, signed, flag, link, server, peers, hist>>
         /\ creds.chain # <<>> /\ creds.chain[1].does = "save"
         /\ creds'.saved = creds.chain[1].value /\ creds'.chain = Tail(creds.chain)
         /\ creds'.mem = creds.mem /\ creds'.loaded = creds.loaded
         /\ \A o \in Ops : \/ ops'[o] = ops[o]
                           \/ ops[o].at = "idle" /\ ops'[o].at = "starting"
<1>1. /\ creds.chain # <<>> /\ creds \in Credentials /\ creds.chain \in Seq(Saves)
      /\ Head(creds.chain).does = "save"
      /\ creds' = [creds EXCEPT !.saved = Head(creds.chain).value, !.chain = Tail(creds.chain)]
      /\ UNCHANGED <<keys, signed, flag, link, server, peers, hist>>
  BY CredsAre DEF Save, Placed, TypeOK
<1>2. /\ Tail(creds.chain) \in Seq(Saves) /\ Head(creds.chain) \in Saves
      /\ Head(creds.chain) = creds.chain[1]
  BY <1>1, TailIs
<1>3. Head(creds.chain).value \in BOOLEAN
  BY <1>2 DEF Saves
<1>4. /\ creds' \in Credentials
      /\ creds'.saved = creds.chain[1].value /\ creds'.chain = Tail(creds.chain)
      /\ creds'.mem = creds.mem /\ creds'.loaded = creds.loaded
  BY <1>1, <1>2, <1>3 DEF Credentials
<1>5. CASE UNCHANGED ops
  <2>1. Placed'
    BY <1>1, <1>4, <1>5, ElsewherePlaced DEF Placed, TypeOK
  <2> QED BY <1>1, <1>2, <1>4, <1>5, <2>1 DEF SameKeys
<1>6. CASE ops' # ops
  <2> DEFINE op == [Idle EXCEPT !.at = "starting", !.stage = "upload"]
  <2>1. Become(Passive, op) /\ ops[Passive].at = "idle"
    BY <1>6, IdleIs DEF Save
  <2>2. op \in OpType /\ op.at = "starting" /\ op.answer = "none"
    BY IdleIs DEF OpType, Asking
  <2> HIDE DEF op
  <2>3. Fits(Passive, op)
    BY <2>2 DEF Fits
  <2>4. Placed' /\ Quiet(Passive) /\ ops'[Passive] = op
    BY <1>1, <1>4, <2>1, <2>2, <2>3, PassiveIs, GoesIs DEF Placed, TypeOK
  <2> QED BY <1>1, <1>2, <1>4, <2>1, <2>2, <2>4 DEF Quiet
<1> QED BY <1>5, <1>6

\* A write of the flag or a save of the credentials fails.
WriteFails == StoreFlagFails \/ SaveFails

\* Who wrote gives up, and its write is not in line any more.
LEMMA WriterGivesUp ==
  ASSUME Placed, WriteFails
  PROVE  \E o \in Ops : /\ GivesUp(o) /\ flag' \in Flags /\ creds' \in Credentials
                        /\ UNCHANGED <<keys, signed, link, server, peers>>
<1>1. CASE SaveFails
  <2>1. /\ creds.chain # <<>> /\ creds \in Credentials /\ creds.chain \in Seq(Saves)
        /\ Head(creds.chain).by # Nobody /\ flag \in Flags
        /\ creds' = [creds EXCEPT !.chain = Tail(creds.chain)] /\ GivesUp(Head(creds.chain).by)
        /\ UNCHANGED <<keys, signed, flag, link, server, peers>>
    BY <1>1, CredsAre DEF SaveFails, Placed, TypeOK
  <2>2. Tail(creds.chain) \in Seq(Saves) /\ Head(creds.chain) \in Saves
    BY <2>1, TailIs
  <2>3. creds' \in Credentials
    BY <2>1, <2>2 DEF Credentials
  <2> QED BY <2>1, <2>2, <2>3 DEF Saves
<1>2. CASE StoreFlagFails
  <2>1. /\ flag.chain # <<>> /\ flag \in Flags /\ flag.chain \in Seq(Writes)
        /\ Head(flag.chain).by # Nobody /\ creds \in Credentials
        /\ flag' = [flag EXCEPT !.chain = Tail(flag.chain)] /\ GivesUp(Head(flag.chain).by)
        /\ UNCHANGED <<keys, signed, creds, link, server, peers>>
    BY <1>2, FlagIs DEF StoreFlagFails, Placed, TypeOK
  <2>2. Tail(flag.chain) \in Seq(Writes) /\ Head(flag.chain) \in Writes
    BY <2>1, TailIs
  <2>3. flag' \in Flags
    BY <2>1, <2>2 DEF Flags
  <2> QED BY <2>1, <2>2, <2>3 DEF Writes
<1> QED BY <1>1, <1>2 DEF WriteFails

LEMMA WriteFailsIs ==
  ASSUME PreKeysAssumption, Placed, WriteFails
  PROVE  /\ Placed' /\ UNCHANGED <<keys, signed, link, server, peers>>
         /\ hist' \in Histories /\ Remembers /\ hist'.lapses = hist.lapses \cup {"unsaved"}
         /\ \A o \in Ops : \/ ops'[o] = ops[o]
                           \/ ops[o].at \in {"clearing", "flagging"} /\ Leaves(o, ops'[o])
<1>1. PICK o \in Ops : /\ GivesUp(o) /\ flag' \in Flags /\ creds' \in Credentials
                       /\ UNCHANGED <<keys, signed, link, server, peers>>
  BY WriterGivesUp
<1> DEFINE op == IF ops[o].at \in {"clearing", "flagging"} THEN Failed(o, ops[o]) ELSE ops[o]
           faults == hist.faults + 1
           lapses == hist.lapses \cup {"unsaved"}
<1>2. hist' = [hist EXCEPT !.faults = faults, !.lapses = lapses]
  BY DEF WriteFails, StoreFlagFails, SaveFails, Fault
<1>3. faults \in Nat /\ lapses \subseteq LapseNames
  <2>1. hist.faults \in Nat /\ hist.lapses \subseteq LapseNames
    BY DEF Histories, Placed, TypeOK
  <2>2. {"unsaved"} \subseteq LapseNames
    BY DEF LapseNames
  <2> QED BY <2>1, <2>2
<1>4. Become(o, op)
  BY <1>1 DEF GivesUp
<1> HIDE DEF faults, lapses
<1>5. hist' \in Histories /\ Remembers /\ hist'.lapses = lapses
  BY <1>2, <1>3 DEF Histories, Remembers, Placed, TypeOK
<1>6. ops[o] \in OpType /\ Fits(o, ops[o]) /\ hist.lapses \subseteq lapses
  BY <1>1 DEF Placed, TypeOK, OpsFit, lapses
<1>7. CASE ops[o].at \in {"clearing", "flagging"}
  <2>1. Leaves(o, op)
    BY <1>6, <1>7, ContinueIs DEF Fits, Asking
  <2> HIDE DEF op
  <2>2. op \in OpType /\ Fits(o, op) /\ op.answer = "none"
        /\ op.at \notin {"generating", "uploading", "marking"}
    BY <2>1, LeavesIs
  <2>3. Placed' /\ Quiet(o) /\ ops'[o] = op
    BY <1>1, <1>4, <1>5, <1>6, <1>7, <2>2, GoesIs DEF Placed, TypeOK
  <2> QED BY <1>1, <1>5, <1>7, <2>1, <2>3 DEF Quiet, lapses
<1>8. CASE ops[o].at \notin {"clearing", "flagging"}
  <2>1. ops' = ops
    BY <1>1, <1>4, <1>8 DEF Become, Placed, TypeOK
  <2>2. Placed'
    BY <1>1, <1>5, <1>6, <2>1, ElsewherePlaced DEF Placed, TypeOK
  <2> QED BY <1>1, <1>5, <2>1, <2>2 DEF lapses
<1> QED BY <1>7, <1>8

LEMMA CredsPut ==
  ASSUME creds \in Credentials, NEW w \in Saves, creds' = [creds EXCEPT !.chain = Append(@, w)]
  PROVE  /\ creds' \in Credentials /\ creds'.chain = Append(creds.chain, w)
         /\ creds'.mem = creds.mem /\ creds'.saved = creds.saved /\ creds'.loaded = creds.loaded
<1>1. Append(creds.chain, w) \in Seq(Saves)
  BY CredsAre, AppendIs
<1>2. creds' = [creds EXCEPT !.chain = Append(creds.chain, w)]
  OBVIOUS
<1> QED BY <1>1, <1>2 DEF Credentials

LEMMA ConnectIs ==
  ASSUME Placed, Connect
  PROVE  /\ Placed' /\ Elsewhere /\ UNCHANGED <<signed, flag, server>> /\ Remembers
         /\ hist'.lapses = hist.lapses /\ link = "down" /\ link' = "loading"
<1> DEFINE w == [does |-> "load", value |-> FALSE, by |-> Nobody]
           n == hist.connects + 1
<1>1. /\ UNCHANGED <<keys, signed, flag, ops, server, peers>> /\ link = "down" /\ link' = "loading"
      /\ creds' = [creds EXCEPT !.chain = Append(@, w)] /\ hist \in Histories
      /\ hist' = [hist EXCEPT !.connects = n]
  BY DEF Connect, Placed, TypeOK
<1>2. w \in Saves
  BY DEF Saves
<1>3. n \in Nat
  BY <1>1 DEF Histories
<1> HIDE DEF w, n
<1>4. hist' \in Histories /\ hist'.lapses = hist.lapses /\ Remembers
  BY <1>1, <1>3 DEF Histories, Remembers
<1>5. creds' \in Credentials
  BY <1>1, <1>2, CredsPut DEF Placed, TypeOK
<1>6. Placed' /\ Elsewhere
  BY <1>1, <1>4, <1>5, ElsewherePlaced DEF Placed, TypeOK
<1> QED BY <1>1, <1>4, <1>6

LEMMA LoadIs ==
  ASSUME PreKeysAssumption, Placed, Load
  PROVE  /\ Placed' /\ Elsewhere /\ UNCHANGED server /\ Remembers
         /\ signed' = Initial
         /\ "restored" \notin hist'.lapses => signed = Initial
         /\ creds.chain # <<>> /\ creds.chain[1].does = "load"
         /\ creds'.chain = Tail(creds.chain) /\ creds'.loaded = creds.saved
         /\ creds'.mem = creds.mem /\ creds'.saved = creds.saved
<1> DEFINE l == {x \in {"restored"} : signed # Initial}
           w == [value |-> creds.saved, by |-> Nobody]
<1>1. /\ creds.chain # <<>> /\ creds \in Credentials /\ creds.chain \in Seq(Saves)
      /\ Head(creds.chain).does = "load" /\ signed' = Initial /\ link' = "restoring"
      /\ creds' = [creds EXCEPT !.loaded = creds.saved, !.chain = Tail(creds.chain)]
      /\ flag' = [flag EXCEPT !.chain = Append(@, w)] /\ Lapse(l)
      /\ UNCHANGED <<keys, ops, server, peers>>
  BY CredsAre DEF Load, Placed, TypeOK
<1>2. /\ Tail(creds.chain) \in Seq(Saves) /\ Head(creds.chain) = creds.chain[1]
  BY <1>1, TailIs
<1>3. /\ creds' \in Credentials
      /\ creds'.chain = Tail(creds.chain) /\ creds'.loaded = creds.saved
      /\ creds'.mem = creds.mem /\ creds'.saved = creds.saved
  BY <1>1, <1>2 DEF Credentials
<1>4. w \in Writes
  BY <1>1, CredsAre DEF Writes
<1>5. l \in SUBSET LapseNames
  BY DEF LapseNames
<1>6. "restored" \notin l => signed = Initial
  OBVIOUS
<1> HIDE DEF l, w
<1>7. flag' \in Flags
  BY <1>1, <1>4, FlagPut DEF Placed, TypeOK
<1>8. Notes(l) /\ Remembers
  BY <1>1, <1>5, LapseIs DEF Placed, TypeOK
<1>9. Placed' /\ Elsewhere
  BY <1>1, <1>3, <1>7, <1>8, BoundsAre, ElsewherePlaced DEF Placed, TypeOK, Notes
<1> QED BY <1>1, <1>2, <1>3, <1>6, <1>8, <1>9 DEF Notes

LEMMA RestoredIs ==
  ASSUME Placed, Restored
  PROVE  Placed' /\ Elsewhere /\ UNCHANGED <<signed, flag, server, hist>>
<1>1. /\ UNCHANGED <<keys, signed, flag, ops, server, peers, hist>> /\ link' = "connecting"
      /\ creds' = [creds EXCEPT !.mem = creds.loaded, !.loaded = FALSE]
      /\ creds \in Credentials
  BY DEF Restored, Placed, TypeOK
<1>2. creds' \in Credentials
  BY <1>1 DEF Credentials
<1> QED BY <1>1, <1>2, ElsewherePlaced DEF Placed, TypeOK

LEMMA ConnectedIs ==
  ASSUME Placed, Connected
  PROVE  Placed' /\ Elsewhere /\ UNCHANGED <<signed, flag, server, hist>>
<1> DEFINE w == [does |-> "save", value |-> creds.mem, by |-> Nobody]
<1>1. /\ UNCHANGED <<keys, signed, flag, ops, server, peers, hist>> /\ link' = "up"
      /\ creds' = [creds EXCEPT !.chain = Append(@, w)] /\ creds \in Credentials
  BY DEF Connected, Placed, TypeOK
<1>2. w \in Saves
  BY <1>1, CredsAre DEF Saves
<1> HIDE DEF w
<1>3. creds' \in Credentials
  BY <1>1, <1>2, CredsPut
<1> QED BY <1>1, <1>3, ElsewherePlaced DEF Placed, TypeOK

LEMMA SendNoticeIs ==
  ASSUME Placed, SendNotice
  PROVE  /\ Placed' /\ Elsewhere /\ UNCHANGED <<signed, flag, creds, link>>
         /\ server'.line = Append(server.line, LowNotice)
         /\ hist'.lapses = hist.lapses /\ hist'.taken = hist.taken
<1> DEFINE n == hist.notices + 1
<1>1. /\ UNCHANGED <<keys, signed, flag, creds, ops, link, peers>>
      /\ server' = Line(server, LowNotice) /\ server \in Servers /\ hist \in Histories
      /\ hist' = [hist EXCEPT !.notices = n, !.low = TRUE]
  BY DEF SendNotice, Placed, TypeOK
<1>2. n \in Nat
  BY <1>1 DEF Histories
<1> HIDE DEF n
<1>3. hist' \in Histories /\ hist'.lapses = hist.lapses /\ hist'.taken = hist.taken
  BY <1>1, <1>2 DEF Histories
<1>4. /\ server' \in Servers /\ server'.line = Append(server.line, LowNotice)
      /\ server'.stock = server.stock /\ server'.skey = server.skey
  BY <1>1, LineIs
<1>5. Placed' /\ Elsewhere
  BY <1>1, <1>3, <1>4, ElsewherePlaced DEF Placed, TypeOK
<1> QED BY <1>1, <1>3, <1>4, <1>5

\* What Fetch does.
FetchEffect ==
  /\ UNCHANGED <<keys, signed, flag, creds, ops, link>>
  /\ hist' \in Histories /\ hist'.lapses = hist.lapses /\ Remembers
  /\ \E id \in server.stock :
       /\ id \in Ids /\ server'.stock = server.stock \ {id} /\ Hands(id)
  /\ server'.skey = server.skey /\ server'.line = server.line

LEMMA FetchIs ==
  ASSUME Placed, Fetch
  PROVE  Placed' /\ FetchEffect
<1> DEFINE n == hist.handed + 1
<1>1. /\ UNCHANGED <<keys, signed, flag, creds, ops, link>>
      /\ server \in Servers /\ hist \in Histories /\ hist' = [hist EXCEPT !.handed = n]
  BY DEF Fetch, Placed, TypeOK
<1>2. n \in Nat
  BY <1>1 DEF Histories
<1> HIDE DEF n
<1>3. hist' \in Histories /\ hist'.lapses = hist.lapses /\ Remembers
  BY <1>1, <1>2 DEF Histories, Remembers
<1>4. PICK id \in server.stock :
        /\ server' = [server EXCEPT !.stock = server.stock \ {id}]
        /\ peers' = Hand(id, server.skey)
  BY DEF Fetch
<1>5. id \in Ids /\ server.skey \in 0..None /\ server.stock \subseteq Ids
  BY <1>1, ServerIs
<1>6. /\ server' \in Servers /\ server'.stock = server.stock \ {id}
      /\ server'.skey = server.skey /\ server'.line = server.line
  BY <1>1, <1>4, <1>5 DEF Servers
<1>7. Hands(id)
  BY <1>4, <1>5, HandIs DEF Placed, TypeOK
<1>8. OpsFit' /\ Queued'
  BY <1>1 DEF Placed, OpsFit, Fits, Queued, AtHead
<1>9. TypeOK'
  BY <1>1, <1>3, <1>6, <1>7 DEF Placed, TypeOK, Hands
<1> QED BY <1>1, <1>3, <1>4, <1>5, <1>6, <1>7, <1>8, <1>9 DEF FetchEffect, Placed

\* What Receive does.
ReceiveEffect ==
  /\ UNCHANGED <<signed, flag, creds, ops, link, server, hist>>
  /\ \E m \in peers.flying :
       /\ peers'.flying = peers.flying \ {m} /\ peers'.handed = peers.handed
       /\ \/ UNCHANGED keys
          \/ /\ keys'.held = keys.held \ {m.id} /\ keys'.marked = keys.marked \ {m.id}
             /\ keys'.next = keys.next /\ keys'.chain = keys.chain

LEMMA ReceiveIs ==
  ASSUME Placed, Receive
  PROVE  Placed' /\ ReceiveEffect
<1>1. /\ UNCHANGED <<signed, flag, creds, ops, link, server, hist>>
      /\ peers \in Peers /\ keys \in KeyStores
  BY DEF Receive, Placed, TypeOK
<1>2. PICK m \in peers.flying :
        /\ peers' = [peers EXCEPT !.flying = peers.flying \ {m}]
        /\ keys' = keys \/ keys' = Consumed(m.id)
  BY DEF Receive
<1>3. /\ peers' \in Peers /\ peers'.flying = peers.flying \ {m}
      /\ peers'.handed = peers.handed
  BY <1>1, <1>2 DEF Peers
<1>4. /\ keys' \in KeyStores /\ keys'.chain = keys.chain
      /\ \/ UNCHANGED keys
         \/ /\ keys'.held = keys.held \ {m.id} /\ keys'.marked = keys.marked \ {m.id}
            /\ keys'.next = keys.next
  <2>1. CASE keys' = keys
    BY <1>1, <2>1
  <2>2. CASE keys' = Consumed(m.id)
    <3> DEFINE held == keys.held \ {m.id}
               marked == keys.marked \ {m.id}
    <3>1. keys' = [keys EXCEPT !.held = held, !.marked = marked]
      BY <2>2 DEF Consumed
    <3>2. held \subseteq Ids /\ held \subseteq 1..(keys.next - 1) /\ marked \subseteq held
      BY <1>1, KeyStoreIs
    <3> HIDE DEF held, marked
    <3>3. keys' \in KeyStores /\ keys'.held = held /\ keys'.marked = marked
          /\ keys'.next = keys.next /\ keys'.chain = keys.chain
      BY <1>1, <3>1, <3>2 DEF KeyStores
    <3> QED BY <3>3 DEF held, marked
  <2> QED BY <1>2, <2>1, <2>2
<1>5. OpsFit' /\ Queued'
  BY <1>1, <1>4 DEF Placed, OpsFit, Fits, Queued, AtHead
<1>6. TypeOK'
  BY <1>1, <1>3, <1>4 DEF Placed, TypeOK
<1> QED BY <1>1, <1>3, <1>4, <1>5, <1>6 DEF ReceiveEffect, Placed

-----------------------------------------------------------------------------
(* Every state is of its type.                                             *)

LEMMA InitPlaced ==
  ASSUME PreKeysAssumption, Init
  PROVE  Placed
<1>1. /\ MaxId \in Nat \ {0} /\ None \in Nat /\ None \in 0..None /\ Initial \in 0..MaxRotations
      /\ Idle \in OpType /\ Idle.at = "idle" /\ Idle.answer = "none"
  BY BoundsAre, IdleIs DEF PreKeysAssumption
<1>2. keys \in KeyStores
  <2>1. {1} \subseteq Ids /\ 2 \in 1..(MaxId + 1) /\ {1} \subseteq 1..(2 - 1)
    BY <1>1 DEF Ids
  <2>2. <<>> \in Seq(Ops)
    OBVIOUS
  <2>3. keys = [held |-> {1}, marked |-> {}, next |-> 2, chain |-> <<>>]
    BY DEF Init
  <2> QED BY <2>1, <2>2, <2>3 DEF KeyStores
<1>3. flag \in Flags /\ creds \in Credentials
  BY DEF Init, Flags, Credentials
<1>4. ops \in [Ops -> OpType] /\ \A o \in Ops : ops[o] = Idle
  BY <1>1 DEF Init
<1>5. server \in Servers
  BY <1>1 DEF Init, Servers
<1>6. peers \in Peers
  <2>1. peers = [handed |-> [k \in Ids |-> 0], flying |-> {}]
    BY DEF Init
  <2>2. [k \in Ids |-> 0] \in [Ids -> 0..2]
    OBVIOUS
  <2> QED BY <2>1, <2>2 DEF Peers
<1>7. hist \in Histories
  BY <1>1 DEF Init, Histories
<1>8. TypeOK
  BY <1>1, <1>2, <1>3, <1>4, <1>5, <1>6, <1>7 DEF Init, TypeOK
<1>9. OpsFit /\ Queued
  BY <1>1, <1>4 DEF OpsFit, Fits, Queued
<1> QED BY <1>8, <1>9 DEF Placed

LEMMA StepPlaced ==
  ASSUME PreKeysAssumption, Placed, [Next]_vars
  PROVE  Placed'
<1>1. ASSUME NEW o \in Ops,
             \/ FindKeys(o) \/ Generate(o) \/ Mark(o) \/ FlagsSet(o) \/ ReadBundle(o)
             \/ ServerTakes(o) \/ ServerRefuses(o) \/ ServerLists(o)
             \/ UploadAnswered(o) \/ DigestAnswered(o) \/ RotateAnswered(o) \/ Timeout(o)
      PROVE  Placed'
  BY <1>1, FindKeysIs, GenerateIs, MarkIs, FlagsSetIs, ReadBundleIs, ServerTakesIs, ServerRefusesIs,
     ServerListsIs, UploadAnsweredIs, DigestAnsweredIs, RotateAnsweredIs, TimeoutIs
<1>2. ASSUME StoreFlag \/ Save \/ WriteFails \/ Start \/ NotDue \/ Rotate
      PROVE  Placed'
  BY <1>2, StoreFlagIs, SaveIs, WriteFailsIs, StartIs, NotDueIs, RotateIs
<1>3. ASSUME NEW n \in Notices, LowArrives(n) \/ DigestArrives(n)
      PROVE  Placed'
  BY <1>3, LowArrivesIs, DigestArrivesIs
<1>4. ASSUME NEW r \in Receipts, ReceiptBegins(r)
      PROVE  Placed'
  BY <1>4, ReceiptBeginsIs
<1>5. ASSUME \/ Connect \/ Load \/ Restored \/ Connected \/ Disconnect \/ Crash
             \/ SendNotice \/ Fetch \/ Receive
      PROVE  Placed'
  BY <1>5, ConnectIs, LoadIs, RestoredIs, ConnectedIs, DisconnectIs, CrashIs, SendNoticeIs,
     FetchIs, ReceiveIs
<1>6. ASSUME UNCHANGED vars
      PROVE  Placed'
  BY <1>6 DEF vars, Placed, TypeOK, OpsFit, Fits, Queued, AtHead
<1> QED BY <1>1, <1>2, <1>3, <1>4, <1>5, <1>6 DEF Next, WriteFails

\* Every state the pre-keys can be in is of its type: among others the next key
\* to generate is above every key of the store, and only keys of the store are
\* marked as uploaded.
THEOREM PreKeysTyping == Spec => []TypeOK
<1> USE PreKeysAssumption
<1>1. Init => Placed
  BY InitPlaced
<1>2. Placed /\ [Next]_vars => Placed'
  BY StepPlaced
<1>3. Placed => TypeOK
  BY DEF Placed
<1> QED BY <1>1, <1>2, <1>3, PTL DEF Spec

-----------------------------------------------------------------------------
(* The server has the signed key of the store.                             *)

\* Who is answered in the line has an answer, and is there once.
LineOK ==
  \A i \in 1..Len(server.line) :
    server.line[i] # LowNotice =>
      /\ server.line[i] \in Ops /\ ops[server.line[i]].answer # "none"
      /\ \A j \in 1..Len(server.line) : server.line[j] = server.line[i] => j = i

\* A rotation asks for the key of the store, and if it was answered the server has it.
Astray == Except({"unconfirmed", "restored", "stale upload"})
SignedOK ==
  \/ Astray
  \/ /\ ops[Passive].at = "rotating"
     /\ ops[Passive].skey = signed /\ ops[Passive].answer \in {"none", "ok"}
     /\ ops[Passive].answer = "ok" => server.skey = signed
  \/ ops[Passive].at # "rotating" /\ server.skey \in {None, signed}

LEMMA ExceptStays ==
  ASSUME hist.lapses \subseteq hist'.lapses, NEW names, Except(names)
  PROVE  hist'.lapses \cap names # {}
BY DEF Except

\* A step in which nobody is answered, nor takes an answer.
Silent ==
  /\ \A p \in Ops : ops[p].at \in Asking => ops'[p] = ops[p]
  /\ hist.lapses \subseteq hist'.lapses
  /\ server'.skey = server.skey
  /\ \/ server'.line = server.line
     \/ Hears(LowNotice)
     \/ server'.line = Append(server.line, LowNotice)
  /\ \/ /\ signed' = signed \/ "restored" \in hist'.lapses
        /\ ops'[Passive].at = "rotating" => ops'[Passive] = ops[Passive]
     \/ RotateEffect

LEMMA QuietIsSilent ==
  ASSUME PreKeysAssumption, Placed, NEW o \in Ops, Quiet(o), signed' = signed,
         ops'[o].at # "rotating", server'.skey = server.skey,
         server'.line = server.line \/ Hears(LowNotice)
  PROVE  Silent
BY PassiveIs DEF Quiet, Silent, Asking

LEMMA OffersIsSilent ==
  ASSUME PreKeysAssumption, Placed, NEW o \in Ops, NEW ids, NEW held, Offers(o, ids, held),
         ops[o].at \in {"getting", "generating"}, UNCHANGED <<signed, server>>
  PROVE  Silent
<1>1. ops'[o].at # "rotating" /\ ops[o].at \notin Asking
  BY LeavesIs DEF Offers, Offered, Asking
<1> QED BY <1>1, PassiveIs DEF Offers, Silent

LEMMA SilentSteps ==
  ASSUME PreKeysAssumption, Placed,
         \/ \E o \in Ops : FindKeys(o) \/ Generate(o) \/ Mark(o) \/ FlagsSet(o) \/ ReadBundle(o)
         \/ StoreFlag \/ Save \/ WriteFails \/ Start \/ NotDue \/ Rotate
         \/ \E n \in Notices : LowArrives(n) \/ DigestArrives(n)
         \/ \E r \in Receipts : ReceiptBegins(r)
         \/ Connect \/ Load \/ Restored \/ Connected \/ SendNotice \/ Fetch \/ Receive
  PROVE  Silent
<1>1. ASSUME NEW o \in Ops, FindKeys(o) PROVE Silent
  <2>1. FindEffect(o)
    BY <1>1, FindKeysIs
  <2>2. CASE \E ids \in SUBSET Available : ids # {} /\ Offers(o, ids, keys.held)
    BY <2>1, <2>2, OffersIsSilent DEF FindEffect
  <2>3. CASE /\ ops'[o].at = "generating" /\ ops'[o].ids = Available
             /\ \A p \in Ops : p # o => ops'[p] = ops[p]
             /\ UNCHANGED <<keys, hist>>
    BY <2>1, <2>3, PassiveIs DEF FindEffect, Silent, Asking
  <2> QED BY <2>1, <2>2, <2>3 DEF FindEffect
<1>2. ASSUME NEW o \in Ops, Generate(o) PROVE Silent
  <2>1. GenerateEffect(o)
    BY <1>2, GenerateIs
  <2>2. \E ids, held : Offers(o, ids, held)
    BY <2>1 DEF GenerateEffect
  <2> QED BY <2>1, <2>2, OffersIsSilent DEF GenerateEffect
<1>3. ASSUME NEW o \in Ops, Mark(o) PROVE Silent
  <2>1. MarkEffect(o)
    BY <1>3, MarkIs
  <2> QED BY <2>1, PassiveIs, IdleIs DEF MarkEffect, Silent, Asking
<1>4. ASSUME NEW o \in Ops, FlagsSet(o) \/ ReadBundle(o) PROVE Silent
  BY <1>4, FlagsSetIs, ReadBundleIs, QuietIsSilent
<1>5. ASSUME StoreFlag \/ Connect \/ Restored \/ Connected PROVE Silent
  BY <1>5, StoreFlagIs, ConnectIs, RestoredIs, ConnectedIs, PassiveIs DEF Elsewhere, Silent
<1>6. ASSUME Load PROVE Silent
  BY <1>6, LoadIs, PassiveIs DEF Elsewhere, Silent
<1>7. ASSUME SendNotice PROVE Silent
  BY <1>7, SendNoticeIs, PassiveIs DEF Elsewhere, Silent
<1>8. ASSUME Save \/ WriteFails PROVE Silent
  <2>1. CASE Save
    BY <2>1, SaveIs, PassiveIs DEF Silent, Asking
  <2>2. CASE WriteFails
    <3>1. /\ UNCHANGED <<signed, server>> /\ hist.lapses \subseteq hist'.lapses
          /\ \A o \in Ops : \/ ops'[o] = ops[o]
                            \/ ops[o].at \in {"clearing", "flagging"} /\ Leaves(o, ops'[o])
      BY <2>2, WriteFailsIs
    <3>2. \A o \in Ops : Leaves(o, ops'[o]) => ops'[o].at # "rotating"
      BY DEF Leaves
    <3> QED BY <3>1, <3>2, PassiveIs DEF Silent, Asking
  <2> QED BY <1>8, <2>1, <2>2
<1>9. ASSUME Start \/ NotDue PROVE Silent
  BY <1>9, StartIs, NotDueIs, PassiveIs, QuietIsSilent
<1>10. ASSUME Rotate PROVE Silent
  <2>1. RotateEffect
    BY <1>10, RotateIs
  <2> QED BY <2>1 DEF RotateEffect, Quiet, Silent, Asking
<1>11. ASSUME NEW n \in Notices, LowArrives(n) PROVE Silent
  BY <1>11, LowArrivesIs, PassiveIs, QuietIsSilent DEF Hears
<1>12. ASSUME NEW n \in Notices, DigestArrives(n) PROVE Silent
  <2>1. n \in Ops
    BY PassiveIs
  <2> QED BY <1>12, <2>1, DigestArrivesIs, QuietIsSilent
<1>13. ASSUME NEW r \in Receipts, ReceiptBegins(r) PROVE Silent
  <2>1. r \in Ops
    BY PassiveIs
  <2> QED BY <1>13, <2>1, ReceiptBeginsIs, QuietIsSilent
<1>14. ASSUME Fetch \/ Receive PROVE Silent
  BY <1>14, FetchIs, ReceiveIs, PassiveIs DEF FetchEffect, ReceiveEffect, Silent
<1> QED BY <1>1, <1>2, <1>3, <1>4, <1>5, <1>6, <1>7, <1>8, <1>9, <1>10, <1>11, <1>12, <1>13, <1>14

LEMMA SilentLine ==
  ASSUME PreKeysAssumption, Placed, LineOK, Silent, Placed'
  PROVE  LineOK'
<1> DEFINE line == server.line
           new == server'.line
<1>1. line \in Seq(Ops \cup {LowNotice})
  BY ServerIs DEF Placed, TypeOK
<1>2. \A p \in Ops : ops[p].answer # "none" => ops'[p] = ops[p]
  BY DEF Silent, Placed, OpsFit, Fits
<1>3. CASE new = line
  BY <1>2, <1>3 DEF LineOK
<1>4. CASE Hears(LowNotice)
  <2>1. Len(new) = Len(line) - 1 /\ Len(line) \in Nat \ {0} /\ \A k \in 1..Len(new) : new[k] = line[k + 1]
    BY <1>1, <1>4, TailIs DEF Hears
  <2> SUFFICES ASSUME NEW i \in 1..Len(new), new[i] # LowNotice
               PROVE  /\ new[i] \in Ops /\ ops'[new[i]].answer # "none"
                      /\ \A j \in 1..Len(new) : new[j] = new[i] => j = i
    BY DEF LineOK
  <2>2. \A j \in 1..Len(new) : j + 1 \in 1..Len(line) /\ line[j + 1] = new[j]
    <3> HIDE DEF line, new
    <3>1. Len(new) = Len(line) - 1 /\ Len(line) \in Nat
      BY <2>1
    <3>2. \A j \in 1..(Len(line) - 1) : j + 1 \in 1..Len(line)
      BY <3>1
    <3>3. \A j \in 1..Len(new) : line[j + 1] = new[j]
      BY <2>1
    <3> QED BY <3>1, <3>2, <3>3
  <2>3. i + 1 \in 1..Len(line) /\ line[i + 1] = new[i]
    BY <2>2
  <2>4. /\ new[i] \in Ops /\ ops[new[i]].answer # "none"
        /\ \A j \in 1..Len(line) : line[j] = new[i] => j = i + 1
    BY <2>3 DEF LineOK
  <2>5. ASSUME NEW j \in 1..Len(new), new[j] = new[i] PROVE j = i
    <3>1. j + 1 = i + 1
      BY <2>2, <2>4, <2>5
    <3> QED BY <3>1
  <2> QED BY <1>2, <2>4, <2>5
<1>5. CASE new = Append(line, LowNotice)
  <2>1. /\ Len(new) = Len(line) + 1 /\ Len(line) \in Nat
        /\ \A k \in 1..Len(line) : new[k] = line[k]
        /\ new[Len(line) + 1] = LowNotice
    BY <1>1, <1>5, AppendIs
  <2> SUFFICES ASSUME NEW i \in 1..Len(new), new[i] # LowNotice
               PROVE  /\ new[i] \in Ops /\ ops'[new[i]].answer # "none"
                      /\ \A j \in 1..Len(new) : new[j] = new[i] => j = i
    BY DEF LineOK
  <2>2. \A j \in 1..Len(new) : new[j] # LowNotice => j \in 1..Len(line) /\ line[j] = new[j]
    <3> HIDE DEF line, new
    <3> QED BY <2>1
  <2>3. i \in 1..Len(line) /\ line[i] = new[i]
    BY <2>2
  <2> QED BY <1>2, <2>2, <2>3 DEF LineOK
<1> QED BY <1>3, <1>4, <1>5 DEF Silent

LEMMA AnsweredLine ==
  ASSUME PreKeysAssumption, Placed, LineOK, NEW o \in Ops, Answered(o)
  PROVE  LineOK'
<1> DEFINE line == server.line
           new == server'.line
<1>1. line \in Seq(Ops \cup {LowNotice}) /\ o # LowNotice
  BY ServerIs DEF Placed, TypeOK, PreKeysAssumption
<1>2. /\ Len(new) = Len(line) + 1 /\ Len(line) \in Nat
      /\ \A k \in 1..Len(line) : new[k] = line[k]
      /\ new[Len(line) + 1] = o
  BY <1>1, AppendIs DEF Answered
<1>3. \A k \in 1..Len(line) : line[k] # o
  BY <1>1 DEF LineOK, Answered
<1> SUFFICES ASSUME NEW i \in 1..Len(new), new[i] # LowNotice
             PROVE  /\ new[i] \in Ops /\ ops'[new[i]].answer # "none"
                    /\ \A j \in 1..Len(new) : new[j] = new[i] => j = i
  BY DEF LineOK
<1>4. \A j \in 1..Len(new) : j # Len(line) + 1 => j \in 1..Len(line) /\ new[j] = line[j]
  <2> HIDE DEF line, new
  <2> QED BY <1>2
<1>5. CASE i = Len(line) + 1
  BY <1>2, <1>3, <1>4, <1>5 DEF Answered
<1>6. CASE i # Len(line) + 1
  <2>1. i \in 1..Len(line) /\ new[i] = line[i] /\ new[i] # o
    BY <1>3, <1>4, <1>6
  <2>2. new[i] \in Ops /\ ops'[new[i]].answer # "none"
    BY <2>1 DEF LineOK, Answered
  <2> QED BY <1>2, <1>4, <2>1, <2>2 DEF LineOK
<1> QED BY <1>5, <1>6

LEMMA TakenLine ==
  ASSUME PreKeysAssumption, Placed, LineOK, NEW o \in Ops, Takes1(o)
  PROVE  LineOK' /\ ops[o].answer # "none"
<1> DEFINE line == server.line
           new == server'.line
<1>1. line \in Seq(Ops \cup {LowNotice}) /\ o # LowNotice
  BY ServerIs DEF Placed, TypeOK, PreKeysAssumption
<1>2. /\ Len(new) = Len(line) - 1 /\ Len(line) \in Nat \ {0} /\ line[1] = o
      /\ \A k \in 1..Len(new) : new[k] = line[k + 1]
  BY <1>1, TailIs DEF Takes1, Hears
<1>3. /\ ops[o].answer # "none"
      /\ \A j \in 1..Len(line) : line[j] = o => j = 1
  <2>1. 1 \in 1..Len(line)
    BY <1>2
  <2> QED BY <1>1, <1>2, <2>1 DEF LineOK
<1>4. ASSUME NEW i \in 1..Len(new), new[i] # LowNotice
      PROVE  /\ new[i] \in Ops /\ ops'[new[i]].answer # "none"
             /\ \A j \in 1..Len(new) : new[j] = new[i] => j = i
  <2>1. \A j \in 1..Len(new) : j + 1 \in 1..Len(line) /\ line[j + 1] = new[j] /\ j + 1 # 1
    <3> HIDE DEF line, new
    <3> QED BY SMTT(30), <1>2
  <2>0. i + 1 \in 1..Len(line) /\ line[i + 1] = new[i] /\ i + 1 # 1
    BY <2>1
  <2>2. /\ new[i] \in Ops /\ ops[new[i]].answer # "none" /\ new[i] # o
        /\ \A j \in 1..Len(line) : line[j] = new[i] => j = i + 1
    BY <1>3, <1>4, <2>0 DEF LineOK
  <2>3. ASSUME NEW j \in 1..Len(new), new[j] = new[i] PROVE j = i
    <3>1. j + 1 = i + 1
      BY <2>1, <2>2, <2>3
    <3> QED BY <3>1
  <2> QED BY <2>2, <2>3 DEF Takes1
<1> QED BY <1>3, <1>4 DEF LineOK

LEMMA CutLine ==
  ASSUME PreKeysAssumption, Placed, LineOK, NEW o \in Ops, TimeoutEffect(o)
  PROVE  LineOK'
<1> DEFINE line == server.line
           new == server'.line
<1>1. line \in Seq(Ops \cup {LowNotice}) /\ o # LowNotice /\ Len(line) \in Nat
  BY ServerIs DEF Placed, TypeOK, PreKeysAssumption
<1>2. CASE new = line /\ \A i \in 1..Len(line) : line[i] # o
  BY <1>2 DEF LineOK, TimeoutEffect
<1>3. ASSUME NEW k \in 1..Len(line), line[k] = o, Len(new) = Len(line) - 1,
             \A i \in 1..(Len(line) - 1) : new[i] = IF i < k THEN line[i] ELSE line[i + 1]
      PROVE  LineOK'
  <2> DEFINE at(i) == IF i < k THEN i ELSE i + 1
  <2>1. \A j \in 1..Len(new) : at(j) \in 1..Len(line) /\ line[at(j)] = new[j] /\ at(j) # k
    <3>1. k \in 1..Len(line) /\ Len(line) \in Nat
      BY <1>1, <1>3
    <3>2. \A j \in 1..(Len(line) - 1) : at(j) \in 1..Len(line) /\ at(j) # k
      <4> HIDE DEF line, new
      <4> QED BY <3>1
    <3>3. \A j \in 1..(Len(line) - 1) : line[at(j)] = new[j]
      BY <1>3
    <3> HIDE DEF line, new, at
    <3> QED BY <1>3, <3>2, <3>3
  <2>2. \A i, j \in 1..Len(new) : at(i) = at(j) => i = j
    OBVIOUS
  <2>3. \A j \in 1..Len(line) : line[j] = o => j = k
    BY <1>1, <1>3 DEF LineOK
  <2> SUFFICES ASSUME NEW i \in 1..Len(new), new[i] # LowNotice
               PROVE  /\ new[i] \in Ops /\ ops'[new[i]].answer # "none"
                      /\ \A j \in 1..Len(new) : new[j] = new[i] => j = i
    BY DEF LineOK
  <2> HIDE DEF at
  <2>4. /\ new[i] \in Ops /\ ops[new[i]].answer # "none" /\ new[i] # o
        /\ \A j \in 1..Len(line) : line[j] = new[i] => j = at(i)
    BY <2>1, <2>3 DEF LineOK
  <2> QED BY <2>1, <2>2, <2>4 DEF TimeoutEffect
<1> QED BY <1>2, <1>3 DEF TimeoutEffect, Cut

LEMMA SilentSigned ==
  ASSUME PreKeysAssumption, Placed, SignedOK, Silent
  PROVE  SignedOK'
<1> SUFFICES ASSUME ~Astray' PROVE SignedOK'
  BY DEF SignedOK
<1>1. /\ ~Astray /\ "restored" \notin hist'.lapses /\ "unconfirmed" \notin hist'.lapses
      /\ hist.lapses \subseteq hist'.lapses
  BY DEF Astray, Except, Silent
<1>2. CASE RotateEffect
  <2>1. ops'[Passive].at = "rotating" /\ ops'[Passive].skey = signed' /\ ops'[Passive].answer = "none"
    BY <1>1, <1>2 DEF RotateEffect, Quiet
  <2> QED BY <2>1 DEF SignedOK
<1>3. CASE /\ signed' = signed
           /\ ops'[Passive].at = "rotating" => ops'[Passive] = ops[Passive]
  <2>1. server'.skey = server.skey
    BY DEF Silent
  <2>2. CASE ops[Passive].at = "rotating"
    <3>1. ops'[Passive] = ops[Passive]
      BY <2>2, PassiveIs DEF Silent, Asking
    <3> QED BY <1>1, <1>3, <2>1, <2>2, <3>1 DEF SignedOK
  <2>3. CASE ops[Passive].at # "rotating"
    BY <1>1, <1>3, <2>1, <2>3 DEF SignedOK
  <2> QED BY <2>2, <2>3
<1> QED BY <1>1, <1>2, <1>3 DEF Silent

LEMMA AnsweredSigned ==
  ASSUME PreKeysAssumption, Placed, SignedOK, NEW o \in Ops,
         ServerTakes(o) \/ ServerRefuses(o) \/ ServerLists(o)
  PROVE  LineOK => LineOK' /\ SignedOK'
<1>1. Answered(o)
  BY ServerTakesIs, ServerRefusesIs, ServerListsIs DEF TakesEffect
<1>2. LineOK => LineOK'
  BY <1>1, AnsweredLine
<1> SUFFICES ASSUME ~Astray' PROVE SignedOK'
  BY <1>2 DEF SignedOK
<1>3. /\ ~Astray /\ "stale upload" \notin hist'.lapses /\ "unconfirmed" \notin hist'.lapses
      /\ hist.lapses \subseteq hist'.lapses /\ signed' = signed
  BY <1>1 DEF Astray, Except, Answered
<1>4. ops[o].at = "rotating" => o = Passive
  BY DEF Placed, OpsFit, Fits
<1>5. CASE ServerTakes(o)
  <2>1. TakesEffect(o)
    BY <1>5, ServerTakesIs
  <2>2. CASE o = Passive
    BY <1>3, <1>1, <2>1, <2>2 DEF TakesEffect, Answered, SignedOK
  <2>3. CASE o # Passive
    <3>1. ops'[Passive] = ops[Passive] /\ server'.skey = signed
      BY <1>1, <1>3, <1>4, <2>1, <2>3, PassiveIs DEF TakesEffect, Answered
    <3>2. CASE ops[Passive].at = "rotating"
      BY <1>3, <3>1, <3>2 DEF SignedOK
    <3>3. CASE ops[Passive].at # "rotating"
      BY <1>3, <3>1, <3>3 DEF SignedOK
    <3> QED BY <3>2, <3>3
  <2> QED BY <2>2, <2>3
<1>6. CASE ServerRefuses(o) \/ ServerLists(o)
  <2>1. server'.skey = server.skey /\ ops[o].at # "rotating"
    <3>1. CASE ServerRefuses(o)
      BY <1>3, <3>1, ServerRefusesIs
    <3>2. CASE ServerLists(o)
      BY <3>2, ServerListsIs
    <3> QED BY <1>6, <3>1, <3>2
  <2>2. CASE o = Passive
    <3>1. ops'[Passive].at # "rotating" /\ ops[Passive].at # "rotating"
      BY <1>1, <2>1, <2>2 DEF Answered
    <3> QED BY <1>3, <2>1, <3>1 DEF SignedOK
  <2>3. CASE o # Passive
    <3>1. ops'[Passive] = ops[Passive]
      BY <1>1, <2>3, PassiveIs DEF Answered
    <3> QED BY <1>3, <2>1, <3>1 DEF SignedOK
  <2> QED BY <2>2, <2>3
<1> QED BY <1>5, <1>6

LEMMA TakenSigned ==
  ASSUME PreKeysAssumption, Placed, SignedOK, LineOK, NEW o \in Ops,
         UploadAnswered(o) \/ DigestAnswered(o) \/ RotateAnswered(o)
  PROVE  LineOK' /\ SignedOK'
<1>1. /\ Takes1(o) /\ ops'[o].at # "rotating" /\ hist.lapses \subseteq hist'.lapses
  <2>1. CASE UploadAnswered(o)
    BY <2>1, UploadAnsweredIs DEF UploadEffect, Leaves
  <2>2. CASE DigestAnswered(o)
    BY <2>2, DigestAnsweredIs DEF DigestEffect, Leaves, Notes
  <2>3. CASE RotateAnswered(o)
    BY <2>3, RotateAnsweredIs DEF Leaves
  <2> QED BY <2>1, <2>2, <2>3
<1>2. LineOK' /\ ops[o].answer # "none"
  BY <1>1, TakenLine
<1> SUFFICES ASSUME ~Astray' PROVE SignedOK'
  BY <1>2 DEF SignedOK
<1>3. ~Astray /\ signed' = signed /\ server'.skey = server.skey
  BY <1>1 DEF Astray, Except, Takes1, Hears
<1>4. CASE o = Passive
  BY <1>1, <1>2, <1>3, <1>4 DEF SignedOK
<1>5. CASE o # Passive
  <2>1. ops'[Passive] = ops[Passive]
    BY <1>1, <1>5, PassiveIs DEF Takes1
  <2> QED BY <1>3, <2>1 DEF SignedOK
<1> QED BY <1>4, <1>5

\* The queries of S failed; Passive is among them if it rotated.
LEMMA FailingSigned ==
  ASSUME PreKeysAssumption, Placed, SignedOK, NEW S \in SUBSET Ops, Failing(S), signed' = signed,
         ops'[Passive].at # "rotating" \/ ops'[Passive] = ops[Passive],
         ops'[Passive].at # "rotating" => Passive \in S \/ ops'[Passive] = ops[Passive]
  PROVE  SignedOK'
<1> SUFFICES ASSUME ~Astray' PROVE SignedOK'
  BY DEF SignedOK
<1>1. ~Astray
  BY DEF Astray, Except, Failing
<1>2. server'.skey \in {server.skey, signed}
  BY DEF Astray, Except, Failing
<1>3. Passive \in S => ops[Passive].at # "rotating"
  BY DEF Astray, Except, Failing
<1>4. CASE ops'[Passive].at = "rotating"
  <2>1. ops'[Passive] = ops[Passive]
    BY <1>4
  <2> QED BY <1>1, <1>2, <1>4, <2>1 DEF SignedOK
<1>5. CASE ops'[Passive].at # "rotating"
  BY <1>1, <1>2, <1>3, <1>5 DEF SignedOK
<1> QED BY <1>4, <1>5

LEMMA InitSigned ==
  ASSUME PreKeysAssumption, Init
  PROVE  LineOK /\ SignedOK
<1>1. server.line = <<>> /\ server.skey = None /\ ops[Passive].at = "idle"
  BY PassiveIs, IdleIs DEF Init
<1> QED BY <1>1 DEF LineOK, SignedOK

LEMMA StepSigned ==
  ASSUME PreKeysAssumption, Placed, Placed', LineOK, SignedOK, [Next]_vars
  PROVE  LineOK' /\ SignedOK'
<1>1. CASE Silent
  BY <1>1, SilentLine, SilentSigned
<1>2. ASSUME NEW o \in Ops, ServerTakes(o) \/ ServerRefuses(o) \/ ServerLists(o)
      PROVE  LineOK' /\ SignedOK'
  BY <1>2, AnsweredSigned
<1>3. ASSUME NEW o \in Ops, UploadAnswered(o) \/ DigestAnswered(o) \/ RotateAnswered(o)
      PROVE  LineOK' /\ SignedOK'
  BY <1>3, TakenSigned
<1>4. ASSUME NEW o \in Ops, Timeout(o)
      PROVE  LineOK' /\ SignedOK'
  <2>1. TimeoutEffect(o)
    BY <1>4, TimeoutIs
  <2>2. LineOK'
    BY <2>1, CutLine
  <2>3. SignedOK'
    BY <2>1, PassiveIs, FailingSigned DEF TimeoutEffect, Leaves
  <2> QED BY <2>2, <2>3
<1>5. CASE Disconnect
  <2>1. DisconnectEffect
    BY <1>5, DisconnectIs
  <2>2. LineOK'
    BY <2>1 DEF DisconnectEffect, LineOK
  <2>3. AskingOps \in SUBSET Ops /\ (ops[Passive].at \in Asking => Passive \in AskingOps)
    BY PassiveIs DEF AskingOps
  <2>4. SignedOK'
    BY <2>1, <2>3, PassiveIs, FailingSigned DEF DisconnectEffect, Leaves
  <2> QED BY <2>2, <2>4
<1>6. CASE Crash
  <2>1. CrashEffect
    BY <1>6, CrashIs
  <2>2. LineOK'
    BY <2>1 DEF CrashEffect, LineOK
  <2>3. ops'[Passive].at # "rotating"
    BY <2>1, PassiveIs, IdleIs DEF CrashEffect
  <2>4. SignedOK'
    BY <2>1, <2>3, PassiveIs, FailingSigned DEF CrashEffect
  <2> QED BY <2>2, <2>4
<1>7. CASE UNCHANGED vars
  BY <1>7 DEF vars, LineOK, SignedOK, Astray, Except
<1> QED BY <1>1, <1>2, <1>3, <1>4, <1>5, <1>6, <1>7, SilentSteps DEF Next, WriteFails

\* The signed key that the server hands out is the one in the store, unless the
\* client is just replacing it, or a query for it was left unanswered or refused,
\* an upload took long enough to carry an older one, or the credentials put the
\* first one back.
THEOREM PreKeysSigned == Spec => []SignedKeyHeld
<1> USE PreKeysAssumption
<1> DEFINE Inv == Placed /\ LineOK /\ SignedOK
<1>1. Init => Inv
  BY InitPlaced, InitSigned
<1>2. Inv /\ [Next]_vars => Inv'
  BY StepPlaced, StepSigned
<1>3. Inv => SignedKeyHeld
  BY DEF SignedOK, SignedKeyHeld, Astray
<1> QED BY <1>1, <1>2, <1>3, PTL DEF Spec

-----------------------------------------------------------------------------
(* A one-time key goes to one peer.                                        *)

\* Keys that are with the server or were handed out; operations that offer keys,
\* and those of which the server has the keys for sure.
Released(id) == id \in server.stock \/ peers.handed[id] # 0
Offering(o) == ops[o].at \in {"uploading", "marking"}
Confirmed(o) ==
  \/ ops[o].at = "uploading" /\ ops[o].answer = "ok"
  \/ ops[o].at = "marking" /\ o \notin Receipts
InHand(id) == \E o \in Ops : Confirmed(o) /\ id \in ops[o].ids

\* No two operations offer a key.
Apart ==
  \A o, p \in Ops : o # p /\ Offering(o) /\ Offering(p) =>
    \A id \in Ids : ~(id \in ops[o].ids /\ id \in ops[p].ids)
\* What was offered or released was generated before.
Before ==
  /\ \A id \in Ids : Released(id) => id < keys.next
  /\ \A o \in Ops : Offering(o) \/ ops[o].at = "generating" =>
       \A id \in ops[o].ids : id < keys.next
\* What is offered was not released, until the server takes it.
Fresh ==
  \A o \in Ops : Offering(o) /\ ~Confirmed(o) => \A id \in ops[o].ids : ~Released(id)
\* A key that was released is marked, or will be: whoever has its confirmation does.
Known ==
  /\ \A id \in keys.held \ keys.marked : Released(id) => InHand(id)
  /\ \A o \in Ops : ops[o].at = "generating" =>
       \A id \in ops[o].ids : Released(id) => InHand(id)
Single ==
  \A id \in Ids : \/ peers.handed[id] = 0
                  \/ id \notin server.stock /\ peers.handed[id] = 1

Confused == Except({"overlap", "unanswered", "interrupted"})
Orderly == Apart /\ Before /\ Fresh /\ Known /\ Single
OnceOK == Confused \/ Orderly

\* A step that leaves the keys and who has them alone.
Aside ==
  /\ SameKeys /\ server'.stock = server.stock /\ peers' = peers
  /\ \A p \in Ops :
       \/ ops'[p] = ops[p]
       \/ ~Confirmed(p) /\ ops'[p].at \notin {"generating", "uploading", "marking"}
       \/ /\ Offering(p) /\ Offering(p)' /\ ops'[p].ids = ops[p].ids
          /\ Confirmed(p)' <=> Confirmed(p)

\* Of an operation, before and after.
LEMMA AsideOps ==
  ASSUME Aside, NEW p \in Ops
  PROVE  /\ Confirmed(p) => Confirmed(p)' /\ ops'[p].ids = ops[p].ids
         /\ Offering(p)' => /\ Offering(p) /\ ops'[p].ids = ops[p].ids
                            /\ Confirmed(p)' <=> Confirmed(p)
         /\ ops'[p].at = "generating" => ops'[p] = ops[p]
<1>1. CASE ops'[p] = ops[p]
  BY <1>1 DEF Confirmed, Offering
<1>2. CASE ~Confirmed(p) /\ ops'[p].at \notin {"generating", "uploading", "marking"}
  BY <1>2 DEF Offering
<1>3. CASE /\ Offering(p) /\ Offering(p)' /\ ops'[p].ids = ops[p].ids
           /\ Confirmed(p)' <=> Confirmed(p)
  BY <1>3 DEF Offering
<1> QED BY <1>1, <1>2, <1>3 DEF Aside

LEMMA AsideOrderly ==
  ASSUME Placed, Orderly, Aside
  PROVE  Orderly'
<1>1. \A id : Released(id)' <=> Released(id)
  BY DEF Aside, Released
<1>2. \A id : InHand(id) => InHand(id)'
  BY AsideOps DEF InHand
<1>3. keys'.held = keys.held /\ keys'.marked = keys.marked /\ keys'.next = keys.next
  BY DEF Aside, SameKeys
<1>4. Apart'
  BY AsideOps DEF Orderly, Apart
<1>5. Before'
  BY AsideOps, <1>1, <1>3 DEF Orderly, Before
<1>6. Fresh'
  BY AsideOps, <1>1 DEF Orderly, Fresh
<1>7. Known'
  <2>1. \A id \in keys'.held \ keys'.marked : Released(id)' => InHand(id)'
    BY <1>1, <1>2, <1>3 DEF Orderly, Known
  <2>2. \A o \in Ops : ops'[o].at = "generating" =>
          \A id \in ops'[o].ids : Released(id)' => InHand(id)'
    BY <1>1, <1>2, AsideOps DEF Orderly, Known
  <2> QED BY <2>1, <2>2 DEF Known
<1>8. Single'
  BY DEF Orderly, Single, Aside
<1> QED BY <1>4, <1>5, <1>6, <1>7, <1>8 DEF Orderly

\* An operation that offers nothing does something else that offers nothing.
LEMMA OneAside ==
  ASSUME NEW o \in Ops, SameKeys, server'.stock = server.stock, peers' = peers,
         \A p \in Ops : p # o => ops'[p] = ops[p],
         ~Confirmed(o), ops'[o].at \notin {"generating", "uploading", "marking"}
  PROVE  Aside
BY DEF Aside

LEMMA QuietIsAside ==
  ASSUME NEW o \in Ops, Quiet(o), server'.stock = server.stock
  PROVE  Aside
BY OneAside DEF Quiet, Confirmed

LEMMA LeavesAside ==
  ASSUME NEW o, NEW op, Leaves(o, op)
  PROVE  op.at \notin {"generating", "uploading", "marking"}
BY DEF Leaves

LEMMA AsideSteps ==
  ASSUME PreKeysAssumption, Placed,
         \/ \E o \in Ops : \/ FlagsSet(o) \/ ReadBundle(o) \/ ServerRefuses(o) \/ ServerLists(o)
                           \/ UploadAnswered(o) \/ DigestAnswered(o) \/ RotateAnswered(o)
                           \/ Timeout(o) \/ (ServerTakes(o) /\ ops[o].at # "uploading")
         \/ StoreFlag \/ Save \/ WriteFails \/ Start \/ NotDue \/ Rotate
         \/ \E n \in Notices : LowArrives(n) \/ DigestArrives(n)
         \/ \E r \in Receipts : ReceiptBegins(r)
         \/ Connect \/ Load \/ Restored \/ Connected \/ Disconnect \/ Crash \/ SendNotice
  PROVE  hist.lapses \subseteq hist'.lapses /\ (Confused' \/ Aside)
<1> DEFINE Goal == hist.lapses \subseteq hist'.lapses /\ (Confused' \/ Aside)
<1>1. ASSUME NEW o \in Ops, FlagsSet(o) \/ ReadBundle(o) PROVE Goal
  <2>1. Quiet(o) /\ UNCHANGED server
    BY <1>1, FlagsSetIs, ReadBundleIs
  <2> QED BY <2>1, QuietIsAside DEF Quiet
<1>2. ASSUME NEW o \in Ops, \/ ServerRefuses(o) \/ ServerLists(o)
                            \/ (ServerTakes(o) /\ ops[o].at # "uploading")
      PROVE  Goal
  <2>1. /\ Answered(o) /\ server'.stock = server.stock
        /\ \/ ops[o].at # "uploading"
           \/ ops'[o].answer # "ok" /\ ops'[o].ids = ops[o].ids
    <3>1. CASE ServerRefuses(o)
      BY <3>1, ServerRefusesIs
    <3>2. CASE ServerLists(o)
      BY <3>2, ServerListsIs
    <3>3. CASE ServerTakes(o) /\ ops[o].at # "uploading"
      BY <3>3, ServerTakesIs DEF TakesEffect
    <3> QED BY <1>2, <3>1, <3>2, <3>3
  <2>2. CASE ops[o].at # "uploading"
    <3>1. /\ ~Confirmed(o) /\ ops'[o].at \notin {"generating", "uploading", "marking"}
      BY <2>1, <2>2 DEF Answered, Confirmed, Asking
    <3> QED BY <2>1, <3>1, OneAside DEF Answered, SameKeys
  <2>3. CASE ops[o].at = "uploading"
    <3>1. /\ Offering(o) /\ Offering(o)' /\ ops'[o].ids = ops[o].ids
          /\ Confirmed(o)' <=> Confirmed(o)
      BY <2>1, <2>3 DEF Answered, Confirmed, Offering
    <3> QED BY <2>1, <3>1 DEF Answered, SameKeys, Aside
  <2> QED BY <2>1, <2>2, <2>3 DEF Answered
<1>3. ASSUME NEW o \in Ops, UploadAnswered(o) PROVE Goal
  <2>1. UploadEffect(o) /\ o \notin Receipts
    BY <1>3, UploadAnsweredIs DEF UploadEffect, Placed, OpsFit, Fits
  <2>2. CASE ops[o].answer = "ok"
    <3>1. /\ Offering(o) /\ Offering(o)' /\ ops'[o].ids = ops[o].ids
          /\ Confirmed(o)' <=> Confirmed(o)
      BY <2>1, <2>2 DEF UploadEffect, Confirmed, Offering
    <3> QED BY <2>1, <3>1 DEF UploadEffect, Takes1, Hears, Aside
  <2>3. CASE ops[o].answer # "ok"
    <3>1. ~Confirmed(o) /\ Leaves(o, ops'[o])
      BY <2>1, <2>3 DEF UploadEffect, Confirmed
    <3> QED BY <2>1, <3>1, LeavesAside, OneAside DEF UploadEffect, Takes1, Hears
  <2> QED BY <2>2, <2>3
<1>4. ASSUME NEW o \in Ops, DigestAnswered(o) \/ RotateAnswered(o) PROVE Goal
  <2>1. /\ Takes1(o) /\ ops[o].at \in {"digesting", "rotating"}
        /\ hist.lapses \subseteq hist'.lapses
        /\ ops'[o].at \notin {"generating", "uploading", "marking"}
    <3>1. CASE DigestAnswered(o)
      BY <3>1, DigestAnsweredIs, LeavesAside DEF DigestEffect, Notes
    <3>2. CASE RotateAnswered(o)
      BY <3>2, RotateAnsweredIs, LeavesAside
    <3> QED BY <1>4, <3>1, <3>2
  <2>2. ~Confirmed(o)
    BY <2>1 DEF Confirmed
  <2> QED BY <2>1, <2>2, OneAside DEF Takes1, Hears
<1>5. ASSUME NEW o \in Ops, Timeout(o) PROVE Goal
  <2>1. TimeoutEffect(o)
    BY <1>5, TimeoutIs
  <2>2. hist.lapses \subseteq hist'.lapses
    BY <2>1 DEF TimeoutEffect, Failing
  <2>3. ASSUME ~Confused' PROVE Aside
    <3>1. server'.stock = server.stock /\ ~Confirmed(o)
      BY <2>1, <2>3 DEF Confused, Except, TimeoutEffect, Failing, Confirmed, Asking
    <3> QED BY <2>1, <3>1, LeavesAside, OneAside DEF TimeoutEffect, SameKeys
  <2> QED BY <2>2, <2>3
<1>6. ASSUME Disconnect PROVE Goal
  <2>1. DisconnectEffect
    BY <1>6, DisconnectIs
  <2>2. hist.lapses \subseteq hist'.lapses
    BY <2>1 DEF DisconnectEffect, Failing
  <2>3. ASSUME ~Confused' PROVE Aside
    <3>1. server'.stock = server.stock /\ \A o \in AskingOps : ~Confirmed(o)
      BY <2>1, <2>3 DEF Confused, Except, DisconnectEffect, Failing, Confirmed, Asking, AskingOps
    <3> QED BY <2>1, <3>1, LeavesAside DEF DisconnectEffect, SameKeys, Aside, AskingOps
  <2> QED BY <2>2, <2>3
<1>7. ASSUME Crash PROVE Goal
  <2>1. CrashEffect
    BY <1>7, CrashIs
  <2>2. hist.lapses \subseteq hist'.lapses
    BY <2>1 DEF CrashEffect, Failing
  <2>3. ASSUME ~Confused' PROVE Aside
    <3>1. server'.stock = server.stock /\ \A o \in Ops : ops[o].at = "idle" /\ ops'[o].at = "idle"
      BY <2>1, <2>3, IdleIs DEF Confused, Except, CrashEffect, Failing
    <3> QED BY <2>1, <3>1 DEF CrashEffect, Aside, Confirmed
  <2> QED BY <2>2, <2>3
<1>8. ASSUME StoreFlag \/ Connect \/ Load \/ Restored \/ Connected \/ SendNotice PROVE Goal
  <2>1. Elsewhere
    BY <1>8, StoreFlagIs, ConnectIs, LoadIs, RestoredIs, ConnectedIs, SendNoticeIs
  <2> QED BY <2>1 DEF Elsewhere, Aside
<1>9. ASSUME Save \/ WriteFails PROVE Goal
  <2>1. CASE Save
    BY <2>1, SaveIs DEF Aside, Confirmed
  <2>2. CASE WriteFails
    <3>1. /\ UNCHANGED <<keys, server, peers>> /\ hist.lapses \subseteq hist'.lapses
          /\ \A o \in Ops : \/ ops'[o] = ops[o]
                            \/ ops[o].at \in {"clearing", "flagging"} /\ Leaves(o, ops'[o])
      BY <2>2, WriteFailsIs
    <3> QED BY <3>1, LeavesAside DEF Aside, Confirmed, SameKeys
  <2> QED BY <1>9, <2>1, <2>2
<1>10. ASSUME Start \/ NotDue \/ Rotate PROVE Goal
  <2>1. Quiet(Passive) /\ UNCHANGED server
    BY <1>10, StartIs, NotDueIs, RotateIs DEF RotateEffect
  <2> QED BY <2>1, PassiveIs, QuietIsAside DEF Quiet
<1>11. ASSUME NEW n \in Notices, LowArrives(n) \/ DigestArrives(n) PROVE Goal
  <2>1. Quiet(n) /\ server'.stock = server.stock /\ n \in Ops
    BY <1>11, LowArrivesIs, DigestArrivesIs, PassiveIs DEF Hears
  <2> QED BY <2>1, QuietIsAside DEF Quiet
<1>12. ASSUME NEW r \in Receipts, ReceiptBegins(r) PROVE Goal
  <2>1. Quiet(r) /\ server'.stock = server.stock /\ r \in Ops
    BY <1>12, ReceiptBeginsIs, PassiveIs
  <2> QED BY <2>1, QuietIsAside DEF Quiet
<1> QED BY <1>1, <1>2, <1>3, <1>4, <1>5, <1>6, <1>7, <1>8, <1>9, <1>10, <1>11, <1>12

\* An operation that has the lock offers keys: those that the server may have,
\* another has in hand.
LEMMA OffersApart ==
  ASSUME PreKeysAssumption, Placed, Orderly, NEW o \in Ops, ops[o].at \in {"getting", "generating"},
         NEW ids, NEW held, Offers(o, ids, held), ~Confused', Offering(o)',
         \A id \in ids : Released(id) => InHand(id),
         UNCHANGED <<server, peers>>
  PROVE  /\ ops'[o].ids = ids /\ ~Confirmed(o)'
         /\ \A p \in Ops : p # o => ops'[p] = ops[p]
         /\ \A p \in Ops : p # o /\ Offering(p) => \A id \in ids : id \notin ops[p].ids
         /\ \A id \in ids : ~Released(id)
<1>1. /\ ops'[o].ids = ids /\ ops'[o].answer = "none"
      /\ ops'[o].at = IF o \in Receipts THEN "marking" ELSE "uploading"
  BY LeavesAside DEF Offers, Offered, Offering
<1>2. ~Confirmed(o)'
  BY <1>1 DEF Confirmed
<1>3. \A p \in Others(o) : ops[p].ids \cap ids = {}
  BY DEF Offers, Confused, Except
<1>4. \A p \in Ops : p # o /\ Offering(p) => p \in Others(o)
  BY DEF Others, Offering
<1>5. \A p \in Ops : p # o /\ Offering(p) => \A id \in ids : id \notin ops[p].ids
  BY <1>3, <1>4
<1>6. \A id \in ids : ~Released(id)
  <2> SUFFICES ASSUME NEW id \in ids, Released(id) PROVE FALSE
    OBVIOUS
  <2>1. PICK p \in Ops : Confirmed(p) /\ id \in ops[p].ids
    BY DEF InHand
  <2>2. p # o /\ Offering(p)
    BY <2>1 DEF Confirmed, Offering
  <2> QED BY <1>5, <2>1, <2>2
<1> QED BY <1>1, <1>2, <1>5, <1>6 DEF Offers

\* What the keys are after o offered ids.
LEMMA OffersOrderly ==
  ASSUME PreKeysAssumption, Placed, Orderly, NEW o \in Ops, ops[o].at \in {"getting", "generating"},
         NEW ids \in SUBSET Ids, NEW held, Offers(o, ids, held), ~Confused', AtHead(o),
         \A id \in ids : Released(id) => InHand(id),
         \A id \in ids : id < keys'.next,
         keys.next \in Nat, keys'.next \in Nat, keys.next <= keys'.next,
         \A id \in keys'.held \ keys'.marked : id \in keys.held \ keys.marked \/ ~Released(id),
         UNCHANGED <<server, peers>>
  PROVE  Orderly'
<1>1. \A p \in Ops : p # o => ops'[p] = ops[p]
  BY DEF Offers
<1>2. ops'[o].at # "generating" /\ ~Confirmed(o)
  BY LeavesAside DEF Offers, Offered, Confirmed
<1>3. \A id : Released(id)' <=> Released(id)
  BY DEF Released
<1>4. \A p \in Ops : p # o => ops[p].at # "generating"
  BY DEF Placed, Queued, AtHead
<1>5. \A id : InHand(id) => InHand(id)'
  BY <1>1, <1>2 DEF InHand, Confirmed
<1>6. Ids \subseteq Nat
  BY BoundsAre
<1>7. Offering(o)' => /\ ops'[o].ids = ids /\ ~Confirmed(o)'
                      /\ \A p \in Ops : p # o /\ Offering(p) => \A id \in ids : id \notin ops[p].ids
                      /\ \A id \in ids : ~Released(id)
  BY OffersApart
<1>8. \A p \in Ops : p # o => (Offering(p)' <=> Offering(p)) /\ (Confirmed(p)' <=> Confirmed(p))
  BY <1>1 DEF Offering, Confirmed
<1>9. Apart'
  <2> SUFFICES ASSUME NEW p \in Ops, NEW q \in Ops, p # q, Offering(p)', Offering(q)',
                      NEW id \in Ids, id \in ops'[p].ids, id \in ops'[q].ids
               PROVE  FALSE
    BY DEF Apart
  <2>1. CASE p # o /\ q # o
    BY <1>1, <1>8, <2>1 DEF Orderly, Apart
  <2>2. CASE p = o
    BY <1>1, <1>7, <1>8, <2>2
  <2>3. CASE q = o
    BY <1>1, <1>7, <1>8, <2>3
  <2> QED BY <2>1, <2>2, <2>3
<1>10. Before'
  <2>1. \A id \in Ids : Released(id)' => id < keys'.next
    <3> SUFFICES ASSUME NEW id \in Ids, Released(id) PROVE id < keys'.next
      BY <1>3
    <3>1. id < keys.next /\ id \in Nat
      BY <1>6 DEF Orderly, Before
    <3> QED BY <3>1
  <2>2. ASSUME NEW p \in Ops, Offering(p)' \/ ops'[p].at = "generating", NEW id \in ops'[p].ids
        PROVE  id < keys'.next
    <3>1. CASE p = o
      BY <1>2, <1>7, <2>2, <3>1
    <3>2. CASE p # o
      <4>1. id < keys.next /\ id \in Ids
        BY <1>1, <1>8, <2>2, <3>2, OpIs DEF Orderly, Before, Placed, TypeOK
      <4> QED BY <1>6, <4>1
    <3> QED BY <3>1, <3>2
  <2> QED BY <2>1, <2>2 DEF Before
<1>11. Fresh'
  <2> SUFFICES ASSUME NEW p \in Ops, Offering(p)', ~Confirmed(p)', NEW id \in ops'[p].ids
               PROVE  ~Released(id)'
    BY DEF Fresh
  <2>1. CASE p = o
    BY <1>3, <1>7, <2>1
  <2>2. CASE p # o
    BY <1>1, <1>3, <1>8, <2>2 DEF Orderly, Fresh
  <2> QED BY <2>1, <2>2
<1>12. Known'
  <2>1. \A id \in keys'.held \ keys'.marked : Released(id)' => InHand(id)'
    BY <1>3, <1>5 DEF Orderly, Known
  <2>2. \A p \in Ops : ops'[p].at # "generating"
    BY <1>1, <1>2, <1>4
  <2> QED BY <2>1, <2>2 DEF Known
<1>13. Single'
  BY DEF Orderly, Single
<1> QED BY <1>9, <1>10, <1>11, <1>12, <1>13 DEF Orderly

LEMMA FindOrderly ==
  ASSUME PreKeysAssumption, Placed, Orderly, NEW o \in Ops, FindEffect(o), ~Confused'
  PROVE  Orderly'
<1>1. /\ keys'.held = keys.held /\ keys'.marked = keys.marked /\ keys'.next = keys.next
      /\ UNCHANGED <<server, peers>> /\ AtHead(o) /\ ops[o].at = "getting"
      /\ keys.next \in Nat
  BY KeyStoreIs DEF FindEffect, SameKeys, Placed, TypeOK
<1>2. /\ \A id \in Available : Released(id) => InHand(id)
      /\ \A id \in Available : id < keys.next /\ id \in Ids
  <2>1. keys.held \subseteq 1..(keys.next - 1) /\ keys.held \subseteq Ids
    BY KeyStoreIs DEF Placed, TypeOK
  <2> QED BY <1>1, <2>1 DEF Available, Orderly, Known
<1>3. CASE \E ids \in SUBSET Available : ids # {} /\ Offers(o, ids, keys.held)
  <2>1. PICK ids \in SUBSET Available : Offers(o, ids, keys.held)
    BY <1>3
  <2>2. /\ ids \in SUBSET Ids /\ \A id \in ids : Released(id) => InHand(id)
        /\ \A id \in ids : id < keys'.next
        /\ \A id \in keys'.held \ keys'.marked : id \in keys.held \ keys.marked \/ ~Released(id)
    BY <1>1, <1>2
  <2> QED BY <1>1, <2>1, <2>2, OffersOrderly
<1>4. CASE /\ ops'[o].at = "generating" /\ ops'[o].ids = Available
           /\ \A p \in Ops : p # o => ops'[p] = ops[p]
           /\ UNCHANGED <<keys, hist>>
  <2>1. \A p \in Ops : (Offering(p)' <=> Offering(p)) /\ (Confirmed(p)' <=> Confirmed(p))
    BY <1>1, <1>4 DEF Offering, Confirmed
  <2>2. \A p \in Ops : Offering(p) => ops'[p] = ops[p]
    BY <1>1, <1>4 DEF Offering
  <2>3. \A p \in Ops : Confirmed(p) => Offering(p)
    BY DEF Offering, Confirmed
  <2>4. \A id : InHand(id) => InHand(id)'
    BY <2>1, <2>2, <2>3 DEF InHand
  <2>5. \A id : Released(id)' <=> Released(id)
    BY <1>1 DEF Released
  <2>6. Apart'
    BY <2>1, <2>2 DEF Orderly, Apart
  <2>7. Before'
    BY <1>1, <1>2, <1>4, <2>1, <2>2, <2>5 DEF Orderly, Before
  <2>8. Fresh'
    BY <2>1, <2>2, <2>5 DEF Orderly, Fresh
  <2>9. Known'
    <3>1. \A id \in keys'.held \ keys'.marked : Released(id)' => InHand(id)'
      BY <1>1, <2>4, <2>5 DEF Orderly, Known
    <3>2. ASSUME NEW p \in Ops, ops'[p].at = "generating", NEW id \in ops'[p].ids, Released(id)'
          PROVE  InHand(id)'
      <4>1. CASE p = o
        BY <1>2, <1>4, <2>4, <2>5, <3>2, <4>1
      <4>2. CASE p # o
        BY <1>4, <2>4, <2>5, <3>2, <4>2 DEF Orderly, Known
      <4> QED BY <4>1, <4>2
    <3> QED BY <3>1, <3>2 DEF Known
  <2>10. Single'
    BY <1>1 DEF Orderly, Single
  <2> QED BY <2>6, <2>7, <2>8, <2>9, <2>10 DEF Orderly
<1> QED BY <1>3, <1>4 DEF FindEffect

LEMMA GenerateOrderly ==
  ASSUME PreKeysAssumption, Placed, Orderly, NEW o \in Ops, GenerateEffect(o), ~Confused'
  PROVE  Orderly'
<1>1. PICK m \in 1..Wanted(o) :
        LET new == keys.next..(keys.next + m - 1)
        IN /\ keys'.next = keys.next + m
           /\ keys'.held = Evicted(keys.held \cup new)
           /\ keys'.marked = keys.marked \cap keys'.held
           /\ new \subseteq Ids
           /\ Offers(o, ops[o].ids \cup new, Evicted(keys.held \cup new))
  BY DEF GenerateEffect
<1> DEFINE new == keys.next..(keys.next + m - 1)
           ids == ops[o].ids \cup new
<1>2. /\ keys'.next = keys.next + m /\ keys'.held = Evicted(keys.held \cup new)
      /\ keys'.marked = keys.marked \cap keys'.held
      /\ new \subseteq Ids /\ Offers(o, ids, Evicted(keys.held \cup new))
  BY <1>1
<1>3. /\ AtHead(o) /\ ops[o].at = "generating" /\ UNCHANGED <<server, peers>>
      /\ keys.next \in Nat /\ m \in Nat /\ m >= 1 /\ ops[o].ids \subseteq Ids
  BY KeyStoreIs, OpIs, WantedIs DEF GenerateEffect, Placed, TypeOK
<1>4. Ids \subseteq Nat
  BY BoundsAre
<1>5. \A id \in new : id \in Ids /\ id < keys.next + m /\ ~(id < keys.next)
  BY <1>2, <1>3
<1> HIDE DEF new
<1>6. \A id \in new : ~Released(id)
  BY <1>5 DEF Orderly, Before
<1>7. \A id \in ops[o].ids : id < keys.next /\ id \in Ids /\ (Released(id) => InHand(id))
  BY <1>3 DEF Orderly, Before, Known
<1>8. ids \in SUBSET Ids /\ \A id \in ids : Released(id) => InHand(id)
  BY <1>2, <1>3, <1>6, <1>7
<1>9. \A id \in ids : id < keys'.next
  <2>1. ASSUME NEW id \in ops[o].ids PROVE id < keys.next + m
    <3>1. id \in Nat /\ id < keys.next
      BY <1>4, <1>7
    <3> QED BY <1>3, <3>1
  <2> QED BY <1>2, <1>5, <2>1
<1>10. \A id \in keys'.held \ keys'.marked : id \in keys.held \ keys.marked \/ ~Released(id)
  BY <1>2, <1>6, EvictedIs
<1>11. keys'.next \in Nat /\ keys.next <= keys'.next
  BY <1>2, <1>3
<1> HIDE DEF ids
<1> QED BY <1>2, <1>3, <1>8, <1>9, <1>10, <1>11, OffersOrderly

LEMMA TakeOrderly ==
  ASSUME PreKeysAssumption, Placed, Orderly, NEW o \in Ops, TakesEffect(o), ops[o].at = "uploading"
  PROVE  Orderly'
<1>1. /\ \A p \in Ops : p # o => ops'[p] = ops[p]
      /\ ops[o].answer = "none" /\ ops'[o].answer = "ok" /\ ops'[o].at = "uploading"
      /\ ops'[o].ids = ops[o].ids /\ UNCHANGED <<keys, peers>>
      /\ server'.stock = server.stock \cup ops[o].ids
  BY DEF TakesEffect, Answered
<1>2. /\ Offering(o) /\ ~Confirmed(o) /\ Confirmed(o)'
      /\ \A p \in Ops : ops'[p].ids = ops[p].ids /\ ops'[p].at = ops[p].at
      /\ \A p \in Ops : Offering(p)' <=> Offering(p)
      /\ \A p \in Ops : p # o => (Confirmed(p)' <=> Confirmed(p))
  BY <1>1 DEF Offering, Confirmed
<1>3. \A id : InHand(id) => InHand(id)'
  BY <1>2 DEF InHand
<1>4. \A id \in ops[o].ids : InHand(id)' /\ ~Released(id)
  BY <1>2 DEF InHand, Orderly, Fresh
<1>5. \A id : Released(id)' <=> Released(id) \/ id \in ops[o].ids
  BY <1>1 DEF Released
<1>6. Apart'
  BY <1>2 DEF Orderly, Apart
<1>7. Before'
  BY <1>1, <1>2, <1>5 DEF Orderly, Before
<1>8. Fresh'
  <2> SUFFICES ASSUME NEW p \in Ops, Offering(p), ~Confirmed(p), p # o, NEW id \in ops[p].ids
               PROVE  ~Released(id) /\ id \notin ops[o].ids
    BY <1>2, <1>5 DEF Fresh
  <2>1. id \in Ids
    BY OpIs DEF Placed, TypeOK
  <2> QED BY <1>2, <2>1 DEF Orderly, Fresh, Apart
<1>9. Known'
  BY <1>1, <1>2, <1>3, <1>4, <1>5 DEF Orderly, Known
<1>10. Single'
  BY <1>1, <1>4 DEF Orderly, Single, Released
<1> QED BY <1>6, <1>7, <1>8, <1>9, <1>10 DEF Orderly

LEMMA FetchOrderly ==
  ASSUME PreKeysAssumption, Placed, Orderly, FetchEffect
  PROVE  Orderly'
<1>1. PICK id \in Ids : /\ id \in server.stock /\ server'.stock = server.stock \ {id} /\ Hands(id)
  BY DEF FetchEffect
<1>2. /\ UNCHANGED <<keys, ops>>
      /\ \A k \in Ids : peers'.handed[k] = IF k # id THEN peers.handed[k]
                                           ELSE IF peers.handed[k] = 0 THEN 1 ELSE 2
  BY <1>1 DEF FetchEffect, Hands
<1>3. \A k \in Ids : Released(k)' <=> Released(k)
  BY <1>1, <1>2 DEF Released
<1>4. \A k : InHand(k)' <=> InHand(k)
  BY <1>2 DEF InHand, Confirmed
<1>5. /\ \A o \in Ops : ops[o].ids \subseteq Ids
      /\ keys.held \subseteq Ids
  BY OpIs, KeyStoreIs DEF Placed, TypeOK
<1>6. Apart' /\ Before'
  BY <1>2, <1>3 DEF Orderly, Apart, Before, Offering
<1>7. Fresh'
  BY <1>2, <1>3, <1>5 DEF Orderly, Fresh, Offering, Confirmed
<1>8. Known'
  BY <1>2, <1>3, <1>4, <1>5 DEF Orderly, Known
<1>9. Single'
  BY <1>1, <1>2 DEF Orderly, Single
<1> QED BY <1>6, <1>7, <1>8, <1>9 DEF Orderly

LEMMA ReceiveOrderly ==
  ASSUME PreKeysAssumption, Placed, Orderly, ReceiveEffect
  PROVE  Orderly'
<1>1. /\ UNCHANGED <<ops, server>> /\ peers'.handed = peers.handed /\ keys'.next = keys.next
      /\ keys'.held \ keys'.marked \subseteq keys.held \ keys.marked
  BY DEF ReceiveEffect
<1>2. \A k : (Released(k)' <=> Released(k)) /\ (InHand(k)' <=> InHand(k))
  BY <1>1 DEF Released, InHand, Confirmed
<1>3. Apart' /\ Before' /\ Fresh'
  BY <1>1, <1>2 DEF Orderly, Apart, Before, Fresh, Offering, Confirmed
<1>4. Known'
  BY <1>1, <1>2 DEF Orderly, Known
<1>5. Single'
  BY <1>1 DEF Orderly, Single
<1> QED BY <1>3, <1>4, <1>5 DEF Orderly

LEMMA MarkOrderly ==
  ASSUME PreKeysAssumption, Placed, Orderly, NEW o \in Ops, MarkEffect(o)
  PROVE  Orderly'
<1> DEFINE last == Max(ops[o].ids)
<1>1. /\ last \in ops[o].ids /\ last \in Ids /\ \A k \in ops[o].ids : k <= last
      /\ ops[o].ids \subseteq Ids
  BY MaxOfKeys DEF MarkEffect
<1>2. /\ AtHead(o) /\ ops[o].at = "marking" /\ server' = server
      /\ keys'.held = keys.held /\ keys'.next = keys.next
      /\ keys'.marked = keys.marked \cup {k \in keys.held : k <= last}
      /\ \A p \in Ops : p # o => ops'[p] = ops[p]
  BY DEF MarkEffect, MarkedUpTo
<1>3. /\ ops'[o].at \notin {"generating", "uploading", "marking"}
      /\ \/ peers' = peers
         \/ o \in Receipts /\ Hands(last)
  BY IdleIs DEF MarkEffect
<1> HIDE DEF last
<1>4. \A p \in Ops : ops'[p].at # "generating"
  BY <1>2, <1>3 DEF Placed, Queued, AtHead
<1>5. /\ ~Offering(o)' /\ ~Confirmed(o)' /\ Offering(o)
      /\ \A p \in Ops : p # o => (Offering(p)' <=> Offering(p)) /\ (Confirmed(p)' <=> Confirmed(p))
  BY <1>2, <1>3 DEF Offering, Confirmed
\* The key that a receipt hands out was not released.
<1>6. o \in Receipts => ~Confirmed(o) /\ ~Released(last)
  BY <1>1, <1>2, <1>5 DEF Confirmed, Orderly, Fresh
<1>7. \A k \in Ids : Released(k)' => Released(k) \/ (o \in Receipts /\ k = last)
  BY <1>1, <1>2, <1>3 DEF Released, Hands
<1>8. last < keys.next
  BY <1>1, <1>5 DEF Orderly, Before
<1>9. Apart'
  BY <1>2, <1>5 DEF Orderly, Apart
<1>10. Before'
  BY <1>2, <1>4, <1>5, <1>7, <1>8 DEF Orderly, Before
<1>11. Fresh'
  <2> SUFFICES ASSUME NEW p \in Ops, Offering(p)', ~Confirmed(p)', NEW id \in ops'[p].ids
               PROVE  ~Released(id)'
    BY DEF Fresh
  <2>1. p # o /\ Offering(p) /\ ~Confirmed(p) /\ id \in ops[p].ids
    BY <1>2, <1>5
  <2>2. id \in Ids /\ ~Released(id) /\ id # last
    BY <1>1, <1>5, <2>1, OpIs DEF Orderly, Fresh, Apart, Placed, TypeOK
  <2> QED BY <1>7, <2>2
<1>12. Known'
  <2> SUFFICES ASSUME NEW id \in keys'.held \ keys'.marked, Released(id)'
               PROVE  InHand(id)'
    BY <1>4 DEF Known
  <2>1. id \in keys.held \ keys.marked /\ ~(id <= last) /\ id \in Ids
    BY <1>2, KeyStoreIs DEF Placed, TypeOK
  <2>2. last <= last
    BY <1>1, BoundsAre
  <2>3. Released(id)
    BY <1>7, <2>1, <2>2
  <2>4. PICK p \in Ops : Confirmed(p) /\ id \in ops[p].ids
    BY <2>1, <2>3 DEF Orderly, Known, InHand
  <2>5. p # o
    BY <1>1, <2>1, <2>4
  <2> QED BY <1>2, <1>5, <2>4, <2>5 DEF InHand
<1>13. Single'
  <2>1. CASE peers' = peers
    BY <1>2, <2>1 DEF Orderly, Single
  <2>2. CASE o \in Receipts /\ Hands(last)
    <3>1. last \notin server.stock /\ peers.handed[last] = 0
      BY <1>6, <2>2 DEF Released
    <3>2. \A k \in Ids : peers'.handed[k] = IF k # last THEN peers.handed[k]
                                            ELSE IF peers.handed[k] = 0 THEN 1 ELSE 2
      BY <2>2 DEF Hands
    <3> QED BY <1>2, <3>1, <3>2 DEF Orderly, Single
  <2> QED BY <1>3, <2>1, <2>2
<1> QED BY <1>9, <1>10, <1>11, <1>12, <1>13 DEF Orderly

LEMMA InitOrderly ==
  ASSUME PreKeysAssumption, Init
  PROVE  Orderly
<1>1. /\ server.stock = {} /\ \A k \in Ids : peers.handed[k] = 0
      /\ \A o \in Ops : ops[o] = Idle
  BY DEF Init
<1>2. /\ \A k \in Ids : ~Released(k)
      /\ \A o \in Ops : ~Offering(o) /\ ops[o].at # "generating"
  BY <1>1, IdleIs DEF Released, Offering
<1>3. keys.held \subseteq Ids
  BY InitPlaced, KeyStoreIs DEF Placed, TypeOK
<1> QED BY <1>1, <1>2, <1>3 DEF Orderly, Apart, Before, Fresh, Known, Single

LEMMA StepOnce ==
  ASSUME PreKeysAssumption, Placed, OnceOK, [Next]_vars
  PROVE  hist.lapses \subseteq hist'.lapses /\ OnceOK'
<1>1. ASSUME hist.lapses \subseteq hist'.lapses, ~Confused', Orderly => Orderly'
      PROVE  OnceOK'
  BY <1>1 DEF OnceOK, Confused, Except
<1>2. ASSUME NEW o \in Ops, FindKeys(o)
      PROVE  hist.lapses \subseteq hist'.lapses /\ OnceOK'
  <2>1. FindEffect(o)
    BY <1>2, FindKeysIs
  <2>2. hist.lapses \subseteq hist'.lapses
    BY <2>1 DEF FindEffect, Offers
  <2> QED BY <1>1, <2>1, <2>2, FindOrderly DEF OnceOK
<1>3. ASSUME NEW o \in Ops, Generate(o)
      PROVE  hist.lapses \subseteq hist'.lapses /\ OnceOK'
  <2>1. GenerateEffect(o)
    BY <1>3, GenerateIs
  <2>2. hist.lapses \subseteq hist'.lapses
    BY <2>1 DEF GenerateEffect, Offers
  <2> QED BY <1>1, <2>1, <2>2, GenerateOrderly DEF OnceOK
<1>4. ASSUME NEW o \in Ops, Mark(o)
      PROVE  hist.lapses \subseteq hist'.lapses /\ OnceOK'
  <2>1. MarkEffect(o)
    BY <1>4, MarkIs
  <2>2. hist' = hist
    BY <2>1 DEF MarkEffect
  <2> QED BY <1>1, <2>1, <2>2, MarkOrderly DEF OnceOK
<1>5. ASSUME NEW o \in Ops, ServerTakes(o), ops[o].at = "uploading"
      PROVE  hist.lapses \subseteq hist'.lapses /\ OnceOK'
  <2>1. TakesEffect(o)
    BY <1>5, ServerTakesIs
  <2>2. hist.lapses \subseteq hist'.lapses
    BY <2>1 DEF TakesEffect, Answered
  <2> QED BY <1>1, <1>5, <2>1, <2>2, TakeOrderly DEF OnceOK
<1>6. ASSUME Fetch
      PROVE  hist.lapses \subseteq hist'.lapses /\ OnceOK'
  <2>1. FetchEffect /\ hist.lapses \subseteq hist'.lapses
    BY <1>6, FetchIs DEF FetchEffect
  <2> QED BY <1>1, <2>1, FetchOrderly DEF OnceOK
<1>7. ASSUME Receive
      PROVE  hist.lapses \subseteq hist'.lapses /\ OnceOK'
  <2>1. ReceiveEffect /\ hist.lapses \subseteq hist'.lapses
    BY <1>7, ReceiveIs DEF ReceiveEffect
  <2> QED BY <1>1, <2>1, ReceiveOrderly DEF OnceOK
<1>8. ASSUME \/ \E o \in Ops :
                  \/ FlagsSet(o) \/ ReadBundle(o) \/ ServerRefuses(o) \/ ServerLists(o)
                  \/ UploadAnswered(o) \/ DigestAnswered(o) \/ RotateAnswered(o)
                  \/ Timeout(o) \/ (ServerTakes(o) /\ ops[o].at # "uploading")
             \/ StoreFlag \/ Save \/ WriteFails \/ Start \/ NotDue \/ Rotate
             \/ \E n \in Notices : LowArrives(n) \/ DigestArrives(n)
             \/ \E r \in Receipts : ReceiptBegins(r)
             \/ Connect \/ Load \/ Restored \/ Connected \/ Disconnect \/ Crash \/ SendNotice
      PROVE  hist.lapses \subseteq hist'.lapses /\ OnceOK'
  <2>1. hist.lapses \subseteq hist'.lapses /\ (Confused' \/ Aside)
    BY <1>8, AsideSteps
  <2> QED BY <1>1, <2>1, AsideOrderly DEF OnceOK
<1>9. CASE UNCHANGED vars
  <2>1. Aside /\ UNCHANGED hist
    BY <1>9 DEF vars, Aside, SameKeys
  <2> QED BY <1>1, <2>1, AsideOrderly DEF OnceOK
<1> QED BY <1>2, <1>3, <1>4, <1>5, <1>6, <1>7, <1>8, <1>9 DEF Next, WriteFails

\* A one-time key is handed out once, by the server or in a receipt, unless two
\* operations offered it side by side, an upload that was not answered was taken
\* all the same, or a crash interrupted one.
THEOREM PreKeysOnce == Spec => []HandedOutOnce
<1> USE PreKeysAssumption
<1> DEFINE Inv == Placed /\ OnceOK
<1>1. Init => Inv
  BY InitPlaced, InitOrderly DEF OnceOK
<1>2. Inv /\ [Next]_vars => Inv'
  BY StepPlaced, StepOnce
<1>3. Inv => HandedOutOnce
  BY DEF OnceOK, Orderly, Single, HandedOutOnce, Confused
<1> QED BY <1>1, <1>2, <1>3, PTL DEF Spec

-----------------------------------------------------------------------------
(* The keys that may come back are in the store.                           *)

\* Evicted drops none of the keys that were just generated: there are at most
\* MaxPreKeys of them, and they are the greatest.
LEMMA NewStays ==
  ASSUME PreKeysAssumption, NEW held \in SUBSET Ids, NEW next \in Nat, held \subseteq 1..(next - 1),
         NEW m \in Nat, m <= MaxPreKeys, next..(next + m - 1) \subseteq Ids
  PROVE  next..(next + m - 1) \subseteq Evicted(held \cup (next..(next + m - 1)))
<1> DEFINE new == next..(next + m - 1)
           all == held \cup new
<1>1. all \subseteq Ids /\ IsFiniteSet(all) /\ Cardinality(all) \in Nat
  <2>1. all \subseteq Ids
    OBVIOUS
  <2> HIDE DEF all
  <2> QED BY <2>1, KeysAreFinite
<1>2. IsFiniteSet(new) /\ Cardinality(new) = m
  <2>1. Cardinality(new) = IF next > next + m - 1 THEN 0 ELSE (next + m - 1) - next + 1
    BY FS_Interval
  <2>2. IsFiniteSet(new)
    BY FS_Interval
  <2> QED BY <2>1, <2>2
<1>3. MaxPreKeys \in Nat
  BY DEF PreKeysAssumption
<1> SUFFICES ASSUME NEW k \in new PROVE k \in Evicted(all)
  OBVIOUS
<1> DEFINE less == {j \in all : j < k}
           n == IF Cardinality(all) > MaxPreKeys THEN Cardinality(all) - MaxPreKeys ELSE 0
<1>4. ~(Cardinality(less) < n)
  <2>1. IsFiniteSet(less) /\ Cardinality(less) \in Nat
    BY <1>1, FS_Subset, FS_CardinalityType
  <2>2. all \subseteq less \cup new
    <3>1. ASSUME NEW j \in held PROVE j < k
      <4>1. j \in Nat /\ j <= next - 1 /\ k \in Nat /\ k >= next
        OBVIOUS
      <4> QED BY <4>1
    <3> QED BY <3>1
  <2>3. /\ IsFiniteSet(less \cup new)
        /\ Cardinality(less \cup new) =
             Cardinality(less) + Cardinality(new) - Cardinality(less \cap new)
    <3> HIDE DEF less, new
    <3> QED BY <1>2, <2>1, FS_Union
  <2>4. Cardinality(less \cap new) \in Nat
    <3>1. less \cap new \subseteq less
      OBVIOUS
    <3> HIDE DEF less, new
    <3> QED BY <2>1, <3>1, FS_Subset, FS_CardinalityType
  <2>5. Cardinality(all) <= Cardinality(less \cup new)
    <3> HIDE DEF less, new, all
    <3> QED BY <2>2, <2>3, FS_Subset
  <2> HIDE DEF less, new, all
  <2> QED BY <1>1, <1>2, <1>3, <2>1, <2>3, <2>4, <2>5
<1>5. k \notin Smallest(n, all)
  BY <1>4 DEF Smallest
<1>6. Evicted(all) = all \ Smallest(n, all)
  BY DEF Evicted
<1> QED BY <1>5, <1>6

Kept ==
  /\ \A id \in server.stock : id \in keys.held
  /\ \A m \in peers.flying : m.id \in keys.held /\ peers.handed[m.id] # 0
  /\ \A m, n \in peers.flying : m.id = n.id => m = n
  /\ \A o \in Ops : Offering(o) \/ ops[o].at = "generating" =>
       \A id \in ops[o].ids : peers.handed[id] = 0 => id \in keys.held
Muddled == Except({"overlap", "unanswered", "interrupted", "evicted"})
HeldOK == Muddled \/ Kept

LEMMA AsideKept ==
  ASSUME Kept, Aside
  PROVE  Kept'
<1>1. keys'.held = keys.held /\ server'.stock = server.stock /\ peers' = peers
  BY DEF Aside, SameKeys
<1>2. \A o \in Ops : Offering(o)' \/ ops'[o].at = "generating" =>
        (Offering(o) \/ ops[o].at = "generating") /\ ops'[o].ids = ops[o].ids
  BY AsideOps
<1> QED BY <1>1, <1>2 DEF Kept

LEMMA FindKept ==
  ASSUME PreKeysAssumption, Placed, Kept, NEW o \in Ops, FindEffect(o)
  PROVE  Kept'
<1>1. keys'.held = keys.held /\ UNCHANGED <<server, peers>> /\ Available \subseteq keys.held
  BY DEF FindEffect, SameKeys, Available
<1>2. /\ \A p \in Ops : p # o => ops'[p] = ops[p]
      /\ Offering(o)' \/ ops'[o].at = "generating" => ops'[o].ids \subseteq Available
  <2>1. CASE \E ids \in SUBSET Available : ids # {} /\ Offers(o, ids, keys.held)
    <3>1. PICK ids \in SUBSET Available : Offers(o, ids, keys.held)
      BY <2>1
    <3> QED BY <3>1, LeavesAside DEF Offers, Offered, Offering
  <2>2. CASE /\ ops'[o].at = "generating" /\ ops'[o].ids = Available
             /\ \A p \in Ops : p # o => ops'[p] = ops[p]
             /\ UNCHANGED <<keys, hist>>
    BY <2>2
  <2> QED BY <2>1, <2>2 DEF FindEffect
<1>3. \A p \in Ops : p # o => (Offering(p)' <=> Offering(p))
  BY <1>2 DEF Offering
<1>4. ASSUME NEW p \in Ops, Offering(p)' \/ ops'[p].at = "generating", NEW id \in ops'[p].ids,
             peers.handed[id] = 0
      PROVE  id \in keys.held
  <2>1. CASE p = o
    BY <1>1, <1>2, <1>4, <2>1
  <2>2. CASE p # o
    BY <1>2, <1>3, <1>4, <2>2 DEF Kept
  <2> QED BY <2>1, <2>2
<1> QED BY <1>1, <1>4 DEF Kept

\* The store makes room for the new keys, and none of those that count goes.
LEMMA GenerateKept ==
  ASSUME PreKeysAssumption, Placed, Orderly, Kept, NEW o \in Ops, GenerateEffect(o), ~Muddled'
  PROVE  Kept'
<1>1. PICK m \in 1..Wanted(o) :
        LET new == keys.next..(keys.next + m - 1)
        IN /\ keys'.next = keys.next + m
           /\ keys'.held = Evicted(keys.held \cup new)
           /\ keys'.marked = keys.marked \cap keys'.held
           /\ new \subseteq Ids
           /\ Offers(o, ops[o].ids \cup new, Evicted(keys.held \cup new))
  BY DEF GenerateEffect
<1> DEFINE new == keys.next..(keys.next + m - 1)
           ids == ops[o].ids \cup new
           lost == keys.held \ keys'.held
<1>2. /\ keys'.held = Evicted(keys.held \cup new) /\ new \subseteq Ids
      /\ Offers(o, ids, keys'.held)
  BY <1>1
<1>3. /\ AtHead(o) /\ ops[o].at = "generating" /\ UNCHANGED <<server, peers>>
      /\ keys.next \in Nat /\ m \in Nat /\ m <= MaxPreKeys /\ keys.held \in SUBSET Ids
      /\ keys.held \subseteq 1..(keys.next - 1)
  BY SMTT(30), KeyStoreIs, WantedIs DEF GenerateEffect, Placed, TypeOK, PreKeysAssumption
<1>4. new \subseteq keys'.held
  <2> DEFINE held == keys.held
             next == keys.next
  <2>1. /\ held \in SUBSET Ids /\ next \in Nat /\ held \subseteq 1..(next - 1) /\ m \in Nat
        /\ m <= MaxPreKeys /\ next..(next + m - 1) \subseteq Ids
    BY <1>2, <1>3
  <2> HIDE DEF held, next
  <2>2. next..(next + m - 1) \subseteq Evicted(held \cup (next..(next + m - 1)))
    BY <2>1, NewStays
  <2> QED BY <1>2, <2>2 DEF held, next
<1>5. /\ lost \cap (keys.marked \cup ids) = {}
      /\ \A p \in Others(o) : lost \cap ops[p].ids = {}
  BY <1>2 DEF Offers, Muddled, Except
<1> HIDE DEF new
<1>6. \A p \in Ops : p # o => ops'[p] = ops[p] /\ (Offering(p)' <=> Offering(p))
  BY <1>2 DEF Offers, Offering
<1>7. \A p \in Ops : p # o => ops[p].at # "generating"
  BY <1>3 DEF Placed, Queued, AtHead
<1>8. \A p \in Ops : p # o /\ Offering(p) => p \in Others(o)
  BY DEF Others, Offering
\* What was released and is in the store stays there: it is marked or in hand.
<1>9. ASSUME NEW id \in keys.held, Released(id) PROVE id \in keys'.held
  <2> SUFFICES ASSUME id \in lost PROVE FALSE
    OBVIOUS
  <2>1. id \notin keys.marked
    BY <1>5
  <2>2. PICK p \in Ops : Confirmed(p) /\ id \in ops[p].ids
    BY <1>9, <2>1 DEF Orderly, Known, InHand
  <2>3. p # o /\ Offering(p)
    BY <1>3, <2>2 DEF Confirmed, Offering
  <2> QED BY <1>5, <1>8, <2>2, <2>3
<1>10. \A id \in server.stock : id \in keys'.held
  BY <1>9 DEF Kept, Released
<1>11. \A f \in peers.flying : f.id \in keys'.held
  BY <1>9 DEF Kept, Released
<1>12. ASSUME NEW p \in Ops, Offering(p)' \/ ops'[p].at = "generating", NEW id \in ops'[p].ids,
              peers.handed[id] = 0
       PROVE  id \in keys'.held
  <2>1. CASE p # o
    <3>1. Offering(p) /\ id \in ops[p].ids
      BY <1>6, <1>7, <1>12, <2>1
    <3>2. id \in keys.held
      BY <1>12, <3>1 DEF Kept
    <3> QED BY <1>5, <1>8, <2>1, <3>1, <3>2
  <2>2. CASE p = o
    <3>1. id \in ids
      BY <1>2, <1>12, <2>2, LeavesAside DEF Offers, Offered, Offering
    <3>2. CASE id \in new
      BY <1>4, <3>2
    <3>3. CASE id \in ops[o].ids
      <4>1. id \in keys.held
        BY <1>3, <1>12, <3>3 DEF Kept
      <4> QED BY <1>5, <3>3, <4>1
    <3> QED BY <3>1, <3>2, <3>3
  <2> QED BY <2>1, <2>2
<1> QED BY <1>3, <1>10, <1>11, <1>12 DEF Kept

LEMMA TakeKept ==
  ASSUME PreKeysAssumption, Placed, Orderly, Kept, NEW o \in Ops, TakesEffect(o),
         ops[o].at = "uploading"
  PROVE  Kept'
<1>1. /\ \A p \in Ops : ops'[p].ids = ops[p].ids /\ ops'[p].at = ops[p].at
      /\ ops[o].answer = "none" /\ UNCHANGED <<keys, peers>>
      /\ server'.stock = server.stock \cup ops[o].ids
  BY DEF TakesEffect, Answered
<1>2. Offering(o) /\ ~Confirmed(o)
  BY <1>1 DEF Offering, Confirmed
<1>3. \A id \in ops[o].ids : peers.handed[id] = 0
  BY <1>2 DEF Orderly, Fresh, Released
<1>4. \A id \in ops[o].ids : id \in keys.held
  BY <1>2, <1>3 DEF Kept
<1> QED BY <1>1, <1>4 DEF Kept, Offering

\* A key that was not handed out before is given to a peer.
LEMMA HandsKept ==
  ASSUME PreKeysAssumption, Placed, Kept, NEW id \in Ids, Hands(id), peers.handed[id] = 0,
         id \in keys.held, keys'.held = keys.held, server'.stock \subseteq server.stock,
         \A p \in Ops : \/ ops'[p] = ops[p]
                       \/ ops'[p].at \notin {"generating", "uploading", "marking"}
  PROVE  Kept'
<1>1. PICK skey \in 0..None : peers'.flying = peers.flying \cup {[id |-> id, skey |-> skey]}
  BY DEF Hands
<1> DEFINE f == [id |-> id, skey |-> skey]
<1>2. /\ \A k \in Ids : peers'.handed[k] = IF k # id THEN peers.handed[k] ELSE 1
      /\ peers'.flying = peers.flying \cup {f} /\ f.id = id
  BY <1>1 DEF Hands
<1> HIDE DEF f
<1>3. \A m \in peers.flying : m.id # id /\ m.id \in Ids
  BY DEF Kept, Placed, TypeOK, Peers, Messages
<1>4. \A m \in peers'.flying : m.id \in keys'.held /\ peers'.handed[m.id] # 0
  BY <1>2, <1>3 DEF Kept
<1>5. \A m, n \in peers'.flying : m.id = n.id => m = n
  BY <1>2, <1>3 DEF Kept
<1>6. \A p \in Ops : Offering(p)' \/ ops'[p].at = "generating" => ops'[p] = ops[p]
  BY DEF Offering
<1>7. ASSUME NEW p \in Ops, Offering(p)' \/ ops'[p].at = "generating", NEW k \in ops'[p].ids,
             peers'.handed[k] = 0
      PROVE  k \in keys'.held
  <2>1. ops'[p] = ops[p] /\ (Offering(p) \/ ops[p].at = "generating")
    BY <1>6, <1>7 DEF Offering
  <2>2. k \in Ids
    BY <2>1, OpIs DEF Placed, TypeOK
  <2>3. peers.handed[k] = 0
    BY <1>2, <1>7, <2>2
  <2> QED BY <2>1, <2>3 DEF Kept
<1> QED BY <1>4, <1>5, <1>7 DEF Kept

LEMMA FetchKept ==
  ASSUME PreKeysAssumption, Placed, Orderly, Kept, FetchEffect
  PROVE  Kept'
<1>1. PICK id \in Ids : /\ id \in server.stock /\ server'.stock = server.stock \ {id} /\ Hands(id)
  BY DEF FetchEffect
<1>2. peers.handed[id] = 0 /\ id \in keys.held
  BY <1>1 DEF Orderly, Single, Kept
<1> QED BY <1>1, <1>2, HandsKept DEF FetchEffect

LEMMA MarkKept ==
  ASSUME PreKeysAssumption, Placed, Orderly, Kept, NEW o \in Ops, MarkEffect(o)
  PROVE  Kept'
<1> DEFINE last == Max(ops[o].ids)
<1>1. last \in ops[o].ids /\ last \in Ids
  BY MaxOfKeys DEF MarkEffect
<1>2. /\ server' = server /\ keys'.held = keys.held /\ ops[o].at = "marking"
      /\ \A p \in Ops : p # o => ops'[p] = ops[p]
      /\ ops'[o].at \notin {"generating", "uploading", "marking"}
      /\ \/ peers' = peers
         \/ o \in Receipts /\ Hands(last)
  BY IdleIs DEF MarkEffect
<1> HIDE DEF last
<1>3. CASE peers' = peers
  <2>1. \A p \in Ops : Offering(p)' \/ ops'[p].at = "generating" =>
          (Offering(p) \/ ops[p].at = "generating") /\ ops'[p].ids = ops[p].ids
    BY <1>2 DEF Offering
  <2> QED BY <1>2, <1>3, <2>1 DEF Kept
<1>4. CASE o \in Receipts /\ Hands(last)
  <2>1. Offering(o) /\ ~Confirmed(o)
    BY <1>2, <1>4 DEF Offering, Confirmed
  <2>2. peers.handed[last] = 0
    BY <1>1, <2>1 DEF Orderly, Fresh, Released
  <2>3. last \in keys.held
    BY <1>1, <2>1, <2>2 DEF Kept
  <2> QED BY <1>1, <1>2, <1>4, <2>2, <2>3, HandsKept
<1> QED BY <1>2, <1>3, <1>4

LEMMA ReceiveKept ==
  ASSUME PreKeysAssumption, Placed, Orderly, Kept, ReceiveEffect
  PROVE  Kept'
<1>1. PICK f \in peers.flying :
       /\ peers'.flying = peers.flying \ {f} /\ peers'.handed = peers.handed
       /\ keys'.held = keys.held \/ keys'.held = keys.held \ {f.id}
  BY DEF ReceiveEffect
<1>2. UNCHANGED <<ops, server>>
  BY DEF ReceiveEffect
<1>3. f.id \in Ids /\ peers.handed[f.id] # 0
  BY DEF Kept, Placed, TypeOK, Peers, Messages
<1>4. f.id \notin server.stock
  BY <1>3 DEF Orderly, Single
<1>5. \A m \in peers'.flying : m.id # f.id
  BY <1>1 DEF Kept
<1> QED BY <1>1, <1>2, <1>3, <1>4, <1>5 DEF Kept, Offering

LEMMA InitKept ==
  ASSUME PreKeysAssumption, Init
  PROVE  Kept
<1>1. /\ server.stock = {} /\ peers.flying = {}
      /\ \A o \in Ops : ops[o] = Idle
  BY DEF Init
<1> QED BY <1>1, IdleIs DEF Kept, Offering

LEMMA StepHeld ==
  ASSUME PreKeysAssumption, Placed, OnceOK, HeldOK, [Next]_vars
  PROVE  HeldOK'
<1>0. hist.lapses \subseteq hist'.lapses
  BY StepOnce
<1> SUFFICES ASSUME ~Muddled' PROVE Kept'
  BY DEF HeldOK
<1>1. Kept /\ Orderly /\ ~Confused'
  BY <1>0 DEF HeldOK, OnceOK, Muddled, Confused, Except
<1>2. ASSUME NEW o \in Ops, FindKeys(o) PROVE Kept'
  BY <1>1, <1>2, FindKeysIs, FindKept
<1>3. ASSUME NEW o \in Ops, Generate(o) PROVE Kept'
  BY <1>1, <1>3, GenerateIs, GenerateKept
<1>4. ASSUME NEW o \in Ops, Mark(o) PROVE Kept'
  BY <1>1, <1>4, MarkIs, MarkKept
<1>5. ASSUME NEW o \in Ops, ServerTakes(o), ops[o].at = "uploading" PROVE Kept'
  BY <1>1, <1>5, ServerTakesIs, TakeKept
<1>6. ASSUME Fetch PROVE Kept'
  BY <1>1, <1>6, FetchIs, FetchKept
<1>7. ASSUME Receive PROVE Kept'
  BY <1>1, <1>7, ReceiveIs, ReceiveKept
<1>8. ASSUME \/ \E o \in Ops :
                  \/ FlagsSet(o) \/ ReadBundle(o) \/ ServerRefuses(o) \/ ServerLists(o)
                  \/ UploadAnswered(o) \/ DigestAnswered(o) \/ RotateAnswered(o)
                  \/ Timeout(o) \/ (ServerTakes(o) /\ ops[o].at # "uploading")
             \/ StoreFlag \/ Save \/ WriteFails \/ Start \/ NotDue \/ Rotate
             \/ \E n \in Notices : LowArrives(n) \/ DigestArrives(n)
             \/ \E r \in Receipts : ReceiptBegins(r)
             \/ Connect \/ Load \/ Restored \/ Connected \/ Disconnect \/ Crash \/ SendNotice
      PROVE  Kept'
  BY <1>1, <1>8, AsideSteps, AsideKept
<1>9. CASE UNCHANGED vars
  <2>1. Aside
    BY <1>9 DEF vars, Aside, SameKeys
  <2> QED BY <1>1, <2>1, AsideKept
<1> QED BY <1>2, <1>3, <1>4, <1>5, <1>6, <1>7, <1>8, <1>9 DEF Next, WriteFails

\* A one-time key that is with the server, or that a message on its way was made
\* with, is in the store, with the exceptions of HandedOutOnce, or if the store
\* dropped keys that were marked or offered to make room.
THEOREM PreKeysHeld == Spec => []HandedOutIsHeld
<1> USE PreKeysAssumption
<1> DEFINE Inv == Placed /\ OnceOK /\ HeldOK
<1>1. Init => Inv
  BY InitPlaced, InitOrderly, InitKept DEF OnceOK, HeldOK
<1>2. Inv /\ [Next]_vars => Inv'
  BY StepPlaced, StepOnce, StepHeld
<1>3. Inv => HandedOutIsHeld
  BY DEF HeldOK, Kept, HandedOutIsHeld, Muddled
<1> QED BY <1>1, <1>2, <1>3, PTL DEF Spec

\* What goes wrong that the flag does not survive.
Unsure == Except({"side by side", "interrupted", "unsaved"})

\* Those who set the flags, and where they do, or have work that depends on them.
Uploaders == Ops \ Receipts
Lowered == {"clearing", "reading", "getting", "generating", "uploading", "marking"}
Engaged == Lowered \cup {"flagging"}
NoneAtWork == \A o \in Uploaders : ops[o].at = "idle"

\* A flag, and the writes of it in line: some operation will lower it, or has and
\* nothing raises it; and what it will be in the end.
Down(value, chain) ==
  /\ value => \E j \in 1..Len(chain) : ~chain[j].value /\ chain[j].by # Nobody
  /\ \A i \in 1..Len(chain) : chain[i].value =>
       \E j \in 1..Len(chain) : j > i /\ ~chain[j].value /\ chain[j].by # Nobody
Ends(value, chain) == IF chain = <<>> THEN value ELSE chain[Len(chain)].value

LEMMA DownIsWritten ==
  ASSUME NEW value \in BOOLEAN, NEW chain \in Seq(Writes), chain # <<>>, Down(value, chain)
  PROVE  Down(chain[1].value, Tail(chain))
<1> DEFINE new == Tail(chain)
<1>1. Len(chain) \in Nat \ {0} /\ Len(new) = Len(chain) - 1 /\ \A k \in 1..Len(new) : new[k] = chain[k + 1]
  BY TailIs
<1> HIDE DEF new
<1>2. ASSUME NEW i \in 1..Len(chain), chain[i].value
      PROVE  \E j \in 1..Len(new) : j > i - 1 /\ ~new[j].value /\ new[j].by # Nobody
  <2>1. PICK j \in 1..Len(chain) : j > i /\ ~chain[j].value /\ chain[j].by # Nobody
    BY <1>2 DEF Down
  <2>2. j - 1 \in 1..Len(new) /\ j - 1 > i - 1 /\ (j - 1) + 1 = j
    BY <1>1, <2>1
  <2> QED BY <1>1, <2>1, <2>2
<1>3. chain[1].value => \E j \in 1..Len(new) : ~new[j].value /\ new[j].by # Nobody
  <2>1. 1 \in 1..Len(chain)
    BY <1>1
  <2> QED BY <1>2, <2>1
<1>4. ASSUME NEW i \in 1..Len(new), new[i].value
      PROVE  \E j \in 1..Len(new) : j > i /\ ~new[j].value /\ new[j].by # Nobody
  <2>1. i + 1 \in 1..Len(chain) /\ (i + 1) - 1 = i /\ chain[i + 1].value
    BY <1>1, <1>4
  <2> QED BY <1>2, <2>1
<1> QED BY <1>3, <1>4 DEF Down, new

\* Another write that lowers it, or lowers it again.
LEMMA DownGoesOn ==
  ASSUME NEW value \in BOOLEAN, NEW chain \in Seq(Writes), NEW w \in Writes, ~w.value,
         Down(value, chain) \/ w.by # Nobody
  PROVE  Down(value, Append(chain, w))
<1> DEFINE new == Append(chain, w)
           n == Len(chain)
<1>1. /\ n \in Nat /\ Len(new) = n + 1 /\ new[n + 1] = w
      /\ \A k \in 1..n : new[k] = chain[k]
  BY AppendIs
<1> HIDE DEF new, n
<1>2. CASE w.by # Nobody
  <2>1. n + 1 \in 1..Len(new) /\ \A i \in 1..Len(new) : i # n + 1 => n + 1 > i
    BY <1>1
  <2>2. \A i \in 1..Len(new) : new[i].value => i # n + 1
    BY <1>1
  <2> QED BY <1>1, <1>2, <2>1, <2>2 DEF Down, new
<1>3. CASE Down(value, chain)
  <2>1. 1..n \subseteq 1..Len(new) /\ \A i \in 1..Len(new) : new[i].value => i \in 1..n
    BY <1>1
  <2>2. value => \E j \in 1..Len(new) : ~new[j].value /\ new[j].by # Nobody
    BY <1>1, <1>3, <2>1 DEF Down, n
  <2>3. ASSUME NEW i \in 1..Len(new), new[i].value
        PROVE  \E j \in 1..Len(new) : j > i /\ ~new[j].value /\ new[j].by # Nobody
    <3>1. i \in 1..n /\ chain[i].value
      BY <1>1, <2>1, <2>3
    <3>2. PICK j \in 1..n : j > i /\ ~chain[j].value /\ chain[j].by # Nobody
      BY <1>3, <3>1 DEF Down, n
    <3> QED BY <1>1, <2>1, <3>2
  <2> QED BY <2>2, <2>3 DEF Down, new
<1> QED BY <1>2, <1>3

LEMMA EndsIsWritten ==
  ASSUME NEW value, NEW chain \in Seq(Writes), chain # <<>>
  PROVE  Ends(chain[1].value, Tail(chain)) = Ends(value, chain)
<1> DEFINE new == Tail(chain)
<1>1. /\ Len(chain) \in Nat \ {0} /\ Len(new) = Len(chain) - 1 /\ new \in Seq(Writes)
      /\ \A k \in 1..Len(new) : new[k] = chain[k + 1]
  BY TailIs
<1> HIDE DEF new
<1>2. CASE new = <<>>
  <2>1. Len(chain) = 1
    BY <1>1, <1>2
  <2> QED BY <1>2, <2>1 DEF Ends, new
<1>3. CASE new # <<>>
  <2>1. Len(new) \in 1..Len(new) /\ Len(new) + 1 = Len(chain)
    BY <1>1, <1>3
  <2> QED BY <1>1, <1>3, <2>1 DEF Ends, new
<1> QED BY <1>2, <1>3

LEMMA EndsWithLast ==
  ASSUME NEW value, NEW chain \in Seq(Writes), NEW w \in Writes
  PROVE  Ends(value, Append(chain, w)) = w.value
BY AppendIs DEF Ends

-----------------------------------------------------------------------------
\* The saves that come before a load of the credentials, or before the next one.
Early(chain) == {i \in 1..Len(chain) : \A j \in 1..i : chain[j].does = "save"}
\* What that load will find is that the server has no keys; and what is saved later.
LoadsDown(saved, chain) ==
  /\ saved => \E j \in Early(chain) : ~chain[j].value
  /\ \A i \in Early(chain) : chain[i].value => \E j \in Early(chain) : j > i /\ ~chain[j].value
StaysDown(chain) == \A i \in 1..Len(chain) : chain[i].value => i \in Early(chain)
NoLoad(chain) == \A i \in 1..Len(chain) : chain[i].does = "save"

LEMMA EarlyIsAll ==
  ASSUME NEW chain \in Seq(Saves), NoLoad(chain)
  PROVE  Early(chain) = 1..Len(chain)
<1>1. Len(chain) \in Nat
  OBVIOUS
<1> QED BY <1>1 DEF Early, NoLoad

LEMMA EarlyIsSaved ==
  ASSUME NEW chain \in Seq(Saves), chain # <<>>, chain[1].does = "save",
         NEW i \in 1..Len(chain)
  PROVE  i \in Early(chain) <=> (i = 1 \/ (i - 1 \in 1..Len(Tail(chain)) /\ i - 1 \in Early(Tail(chain))))
<1> DEFINE new == Tail(chain)
<1>1. /\ Len(chain) \in Nat \ {0} /\ Len(new) = Len(chain) - 1
      /\ \A k \in 1..Len(new) : new[k] = chain[k + 1]
  BY TailIs
<1> HIDE DEF new
<1>2. CASE i = 1
  BY <1>1, <1>2 DEF Early
<1>3. CASE i # 1
  <2>1. i - 1 \in 1..Len(new)
    BY <1>1, <1>3
  <2>2. ASSUME i \in Early(chain) PROVE i - 1 \in Early(new)
    <3>1. \A j \in 1..(i - 1) : j \in 1..Len(new) /\ j + 1 \in 1..i
      BY <1>1, <2>1
    <3> QED BY <1>1, <2>1, <2>2, <3>1 DEF Early
  <2>3. ASSUME i - 1 \in Early(new) PROVE i \in Early(chain)
    <3>1. ASSUME NEW j \in 1..i PROVE chain[j].does = "save"
      <4>1. CASE j # 1
        <5>1. j - 1 \in 1..(i - 1) /\ j - 1 \in 1..Len(new) /\ (j - 1) + 1 = j
          BY <1>1, <2>1, <4>1
        <5> QED BY <1>1, <2>3, <5>1 DEF Early
      <4> QED BY <4>1
    <3> QED BY <3>1 DEF Early
  <2> QED BY <1>3, <2>1, <2>2, <2>3 DEF new
<1> QED BY <1>2, <1>3

LEMMA LoadsDownIsSaved ==
  ASSUME NEW saved \in BOOLEAN, NEW chain \in Seq(Saves), chain # <<>>, chain[1].does = "save"
  PROVE  /\ LoadsDown(saved, chain) => LoadsDown(chain[1].value, Tail(chain))
         /\ StaysDown(chain) => StaysDown(Tail(chain))
<1> DEFINE new == Tail(chain)
<1>1. /\ Len(chain) \in Nat \ {0} /\ Len(new) = Len(chain) - 1
      /\ \A k \in 1..Len(new) : new[k] = chain[k + 1]
  BY TailIs
<1>2. \A i \in 1..Len(chain) :
        i \in Early(chain) <=> (i = 1 \/ (i - 1 \in 1..Len(new) /\ i - 1 \in Early(new)))
  BY EarlyIsSaved
<1>3. Early(new) \subseteq 1..Len(new) /\ Early(chain) \subseteq 1..Len(chain)
  BY DEF Early
<1> HIDE DEF new
<1>4. ASSUME LoadsDown(saved, chain), NEW i \in Early(chain), chain[i].value
      PROVE  \E j \in Early(new) : j > i - 1 /\ ~new[j].value
  <2>1. PICK j \in Early(chain) : j > i /\ ~chain[j].value
    BY <1>4 DEF LoadsDown
  <2>2. j - 1 \in Early(new) /\ j - 1 > i - 1 /\ (j - 1) + 1 = j
    BY <1>2, <1>3, <2>1
  <2> QED BY <1>1, <1>3, <2>1, <2>2
<1>5. \A i \in Early(new) : i + 1 \in Early(chain) /\ new[i] = chain[i + 1] /\ (i + 1) - 1 = i
  <2> TAKE i \in Early(new)
  <2>1. i + 1 \in 1..Len(chain) /\ (i + 1) - 1 = i /\ i \in 1..Len(new)
    BY <1>1, <1>3
  <2> QED BY <1>1, <1>2, <2>1
<1>6. 1 \in Early(chain)
  <2>1. 1 \in 1..Len(chain)
    BY <1>1
  <2> QED BY <1>2, <2>1
<1>7. LoadsDown(saved, chain) => LoadsDown(chain[1].value, new)
  BY <1>4, <1>5, <1>6 DEF LoadsDown
<1>8. StaysDown(chain) => StaysDown(new)
  <2> SUFFICES ASSUME StaysDown(chain), NEW i \in 1..Len(new), new[i].value PROVE i \in Early(new)
    BY DEF StaysDown
  <2>1. i + 1 \in 1..Len(chain) /\ (i + 1) - 1 = i /\ i + 1 # 1
    BY <1>1
  <2>2. i + 1 \in Early(chain)
    BY <1>1, <2>1 DEF StaysDown
  <2> QED BY <1>2, <2>1, <2>2
<1> QED BY <1>7, <1>8 DEF new

\* Another save or load in line.
LEMMA EarlyGoesOn ==
  ASSUME NEW chain \in Seq(Saves), NEW w \in Saves
  PROVE  LET new == Append(chain, w)
             n == Len(chain)
         IN /\ Early(chain) \subseteq Early(new) /\ Early(chain) \subseteq 1..n
            /\ \A i \in Early(new) : i \in Early(chain) \/ i = n + 1
            /\ n + 1 \in Early(new) <=> NoLoad(chain) /\ w.does = "save"
<1> DEFINE new == Append(chain, w)
           n == Len(chain)
<1>1. /\ n \in Nat /\ Len(new) = n + 1 /\ new[n + 1] = w
      /\ \A k \in 1..n : new[k] = chain[k]
  BY AppendIs
<1> HIDE DEF new
<1>2. Early(chain) \subseteq 1..n
  BY DEF Early
<1>3. \A i \in 1..n : i \in 1..(n + 1) /\ \A j \in 1..i : j \in 1..n
  BY <1>1
<1>4. Early(chain) \subseteq Early(new)
  BY <1>1, <1>3 DEF Early
<1>5. ASSUME NEW i \in Early(new), i # n + 1 PROVE i \in Early(chain)
  <2>1. i \in 1..n
    BY <1>1, <1>5 DEF Early
  <2> QED BY <1>1, <1>3, <1>5, <2>1 DEF Early
<1>6. n + 1 \in Early(new) <=> NoLoad(chain) /\ w.does = "save"
  <2>1. n + 1 \in 1..Len(new) /\ \A j \in 1..(n + 1) : j \in 1..n \/ j = n + 1
    BY <1>1
  <2>2. \A j \in 1..n : j \in 1..(n + 1)
    BY <1>1
  <2> QED BY <1>1, <2>1, <2>2 DEF Early, NoLoad
<1> QED BY <1>2, <1>4, <1>5, <1>6 DEF new

LEMMA LoadsDownGoesOn ==
  ASSUME NEW saved \in BOOLEAN, NEW chain \in Seq(Saves), NEW w \in Saves
  PROVE  /\ (LoadsDown(saved, chain) /\ (w.value => w.does = "save" /\ ~NoLoad(chain)))
              => LoadsDown(saved, Append(chain, w))
         /\ (NoLoad(chain) /\ w.does = "save" /\ ~w.value) => LoadsDown(saved, Append(chain, w))
         /\ (StaysDown(chain) /\ ~w.value) => StaysDown(Append(chain, w))
         /\ (NoLoad(chain) /\ w.does = "save") => StaysDown(Append(chain, w))
<1> DEFINE new == Append(chain, w)
           n == Len(chain)
<1>1. /\ n \in Nat /\ Len(new) = n + 1 /\ new[n + 1] = w
      /\ \A k \in 1..n : new[k] = chain[k]
  BY AppendIs
<1>2. /\ Early(chain) \subseteq Early(new) /\ Early(chain) \subseteq 1..n
      /\ \A i \in Early(new) : i \in Early(chain) \/ i = n + 1
      /\ n + 1 \in Early(new) <=> NoLoad(chain) /\ w.does = "save"
  BY EarlyGoesOn
<1> HIDE DEF new, n
<1>3. ASSUME LoadsDown(saved, chain), w.value => w.does = "save" /\ ~NoLoad(chain)
      PROVE  LoadsDown(saved, new)
  <2>1. \A i \in Early(chain) : new[i] = chain[i]
    BY <1>1, <1>2
  <2>2. \A i \in Early(new) : new[i].value => i \in Early(chain)
    BY <1>1, <1>2, <1>3
  <2> QED BY <1>2, <1>3, <2>1, <2>2 DEF LoadsDown
<1>4. ASSUME NoLoad(chain), w.does = "save", ~w.value PROVE LoadsDown(saved, new)
  <2>1. n + 1 \in Early(new) /\ ~new[n + 1].value
    BY <1>1, <1>2, <1>4
  <2>2. \A i \in Early(new) : new[i].value => n + 1 > i
    BY <1>1, <1>2, <2>1
  <2> QED BY <2>1, <2>2 DEF LoadsDown
<1>5. ASSUME StaysDown(chain), ~w.value PROVE StaysDown(new)
  <2>1. \A i \in 1..Len(new) : i \in 1..n \/ i = n + 1
    BY <1>1
  <2> QED BY <1>1, <1>2, <1>5, <2>1 DEF StaysDown, n
<1>6. ASSUME NoLoad(chain), w.does = "save" PROVE StaysDown(new)
  <2>1. NoLoad(new)
    <3>1. \A i \in 1..Len(new) : i \in 1..n \/ i = n + 1
      BY <1>1
    <3> QED BY <1>1, <1>6, <3>1 DEF NoLoad, n
  <2>2. new \in Seq(Saves)
    BY AppendIs DEF new
  <2> QED BY <2>1, <2>2, EarlyIsAll DEF StaysDown
<1> QED BY <1>3, <1>4, <1>5, <1>6 DEF new

\* The load comes: it is the last in line.
LEMMA LoadFinds ==
  ASSUME NEW saved \in BOOLEAN, NEW chain \in Seq(Saves), chain # <<>>, chain[1].does = "load"
  PROVE  /\ LoadsDown(saved, chain) => ~saved
         /\ StaysDown(chain) => \A i \in 1..Len(chain) : ~chain[i].value
<1>1. Early(chain) = {}
  <2>1. \A i \in 1..Len(chain) : 1 \in 1..i
    OBVIOUS
  <2> QED BY <2>1 DEF Early
<1> QED BY <1>1 DEF LoadsDown, StaysDown

\* The chain holds no TRUE: whatever is read from it is down.
LEMMA AllDown ==
  ASSUME NEW chain \in Seq(Saves), \A i \in 1..Len(chain) : ~chain[i].value
  PROVE  LoadsDown(FALSE, chain) /\ StaysDown(chain)
BY DEF LoadsDown, StaysDown, Early

-----------------------------------------------------------------------------
\* One load at a time, which the connection waits for; then the store's flag is
\* written for it, and the credentials in memory replaced.
Restoring ==
  /\ \A i \in 1..Len(creds.chain) : creds.chain[i].does = "load" =>
       /\ link = "loading" /\ ~creds.chain[i].value
       /\ \A j \in 1..Len(creds.chain) : creds.chain[j].does = "load" => i = j
  /\ \A i \in 1..Len(flag.chain) : flag.chain[i].by = Nobody =>
       /\ link = "restoring"
       /\ \A j \in 1..Len(flag.chain) : flag.chain[j].by = Nobody => i = j
  /\ link # "restoring" => ~creds.loaded

\* One operation works on the flags, and who writes them waits for that.
Alone ==
  /\ \A o, p \in Uploaders : ops[o].at \in Engaged /\ ops[p].at \in Engaged => o = p
  /\ \A chain \in {flag.chain, creds.chain} : \A i \in 1..Len(chain) :
       chain[i].by # Nobody => ops[chain[i].by].at \in {"clearing", "flagging"}

\* The flag that the next restore brings is down.
NextDown ==
  /\ link = "restoring" => ~creds.loaded
  /\ link = "connecting" => ~creds.mem
  /\ link \notin {"restoring", "connecting"} => LoadsDown(creds.saved, creds.chain)
\* When connected, it is as in memory.
AsInMemory == link = "up" /\ ~creds.mem => LoadsDown(creds.saved, creds.chain)
\* It is not up when the flag of the store is down, except after a clean restart.
Agreed ==
  \/ NextDown \/ Ends(flag.value, flag.chain)
  \/ link \in {"down", "loading"} /\ NoneAtWork
\* A restore does not raise the flag while an operation is at work.
NotRaised ==
  \/ NoneAtWork
  \/ \A i \in 1..Len(flag.chain) : flag.chain[i].by = Nobody /\ flag.chain[i].value =>
       IF i = 1 THEN flag.value ELSE flag.chain[i - 1].value
\* While keys are on their way to the server, the flag is down, and stays so.
DownAtWork ==
  (\E o \in Uploaders : ops[o].at \in Lowered) => Down(flag.value, flag.chain) /\ NextDown

\* And from a low notice to the next upload, even when the process ends.
LowHandled == hist.low /\ ~Contains(server.line, LowNotice)
DownWhenLow ==
  LowHandled =>
    /\ Down(flag.value, flag.chain) /\ ~creds.mem /\ ~creds.loaded
    /\ LoadsDown(creds.saved, creds.chain) /\ StaysDown(creds.chain)
    /\ \A o \in Uploaders : /\ ops[o].at \notin {"marking", "flagging"}
                            /\ ~(ops[o].at = "uploading" /\ ops[o].answer = "ok")

Lowers == Alone /\ AsInMemory /\ Agreed /\ NotRaised /\ DownAtWork /\ DownWhenLow
FlagsOK == Restoring /\ (Unsure \/ Lowers)

-----------------------------------------------------------------------------
\* What p does in a step that leaves the flags alone.
Proceeds(p) ==
  /\ ops'[p].at \in Engaged => ops'[p].at = ops[p].at \/ ops[p].at \in Lowered
  /\ ops'[p].at = "flagging" => ops[p].at = "flagging"
  /\ ops[p].at \in {"clearing", "flagging"} => ops'[p].at = ops[p].at \/ ~Setting(p)
  /\ ops[p].at = "idle" => ops'[p].at = "idle" \/ link = "up"
  /\ LowHandled' =>
       /\ LowHandled
       /\ ops'[p].at = "marking" =>
            ops[p].at = "marking" \/ (ops[p].at = "uploading" /\ ops[p].answer = "ok")
       /\ ops'[p].at = "uploading" /\ ops'[p].answer = "ok" =>
            ops[p].at = "uploading" /\ ops[p].answer = "ok"
Steady ==
  /\ UNCHANGED <<flag, creds>> /\ (link' = link \/ (link = "up" /\ link' = "down"))
  /\ LowHandled' => LowHandled
  /\ \A p \in Uploaders : Proceeds(p)

\* Who writes the flags is an operation that may.
LEMMA WritersAre ==
  ASSUME Placed, Alone, NEW chain \in {flag.chain, creds.chain}, NEW i \in 1..Len(chain),
         chain[i].by # Nobody
  PROVE  /\ chain[i].by \in Uploaders /\ ops[chain[i].by].at \in {"clearing", "flagging"}
         /\ Setting(chain[i].by)
<1>1. flag.chain \in Seq(Writes) /\ creds.chain \in Seq(Saves)
  BY FlagIs, CredsAre DEF Placed, TypeOK
<1>2. chain[i].by \in Ops \cup {Nobody}
  <2>1. CASE chain = flag.chain
    <3>1. chain[i] \in Writes
      BY <1>1, <2>1
    <3> QED BY <3>1 DEF Writes
  <2>2. CASE chain = creds.chain
    <3>1. chain[i] \in Saves
      BY <1>1, <2>2
    <3> QED BY <3>1 DEF Saves
  <2> QED BY <2>1, <2>2
<1>3. ops[chain[i].by].at \in {"clearing", "flagging"}
  BY DEF Alone
<1>4. chain[i].by \in Ops /\ chain[i].by \notin Receipts
  BY <1>2, <1>3 DEF Placed, OpsFit, Fits
<1>5. DOMAIN chain = 1..Len(chain)
  BY <1>1
<1> QED BY <1>3, <1>4, <1>5 DEF Uploaders, Setting

LEMMA SteadyLowers ==
  ASSUME Placed, Restoring, Lowers, Steady
  PROVE  Restoring' /\ Lowers'
<1>1. UNCHANGED <<flag, creds>> /\ (link' = link \/ (link = "up" /\ link' = "down"))
  BY DEF Steady
<1>2. \A p \in Uploaders : Proceeds(p)
  BY DEF Steady
<1>3. Restoring'
  BY <1>1 DEF Restoring
<1>4. Alone'
  <2>1. \A o \in Uploaders : ops'[o].at \in Engaged => ops[o].at \in Engaged
    BY <1>2 DEF Proceeds, Engaged
  <2>2. ASSUME NEW chain \in {flag.chain, creds.chain}, NEW i \in 1..Len(chain), chain[i].by # Nobody
        PROVE  ops'[chain[i].by].at \in {"clearing", "flagging"}
    <3>1. /\ chain[i].by \in Uploaders /\ ops[chain[i].by].at \in {"clearing", "flagging"}
          /\ Setting(chain[i].by)
      BY <2>2, WritersAre DEF Lowers
    <3> QED BY <1>2, <3>1 DEF Proceeds
  <2> QED BY <1>1, <2>1, <2>2 DEF Alone, Lowers
<1>5. NextDown => NextDown'
  BY <1>1 DEF NextDown
<1>6. AsInMemory'
  BY <1>1 DEF AsInMemory, Lowers
<1>7. link # "up" => (NoneAtWork => NoneAtWork')
  BY <1>2 DEF NoneAtWork, Proceeds
<1>8. Agreed'
  BY <1>1, <1>5, <1>7 DEF Agreed, Lowers
<1>9. NotRaised'
  <2>1. CASE link = "up"
    <3>1. \A i \in 1..Len(flag.chain) : flag.chain[i].by # Nobody
      BY <2>1 DEF Restoring
    <3> QED BY <1>1, <3>1 DEF NotRaised
  <2>2. CASE link # "up"
    BY <1>1, <1>7, <2>2 DEF NotRaised, Lowers
  <2> QED BY <2>1, <2>2
<1>10. DownAtWork'
  <2>1. \A o \in Uploaders : ops'[o].at \in Lowered => ops[o].at \in Lowered
    BY <1>2 DEF Proceeds, Engaged
  <2> QED BY <1>1, <1>5, <2>1 DEF DownAtWork, Lowers
<1>11. DownWhenLow'
  <2> SUFFICES ASSUME LowHandled' PROVE DownWhenLow'
    BY DEF DownWhenLow
  <2>1. LowHandled
    BY DEF Steady
  <2>2. \A o \in Uploaders : /\ ops'[o].at \notin {"marking", "flagging"}
                             /\ ~(ops'[o].at = "uploading" /\ ops'[o].answer = "ok")
    BY <1>2, <2>1 DEF Proceeds, DownWhenLow, Lowers
  <2> QED BY <1>1, <2>1, <2>2 DEF DownWhenLow, Lowers
<1> QED BY <1>3, <1>4, <1>6, <1>8, <1>9, <1>10, <1>11 DEF Lowers

-----------------------------------------------------------------------------
\* Nobody works on the flags but o.
NoneBeside(o) == \A p \in Uploaders : p # o => ops[p].at \notin Engaged

LEMMA BesideIs ==
  ASSUME NEW o, hist'.lapses = hist.lapses \cup Beside(o)
  PROVE  hist'.lapses \cap {"side by side", "interrupted", "unsaved"} = {} => NoneBeside(o)
<1>1. "side by side" \notin Beside(o) => NoneBeside(o)
  BY DEF Beside, NoneBeside, Uploaders, Engaged, Lowered
<1> QED BY <1>1

\* The passive tasks find the flag down, and set out to upload.
LEMMA StartLowers ==
  ASSUME PreKeysAssumption, Placed, Restoring, Lowers, NoneBeside(Passive),
         ops[Passive].at = "starting", ops'[Passive].at = "getting",
         \A p \in Ops : p # Passive => ops'[p] = ops[p],
         UNCHANGED <<flag, creds, link>>, LowHandled' => LowHandled, ~flag.value
  PROVE  Restoring' /\ Lowers'
<1>1. Passive \in Uploaders /\ Passive \in Ops
  BY PassiveIs DEF Uploaders, PreKeysAssumption
<1>2. flag.chain \in Seq(Writes) /\ creds.chain \in Seq(Saves)
  BY FlagIs, CredsAre DEF Placed, TypeOK
<1>3. \A chain \in {flag.chain, creds.chain} : \A i \in 1..Len(chain) : chain[i].by = Nobody
  <2> SUFFICES ASSUME NEW chain \in {flag.chain, creds.chain}, NEW i \in 1..Len(chain),
                      chain[i].by # Nobody
               PROVE  FALSE
    OBVIOUS
  <2>1. chain[i].by \in Uploaders /\ ops[chain[i].by].at \in {"clearing", "flagging"}
    BY WritersAre DEF Lowers
  <2> QED BY <1>1, <2>1 DEF NoneBeside, Engaged, Lowered
<1>4. Restoring'
  BY DEF Restoring
<1>5. Alone'
  <2>1. \A o \in Uploaders : ops'[o].at \in Engaged => o = Passive
    BY DEF NoneBeside, Uploaders
  <2> QED BY <1>3, <2>1 DEF Alone
<1>6. ~NoneAtWork
  BY <1>1 DEF NoneAtWork
<1>7. \A i \in 1..Len(flag.chain) : i = 1 /\ Len(flag.chain) = 1 /\ ~flag.chain[i].value
  <2>1. ASSUME NEW i \in 1..Len(flag.chain) PROVE i = 1
    <3>1. 1 \in 1..Len(flag.chain) /\ i \in 1..Len(flag.chain)
      BY <1>2
    <3> QED BY <1>3, <3>1 DEF Restoring
  <2>2. ASSUME NEW i \in 1..Len(flag.chain) PROVE Len(flag.chain) = 1
    <3>1. Len(flag.chain) \in 1..Len(flag.chain)
      BY <1>2
    <3> QED BY <2>1, <3>1
  <2>3. ASSUME NEW i \in 1..Len(flag.chain) PROVE ~flag.chain[i].value
    BY <1>3, <1>6, <2>1 DEF Lowers, NotRaised
  <2> QED BY <2>1, <2>2, <2>3
<1>8. Down(flag.value, flag.chain) /\ ~Ends(flag.value, flag.chain)
  <2>1. Down(flag.value, flag.chain)
    BY <1>7 DEF Down
  <2>2. flag.chain # <<>> => Len(flag.chain) \in 1..Len(flag.chain)
    BY <1>2
  <2> QED BY <1>7, <2>1, <2>2 DEF Ends
<1>9. NextDown
  BY <1>6, <1>8 DEF Lowers, Agreed
<1>10. NextDown' /\ AsInMemory'
  BY <1>9 DEF NextDown, AsInMemory, Lowers
<1>11. Agreed' /\ DownAtWork'
  BY <1>8, <1>10 DEF Agreed, DownAtWork
<1>12. NotRaised'
  BY <1>6 DEF NotRaised, Lowers
<1>13. DownWhenLow'
  <2> SUFFICES ASSUME LowHandled' PROVE DownWhenLow'
    BY DEF DownWhenLow
  <2>1. \A o \in Uploaders : /\ ops'[o].at \notin {"marking", "flagging"}
                             /\ ~(ops'[o].at = "uploading" /\ ops'[o].answer = "ok")
    BY DEF NoneBeside, Engaged, Lowered, Uploaders
  <2> QED BY <2>1 DEF DownWhenLow, Lowers
<1> QED BY <1>4, <1>5, <1>10, <1>11, <1>12, <1>13 DEF Lowers

-----------------------------------------------------------------------------
\* o begins or ends its work by setting the flags; what follows from that for the
\* line of writes.
LEMMA FlagsLine ==
  ASSUME Placed, NEW o \in Ops, NEW value \in BOOLEAN, FlagsBecome(o, value)
  PROVE  LET f == [value |-> value, by |-> o]
             c == [does |-> "save", value |-> value, by |-> o]
         IN /\ f \in Writes /\ c \in Saves
            /\ \A i \in 1..Len(flag'.chain) :
                 \/ i \in 1..Len(flag.chain) /\ flag'.chain[i] = flag.chain[i]
                 \/ i = Len(flag.chain) + 1 /\ flag'.chain[i] = f
            /\ \A i \in 1..Len(creds'.chain) :
                 \/ i \in 1..Len(creds.chain) /\ creds'.chain[i] = creds.chain[i]
                 \/ i = Len(creds.chain) + 1 /\ creds'.chain[i] = c
            /\ Len(flag.chain) \in Nat /\ Len(creds.chain) \in Nat
<1> DEFINE f == [value |-> value, by |-> o]
           c == [does |-> "save", value |-> value, by |-> o]
<1>1. f \in Writes /\ c \in Saves
  BY DEF Writes, Saves
<1>2. flag.chain \in Seq(Writes) /\ creds.chain \in Seq(Saves)
  BY FlagIs, CredsAre DEF Placed, TypeOK
<1>3. flag'.chain = Append(flag.chain, f)
  BY DEF FlagsBecome
<1>4. creds'.chain = creds.chain \/ creds'.chain = Append(creds.chain, c)
  BY DEF FlagsBecome
<1>5. Len(flag.chain) \in Nat /\ Len(creds.chain) \in Nat
  BY <1>2
<1> HIDE DEF f, c
<1>6. \A i \in 1..Len(flag'.chain) :
        \/ i \in 1..Len(flag.chain) /\ flag'.chain[i] = flag.chain[i]
        \/ i = Len(flag.chain) + 1 /\ flag'.chain[i] = f
  <2>1. /\ Len(flag'.chain) = Len(flag.chain) + 1 /\ flag'.chain[Len(flag.chain) + 1] = f
        /\ \A k \in 1..Len(flag.chain) : flag'.chain[k] = flag.chain[k]
    BY <1>1, <1>2, <1>3, AppendIs
  <2> QED BY <1>5, <2>1
<1>7. \A i \in 1..Len(creds'.chain) :
        \/ i \in 1..Len(creds.chain) /\ creds'.chain[i] = creds.chain[i]
        \/ i = Len(creds.chain) + 1 /\ creds'.chain[i] = c
  <2>1. CASE creds'.chain = creds.chain
    BY <2>1
  <2>2. CASE creds'.chain = Append(creds.chain, c)
    <3>1. /\ Len(creds'.chain) = Len(creds.chain) + 1 /\ creds'.chain[Len(creds.chain) + 1] = c
          /\ \A k \in 1..Len(creds.chain) : creds'.chain[k] = creds.chain[k]
      BY <1>1, <1>2, <2>2, AppendIs
    <3> QED BY <1>5, <3>1
  <2> QED BY <1>4, <2>1, <2>2
<1> QED BY <1>1, <1>5, <1>6, <1>7 DEF f, c

LEMMA SettingRestoring ==
  ASSUME PreKeysAssumption, Placed, Restoring, NEW o \in Ops, NEW value \in BOOLEAN,
         FlagsBecome(o, value), link' = link
  PROVE  Restoring'
<1> DEFINE f == [value |-> value, by |-> o]
           c == [does |-> "save", value |-> value, by |-> o]
<1>1. /\ \A i \in 1..Len(flag'.chain) :
           \/ i \in 1..Len(flag.chain) /\ flag'.chain[i] = flag.chain[i]
           \/ i = Len(flag.chain) + 1 /\ flag'.chain[i] = f
      /\ \A i \in 1..Len(creds'.chain) :
           \/ i \in 1..Len(creds.chain) /\ creds'.chain[i] = creds.chain[i]
           \/ i = Len(creds.chain) + 1 /\ creds'.chain[i] = c
  BY FlagsLine
<1>2. f.by # Nobody /\ c.does # "load"
  BY DEF PreKeysAssumption
<1>3. creds'.loaded = creds.loaded
  BY DEF FlagsBecome
<1> HIDE DEF f, c
<1>4. \A i \in 1..Len(flag'.chain) : flag'.chain[i].by = Nobody =>
        i \in 1..Len(flag.chain) /\ flag'.chain[i] = flag.chain[i]
  BY <1>1, <1>2
<1>5. \A i \in 1..Len(creds'.chain) : creds'.chain[i].does = "load" =>
        i \in 1..Len(creds.chain) /\ creds'.chain[i] = creds.chain[i]
  BY <1>1, <1>2
<1> QED BY <1>3, <1>4, <1>5 DEF Restoring

LEMMA SettingAlone ==
  ASSUME Placed, Alone, NEW o \in Uploaders, NEW value \in BOOLEAN, FlagsBecome(o, value),
         NoneBeside(o), ops[o].at \notin {"clearing", "flagging"},
         ops'[o].at \in {"clearing", "flagging"},
         \A p \in Ops : p # o => ops'[p] = ops[p]
  PROVE  Alone'
<1> DEFINE f == [value |-> value, by |-> o]
           c == [does |-> "save", value |-> value, by |-> o]
<1>0. o \in Ops
  BY DEF Uploaders
<1>1. /\ \A i \in 1..Len(flag'.chain) :
           \/ i \in 1..Len(flag.chain) /\ flag'.chain[i] = flag.chain[i]
           \/ i = Len(flag.chain) + 1 /\ flag'.chain[i] = f
      /\ \A i \in 1..Len(creds'.chain) :
           \/ i \in 1..Len(creds.chain) /\ creds'.chain[i] = creds.chain[i]
           \/ i = Len(creds.chain) + 1 /\ creds'.chain[i] = c
  BY <1>0, FlagsLine
<1>2. f.by = o /\ c.by = o
  OBVIOUS
<1> HIDE DEF f, c
<1>3. \A p \in Uploaders : ops'[p].at \in Engaged => p = o
  BY DEF NoneBeside, Uploaders
<1>4. \A chain \in {flag.chain, creds.chain} : \A i \in 1..Len(chain) : chain[i].by = Nobody
  <2> SUFFICES ASSUME NEW chain \in {flag.chain, creds.chain}, NEW i \in 1..Len(chain),
                      chain[i].by # Nobody
               PROVE  FALSE
    OBVIOUS
  <2>1. chain[i].by \in Uploaders /\ ops[chain[i].by].at \in {"clearing", "flagging"}
    BY WritersAre
  <2> QED BY <2>1 DEF NoneBeside, Engaged, Lowered
<1>5. \A i \in 1..Len(flag'.chain) : flag'.chain[i].by \in {Nobody, o}
  BY <1>1, <1>2, <1>4
<1>6. \A i \in 1..Len(creds'.chain) : creds'.chain[i].by \in {Nobody, o}
  BY <1>1, <1>2, <1>4
<1> QED BY <1>3, <1>5, <1>6 DEF Alone

\* An upload is complete: the flags are raised.
LEMMA RaiseLowers ==
  ASSUME PreKeysAssumption, Placed, Restoring, Lowers, NEW o \in Uploaders,
         ops[o].at = "marking", ops'[o].at = "flagging", FlagsBecome(o, TRUE),
         \A p \in Ops : p # o => ops'[p] = ops[p],
         link' = link, LowHandled' => LowHandled
  PROVE  Restoring' /\ Lowers'
<1> DEFINE f == [value |-> TRUE, by |-> o]
<1>1. o \in Ops /\ o # Nobody
  BY DEF Uploaders, PreKeysAssumption
<1>2. NoneBeside(o)
  BY DEF NoneBeside, Lowers, Alone, Engaged, Lowered
<1>3. Restoring'
  BY <1>1, SettingRestoring
<1>4. Alone'
  BY <1>2, SettingAlone DEF Lowers
<1>5. AsInMemory'
  BY DEF AsInMemory, FlagsBecome
<1>6. /\ f \in Writes /\ flag'.chain = Append(flag.chain, f) /\ flag.chain \in Seq(Writes)
      /\ Len(flag.chain) \in Nat /\ flag'.value = flag.value
      /\ \A i \in 1..Len(flag'.chain) :
           \/ i \in 1..Len(flag.chain) /\ flag'.chain[i] = flag.chain[i]
           \/ i = Len(flag.chain) + 1 /\ flag'.chain[i] = f
      /\ \A i \in 1..Len(flag.chain) : flag'.chain[i] = flag.chain[i]
  <2>1. f \in Writes /\ flag'.chain = Append(flag.chain, f) /\ flag'.value = flag.value
    BY <1>1 DEF Writes, FlagsBecome
  <2>2. flag.chain \in Seq(Writes)
    BY FlagIs DEF Placed, TypeOK
  <2> HIDE DEF f
  <2>3. \A i \in 1..Len(flag.chain) : flag'.chain[i] = flag.chain[i]
    BY <2>1, <2>2, AppendIs
  <2> QED BY <1>1, <2>1, <2>2, <2>3, FlagsLine DEF f
<1>7. f.value = TRUE /\ f.by # Nobody
  BY <1>1
<1> HIDE DEF f
<1>8. Agreed'
  <2>1. Ends(flag'.value, flag'.chain) = f.value
    BY <1>6, EndsWithLast
  <2> QED BY <1>7, <2>1 DEF Agreed
<1>9. NotRaised'
  <2>1. ~NoneAtWork
    BY DEF NoneAtWork
  <2>2. ASSUME NEW i \in 1..Len(flag'.chain), flag'.chain[i].by = Nobody, flag'.chain[i].value
        PROVE  IF i = 1 THEN flag'.value ELSE flag'.chain[i - 1].value
    <3>1. i \in 1..Len(flag.chain) /\ flag'.chain[i] = flag.chain[i]
      BY <1>6, <1>7, <2>2
    <3>2. IF i = 1 THEN flag.value ELSE flag.chain[i - 1].value
      BY <2>1, <2>2, <3>1 DEF Lowers, NotRaised
    <3>3. i # 1 => i - 1 \in 1..Len(flag.chain)
      BY <1>6, <3>1
    <3> QED BY <1>6, <3>2, <3>3
  <2> QED BY <2>2 DEF NotRaised
<1>10. DownAtWork'
  <2>1. \A p \in Uploaders : ops'[p].at \notin Lowered
    BY <1>2 DEF NoneBeside, Engaged, Lowered, Uploaders
  <2> QED BY <2>1 DEF DownAtWork
<1>11. DownWhenLow'
  BY DEF DownWhenLow, Lowers
<1> QED BY <1>3, <1>4, <1>5, <1>8, <1>9, <1>10, <1>11 DEF Lowers

\* The flags are to be lowered, before an upload.
LEMMA LowerLowers ==
  ASSUME PreKeysAssumption, Placed, Restoring, Lowers, NEW o \in Uploaders, NoneBeside(o),
         ops[o].at \in {"idle", "digesting"}, ops'[o].at = "clearing", FlagsBecome(o, FALSE),
         \A p \in Ops : p # o => ops'[p] = ops[p],
         link = "up", link' = "up"
  PROVE  Restoring' /\ Lowers'
<1> DEFINE f == [value |-> FALSE, by |-> o]
           c == [does |-> "save", value |-> FALSE, by |-> o]
<1>1. o \in Ops /\ o # Nobody
  BY DEF Uploaders, PreKeysAssumption
<1>2. Restoring'
  BY <1>1, SettingRestoring
<1>3. Alone'
  BY SettingAlone DEF Lowers
<1>4. /\ f \in Writes /\ c \in Saves /\ f.value = FALSE /\ f.by # Nobody
      /\ c.does = "save" /\ c.value = FALSE
  BY <1>1 DEF Writes, Saves
<1>5. /\ flag'.chain = Append(flag.chain, f) /\ flag'.value = flag.value
      /\ creds'.saved = creds.saved /\ creds'.mem = FALSE /\ creds'.loaded = creds.loaded
      /\ creds'.chain = IF creds.mem = FALSE THEN creds.chain ELSE Append(creds.chain, c)
  BY DEF FlagsBecome
<1>6. /\ flag.chain \in Seq(Writes) /\ creds.chain \in Seq(Saves)
      /\ flag.value \in BOOLEAN /\ creds.saved \in BOOLEAN /\ creds.mem \in BOOLEAN
  BY FlagIs, CredsAre DEF Placed, TypeOK
<1> HIDE DEF f, c
<1>7. NoLoad(creds.chain)
  <2>1. \A i \in 1..Len(creds.chain) : creds.chain[i].does # "load"
    BY DEF Restoring
  <2>2. \A i \in 1..Len(creds.chain) : creds.chain[i] \in Saves
    BY <1>6
  <2> QED BY <2>1, <2>2 DEF NoLoad, Saves
<1>8. Down(flag'.value, flag'.chain)
  BY <1>4, <1>5, <1>6, DownGoesOn
<1>9. LoadsDown(creds'.saved, creds'.chain) /\ StaysDown(creds'.chain)
  <2>1. CASE creds.mem = FALSE
    <3>1. LoadsDown(creds.saved, creds.chain)
      BY <2>1 DEF Lowers, AsInMemory
    <3>2. StaysDown(creds.chain)
      BY <1>6, <1>7, EarlyIsAll DEF StaysDown
    <3> QED BY <1>5, <2>1, <3>1, <3>2
  <2>2. CASE creds.mem # FALSE
    <3>1. creds'.chain = Append(creds.chain, c)
      BY <1>5, <2>2
    <3>2. LoadsDown(creds.saved, Append(creds.chain, c)) /\ StaysDown(Append(creds.chain, c))
      BY <1>4, <1>6, <1>7, LoadsDownGoesOn
    <3> QED BY <1>5, <3>1, <3>2
  <2> QED BY <2>1, <2>2
<1>10. NextDown' /\ AsInMemory'
  BY <1>9 DEF NextDown, AsInMemory
<1>11. Agreed' /\ DownAtWork'
  BY <1>8, <1>10 DEF Agreed, DownAtWork
<1>12. NotRaised'
  <2>1. \A i \in 1..Len(flag'.chain) : flag'.chain[i].by # Nobody
    BY <1>2 DEF Restoring
  <2> QED BY <2>1 DEF NotRaised
<1>13. DownWhenLow'
  <2>1. \A p \in Uploaders : /\ ops'[p].at \notin {"marking", "flagging"}
                             /\ ~(ops'[p].at = "uploading" /\ ops'[p].answer = "ok")
    BY DEF NoneBeside, Engaged, Lowered, Uploaders
  <2>2. ~creds'.loaded
    BY <1>5 DEF Restoring
  <2> QED BY <1>5, <1>8, <1>9, <2>1, <2>2 DEF DownWhenLow
<1> QED BY <1>2, <1>3, <1>10, <1>11, <1>12, <1>13 DEF Lowers

-----------------------------------------------------------------------------
(* What the steps of the connection and of the stores do to the flags.     *)

LEMMA TailShifts ==
  ASSUME NEW S, NEW q \in Seq(S), q # <<>>
  PROVE  \A i \in 1..Len(Tail(q)) : /\ i \in Nat \ {0} /\ i + 1 \in 1..Len(q)
                                    /\ Tail(q)[i] = q[i + 1]
<1>1. Len(q) \in Nat \ {0} /\ Len(Tail(q)) = Len(q) - 1 /\ \A k \in 1..Len(Tail(q)) : Tail(q)[k] = q[k + 1]
  BY TailIs
<1> QED BY <1>1

LEMMA AppendSplits ==
  ASSUME NEW S, NEW q \in Seq(S), NEW e \in S
  PROVE  \A i \in 1..Len(Append(q, e)) : \/ i \in 1..Len(q) /\ Append(q, e)[i] = q[i]
                                         \/ i = Len(q) + 1 /\ Append(q, e)[i] = e
<1>1. /\ Len(q) \in Nat /\ Len(Append(q, e)) = Len(q) + 1
      /\ \A k \in 1..Len(q) : Append(q, e)[k] = q[k]
      /\ Append(q, e)[Len(q) + 1] = e
  BY AppendIs
<1> QED BY <1>1

\* Connect puts a load of the credentials in line.
LEMMA ConnectFlags ==
  ASSUME Placed, Connect
  PROVE  LET w == [does |-> "load", value |-> FALSE, by |-> Nobody]
         IN /\ UNCHANGED <<flag, ops, server>> /\ link = "down" /\ link' = "loading"
            /\ w \in Saves /\ creds'.chain = Append(creds.chain, w) /\ Remembers
            /\ creds'.mem = creds.mem /\ creds'.saved = creds.saved /\ creds'.loaded = creds.loaded
<1> DEFINE w == [does |-> "load", value |-> FALSE, by |-> Nobody]
<1>1. w \in Saves /\ creds \in Credentials /\ creds' = [creds EXCEPT !.chain = Append(@, w)]
  BY DEF Saves, Connect, Placed, TypeOK
<1> HIDE DEF w
<1>2. /\ creds'.chain = Append(creds.chain, w)
      /\ creds'.mem = creds.mem /\ creds'.saved = creds.saved /\ creds'.loaded = creds.loaded
  BY <1>1, CredsPut
<1> QED BY <1>1, <1>2, ConnectIs DEF Elsewhere, Connect, w

\* Load reads them, and has the flag written for that.
LEMMA LoadFlags ==
  ASSUME PreKeysAssumption, Placed, Load
  PROVE  LET w == [value |-> creds.saved, by |-> Nobody]
         IN /\ UNCHANGED <<ops, server>> /\ link' = "restoring" /\ Remembers
            /\ w \in Writes /\ flag'.value = flag.value /\ flag'.chain = Append(flag.chain, w)
            /\ creds.chain # <<>> /\ creds.chain[1].does = "load"
            /\ creds'.chain = Tail(creds.chain) /\ creds'.loaded = creds.saved
            /\ creds'.mem = creds.mem /\ creds'.saved = creds.saved
<1> DEFINE w == [value |-> creds.saved, by |-> Nobody]
<1>1. w \in Writes /\ flag \in Flags /\ flag' = [flag EXCEPT !.chain = Append(@, w)]
  BY CredsAre DEF Writes, Load, Placed, TypeOK
<1> HIDE DEF w
<1>2. flag' = [flag EXCEPT !.chain = Append(flag.chain, w)]
  BY <1>1
<1>3. flag'.value = flag.value /\ flag'.chain = Append(flag.chain, w)
  BY <1>1, <1>2, FlagPut
<1> QED BY <1>1, <1>3, LoadIs DEF Elsewhere, Load, w

LEMMA RestoredFlags ==
  ASSUME Placed, Restored
  PROVE  /\ UNCHANGED <<flag, ops, server, hist>> /\ link = "restoring" /\ link' = "connecting"
         /\ \A i \in 1..Len(flag.chain) : flag.chain[i].by # Nobody
         /\ creds'.mem = creds.loaded /\ creds'.loaded = FALSE
         /\ creds'.saved = creds.saved /\ creds'.chain = creds.chain
<1>1. flag.chain \in Seq(Writes) /\ creds \in Credentials
  BY FlagIs DEF Placed, TypeOK
<1>2. DOMAIN flag.chain = 1..Len(flag.chain)
  BY <1>1
<1> QED BY <1>1, <1>2 DEF Restored, Credentials

\* Connected has them saved as they are in memory.
LEMMA ConnectedFlags ==
  ASSUME Placed, Connected
  PROVE  LET w == [does |-> "save", value |-> creds.mem, by |-> Nobody]
         IN /\ UNCHANGED <<flag, ops, server, hist>> /\ link = "connecting" /\ link' = "up"
            /\ w \in Saves /\ creds'.chain = Append(creds.chain, w)
            /\ creds'.mem = creds.mem /\ creds'.saved = creds.saved /\ creds'.loaded = creds.loaded
<1> DEFINE w == [does |-> "save", value |-> creds.mem, by |-> Nobody]
<1>1. w \in Saves /\ creds \in Credentials /\ creds' = [creds EXCEPT !.chain = Append(@, w)]
  BY CredsAre DEF Saves, Connected, Placed, TypeOK
<1> HIDE DEF w
<1>2. creds' = [creds EXCEPT !.chain = Append(creds.chain, w)]
  BY <1>1
<1>3. /\ creds'.chain = Append(creds.chain, w)
      /\ creds'.mem = creds.mem /\ creds'.saved = creds.saved /\ creds'.loaded = creds.loaded
  BY <1>1, <1>2, CredsPut
<1> QED BY <1>1, <1>3 DEF Connected, w

\* A write that fails is dropped.
LEMMA WriteFailsFlags ==
  ASSUME Placed, WriteFails
  PROVE  /\ link' = link /\ creds'.loaded = creds.loaded
         /\ \/ /\ flag'.chain = flag.chain
               /\ creds.chain # <<>> /\ creds'.chain = Tail(creds.chain)
            \/ /\ creds'.chain = creds.chain
               /\ flag.chain # <<>> /\ flag'.chain = Tail(flag.chain)
<1>1. CASE SaveFails
  BY <1>1 DEF SaveFails, Placed, TypeOK, Credentials
<1>2. CASE StoreFlagFails
  BY <1>2 DEF StoreFlagFails, Placed, TypeOK, Flags
<1> QED BY <1>1, <1>2 DEF WriteFails

\* A crash keeps some write of each that was under way, or none.
CrashFlagged ==
  /\ flag'.chain = <<>> /\ creds'.chain = <<>> /\ link' = "down"
  /\ flag'.value = flag.value \/ \E i \in 1..Len(flag.chain) : flag'.value = flag.chain[i].value
  /\ \/ creds'.saved = creds.saved
     \/ \E i \in 1..Len(creds.chain) : creds.chain[i].does = "save"
  /\ creds'.mem = creds'.saved /\ creds'.loaded = FALSE
LEMMA CrashFlags ==
  ASSUME Placed, Crash
  PROVE  CrashFlagged
<1>1. flag.chain \in Seq(Writes) /\ creds.chain \in Seq(Saves)
  BY FlagIs, CredsAre DEF Placed, TypeOK
<1>2. DOMAIN flag.chain = 1..Len(flag.chain) /\ DOMAIN creds.chain = 1..Len(creds.chain)
  BY <1>1
<1>3. PICK v \in {flag.value} \cup {flag.chain[i].value : i \in DOMAIN flag.chain} :
           flag' = [value |-> v, chain |-> <<>>]
  BY DEF Crash
<1>4. PICK u \in {creds.saved} \cup {creds.chain[i].value : i \in {j \in DOMAIN creds.chain :
                                                              creds.chain[j].does = "save"}} :
           creds' = [mem |-> u, saved |-> u, loaded |-> FALSE, chain |-> <<>>]
  BY DEF Crash
<1>5. flag'.value = flag.value \/ \E i \in 1..Len(flag.chain) : flag'.value = flag.chain[i].value
  BY <1>2, <1>3
<1>6. creds'.saved = creds.saved \/ \E i \in 1..Len(creds.chain) : creds.chain[i].does = "save"
  BY <1>2, <1>4
<1>7. link' = "down"
  BY DEF Crash
<1> QED BY <1>3, <1>4, <1>5, <1>6, <1>7 DEF CrashFlagged

-----------------------------------------------------------------------------
(* One load at a time.                                                     *)

\* The first write that is under way is done, or dropped.
LEMMA DoneRestoring ==
  ASSUME Placed, Restoring, link' = link, creds'.loaded = creds.loaded,
         \/ flag'.chain = flag.chain
         \/ flag.chain # <<>> /\ flag'.chain = Tail(flag.chain),
         \/ creds'.chain = creds.chain
         \/ creds.chain # <<>> /\ creds'.chain = Tail(creds.chain)
  PROVE  Restoring'
<1> DEFINE f == flag.chain
           c == creds.chain
           newf == flag'.chain
           newc == creds'.chain
<1>1. f \in Seq(Writes) /\ c \in Seq(Saves)
  BY FlagIs, CredsAre DEF Placed, TypeOK
<1>2. PICK m \in {0, 1} : \A i \in 1..Len(newf) : i \in Nat /\ i + m \in 1..Len(f) /\ newf[i] = f[i + m]
  <2>1. CASE newf = f
    <3>1. \A i \in 1..Len(newf) : i \in Nat /\ i + 0 \in 1..Len(f) /\ newf[i] = f[i + 0]
      BY <1>1, <2>1
    <3> QED BY <3>1
  <2>2. CASE f # <<>> /\ newf = Tail(f)
    <3>1. \A i \in 1..Len(newf) : i \in Nat /\ i + 1 \in 1..Len(f) /\ newf[i] = f[i + 1]
      BY <1>1, <2>2, TailShifts
    <3> QED BY <3>1
  <2> QED BY <2>1, <2>2
<1>3. PICK n \in {0, 1} : \A i \in 1..Len(newc) : i \in Nat /\ i + n \in 1..Len(c) /\ newc[i] = c[i + n]
  <2>1. CASE newc = c
    <3>1. \A i \in 1..Len(newc) : i \in Nat /\ i + 0 \in 1..Len(c) /\ newc[i] = c[i + 0]
      BY <1>1, <2>1
    <3> QED BY <3>1
  <2>2. CASE c # <<>> /\ newc = Tail(c)
    <3>1. \A i \in 1..Len(newc) : i \in Nat /\ i + 1 \in 1..Len(c) /\ newc[i] = c[i + 1]
      BY <1>1, <2>2, TailShifts
    <3> QED BY <3>1
  <2> QED BY <2>1, <2>2
<1> HIDE DEF f, c, newf, newc
<1>4. ASSUME NEW i \in 1..Len(newc), newc[i].does = "load"
      PROVE  /\ link' = "loading" /\ ~newc[i].value
             /\ \A j \in 1..Len(newc) : newc[j].does = "load" => i = j
  <2>1. link = "loading" /\ ~c[i + n].value
        /\ \A j \in 1..Len(c) : c[j].does = "load" => i + n = j
    BY <1>3, <1>4 DEF Restoring, c
  <2>2. ASSUME NEW j \in 1..Len(newc), newc[j].does = "load" PROVE i = j
    <3>1. i + n = j + n /\ i \in Nat /\ j \in Nat
      BY <1>3, <2>1, <2>2
    <3> QED BY <3>1
  <2> QED BY <1>3, <2>1, <2>2
<1>5. ASSUME NEW i \in 1..Len(newf), newf[i].by = Nobody
      PROVE  link' = "restoring" /\ \A j \in 1..Len(newf) : newf[j].by = Nobody => i = j
  <2>1. link = "restoring" /\ \A j \in 1..Len(f) : f[j].by = Nobody => i + m = j
    BY <1>2, <1>5 DEF Restoring, f
  <2>2. ASSUME NEW j \in 1..Len(newf), newf[j].by = Nobody PROVE i = j
    <3>1. i + m = j + m /\ i \in Nat /\ j \in Nat
      BY <1>2, <2>1, <2>2
    <3> QED BY <3>1
  <2> QED BY <2>1, <2>2
<1> QED BY <1>4, <1>5 DEF Restoring, newf, newc

\* Before the line holds a load, or a flag to restore, the next one may be put there.
LEMMA ConnectRestoring ==
  ASSUME Placed, Restoring, Connect
  PROVE  Restoring'
<1> DEFINE w == [does |-> "load", value |-> FALSE, by |-> Nobody]
<1>1. /\ UNCHANGED flag /\ link = "down" /\ link' = "loading"
      /\ w \in Saves /\ creds'.chain = Append(creds.chain, w) /\ creds'.loaded = creds.loaded
  BY ConnectFlags
<1>2. creds.chain \in Seq(Saves)
  BY CredsAre DEF Placed, TypeOK
<1>3. w.value = FALSE
  OBVIOUS
<1> HIDE DEF w
<1>4. \A i \in 1..Len(creds'.chain) : creds'.chain[i].does = "load" =>
        i = Len(creds.chain) + 1 /\ creds'.chain[i] = w
  <2>1. \A i \in 1..Len(creds'.chain) :
          \/ i \in 1..Len(creds.chain) /\ creds'.chain[i] = creds.chain[i]
          \/ i = Len(creds.chain) + 1 /\ creds'.chain[i] = w
    BY <1>1, <1>2, AppendSplits
  <2>2. \A i \in 1..Len(creds.chain) : creds.chain[i].does # "load"
    BY <1>1 DEF Restoring
  <2> QED BY <2>1, <2>2
<1> QED BY <1>1, <1>3, <1>4 DEF Restoring

LEMMA LoadRestoring ==
  ASSUME PreKeysAssumption, Placed, Restoring, Load
  PROVE  /\ Restoring' /\ link = "loading" /\ NoLoad(creds'.chain)
         /\ \A i \in 1..Len(flag.chain) : flag.chain[i].by # Nobody
<1> DEFINE w == [value |-> creds.saved, by |-> Nobody]
<1>1. /\ link' = "restoring" /\ w \in Writes /\ flag'.chain = Append(flag.chain, w)
      /\ creds.chain # <<>> /\ creds.chain[1].does = "load" /\ creds'.chain = Tail(creds.chain)
  BY LoadFlags
<1>2. flag.chain \in Seq(Writes) /\ creds.chain \in Seq(Saves)
  BY FlagIs, CredsAre DEF Placed, TypeOK
<1> HIDE DEF w
<1>3. /\ link = "loading"
      /\ \A j \in 1..Len(creds.chain) : creds.chain[j].does = "load" => j = 1
  <2>1. 1 \in 1..Len(creds.chain)
    BY <1>1, <1>2, TailIs
  <2> QED BY <1>1, <2>1 DEF Restoring
<1>4. NoLoad(creds'.chain)
  <2> SUFFICES ASSUME NEW i \in 1..Len(creds'.chain) PROVE creds'.chain[i].does = "save"
    BY DEF NoLoad
  <2>1. i \in Nat \ {0} /\ i + 1 \in 1..Len(creds.chain) /\ creds'.chain[i] = creds.chain[i + 1]
    BY <1>1, <1>2, TailShifts
  <2>2. creds.chain[i + 1] \in Saves /\ i + 1 # 1
    BY <1>2, <2>1
  <2> QED BY <1>3, <2>1, <2>2 DEF Saves
<1>5. \A i \in 1..Len(flag.chain) : flag.chain[i].by # Nobody
  BY <1>3 DEF Restoring
<1>6. \A i \in 1..Len(flag'.chain) : flag'.chain[i].by = Nobody => i = Len(flag.chain) + 1
  <2>1. \A i \in 1..Len(flag'.chain) :
          \/ i \in 1..Len(flag.chain) /\ flag'.chain[i] = flag.chain[i]
          \/ i = Len(flag.chain) + 1 /\ flag'.chain[i] = w
    BY <1>1, <1>2, AppendSplits
  <2> QED BY <1>5, <2>1
<1>7. Restoring'
  BY <1>1, <1>4, <1>6 DEF Restoring, NoLoad
<1> QED BY <1>3, <1>4, <1>5, <1>7

LEMMA ConnectedRestoring ==
  ASSUME Placed, Restoring, Connected
  PROVE  Restoring' /\ NoLoad(creds.chain)
<1> DEFINE w == [does |-> "save", value |-> creds.mem, by |-> Nobody]
<1>1. /\ UNCHANGED flag /\ link = "connecting" /\ link' = "up"
      /\ w \in Saves /\ creds'.chain = Append(creds.chain, w) /\ creds'.loaded = creds.loaded
  BY ConnectedFlags
<1>2. creds.chain \in Seq(Saves)
  BY CredsAre DEF Placed, TypeOK
<1>3. w.does = "save"
  OBVIOUS
<1> HIDE DEF w
<1>4. NoLoad(creds.chain)
  <2>1. \A i \in 1..Len(creds.chain) : creds.chain[i] \in Saves /\ creds.chain[i].does # "load"
    BY <1>1, <1>2 DEF Restoring
  <2> QED BY <2>1 DEF NoLoad, Saves
<1>5. \A i \in 1..Len(creds'.chain) : creds'.chain[i].does # "load"
  <2>1. \A i \in 1..Len(creds'.chain) :
          \/ i \in 1..Len(creds.chain) /\ creds'.chain[i] = creds.chain[i]
          \/ i = Len(creds.chain) + 1 /\ creds'.chain[i] = w
    BY <1>1, <1>2, AppendSplits
  <2> QED BY <1>3, <1>4, <2>1 DEF NoLoad
<1>6. Restoring'
  BY <1>1, <1>5 DEF Restoring
<1> QED BY <1>4, <1>6

LEMMA StepRestoring ==
  ASSUME PreKeysAssumption, Placed, Restoring, [Next]_vars
  PROVE  Restoring'
<1>1. CASE UNCHANGED <<flag, creds, link>>
  BY <1>1 DEF Restoring
<1>2. ASSUME NEW o \in Ops, MarkEffect(o) \/ DigestEffect(o) PROVE Restoring'
  <2>1. \/ UNCHANGED <<flag, creds, link>>
        \/ link' = link /\ \E value \in BOOLEAN : FlagsBecome(o, value)
    BY <1>2 DEF MarkEffect, DigestEffect, Takes1
  <2> QED BY <1>1, <2>1, SettingRestoring
<1>3. ASSUME NEW n \in Notices, LowArrives(n) PROVE Restoring'
  BY <1>3, LowArrivesIs, SettingRestoring, PassiveIs
<1>4. ASSUME StoreFlag \/ Save \/ WriteFails PROVE Restoring'
  <2>1. CASE StoreFlag
    BY <2>1, StoreFlagIs, DoneRestoring
  <2>2. CASE Save
    BY <2>2, SaveIs, DoneRestoring
  <2>3. CASE WriteFails
    BY <2>3, WriteFailsFlags, DoneRestoring
  <2> QED BY <1>4, <2>1, <2>2, <2>3
<1>5. ASSUME Restored PROVE Restoring'
  BY <1>5, RestoredFlags DEF Restoring
<1>6. ASSUME Disconnect PROVE Restoring'
  BY <1>6 DEF Disconnect, Restoring
<1>7. ASSUME Crash PROVE Restoring'
  <2>1. flag'.chain = <<>> /\ creds'.chain = <<>> /\ creds'.loaded = FALSE
    BY <1>7, CrashFlags DEF CrashFlagged
  <2>2. 1..Len(flag'.chain) = {} /\ 1..Len(creds'.chain) = {}
    BY <2>1
  <2> QED BY <2>1, <2>2 DEF Restoring
<1>8. ASSUME NEW o \in Ops, \/ FindKeys(o) \/ Generate(o) \/ FlagsSet(o) \/ ReadBundle(o)
                            \/ ServerTakes(o) \/ ServerRefuses(o) \/ ServerLists(o)
                            \/ UploadAnswered(o) \/ RotateAnswered(o) \/ Timeout(o)
      PROVE  UNCHANGED <<flag, creds, link>>
  BY <1>8 DEF FindKeys, Generate, FlagsSet, ReadBundle, ServerTakes, ServerRefuses, ServerLists,
              UploadAnswered, RotateAnswered, Timeout
<1>9. ASSUME \/ Start \/ NotDue \/ Rotate \/ SendNotice \/ Fetch \/ Receive
             \/ \E n \in Notices : DigestArrives(n)
             \/ \E r \in Receipts : ReceiptBegins(r)
      PROVE  UNCHANGED <<flag, creds, link>>
  BY <1>9 DEF Start, NotDue, Rotate, SendNotice, Fetch, Receive, DigestArrives, ReceiptBegins
<1>10. CASE UNCHANGED vars
  BY <1>1, <1>10 DEF vars
<1>11. ASSUME NEW o \in Ops, Mark(o) \/ DigestAnswered(o) PROVE Restoring'
  BY <1>2, <1>11, MarkIs, DigestAnsweredIs
<1>12. ASSUME Connect \/ Load \/ Connected PROVE Restoring'
  BY <1>12, ConnectRestoring, LoadRestoring, ConnectedRestoring
<1>13. ASSUME \E o \in Ops : \/ FindKeys(o) \/ Generate(o) \/ FlagsSet(o) \/ ReadBundle(o)
                             \/ ServerTakes(o) \/ ServerRefuses(o) \/ ServerLists(o)
                             \/ UploadAnswered(o) \/ RotateAnswered(o) \/ Timeout(o)
       PROVE  Restoring'
  BY <1>1, <1>8, <1>13
<1>14. ASSUME \/ Start \/ NotDue \/ Rotate \/ SendNotice \/ Fetch \/ Receive
              \/ \E n \in Notices : DigestArrives(n)
              \/ \E r \in Receipts : ReceiptBegins(r)
       PROVE  Restoring'
  BY <1>1, <1>9, <1>14
<1> QED BY <1>3, <1>4, <1>5, <1>6, <1>7, <1>10, <1>11, <1>12, <1>13, <1>14 DEF Next, WriteFails

-----------------------------------------------------------------------------
(* The flags as they are stored, restored and saved.                       *)

\* The operations that work on the flags stay as they are.
Stays ==
  \A o \in Uploaders : ops'[o] = ops[o] \/ (ops[o].at = "idle" /\ ops'[o].at = "starting")
LEMMA StaysAlone ==
  ASSUME Placed, Alone, Stays,
         \A i \in 1..Len(flag'.chain) : flag'.chain[i].by # Nobody =>
           \E j \in 1..Len(flag.chain) : flag'.chain[i] = flag.chain[j],
         \A i \in 1..Len(creds'.chain) : creds'.chain[i].by # Nobody =>
           \E j \in 1..Len(creds.chain) : creds'.chain[i] = creds.chain[j]
  PROVE  Alone'
<1>1. \A o \in Uploaders : ops'[o].at \in Engaged \/ ops[o].at \in Engaged => ops'[o] = ops[o]
  BY DEF Stays, Engaged, Lowered
<1>2. ASSUME NEW i \in 1..Len(flag'.chain), flag'.chain[i].by # Nobody
      PROVE  ops'[flag'.chain[i].by].at \in {"clearing", "flagging"}
  <2>1. PICK j \in 1..Len(flag.chain) : flag'.chain[i] = flag.chain[j]
    BY <1>2
  <2>2. flag.chain[j].by \in Uploaders /\ ops[flag.chain[j].by].at \in {"clearing", "flagging"}
    BY <1>2, <2>1, WritersAre
  <2> QED BY <1>1, <2>1, <2>2 DEF Engaged, Lowered
<1>3. ASSUME NEW i \in 1..Len(creds'.chain), creds'.chain[i].by # Nobody
      PROVE  ops'[creds'.chain[i].by].at \in {"clearing", "flagging"}
  <2>1. PICK j \in 1..Len(creds.chain) : creds'.chain[i] = creds.chain[j]
    BY <1>3
  <2>2. creds.chain[j].by \in Uploaders /\ ops[creds.chain[j].by].at \in {"clearing", "flagging"}
    BY <1>3, <2>1, WritersAre
  <2> QED BY <1>1, <2>1, <2>2 DEF Engaged, Lowered
<1> QED BY <1>1, <1>2, <1>3 DEF Alone

\* Nothing changes but the flag of the store, or the credentials, in this step.
LEMMA StaysAtWork ==
  ASSUME Stays, Down(flag.value, flag.chain) /\ NextDown => Down(flag'.value, flag'.chain) /\ NextDown',
         DownAtWork
  PROVE  DownAtWork'
<1>1. \A o \in Uploaders : ops'[o].at \in Lowered => ops[o].at \in Lowered
  BY DEF Stays, Lowered
<1> QED BY <1>1 DEF DownAtWork

LEMMA StaysWhenLow ==
  ASSUME Stays, DownWhenLow, LowHandled' => LowHandled,
         LowHandled /\ Down(flag.value, flag.chain) => Down(flag'.value, flag'.chain),
         LowHandled /\ ~creds.mem /\ ~creds.loaded /\ LoadsDown(creds.saved, creds.chain) /\ StaysDown(creds.chain)
           => /\ ~creds'.mem /\ ~creds'.loaded
              /\ LoadsDown(creds'.saved, creds'.chain) /\ StaysDown(creds'.chain)
  PROVE  DownWhenLow'
<1> SUFFICES ASSUME LowHandled' PROVE DownWhenLow'
  BY DEF DownWhenLow
<1>1. LowHandled
  OBVIOUS
<1>2. \A o \in Uploaders : /\ ops'[o].at \notin {"marking", "flagging"}
                           /\ ~(ops'[o].at = "uploading" /\ ops'[o].answer = "ok")
  BY <1>1 DEF DownWhenLow, Stays
<1> QED BY <1>1, <1>2 DEF DownWhenLow

LEMMA StoreFlagLowers ==
  ASSUME PreKeysAssumption, Placed, Restoring, Lowers, StoreFlag
  PROVE  Lowers'
<1> DEFINE f == flag.chain
           new == flag'.chain
<1>1. /\ UNCHANGED <<creds, link, server, hist, ops>>
      /\ f # <<>> /\ flag'.value = f[1].value /\ new = Tail(f)
  BY StoreFlagIs DEF Elsewhere
<1>2. f \in Seq(Writes) /\ flag.value \in BOOLEAN
  BY FlagIs DEF Placed, TypeOK
<1>3. \A i \in 1..Len(new) : i \in Nat \ {0} /\ i + 1 \in 1..Len(f) /\ new[i] = f[i + 1]
  BY <1>1, <1>2, TailShifts
<1>4. Down(flag.value, f) => Down(flag'.value, new)
  BY <1>1, <1>2, DownIsWritten
<1>5. Ends(flag'.value, new) = Ends(flag.value, f)
  BY <1>1, <1>2, EndsIsWritten
<1>6. Stays
  BY <1>1 DEF Stays
<1> HIDE DEF f, new
<1>7. Alone'
  <2>1. \A i \in 1..Len(new) : \E j \in 1..Len(f) : new[i] = f[j]
    BY <1>3
  <2>2. \A i \in 1..Len(creds'.chain) : \E j \in 1..Len(creds.chain) : creds'.chain[i] = creds.chain[j]
    BY <1>1
  <2> QED BY <1>6, <2>1, <2>2, StaysAlone DEF Lowers, f, new
<1>8. NextDown' <=> NextDown
  BY <1>1 DEF NextDown
<1>9. AsInMemory'
  BY <1>1 DEF AsInMemory, Lowers
<1>10. Agreed'
  BY <1>1, <1>5, <1>8 DEF Agreed, Lowers, NoneAtWork, f, new
<1>11. NotRaised'
  <2>1. CASE NoneAtWork
    BY <1>1, <2>1 DEF NotRaised, NoneAtWork
  <2>2. CASE ~NoneAtWork
    <3>1. ASSUME NEW i \in 1..Len(new), new[i].by = Nobody, new[i].value
          PROVE  IF i = 1 THEN flag'.value ELSE new[i - 1].value
      <4>1. i + 1 \in 1..Len(f) /\ f[i + 1].by = Nobody /\ f[i + 1].value
            /\ i + 1 # 1 /\ (i + 1) - 1 = i /\ i \in Nat \ {0}
        BY <1>3, <3>1
      <4>2. f[i].value
        <5>1. IF i + 1 = 1 THEN flag.value ELSE f[(i + 1) - 1].value
          BY <2>2, <4>1 DEF Lowers, NotRaised, f
        <5> QED BY <4>1, <5>1
      <4>3. CASE i = 1
        BY <1>1, <4>2, <4>3
      <4>4. CASE i # 1
        <5>1. i - 1 \in 1..Len(new) /\ (i - 1) + 1 = i
          BY <1>1, <1>2, <3>1, <4>1, <4>4 DEF new
        <5> QED BY <1>3, <4>2, <4>4, <5>1
      <4> QED BY <4>3, <4>4
    <3> QED BY <3>1 DEF NotRaised, new
  <2> QED BY <2>1, <2>2
<1>12. DownAtWork'
  BY <1>4, <1>6, <1>8, StaysAtWork DEF Lowers, f, new
<1>13. DownWhenLow'
  <2>1. LowHandled' <=> LowHandled
    BY <1>1 DEF LowHandled
  <2> QED BY <1>1, <1>4, <1>6, <2>1, StaysWhenLow DEF Lowers, f, new
<1> QED BY <1>7, <1>9, <1>10, <1>11, <1>12, <1>13 DEF Lowers

LEMMA SaveLowers ==
  ASSUME PreKeysAssumption, Placed, Restoring, Lowers, Save
  PROVE  Lowers'
<1> DEFINE c == creds.chain
           new == creds'.chain
<1>1. /\ UNCHANGED <<flag, link, server, hist>>
      /\ c # <<>> /\ c[1].does = "save" /\ creds'.saved = c[1].value /\ new = Tail(c)
      /\ creds'.mem = creds.mem /\ creds'.loaded = creds.loaded
      /\ \A o \in Ops : ops'[o] = ops[o] \/ (ops[o].at = "idle" /\ ops'[o].at = "starting")
      /\ link # "up" => UNCHANGED ops
  BY SaveIs DEF Save
<1>2. c \in Seq(Saves) /\ creds.saved \in BOOLEAN
  BY CredsAre DEF Placed, TypeOK
<1>3. \A i \in 1..Len(new) : i + 1 \in 1..Len(c) /\ new[i] = c[i + 1]
  BY <1>1, <1>2, TailShifts
<1>4. /\ LoadsDown(creds.saved, c) => LoadsDown(creds'.saved, new)
      /\ StaysDown(c) => StaysDown(new)
  BY <1>1, <1>2, LoadsDownIsSaved
<1>5. Stays
  BY <1>1 DEF Stays, Uploaders
<1> HIDE DEF c, new
<1>6. Alone'
  <2>1. \A i \in 1..Len(new) : \E j \in 1..Len(c) : new[i] = c[j]
    BY <1>3
  <2>2. \A i \in 1..Len(flag'.chain) : \E j \in 1..Len(flag.chain) : flag'.chain[i] = flag.chain[j]
    BY <1>1
  <2> QED BY <1>5, <2>1, <2>2, StaysAlone DEF Lowers, c, new
<1>7. NextDown => NextDown'
  BY <1>1, <1>4 DEF NextDown, c, new
<1>8. AsInMemory'
  BY <1>1, <1>4 DEF AsInMemory, Lowers, c, new
<1>9. Agreed'
  BY <1>1, <1>7 DEF Agreed, Lowers, NoneAtWork
<1>10. NotRaised'
  <2>1. CASE link = "up"
    <3>1. \A i \in 1..Len(flag.chain) : flag.chain[i].by # Nobody
      BY <2>1 DEF Restoring
    <3> QED BY <1>1, <3>1 DEF NotRaised
  <2>2. CASE link # "up"
    BY <1>1, <2>2 DEF NotRaised, NoneAtWork, Lowers
  <2> QED BY <2>1, <2>2
<1>11. DownAtWork'
  BY <1>1, <1>5, <1>7, StaysAtWork DEF Lowers
<1>12. DownWhenLow'
  <2>1. LowHandled' <=> LowHandled
    BY <1>1 DEF LowHandled
  <2> QED BY <1>1, <1>4, <1>5, <2>1, StaysWhenLow DEF Lowers, c, new
<1> QED BY <1>6, <1>8, <1>9, <1>10, <1>11, <1>12 DEF Lowers

LEMMA ConnectLowers ==
  ASSUME PreKeysAssumption, Placed, Restoring, Lowers, Connect
  PROVE  Lowers'
<1> DEFINE w == [does |-> "load", value |-> FALSE, by |-> Nobody]
           c == creds.chain
           new == creds'.chain
<1>1. /\ UNCHANGED <<flag, ops, server>> /\ link = "down" /\ link' = "loading"
      /\ w \in Saves /\ new = Append(c, w) /\ Remembers
      /\ creds'.mem = creds.mem /\ creds'.saved = creds.saved /\ creds'.loaded = creds.loaded
  BY ConnectFlags
<1>2. c \in Seq(Saves) /\ creds.saved \in BOOLEAN /\ w.value = FALSE /\ w.by = Nobody
  BY CredsAre DEF Placed, TypeOK
<1> HIDE DEF w, c, new
<1>3. \A i \in 1..Len(new) : new[i] = w \/ \E j \in 1..Len(c) : new[i] = c[j]
  <2>1. \A i \in 1..Len(new) : (i \in 1..Len(c) /\ new[i] = c[i]) \/ (i = Len(c) + 1 /\ new[i] = w)
    BY <1>1, <1>2, AppendSplits
  <2> QED BY <2>1
<1>4. /\ LoadsDown(creds.saved, c) => LoadsDown(creds.saved, new)
      /\ StaysDown(c) => StaysDown(new)
  BY <1>1, <1>2, LoadsDownGoesOn
<1>5. Stays
  BY <1>1 DEF Stays
<1>6. Alone'
  <2>1. \A i \in 1..Len(new) : new[i].by # Nobody => \E j \in 1..Len(c) : new[i] = c[j]
    BY <1>2, <1>3
  <2>2. \A i \in 1..Len(flag'.chain) : \E j \in 1..Len(flag.chain) : flag'.chain[i] = flag.chain[j]
    BY <1>1
  <2> QED BY <1>5, <2>1, <2>2, StaysAlone DEF Lowers, c, new
<1>7. NextDown => NextDown'
  BY <1>1, <1>4 DEF NextDown, c, new
<1>8. AsInMemory'
  BY <1>1 DEF AsInMemory
<1>9. Agreed'
  BY <1>1, <1>7 DEF Agreed, Lowers, NoneAtWork
<1>10. NotRaised'
  BY <1>1 DEF NotRaised, NoneAtWork, Lowers
<1>11. DownAtWork'
  BY <1>1, <1>5, <1>7, StaysAtWork DEF Lowers
<1>12. DownWhenLow'
  <2>1. LowHandled' <=> LowHandled
    BY <1>1 DEF LowHandled, Remembers
  <2> QED BY <1>1, <1>4, <1>5, <2>1, StaysWhenLow DEF Lowers, c, new
<1> QED BY <1>6, <1>8, <1>9, <1>10, <1>11, <1>12 DEF Lowers

LEMMA LoadLowers ==
  ASSUME PreKeysAssumption, Placed, Restoring, Lowers, Load
  PROVE  Lowers'
<1> DEFINE w == [value |-> creds.saved, by |-> Nobody]
           c == creds.chain
           f == flag.chain
           new == flag'.chain
<1>1. /\ UNCHANGED <<ops, server>> /\ link' = "restoring" /\ Remembers
      /\ w \in Writes /\ flag'.value = flag.value /\ new = Append(f, w)
      /\ c # <<>> /\ c[1].does = "load"
      /\ creds'.chain = Tail(c) /\ creds'.loaded = creds.saved
      /\ creds'.mem = creds.mem /\ creds'.saved = creds.saved
  BY LoadFlags
<1>2. /\ link = "loading" /\ NoLoad(creds'.chain)
      /\ \A i \in 1..Len(f) : f[i].by # Nobody
  BY LoadRestoring
<1>3. /\ c \in Seq(Saves) /\ creds.saved \in BOOLEAN /\ w.value = creds.saved /\ w.by = Nobody
      /\ f \in Seq(Writes) /\ flag.value \in BOOLEAN
  BY CredsAre, FlagIs DEF Placed, TypeOK
<1> HIDE DEF w, c, f, new
<1>4. /\ LoadsDown(creds.saved, c) => ~creds.saved
      /\ StaysDown(c) => \A i \in 1..Len(c) : ~c[i].value
  BY <1>1, <1>3, LoadFinds
<1>5. \A i \in 1..Len(creds'.chain) : i + 1 \in 1..Len(c) /\ creds'.chain[i] = c[i + 1]
  BY <1>1, <1>3, TailShifts
<1>6. \A i \in 1..Len(new) : (i \in 1..Len(f) /\ new[i] = f[i]) \/ (i = Len(f) + 1 /\ new[i] = w)
  BY <1>1, <1>3, AppendSplits
<1>7. Stays
  BY <1>1 DEF Stays
<1>8. Alone'
  <2>1. \A i \in 1..Len(creds'.chain) : \E j \in 1..Len(c) : creds'.chain[i] = c[j]
    BY <1>5
  <2>2. \A i \in 1..Len(new) : new[i].by # Nobody => \E j \in 1..Len(f) : new[i] = f[j]
    BY <1>3, <1>6
  <2> QED BY <1>7, <2>1, <2>2, StaysAlone DEF Lowers, c, f, new
<1>9. NextDown' <=> ~creds.saved
  BY <1>1 DEF NextDown
<1>10. NextDown => ~creds.saved
  BY <1>2, <1>4 DEF NextDown, c
<1>11. AsInMemory'
  BY <1>1 DEF AsInMemory
<1>12. Ends(flag'.value, new) = creds.saved
  BY <1>1, <1>3, EndsWithLast
<1>13. Agreed'
  BY <1>9, <1>12 DEF Agreed, new
<1>14. NotRaised'
  <2>1. CASE NoneAtWork
    BY <1>1, <2>1 DEF NotRaised, NoneAtWork
  <2>2. CASE ~NoneAtWork
    <3>1. ASSUME NEW i \in 1..Len(new), new[i].by = Nobody, new[i].value
          PROVE  IF i = 1 THEN flag'.value ELSE new[i - 1].value
      <4>1. i = Len(f) + 1 /\ creds.saved
        BY <1>2, <1>3, <1>6, <3>1
      <4>2. Ends(flag.value, f)
        BY <1>10, <2>2, <4>1 DEF Lowers, Agreed, f
      <4>3. CASE f = <<>>
        BY <1>1, <4>1, <4>2, <4>3 DEF Ends
      <4>4. CASE f # <<>>
        <5>1. Len(f) \in Nat \ {0} /\ Len(new) = Len(f) + 1 /\ \A k \in 1..Len(f) : new[k] = f[k]
          BY <1>1, <1>3, <4>4, AppendIs
        <5>2. Len(f) \in 1..Len(f) /\ i # 1 /\ i - 1 = Len(f)
          BY <4>1, <5>1
        <5> QED BY <4>2, <4>4, <5>1, <5>2 DEF Ends
      <4> QED BY <4>3, <4>4
    <3> QED BY <3>1 DEF NotRaised, new
  <2> QED BY <2>1, <2>2
<1>15. ~creds.saved /\ Down(flag.value, f) => Down(flag'.value, new)
  BY <1>1, <1>3, DownGoesOn
<1>16. DownAtWork'
  BY <1>7, <1>9, <1>10, <1>15, StaysAtWork DEF Lowers, f, new
<1>17. DownWhenLow'
  <2>1. LowHandled' <=> LowHandled
    BY <1>1 DEF LowHandled, Remembers
  <2>2. ASSUME LoadsDown(creds.saved, c), StaysDown(c)
        PROVE  ~creds.saved /\ LoadsDown(creds'.saved, creds'.chain) /\ StaysDown(creds'.chain)
    <3>1. ~creds.saved /\ creds'.saved = FALSE
      BY <1>1, <1>3, <1>4, <2>2
    <3>2. \A i \in 1..Len(creds'.chain) : ~creds'.chain[i].value
      BY <1>4, <1>5, <2>2
    <3>3. creds'.chain \in Seq(Saves)
      BY <1>1, <1>3, TailIs
    <3> QED BY <3>1, <3>2, <3>3, AllDown
  <2>3. LowHandled => ~creds.saved
    BY <1>4 DEF Lowers, DownWhenLow, c
  <2> QED BY <1>1, <1>7, <1>15, <2>1, <2>2, <2>3, StaysWhenLow DEF Lowers, c, f, new
<1> QED BY <1>8, <1>11, <1>13, <1>14, <1>16, <1>17 DEF Lowers

LEMMA RestoredLowers ==
  ASSUME PreKeysAssumption, Placed, Restoring, Lowers, Restored
  PROVE  Lowers'
<1>1. /\ UNCHANGED <<flag, ops, server, hist>> /\ link = "restoring" /\ link' = "connecting"
      /\ \A i \in 1..Len(flag.chain) : flag.chain[i].by # Nobody
      /\ creds'.mem = creds.loaded /\ creds'.loaded = FALSE
      /\ creds'.saved = creds.saved /\ creds'.chain = creds.chain
  BY RestoredFlags
<1>2. Stays
  BY <1>1 DEF Stays
<1>3. Alone'
  BY <1>1 DEF Alone, Lowers
<1>4. NextDown => NextDown'
  BY <1>1 DEF NextDown
<1>5. AsInMemory'
  BY <1>1 DEF AsInMemory
<1>6. Agreed'
  BY <1>1, <1>4 DEF Agreed, Lowers
<1>7. NotRaised'
  BY <1>1 DEF NotRaised
<1>8. DownAtWork'
  BY <1>1, <1>2, <1>4, StaysAtWork DEF Lowers
<1>9. DownWhenLow'
  <2>1. LowHandled' <=> LowHandled
    BY <1>1 DEF LowHandled
  <2> QED BY <1>1, <1>2, <2>1, StaysWhenLow DEF Lowers
<1> QED BY <1>3, <1>5, <1>6, <1>7, <1>8, <1>9 DEF Lowers

LEMMA ConnectedLowers ==
  ASSUME PreKeysAssumption, Placed, Restoring, Lowers, Connected
  PROVE  Lowers'
<1> DEFINE w == [does |-> "save", value |-> creds.mem, by |-> Nobody]
           c == creds.chain
           new == creds'.chain
<1>1. /\ UNCHANGED <<flag, ops, server, hist>> /\ link = "connecting" /\ link' = "up"
      /\ w \in Saves /\ new = Append(c, w)
      /\ creds'.mem = creds.mem /\ creds'.saved = creds.saved /\ creds'.loaded = creds.loaded
  BY ConnectedFlags
<1>2. /\ c \in Seq(Saves) /\ creds.saved \in BOOLEAN
      /\ w.value = creds.mem /\ w.by = Nobody /\ w.does = "save"
  BY CredsAre DEF Placed, TypeOK
<1>3. NoLoad(c)
  BY ConnectedRestoring
<1> HIDE DEF w, c, new
<1>4. ~creds.mem => LoadsDown(creds.saved, new) /\ StaysDown(new)
  BY <1>1, <1>2, <1>3, LoadsDownGoesOn
<1>5. \A i \in 1..Len(new) : new[i] = w \/ \E j \in 1..Len(c) : new[i] = c[j]
  <2>1. \A i \in 1..Len(new) : (i \in 1..Len(c) /\ new[i] = c[i]) \/ (i = Len(c) + 1 /\ new[i] = w)
    BY <1>1, <1>2, AppendSplits
  <2> QED BY <2>1
<1>6. Stays
  BY <1>1 DEF Stays
<1>7. Alone'
  <2>1. \A i \in 1..Len(new) : new[i].by # Nobody => \E j \in 1..Len(c) : new[i] = c[j]
    BY <1>2, <1>5
  <2>2. \A i \in 1..Len(flag'.chain) : \E j \in 1..Len(flag.chain) : flag'.chain[i] = flag.chain[j]
    BY <1>1
  <2> QED BY <1>6, <2>1, <2>2, StaysAlone DEF Lowers, c, new
<1>8. NextDown => NextDown'
  BY <1>1, <1>4 DEF NextDown, new
<1>9. AsInMemory'
  BY <1>1, <1>4 DEF AsInMemory, new
<1>10. Agreed'
  BY <1>1, <1>8 DEF Agreed, Lowers
<1>11. NotRaised'
  BY <1>1 DEF NotRaised, NoneAtWork, Lowers
<1>12. DownAtWork'
  BY <1>1, <1>6, <1>8, StaysAtWork DEF Lowers
<1>13. DownWhenLow'
  <2>1. LowHandled' <=> LowHandled
    BY <1>1 DEF LowHandled
  <2> QED BY <1>1, <1>4, <1>6, <2>1, StaysWhenLow DEF Lowers, new
<1> QED BY <1>7, <1>9, <1>10, <1>11, <1>12, <1>13 DEF Lowers

\* The process ends while nothing is under way.
LEMMA CrashLowers ==
  ASSUME PreKeysAssumption, Placed, Restoring, Lowers, CrashEffect, CrashFlagged, ~Interrupts,
         LowHandled' => LowHandled
  PROVE  Lowers'
<1> DEFINE f == flag.chain
           c == creds.chain
<1>1. /\ flag'.chain = <<>> /\ creds'.chain = <<>> /\ link' = "down"
      /\ flag'.value = flag.value \/ \E i \in 1..Len(f) : flag'.value = f[i].value
      /\ creds'.saved = creds.saved \/ \E i \in 1..Len(c) : c[i].does = "save"
      /\ creds'.mem = creds'.saved /\ creds'.loaded = FALSE
  BY DEF CrashFlagged
<1>2. /\ f \in Seq(Writes) /\ c \in Seq(Saves)
      /\ flag.value \in BOOLEAN /\ creds.saved \in BOOLEAN
  BY FlagIs, CredsAre DEF Placed, TypeOK
<1>3. \A o \in Ops : ops[o].at = "idle" /\ ops'[o].at = "idle" /\ ops'[o].answer = "none"
  BY IdleIs DEF Interrupts, CrashEffect
<1>4. \A i \in 1..Len(c) : c[i].does # "save"
  BY <1>2 DEF Interrupts
<1>5. \A i \in 1..Len(f) : f[i].by = Nobody
  <2> SUFFICES ASSUME NEW i \in 1..Len(f), f[i].by # Nobody PROVE FALSE
    OBVIOUS
  <2>1. f[i].by \in Uploaders /\ ops[f[i].by].at \in {"clearing", "flagging"}
    BY WritersAre DEF Lowers
  <2> QED BY <1>3, <2>1 DEF Uploaders
<1>6. 1..Len(flag'.chain) = {} /\ 1..Len(creds'.chain) = {} /\ creds'.chain \in Seq(Saves)
  BY <1>1
<1> HIDE DEF f, c
<1>7. Alone'
  BY <1>3, <1>6 DEF Alone, Uploaders, Engaged, Lowered
<1>8. NoneAtWork'
  BY <1>3 DEF NoneAtWork, Uploaders
<1>9. AsInMemory' /\ Agreed' /\ NotRaised'
  BY <1>1, <1>8 DEF AsInMemory, Agreed, NotRaised
<1>10. DownAtWork'
  BY <1>3 DEF DownAtWork, Uploaders, Lowered
<1>11. DownWhenLow'
  <2> SUFFICES ASSUME LowHandled' PROVE DownWhenLow'
    BY DEF DownWhenLow
  <2>1. Down(flag.value, f) /\ LoadsDown(creds.saved, c)
    BY DEF Lowers, DownWhenLow, f, c
  <2>2. ~flag.value /\ \A i \in 1..Len(f) : ~f[i].value
    BY <1>5, <2>1 DEF Down
  <2>3. ~flag'.value
    BY <1>1, <2>2
  <2>4. ~creds.saved
    <3>1. \A i \in 1..Len(c) : i \in 1..i
      BY <1>2
    <3>2. Early(c) = {}
      BY <1>4, <3>1 DEF Early
    <3> QED BY <2>1, <3>2 DEF LoadsDown
  <2>5. creds'.saved = FALSE /\ creds'.mem = FALSE
    BY <1>1, <1>2, <1>4, <2>4
  <2>6. Down(flag'.value, flag'.chain)
    BY <1>6, <2>3 DEF Down
  <2>7. LoadsDown(creds'.saved, creds'.chain) /\ StaysDown(creds'.chain)
    BY <1>6, <2>5, AllDown
  <2>8. \A o \in Uploaders : /\ ops'[o].at \notin {"marking", "flagging"}
                             /\ ~(ops'[o].at = "uploading" /\ ops'[o].answer = "ok")
    BY <1>3 DEF Uploaders
  <2> QED BY <1>1, <2>5, <2>6, <2>7, <2>8 DEF DownWhenLow
<1> QED BY <1>7, <1>9, <1>10, <1>11 DEF Lowers

-----------------------------------------------------------------------------
(* Notices in the line.                                                    *)

LEMMA LineTyped ==
  ASSUME Placed
  PROVE  server.line \in Seq(Ops \cup {LowNotice})
BY ServerIs DEF Placed, TypeOK

\* A notice stays in the line while another message comes or goes.
LEMMA NoticeStays ==
  ASSUME PreKeysAssumption, Placed, NEW o \in Ops,
         \/ server'.line = server.line
         \/ server'.line = Append(server.line, o)
         \/ Hears(o)
         \/ Cut(server.line, server'.line, o)
  PROVE  Contains(server.line, LowNotice) => Contains(server'.line, LowNotice)
<1> DEFINE line == server.line
           new == server'.line
<1>1. line \in Seq(Ops \cup {LowNotice}) /\ o # LowNotice
  BY LineTyped DEF PreKeysAssumption
<1> SUFFICES ASSUME NEW i \in 1..Len(line), line[i] = LowNotice
             PROVE  \E j \in 1..Len(new) : new[j] = LowNotice
  BY DEF Contains
<1>2. Len(line) \in Nat /\ i \in Nat
  BY <1>1
<1>3. CASE new = line
  BY <1>3
<1>4. CASE new = Append(line, o)
  <2>1. o \in Ops \cup {LowNotice}
    OBVIOUS
  <2> HIDE DEF line, new
  <2>2. Len(new) = Len(line) + 1 /\ \A k \in 1..Len(line) : new[k] = line[k]
    BY <1>1, <1>4, <2>1, AppendIs
  <2>3. i \in 1..Len(new) /\ new[i] = LowNotice
    BY <1>2, <2>2
  <2> QED BY <2>3
<1>5. CASE Hears(o)
  <2>1. line # <<>> /\ line[1] = o /\ new = Tail(line)
    BY <1>5 DEF Hears
  <2> HIDE DEF line, new
  <2>2. Len(new) = Len(line) - 1 /\ \A k \in 1..Len(new) : new[k] = line[k + 1]
    BY <1>1, <2>1, TailIs
  <2>3. i # 1
    BY <1>1, <2>1
  <2>4. i - 1 \in 1..Len(new) /\ (i - 1) + 1 = i
    BY <1>2, <2>2, <2>3
  <2>5. new[i - 1] = LowNotice
    BY <2>2, <2>4
  <2> QED BY <2>4, <2>5
<1>6. CASE Cut(line, new, o)
  <2>1. CASE new = line
    BY <2>1
  <2>2. CASE new # line
    <3>1. PICK k \in 1..Len(line) :
            /\ line[k] = o /\ Len(new) = Len(line) - 1
            /\ \A j \in 1..(Len(line) - 1) : new[j] = IF j < k THEN line[j] ELSE line[j + 1]
      BY <1>6, <2>2 DEF Cut
    <3> HIDE DEF line, new
    <3>2. i # k /\ k \in Nat
      BY <1>1, <1>2, <3>1
    <3>3. CASE i < k
      <4>1. i \in 1..Len(new) /\ i \in 1..(Len(line) - 1)
        BY <1>2, <3>1, <3>2, <3>3
      <4>2. new[i] = LowNotice
        BY <3>1, <3>3, <4>1
      <4> QED BY <4>1, <4>2
    <3>4. CASE i > k
      <4>1. i - 1 \in 1..Len(new) /\ i - 1 \in 1..(Len(line) - 1) /\ (i - 1) + 1 = i /\ ~(i - 1 < k)
        BY <1>2, <3>1, <3>2, <3>4
      <4>2. new[i - 1] = LowNotice
        BY <3>1, <4>1
      <4> QED BY <4>1, <4>2
    <3> QED BY <1>2, <3>2, <3>3, <3>4
  <2> QED BY <2>1, <2>2
<1> QED BY <1>3, <1>4, <1>5, <1>6

\* And when the connection ends it is sent again.
LEMMA NoticeAgain ==
  ASSUME Placed, NEW done \in SUBSET Ops, server' \in LineLost(Takes(done)),
         Contains(server.line, LowNotice)
  PROVE  Contains(server'.line, LowNotice)
<1>1. PICK s \in Takes(done) : server' = [s EXCEPT !.line = OnlyNotices(@)]
  BY DEF LineLost
<1>2. TakesIn(s, done)
  BY TakesIs
<1>3. server.line \in Seq(Ops \cup {LowNotice})
  BY LineTyped
<1> DEFINE T == {j \in DOMAIN server.line : server.line[j] = LowNotice}
           n == Cardinality(T)
<1>4. n \in Nat \ {0}
  <2>1. IsFiniteSet(1..Len(server.line)) /\ T \subseteq 1..Len(server.line)
    BY <1>3, FS_Interval
  <2>2. T # {}
    BY <1>3 DEF Contains
  <2> HIDE DEF T
  <2>3. IsFiniteSet(T)
    BY <2>1, FS_Subset
  <2> QED BY <2>2, <2>3, FS_CardinalityType, FS_EmptySet
<1>5. server'.line = [i \in 1..n |-> LowNotice]
  <2>1. server' = [s EXCEPT !.line = OnlyNotices(server.line)]
    BY <1>1, <1>2 DEF TakesIn, Servers
  <2>2. server'.line = OnlyNotices(server.line)
    BY <1>2, <2>1 DEF TakesIn, Servers
  <2> QED BY <2>2 DEF OnlyNotices
<1> HIDE DEF n
<1>6. Len(server'.line) = n /\ 1 \in 1..n
  BY <1>4, <1>5
<1> QED BY <1>5, <1>6 DEF Contains

LEMMA LowStays ==
  ASSUME hist'.low => hist.low,
         Contains(server.line, LowNotice) => Contains(server'.line, LowNotice)
  PROVE  LowHandled' => LowHandled
BY DEF LowHandled

-----------------------------------------------------------------------------
(* Steps that leave the flags alone.                                       *)

LEMMA OneSteady ==
  ASSUME UNCHANGED <<flag, creds, link>>, LowHandled' => LowHandled, NEW o,
         \A p \in Ops : p # o => ops'[p] = ops[p],
         o \in Uploaders => Proceeds(o)
  PROVE  Steady
<1>1. ASSUME NEW p \in Uploaders, p # o PROVE Proceeds(p)
  BY <1>1 DEF Proceeds, Uploaders
<1> QED BY <1>1 DEF Steady

\* o does nothing that concerns the flags, before or after.
LEMMA ApartProceeds ==
  ASSUME LowHandled' => LowHandled, NEW o, ops'[o].at \notin Engaged,
         ops[o].at \notin {"idle", "clearing", "flagging"}
  PROVE  Proceeds(o)
BY DEF Proceeds, Engaged, Lowered

LEMMA LeavesUnengaged ==
  ASSUME NEW o, NEW op, Leaves(o, op)
  PROVE  op.at \notin Engaged
BY DEF Leaves, Engaged, Lowered

LEMMA OffersSteady ==
  ASSUME PreKeysAssumption, Placed, NEW o \in Ops, ops[o].at \in {"getting", "generating"},
         UNCHANGED <<flag, creds, link, server>>,
         \A p \in Ops : p # o => ops'[p] = ops[p], Remembers,
         \/ Leaves(o, ops'[o])
         \/ ops'[o].at = "generating"
         \/ ops'[o].at = (IF o \in Receipts THEN "marking" ELSE "uploading") /\ ops'[o].answer = "none"
  PROVE  Steady
<1>1. LowHandled' => LowHandled
  BY DEF LowHandled, Remembers
<1>2. ASSUME o \in Uploaders PROVE Proceeds(o)
  <2>1. CASE Leaves(o, ops'[o])
    BY <1>1, <2>1, LeavesUnengaged, ApartProceeds
  <2>2. CASE ops'[o].at = "generating"
    BY <1>1, <2>2 DEF Proceeds, Engaged, Lowered
  <2>3. CASE /\ ops'[o].at = (IF o \in Receipts THEN "marking" ELSE "uploading")
             /\ ops'[o].answer = "none"
    BY <1>1, <1>2, <2>3 DEF Proceeds, Engaged, Lowered, Uploaders
  <2> QED BY <2>1, <2>2, <2>3
<1> QED BY <1>1, <1>2, OneSteady

LEMMA TakenSteady ==
  ASSUME PreKeysAssumption, Placed, NEW o \in Ops, FindKeys(o) \/ Generate(o)
  PROVE  Steady
<1>1. CASE FindKeys(o)
  <2>1. FindEffect(o)
    BY <1>1, FindKeysIs
  <2>2. /\ \A p \in Ops : p # o => ops'[p] = ops[p]
        /\ Remembers
        /\ \/ Leaves(o, ops'[o])
           \/ ops'[o].at = "generating"
           \/ ops'[o].at = (IF o \in Receipts THEN "marking" ELSE "uploading") /\ ops'[o].answer = "none"
    BY <2>1 DEF FindEffect, Offers, Offered, Remembers
  <2> QED BY <2>1, <2>2, OffersSteady DEF FindEffect
<1>2. CASE Generate(o)
  <2>1. GenerateEffect(o)
    BY <1>2, GenerateIs
  <2>2. /\ \A p \in Ops : p # o => ops'[p] = ops[p]
        /\ Remembers
        /\ \/ Leaves(o, ops'[o])
           \/ ops'[o].at = (IF o \in Receipts THEN "marking" ELSE "uploading") /\ ops'[o].answer = "none"
    BY <2>1 DEF GenerateEffect, Offers, Offered
  <2> QED BY <2>1, <2>2, OffersSteady DEF GenerateEffect
<1> QED BY <1>1, <1>2

LEMMA FlagsSetSteady ==
  ASSUME PreKeysAssumption, Placed, NEW o \in Ops, FlagsSet(o)
  PROVE  Steady
<1>1. /\ Quiet(o) /\ UNCHANGED <<flag, creds, link, server, hist>> /\ ~Setting(o)
      /\ ops[o].at \in {"clearing", "flagging"}
  BY FlagsSetIs DEF FlagsSet
<1>2. LowHandled' => LowHandled
  BY <1>1 DEF LowHandled
<1>3. ops[o] \in OpType /\ ops \in [Ops -> OpType] /\ ops[o].answer = "none"
  BY <1>1 DEF Placed, TypeOK, Quiet
<1>4. CASE ops[o].at = "flagging"
  <2>1. Become(o, Continue(o, ops[o])) /\ Leaves(o, Continue(o, ops[o]))
    BY <1>3, <1>4, ContinueIs DEF FlagsSet
  <2>2. ops'[o] = Continue(o, ops[o])
    BY <1>3, <2>1, LeavesIs, BecomeIs DEF Becomes
  <2>3. Proceeds(o)
    BY <1>1, <1>2, <1>4, <2>1, <2>2, LeavesUnengaged DEF Proceeds, Engaged, Lowered
  <2> QED BY <1>1, <1>2, <2>3, OneSteady DEF Quiet
<1>5. CASE ops[o].at = "clearing"
  <2>1. PICK at \in {"reading", "getting"} : ops'[o].at = at
    <3>1. CASE ops[o].skey = None
      <4>1. Become(o, [ops[o] EXCEPT !.at = "reading"])
        BY <1>5, <3>1 DEF FlagsSet
      <4>2. ops'[o] = [ops[o] EXCEPT !.at = "reading"]
        BY <1>3, <4>1 DEF Become
      <4> QED BY <1>3, <4>2 DEF OpType
    <3>2. CASE ops[o].skey # None
      <4>1. Become(o, [ops[o] EXCEPT !.at = "getting"])
        BY <1>5, <3>2 DEF FlagsSet
      <4>2. ops'[o] = [ops[o] EXCEPT !.at = "getting"]
        BY <1>3, <4>1 DEF Become
      <4> QED BY <1>3, <4>2 DEF OpType
    <3> QED BY <3>1, <3>2
  <2>2. Proceeds(o)
    BY <1>1, <1>2, <1>5, <2>1 DEF Proceeds, Engaged, Lowered
  <2> QED BY <1>1, <1>2, <2>2, OneSteady DEF Quiet
<1> QED BY <1>1, <1>4, <1>5

LEMMA AnsweredSteady ==
  ASSUME PreKeysAssumption, Placed, NEW o \in Ops,
         ServerTakes(o) \/ ServerRefuses(o) \/ ServerLists(o)
  PROVE  Steady
<1>1. /\ Answered(o) /\ (hist'.low => hist.low)
      /\ ops[o].at = "uploading" /\ ops'[o].answer = "ok" => ~hist'.low
  <2>1. CASE ServerTakes(o)
    BY <2>1, ServerTakesIs DEF TakesEffect
  <2>2. CASE ServerRefuses(o)
    BY <2>2, ServerRefusesIs DEF Remembers
  <2>3. CASE ServerLists(o)
    BY <2>3, ServerListsIs
  <2> QED BY <2>1, <2>2, <2>3
<1>2. LowHandled' => LowHandled
  BY <1>1, NoticeStays, LowStays DEF Answered
<1>3. Proceeds(o)
  <2>1. ops'[o].at = ops[o].at /\ ops[o].at \in {"uploading", "digesting", "rotating"}
    BY <1>1 DEF Answered, Asking
  <2>2. LowHandled' => hist'.low
    BY DEF LowHandled
  <2> QED BY <1>1, <1>2, <2>1, <2>2 DEF Proceeds
<1> QED BY <1>1, <1>2, <1>3, OneSteady DEF Answered

\* An answer comes, and no flag is set for that.
LEMMA HeardSteady ==
  ASSUME PreKeysAssumption, Placed, NEW o \in Ops,
         UploadAnswered(o) \/ DigestAnswered(o) \/ RotateAnswered(o)
  PROVE  Steady \/ (DigestEffect(o) /\ ops'[o].at = "clearing" /\ FlagsBecome(o, FALSE))
<1> SUFFICES ASSUME ~(DigestEffect(o) /\ ops'[o].at = "clearing" /\ FlagsBecome(o, FALSE))
             PROVE  Steady
  OBVIOUS
<1>1. /\ Takes1(o) /\ hist'.low = hist.low /\ UNCHANGED <<flag, creds>>
      /\ \/ Leaves(o, ops'[o])
         \/ ops[o].at = "uploading" /\ ops[o].answer = "ok" /\ ops'[o].at = "marking"
  <2>1. CASE UploadAnswered(o)
    BY <2>1, UploadAnsweredIs DEF UploadEffect
  <2>2. CASE DigestAnswered(o)
    BY <2>2, DigestAnsweredIs DEF DigestEffect
  <2>3. CASE RotateAnswered(o)
    BY <2>3, RotateAnsweredIs
  <2> QED BY <2>1, <2>2, <2>3
<1>2. LowHandled' => LowHandled
  BY <1>1, NoticeStays, LowStays DEF Takes1
<1>3. Proceeds(o)
  <2>1. ops[o].at \in {"uploading", "digesting", "rotating"} /\ ops'[o].answer = "none"
    BY <1>1 DEF Takes1, Asking
  <2>2. CASE Leaves(o, ops'[o])
    BY <1>2, <2>1, <2>2, LeavesUnengaged, ApartProceeds
  <2>3. CASE ops[o].at = "uploading" /\ ops[o].answer = "ok" /\ ops'[o].at = "marking"
    BY <1>2, <2>3 DEF Proceeds, Lowered
  <2> QED BY <1>1, <2>2, <2>3
<1> QED BY <1>1, <1>2, <1>3, OneSteady DEF Takes1

LEMMA FailingSteady ==
  ASSUME PreKeysAssumption, Placed, (\E o \in Ops : Timeout(o)) \/ Disconnect
  PROVE  Steady
<1>1. ASSUME NEW o \in Ops, Timeout(o) PROVE Steady
  <2>1. TimeoutEffect(o)
    BY <1>1, TimeoutIs
  <2>2. LowHandled' => LowHandled
    BY <2>1, NoticeStays, LowStays DEF TimeoutEffect, Failing
  <2>3. Proceeds(o)
    BY <2>1, <2>2, LeavesUnengaged, ApartProceeds DEF TimeoutEffect, Asking
  <2> QED BY <2>1, <2>2, <2>3, OneSteady DEF TimeoutEffect
<1>2. ASSUME Disconnect PROVE Steady
  <2>1. DisconnectEffect /\ link = "up" /\ link' = "down"
    BY <1>2, DisconnectIs DEF Disconnect
  <2>2. Contains(server.line, LowNotice) => Contains(server'.line, LowNotice)
    <3>1. PICK done \in SUBSET Untaken : server' \in LineLost(Takes(done))
      BY <1>2 DEF Disconnect
    <3>2. done \in SUBSET Ops
      BY DEF Untaken
    <3> QED BY <3>1, <3>2, NoticeAgain
  <2>3. LowHandled' => LowHandled
    BY <2>1, <2>2, LowStays DEF DisconnectEffect, Failing
  <2>4. ASSUME NEW p \in Uploaders PROVE Proceeds(p)
    <3>1. p \in Ops
      BY DEF Uploaders
    <3>2. CASE ops[p].at \in Asking
      <4>1. Leaves(p, ops'[p])
        BY <2>1, <3>1, <3>2 DEF DisconnectEffect
      <4> QED BY <2>3, <3>2, <4>1, LeavesUnengaged, ApartProceeds DEF Asking
    <3>3. CASE ops[p].at \notin Asking
      <4>1. ops'[p] = ops[p]
        BY <2>1, <3>1, <3>3 DEF DisconnectEffect
      <4> QED BY <2>3, <4>1 DEF Proceeds
    <3> QED BY <3>2, <3>3
  <2> QED BY <2>1, <2>3, <2>4 DEF Steady, DisconnectEffect
<1> QED BY <1>1, <1>2

LEMMA OtherSteady ==
  ASSUME PreKeysAssumption, Placed,
         \/ \E o \in Ops : ReadBundle(o) \/ (Mark(o) /\ o \in Receipts)
         \/ (Start /\ flag.value) \/ NotDue \/ Rotate
         \/ \E n \in Notices : DigestArrives(n)
         \/ \E r \in Receipts : ReceiptBegins(r)
         \/ SendNotice \/ Fetch \/ Receive \/ UNCHANGED vars
  PROVE  Steady
<1>1. ASSUME NEW o \in Ops, ReadBundle(o) PROVE Steady
  <2>1. /\ Quiet(o) /\ UNCHANGED <<flag, creds, link, server, hist>>
        /\ ops[o].at = "reading" /\ ops'[o].at = "getting"
    BY <1>1, ReadBundleIs DEF ReadBundle
  <2>2. LowHandled' => LowHandled
    BY <2>1 DEF LowHandled
  <2>3. Proceeds(o)
    BY <2>1, <2>2 DEF Proceeds, Engaged, Lowered
  <2> QED BY <2>1, <2>2, <2>3, OneSteady DEF Quiet
<1>2. ASSUME NEW o \in Ops, Mark(o), o \in Receipts PROVE Steady
  <2>1. MarkEffect(o)
    BY <1>2, MarkIs
  <2>2. LowHandled' => LowHandled
    BY <2>1 DEF LowHandled, MarkEffect
  <2> QED BY <1>2, <2>1, <2>2, OneSteady DEF MarkEffect, Uploaders
<1>3. ASSUME (Start /\ flag.value) \/ NotDue \/ Rotate PROVE Steady
  <2>1. Quiet(Passive) /\ Remembers /\ UNCHANGED <<flag, creds, link, server>>
    BY <1>3, StartIs, NotDueIs, RotateIs DEF RotateEffect, Remembers
  <2>2. LowHandled' => LowHandled
    BY <2>1 DEF LowHandled, Remembers
  <2>3. ops[Passive].at \in {"starting", "deciding"}
    BY <1>3 DEF Start, NotDue, Rotate
  <2>4. ops'[Passive].at \notin Engaged
    <3>1. CASE Start /\ flag.value
      <4> DEFINE op == [ops[Passive] EXCEPT !.skey = signed]
      <4>1. Become(Passive, Digests(op)) /\ ops \in [Ops -> OpType] /\ signed \in 0..None
        BY <3>1, BoundsAre DEF Start, Placed, TypeOK
      <4>2. op \in OpType
        BY <4>1, PassiveIs DEF OpType
      <4> HIDE DEF op
      <4>3. Digests(op) \in OpType /\ Digests(op).at \in {"digesting", "deciding"}
        BY <4>2, DigestsIs
      <4>4. ops'[Passive] = Digests(op)
        BY <4>1, <4>3, PassiveIs, BecomeIs DEF Becomes
      <4> QED BY <4>3, <4>4 DEF Engaged, Lowered
    <3>2. CASE NotDue \/ Rotate
      BY <3>2, NotDueIs, RotateIs DEF RotateEffect, Engaged, Lowered
    <3> QED BY <1>3, <3>1, <3>2
  <2>5. Proceeds(Passive)
    BY <2>2, <2>3, <2>4, ApartProceeds
  <2> QED BY <2>1, <2>2, <2>5, OneSteady DEF Quiet
<1>4. ASSUME NEW n \in Notices, DigestArrives(n) PROVE Steady
  <2>1. /\ Quiet(n) /\ Remembers /\ ops[n].at = "idle" /\ ops'[n].at = "digesting" /\ link = "up"
        /\ UNCHANGED <<flag, creds, link, server>>
    BY <1>4, DigestArrivesIs DEF DigestArrives
  <2>2. LowHandled' => LowHandled
    BY <2>1 DEF LowHandled, Remembers
  <2>3. Proceeds(n)
    BY <2>1, <2>2 DEF Proceeds, Engaged, Lowered
  <2> QED BY <2>1, <2>2, <2>3, OneSteady DEF Quiet
<1>5. ASSUME NEW r \in Receipts, ReceiptBegins(r) PROVE Steady
  <2>1. Quiet(r) /\ Remembers /\ UNCHANGED <<flag, creds, link, server>>
    BY <1>5, ReceiptBeginsIs
  <2>2. LowHandled' => LowHandled
    BY <2>1 DEF LowHandled, Remembers
  <2> QED BY <2>1, <2>2, OneSteady DEF Quiet, Uploaders
<1>6. ASSUME SendNotice \/ Fetch \/ Receive \/ UNCHANGED vars PROVE Steady
  <2>1. /\ UNCHANGED <<flag, creds, link, ops>>
        /\ \/ hist'.low = hist.low /\ server'.line = server.line
           \/ server'.line = Append(server.line, LowNotice)
    <3>1. CASE SendNotice
      BY <3>1, SendNoticeIs DEF Elsewhere
    <3>2. CASE Fetch
      BY <3>2, FetchIs DEF FetchEffect, Remembers
    <3>3. CASE Receive
      BY <3>3, ReceiveIs DEF ReceiveEffect
    <3>4. CASE UNCHANGED vars
      BY <3>4 DEF vars
    <3> QED BY <1>6, <3>1, <3>2, <3>3, <3>4
  <2>2. LowHandled' => LowHandled
    <3>1. CASE server'.line = Append(server.line, LowNotice)
      <4> DEFINE line == server.line
                 new == server'.line
      <4>1. line \in Seq(Ops \cup {LowNotice})
        BY LineTyped
      <4>2. new = Append(line, LowNotice)
        BY <3>1
      <4> HIDE DEF line, new
      <4>3. Len(line) \in Nat /\ Len(new) = Len(line) + 1 /\ new[Len(line) + 1] = LowNotice
        BY <4>1, <4>2, AppendIs
      <4>4. Len(line) + 1 \in 1..Len(new)
        BY <4>3
      <4>5. Contains(new, LowNotice)
        BY <4>3, <4>4 DEF Contains
      <4> QED BY <4>5 DEF LowHandled, new
    <3>2. CASE hist'.low = hist.low /\ server'.line = server.line
      BY <3>2 DEF LowHandled
    <3> QED BY <2>1, <3>1, <3>2
  <2>3. \A p \in Uploaders : Proceeds(p)
    BY <2>1, <2>2 DEF Proceeds
  <2> QED BY <2>1, <2>2, <2>3 DEF Steady
<1> QED BY <1>1, <1>2, <1>3, <1>4, <1>5, <1>6

-----------------------------------------------------------------------------
(* Every step, for the flags.                                              *)

LEMMA InitFlags ==
  ASSUME PreKeysAssumption, Init
  PROVE  FlagsOK
<1>1. /\ flag.value = FALSE /\ flag.chain = <<>> /\ creds.chain = <<>>
      /\ creds.mem = FALSE /\ creds.saved = FALSE /\ creds.loaded = FALSE
      /\ link = "down" /\ hist.low = FALSE
      /\ \A o \in Ops : ops[o].at = "idle"
  BY IdleIs DEF Init
<1>2. 1..Len(flag.chain) = {} /\ 1..Len(creds.chain) = {}
  BY <1>1
<1>3. Restoring /\ Alone
  BY <1>1, <1>2 DEF Restoring, Alone, Uploaders, Engaged, Lowered
<1>4. NoneAtWork
  BY <1>1 DEF NoneAtWork, Uploaders
<1>5. AsInMemory /\ Agreed /\ NotRaised
  BY <1>1, <1>4 DEF AsInMemory, Agreed, NotRaised
<1>6. DownAtWork /\ DownWhenLow
  BY <1>1 DEF DownAtWork, DownWhenLow, LowHandled, Uploaders, Lowered
<1> QED BY <1>3, <1>5, <1>6 DEF FlagsOK, Lowers

\* A notice comes, or the digest differs, and the flags are lowered.
LEMMA LowerSteps ==
  ASSUME PreKeysAssumption, Placed, Restoring, Lowers, ~Unsure',
         \/ \E n \in Notices : LowArrives(n)
         \/ \E o \in Ops : DigestAnswered(o) /\ ops'[o].at = "clearing" /\ FlagsBecome(o, FALSE)
  PROVE  Lowers'
<1>1. PICK o \in Ops :
        /\ ops[o].at \in {"idle", "digesting"} /\ ops'[o].at = "clearing" /\ o \notin Receipts
        /\ FlagsBecome(o, FALSE) /\ hist'.lapses = hist.lapses \cup Beside(o)
        /\ \A p \in Ops : p # o => ops'[p] = ops[p]
        /\ link = "up" /\ link' = link
  <2>1. ASSUME NEW n \in Notices, LowArrives(n)
        PROVE  /\ n \in Ops /\ n \notin Receipts
               /\ ops[n].at = "idle" /\ ops'[n].at = "clearing"
               /\ FlagsBecome(n, FALSE) /\ hist'.lapses = hist.lapses \cup Beside(n)
               /\ \A p \in Ops : p # n => ops'[p] = ops[p]
               /\ link = "up" /\ link' = link
    <3>1. /\ Quiet(n) /\ ops[n].at = "idle" /\ ops'[n].at = "clearing"
          /\ FlagsBecome(n, FALSE) /\ Notes(Beside(n)) /\ link' = link /\ link = "up"
      BY <2>1, LowArrivesIs DEF LowArrives, Arrived
    <3>2. n \in Ops /\ n \notin Receipts
      BY PassiveIs DEF PreKeysAssumption
    <3> QED BY <3>1, <3>2 DEF Quiet, Notes
  <2>2. ASSUME NEW o \in Ops, DigestAnswered(o), ops'[o].at = "clearing", FlagsBecome(o, FALSE)
        PROVE  /\ o \notin Receipts /\ ops[o].at = "digesting"
               /\ hist'.lapses = hist.lapses \cup Beside(o)
               /\ \A p \in Ops : p # o => ops'[p] = ops[p]
               /\ link = "up" /\ link' = link
    <3>1. DigestEffect(o) /\ link = "up"
      BY <2>2, DigestAnsweredIs DEF DigestAnswered, Arrived
    <3>2. Notes(Beside(o))
      <4>1. ~Leaves(o, ops'[o])
        BY <2>2 DEF Leaves
      <4> QED BY <3>1, <4>1 DEF DigestEffect
    <3>3. o \notin Receipts
      BY <3>1 DEF DigestEffect, Placed, OpsFit, Fits
    <3> QED BY <3>1, <3>2, <3>3 DEF DigestEffect, Takes1, Notes
  <2> QED BY <2>1, <2>2
<1>2. NoneBeside(o)
  BY <1>1, BesideIs DEF Unsure, Except
<1>3. o \in Uploaders
  BY <1>1 DEF Uploaders
<1> QED BY <1>1, <1>2, <1>3, LowerLowers

LEMMA StartSteps ==
  ASSUME PreKeysAssumption, Placed, Restoring, Lowers, ~Unsure', Start, ~flag.value
  PROVE  Lowers'
<1>1. Quiet(Passive) /\ Remembers /\ UNCHANGED <<flag, creds, link, server>>
  BY StartIs
<1>2. ops[Passive].at = "starting" /\ Lapse(Beside(Passive))
  BY DEF Start
<1>3. ops'[Passive].at = "getting"
  <2>1. ops \in [Ops -> OpType] /\ ops[Passive] \in OpType
    BY PassiveIs DEF Placed, TypeOK
  <2>2. Become(Passive, [[ops[Passive] EXCEPT !.skey = signed] EXCEPT !.at = "getting"])
    BY DEF Start
  <2>3. ops'[Passive] = [[ops[Passive] EXCEPT !.skey = signed] EXCEPT !.at = "getting"]
    BY <2>1, <2>2, PassiveIs DEF Become
  <2> QED BY <2>1, <2>3 DEF OpType
<1>4. NoneBeside(Passive)
  <2>1. hist'.lapses = hist.lapses \cup Beside(Passive)
    BY <1>2 DEF Lapse, Placed, TypeOK, Histories
  <2> QED BY <2>1, BesideIs DEF Unsure, Except
<1>5. LowHandled' => LowHandled
  BY <1>1 DEF LowHandled, Remembers
<1> QED BY <1>1, <1>2, <1>3, <1>4, <1>5, StartLowers DEF Quiet

LEMMA CrashSteps ==
  ASSUME PreKeysAssumption, Placed, Restoring, Lowers, ~Unsure', Crash
  PROVE  Lowers'
<1>1. CrashEffect /\ CrashFlagged
  BY CrashIs, CrashFlags
<1>2. PICK done \in SUBSET Untaken :
        /\ server' \in LineLost(Takes(done))
        /\ hist' = [hist EXCEPT !.faults = @ + 1, !.low = @ /\ ~Restocked(done),
                      !.lapses = @ \cup Unanswered(Ops) \cup Stale(done)
                        \cup {l \in {"interrupted"} : Interrupts}]
  BY DEF Crash
<1>3. ~Interrupts
  <2>1. hist'.lapses = hist.lapses \cup Unanswered(Ops) \cup Stale(done)
                         \cup {l \in {"interrupted"} : Interrupts}
    BY <1>2 DEF Placed, TypeOK, Histories
  <2>2. "interrupted" \notin hist'.lapses
    BY DEF Unsure, Except
  <2> QED BY <2>1, <2>2
<1>4. Contains(server.line, LowNotice) => Contains(server'.line, LowNotice)
  <2>1. done \in SUBSET Ops
    BY DEF Untaken
  <2> QED BY <1>2, <2>1, NoticeAgain
<1>5. LowHandled' => LowHandled
  BY <1>1, <1>4, LowStays DEF CrashEffect, Failing
<1> QED BY <1>1, <1>3, <1>5, CrashLowers

LEMMA StepLowers ==
  ASSUME PreKeysAssumption, Placed, Restoring, Lowers, ~Unsure', [Next]_vars
  PROVE  Lowers'
<1>1. CASE Steady
  BY <1>1, SteadyLowers
<1>2. ASSUME NEW o \in Ops, \/ FindKeys(o) \/ Generate(o) \/ FlagsSet(o)
                            \/ ServerTakes(o) \/ ServerRefuses(o) \/ ServerLists(o)
      PROVE  Lowers'
  BY <1>1, <1>2, TakenSteady, FlagsSetSteady, AnsweredSteady
<1>3. ASSUME NEW o \in Ops, Mark(o), o \notin Receipts PROVE Lowers'
  <2>1. MarkEffect(o) /\ o \in Uploaders
    BY <1>3, MarkIs DEF Uploaders
  <2>2. LowHandled' => LowHandled
    BY <2>1 DEF LowHandled, MarkEffect
  <2> QED BY <1>3, <2>1, <2>2, RaiseLowers DEF MarkEffect
<1>4. ASSUME NEW o \in Ops, UploadAnswered(o) \/ RotateAnswered(o) PROVE Lowers'
  <2>1. ~(DigestEffect(o) /\ ops'[o].at = "clearing")
    <3>1. ops[o].at # "digesting"
      BY <1>4 DEF UploadAnswered, RotateAnswered
    <3> QED BY <3>1 DEF DigestEffect
  <2> QED BY <1>1, <1>4, <2>1, HeardSteady
<1>5. ASSUME NEW o \in Ops, DigestAnswered(o) PROVE Lowers'
  <2>1. Steady \/ (ops'[o].at = "clearing" /\ FlagsBecome(o, FALSE))
    BY <1>5, HeardSteady
  <2> QED BY <1>1, <1>5, <2>1, LowerSteps
<1>6. ASSUME (\E o \in Ops : Timeout(o)) \/ Disconnect PROVE Lowers'
  BY <1>1, <1>6, FailingSteady
<1>7. ASSUME StoreFlag \/ Save \/ Connect \/ Load \/ Restored \/ Connected PROVE Lowers'
  BY <1>7, StoreFlagLowers, SaveLowers, ConnectLowers, LoadLowers, RestoredLowers, ConnectedLowers
<1>8. ASSUME WriteFails PROVE Lowers'
  BY <1>8, WriteFailsIs DEF Unsure, Except
<1>9. ASSUME Start /\ ~flag.value PROVE Lowers'
  BY <1>9, StartSteps
<1>10. ASSUME Crash PROVE Lowers'
  BY <1>10, CrashSteps
<1>11. ASSUME NEW n \in Notices, LowArrives(n) PROVE Lowers'
  BY <1>11, LowerSteps
<1>12. ASSUME \/ \E o \in Ops : ReadBundle(o) \/ (Mark(o) /\ o \in Receipts)
              \/ (Start /\ flag.value) \/ NotDue \/ Rotate
              \/ \E n \in Notices : DigestArrives(n)
              \/ \E r \in Receipts : ReceiptBegins(r)
              \/ SendNotice \/ Fetch \/ Receive \/ UNCHANGED vars
       PROVE  Lowers'
  BY <1>1, <1>12, OtherSteady
<1> QED BY <1>2, <1>3, <1>4, <1>5, <1>6, <1>7, <1>8, <1>9, <1>10, <1>11, <1>12 DEF Next, WriteFails

-----------------------------------------------------------------------------
(* The keys that the server has taken.                                     *)

\* Keys that were taken, and those on their way, are among those generated.
Numbered ==
  /\ hist.taken \subseteq 1..(keys.next - 1)
  /\ \A o \in Ops : ops[o].at \in {"generating", "uploading", "marking"} =>
       ops[o].ids \subseteq 1..(keys.next - 1)
\* A key that was taken is marked, or an upload is about to mark it.
MarkedSoon ==
  \A k \in (hist.taken \cap keys.held) \ keys.marked :
    \E o \in Uploaders : ops[o].at = "marking" /\ k \in ops[o].ids
TakenOK == Numbered /\ (Unsure \/ MarkedSoon)

\* A step in which no upload is confirmed, and no upload marks its keys.
Passing ==
  /\ hist'.taken = hist.taken /\ keys'.next >= keys.next
  /\ \A k \in hist.taken : k < keys.next /\ k \in keys'.held \ keys'.marked =>
       k \in keys.held \ keys.marked
  /\ \A p \in Ops :
       \/ ops'[p].at \notin {"generating", "uploading", "marking"}
       \/ /\ ops[p].at \in {"generating", "uploading", "marking"}
          /\ ops'[p].ids = ops[p].ids
       \/ ops'[p].ids \subseteq 1..(keys'.next - 1)
Remaining == \A p \in Uploaders : ops[p].at = "marking" => ops'[p] = ops[p]

LEMMA PassingNumbered ==
  ASSUME Placed, Placed', Numbered, Passing
  PROVE  Numbered' /\ (MarkedSoon /\ Remaining => MarkedSoon')
<1>1. keys.next \in Nat /\ keys'.next \in Nat
  <2>1. keys.next \in 1..(MaxId + 1) /\ keys'.next \in 1..(MaxId + 1)
    BY KeyStoreIs DEF Placed, TypeOK
  <2> QED BY <2>1
<1>2. keys'.next >= keys.next /\ 1..(keys.next - 1) \subseteq 1..(keys'.next - 1)
  <2>1. keys'.next >= keys.next
    BY DEF Passing
  <2> QED BY <1>1, <2>1
<1>3. Numbered'
  BY <1>2 DEF Numbered, Passing
<1>4. ASSUME MarkedSoon, Remaining,
             NEW k \in (hist'.taken \cap keys'.held) \ keys'.marked
      PROVE  \E o \in Uploaders : ops'[o].at = "marking" /\ k \in ops'[o].ids
  <2>1. k \in hist.taken /\ k < keys.next
    <3>1. k \in hist.taken /\ k \in 1..(keys.next - 1)
      BY DEF Passing, Numbered
    <3> QED BY <1>1, <3>1
  <2>2. k \in (hist.taken \cap keys.held) \ keys.marked
    BY <2>1 DEF Passing
  <2>3. PICK o \in Uploaders : ops[o].at = "marking" /\ k \in ops[o].ids
    BY <1>4, <2>2 DEF MarkedSoon
  <2> QED BY <1>4, <2>3 DEF Remaining
<1> QED BY <1>3, <1>4 DEF MarkedSoon

\* The keys of the store are below the next.
LEMMA HeldBelow ==
  ASSUME Placed
  PROVE  keys.held \subseteq 1..(keys.next - 1) /\ keys.next \in Nat /\ keys.marked \subseteq keys.held
<1>1. keys.next \in 1..(MaxId + 1)
  BY KeyStoreIs DEF Placed, TypeOK
<1> QED BY <1>1, KeyStoreIs DEF Placed, TypeOK

\* The store keeps its keys, and no operation takes up others.
LEMMA SamePassing ==
  ASSUME Placed, SameKeys, hist'.taken = hist.taken,
         \A p \in Ops :
           \/ ops'[p].at \notin {"generating", "uploading", "marking"}
           \/ /\ ops[p].at \in {"generating", "uploading", "marking"}
              /\ ops'[p].ids = ops[p].ids
           \/ ops'[p].ids \subseteq 1..(keys.next - 1)
  PROVE  Passing
<1>1. keys'.held = keys.held /\ keys'.marked = keys.marked /\ keys'.next = keys.next
  BY DEF SameKeys
<1>2. keys'.next >= keys.next
  BY <1>1, HeldBelow
<1> QED BY <1>1, <1>2 DEF Passing

\* One operation does something, with no keys.
LEMMA OnePassing ==
  ASSUME Placed, SameKeys, hist'.taken = hist.taken, NEW o,
         \A p \in Ops : p # o => ops'[p] = ops[p],
         \/ ops'[o].at \notin {"generating", "uploading", "marking"}
         \/ /\ ops[o].at \in {"generating", "uploading", "marking"}
            /\ ops'[o].ids = ops[o].ids
  PROVE  Passing /\ (ops[o].at # "marking" \/ o \in Receipts => Remaining)
BY HeldBelow DEF Passing, Remaining, SameKeys, Uploaders

LEMMA GettingPassing ==
  ASSUME PreKeysAssumption, Placed, Placed', Numbered, NEW o \in Ops, FindKeys(o) \/ Generate(o)
  PROVE  Passing /\ Remaining
<1>1. CASE FindKeys(o)
  <2>1. FindEffect(o)
    BY <1>1, FindKeysIs
  <2>2. /\ SameKeys /\ ops[o].at = "getting" /\ hist'.taken = hist.taken
        /\ \A p \in Ops : p # o => ops'[p] = ops[p]
        /\ \/ ops'[o].at \notin {"generating", "uploading", "marking"}
           \/ ops'[o].ids \subseteq Available
    <3>1. CASE \E ids \in SUBSET Available : ids # {} /\ Offers(o, ids, keys.held)
      BY <2>1, <3>1, LeavesAside DEF FindEffect, Offers, Offered, Remembers
    <3>2. CASE ~(\E ids \in SUBSET Available : ids # {} /\ Offers(o, ids, keys.held))
      BY <2>1, <3>2 DEF FindEffect
    <3> QED BY <3>1, <3>2
  <2>3. Available \subseteq 1..(keys.next - 1)
    BY HeldBelow DEF Available
  <2>4. \A p \in Ops :
          \/ ops'[p].at \notin {"generating", "uploading", "marking"}
          \/ ops'[p] = ops[p]
          \/ ops'[p].ids \subseteq 1..(keys.next - 1)
    BY <2>2, <2>3
  <2>5. Passing
    BY <2>2, <2>4, SamePassing
  <2>6. Remaining
    BY <2>2 DEF Remaining, Uploaders
  <2> QED BY <2>5, <2>6
<1>2. CASE Generate(o)
  <2>1. GenerateEffect(o)
    BY <1>2, GenerateIs
  <2>2. PICK m \in 1..Wanted(o) :
          LET new == keys.next..(keys.next + m - 1)
          IN /\ keys'.next = keys.next + m
             /\ keys'.held = Evicted(keys.held \cup new)
             /\ keys'.marked = keys.marked \cap keys'.held
             /\ new \subseteq Ids
             /\ Offers(o, ops[o].ids \cup new, Evicted(keys.held \cup new))
    BY <2>1 DEF GenerateEffect
  <2> DEFINE new == keys.next..(keys.next + m - 1)
             held == Evicted(keys.held \cup new)
  <2>3. /\ keys'.next = keys.next + m /\ keys'.held = held /\ keys'.marked = keys.marked \cap held
        /\ Offers(o, ops[o].ids \cup new, held) /\ held \subseteq keys.held \cup new
    BY <2>2, EvictedIs
  <2>4. /\ keys.next \in Nat /\ m \in Nat /\ \A k \in new : k >= keys.next /\ k \in 1..(keys.next + m - 1)
    <3>1. keys.next \in 1..(MaxId + 1) /\ MaxId \in Nat
      BY KeyStoreIs DEF Placed, TypeOK, PreKeysAssumption
    <3>2. m \in Nat /\ m # 0
      BY WantedIs
    <3> QED BY <3>1, <3>2
  <2>5. ops[o].at = "generating" /\ ops[o].ids \subseteq 1..(keys.next - 1)
    BY <2>1 DEF GenerateEffect, Numbered
  <2>6. ops[o].ids \cup new \subseteq 1..(keys'.next - 1)
    <3>1. 1..(keys.next - 1) \subseteq 1..(keys.next + m - 1)
      BY <2>4
    <3> HIDE DEF new
    <3> QED BY <2>3, <2>4, <2>5, <3>1
  <2>7. \A p \in Ops :
          \/ ops'[p] = ops[p] \/ ops'[p].at \notin {"generating", "uploading", "marking"}
          \/ ops'[p].ids \subseteq 1..(keys'.next - 1)
    <3> HIDE DEF new, held
    <3> QED BY <2>3, <2>6, LeavesAside DEF Offers, Offered
  <2>8. \A k \in hist.taken : k < keys.next /\ k \in keys'.held \ keys'.marked =>
          k \in keys.held \ keys.marked
    <3> SUFFICES ASSUME NEW k \in hist.taken, k < keys.next, k \in keys'.held \ keys'.marked
                 PROVE  k \in keys.held \ keys.marked
      OBVIOUS
    <3>1. k \in 1..(keys.next - 1)
      BY DEF Numbered
    <3>2. k \notin new
      BY <2>4, <3>1
    <3> HIDE DEF new, held
    <3> QED BY <2>3, <3>2
  <2>9. keys'.next >= keys.next /\ hist'.taken = hist.taken
    <3>1. hist'.taken = hist.taken
      BY <2>3 DEF Offers, Remembers
    <3>2. keys'.next >= keys.next
      BY <2>3, <2>4
    <3> QED BY <3>1, <3>2
  <2>10. Remaining
    BY <2>3, <2>5 DEF Offers, Remaining, Uploaders
  <2> QED BY <2>7, <2>8, <2>9, <2>10 DEF Passing
<1> QED BY <1>1, <1>2

\* The upload is confirmed: its keys are to be marked next.
LEMMA ConfirmTaken ==
  ASSUME PreKeysAssumption, Placed, Numbered, NEW o \in Ops, UploadEffect(o), ops[o].answer = "ok"
  PROVE  Numbered' /\ (MarkedSoon => MarkedSoon')
<1>1. /\ ops[o].at = "uploading" /\ ops'[o].at = "marking" /\ ops'[o].ids = ops[o].ids
      /\ hist'.taken = hist.taken \cup ops[o].ids /\ o \in Uploaders
      /\ \A p \in Ops : p # o => ops'[p] = ops[p]
      /\ keys'.held = keys.held /\ keys'.marked = keys.marked /\ keys'.next = keys.next
  <2>1. ~Leaves(o, ops'[o]) \/ ops[o].answer = "ok"
    OBVIOUS
  <2>2. o \in Uploaders
    BY DEF UploadEffect, Placed, OpsFit, Fits, Uploaders
  <2> QED BY <2>2 DEF UploadEffect, Takes1, SameKeys
<1>2. Numbered'
  BY <1>1 DEF Numbered
<1>3. ASSUME MarkedSoon, NEW k \in (hist'.taken \cap keys'.held) \ keys'.marked
      PROVE  \E p \in Uploaders : ops'[p].at = "marking" /\ k \in ops'[p].ids
  <2>1. CASE k \in ops[o].ids
    BY <1>1, <2>1
  <2>2. CASE k \notin ops[o].ids
    <3>1. PICK p \in Uploaders : ops[p].at = "marking" /\ k \in ops[p].ids
      BY <1>1, <1>3, <2>2 DEF MarkedSoon
    <3> QED BY <1>1, <3>1 DEF Uploaders
  <2> QED BY <2>1, <2>2
<1> QED BY <1>2, <1>3 DEF MarkedSoon

LEMMA MarkTaken ==
  ASSUME PreKeysAssumption, Placed, Numbered, NEW o \in Ops, MarkEffect(o)
  PROVE  Numbered' /\ (MarkedSoon => MarkedSoon')
<1> DEFINE last == Max(ops[o].ids)
<1>1. /\ ops[o].at = "marking" /\ ops'[o].at \in {"idle", "flagging"} /\ hist'.taken = hist.taken
      /\ \A p \in Ops : p # o => ops'[p] = ops[p]
      /\ keys'.held = keys.held /\ keys'.next = keys.next /\ keys'.marked = MarkedUpTo(last)
      /\ \A k \in ops[o].ids : k <= last
  BY IdleIs, MaxOfKeys DEF MarkEffect
<1> HIDE DEF last
<1>2. Numbered'
  BY <1>1 DEF Numbered
<1>3. ASSUME MarkedSoon, NEW k \in (hist'.taken \cap keys'.held) \ keys'.marked
      PROVE  \E p \in Uploaders : ops'[p].at = "marking" /\ k \in ops'[p].ids
  <2>1. k \in (hist.taken \cap keys.held) \ keys.marked /\ ~(k <= last)
    BY <1>1 DEF MarkedUpTo
  <2>2. PICK p \in Uploaders : ops[p].at = "marking" /\ k \in ops[p].ids
    BY <1>3, <2>1 DEF MarkedSoon
  <2>3. p # o
    BY <1>1, <2>1, <2>2
  <2> QED BY <1>1, <2>2, <2>3 DEF Uploaders
<1> QED BY <1>2, <1>3 DEF MarkedSoon

LEMMA InitTaken ==
  ASSUME PreKeysAssumption, Init
  PROVE  TakenOK
<1>1. hist.taken = {} /\ \A o \in Ops : ops[o].at = "idle"
  BY IdleIs DEF Init
<1> QED BY <1>1 DEF TakenOK, Numbered, MarkedSoon

LEMMA StepTaken ==
  ASSUME PreKeysAssumption, Placed, Placed', Numbered, [Next]_vars
  PROVE  Numbered' /\ (~Unsure' /\ MarkedSoon => MarkedSoon')
<1> DEFINE Goal == Numbered' /\ (~Unsure' /\ MarkedSoon => MarkedSoon')
<1>1. CASE Passing /\ (Unsure' \/ Remaining)
  BY <1>1, PassingNumbered
<1>2. ASSUME NEW o \in Ops, FindKeys(o) \/ Generate(o) PROVE Goal
  BY <1>1, <1>2, GettingPassing
<1>3. ASSUME NEW o \in Ops, Mark(o) PROVE Goal
  BY <1>3, MarkIs, MarkTaken
<1>4. ASSUME NEW o \in Ops, Quiet(o), hist'.taken = hist.taken PROVE Goal
  BY <1>1, <1>4, OnePassing DEF Quiet
<1>5. ASSUME NEW o \in Ops, FlagsSet(o) \/ ReadBundle(o) PROVE Goal
  BY <1>4, <1>5, FlagsSetIs, ReadBundleIs
<1>6. ASSUME NEW o \in Ops, ServerTakes(o) \/ ServerRefuses(o) \/ ServerLists(o) PROVE Goal
  <2>1. /\ Answered(o) /\ hist'.taken = hist.taken
        /\ ops'[o].ids = ops[o].ids \/ ops[o].at = "digesting"
    <3>1. CASE ServerTakes(o)
      BY <3>1, ServerTakesIs DEF TakesEffect
    <3>2. CASE ServerRefuses(o)
      BY <3>2, ServerRefusesIs DEF Remembers
    <3>3. CASE ServerLists(o)
      BY <3>3, ServerListsIs
    <3> QED BY <1>6, <3>1, <3>2, <3>3
  <2> QED BY <1>1, <2>1, OnePassing DEF Answered, SameKeys, Asking
<1>7. ASSUME NEW o \in Ops, UploadAnswered(o) PROVE Goal
  <2>1. UploadEffect(o)
    BY <1>7, UploadAnsweredIs
  <2>2. CASE ops[o].answer = "ok"
    BY <2>1, <2>2, ConfirmTaken
  <2>3. CASE ops[o].answer # "ok"
    BY <1>1, <2>1, <2>3, LeavesAside, OnePassing DEF UploadEffect, Takes1
  <2> QED BY <2>2, <2>3
<1>8. ASSUME NEW o \in Ops, DigestAnswered(o) \/ RotateAnswered(o) PROVE Goal
  <2>1. /\ Takes1(o) /\ ops[o].at # "marking" /\ hist'.taken = hist.taken
        /\ ops'[o].at \notin {"generating", "uploading", "marking"}
    <3>1. CASE DigestAnswered(o)
      BY <3>1, DigestAnsweredIs, LeavesAside DEF DigestEffect, Remembers
    <3>2. CASE RotateAnswered(o)
      BY <3>2, RotateAnsweredIs, LeavesAside
    <3> QED BY <1>8, <3>1, <3>2
  <2> QED BY <1>1, <2>1, OnePassing DEF Takes1
<1>9. ASSUME NEW o \in Ops, Timeout(o) PROVE Goal
  <2>1. TimeoutEffect(o)
    BY <1>9, TimeoutIs
  <2> QED BY <1>1, <2>1, LeavesAside, OnePassing DEF TimeoutEffect, Failing, SameKeys, Asking
<1>10. ASSUME Disconnect PROVE Goal
  <2>1. DisconnectEffect
    BY <1>10, DisconnectIs
  <2>2. \A p \in Ops :
          \/ ops'[p] = ops[p]
          \/ /\ ops[p].at # "marking"
             /\ ops'[p].at \notin {"generating", "uploading", "marking"}
    BY <2>1, LeavesAside DEF DisconnectEffect, Asking
  <2>3. SameKeys /\ hist'.taken = hist.taken
    BY <2>1 DEF DisconnectEffect, Failing, SameKeys
  <2>4. Passing
    BY <2>2, <2>3, SamePassing
  <2>5. Remaining
    BY <2>2 DEF Remaining, Uploaders
  <2> QED BY <1>1, <2>4, <2>5
<1>11. ASSUME Crash PROVE Goal
  <2>1. CrashEffect
    BY <1>11, CrashIs
  <2>2. Passing
    <3>1. \A p \in Ops : ops'[p].at \notin {"generating", "uploading", "marking"}
      BY <2>1, IdleIs DEF CrashEffect
    <3>2. SameKeys /\ hist'.taken = hist.taken
      BY <2>1 DEF CrashEffect, Failing
    <3> QED BY <3>1, <3>2, SamePassing
  <2>3. Unsure' \/ Remaining
    BY <2>1 DEF CrashEffect, Unsure, Except, Remaining, Uploaders
  <2> QED BY <1>1, <2>2, <2>3
<1>12. ASSUME UNCHANGED <<keys, ops>>, hist'.taken = hist.taken PROVE Goal
  <2>1. Passing /\ Remaining
    BY <1>12, HeldBelow DEF Passing, Remaining
  <2> QED BY <1>1, <2>1
<1>13. ASSUME StoreFlag \/ Connect \/ Load \/ Restored \/ Connected \/ SendNotice PROVE Goal
  <2>1. Elsewhere /\ hist'.taken = hist.taken
    BY <1>13, StoreFlagIs, ConnectIs, LoadIs, RestoredIs, ConnectedIs, SendNoticeIs DEF Remembers
  <2>2. Passing /\ Remaining
    BY <2>1, HeldBelow DEF Elsewhere, SameKeys, Passing, Remaining
  <2> QED BY <1>1, <2>2
<1>14. ASSUME Save \/ WriteFails PROVE Goal
  <2>1. /\ UNCHANGED keys /\ hist'.taken = hist.taken
        /\ \A p \in Ops : \/ ops'[p] = ops[p]
                          \/ /\ ops[p].at # "marking"
                             /\ ops'[p].at \notin {"generating", "uploading", "marking"}
    <3>1. CASE Save
      BY <3>1, SaveIs
    <3>2. CASE WriteFails
      BY <3>2, WriteFailsIs, LeavesAside DEF Remembers
    <3> QED BY <1>14, <3>1, <3>2
  <2>2. Passing /\ Remaining
    BY <2>1, HeldBelow DEF Passing, Remaining, Uploaders
  <2> QED BY <1>1, <2>2
<1>15. ASSUME Start \/ NotDue \/ Rotate PROVE Goal
  <2>1. Quiet(Passive) /\ hist'.taken = hist.taken
    BY <1>15, StartIs, NotDueIs, RotateIs DEF RotateEffect, Remembers
  <2> QED BY <1>4, <2>1, PassiveIs
<1>16. ASSUME NEW n \in Notices, LowArrives(n) \/ DigestArrives(n) PROVE Goal
  <2>1. Quiet(n) /\ hist'.taken = hist.taken /\ n \in Ops
    BY <1>16, LowArrivesIs, DigestArrivesIs, PassiveIs DEF Remembers
  <2> QED BY <1>4, <2>1
<1>17. ASSUME NEW r \in Receipts, ReceiptBegins(r) PROVE Goal
  <2>1. Quiet(r) /\ hist'.taken = hist.taken /\ r \in Ops
    BY <1>17, ReceiptBeginsIs, PassiveIs DEF Remembers
  <2> QED BY <1>4, <2>1
<1>18. ASSUME Fetch \/ UNCHANGED vars PROVE Goal
  <2>1. UNCHANGED <<keys, ops>> /\ hist'.taken = hist.taken
    BY <1>18, FetchIs DEF FetchEffect, Remembers, vars
  <2> QED BY <1>12, <2>1
<1>19. ASSUME Receive PROVE Goal
  <2>1. ReceiveEffect
    BY <1>19, ReceiveIs
  <2>2. Passing /\ Remaining
    <3>1. CASE keys' = keys
      BY <2>1, <3>1, HeldBelow DEF ReceiveEffect, Passing, Remaining
    <3>2. CASE keys' # keys
      <4>1. PICK m \in peers.flying :
              /\ keys'.held = keys.held \ {m.id} /\ keys'.marked = keys.marked \ {m.id}
              /\ keys'.next = keys.next
        BY <2>1, <3>2 DEF ReceiveEffect
      <4>2. keys'.held \ keys'.marked \subseteq keys.held \ keys.marked
        BY <4>1
      <4> QED BY <2>1, <4>1, <4>2, HeldBelow DEF ReceiveEffect, Passing, Remaining
    <3> QED BY <3>1, <3>2
  <2> QED BY <1>1, <2>2
<1> QED BY <1>2, <1>3, <1>5, <1>6, <1>7, <1>8, <1>9, <1>10, <1>11, <1>13, <1>14, <1>15, <1>16,
           <1>17, <1>18, <1>19 DEF Next, WriteFails

-----------------------------------------------------------------------------
\* While the flag in the store says that the server has keys, the notice that it
\* is low has led to a write of the flag that is still under way, and every key
\* that the server took is marked, so that it is offered to nobody else: unless
\* two operations uploaded side by side, a crash interrupted one, or a save of
\* the credentials failed.
THEOREM PreKeysFlag == Spec => []FlagIsRight
<1> USE PreKeysAssumption
<1> DEFINE Inv == Placed /\ OnceOK /\ FlagsOK /\ TakenOK
<1>1. Init => Inv
  BY InitPlaced, InitOrderly, InitFlags, InitTaken DEF OnceOK
<1>2. Inv /\ [Next]_vars => Inv'
  <2> SUFFICES ASSUME Inv, [Next]_vars PROVE Inv'
    OBVIOUS
  <2>1. Placed' /\ OnceOK' /\ hist.lapses \subseteq hist'.lapses
    BY StepPlaced, StepOnce
  <2>2. Unsure => Unsure'
    BY <2>1 DEF Unsure, Except
  <2>3. FlagsOK'
    BY <2>2, StepRestoring, StepLowers DEF FlagsOK
  <2>4. TakenOK'
    BY <2>1, <2>2, StepTaken DEF TakenOK
  <2> QED BY <2>1, <2>3, <2>4
<1>3. Inv => FlagIsRight
  <2> SUFFICES ASSUME Inv, flag.value, ~Unsure
               PROVE  /\ LowHandled => flag.chain # <<>>
                      /\ hist.taken \cap keys.held \subseteq keys.marked
    BY DEF FlagIsRight, LowHandled, Unsure
  <2>1. Lowers /\ MarkedSoon
    BY DEF FlagsOK, TakenOK
  <2>2. LowHandled => flag.chain # <<>>
    <3> SUFFICES ASSUME LowHandled, flag.chain = <<>> PROVE FALSE
      OBVIOUS
    <3>1. \E j \in 1..Len(flag.chain) : TRUE
      BY <2>1 DEF Lowers, DownWhenLow, Down
    <3> QED BY <3>1
  <2>3. ASSUME NEW k \in hist.taken \cap keys.held, k \notin keys.marked PROVE FALSE
    <3>1. PICK o \in Uploaders : ops[o].at = "marking"
      BY <2>1, <2>3 DEF MarkedSoon
    <3>2. PICK j \in 1..Len(flag.chain) : flag.chain[j].by # Nobody
      BY <2>1, <3>1 DEF Lowers, DownAtWork, Lowered, Down
    <3>3. flag.chain[j].by \in Uploaders /\ ops[flag.chain[j].by].at \in {"clearing", "flagging"}
      BY <2>1, <3>2, WritersAre DEF Lowers
    <3>4. flag.chain[j].by = o
      BY <2>1, <3>1, <3>3 DEF Lowers, Alone, Engaged, Lowered
    <3> QED BY <3>1, <3>3, <3>4
  <2> QED BY <2>2, <2>3
<1> QED BY <1>1, <1>2, <1>3, PTL DEF Spec
================================================================================
