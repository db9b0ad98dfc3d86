---------------------------- MODULE SessionsProofs -----------------------------
(***************************************************************************)
(* That no message key serves twice, no message is returned twice and what *)
(* was sent can be decrypted: for any one-time pre-keys, any room for      *)
(* sessions, chains and skipped keys, any number of key pairs, messages,   *)
(* deletions and interruptions.                                            *)
(***************************************************************************)
EXTENDS Sessions, FiniteSetTheorems, WellFoundedInduction, SequenceTheorems, TLAPS

-----------------------------------------------------------------------------
(* Numbers and sequences. *)

\* A set of numbers that is not empty has a least one.
LEMMA LeastIs ==
  ASSUME NEW S \in SUBSET Nat, S # {}
  PROVE  FirstIn(S) \in S /\ \A j \in S : FirstIn(S) <= j
<1> DEFINE T == {0..x : x \in S}
           R == StrictSubsetOrdering(Nat)
<1>1. IsWellFoundedOn(R, FiniteSubsetsOf(Nat))
  BY FS_StrictSubsetOrderingWellFounded
<1>2. T \subseteq FiniteSubsetsOf(Nat) /\ T # {}
  <2>1. ASSUME NEW x \in S PROVE 0..x \in FiniteSubsetsOf(Nat)
    <3>1. IsFiniteSet(0..x)
      BY FS_Interval
    <3> QED BY <3>1 DEF FiniteSubsetsOf
  <2> QED BY <2>1
<1>3. PICK t \in T : \A u \in T : ~(<<u, t>> \in R)
  BY <1>1, <1>2, WFMin
<1>4. PICK x \in S : t = 0..x
  OBVIOUS
<1>5. ASSUME NEW y \in S PROVE x <= y
  <2>1. ~(<<0..y, 0..x>> \in R)
    BY <1>3, <1>4
  <2> SUFFICES ASSUME y < x PROVE FALSE
    OBVIOUS
  <2>2. 0..y \subseteq 0..x /\ x \in 0..x /\ x \notin 0..y
    OBVIOUS
  <2> QED BY <2>1, <2>2 DEF StrictSubsetOrdering
<1> QED BY <1>5 DEF FirstIn

\* Of a finite set of numbers, the skipped keys kept are no more than there is room.
LEMMA KeptFits ==
  ASSUME RatchetAssumption, NEW S \in SUBSET Nat, IsFiniteSet(S)
  PROVE  Kept(S) \subseteq S /\ Cardinality(Kept(S)) <= MaxUnusedKeys
<1>1. Kept(S) \subseteq S /\ IsFiniteSet(Kept(S)) /\ MaxUnusedKeys \in Nat
  BY FS_Subset DEF Kept, RatchetAssumption
<1>2. CASE Kept(S) = {}
  BY <1>1, <1>2, FS_EmptySet
<1>3. CASE Kept(S) # {}
  <2> DEFINE i == FirstIn(Kept(S))
             above == {j \in S : j > i}
  <2>1. i \in Kept(S) /\ \A j \in Kept(S) : i <= j
    BY <1>1, <1>3, LeastIs
  <2>2. i \in S /\ Cardinality(above) < MaxUnusedKeys
    BY <2>1 DEF Kept
  <2>3. IsFiniteSet(above) /\ Cardinality(above) \in Nat
    BY FS_Subset, FS_CardinalityType
  <2> HIDE DEF i
  <2>4. Kept(S) \subseteq above \cup {i}
    <3> SUFFICES ASSUME NEW j \in Kept(S), j # i PROVE j \in above
      OBVIOUS
    <3>1. j \in S /\ i <= j /\ i \in Nat /\ j \in Nat
      BY <1>1, <2>1, <2>2
    <3> QED BY <3>1
  <2>5. IsFiniteSet(above \cup {i}) /\ Cardinality(above \cup {i}) = Cardinality(above) + 1
    <3>1. i \notin above
      BY <2>2
    <3> HIDE DEF above
    <3> QED BY <2>3, <3>1, FS_AddElement
  <2>6. Cardinality(Kept(S)) <= Cardinality(above \cup {i})
    BY <2>4, <2>5, FS_Subset
  <2>7. Cardinality(Kept(S)) \in Nat
    BY <1>1, FS_CardinalityType
  <2> HIDE DEF above
  <2> QED BY <1>1, <2>2, <2>3, <2>5, <2>6, <2>7
<1> QED BY <1>2, <1>3

\* A part of a sequence, and one without an element.
LEMMA PartIs ==
  ASSUME NEW S, NEW seq \in Seq(S), NEW a \in Nat \ {0}, NEW b \in Nat, b <= Len(seq)
  PROVE  /\ SubSeq(seq, a, b) \in Seq(S)
         /\ Len(SubSeq(seq, a, b)) = IF a <= b THEN b - a + 1 ELSE 0
         /\ \A i \in 1..(b - a + 1) : SubSeq(seq, a, b)[i] = seq[a + i - 1]
<1>1. \A i \in a..b : seq[i] \in S
  BY LenProperties
<1> QED BY <1>1, SubSeqProperties

LEMMA LastOfIs ==
  ASSUME NEW S, NEW seq \in Seq(S), NEW n \in Nat
  PROVE  LastOf(seq, n) \in Seq(S) /\ Len(LastOf(seq, n)) <= n
<1>1. Len(seq) \in Nat
  BY LenProperties
<1>2. CASE Len(seq) <= n
  BY <1>2 DEF LastOf
<1>3. CASE Len(seq) > n
  <2> DEFINE a == Len(seq) - n + 1
  <2>1. a \in Nat \ {0} /\ Len(seq) \in Nat /\ (IF a <= Len(seq) THEN Len(seq) - a + 1 ELSE 0) <= n
    BY <1>1, <1>3
  <2>2. LastOf(seq, n) = SubSeq(seq, a, Len(seq))
    BY <1>1, <1>3 DEF LastOf
  <2> HIDE DEF a
  <2> QED BY <2>1, <2>2, PartIs
<1> QED BY <1>1, <1>2, <1>3

-----------------------------------------------------------------------------
(* Types, over the key pairs K that have been generated. *)

\* A secret, then the agreements of a ratchet.
ChainKeys(K) ==
  {c \in Seq((K \X Nat) \cup SUBSET K) : Len(c) # 0 /\ \A i \in 2..Len(c) : c[i] \subseteq K}
Skips(c) ==
  c.unused \subseteq 0..(c.nextMsgIndex - 1) /\ Cardinality(c.unused) <= MaxUnusedKeys
RecvChain(K) ==
  {c \in [ratchetKey : K, chainKey : ChainKeys(K), nextMsgIndex : Nat, unused : SUBSET Nat] :
     Skips(c)}
SendChain(K) == [ratchetKey : K, chainKey : ChainKeys(K), nextMsgIndex : Nat]
SeqUpTo(S, n) == {s \in Seq(S) : Len(s) <= n}
Record(K, Prev) ==
  [aliceBaseKey : K, oneTimeId : Nat, initialExchange : BOOLEAN, rootKey : ChainKeys(K),
   recvChains : SeqUpTo(RecvChain(K), MaxRecvChains), sendChain : SendChain(K),
   prevSessions : Prev]
PrevSession(K) == Record(K, {<<>>})
Session(K) == Record(K, SeqUpTo(PrevSession(K), MaxPrevSessions))
Messages(K) ==
  [from : Parties, id : Nat, type : {"pkmsg", "msg"}, ratchetKey : K, chainKey : ChainKeys(K),
   counter : Nat, baseKey : K, oneTimeId : Nat]

LEMMA SeqUpToGrows ==
  ASSUME NEW S, NEW T, S \subseteq T, NEW n
  PROVE  SeqUpTo(S, n) \subseteq SeqUpTo(T, n)
BY SeqMonotonic DEF SeqUpTo

\* What is typed over K is typed over more keys.
LEMMA TypesGrow ==
  ASSUME NEW K, NEW L, K \subseteq L
  PROVE  Session(K) \subseteq Session(L) /\ Messages(K) \subseteq Messages(L)
<1>1. ChainKeys(K) \subseteq ChainKeys(L)
  <2>1. (K \X Nat) \cup SUBSET K \subseteq (L \X Nat) \cup SUBSET L
    OBVIOUS
  <2>2. Seq((K \X Nat) \cup SUBSET K) \subseteq Seq((L \X Nat) \cup SUBSET L)
    BY <2>1, SeqMonotonic
  <2> QED BY <2>2 DEF ChainKeys
<1>2. RecvChain(K) \subseteq RecvChain(L)
  BY <1>1 DEF RecvChain
<1>3. SendChain(K) \subseteq SendChain(L)
  BY <1>1 DEF SendChain
<1>4. SeqUpTo(RecvChain(K), MaxRecvChains) \subseteq SeqUpTo(RecvChain(L), MaxRecvChains)
  BY <1>2, SeqUpToGrows
<1>5. \A P, Q : P \subseteq Q => Record(K, P) \subseteq Record(L, Q)
  BY <1>1, <1>3, <1>4 DEF Record
<1>6. PrevSession(K) \subseteq PrevSession(L)
  BY <1>5 DEF PrevSession
<1>7. Session(K) \subseteq Session(L)
  BY <1>5, <1>6, SeqUpToGrows DEF Session
<1> QED BY <1>1, <1>7 DEF Messages

LEMMA CalculateRatchetIs ==
  ASSUME NEW K, NEW root \in ChainKeys(K), NEW a \in K, NEW b \in K
  PROVE  CalculateRatchet(root, a, b) \in ChainKeys(K)
<1> DEFINE S == (K \X Nat) \cup SUBSET K
           new == Append(root, {a, b})
<1>1. root \in Seq(S) /\ Len(root) \in Nat /\ \A i \in 2..Len(root) : root[i] \subseteq K
  BY LenProperties DEF ChainKeys
<1>2. {a, b} \in S /\ {a, b} \subseteq K
  OBVIOUS
<1> HIDE DEF S
<1>3. /\ new \in Seq(S) /\ Len(new) = Len(root) + 1 /\ new[Len(root) + 1] = {a, b}
      /\ \A i \in 1..Len(root) : new[i] = root[i]
  BY <1>1, <1>2
<1> HIDE DEF new
<1>4. ASSUME NEW i \in 2..Len(new) PROVE new[i] \subseteq K
  <2>1. (i \in 1..Len(root) /\ i \in 2..Len(root)) \/ i = Len(root) + 1
    BY <1>1, <1>3
  <2> QED BY <1>1, <1>2, <1>3, <2>1
<1>5. Len(new) # 0
  BY <1>1, <1>3
<1> QED BY <1>3, <1>4, <1>5 DEF CalculateRatchet, ChainKeys, new, S

LEMMA SecretIs ==
  ASSUME NEW K, NEW base \in K, NEW id \in Nat
  PROVE  Secret(base, id) \in ChainKeys(K)
<1> DEFINE S == (K \X Nat) \cup SUBSET K
           x == <<base, id>>
<1>1. x \in S
  OBVIOUS
<1> HIDE DEF S, x
<1>2. <<x>> \in Seq(S) /\ Len(<<x>>) = 1
  BY <1>1
<1>3. \A i \in 2..1 : FALSE
  OBVIOUS
<1> QED BY <1>2, <1>3 DEF Secret, ChainKeys, S, x

\* What is agreed with a new key is in no chain there is.
LEMMA FreshRoot ==
  ASSUME NEW K, NEW L, NEW root \in ChainKeys(L), NEW a, a \notin K, NEW b
  PROVE  CalculateRatchet(root, a, b) \notin ChainKeys(K)
<1> DEFINE new == Append(root, {a, b})
<1>1. root \in Seq((L \X Nat) \cup SUBSET L) /\ Len(root) \in Nat \ {0}
  BY LenProperties DEF ChainKeys
<1>2. Len(new) = Len(root) + 1 /\ new[Len(root) + 1] = {a, b}
  BY <1>1
<1> HIDE DEF new
<1> SUFFICES ASSUME new \in ChainKeys(K) PROVE FALSE
  BY DEF CalculateRatchet, new
<1>3. Len(root) + 1 \in 2..Len(new)
  BY <1>1, <1>2
<1>4. {a, b} \subseteq K
  BY <1>2, <1>3 DEF ChainKeys
<1> QED BY <1>4

LEMMA FreshChainIs ==
  ASSUME RatchetAssumption, NEW K, NEW key \in K, NEW chainKey \in ChainKeys(K)
  PROVE  /\ FreshChain(key, chainKey) \in RecvChain(K)
         /\ FreshChain(key, chainKey).chainKey = chainKey
BY FS_EmptySet DEF FreshChain, RecvChain, Skips, RatchetAssumption

LEMMA OneIs ==
  ASSUME NEW S, NEW x \in S, NEW n \in Nat \ {0}
  PROVE  <<x>> \in SeqUpTo(S, n) /\ <<>> \in SeqUpTo(S, n)
BY DEF SeqUpTo

LEMMA OutgoingIs ==
  ASSUME RatchetAssumption, NEW K, NEW q \in Parties, SignedPreKey(q) \in K,
         NEW base \in K, NEW ratchet \in K, NEW id \in Nat
  PROVE  /\ Outgoing(q, id, base, ratchet) \in Session(K)
         /\ Outgoing(q, id, base, ratchet).prevSessions = <<>>
         /\ Outgoing(q, id, base, ratchet).sendChain.chainKey =
              CalculateRatchet(Secret(base, id), ratchet, SignedPreKey(q))
<1> DEFINE secret == Secret(base, id)
           root == CalculateRatchet(secret, ratchet, SignedPreKey(q))
<1>1. secret \in ChainKeys(K) /\ root \in ChainKeys(K)
  BY SecretIs, CalculateRatchetIs
<1> DEFINE chains == <<FreshChain(SignedPreKey(q), secret)>>
           send == [ratchetKey |-> ratchet, chainKey |-> root, nextMsgIndex |-> 0]
<1>2. chains \in SeqUpTo(RecvChain(K), MaxRecvChains)
  BY <1>1, FreshChainIs, OneIs DEF RatchetAssumption
<1>3. send \in SendChain(K) /\ send.chainKey = root
  BY <1>1 DEF SendChain
<1>4. <<>> \in SeqUpTo(PrevSession(K), MaxPrevSessions)
  BY DEF SeqUpTo, RatchetAssumption
<1>5. Outgoing(q, id, base, ratchet) =
        [aliceBaseKey |-> base, oneTimeId |-> id, initialExchange |-> TRUE,
         rootKey |-> root, recvChains |-> chains, sendChain |-> send, prevSessions |-> <<>>]
  BY DEF Outgoing
<1> HIDE DEF secret, root, chains, send
<1> QED BY <1>1, <1>2, <1>3, <1>4, <1>5 DEF Session, Record, root, secret

LEMMA IncomingIs ==
  ASSUME RatchetAssumption, NEW K, NEW p \in Parties, SignedPreKey(p) \in K, NEW m \in Messages(K)
  PROVE  /\ Incoming(p, m) \in Session(K)
         /\ Incoming(p, m).prevSessions = <<>> /\ Incoming(p, m).recvChains = <<>>
<1> DEFINE secret == Secret(m.baseKey, m.oneTimeId)
           send == [ratchetKey |-> SignedPreKey(p), chainKey |-> secret, nextMsgIndex |-> 0]
<1>1. secret \in ChainKeys(K) /\ m.baseKey \in K /\ m.oneTimeId \in Nat
  BY SecretIs DEF Messages
<1>2. send \in SendChain(K)
  BY <1>1 DEF SendChain
<1>3. <<>> \in SeqUpTo(PrevSession(K), MaxPrevSessions) /\ <<>> \in SeqUpTo(RecvChain(K), MaxRecvChains)
  BY DEF SeqUpTo, RatchetAssumption
<1>4. Incoming(p, m) =
        [aliceBaseKey |-> m.baseKey, oneTimeId |-> m.oneTimeId, initialExchange |-> FALSE,
         rootKey |-> secret, recvChains |-> <<>>, sendChain |-> send, prevSessions |-> <<>>]
  BY DEF Incoming
<1> HIDE DEF secret, send
<1> QED BY <1>1, <1>2, <1>3, <1>4 DEF Session, Record

-----------------------------------------------------------------------------
(* A record: its sending chain, and those of its previous sessions. *)

Chain(s, i) == IF i = 0 THEN s.sendChain ELSE s.prevSessions[i].sendChain
Chains(s) == 0..Len(s.prevSessions)

\* The sending chains ks of t are chains of s, each at most once.
Reorders(t, s, ks) ==
  \E f \in [ks -> Chains(s)] :
    /\ \A i, j \in ks : f[i] = f[j] => i = j
    /\ \A i \in ks : Chain(t, i) = Chain(s, f[i])

\* The sessions of a record, each without those before it; and that the sessions ks
\* of t are sessions of s, each at most once, or that no session of s is left out.
Core(s, i) == Snapshot(IF i = 0 THEN s ELSE s.prevSessions[i])
Arranges(t, s, ks) ==
  \E f \in [ks -> Chains(s)] :
    /\ \A i, j \in ks : f[i] = f[j] => i = j
    /\ \A i \in ks : Core(t, i) = Core(s, f[i])
Keeps(t, s) == \A j \in Chains(s) : \E i \in Chains(t) : Core(t, i) = Core(s, j)

LEMMA RecordIs ==
  ASSUME NEW K, NEW s \in Session(K)
  PROVE  /\ s.rootKey \in ChainKeys(K)
         /\ s.recvChains \in Seq(RecvChain(K)) /\ Len(s.recvChains) <= MaxRecvChains
         /\ s.sendChain \in SendChain(K)
         /\ s.prevSessions \in Seq(PrevSession(K)) /\ Len(s.prevSessions) <= MaxPrevSessions
         /\ Len(s.prevSessions) \in Nat
BY LenProperties DEF Session, Record, SeqUpTo

LEMMA SnapshotIs ==
  ASSUME NEW K, NEW s \in Session(K)
  PROVE  Snapshot(s) \in PrevSession(K) /\ Snapshot(s).sendChain = s.sendChain
BY DEF Snapshot, PrevSession, Session, Record

LEMMA WithPrevious ==
  ASSUME NEW K, NEW s \in Session(K) \cup PrevSession(K),
         NEW h \in SeqUpTo(PrevSession(K), MaxPrevSessions)
  PROVE  LET t == [s EXCEPT !.prevSessions = h]
         IN t \in Session(K) /\ t.prevSessions = h /\ t.sendChain = s.sendChain
BY DEF PrevSession, Session, Record

LEMMA CoreIs ==
  ASSUME NEW K, NEW s \in Session(K)
  PROVE  /\ 0 \in Chains(s) /\ Core(s, 0) = Snapshot(s)
         /\ \A i \in Chains(s) : Core(s, i) \in PrevSession(K) /\ Core(s, i).sendChain = Chain(s, i)
         /\ \A i \in 1..Len(s.prevSessions) :
              i \in Chains(s) /\ i # 0 /\ Core(s, i) = s.prevSessions[i]
<1>1. Len(s.prevSessions) \in Nat /\ s.prevSessions \in Seq(PrevSession(K))
  BY RecordIs
<1>2. 0 \in Chains(s) /\ Core(s, 0) = Snapshot(s)
  BY <1>1 DEF Chains, Core
<1>3. ASSUME NEW i \in 1..Len(s.prevSessions)
      PROVE  /\ i \in Chains(s) /\ i # 0 /\ Core(s, i) = s.prevSessions[i]
             /\ s.prevSessions[i] \in PrevSession(K)
  <2>1. i \in Chains(s) /\ i # 0
    BY <1>1 DEF Chains
  <2>2. s.prevSessions[i] \in PrevSession(K)
    BY <1>1, ElementOfSeq
  <2>3. Snapshot(s.prevSessions[i]) = s.prevSessions[i]
    BY <2>2 DEF Snapshot, PrevSession, Record
  <2> QED BY <2>1, <2>2, <2>3 DEF Core
<1>4. \A i \in Chains(s) : i = 0 \/ i \in 1..Len(s.prevSessions)
  BY <1>1 DEF Chains
<1>5. Core(s, 0) \in PrevSession(K) /\ Core(s, 0).sendChain = Chain(s, 0)
  BY <1>2, SnapshotIs DEF Chain
<1>6. \A i \in 1..Len(s.prevSessions) : Core(s, i).sendChain = Chain(s, i)
  BY <1>3 DEF Chain
<1> QED BY <1>2, <1>3, <1>4, <1>5, <1>6

LEMMA ArrangesChains ==
  ASSUME NEW K, NEW s \in Session(K), NEW t \in Session(K), NEW ks \in SUBSET Chains(t), Arranges(t, s, ks)
  PROVE  Reorders(t, s, ks)
<1>1. PICK f \in [ks -> Chains(s)] :
        /\ \A i, j \in ks : f[i] = f[j] => i = j
        /\ \A i \in ks : Core(t, i) = Core(s, f[i])
  BY DEF Arranges
<1>2. \A i \in ks : Chain(t, i) = Chain(s, f[i])
  BY <1>1, CoreIs
<1> QED BY <1>1, <1>2 DEF Reorders

LEMMA ChainIs ==
  ASSUME NEW K, NEW s \in Session(K), NEW i \in Chains(s)
  PROVE  Chain(s, i) \in SendChain(K)
<1>1. CASE i = 0
  BY <1>1, RecordIs DEF Chain
<1>2. CASE i # 0
  <2>1. i \in 1..Len(s.prevSessions)
    BY <1>2, RecordIs DEF Chains
  <2>2. s.prevSessions[i] \in PrevSession(K)
    BY <2>1, RecordIs, ElementOfSeq
  <2> QED BY <1>2, <2>2 DEF Chain, PrevSession, Record
<1> QED BY <1>1, <1>2

\* A sequence with x in front.
LEMMA InFrontIs ==
  ASSUME NEW S, NEW x \in S, NEW seq \in Seq(S)
  PROVE  /\ <<x>> \o seq \in Seq(S) /\ Len(<<x>> \o seq) = Len(seq) + 1
         /\ (<<x>> \o seq)[1] = x
         /\ \A k \in 1..Len(seq) : (<<x>> \o seq)[k + 1] = seq[k]
<1>1. <<x>> \in Seq(S) /\ Len(<<x>>) = 1 /\ <<x>>[1] = x /\ Len(seq) \in Nat
  BY LenProperties
<1>2. /\ <<x>> \o seq \in Seq(S) /\ Len(<<x>> \o seq) = 1 + Len(seq)
      /\ \A i \in 1..(1 + Len(seq)) : (<<x>> \o seq)[i] = IF i <= 1 THEN <<x>>[i] ELSE seq[i - 1]
  BY <1>1, ConcatProperties
<1> DEFINE n == Len(seq)
           whole == <<x>> \o seq
           one == <<x>>
<1> HIDE DEF n, whole, one
<1>3. whole[1] = x
  BY <1>1, <1>2 DEF n, whole, one
<1>4. ASSUME NEW k \in 1..n PROVE whole[k + 1] = seq[k]
  <2>1. k + 1 \in 1..(1 + n) /\ ~(k + 1 <= 1) /\ (k + 1) - 1 = k
    BY <1>1 DEF n
  <2> QED BY <1>2, <2>1 DEF n, whole, one
<1> QED BY <1>1, <1>2, <1>3, <1>4 DEF n, whole, one

LEMMA WithoutIs ==
  ASSUME NEW S, NEW seq \in Seq(S), NEW i \in 1..Len(seq)
  PROVE  /\ Without(seq, i) \in Seq(S) /\ Len(Without(seq, i)) = Len(seq) - 1
         /\ \A k \in 1..(Len(seq) - 1) : Without(seq, i)[k] = seq[IF k < i THEN k ELSE k + 1]
<1> DEFINE n == Len(seq)
           a == SubSeq(seq, 1, i - 1)
           b == SubSeq(seq, i + 1, n)
<1>0. n \in Nat /\ i \in Nat /\ 1 <= i /\ i <= n
  BY LenProperties
<1>1. a \in Seq(S) /\ Len(a) = i - 1 /\ \A k \in 1..(i - 1) : a[k] = seq[k]
  <2>1. i - 1 \in Nat /\ i - 1 <= Len(seq) /\ 1 \in Nat \ {0}
    BY <1>0
  <2>2. /\ a \in Seq(S) /\ Len(a) = IF 1 <= i - 1 THEN (i - 1) - 1 + 1 ELSE 0
        /\ \A k \in 1..((i - 1) - 1 + 1) : a[k] = seq[1 + k - 1]
    BY <2>1, PartIs
  <2> HIDE DEF a
  <2> QED BY <1>0, <2>2
<1>2. b \in Seq(S) /\ Len(b) = n - i /\ \A k \in 1..(n - i) : b[k] = seq[k + i]
  <2>1. i + 1 \in Nat \ {0} /\ n <= Len(seq)
    BY <1>0
  <2>2. /\ b \in Seq(S) /\ Len(b) = IF i + 1 <= n THEN n - (i + 1) + 1 ELSE 0
        /\ \A k \in 1..(n - (i + 1) + 1) : b[k] = seq[(i + 1) + k - 1]
    BY <1>0, <2>1, PartIs
  <2> HIDE DEF b, n
  <2>3. ASSUME NEW k \in 1..(n - i) PROVE b[k] = seq[k + i]
    <3>1. k \in 1..(n - (i + 1) + 1) /\ (i + 1) + k - 1 = k + i
      BY <1>0
    <3> QED BY <2>2, <3>1
  <2> QED BY <1>0, <2>2, <2>3
<1>3. /\ a \o b \in Seq(S) /\ Len(a \o b) = Len(a) + Len(b)
      /\ \A k \in 1..(Len(a) + Len(b)) : (a \o b)[k] = IF k <= Len(a) THEN a[k] ELSE b[k - Len(a)]
  <2> HIDE DEF a, b
  <2> QED BY <1>1, <1>2, ConcatProperties
<1>4. Without(seq, i) = a \o b
  BY DEF Without
<1> DEFINE w == Without(seq, i)
<1> HIDE DEF a, b, n, w
<1>5. Len(w) = n - 1 /\ w \in Seq(S)
  BY <1>0, <1>1, <1>2, <1>3, <1>4 DEF w
<1>6. ASSUME NEW k \in 1..(n - 1) PROVE w[k] = seq[IF k < i THEN k ELSE k + 1]
  <2>1. k \in 1..(Len(a) + Len(b)) /\ (k <= Len(a) <=> k < i) /\ k \in Nat /\ 1 <= k
    BY <1>0, <1>1, <1>2
  <2>2. CASE k < i
    <3>1. k \in 1..(i - 1)
      BY <1>0, <2>1, <2>2
    <3> QED BY <1>1, <1>3, <1>4, <2>1, <2>2, <3>1 DEF w
  <2>3. CASE ~(k < i)
    <3>1. k - Len(a) = k - i + 1 /\ k - i + 1 \in 1..(n - i) /\ (k - i + 1) + i = k + 1
      BY <1>0, <1>1, <2>1, <2>3
    <3> QED BY <1>2, <1>3, <1>4, <2>1, <2>3, <3>1 DEF w
  <2> QED BY <2>2, <2>3
<1> QED BY <1>5, <1>6 DEF n, w

\* What a first message opens comes before the sessions there are.
LEMMA SucceedingIs ==
  ASSUME RatchetAssumption, NEW K, NEW u \in Session(K), NEW s \in Session(K)
  PROVE  LET t == Succeeding(u, s)
         IN /\ t \in Session(K) /\ t.recvChains = u.recvChains
            /\ Core(t, 0) = Snapshot(u)
            /\ Arranges(t, s, 1..Len(t.prevSessions))
            /\ Len(s.prevSessions) < MaxPrevSessions => Keeps(t, s)
<1> DEFINE old == s.prevSessions
           n == IF Len(old) < MaxPrevSessions THEN Len(old) ELSE MaxPrevSessions - 1
           part == SubSeq(old, 1, n)
           h == <<Snapshot(s)>> \o part
           t == [u EXCEPT !.prevSessions = h]
<1>1. /\ old \in Seq(PrevSession(K)) /\ Len(old) <= MaxPrevSessions /\ Len(old) \in Nat
      /\ MaxPrevSessions \in Nat \ {0}
  BY RecordIs DEF RatchetAssumption
<1>2. n \in Nat /\ n <= Len(old) /\ n + 1 <= MaxPrevSessions
  BY <1>1
<1>3. /\ part \in Seq(PrevSession(K)) /\ Len(part) = n
      /\ \A k \in 1..n : part[k] = old[k]
  <2>1. /\ part \in Seq(PrevSession(K)) /\ Len(part) = IF 1 <= n THEN n - 1 + 1 ELSE 0
        /\ \A k \in 1..(n - 1 + 1) : part[k] = old[1 + k - 1]
    BY <1>1, <1>2, PartIs
  <2> HIDE DEF part, n, old
  <2> QED BY <1>2, <2>1
<1> HIDE DEF part, n
<1>4. /\ h \in Seq(PrevSession(K)) /\ Len(h) = n + 1
      /\ h[1] = Snapshot(s)
      /\ \A k \in 1..n : h[k + 1] = old[k]
  <2>1. Snapshot(s) \in PrevSession(K)
    BY SnapshotIs
  <2> QED BY <1>3, <2>1, InFrontIs
<1> HIDE DEF h, old
<1>5. t \in Session(K) /\ t.prevSessions = h /\ t.recvChains = u.recvChains
  <2>1. h \in SeqUpTo(PrevSession(K), MaxPrevSessions)
    BY <1>2, <1>4 DEF SeqUpTo
  <2> QED BY <2>1, WithPrevious DEF Session, Record
<1>6. t = Succeeding(u, s)
  BY DEF Succeeding, h, part, n, old
<1>7. /\ \A k \in 1..Len(h) : Core(t, k) = h[k] /\ k \in Chains(t)
      /\ Core(s, 0) = h[1] /\ 0 \in Chains(s)
      /\ \A k \in 1..n : Core(s, k) = h[k + 1]
      /\ Chains(s) = 0..Len(old)
  <2>1. \A k \in 1..Len(t.prevSessions) : Core(t, k) = t.prevSessions[k] /\ k \in Chains(t)
    <3> HIDE DEF t
    <3> QED BY <1>5, CoreIs
  <2>2. \A k \in 1..n : k \in 1..Len(old)
    BY <1>1, <1>2
  <2> QED BY <1>4, <1>5, <2>1, <2>2, CoreIs DEF Chains, old
<1>8. Arranges(t, s, 1..Len(h))
  <2> DEFINE f == [k \in 1..Len(h) |-> k - 1]
  <2>1. f \in [1..Len(h) -> Chains(s)]
    BY <1>1, <1>2, <1>4, <1>7
  <2>2. ASSUME NEW k \in 1..Len(h) PROVE Core(t, k) = Core(s, f[k])
    <3>1. CASE k = 1
      BY <1>7, <3>1
    <3>2. CASE k # 1
      <4>1. k - 1 \in 1..n /\ (k - 1) + 1 = k
        BY <1>2, <1>4, <3>2
      <4> QED BY <1>7, <4>1
    <3> QED BY <3>1, <3>2
  <2>3. \A i, j \in 1..Len(h) : f[i] = f[j] => i = j
    BY <1>2, <1>4
  <2> HIDE DEF f
  <2> QED BY <2>1, <2>2, <2>3 DEF Arranges
<1>9. ASSUME Len(old) < MaxPrevSessions PROVE Keeps(t, s)
  <2>1. n = Len(old)
    BY <1>9 DEF n
  <2>2. ASSUME NEW j \in 0..Len(old) PROVE j + 1 \in 1..Len(h) /\ Core(s, j) = h[j + 1]
    <3>1. j + 1 \in 1..Len(h)
      BY <1>1, <1>4, <2>1
    <3>2. CASE j = 0
      <4>1. 0 + 1 = 1
        OBVIOUS
      <4> QED BY <1>7, <3>1, <3>2, <4>1
    <3>3. CASE j # 0
      <4>1. j \in 1..n
        BY <1>1, <2>1, <3>3
      <4> QED BY <1>7, <3>1, <4>1
    <3> QED BY <3>2, <3>3
  <2> QED BY <1>7, <2>2 DEF Keeps
<1>10. Core(t, 0) = Snapshot(u)
  BY <1>5 DEF Core, Snapshot, Session, Record
<1> HIDE DEF t
<1> QED BY <1>5, <1>6, <1>8, <1>9, <1>10 DEF old

\* A promotion changes the order only.
LEMMA PromotedIs ==
  ASSUME RatchetAssumption, NEW K, NEW s \in Session(K), NEW i \in 1..Len(s.prevSessions)
  PROVE  LET t == Promoted(s, i)
         IN /\ t \in Session(K) /\ Core(t, 0) = s.prevSessions[i]
            /\ Arranges(t, s, Chains(t)) /\ Keeps(t, s)
<1> DEFINE old == s.prevSessions
           rest == Without(old, i)
           h == <<Snapshot(s)>> \o rest
           t == [old[i] EXCEPT !.prevSessions = h]
<1>1. /\ old \in Seq(PrevSession(K)) /\ Len(old) <= MaxPrevSessions /\ Len(old) \in Nat
      /\ old[i] \in PrevSession(K) /\ i \in Nat /\ 1 <= i /\ i <= Len(old)
  BY RecordIs, ElementOfSeq
<1>2. /\ rest \in Seq(PrevSession(K)) /\ Len(rest) = Len(old) - 1
      /\ \A k \in 1..(Len(old) - 1) : rest[k] = old[IF k < i THEN k ELSE k + 1]
  BY <1>1, WithoutIs
<1> HIDE DEF rest
<1>3. /\ h \in Seq(PrevSession(K)) /\ Len(h) = Len(old)
      /\ h[1] = Snapshot(s)
      /\ \A k \in 1..(Len(old) - 1) : h[k + 1] = old[IF k < i THEN k ELSE k + 1]
  <2>1. Snapshot(s) \in PrevSession(K)
    BY SnapshotIs
  <2>2. /\ h \in Seq(PrevSession(K)) /\ Len(h) = Len(rest) + 1
        /\ h[1] = Snapshot(s)
        /\ \A k \in 1..Len(rest) : h[k + 1] = rest[k]
    BY <1>2, <2>1, InFrontIs
  <2> HIDE DEF h, old
  <2> QED BY <1>1, <1>2, <2>1, <2>2
<1> HIDE DEF h, old
<1>4. t \in Session(K) /\ t.prevSessions = h
  <2>1. h \in SeqUpTo(PrevSession(K), MaxPrevSessions)
    BY <1>1, <1>3 DEF SeqUpTo
  <2> QED BY <1>1, <2>1, WithPrevious
<1>5. t = Promoted(s, i)
  BY DEF Promoted, h, rest, old
<1>6. /\ Chains(t) = 0..Len(old) /\ Chains(s) = 0..Len(old)
      /\ Core(t, 0) = old[i] /\ Core(s, 0) = h[1]
      /\ \A k \in 1..Len(old) : Core(t, k) = h[k] /\ Core(s, k) = old[k]
  <2>1. Core(t, 0) = old[i]
    BY <1>1 DEF Core, Snapshot, PrevSession, Record
  <2>2. Chains(t) = 0..Len(old) /\ Chains(s) = 0..Len(old)
    BY <1>3, <1>4 DEF Chains, old
  <2>3. \A k \in 1..Len(t.prevSessions) : Core(t, k) = t.prevSessions[k]
    <3> HIDE DEF t
    <3> QED BY <1>4, CoreIs
  <2>4. Core(s, 0) = h[1] /\ \A k \in 1..Len(old) : Core(s, k) = old[k]
    BY <1>3, CoreIs DEF old
  <2> QED BY <1>3, <1>4, <2>1, <2>2, <2>3, <2>4
<1> HIDE DEF t
<1> DEFINE g(k) == IF k = 0 THEN i ELSE IF k <= i THEN k - 1 ELSE k
           b(j) == IF j = i THEN 0 ELSE IF j < i THEN j + 1 ELSE j
<1>7. ASSUME NEW k \in 0..Len(old)
      PROVE  g(k) \in 0..Len(old) /\ Core(t, k) = Core(s, g(k))
  <2>1. CASE k = 0
    BY <1>1, <1>6, <2>1
  <2>2. CASE k = 1
    <3>1. g(k) = 0 /\ 0 \in 0..Len(old) /\ k \in 1..Len(old)
      BY <1>1, <2>2
    <3> HIDE DEF g
    <3> QED BY <1>6, <2>2, <3>1
  <2>3. CASE k # 0 /\ k # 1
    <3>1. k - 1 \in 1..(Len(old) - 1) /\ (k - 1) + 1 = k /\ (k - 1 < i <=> k <= i)
      BY <1>1, <2>3
    <3>2. h[k] = old[g(k)]
      BY <1>3, <2>3, <3>1
    <3>3. g(k) \in 1..Len(old) /\ g(k) \in 0..Len(old) /\ k \in 1..Len(old)
      BY <1>1, <2>3
    <3> HIDE DEF g
    <3> QED BY <1>6, <3>2, <3>3
  <2> QED BY <2>1, <2>2, <2>3
<1>8. \A k, l \in 0..Len(old) : g(k) = g(l) => k = l
  BY <1>1
<1>9. \A j \in 0..Len(old) : b(j) \in 0..Len(old) /\ g(b(j)) = j
  BY <1>1
<1> HIDE DEF g, b
<1>10. Keeps(t, s)
  BY <1>6, <1>7, <1>9 DEF Keeps
<1>11. Arranges(t, s, Chains(t))
  <2> DEFINE f == [k \in 0..Len(old) |-> g(k)]
  <2>1. \A k \in 0..Len(old) : f[k] = g(k)
    OBVIOUS
  <2>2. f \in [0..Len(old) -> 0..Len(old)]
    BY <1>7
  <2> HIDE DEF f
  <2>3. \A k, l \in 0..Len(old) : f[k] = f[l] => k = l
    BY <1>8, <2>1
  <2>4. \A k \in 0..Len(old) : Core(t, k) = Core(s, f[k])
    BY <1>7, <2>1
  <2> QED BY <1>6, <2>2, <2>3, <2>4 DEF Arranges
<1> QED BY <1>4, <1>5, <1>6, <1>10, <1>11 DEF old

LEMMA ArrangesSelf ==
  ASSUME NEW K, NEW s \in Session(K)
  PROVE  Arranges(s, s, Chains(s)) /\ Keeps(s, s)
<1> DEFINE f == [k \in Chains(s) |-> k]
<1>1. f \in [Chains(s) -> Chains(s)] /\ \A k \in Chains(s) : f[k] = k
  OBVIOUS
<1> HIDE DEF f
<1> QED BY <1>1 DEF Arranges, Keeps

-----------------------------------------------------------------------------
(* Decrypting. *)

LEMMA SelectedIs ==
  ASSUME RatchetAssumption, NEW K, NEW c \in RecvChain(K), NEW n \in Nat
  PROVE  Selected(c, n) \in RecvChain(K) /\ Selected(c, n).chainKey = c.chainKey
<1>1. /\ c \in [ratchetKey : K, chainKey : ChainKeys(K), nextMsgIndex : Nat, unused : SUBSET Nat]
      /\ c.unused \subseteq 0..(c.nextMsgIndex - 1) /\ Cardinality(c.unused) <= MaxUnusedKeys
      /\ c.nextMsgIndex \in Nat /\ MaxUnusedKeys \in Nat
  BY DEF RecvChain, Skips, RatchetAssumption
<1>2. IsFiniteSet(c.unused) /\ Cardinality(c.unused) \in Nat
  <2>1. IsFiniteSet(0..(c.nextMsgIndex - 1))
    BY <1>1, FS_Interval
  <2> QED BY <1>1, <2>1, FS_Subset, FS_CardinalityType
<1>3. CASE n < c.nextMsgIndex
  <2> DEFINE rest == c.unused \ {n}
  <2>1. rest \subseteq c.unused /\ Cardinality(rest) <= Cardinality(c.unused) /\ Cardinality(rest) \in Nat
    BY <1>2, FS_Subset, FS_CardinalityType
  <2>2. Selected(c, n) = [c EXCEPT !.unused = rest]
    BY <1>3 DEF Selected
  <2> HIDE DEF rest
  <2>3. rest \subseteq 0..(c.nextMsgIndex - 1) /\ Cardinality(rest) <= MaxUnusedKeys /\ rest \in SUBSET Nat
    BY <1>1, <1>2, <2>1
  <2>4. /\ Selected(c, n) \in [ratchetKey : K, chainKey : ChainKeys(K), nextMsgIndex : Nat,
                               unused : SUBSET Nat]
        /\ Selected(c, n).unused = rest /\ Selected(c, n).nextMsgIndex = c.nextMsgIndex
        /\ Selected(c, n).chainKey = c.chainKey
    BY <1>1, <2>2, <2>3
  <2>5. Skips(Selected(c, n))
    BY <2>3, <2>4 DEF Skips
  <2> QED BY <2>4, <2>5 DEF RecvChain
<1>4. CASE ~(n < c.nextMsgIndex)
  <2> DEFINE all == Skipped(c, n)
             rest == Kept(all)
  <2>1. all \subseteq 0..((n + 1) - 1) /\ all \in SUBSET Nat
    BY <1>1, <1>4 DEF Skipped
  <2>2. IsFiniteSet(all)
    <3>1. IsFiniteSet(0..((n + 1) - 1))
      BY FS_Interval
    <3> QED BY <2>1, <3>1, FS_Subset
  <2> HIDE DEF all
  <2>3. rest \subseteq all /\ Cardinality(rest) <= MaxUnusedKeys
    BY <2>1, <2>2, KeptFits
  <2>4. Selected(c, n) = [c EXCEPT !.nextMsgIndex = n + 1, !.unused = rest]
    BY <1>4 DEF Selected, all
  <2> HIDE DEF rest
  <2>5. rest \subseteq 0..((n + 1) - 1) /\ rest \in SUBSET Nat
    BY <2>1, <2>3
  <2>6. /\ Selected(c, n) \in [ratchetKey : K, chainKey : ChainKeys(K), nextMsgIndex : Nat,
                               unused : SUBSET Nat]
        /\ Selected(c, n).unused = rest /\ Selected(c, n).nextMsgIndex = n + 1
        /\ Selected(c, n).chainKey = c.chainKey
    <3>1. n + 1 \in Nat
      OBVIOUS
    <3> DEFINE next == n + 1
    <3> HIDE DEF next
    <3>2. Selected(c, n) = [c EXCEPT !.nextMsgIndex = next, !.unused = rest] /\ next \in Nat
      BY <2>4, <3>1 DEF next
    <3>3. c \in [ratchetKey : K, chainKey : ChainKeys(K), nextMsgIndex : Nat, unused : SUBSET Nat]
      BY <1>1
    <3> QED BY <2>5, <3>2, <3>3 DEF next
  <2>7. Skips(Selected(c, n))
    BY <2>3, <2>5, <2>6 DEF Skips
  <2> QED BY <2>6, <2>7 DEF RecvChain
<1> QED BY <1>3, <1>4

LEMMA KnownChainIs ==
  ASSUME NEW K, NEW s \in Session(K), NEW m, KnownChains(s, m) # {}
  PROVE  /\ FirstIn(KnownChains(s, m)) \in 1..Len(s.recvChains)
         /\ s.recvChains[FirstIn(KnownChains(s, m))] \in RecvChain(K)
<1>1. s.recvChains \in Seq(RecvChain(K))
  BY RecordIs
<1>2. KnownChains(s, m) \in SUBSET Nat /\ KnownChains(s, m) \subseteq 1..Len(s.recvChains)
  BY <1>1, LenProperties DEF KnownChains
<1>3. FirstIn(KnownChains(s, m)) \in KnownChains(s, m)
  BY <1>2, LeastIs
<1> QED BY <1>1, <1>2, <1>3, ElementOfSeq

LEMMA ChainForIs ==
  ASSUME RatchetAssumption, NEW K, NEW s \in Session(K), NEW m \in Messages(K)
  PROVE  ChainFor(s, m) \in RecvChain(K)
<1>1. CASE KnownChains(s, m) # {}
  BY <1>1, KnownChainIs DEF ChainFor
<1>2. CASE KnownChains(s, m) = {}
  <2>1. m.ratchetKey \in K /\ s.sendChain.ratchetKey \in K /\ s.rootKey \in ChainKeys(K)
    BY RecordIs DEF Messages, SendChain
  <2>2. CalculateRatchet(s.rootKey, s.sendChain.ratchetKey, m.ratchetKey) \in ChainKeys(K)
    BY <2>1, CalculateRatchetIs
  <2> QED BY <1>2, <2>1, <2>2, FreshChainIs DEF ChainFor
<1> QED BY <1>1, <1>2

\* A message of a chain that is known leaves the sending chains alone.
LEMMA DecryptedKnown ==
  ASSUME RatchetAssumption, NEW K, NEW s \in Session(K), NEW m \in Messages(K), NEW key,
         KnownChains(s, m) # {}
  PROVE  LET t == DecryptedFrom(s, m, key)
         IN t \in Session(K) /\ t.prevSessions = s.prevSessions /\ t.sendChain = s.sendChain
<1> DEFINE i == FirstIn(KnownChains(s, m))
           c == Selected(ChainFor(s, m), m.counter)
           t == [s EXCEPT !.recvChains[i] = c]
<1>1. c \in RecvChain(K) /\ i \in 1..Len(s.recvChains)
  BY ChainForIs, SelectedIs, KnownChainIs DEF Messages
<1>2. t = DecryptedFrom(s, m, key)
  BY DEF DecryptedFrom
<1> HIDE DEF i, c
<1>3. [s.recvChains EXCEPT ![i] = c] \in SeqUpTo(RecvChain(K), MaxRecvChains)
  BY <1>1, RecordIs, ExceptSeq DEF SeqUpTo
<1>4. t = [s EXCEPT !.recvChains = [s.recvChains EXCEPT ![i] = c]]
  OBVIOUS
<1>5. t \in Session(K) /\ t.prevSessions = s.prevSessions /\ t.sendChain = s.sendChain
  <2> HIDE DEF t
  <2> QED BY <1>3, <1>4 DEF Session, Record
<1> HIDE DEF t
<1> QED BY <1>2, <1>5

\* One with a new ratchet key begins a new sending chain.
LEMMA DecryptedTurned ==
  ASSUME RatchetAssumption, NEW K, NEW s \in Session(K), NEW m \in Messages(K),
         NEW L, K \subseteq L, NEW key \in L, KnownChains(s, m) = {}
  PROVE  LET t == DecryptedFrom(s, m, key)
         IN /\ t \in Session(L) /\ t.prevSessions = s.prevSessions
            /\ \E root \in ChainKeys(L) :
                 t.sendChain.chainKey = CalculateRatchet(root, key, m.ratchetKey)
<1> DEFINE c == Selected(ChainFor(s, m), m.counter)
           root == CalculateRatchet(c.chainKey, key, m.ratchetKey)
           recv == Append(LastOf(s.recvChains, MaxRecvChains - 1), c)
           send == [ratchetKey |-> key, chainKey |-> root, nextMsgIndex |-> 0]
           t == [s EXCEPT !.rootKey = root, !.recvChains = recv, !.sendChain = send,
                          !.initialExchange = FALSE]
<1>1. s \in Session(L) /\ m \in Messages(L)
  BY TypesGrow
<1>2. c \in RecvChain(L) /\ m.ratchetKey \in L
  BY <1>1, ChainForIs, SelectedIs DEF Messages
<1>3. t = DecryptedFrom(s, m, key)
  BY DEF DecryptedFrom
<1> HIDE DEF c
<1>4. c.chainKey \in ChainKeys(L)
  BY <1>2 DEF RecvChain
<1>5. root \in ChainKeys(L)
  BY <1>2, <1>4, CalculateRatchetIs
<1>6. recv \in SeqUpTo(RecvChain(L), MaxRecvChains)
  <2> DEFINE last == LastOf(s.recvChains, MaxRecvChains - 1)
  <2>1. MaxRecvChains \in Nat \ {0, 1} /\ MaxRecvChains - 1 \in Nat /\ s.recvChains \in Seq(RecvChain(L))
    BY <1>1, RecordIs DEF RatchetAssumption
  <2>2. last \in Seq(RecvChain(L)) /\ Len(last) <= MaxRecvChains - 1 /\ Len(last) \in Nat
    BY <2>1, LastOfIs, LenProperties
  <2> HIDE DEF last
  <2>3. Append(last, c) \in Seq(RecvChain(L)) /\ Len(Append(last, c)) = Len(last) + 1
    BY <1>2, <2>2
  <2> QED BY <2>1, <2>2, <2>3 DEF SeqUpTo, last
<1> HIDE DEF root, recv
<1>7. send \in SendChain(L) /\ send.chainKey = root
  BY <1>5 DEF SendChain
<1> HIDE DEF send
<1>8. t \in Session(L) /\ t.prevSessions = s.prevSessions /\ t.sendChain = send
  BY <1>1, <1>5, <1>6, <1>7 DEF Session, Record
<1> HIDE DEF t
<1> QED BY <1>3, <1>4, <1>7, <1>8 DEF root

-----------------------------------------------------------------------------
(* Type correctness. *)

KeysMade == {k \in Parties \X Nat : k[2] <= generated[k[1]]}

Tasks(K) ==
  [step : {"none"}, session : {NoSession}]
    \cup [step : {"prepared", "ready", "renewing"}, session : Session(K)]
Operations(K) ==
  {Free} \cup [step : {"encrypted", "opened", "decrypted"}, session : Session(K), message : Messages(K)]
LapseNames ==
  {"session dropped", "deleted session used", "session forgotten", "keys evicted",
   "session reopened", "message lost"}

\* Everything is of its type over the keys K.
TypedOver(K) ==
  /\ session \in [Parties -> Session(K) \cup {NoSession}]
  /\ task \in [Parties -> Tasks(K)]
  /\ op \in [Parties -> Operations(K)]
  /\ sent \in SUBSET Messages(K)
TypedKeys ==
  /\ preKeys \in [Parties -> SUBSET OneTimeKeys]
  /\ bundles \in [Parties -> SUBSET OneTimeKeys]
  /\ generated \in [Parties -> 0..MaxKeys]
  /\ lapses \in [Parties -> SUBSET LapseNames]
\* What an operation has is a message it wrote, or one that was sent to it.
InHand(p) ==
  /\ op[p].step = "encrypted" =>
       /\ op[p].message.from = p
       /\ op[p].message.chainKey = op[p].session.sendChain.chainKey
       /\ op[p].session.sendChain.nextMsgIndex = op[p].message.counter + 1
  /\ op[p].step \in {"opened", "decrypted"} => op[p].message \in SentBy(Peer(p))
Heard ==
  /\ got \in [Parties -> SUBSET sent]
  /\ \A p \in Parties : got[p] \subseteq SentBy(Peer(p))
  /\ again \subseteq sent /\ IsFiniteSet(sent)
Typed == TypedOver(KeysMade) /\ TypedKeys /\ Heard /\ \A p \in Parties : InHand(p)

LEMMA PeerIs ==
  ASSUME SessionsAssumption, NEW p \in Parties
  PROVE  /\ Peer(p) \in Parties /\ Peer(p) # p /\ Peer(Peer(p)) = p
         /\ \A q \in Parties : q = p \/ q = Peer(p)
<1>1. PICK a, b \in Parties : a # b /\ Parties = {a, b}
  BY DEF SessionsAssumption
<1>2. \A r \in Parties : Peer(r) \in Parties /\ Peer(r) # r
  BY <1>1 DEF Peer
<1> QED BY <1>1, <1>2

LEMMA TypedImpliesOK ==
  ASSUME RatchetAssumption, SessionsAssumption, Typed
  PROVE  TypeOK
<1>1. ASSUME NEW p \in Parties, session[p] # NoSession PROVE SessionOK(session[p])
  <2> DEFINE s == session[p]
  <2>1. s \in Session(KeysMade)
    BY <1>1 DEF Typed, TypedOver
  <2> HIDE DEF s
  <2>2. /\ Len(s.prevSessions) <= MaxPrevSessions
        /\ s.recvChains \in Seq(RecvChain(KeysMade)) /\ Len(s.recvChains) <= MaxRecvChains
        /\ Len(s.recvChains) \in Nat /\ MaxRecvChains \in Nat
    BY <2>1, RecordIs, LenProperties DEF RatchetAssumption
  <2>3. ASSUME NEW i \in DOMAIN s.recvChains PROVE Skips(s.recvChains[i])
    <3>1. s.recvChains[i] \in RecvChain(KeysMade)
      BY <2>2, <2>3, LenProperties, ElementOfSeq
    <3> QED BY <3>1 DEF RecvChain
  <2>4. Len(s.recvChains) \in 0..MaxRecvChains
    BY <2>2
  <2> QED BY <2>2, <2>3, <2>4 DEF SessionOK, Skips, s
<1>2. ASSUME NEW p \in Parties
      PROVE  /\ task[p].step \in {"none", "prepared", "ready", "renewing"}
             /\ op[p].step \in {"none", "encrypted", "opened", "decrypted"}
  BY DEF Typed, TypedOver, Tasks, Operations, Free
<1> QED BY <1>1, <1>2 DEF Typed, TypedKeys, Heard, TypeOK

LEMMA InitTyped ==
  ASSUME RatchetAssumption, SessionsAssumption, Init
  PROVE  Typed
<1>1. TypedOver(KeysMade)
  BY DEF Init, TypedOver, Tasks, Operations, Idle
<1>2. TypedKeys
  BY DEF Init, TypedKeys, SessionsAssumption
<1>3. Heard
  BY FS_EmptySet DEF Init, Heard, SentBy
<1>4. \A p \in Parties : InHand(p)
  BY DEF Init, InHand, Free
<1> QED BY <1>1, <1>2, <1>3, <1>4 DEF Typed

\* Keys are only added.
LEMMA TypedWider ==
  ASSUME NEW K, NEW L, K \subseteq L, TypedOver(K)
  PROVE  TypedOver(L)
<1>1. Session(K) \subseteq Session(L) /\ Messages(K) \subseteq Messages(L)
  BY TypesGrow
<1>2. Tasks(K) \subseteq Tasks(L) /\ Operations(K) \subseteq Operations(L)
  BY <1>1 DEF Tasks, Operations
<1> QED BY <1>1, <1>2 DEF TypedOver

\* The keys a step of p generates.
LEMMA KeysGrow ==
  ASSUME Typed, SessionsAssumption, NEW p \in Parties, NEW n \in Nat,
         generated' = [generated EXCEPT ![p] = @ + n]
  PROVE  /\ KeysMade \subseteq KeysMade'
         /\ \A i \in 1..n : NewKey(p, i) \in KeysMade' /\ NewKey(p, i) \notin KeysMade
<1>1. generated \in [Parties -> Nat]
  BY DEF Typed, TypedKeys, SessionsAssumption
<1>2. \A q \in Parties : generated'[q] = IF q = p THEN generated[p] + n ELSE generated[q]
  BY <1>1
<1>3. \A q \in Parties : generated[q] <= generated'[q]
  BY <1>1, <1>2
<1>4. KeysMade \subseteq KeysMade'
  <2> SUFFICES ASSUME NEW q \in Parties, NEW j \in Nat, j <= generated[q]
               PROVE  j <= generated'[q]
    BY DEF KeysMade
  <2> QED BY <1>1, <1>2
<1>5. ASSUME NEW i \in 1..n PROVE NewKey(p, i) \in KeysMade' /\ NewKey(p, i) \notin KeysMade
  <2>1. /\ generated[p] + i \in Nat /\ generated[p] + i <= generated'[p]
        /\ ~(generated[p] + i <= generated[p])
    BY <1>1, <1>2
  <2> QED BY <2>1 DEF NewKey, KeysMade
<1> QED BY <1>4, <1>5

LEMMA SignedIsMade ==
  ASSUME Typed, NEW p \in Parties
  PROVE  SignedPreKey(p) \in KeysMade
<1>1. generated[p] \in 0..MaxKeys
  BY DEF Typed, TypedKeys
<1>2. 0 <= generated[p]
  BY <1>1
<1> QED BY <1>2 DEF SignedPreKey, KeysMade

-----------------------------------------------------------------------------
(* The steps that make sessions. *)

\* A session that is prepared has a sending chain nobody has seen.
LEMMA PrepareIs ==
  ASSUME RatchetAssumption, SessionsAssumption, Typed, NEW p \in Parties, NEW step, Prepare(p, step)
  PROVE  /\ KeysMade \subseteq KeysMade'
         /\ generated' \in [Parties -> 0..MaxKeys] /\ bundles' \in [Parties -> SUBSET OneTimeKeys]
         /\ \E s \in Session(KeysMade') :
              /\ task' = [task EXCEPT ![p] = [step |-> step, session |-> s]]
              /\ s.prevSessions = <<>> /\ s.sendChain.chainKey \notin ChainKeys(KeysMade)
<1> DEFINE q == Peer(p)
           base == NewKey(p, 1)
           ratchet == NewKey(p, 2)
<1>1. generated' = [generated EXCEPT ![p] = @ + 2] /\ MayGenerate(p, 2)
  BY DEF Prepare
<1>2. /\ KeysMade \subseteq KeysMade' /\ base \in KeysMade'
      /\ ratchet \in KeysMade' /\ ratchet \notin KeysMade
  <2>1. 2 \in Nat /\ 1 \in 1..2 /\ 2 \in 1..2
    OBVIOUS
  <2>2. /\ KeysMade \subseteq KeysMade'
        /\ \A i \in 1..2 : NewKey(p, i) \in KeysMade' /\ NewKey(p, i) \notin KeysMade
    BY <1>1, <2>1, KeysGrow
  <2> QED BY <2>1, <2>2
<1>3. q \in Parties
  BY PeerIs
<1>4. generated' \in [Parties -> 0..MaxKeys]
  <2>1. generated \in [Parties -> 0..MaxKeys] /\ MaxKeys \in Nat
    BY DEF Typed, TypedKeys, SessionsAssumption
  <2>2. generated[p] \in 0..MaxKeys /\ generated[q] \in 0..MaxKeys /\ generated[p] + generated[q] + 2 <= MaxKeys
    BY <1>1, <1>3, <2>1 DEF MayGenerate
  <2>3. generated[p] + 2 \in 0..MaxKeys
    BY <2>1, <2>2
  <2> QED BY <1>1, <2>1, <2>3
<1>5. PICK id \in HandedOut(q) :
        /\ bundles' = [bundles EXCEPT ![q] = IF id = NoKeyId THEN {} ELSE @ \ {id}]
        /\ task' = [task EXCEPT ![p] = [step |-> step, session |-> NewSession(p, id)]]
  BY DEF Prepare
<1>6. bundles' \in [Parties -> SUBSET OneTimeKeys]
  BY <1>3, <1>5 DEF Typed, TypedKeys
<1>7. id \in Nat
  <2>1. bundles[q] \in SUBSET Nat
    BY <1>3 DEF Typed, TypedKeys, SessionsAssumption
  <2>2. bundles[q] # {} => FirstIn(bundles[q]) \in Nat
    BY <2>1, LeastIs
  <2> QED BY <2>2 DEF HandedOut, NoKeyId
<1> DEFINE s == Outgoing(q, id, base, ratchet)
<1>8. SignedPreKey(q) \in KeysMade'
  BY <1>2, <1>3, SignedIsMade
<1>9. /\ s \in Session(KeysMade') /\ s.prevSessions = <<>>
      /\ s.sendChain.chainKey = CalculateRatchet(Secret(base, id), ratchet, SignedPreKey(q))
  <2> HIDE DEF base, ratchet, q
  <2> QED BY <1>2, <1>3, <1>7, <1>8, OutgoingIs
<1>10. s.sendChain.chainKey \notin ChainKeys(KeysMade)
  <2> HIDE DEF base, ratchet, q
  <2>1. Secret(base, id) \in ChainKeys(KeysMade')
    BY <1>2, <1>7, SecretIs
  <2> QED BY <1>2, <1>9, <2>1, FreshRoot
<1>11. s = NewSession(p, id)
  BY DEF NewSession
<1> HIDE DEF s, base, ratchet, q
<1> QED BY <1>2, <1>4, <1>5, <1>6, <1>9, <1>10, <1>11

\* The session a message is decrypted with: the stored one, perhaps with a
\* previous one in front, or a new one in front of it.
LEMMA SessionForIs ==
  ASSUME RatchetAssumption, SessionsAssumption, Typed, NEW p \in Parties,
         NEW m \in Messages(KeysMade), m.type = "msg" => session[p] # NoSession
  PROVE  LET u == SessionFor(p, m)
         IN /\ u \in Session(KeysMade)
            /\ session[p] = NoSession => u.prevSessions = <<>> /\ Opens(p, m)
            /\ session[p] # NoSession =>
                 /\ Arranges(u, session[p], 1..Len(u.prevSessions))
                 /\ Opens(p, m) \/ Arranges(u, session[p], Chains(u))
                 /\ Forgets(p, m) \/ Keeps(u, session[p])
            /\ Opens(p, m) => Turns(p, m) /\ u.recvChains = <<>> /\ Core(u, 0) = Incoming(p, m)
<1> DEFINE s == session[p]
           u == SessionFor(p, m)
           K == KeysMade
<1>0. s \in Session(K) \cup {NoSession} /\ SignedPreKey(p) \in K
  BY SignedIsMade DEF Typed, TypedOver
<1>1. /\ Incoming(p, m) \in Session(K)
      /\ Incoming(p, m).prevSessions = <<>> /\ Incoming(p, m).recvChains = <<>>
      /\ Snapshot(Incoming(p, m)) = Incoming(p, m)
  <2>1. Incoming(p, m) \in Session(K)
    BY <1>0, IncomingIs
  <2>2. Incoming(p, m).prevSessions = <<>> /\ Incoming(p, m).recvChains = <<>>
    BY DEF Incoming
  <2> DEFINE i == Incoming(p, m)
  <2> HIDE DEF i
  <2>3. i \in Session(K) /\ i.prevSessions = <<>> => Snapshot(i) = i
    BY DEF Snapshot, Session, Record
  <2> USE DEF i
  <2> QED BY <2>1, <2>2, <2>3
<1>2. ASSUME s \in Session(K), NEW t \in Session(K), Arranges(t, s, Chains(t))
      PROVE  Arranges(t, s, 1..Len(t.prevSessions))
  <2>1. PICK f \in [Chains(t) -> Chains(s)] :
          /\ \A i, j \in Chains(t) : f[i] = f[j] => i = j
          /\ \A i \in Chains(t) : Core(t, i) = Core(s, f[i])
    BY <1>2 DEF Arranges
  <2>2. Len(t.prevSessions) \in Nat
    BY RecordIs
  <2> DEFINE ks == 1..Len(t.prevSessions)
             g == [i \in ks |-> f[i]]
  <2>3. ks \subseteq Chains(t)
    BY <2>2 DEF Chains
  <2> HIDE DEF ks
  <2>4. g \in [ks -> Chains(s)] /\ \A i \in ks : g[i] = f[i]
    BY <2>1, <2>3
  <2> HIDE DEF g
  <2>5. \A i, j \in ks : g[i] = g[j] => i = j
    BY <2>1, <2>3, <2>4
  <2>6. \A i \in ks : Core(t, i) = Core(s, g[i])
    BY <2>1, <2>3, <2>4
  <2>7. Arranges(t, s, ks)
    BY <2>4, <2>5, <2>6 DEF Arranges
  <2> QED BY <2>7 DEF ks
<1>3. \A i \in DOMAIN s.prevSessions : s \in Session(K) => i \in 1..Len(s.prevSessions)
  BY RecordIs, LenProperties
<1>4. CASE m.type = "msg"
  <2>0. ~Opens(p, m)
    BY <1>4 DEF Opens
  <2>1. s \in Session(K)
    BY <1>0, <1>4
  <2>2. u = SessionForMsg(s, m)
    BY <1>4 DEF SessionFor
  <2>3. u \in Session(K) /\ Arranges(u, s, Chains(u)) /\ Keeps(u, s)
    <3>1. CASE Decrypts(s, m) \/ Fallbacks(s, m) = {}
      BY <2>1, <2>2, <3>1, ArrangesSelf DEF SessionForMsg
    <3>2. CASE ~(Decrypts(s, m) \/ Fallbacks(s, m) = {})
      <4> DEFINE i == FirstIn(Fallbacks(s, m))
      <4>1. Fallbacks(s, m) \in SUBSET Nat /\ Fallbacks(s, m) \subseteq 1..Len(s.prevSessions)
        BY <1>3, <2>1 DEF Fallbacks
      <4>2. i \in 1..Len(s.prevSessions)
        BY <3>2, <4>1, LeastIs
      <4>3. u = Promoted(s, i)
        BY <2>2, <3>2 DEF SessionForMsg
      <4> HIDE DEF i, s
      <4> QED BY <2>1, <4>2, <4>3, PromotedIs
    <3> QED BY <3>1, <3>2
  <2> HIDE DEF u
  <2> QED BY <1>0, <1>2, <1>4, <2>0, <2>1, <2>3 DEF u
<1>5. CASE m.type # "msg" /\ IsMatched(s, m)
  <2>0. ~Opens(p, m)
    BY <1>5 DEF Opens
  <2>1. s \in Session(K) /\ HasMatch(s, m) /\ s # NoSession
    BY <1>0, <1>5 DEF IsMatched
  <2>2. u = FindMatchingSession(s, m)
    BY <1>5 DEF SessionFor
  <2>3. u \in Session(K) /\ Arranges(u, s, Chains(u)) /\ Keeps(u, s)
    <3>1. CASE s.aliceBaseKey = m.baseKey
      BY <2>1, <2>2, <3>1, ArrangesSelf DEF FindMatchingSession
    <3>2. CASE s.aliceBaseKey # m.baseKey
      <4> DEFINE i == FirstIn(Matches(s, m))
      <4>1. Matches(s, m) \in SUBSET Nat /\ Matches(s, m) \subseteq 1..Len(s.prevSessions) /\ Matches(s, m) # {}
        BY <1>3, <2>1, <3>2 DEF Matches, HasMatch
      <4>2. i \in 1..Len(s.prevSessions)
        BY <4>1, LeastIs
      <4>3. u = Promoted(s, i)
        BY <2>2, <3>2 DEF FindMatchingSession
      <4> HIDE DEF i, s
      <4> QED BY <2>1, <4>2, <4>3, PromotedIs
    <3> QED BY <3>1, <3>2
  <2> HIDE DEF u
  <2> QED BY <1>2, <2>0, <2>1, <2>3 DEF u
<1>6. CASE m.type # "msg" /\ ~IsMatched(s, m) /\ s = NoSession
  <2>1. u = Incoming(p, m)
    BY <1>6 DEF SessionFor
  <2>2. KnownChains(u, m) = {} /\ Core(u, 0) = Incoming(p, m)
    BY <1>1, <2>1 DEF KnownChains, Core
  <2>3. Opens(p, m)
    BY <1>6 DEF Opens, Messages
  <2> QED BY <1>1, <1>6, <2>1, <2>2, <2>3 DEF Turns
<1>7. CASE m.type # "msg" /\ ~IsMatched(s, m) /\ s # NoSession
  <2>1. u = Succeeding(Incoming(p, m), s)
    BY <1>7 DEF SessionFor
  <2>2. s \in Session(K)
    BY <1>0, <1>7
  <2>3. Opens(p, m) /\ (Forgets(p, m) \/ Len(s.prevSessions) < MaxPrevSessions)
    <3>1. Opens(p, m)
      BY <1>7 DEF Opens, Messages
    <3>2. Len(s.prevSessions) \in Nat /\ MaxPrevSessions \in Nat
      BY <2>2, RecordIs DEF RatchetAssumption
    <3>3. ~(Len(s.prevSessions) < MaxPrevSessions) => Len(s.prevSessions) >= MaxPrevSessions
      BY <3>2
    <3> QED BY <1>7, <3>1, <3>3 DEF Forgets
  <2>4. /\ u \in Session(K) /\ u.recvChains = <<>> /\ Arranges(u, s, 1..Len(u.prevSessions))
        /\ Core(u, 0) = Incoming(p, m) /\ (Len(s.prevSessions) < MaxPrevSessions => Keeps(u, s))
    BY <1>1, <2>1, <2>2, SucceedingIs
  <2>5. KnownChains(u, m) = {}
    BY <2>4 DEF KnownChains
  <2> QED BY <1>7, <2>3, <2>4, <2>5 DEF Turns
<1> QED BY <1>4, <1>5, <1>6, <1>7

\* The sending chains of t: a new one and previous ones of s, or those of s.
Follows(t, s, K) ==
  \/ /\ t.sendChain.chainKey \notin ChainKeys(K)
     /\ s = NoSession => t.prevSessions = <<>>
     /\ s # NoSession => Reorders(t, s, 1..Len(t.prevSessions))
  \/ s # NoSession /\ Reorders(t, s, Chains(t))

LEMMA DecryptIs ==
  ASSUME RatchetAssumption, SessionsAssumption, Typed, NEW p \in Parties, NEW m \in sent,
         Decrypt(p, m)
  PROVE  /\ KeysMade \subseteq KeysMade' /\ generated' \in [Parties -> 0..MaxKeys]
         /\ \E t \in Session(KeysMade'), step \in {"opened", "decrypted"} :
              /\ op' = [op EXCEPT ![p] = [step |-> step, session |-> t, message |-> m]]
              /\ Follows(t, session[p], KeysMade)
<1> DEFINE s == session[p]
           u == SessionFor(p, m)
           new == NewKey(p, 1)
           t == DecryptedFrom(u, m, new)
<1>1. m \in Messages(KeysMade) /\ (m.type = "msg" => s # NoSession)
  BY DEF Decrypt, CanDecrypt, Typed, TypedOver
<1>2. /\ u \in Session(KeysMade)
      /\ s = NoSession => u.prevSessions = <<>> /\ Turns(p, m)
      /\ s # NoSession =>
           /\ Reorders(u, s, 1..Len(u.prevSessions))
           /\ ~Turns(p, m) => Reorders(u, s, Chains(u))
  <2>1. /\ u \in Session(KeysMade)
        /\ s = NoSession => u.prevSessions = <<>> /\ Turns(p, m)
        /\ s # NoSession =>
             /\ Arranges(u, s, 1..Len(u.prevSessions))
             /\ ~Turns(p, m) => Arranges(u, s, Chains(u))
    BY <1>1, SessionForIs
  <2>2. s # NoSession => s \in Session(KeysMade)
    BY DEF Typed, TypedOver
  <2> HIDE DEF u, s
  <2>3. 1..Len(u.prevSessions) \in SUBSET Chains(u)
    BY <2>1, CoreIs
  <2> QED BY <2>1, <2>2, <2>3, ArrangesChains
<1>3. generated \in [Parties -> 0..MaxKeys] /\ MaxKeys \in Nat
  BY DEF Typed, TypedKeys, SessionsAssumption
<1>4. /\ \/ ~Turns(p, m) /\ UNCHANGED generated
         \/ /\ Turns(p, m) /\ MayGenerate(p, 1)
            /\ generated' = [generated EXCEPT ![p] = @ + 1]
      /\ \E step \in {"opened", "decrypted"} :
           op' = [op EXCEPT ![p] = [step |-> step, session |-> t, message |-> m]]
  BY DEF Decrypt
<1>5. Turns(p, m) <=> KnownChains(u, m) = {}
  BY DEF Turns
<1>6. ASSUME ~Turns(p, m), UNCHANGED generated
      PROVE  /\ KeysMade' = KeysMade /\ generated' \in [Parties -> 0..MaxKeys]
             /\ t \in Session(KeysMade') /\ Follows(t, s, KeysMade)
  <2>1. KeysMade' = KeysMade
    BY <1>6 DEF KeysMade
  <2> HIDE DEF u, new, s
  <2>2. t \in Session(KeysMade) /\ t.prevSessions = u.prevSessions /\ t.sendChain = u.sendChain
    BY <1>1, <1>2, <1>5, <1>6, DecryptedKnown
  <2> HIDE DEF t
  <2>3. Chains(t) = Chains(u) /\ \A i : Chain(t, i) = Chain(u, i)
    BY <2>2 DEF Chains, Chain
  <2>4. s # NoSession /\ Reorders(t, s, Chains(t))
    BY <1>2, <1>6, <2>3 DEF Reorders
  <2> QED BY <1>3, <1>6, <2>1, <2>2, <2>4 DEF Follows
<1>7. ASSUME Turns(p, m), MayGenerate(p, 1), generated' = [generated EXCEPT ![p] = @ + 1]
      PROVE  /\ KeysMade \subseteq KeysMade' /\ generated' \in [Parties -> 0..MaxKeys]
             /\ t \in Session(KeysMade') /\ Follows(t, s, KeysMade)
  <2>1. KeysMade \subseteq KeysMade' /\ new \in KeysMade' /\ new \notin KeysMade
    <3>1. 1 \in Nat /\ 1 \in 1..1
      OBVIOUS
    <3>2. /\ KeysMade \subseteq KeysMade'
          /\ \A i \in 1..1 : NewKey(p, i) \in KeysMade' /\ NewKey(p, i) \notin KeysMade
      BY <1>7, <3>1, KeysGrow
    <3> QED BY <3>1, <3>2
  <2>2. generated' \in [Parties -> 0..MaxKeys]
    <3>1. Peer(p) \in Parties
      BY PeerIs
    <3>2. generated[p] \in 0..MaxKeys /\ generated[Peer(p)] \in 0..MaxKeys
          /\ generated[p] + generated[Peer(p)] + 1 <= MaxKeys
      BY <1>3, <1>7, <3>1 DEF MayGenerate
    <3>3. generated[p] + 1 \in 0..MaxKeys
      BY <1>3, <3>2
    <3> QED BY <1>3, <1>7, <3>3
  <2> HIDE DEF u, new, s
  <2>3. /\ t \in Session(KeysMade') /\ t.prevSessions = u.prevSessions
        /\ \E root \in ChainKeys(KeysMade') :
             t.sendChain.chainKey = CalculateRatchet(root, new, m.ratchetKey)
    <3> DEFINE K == KeysMade
               L == KeysMade'
    <3> HIDE DEF K, L
    <3>1. u \in Session(K) /\ m \in Messages(K) /\ K \subseteq L /\ new \in L
      BY <1>1, <1>2, <2>1 DEF K, L
    <3>2. KnownChains(u, m) = {}
      BY <1>5, <1>7
    <3>3. /\ t \in Session(L) /\ t.prevSessions = u.prevSessions
          /\ \E root \in ChainKeys(L) :
               t.sendChain.chainKey = CalculateRatchet(root, new, m.ratchetKey)
      BY <3>1, <3>2, DecryptedTurned
    <3> QED BY <3>3 DEF L
  <2>4. t.sendChain.chainKey \notin ChainKeys(KeysMade)
    BY <2>1, <2>3, FreshRoot
  <2> HIDE DEF t
  <2>5. \A i \in 1..Len(t.prevSessions) : Chain(t, i) = Chain(u, i)
    <3>1. Len(u.prevSessions) \in Nat
      BY <1>2, RecordIs
    <3>2. \A i \in 1..Len(t.prevSessions) : i # 0
      BY <2>3, <3>1
    <3> QED BY <2>3, <3>2 DEF Chain
  <2>6. s # NoSession => Reorders(t, s, 1..Len(t.prevSessions))
    BY <1>2, <2>3, <2>5 DEF Reorders
  <2> QED BY <1>2, <2>1, <2>2, <2>3, <2>4, <2>6 DEF Follows
<1> HIDE DEF s, t
<1> QED BY <1>4, <1>6, <1>7 DEF s

-----------------------------------------------------------------------------
(* Each step keeps the types. *)

LEMMA TaskIs ==
  ASSUME Typed, NEW p \in Parties
  PROVE  /\ task[p].step \in {"none", "prepared", "ready", "renewing"}
         /\ task[p].step # "none" => task[p].session \in Session(KeysMade)
BY DEF Typed, TypedOver, Tasks

LEMMA OpIs ==
  ASSUME Typed, NEW p \in Parties
  PROVE  /\ op[p].step \in {"none", "encrypted", "opened", "decrypted"}
         /\ op[p].step = "none" => op[p] = Free
         /\ op[p].step # "none" =>
              /\ op[p].session \in Session(KeysMade) /\ op[p].message \in Messages(KeysMade)
              /\ op[p] \in [step : {"encrypted", "opened", "decrypted"}, session : Session(KeysMade),
                            message : Messages(KeysMade)]
BY DEF Typed, TypedOver, Operations, Free

LEMMA SameKeys ==
  ASSUME UNCHANGED generated
  PROVE  KeysMade' = KeysMade
BY DEF KeysMade

\* Nobody's operation changes but that of p, which is over.
LEMMA FreesOp ==
  ASSUME Typed, NEW p \in Parties, op' = [op EXCEPT ![p] = Free], sent \subseteq sent'
  PROVE  op' \in [Parties -> Operations(KeysMade)] /\ \A q \in Parties : InHand(q)'
<1>1. op \in [Parties -> Operations(KeysMade)] /\ \A q \in Parties : InHand(q)
  BY DEF Typed, TypedOver
<1>2. op' \in [Parties -> Operations(KeysMade)]
  BY <1>1 DEF Operations
<1>3. ASSUME NEW q \in Parties PROVE InHand(q)'
  <2>1. CASE q = p
    BY <1>1, <2>1 DEF InHand, Free
  <2>2. CASE q # p
    <3>1. op'[q] = op[q]
      BY <1>1, <2>2
    <3> QED BY <1>1, <3>1 DEF InHand, SentBy
  <2> QED BY <2>1, <2>2
<1> QED BY <1>2, <1>3

LEMMA SameOps ==
  ASSUME Typed, UNCHANGED op, sent \subseteq sent'
  PROVE  \A q \in Parties : InHand(q)'
BY DEF Typed, InHand, SentBy

LEMMA SameHeard ==
  ASSUME Typed, UNCHANGED <<sent, got, again>>
  PROVE  Heard'
BY DEF Typed, Heard, SentBy

LEMMA LapseIs ==
  ASSUME Typed, NEW p \in Parties, NEW what \in SUBSET LapseNames, Lapse(p, what)
  PROVE  /\ lapses' \in [Parties -> SUBSET LapseNames]
         /\ \A q \in Parties : lapses'[q] = IF q = p THEN lapses[p] \cup what ELSE lapses[q]
BY DEF Typed, TypedKeys, Lapse

\* The new session is for later, and nothing else changes.
LEMMA PrepareTyped ==
  ASSUME RatchetAssumption, SessionsAssumption, Typed, NEW p \in Parties,
         NEW step \in {"prepared", "renewing"}, Prepare(p, step),
         UNCHANGED <<session, preKeys, op, sent, got, again, lapses>>
  PROVE  Typed'
<1>1. PICK s \in Session(KeysMade') : task' = [task EXCEPT ![p] = [step |-> step, session |-> s]]
  BY PrepareIs
<1>2. KeysMade \subseteq KeysMade'
  BY PrepareIs
<1>3. TypedOver(KeysMade')
  BY <1>2, TypedWider DEF Typed
<1>4. task' \in [Parties -> Tasks(KeysMade')]
  BY <1>1, <1>3 DEF TypedOver, Tasks
<1>5. TypedOver(KeysMade)'
  BY <1>3, <1>4 DEF TypedOver
<1>6. TypedKeys'
  BY PrepareIs DEF Typed, TypedKeys
<1> QED BY <1>5, <1>6, SameOps, SameHeard DEF Typed

LEMMA ResolveTyped ==
  ASSUME RatchetAssumption, SessionsAssumption, Typed, NEW p \in Parties, Resolve(p)
  PROVE  Typed'
<1>1. UNCHANGED <<session, preKeys, op, sent, got, again, lapses>>
  BY DEF Resolve
<1>2. CASE Prepare(p, "prepared")
  BY <1>1, <1>2, PrepareTyped
<1>3. CASE /\ session[p] # NoSession
           /\ task' = [task EXCEPT ![p] = [step |-> "ready", session |-> session[p]]]
           /\ UNCHANGED <<bundles, generated>>
  <2>1. KeysMade' = KeysMade /\ TypedOver(KeysMade)
    BY <1>3, SameKeys DEF Typed
  <2>2. task' \in [Parties -> Tasks(KeysMade)]
    BY <1>3, <2>1 DEF TypedOver, Tasks
  <2>3. TypedOver(KeysMade)'
    BY <1>1, <2>1, <2>2 DEF TypedOver
  <2>4. TypedKeys'
    BY <1>1, <1>3 DEF Typed, TypedKeys
  <2> QED BY <1>1, <2>3, <2>4, SameOps, SameHeard DEF Typed
<1> QED BY <1>2, <1>3 DEF Resolve

LEMMA RefetchTyped ==
  ASSUME RatchetAssumption, SessionsAssumption, Typed, NEW p \in Parties, Refetch(p)
  PROVE  Typed'
BY PrepareTyped DEF Refetch

\* A step that stores a session and goes on with it or not.
LEMMA StoresTyped ==
  ASSUME Typed, NEW p \in Parties, NEW s \in Session(KeysMade), NEW t \in Tasks(KeysMade),
         session' = [session EXCEPT ![p] = s], task' = [task EXCEPT ![p] = t],
         lapses' \in [Parties -> SUBSET LapseNames],
         UNCHANGED <<preKeys, bundles, generated, op, sent, got, again>>
  PROVE  Typed'
<1>1. KeysMade' = KeysMade /\ TypedOver(KeysMade)
  BY SameKeys DEF Typed
<1>2. TypedOver(KeysMade)'
  BY <1>1 DEF TypedOver
<1>3. TypedKeys'
  BY DEF Typed, TypedKeys
<1> QED BY <1>2, <1>3, SameOps, SameHeard DEF Typed

LEMMA PersistTyped ==
  ASSUME Typed, NEW p \in Parties, Persist(p)
  PROVE  Typed'
<1> DEFINE kept == IF session[p] = NoSession THEN task[p].session ELSE session[p]
<1>1. task[p].session \in Session(KeysMade) /\ session[p] \in Session(KeysMade) \cup {NoSession}
  BY TaskIs DEF Persist, Typed, TypedOver
<1>2. kept \in Session(KeysMade)
  BY <1>1
<1>3. [step |-> "ready", session |-> kept] \in Tasks(KeysMade)
  BY <1>2 DEF Tasks
<1>4. /\ session' = [session EXCEPT ![p] = kept]
      /\ task' = [task EXCEPT ![p] = [step |-> "ready", session |-> kept]]
      /\ UNCHANGED <<preKeys, bundles, generated, op, sent, got, again, lapses>>
  BY DEF Persist
<1>5. lapses' \in [Parties -> SUBSET LapseNames]
  BY <1>4 DEF Typed, TypedKeys
<1> HIDE DEF kept
<1> QED BY <1>2, <1>3, <1>4, <1>5, StoresTyped

LEMMA ReestablishTyped ==
  ASSUME Typed, NEW p \in Parties, Reestablish(p)
  PROVE  Typed'
<1>1. task[p].session \in Session(KeysMade)
  BY TaskIs DEF Reestablish
<1>2. Idle \in Tasks(KeysMade)
  BY DEF Tasks, Idle
<1>3. lapses' \in [Parties -> SUBSET LapseNames]
  <2>1. (IF session[p] = NoSession THEN {} ELSE {"session dropped"}) \in SUBSET LapseNames
    BY DEF LapseNames
  <2> QED BY <2>1, LapseIs DEF Reestablish
<1> QED BY <1>1, <1>2, <1>3, StoresTyped DEF Reestablish

LEMMA EncryptedIs ==
  ASSUME NEW K, NEW s \in Session(K)
  PROVE  /\ Encrypted(s) \in Session(K) /\ Encrypted(s).prevSessions = s.prevSessions
         /\ Encrypted(s).sendChain.chainKey = s.sendChain.chainKey
         /\ Encrypted(s).sendChain.nextMsgIndex = s.sendChain.nextMsgIndex + 1
<1> DEFINE c == s.sendChain
           next == [c EXCEPT !.nextMsgIndex = @ + 1]
<1>1. c \in SendChain(K) /\ c.nextMsgIndex \in Nat
  BY RecordIs DEF SendChain
<1>2. next \in SendChain(K) /\ next.chainKey = c.chainKey /\ next.nextMsgIndex = c.nextMsgIndex + 1
  BY <1>1 DEF SendChain
<1>3. Encrypted(s) = [s EXCEPT !.sendChain = next]
  BY DEF Encrypted
<1> HIDE DEF next
<1>4. /\ Encrypted(s) \in Session(K) /\ Encrypted(s).prevSessions = s.prevSessions
      /\ Encrypted(s).sendChain = next
  BY <1>2, <1>3 DEF Session, Record
<1> QED BY <1>2, <1>4

LEMMA MessageIs ==
  ASSUME NEW K, NEW s \in Session(K), NEW p \in Parties, NEW id \in Nat
  PROVE  /\ Message(s, p, id) \in Messages(K) /\ Message(s, p, id).from = p
         /\ Message(s, p, id).chainKey = s.sendChain.chainKey
         /\ Message(s, p, id).counter = s.sendChain.nextMsgIndex
<1>1. s.sendChain \in SendChain(K) /\ s.aliceBaseKey \in K /\ s.oneTimeId \in Nat
  BY RecordIs DEF Session, Record
<1> QED BY <1>1 DEF Message, Messages, SendChain

LEMMA EncryptTyped ==
  ASSUME SessionsAssumption, Typed, NEW p \in Parties, NEW prefetched \in BOOLEAN, Encrypt(p, prefetched)
  PROVE  Typed'
<1> DEFINE s == SessionToEncrypt(p, prefetched)
           o == [step |-> "encrypted", session |-> Encrypted(s), message |-> Message(s, p, NextId(p))]
<1>1. /\ op[p].step = "none" /\ s # NoSession
      /\ prefetched => task[p].step = "ready"
      /\ op' = [op EXCEPT ![p] = o]
      /\ task' = IF prefetched THEN [task EXCEPT ![p] = Idle] ELSE task
      /\ Lapse(p, IF session[p] = NoSession THEN {"deleted session used"} ELSE {})
      /\ UNCHANGED <<session, preKeys, bundles, generated, sent, got, again, spent>>
  BY DEF Encrypt
<1>2. s \in Session(KeysMade)
  BY <1>1, TaskIs DEF SessionToEncrypt, Typed, TypedOver
<1>3. NextId(p) \in Nat
  <2>1. IsFiniteSet(SentBy(p))
    <3>1. SentBy(p) \subseteq sent /\ IsFiniteSet(sent)
      BY DEF SentBy, Typed, Heard
    <3> QED BY <3>1, FS_Subset
  <2>2. Cardinality(SentBy(p)) \in Nat
    BY <2>1, FS_CardinalityType
  <2> QED BY <2>2 DEF NextId
<1> HIDE DEF s
<1>4. /\ o \in Operations(KeysMade) /\ o.step = "encrypted" /\ o.message.from = p
      /\ o.message.chainKey = o.session.sendChain.chainKey
      /\ o.session.sendChain.nextMsgIndex = o.message.counter + 1
  BY <1>2, <1>3, EncryptedIs, MessageIs DEF Operations
<1> HIDE DEF o
<1>5. KeysMade' = KeysMade /\ TypedOver(KeysMade)
  BY <1>1, SameKeys DEF Typed
<1>6. TypedOver(KeysMade)'
  <2>1. task' \in [Parties -> Tasks(KeysMade)]
    BY <1>1, <1>5 DEF TypedOver, Tasks, Idle
  <2> QED BY <1>1, <1>4, <1>5, <2>1 DEF TypedOver
<1>7. TypedKeys'
  <2>1. (IF session[p] = NoSession THEN {"deleted session used"} ELSE {}) \in SUBSET LapseNames
    BY DEF LapseNames
  <2> QED BY <1>1, <2>1, LapseIs DEF Typed, TypedKeys
<1>8. ASSUME NEW q \in Parties PROVE InHand(q)'
  <2>1. op'[q] = IF q = p THEN o ELSE op[q]
    BY <1>1, <1>5 DEF TypedOver
  <2>2. CASE q = p
    BY <1>4, <2>1, <2>2 DEF InHand
  <2>3. CASE q # p
    <3>1. op'[q] = op[q] /\ UNCHANGED sent /\ InHand(q)
      BY <1>1, <2>1, <2>3 DEF Typed
    <3> QED BY <3>1 DEF InHand, SentBy
  <2> QED BY <2>2, <2>3
<1> QED BY <1>1, <1>6, <1>7, <1>8, SameHeard DEF Typed

LEMMA ReleaseTyped ==
  ASSUME SessionsAssumption, Typed, NEW p \in Parties, Release(p)
  PROVE  Typed'
<1>1. KeysMade' = KeysMade /\ TypedOver(KeysMade)
  BY SameKeys DEF Release, Typed
<1>2. op[p].step # "none" /\ op[p].session \in Session(KeysMade) /\ op[p].message \in Messages(KeysMade)
  BY OpIs DEF Release
<1>3. op' \in [Parties -> Operations(KeysMade)] /\ \A q \in Parties : InHand(q)'
  BY FreesOp DEF Release
<1>4. TypedOver(KeysMade)'
  BY <1>1, <1>2, <1>3 DEF TypedOver, Release
<1>5. TypedKeys'
  BY DEF Typed, TypedKeys, Release
<1>6. Heard'
  <2>1. IsFiniteSet(sent')
    BY FS_AddElement DEF Typed, Heard, Release
  <2>2. sent \subseteq sent' /\ UNCHANGED <<got, again>>
    BY DEF Release
  <2> QED BY <2>1, <2>2 DEF Typed, Heard, SentBy
<1> QED BY <1>3, <1>4, <1>5, <1>6 DEF Typed

LEMMA DecryptTyped ==
  ASSUME RatchetAssumption, SessionsAssumption, Typed, NEW p \in Parties, NEW m \in sent, Decrypt(p, m)
  PROVE  Typed'
<1>1. KeysMade \subseteq KeysMade' /\ generated' \in [Parties -> 0..MaxKeys]
  BY DecryptIs
<1>2. PICK t \in Session(KeysMade'), step \in {"opened", "decrypted"} :
        op' = [op EXCEPT ![p] = [step |-> step, session |-> t, message |-> m]]
  BY DecryptIs
<1> DEFINE o == [step |-> step, session |-> t, message |-> m]
<1>3. TypedOver(KeysMade')
  BY <1>1, TypedWider DEF Typed
<1>4. m \in Messages(KeysMade') /\ m \in SentBy(Peer(p))
  BY <1>3 DEF TypedOver, Decrypt, IsFor, SentBy
<1>5. o \in Operations(KeysMade') /\ o.step \in {"opened", "decrypted"} /\ o.message = m
  BY <1>4 DEF Operations
<1> HIDE DEF o
<1>6. UNCHANGED <<session, preKeys, bundles, task, sent, got, again>>
  BY DEF Decrypt
<1>7. TypedOver(KeysMade)'
  BY <1>2, <1>3, <1>5, <1>6 DEF TypedOver, o
<1>8. TypedKeys'
  <2>1. ((IF Forgets(p, m) THEN {"session forgotten"} ELSE {}) \cup
         (IF Evicts(p, m) THEN {"keys evicted"} ELSE {}) \cup
         (IF MayReopen(p, m) THEN {"session reopened"} ELSE {})) \in SUBSET LapseNames
    BY DEF LapseNames
  <2>2. lapses' \in [Parties -> SUBSET LapseNames]
    BY <2>1, LapseIs DEF Decrypt
  <2> QED BY <1>1, <1>6, <2>2 DEF Typed, TypedKeys
<1>9. ASSUME NEW q \in Parties PROVE InHand(q)'
  <2>1. op'[q] = IF q = p THEN o ELSE op[q]
    BY <1>2 DEF o, Typed, TypedOver
  <2>2. CASE q = p
    BY <1>4, <1>5, <1>6, <2>1, <2>2 DEF InHand, SentBy
  <2>3. CASE q # p
    BY <1>6, <2>1, <2>3 DEF InHand, SentBy, Typed
  <2> QED BY <2>2, <2>3
<1> QED BY <1>6, <1>7, <1>8, <1>9, SameHeard DEF Typed

LEMMA ConsumeTyped ==
  ASSUME Typed, NEW p \in Parties, Consume(p)
  PROVE  Typed'
<1>1. KeysMade' = KeysMade /\ TypedOver(KeysMade)
  BY SameKeys DEF Consume, Typed
<1>2. /\ op[p].step = "opened" /\ op' = [op EXCEPT ![p].step = "decrypted"]
      /\ preKeys' = [preKeys EXCEPT ![p] = @ \ {op[p].message.oneTimeId}]
      /\ UNCHANGED <<session, bundles, generated, task, sent, got, again, lapses>>
  BY DEF Consume
<1> DEFINE o == [op[p] EXCEPT !.step = "decrypted"]
<1>3. /\ o \in Operations(KeysMade) /\ o.step = "decrypted" /\ o.message = op[p].message
      /\ op' = [op EXCEPT ![p] = o]
  BY <1>1, <1>2, OpIs DEF Operations, TypedOver
<1> HIDE DEF o
<1>4. TypedOver(KeysMade)'
  BY <1>1, <1>2, <1>3 DEF TypedOver
<1>5. TypedKeys'
  BY <1>2 DEF Typed, TypedKeys
<1>6. ASSUME NEW q \in Parties PROVE InHand(q)'
  <2>1. op'[q] = IF q = p THEN o ELSE op[q]
    BY <1>1, <1>3 DEF TypedOver
  <2>2. InHand(q)
    BY DEF Typed
  <2>3. CASE q = p
    BY <1>2, <1>3, <2>1, <2>2, <2>3 DEF InHand, SentBy
  <2>4. CASE q # p
    BY <1>2, <2>1, <2>2, <2>4 DEF InHand, SentBy
  <2> QED BY <2>3, <2>4
<1> QED BY <1>2, <1>4, <1>5, <1>6, SameHeard DEF Typed

LEMMA DeliverTyped ==
  ASSUME SessionsAssumption, Typed, NEW p \in Parties, Deliver(p)
  PROVE  Typed'
<1>1. KeysMade' = KeysMade /\ TypedOver(KeysMade)
  BY SameKeys DEF Deliver, Typed
<1> DEFINE m == op[p].message
<1>2. op[p].step # "none" /\ op[p].session \in Session(KeysMade) /\ m \in SentBy(Peer(p))
  BY OpIs DEF Deliver, Typed, InHand
<1>3. /\ session' = [session EXCEPT ![p] = op[p].session]
      /\ got' = [got EXCEPT ![p] = @ \cup {m}]
      /\ again' \in {again, again \cup {m}}
      /\ op' = [op EXCEPT ![p] = Free]
      /\ UNCHANGED <<preKeys, bundles, generated, task, sent, lapses>>
  BY DEF Deliver
<1> HIDE DEF m
<1>4. op' \in [Parties -> Operations(KeysMade)] /\ \A q \in Parties : InHand(q)'
  BY <1>3, FreesOp
<1>5. TypedOver(KeysMade)'
  BY <1>1, <1>2, <1>3, <1>4 DEF TypedOver
<1>6. TypedKeys'
  BY <1>3 DEF Typed, TypedKeys
<1>7. Heard'
  <2>1. m \in sent /\ sent' = sent /\ \A q \in Parties : SentBy(q)' = SentBy(q)
    BY <1>2, <1>3 DEF SentBy
  <2>2. got' \in [Parties -> SUBSET sent] /\ again' \subseteq sent
    BY <1>3, <2>1 DEF Typed, Heard
  <2>3. \A q \in Parties : got'[q] = IF q = p THEN got[p] \cup {m} ELSE got[q]
    BY <1>3 DEF Typed, Heard
  <2>4. \A q \in Parties : got'[q] \subseteq SentBy(Peer(q))
    BY <1>2, <2>3 DEF Typed, Heard
  <2>5. \A q \in Parties : SentBy(Peer(q))' = SentBy(Peer(q))
    BY <1>3 DEF SentBy
  <2> QED BY <2>1, <2>2, <2>4, <2>5 DEF Heard, Typed
<1> QED BY <1>4, <1>5, <1>6, <1>7 DEF Typed

LEMMA DeleteTyped ==
  ASSUME Typed, NEW p \in Parties, Delete(p)
  PROVE  Typed'
<1>1. KeysMade' = KeysMade /\ TypedOver(KeysMade)
  BY SameKeys DEF Delete, Typed
<1>2. TypedOver(KeysMade)'
  BY <1>1 DEF TypedOver, Delete
<1>3. TypedKeys'
  <2>1. {"session dropped"} \in SUBSET LapseNames
    BY DEF LapseNames
  <2> QED BY <2>1, LapseIs DEF Delete, Typed, TypedKeys
<1> QED BY <1>2, <1>3, SameOps, SameHeard DEF Typed, Delete

LEMMA InterruptTyped ==
  ASSUME SessionsAssumption, Typed, NEW p \in Parties, Interrupt(p)
  PROVE  Typed'
<1>1. KeysMade' = KeysMade /\ TypedOver(KeysMade)
  BY SameKeys DEF Interrupt, Typed
<1>2. /\ op[p].step # "none"
      /\ session' \in {session, [session EXCEPT ![p] = op[p].session]}
      /\ op' = [op EXCEPT ![p] = Free]
      /\ task' \in {task, [task EXCEPT ![p] = Idle]}
      /\ Lapse(p, IF op[p].step = "decrypted" THEN {"message lost"} ELSE {})
      /\ UNCHANGED <<preKeys, bundles, generated, sent, got, again>>
  BY DEF Interrupt
<1>3. op[p].session \in Session(KeysMade)
  BY <1>2, OpIs
<1>4. op' \in [Parties -> Operations(KeysMade)] /\ \A q \in Parties : InHand(q)'
  BY <1>2, FreesOp
<1>5. task' \in [Parties -> Tasks(KeysMade)]
  <2>1. Idle \in Tasks(KeysMade)
    BY DEF Tasks, Idle
  <2>2. task \in [Parties -> Tasks(KeysMade)]
    BY <1>1 DEF TypedOver
  <2> QED BY <1>2, <2>1, <2>2
<1>6. session' \in [Parties -> Session(KeysMade) \cup {NoSession}]
  BY <1>1, <1>2, <1>3 DEF TypedOver
<1>7. TypedOver(KeysMade)'
  BY <1>1, <1>2, <1>4, <1>5, <1>6 DEF TypedOver
<1>8. TypedKeys'
  <2>1. (IF op[p].step = "decrypted" THEN {"message lost"} ELSE {}) \in SUBSET LapseNames
    BY DEF LapseNames
  <2> QED BY <1>2, <2>1, LapseIs DEF Typed, TypedKeys
<1> QED BY <1>2, <1>4, <1>7, <1>8, SameHeard DEF Typed

LEMMA StepTyped ==
  ASSUME RatchetAssumption, SessionsAssumption, Typed, [Next]_vars
  PROVE  Typed'
<1>1. ASSUME NEW p \in Parties,
             \/ Resolve(p) \/ Persist(p) \/ Release(p) \/ Consume(p) \/ Deliver(p)
             \/ Refetch(p) \/ Reestablish(p) \/ Delete(p) \/ Interrupt(p)
      PROVE  Typed'
  BY <1>1, ResolveTyped, PersistTyped, ReleaseTyped, ConsumeTyped, DeliverTyped, RefetchTyped,
     ReestablishTyped, DeleteTyped, InterruptTyped
<1>2. ASSUME NEW p \in Parties, NEW prefetched \in BOOLEAN, Encrypt(p, prefetched)
      PROVE  Typed'
  BY <1>2, EncryptTyped
<1>3. ASSUME NEW p \in Parties, NEW m \in sent, Decrypt(p, m)
      PROVE  Typed'
  BY <1>3, DecryptTyped
<1>4. CASE UNCHANGED vars
  <2>1. KeysMade' = KeysMade
    BY <1>4 DEF vars, KeysMade
  <2> QED BY <1>4, <2>1, SameOps, SameHeard DEF vars, Typed, TypedOver, TypedKeys
<1> QED BY <1>1, <1>2, <1>3, <1>4 DEF Next

\* Every state of the sessions is of its type: among others no record has more
\* previous sessions, receiving chains or skipped keys than there is room for, and
\* what a party returned was sent to it.
THEOREM SessionTypes == Spec => []TypeOK
<1> USE RatchetAssumption, SessionsAssumption
<1>1. Init => Typed
  BY InitTyped
<1>2. Typed /\ [Next]_vars => Typed'
  BY StepTyped
<1>3. Typed => TypeOK
  BY TypedImpliesOK
<1> QED BY <1>1, <1>2, <1>3, PTL DEF Spec
-----------------------------------------------------------------------------
(* Who sends with which chains. *)

KeyChains(s) == {Chain(s, i).chainKey : i \in Chains(s)}

\* What p may still send with, or has sent with.
Stored(p) == IF session[p] = NoSession THEN {} ELSE KeyChains(session[p])
InTask(p) == IF task[p].step = "none" THEN {} ELSE KeyChains(task[p].session)
InOp(p) == IF op[p].step = "none" THEN {} ELSE KeyChains(op[p].session)
Out(p) == {m.chainKey : m \in SentBy(p)}
SendKeys(p) == Stored(p) \cup InTask(p) \cup InOp(p) \cup Out(p)

\* A sending chain is of one party.
Owned == \A p, q \in Parties : p # q => SendKeys(p) \cap SendKeys(q) = {}

\* The chains of a record are different ones, and each is ahead of what was sent with it.
Distinct(s) == \A i, j \in Chains(s) : Chain(s, i).chainKey = Chain(s, j).chainKey => i = j
Ahead(s, messages) ==
  \A i \in Chains(s), m \in messages :
    m.chainKey = Chain(s, i).chainKey => m.counter < Chain(s, i).nextMsgIndex
Fits(s, messages) == Distinct(s) /\ Ahead(s, messages)

\* What p stores, or is about to store, repeats no message key of what it sent.
Sound(p) ==
  /\ session[p] # NoSession => Fits(session[p], SentBy(p))
  /\ op[p].step # "none" => Fits(op[p].session, SentBy(p))
  /\ op[p].step = "encrypted" =>
       \A m \in SentBy(p) :
         m.chainKey = op[p].message.chainKey => m.counter < op[p].message.counter
  /\ task[p].step \in {"prepared", "renewing"} =>
       /\ task[p].session.prevSessions = <<>>
       /\ task[p].session.sendChain.chainKey \notin Stored(p) \cup InOp(p) \cup Out(p)
  /\ \A m, n \in SentBy(p) : m.chainKey = n.chainKey /\ m.counter = n.counter => m = n
SoundOrLapsed(p) == Lapsed(p, "deleted session used") \/ Sound(p)

\* A step of p sends with the chains p had, and with new ones.
Brings(p) == \A k \in SendKeys(p)' : k \in SendKeys(p) \/ k \notin ChainKeys(KeysMade)

\* What a step of p leaves to the others.
LeavesOthers(p) ==
  \A q \in Parties \ {p} :
    /\ session'[q] = session[q] /\ task'[q] = task[q] /\ op'[q] = op[q]
    /\ lapses'[q] = lapses[q] /\ SentBy(q)' = SentBy(q)

LEMMA KeyChainsAre ==
  ASSUME NEW K, NEW s \in Session(K)
  PROVE  /\ KeyChains(s) \subseteq ChainKeys(K)
         /\ s.sendChain.chainKey \in KeyChains(s)
         /\ s.prevSessions = <<>> => KeyChains(s) = {s.sendChain.chainKey} /\ Distinct(s)
<1>1. \A i \in Chains(s) : Chain(s, i).chainKey \in ChainKeys(K)
  BY ChainIs DEF SendChain
<1>2. 0 \in Chains(s) /\ Chain(s, 0) = s.sendChain
  BY RecordIs DEF Chains, Chain
<1>3. s.prevSessions = <<>> => Chains(s) = {0}
  <2>1. s.prevSessions = <<>> => Len(s.prevSessions) = 0
    OBVIOUS
  <2>2. 0..0 = {0}
    OBVIOUS
  <2> QED BY <2>1, <2>2 DEF Chains
<1> QED BY <1>1, <1>2, <1>3 DEF KeyChains, Distinct

\* A record with one chain that nothing was sent with.
LEMMA NewFits ==
  ASSUME NEW K, NEW s \in Session(K), s.prevSessions = <<>>, NEW messages,
         \A m \in messages : m.chainKey # s.sendChain.chainKey
  PROVE  Fits(s, messages)
<1>1. KeyChains(s) = {s.sendChain.chainKey} /\ Distinct(s)
  BY KeyChainsAre
<1>2. \A i \in Chains(s) : Chain(s, i).chainKey = s.sendChain.chainKey
  BY <1>1 DEF KeyChains
<1> QED BY <1>1, <1>2 DEF Fits, Ahead

\* Encrypting takes the chain in front one message further.
LEMMA EncryptedChains ==
  ASSUME NEW K, NEW s \in Session(K)
  PROVE  LET t == Encrypted(s)
         IN /\ Chains(t) = Chains(s) /\ KeyChains(t) = KeyChains(s)
            /\ \A i \in Chains(s) : Chain(t, i).chainKey = Chain(s, i).chainKey
<1> DEFINE t == Encrypted(s)
<1>1. t.prevSessions = s.prevSessions /\ t.sendChain.chainKey = s.sendChain.chainKey
  BY EncryptedIs
<1> HIDE DEF t
<1>2. Chains(t) = Chains(s) /\ \A i \in Chains(s) : Chain(t, i).chainKey = Chain(s, i).chainKey
  BY <1>1 DEF Chains, Chain
<1> QED BY <1>2 DEF KeyChains, t

LEMMA EncryptedFits ==
  ASSUME NEW K, NEW s \in Session(K), NEW messages \in SUBSET Messages(K), Fits(s, messages)
  PROVE  Fits(Encrypted(s), messages)
<1> DEFINE t == Encrypted(s)
<1>1. /\ t.prevSessions = s.prevSessions
      /\ t.sendChain.nextMsgIndex = s.sendChain.nextMsgIndex + 1
      /\ Chains(t) = Chains(s)
      /\ \A i \in Chains(s) : Chain(t, i).chainKey = Chain(s, i).chainKey
  BY EncryptedIs, EncryptedChains
<1> HIDE DEF t
<1>2. ASSUME NEW i \in Chains(s), NEW m \in messages, m.counter < Chain(s, i).nextMsgIndex
      PROVE  m.counter < Chain(t, i).nextMsgIndex
  <2>1. m.counter \in Nat /\ Chain(s, i).nextMsgIndex \in Nat
    BY ChainIs DEF Messages, SendChain
  <2>2. CASE i = 0
    BY <1>1, <1>2, <2>1, <2>2 DEF Chain
  <2>3. CASE i # 0
    BY <1>1, <1>2, <2>3 DEF Chain
  <2> QED BY <2>2, <2>3
<1> QED BY <1>1, <1>2 DEF Fits, Distinct, Ahead, t

LEMMA ReorderedChains ==
  ASSUME NEW t, NEW s, NEW ks, Reorders(t, s, ks)
  PROVE  \A i \in ks : Chain(t, i).chainKey \in KeyChains(s)
BY DEF Reorders, KeyChains

\* What follows a session has its chains and perhaps one that is new.
LEMMA FollowsChains ==
  ASSUME NEW K, NEW L, NEW s \in Session(K) \cup {NoSession}, NEW t \in Session(L),
         Follows(t, s, K)
  PROVE  \A k \in KeyChains(t) : k \notin ChainKeys(K) \/ (s # NoSession /\ k \in KeyChains(s))
<1>1. CASE s # NoSession /\ Reorders(t, s, Chains(t))
  BY <1>1, ReorderedChains DEF KeyChains
<1>2. CASE /\ t.sendChain.chainKey \notin ChainKeys(K)
           /\ s = NoSession => t.prevSessions = <<>>
           /\ s # NoSession => Reorders(t, s, 1..Len(t.prevSessions))
  <2>1. CASE s = NoSession
    BY <1>2, <2>1, KeyChainsAre
  <2>2. CASE s # NoSession
    <3>1. \A i \in 1..Len(t.prevSessions) : Chain(t, i).chainKey \in KeyChains(s)
      BY <1>2, <2>2, ReorderedChains
    <3>2. \A i \in Chains(t) : i = 0 \/ i \in 1..Len(t.prevSessions)
      BY RecordIs DEF Chains
    <3>3. Chain(t, 0) = t.sendChain
      BY DEF Chain
    <3> QED BY <1>2, <2>2, <3>1, <3>2, <3>3 DEF KeyChains
  <2> QED BY <2>1, <2>2
<1> QED BY <1>1, <1>2 DEF Follows

LEMMA FollowsFits ==
  ASSUME NEW K, NEW L, K \subseteq L, NEW s \in Session(K) \cup {NoSession}, NEW t \in Session(L),
         NEW messages \in SUBSET Messages(K), Follows(t, s, K),
         s # NoSession => Fits(s, messages)
  PROVE  Fits(t, messages)
<1> DEFINE n == Len(t.prevSessions)
<1>1. n \in Nat /\ Chains(t) = 0..n /\ Chain(t, 0) = t.sendChain
  BY RecordIs DEF Chains, Chain
<1> HIDE DEF n
<1>2. ASSUME s # NoSession, NEW ks \in SUBSET Chains(t), Reorders(t, s, ks)
      PROVE  /\ \A i, j \in ks : Chain(t, i).chainKey = Chain(t, j).chainKey => i = j
             /\ \A i \in ks, m \in messages :
                  m.chainKey = Chain(t, i).chainKey => m.counter < Chain(t, i).nextMsgIndex
  <2>1. PICK f \in [ks -> Chains(s)] :
          /\ \A i, j \in ks : f[i] = f[j] => i = j
          /\ \A i \in ks : Chain(t, i) = Chain(s, f[i])
    BY <1>2 DEF Reorders
  <2>2. \A i \in ks : f[i] \in Chains(s) /\ Chain(t, i) = Chain(s, f[i])
    BY <2>1
  <2>3. Distinct(s) /\ Ahead(s, messages)
    BY <1>2 DEF Fits
  <2>4. ASSUME NEW i \in ks, NEW j \in ks, Chain(t, i).chainKey = Chain(t, j).chainKey PROVE i = j
    BY <2>1, <2>2, <2>3, <2>4 DEF Distinct
  <2>5. \A i \in ks, m \in messages :
          m.chainKey = Chain(t, i).chainKey => m.counter < Chain(t, i).nextMsgIndex
    BY <2>2, <2>3 DEF Ahead
  <2> QED BY <2>4, <2>5
<1>3. CASE s # NoSession /\ Reorders(t, s, Chains(t))
  BY <1>2, <1>3 DEF Fits, Distinct, Ahead
<1>4. CASE /\ t.sendChain.chainKey \notin ChainKeys(K)
           /\ s = NoSession => t.prevSessions = <<>>
           /\ s # NoSession => Reorders(t, s, 1..Len(t.prevSessions))
  <2>1. \A m \in messages : m.chainKey \in ChainKeys(K)
    BY DEF Messages
  <2>2. CASE s = NoSession
    <3>1. t.prevSessions = <<>>
      BY <1>4, <2>2
    <3> QED BY <1>4, <2>1, <3>1, NewFits
  <2>3. CASE s # NoSession
    <3> DEFINE ks == 1..n
    <3>1. /\ \A i, j \in ks : Chain(t, i).chainKey = Chain(t, j).chainKey => i = j
          /\ \A i \in ks, m \in messages :
               m.chainKey = Chain(t, i).chainKey => m.counter < Chain(t, i).nextMsgIndex
      <4>1. ks \in SUBSET Chains(t) /\ Reorders(t, s, ks)
        BY <1>1, <1>4, <2>3 DEF n
      <4> HIDE DEF ks
      <4> QED BY <1>2, <2>3, <4>1
    <3>2. \A i \in Chains(t) : i = 0 \/ i \in ks
      BY <1>1
    <3>3. \A i \in ks : Chain(t, i).chainKey \in ChainKeys(K)
      <4>1. KeyChains(s) \subseteq ChainKeys(K)
        BY <2>3, KeyChainsAre
      <4>2. ks \subseteq Chains(t) /\ Reorders(t, s, ks)
        BY <1>1, <1>4, <2>3 DEF n
      <4> HIDE DEF ks
      <4> QED BY <4>1, <4>2, ReorderedChains
    <3> HIDE DEF ks
    <3>4. Distinct(t)
      BY <1>1, <1>4, <3>1, <3>2, <3>3 DEF Distinct
    <3>5. Ahead(t, messages)
      BY <1>1, <1>4, <2>1, <3>1, <3>2 DEF Ahead
    <3> QED BY <3>4, <3>5 DEF Fits
  <2> QED BY <2>2, <2>3
<1> QED BY <1>3, <1>4 DEF Follows

LEMMA SendKeysAre ==
  ASSUME Typed, NEW p \in Parties
  PROVE  SendKeys(p) \subseteq ChainKeys(KeysMade)
<1>1. Stored(p) \subseteq ChainKeys(KeysMade)
  BY KeyChainsAre DEF Stored, Typed, TypedOver
<1>2. InTask(p) \subseteq ChainKeys(KeysMade)
  BY TaskIs, KeyChainsAre DEF InTask
<1>3. InOp(p) \subseteq ChainKeys(KeysMade)
  BY OpIs, KeyChainsAre DEF InOp
<1>4. Out(p) \subseteq ChainKeys(KeysMade)
  BY DEF Out, SentBy, Typed, TypedOver, Messages
<1> QED BY <1>1, <1>2, <1>3, <1>4 DEF SendKeys

LEMMA SentByIs ==
  ASSUME Typed, NEW p \in Parties
  PROVE  SentBy(p) \in SUBSET Messages(KeysMade)
BY DEF SentBy, Typed, TypedOver

LEMMA OthersSound ==
  ASSUME NEW p \in Parties, LeavesOthers(p), NEW q \in Parties \ {p}
  PROVE  /\ SendKeys(q)' = SendKeys(q)
         /\ SoundOrLapsed(q) => SoundOrLapsed(q)'
<1>1. /\ session'[q] = session[q] /\ task'[q] = task[q] /\ op'[q] = op[q]
      /\ lapses'[q] = lapses[q] /\ SentBy(q)' = SentBy(q)
  BY DEF LeavesOthers
<1>2. Stored(q)' = Stored(q) /\ InTask(q)' = InTask(q) /\ InOp(q)' = InOp(q) /\ Out(q)' = Out(q)
  BY <1>1 DEF Stored, InTask, InOp, Out
<1>3. Sound(q) => Sound(q)'
  BY <1>1, <1>2 DEF Sound
<1> QED BY <1>1, <1>2, <1>3 DEF SendKeys, SoundOrLapsed, Lapsed

LEMMA OwnedStep ==
  ASSUME Typed, Owned, NEW p \in Parties, LeavesOthers(p), Brings(p)
  PROVE  Owned'
<1>1. \A q \in Parties \ {p} : SendKeys(q)' = SendKeys(q)
  BY OthersSound
<1>2. ASSUME NEW q \in Parties \ {p}, NEW k \in SendKeys(p)', k \in SendKeys(q)'
      PROVE  FALSE
  <2>1. k \in SendKeys(q) /\ k \in ChainKeys(KeysMade)
    BY <1>1, <1>2, SendKeysAre
  <2>2. k \in SendKeys(p)
    BY <2>1 DEF Brings
  <2> QED BY <2>1, <2>2 DEF Owned
<1>3. ASSUME NEW q \in Parties \ {p}, NEW r \in Parties \ {p}, q # r
      PROVE  SendKeys(q)' \cap SendKeys(r)' = {}
  BY <1>1, <1>3 DEF Owned
<1>4. ASSUME NEW q \in Parties, NEW r \in Parties, q # r
      PROVE  (SendKeys(q) \cap SendKeys(r) = {})'
  BY <1>2, <1>3, <1>4
<1> QED BY <1>4 DEF Owned

\* What stays as it is when p does not send.
LEMMA SameSent ==
  ASSUME UNCHANGED sent, NEW p
  PROVE  SentBy(p)' = SentBy(p) /\ Out(p)' = Out(p)
BY DEF SentBy, Out

LEMMA StepLeaves ==
  ASSUME Typed, NEW p \in Parties,
         \/ Resolve(p) \/ Persist(p) \/ Release(p) \/ Consume(p) \/ Deliver(p)
         \/ Refetch(p) \/ Reestablish(p) \/ Delete(p) \/ Interrupt(p)
         \/ \E prefetched \in BOOLEAN : Encrypt(p, prefetched)
         \/ \E m \in sent : Decrypt(p, m)
  PROVE  LeavesOthers(p)
<1> SUFFICES ASSUME NEW q \in Parties \ {p}
             PROVE  /\ session'[q] = session[q] /\ task'[q] = task[q] /\ op'[q] = op[q]
                    /\ lapses'[q] = lapses[q] /\ SentBy(q)' = SentBy(q)
  BY DEF LeavesOthers
<1>1. /\ session \in [Parties -> Session(KeysMade) \cup {NoSession}]
      /\ task \in [Parties -> Tasks(KeysMade)] /\ op \in [Parties -> Operations(KeysMade)]
      /\ lapses \in [Parties -> SUBSET LapseNames]
  BY DEF Typed, TypedOver, TypedKeys
<1>2. CASE Resolve(p)
  BY <1>1, <1>2, SameSent DEF Resolve, Prepare
<1>3. CASE Persist(p)
  BY <1>1, <1>3, SameSent DEF Persist
<1>4. CASE Release(p)
  <2>1. op[p].message.from = p
    BY <1>4 DEF Release, Typed, InHand
  <2>2. SentBy(q)' = SentBy(q)
    BY <1>4, <2>1 DEF Release, SentBy
  <2> QED BY <1>1, <1>4, <2>2 DEF Release
<1>5. CASE Consume(p)
  BY <1>1, <1>5, SameSent DEF Consume
<1>6. CASE Deliver(p)
  BY <1>1, <1>6, SameSent DEF Deliver
<1>7. CASE Refetch(p)
  BY <1>1, <1>7, SameSent DEF Refetch, Prepare
<1>8. CASE Reestablish(p)
  BY <1>1, <1>8, SameSent DEF Reestablish, Lapse
<1>9. CASE Delete(p)
  BY <1>1, <1>9, SameSent DEF Delete, Lapse
<1>10. CASE Interrupt(p)
  BY <1>1, <1>10, SameSent DEF Interrupt, Lapse
<1>11. CASE \E prefetched \in BOOLEAN : Encrypt(p, prefetched)
  <2>1. PICK prefetched \in BOOLEAN : Encrypt(p, prefetched)
    BY <1>11
  <2> QED BY <1>1, <2>1, SameSent DEF Encrypt, Lapse
<1>12. CASE \E m \in sent : Decrypt(p, m)
  <2>1. PICK m \in sent : Decrypt(p, m)
    BY <1>12
  <2>2. /\ \E o : op' = [op EXCEPT ![p] = o]
        /\ \E what : lapses' = [lapses EXCEPT ![p] = @ \cup what]
        /\ UNCHANGED <<session, task, sent>>
    BY <2>1 DEF Decrypt, Lapse
  <2> QED BY <1>1, <2>2, SameSent
<1> QED BY <1>2, <1>3, <1>4, <1>5, <1>6, <1>7, <1>8, <1>9, <1>10, <1>11, <1>12

\* A session that is prepared has a chain of its own.
LEMMA PrepareSound ==
  ASSUME RatchetAssumption, SessionsAssumption, Typed, NEW p \in Parties,
         NEW step \in {"prepared", "renewing"}, Prepare(p, step),
         UNCHANGED <<session, op, sent, lapses>>, SoundOrLapsed(p)
  PROVE  Brings(p) /\ SoundOrLapsed(p)'
<1>1. PICK s \in Session(KeysMade') :
        /\ task' = [task EXCEPT ![p] = [step |-> step, session |-> s]]
        /\ s.prevSessions = <<>> /\ s.sendChain.chainKey \notin ChainKeys(KeysMade)
  BY PrepareIs
<1> DEFINE k == s.sendChain.chainKey
<1>2. task'[p].step = step /\ task'[p].session = s
  BY <1>1 DEF Typed, TypedOver
<1>3. Stored(p)' = Stored(p) /\ InOp(p)' = InOp(p) /\ Out(p)' = Out(p) /\ SentBy(p)' = SentBy(p)
  BY SameSent DEF Stored, InOp
<1>4. KeyChains(s) = {k}
  <2> DEFINE L == KeysMade'
  <2> HIDE DEF L
  <2>1. s \in Session(L)
    BY DEF L
  <2> QED BY <1>1, <2>1, KeyChainsAre
<1>5. InTask(p)' = {k}
  BY <1>2, <1>4 DEF InTask
<1>6. k \notin Stored(p) \cup InOp(p) \cup Out(p)
  BY <1>1, SendKeysAre DEF SendKeys
<1>7. Brings(p)
  BY <1>1, <1>3, <1>5 DEF Brings, SendKeys
<1>8. Sound(p) => Sound(p)'
  BY <1>1, <1>2, <1>3, <1>6 DEF Sound
<1> QED BY <1>7, <1>8 DEF SoundOrLapsed, Lapsed

LEMMA ResolveSound ==
  ASSUME RatchetAssumption, SessionsAssumption, Typed, NEW p \in Parties, Resolve(p), SoundOrLapsed(p)
  PROVE  Brings(p) /\ SoundOrLapsed(p)'
<1>1. UNCHANGED <<session, op, sent, lapses>>
  BY DEF Resolve
<1>2. CASE Prepare(p, "prepared")
  BY <1>1, <1>2, PrepareSound
<1>3. CASE /\ session[p] # NoSession
           /\ task' = [task EXCEPT ![p] = [step |-> "ready", session |-> session[p]]]
  <2>1. task'[p].step = "ready" /\ task'[p].session = session[p]
    BY <1>3 DEF Typed, TypedOver
  <2>2. Stored(p)' = Stored(p) /\ InOp(p)' = InOp(p) /\ Out(p)' = Out(p) /\ SentBy(p)' = SentBy(p)
    BY <1>1, SameSent DEF Stored, InOp
  <2>3. InTask(p)' = Stored(p)
    BY <1>3, <2>1 DEF InTask, Stored
  <2>4. Brings(p)
    BY <2>2, <2>3 DEF Brings, SendKeys
  <2>5. Sound(p) => Sound(p)'
    BY <1>1, <2>1, <2>2 DEF Sound
  <2> QED BY <1>1, <2>4, <2>5 DEF SoundOrLapsed, Lapsed
<1> QED BY <1>2, <1>3 DEF Resolve

LEMMA RefetchSound ==
  ASSUME RatchetAssumption, SessionsAssumption, Typed, NEW p \in Parties, Refetch(p), SoundOrLapsed(p)
  PROVE  Brings(p) /\ SoundOrLapsed(p)'
BY PrepareSound DEF Refetch

\* The session that was prepared fits what was sent.
LEMMA PreparedFits ==
  ASSUME Typed, NEW p \in Parties, task[p].step \in {"prepared", "renewing"}, Sound(p)
  PROVE  Fits(task[p].session, SentBy(p))
<1> DEFINE s == task[p].session
<1>1. s \in Session(KeysMade)
  BY TaskIs
<1>2. s.prevSessions = <<>> /\ s.sendChain.chainKey \notin Out(p)
  BY DEF Sound
<1>3. \A m \in SentBy(p) : m.chainKey # s.sendChain.chainKey
  BY <1>2 DEF Out
<1> HIDE DEF s
<1>4. Fits(s, SentBy(p))
  BY <1>1, <1>2, <1>3, NewFits
<1> QED BY <1>4 DEF s

LEMMA PersistSound ==
  ASSUME Typed, NEW p \in Parties, Persist(p), SoundOrLapsed(p)
  PROVE  Brings(p) /\ SoundOrLapsed(p)'
<1> DEFINE kept == IF session[p] = NoSession THEN task[p].session ELSE session[p]
<1>1. /\ task[p].step = "prepared" /\ op[p].step = "none"
      /\ session' = [session EXCEPT ![p] = kept]
      /\ task' = [task EXCEPT ![p] = [step |-> "ready", session |-> kept]]
      /\ UNCHANGED <<op, sent, lapses>>
  BY DEF Persist
<1>2. session'[p] = kept /\ task'[p].session = kept /\ task'[p].step = "ready"
  BY <1>1 DEF Typed, TypedOver
<1>3. InOp(p)' = InOp(p) /\ Out(p)' = Out(p) /\ SentBy(p)' = SentBy(p)
  BY <1>1, SameSent DEF InOp
<1>4. KeyChains(kept) \subseteq Stored(p) \cup InTask(p)
  BY <1>1 DEF Stored, InTask
<1>5. Sound(p) => Fits(kept, SentBy(p))
  BY <1>1, PreparedFits DEF Sound
<1> HIDE DEF kept
<1>6. Stored(p)' \subseteq KeyChains(kept) /\ InTask(p)' = KeyChains(kept)
  BY <1>2 DEF Stored, InTask
<1>7. Brings(p)
  BY <1>3, <1>4, <1>6 DEF Brings, SendKeys
<1>8. Sound(p) => Sound(p)'
  BY <1>1, <1>2, <1>3, <1>5 DEF Sound
<1> QED BY <1>1, <1>7, <1>8 DEF SoundOrLapsed, Lapsed

LEMMA ReestablishSound ==
  ASSUME Typed, NEW p \in Parties, Reestablish(p), SoundOrLapsed(p)
  PROVE  Brings(p) /\ SoundOrLapsed(p)'
<1> DEFINE s == task[p].session
<1>1. /\ task[p].step = "renewing" /\ op[p].step = "none"
      /\ session' = [session EXCEPT ![p] = s]
      /\ task' = [task EXCEPT ![p] = Idle]
      /\ UNCHANGED <<op, sent>>
      /\ lapses[p] \subseteq lapses'[p]
  BY DEF Reestablish, Lapse, Typed, TypedKeys
<1>2. session'[p] = s /\ task'[p].step = "none"
  BY <1>1 DEF Typed, TypedOver, Idle
<1>3. InOp(p)' = InOp(p) /\ Out(p)' = Out(p) /\ SentBy(p)' = SentBy(p)
  BY <1>1, SameSent DEF InOp
<1>4. KeyChains(s) = InTask(p)
  BY <1>1 DEF InTask
<1>5. Sound(p) => Fits(s, SentBy(p))
  BY <1>1, PreparedFits
<1> HIDE DEF s
<1>6. Stored(p)' \subseteq KeyChains(s) /\ InTask(p)' = {}
  BY <1>2 DEF Stored, InTask
<1>7. Brings(p)
  BY <1>3, <1>4, <1>6 DEF Brings, SendKeys
<1>8. Sound(p) => Sound(p)'
  BY <1>1, <1>2, <1>3, <1>5 DEF Sound
<1> QED BY <1>1, <1>7, <1>8 DEF SoundOrLapsed, Lapsed

\* Either the stored session is used, or p went back to a deleted one.
LEMMA EncryptSound ==
  ASSUME SessionsAssumption, Typed, NEW p \in Parties, NEW prefetched \in BOOLEAN,
         Encrypt(p, prefetched), SoundOrLapsed(p)
  PROVE  Brings(p) /\ SoundOrLapsed(p)'
<1> DEFINE s == SessionToEncrypt(p, prefetched)
           t == Encrypted(s)
           m == Message(s, p, NextId(p))
<1>1. /\ op[p].step = "none" /\ s # NoSession
      /\ prefetched => task[p].step = "ready"
      /\ op' = [op EXCEPT ![p] = [step |-> "encrypted", session |-> t, message |-> m]]
      /\ task' \in {task, [task EXCEPT ![p] = Idle]}
      /\ Lapse(p, IF session[p] = NoSession THEN {"deleted session used"} ELSE {})
      /\ UNCHANGED <<session, sent>>
  BY DEF Encrypt
<1>2. /\ s \in Session(KeysMade)
      /\ KeyChains(s) \subseteq Stored(p) \cup InTask(p)
      /\ session[p] # NoSession => s = session[p]
  BY <1>1, TaskIs DEF SessionToEncrypt, Typed, TypedOver, Stored, InTask
<1>3. m.chainKey = s.sendChain.chainKey /\ m.counter = s.sendChain.nextMsgIndex
  BY DEF Message
<1>4. SentBy(p) \in SUBSET Messages(KeysMade) /\ KeyChains(t) = KeyChains(s)
  <2> HIDE DEF s
  <2> QED BY <1>2, SentByIs, EncryptedChains
<1>5. /\ op'[p].step = "encrypted" /\ op'[p].session = t /\ op'[p].message = m
  BY <1>1 DEF Typed, TypedOver
<1>6. task'[p] = task[p] \/ task'[p].step = "none"
  <2>1. task \in [Parties -> Tasks(KeysMade)] /\ Idle.step = "none"
    BY DEF Typed, TypedOver, Idle
  <2> QED BY <1>1, <2>1
<1> HIDE DEF s, t, m
<1>7. Stored(p)' = Stored(p) /\ Out(p)' = Out(p) /\ SentBy(p)' = SentBy(p)
  BY <1>1, SameSent DEF Stored
<1>8. InOp(p)' = KeyChains(s) /\ InTask(p)' \subseteq InTask(p)
  BY <1>4, <1>5, <1>6 DEF InOp, InTask
<1>9. Brings(p)
  BY <1>2, <1>7, <1>8 DEF Brings, SendKeys
<1>10. CASE session[p] = NoSession
  BY <1>1, <1>9, <1>10 DEF SoundOrLapsed, Lapsed, Lapse, Typed, TypedKeys
<1>11. CASE session[p] # NoSession
  <2>1. s = session[p] /\ KeyChains(s) = Stored(p)
    BY <1>2, <1>11 DEF Stored
  <2>2. ASSUME Sound(p) PROVE Sound(p)'
    <3>1. Fits(s, SentBy(p))
      BY <1>11, <2>1, <2>2 DEF Sound
    <3>2. Fits(t, SentBy(p))
      BY <1>2, <1>4, <3>1, EncryptedFits DEF t
    <3>3. \A n \in SentBy(p) : n.chainKey = m.chainKey => n.counter < m.counter
      <4>1. 0 \in Chains(s) /\ Chain(s, 0) = s.sendChain
        BY <1>2, RecordIs DEF Chains, Chain
      <4> QED BY <1>3, <3>1, <4>1 DEF Fits, Ahead
    <3>4. task'[p].step \in {"prepared", "renewing"} =>
            /\ task'[p] = task[p]
            /\ task[p].session.sendChain.chainKey \notin Stored(p)' \cup InOp(p)' \cup Out(p)'
      BY <1>6, <1>7, <1>8, <2>1, <2>2 DEF Sound
    <3> QED BY <1>1, <1>5, <1>7, <2>2, <3>2, <3>3, <3>4 DEF Sound
  <2>3. lapses' = lapses
    BY <1>1, <1>11 DEF Lapse, Typed, TypedKeys
  <2> QED BY <1>9, <2>2, <2>3 DEF SoundOrLapsed, Lapsed
<1> QED BY <1>10, <1>11

\* The message is the next of its chain, and the record is ahead of it.
LEMMA ReleaseSound ==
  ASSUME Typed, NEW p \in Parties, Release(p), SoundOrLapsed(p)
  PROVE  Brings(p) /\ SoundOrLapsed(p)'
<1> DEFINE t == op[p].session
           m == op[p].message
<1>1. /\ op[p].step = "encrypted"
      /\ session' = [session EXCEPT ![p] = t]
      /\ sent' = sent \cup {m}
      /\ op' = [op EXCEPT ![p] = Free]
      /\ UNCHANGED <<task, lapses>>
  BY DEF Release
<1>2. t \in Session(KeysMade) /\ m \in Messages(KeysMade)
  BY <1>1, OpIs
<1>3. /\ m.from = p /\ m.chainKey = t.sendChain.chainKey
      /\ t.sendChain.nextMsgIndex = m.counter + 1
  BY <1>1 DEF Typed, InHand
<1>4. InOp(p) = KeyChains(t) /\ m.chainKey \in KeyChains(t)
  BY <1>1, <1>2, <1>3, KeyChainsAre DEF InOp
<1>5. /\ Sound(p) => Fits(t, SentBy(p))
      /\ Sound(p) => \A n \in SentBy(p) : n.chainKey = m.chainKey => n.counter < m.counter
  BY <1>1 DEF Sound
<1>6. session'[p] = t /\ op'[p].step = "none"
  BY <1>1 DEF Typed, TypedOver, Free
<1> HIDE DEF t, m
<1>7. SentBy(p)' = SentBy(p) \cup {m} /\ SentBy(p) \in SUBSET Messages(KeysMade)
  BY <1>1, <1>3, SentByIs DEF SentBy
<1>8. /\ Stored(p)' \subseteq InOp(p) /\ InOp(p)' = {} /\ InTask(p)' = InTask(p)
      /\ Out(p)' = Out(p) \cup {m.chainKey}
  BY <1>1, <1>4, <1>6, <1>7 DEF Stored, InOp, InTask, Out
<1>9. Brings(p)
  BY <1>4, <1>8 DEF Brings, SendKeys
<1>10. ASSUME Sound(p) PROVE Sound(p)'
  <2>1. Fits(t, SentBy(p)')
    <3>1. 0 \in Chains(t) /\ Chain(t, 0) = t.sendChain
      BY <1>2, RecordIs DEF Chains, Chain
    <3>2. Distinct(t) /\ Ahead(t, SentBy(p))
      BY <1>5, <1>10 DEF Fits
    <3>3. \A i \in Chains(t) : m.chainKey = Chain(t, i).chainKey => i = 0
      BY <1>3, <3>1, <3>2 DEF Distinct
    <3>4. m.counter < t.sendChain.nextMsgIndex
      <4>1. m.counter \in Nat
        BY <1>2 DEF Messages
      <4> QED BY <1>3, <4>1
    <3>5. \A i \in Chains(t) : m.chainKey = Chain(t, i).chainKey => m.counter < Chain(t, i).nextMsgIndex
      BY <3>1, <3>3, <3>4
    <3> QED BY <1>7, <3>2, <3>5 DEF Fits, Ahead
  <2>2. \A a, b \in SentBy(p)' : a.chainKey = b.chainKey /\ a.counter = b.counter => a = b
    <3>1. \A n \in SentBy(p) : n.chainKey = m.chainKey => n.counter # m.counter
      <4>1. \A n \in SentBy(p) : n.counter \in Nat
        BY <1>7 DEF Messages
      <4>2. m.counter \in Nat
        BY <1>2 DEF Messages
      <4> QED BY <1>5, <1>10, <4>1, <4>2
    <3>2. \A a, b \in SentBy(p) : a.chainKey = b.chainKey /\ a.counter = b.counter => a = b
      BY <1>10 DEF Sound
    <3> QED BY <1>7, <3>1, <3>2
  <2>3. task[p].step \in {"prepared", "renewing"} =>
          /\ task[p].session.prevSessions = <<>>
          /\ task[p].session.sendChain.chainKey \notin Stored(p)' \cup InOp(p)' \cup Out(p)'
    BY <1>4, <1>8, <1>10 DEF Sound
  <2> QED BY <1>1, <1>6, <2>1, <2>2, <2>3 DEF Sound
<1> QED BY <1>1, <1>9, <1>10 DEF SoundOrLapsed, Lapsed

\* The operation of p ends, with or without its write, and nothing is sent.
LEMMA EndsSound ==
  ASSUME Typed, NEW p \in Parties, op[p].step # "none",
         session' \in {session, [session EXCEPT ![p] = op[p].session]},
         op' = [op EXCEPT ![p] = Free], task' \in {task, [task EXCEPT ![p] = Idle]},
         UNCHANGED sent, lapses[p] \subseteq lapses'[p], SoundOrLapsed(p)
  PROVE  Brings(p) /\ SoundOrLapsed(p)'
<1>1. session'[p] = session[p] \/ session'[p] = op[p].session
  BY DEF Typed, TypedOver
<1>2. op'[p].step = "none"
  BY DEF Typed, TypedOver, Free
<1>3. task'[p] = task[p] \/ task'[p].step = "none"
  <2>1. task \in [Parties -> Tasks(KeysMade)] /\ Idle.step = "none"
    BY DEF Typed, TypedOver, Idle
  <2> QED BY <2>1
<1>4. /\ Stored(p)' \subseteq Stored(p) \cup InOp(p) /\ InOp(p)' = {}
      /\ InTask(p)' \subseteq InTask(p)
      /\ Out(p)' = Out(p) /\ SentBy(p)' = SentBy(p)
  BY <1>1, <1>2, <1>3, SameSent DEF Stored, InOp, InTask
<1>5. Brings(p)
  BY <1>4 DEF Brings, SendKeys
<1>6. ASSUME Sound(p) PROVE Sound(p)'
  <2>1. session'[p] # NoSession => Fits(session'[p], SentBy(p))
    BY <1>1, <1>6 DEF Sound
  <2>2. task'[p].step \in {"prepared", "renewing"} =>
          /\ task'[p] = task[p]
          /\ task[p].session.sendChain.chainKey \notin Stored(p)' \cup InOp(p)' \cup Out(p)'
    BY <1>3, <1>4, <1>6 DEF Sound
  <2> QED BY <1>2, <1>4, <1>6, <2>1, <2>2 DEF Sound
<1> QED BY <1>5, <1>6 DEF SoundOrLapsed, Lapsed

LEMMA DeliverSound ==
  ASSUME Typed, NEW p \in Parties, Deliver(p), SoundOrLapsed(p)
  PROVE  Brings(p) /\ SoundOrLapsed(p)'
BY EndsSound DEF Deliver

LEMMA InterruptSound ==
  ASSUME Typed, NEW p \in Parties, Interrupt(p), SoundOrLapsed(p)
  PROVE  Brings(p) /\ SoundOrLapsed(p)'
<1>1. lapses[p] \subseteq lapses'[p]
  BY DEF Interrupt, Lapse, Typed, TypedKeys
<1> QED BY <1>1, EndsSound DEF Interrupt

\* A new chain, or the chains of the stored session in another order.
LEMMA DecryptSound ==
  ASSUME RatchetAssumption, SessionsAssumption, Typed, NEW p \in Parties, NEW m \in sent,
         Decrypt(p, m), SoundOrLapsed(p)
  PROVE  Brings(p) /\ SoundOrLapsed(p)'
<1> DEFINE s == session[p]
<1>1. KeysMade \subseteq KeysMade'
  BY DecryptIs
<1>2. PICK t \in Session(KeysMade'), step \in {"opened", "decrypted"} :
        /\ op' = [op EXCEPT ![p] = [step |-> step, session |-> t, message |-> m]]
        /\ Follows(t, s, KeysMade)
  BY DecryptIs
<1>3. op'[p].step = step /\ op'[p].session = t
  BY <1>2 DEF Typed, TypedOver
<1>4. lapses[p] \subseteq lapses'[p] /\ UNCHANGED <<session, task, sent>>
  BY DEF Decrypt, Lapse, Typed, TypedKeys
<1>5. /\ Stored(p)' = Stored(p) /\ InTask(p)' = InTask(p)
      /\ Out(p)' = Out(p) /\ SentBy(p)' = SentBy(p)
  BY <1>4, SameSent DEF Stored, InTask
<1>6. s \in Session(KeysMade) \cup {NoSession} /\ SentBy(p) \in SUBSET Messages(KeysMade)
  BY SentByIs DEF Typed, TypedOver
<1>7. /\ (s # NoSession => Fits(s, SentBy(p))) => Fits(t, SentBy(p))
      /\ \A k \in KeyChains(t) : k \notin ChainKeys(KeysMade) \/ k \in Stored(p)
  <2> DEFINE K == KeysMade
             L == KeysMade'
  <2> HIDE DEF K, L
  <2>1. K \subseteq L /\ t \in Session(L) /\ Follows(t, s, K) /\ s \in Session(K) \cup {NoSession}
    BY <1>1, <1>2, <1>6 DEF K, L
  <2> HIDE DEF s
  <2>2. (s # NoSession => Fits(s, SentBy(p))) => Fits(t, SentBy(p))
    BY <1>6, <2>1, FollowsFits DEF K
  <2>3. \A k \in KeyChains(t) : k \notin ChainKeys(K) \/ (s # NoSession /\ k \in KeyChains(s))
    BY <2>1, FollowsChains
  <2> QED BY <2>2, <2>3 DEF K, Stored, s
<1> HIDE DEF s
<1>8. InOp(p)' = KeyChains(t)
  BY <1>3 DEF InOp
<1>9. Brings(p)
  BY <1>5, <1>7, <1>8 DEF Brings, SendKeys
<1>10. ASSUME Sound(p) PROVE Sound(p)'
  <2>1. Fits(t, SentBy(p))
    BY <1>7, <1>10 DEF Sound, s
  <2>2. task[p].step \in {"prepared", "renewing"} =>
          task[p].session.sendChain.chainKey \in ChainKeys(KeysMade)
    BY TaskIs, KeyChainsAre
  <2>3. task[p].step \in {"prepared", "renewing"} =>
          task[p].session.sendChain.chainKey \notin Stored(p)' \cup InOp(p)' \cup Out(p)'
    BY <1>5, <1>7, <1>8, <1>10, <2>2 DEF Sound
  <2> QED BY <1>3, <1>4, <1>5, <1>10, <2>1, <2>3 DEF Sound
<1> QED BY <1>4, <1>9, <1>10 DEF SoundOrLapsed, Lapsed

LEMMA ConsumeSound ==
  ASSUME Typed, NEW p \in Parties, Consume(p), SoundOrLapsed(p)
  PROVE  Brings(p) /\ SoundOrLapsed(p)'
<1>1. /\ op[p].step = "opened" /\ op' = [op EXCEPT ![p].step = "decrypted"]
      /\ UNCHANGED <<session, task, sent, lapses>>
  BY DEF Consume
<1>2. op'[p].step = "decrypted" /\ op'[p].session = op[p].session
  BY <1>1, OpIs DEF Typed, TypedOver
<1>3. /\ Stored(p)' = Stored(p) /\ InTask(p)' = InTask(p) /\ InOp(p)' = InOp(p)
      /\ Out(p)' = Out(p) /\ SentBy(p)' = SentBy(p)
  BY <1>1, <1>2, SameSent DEF Stored, InTask, InOp
<1>4. Brings(p)
  BY <1>3 DEF Brings, SendKeys
<1>5. Sound(p) => Sound(p)'
  BY <1>1, <1>2, <1>3 DEF Sound
<1> QED BY <1>1, <1>4, <1>5 DEF SoundOrLapsed, Lapsed

LEMMA DeleteSound ==
  ASSUME Typed, NEW p \in Parties, Delete(p), SoundOrLapsed(p)
  PROVE  Brings(p) /\ SoundOrLapsed(p)'
<1>1. session' = [session EXCEPT ![p] = NoSession] /\ UNCHANGED <<task, op, sent>>
  BY DEF Delete
<1>2. session'[p] = NoSession /\ lapses[p] \subseteq lapses'[p]
  BY <1>1 DEF Delete, Lapse, Typed, TypedOver, TypedKeys
<1>3. /\ Stored(p)' = {} /\ InTask(p)' = InTask(p) /\ InOp(p)' = InOp(p)
      /\ Out(p)' = Out(p) /\ SentBy(p)' = SentBy(p)
  BY <1>1, <1>2, SameSent DEF Stored, InTask, InOp
<1>4. Brings(p)
  BY <1>3 DEF Brings, SendKeys
<1>5. Sound(p) => Sound(p)'
  BY <1>1, <1>2, <1>3 DEF Sound
<1> QED BY <1>2, <1>4, <1>5 DEF SoundOrLapsed, Lapsed

LEMMA StepSound ==
  ASSUME RatchetAssumption, SessionsAssumption, Typed, Owned,
         \A p \in Parties : SoundOrLapsed(p), [Next]_vars
  PROVE  Owned' /\ \A p \in Parties : SoundOrLapsed(p)'
<1>1. ASSUME NEW p \in Parties, LeavesOthers(p), Brings(p), SoundOrLapsed(p)'
      PROVE  Owned' /\ \A q \in Parties : SoundOrLapsed(q)'
  <2>1. \A q \in Parties \ {p} : SoundOrLapsed(q)'
    BY <1>1, OthersSound
  <2> QED BY <1>1, <2>1, OwnedStep
<1>2. ASSUME NEW p \in Parties,
             \/ Resolve(p) \/ Persist(p) \/ Release(p) \/ Consume(p) \/ Deliver(p)
             \/ Refetch(p) \/ Reestablish(p) \/ Delete(p) \/ Interrupt(p)
      PROVE  Owned' /\ \A q \in Parties : SoundOrLapsed(q)'
  <2>1. LeavesOthers(p)
    BY <1>2, StepLeaves
  <2>2. Brings(p) /\ SoundOrLapsed(p)'
    BY <1>2, ResolveSound, PersistSound, ReleaseSound, ConsumeSound, DeliverSound, RefetchSound,
       ReestablishSound, DeleteSound, InterruptSound
  <2> QED BY <1>1, <2>1, <2>2
<1>3. ASSUME NEW p \in Parties, NEW prefetched \in BOOLEAN, Encrypt(p, prefetched)
      PROVE  Owned' /\ \A q \in Parties : SoundOrLapsed(q)'
  BY <1>1, <1>3, StepLeaves, EncryptSound
<1>4. ASSUME NEW p \in Parties, NEW m \in sent, Decrypt(p, m)
      PROVE  Owned' /\ \A q \in Parties : SoundOrLapsed(q)'
  BY <1>1, <1>4, StepLeaves, DecryptSound
<1>5. CASE UNCHANGED vars
  <2>1. \A p \in Parties :
          /\ SendKeys(p)' = SendKeys(p) /\ Stored(p)' = Stored(p) /\ InOp(p)' = InOp(p)
          /\ Out(p)' = Out(p) /\ SentBy(p)' = SentBy(p)
    BY <1>5 DEF vars, SendKeys, Stored, InTask, InOp, Out, SentBy
  <2>2. Owned'
    BY <2>1 DEF Owned
  <2>3. ASSUME NEW p \in Parties PROVE SoundOrLapsed(p)'
    <3>1. session' = session /\ task' = task /\ op' = op /\ lapses' = lapses
      BY <1>5 DEF vars
    <3>2. Sound(p) => Sound(p)'
      BY <2>1, <3>1 DEF Sound
    <3> QED BY <3>1, <3>2 DEF SoundOrLapsed, Lapsed
  <2> QED BY <2>2, <2>3
<1> QED BY <1>2, <1>3, <1>4, <1>5 DEF Next

LEMMA InitSound ==
  ASSUME Init
  PROVE  Owned /\ \A p \in Parties : SoundOrLapsed(p)
<1>1. ASSUME NEW p \in Parties
      PROVE  /\ SendKeys(p) = {} /\ SentBy(p) = {} /\ session[p] = NoSession
             /\ task[p].step = "none" /\ op[p].step = "none"
  BY DEF Init, SendKeys, Stored, InTask, InOp, Out, SentBy, Idle, Free
<1> QED BY <1>1 DEF Owned, SoundOrLapsed, Sound

LEMMA SoundImpliesOnce ==
  ASSUME Typed, Owned, \A p \in Parties : SoundOrLapsed(p)
  PROVE  KeyUsedOnce
<1> SUFFICES ASSUME NEW m \in sent, NEW n \in sent, m.chainKey = n.chainKey, m.counter = n.counter,
                    ~Lapsed(m.from, "deleted session used")
             PROVE  m = n
  BY DEF KeyUsedOnce
<1>1. m.from \in Parties /\ n.from \in Parties
  BY DEF Typed, TypedOver, Messages
<1>2. m \in SentBy(m.from) /\ n \in SentBy(n.from)
  BY DEF SentBy
<1>3. m.chainKey \in SendKeys(m.from) /\ m.chainKey \in SendKeys(n.from)
  BY <1>2 DEF SendKeys, Out
<1>4. m.from = n.from
  BY <1>1, <1>3 DEF Owned
<1> QED BY <1>1, <1>2, <1>4 DEF SoundOrLapsed, Sound

\* Unless a sender went back to a session that was deleted, no two messages are
\* encrypted with the same key of the same chain: however the prepared, stored,
\* succeeded and promoted sessions of the two parties follow each other.
THEOREM SessionKeysOnce == Spec => []KeyUsedOnce
<1> USE RatchetAssumption, SessionsAssumption
<1> DEFINE Inv == Typed /\ Owned /\ \A p \in Parties : SoundOrLapsed(p)
<1>1. Init => Inv
  BY InitTyped, InitSound
<1>2. Inv /\ [Next]_vars => Inv'
  BY StepTyped, StepSound
<1>3. Inv => KeyUsedOnce
  BY SoundImpliesOnce
<1> QED BY <1>1, <1>2, <1>3, PTL DEF Spec
-----------------------------------------------------------------------------
(* What the names of chains tell.                                          *)

\* The keys of the last agreement of a chain.
Latest(c) == IF Len(c) >= 2 THEN c[Len(c)] ELSE {}
SecretOf(x) == <<x.aliceBaseKey, x.oneTimeId>>

\* A session of p began with its secret and at least one agreement, and has turned
\* the ratchet once it got an answer; p made its ratchet key for it.
Formed(x, p) ==
  /\ Len(x.rootKey) >= 2 /\ x.rootKey[1] = SecretOf(x) /\ x.sendChain.chainKey = x.rootKey
  /\ x.initialExchange <=> Len(x.rootKey) = 2
  /\ x.initialExchange => x.aliceBaseKey[1] = p
  /\ x.sendChain.ratchetKey[1] = p /\ x.sendChain.ratchetKey # SignedPreKey(p)
  /\ \A a \in 1..Len(x.recvChains) : x.recvChains[a].chainKey[1] = SecretOf(x)
MessageFormed(m) ==
  /\ Len(m.chainKey) >= 2 /\ m.chainKey[1] = <<m.baseKey, m.oneTimeId>>
  /\ m.type = "pkmsg" <=> Len(m.chainKey) = 2
  /\ m.type = "pkmsg" => m.baseKey[1] = m.from
  /\ m.ratchetKey[1] = m.from
RecordFormed(s, p, is) == \A i \in is : Formed(Core(s, i), p)
FormedFor(p) ==
  /\ session[p] # NoSession => RecordFormed(session[p], p, Chains(session[p]))
  /\ task[p].step # "none" => RecordFormed(task[p].session, p, Chains(task[p].session))
  /\ op[p].step # "none" =>
       RecordFormed(op[p].session, p, Chains(op[p].session)) /\ MessageFormed(op[p].message)
  /\ \A m \in SentBy(p) : MessageFormed(m)

\* What two sessions have in common that differ in how far they have sent.
Alike(x, y) ==
  /\ SecretOf(x) = SecretOf(y) /\ x.aliceBaseKey = y.aliceBaseKey /\ x.oneTimeId = y.oneTimeId
  /\ x.initialExchange = y.initialExchange /\ x.rootKey = y.rootKey /\ x.recvChains = y.recvChains
  /\ x.sendChain.ratchetKey = y.sendChain.ratchetKey
  /\ x.sendChain.chainKey = y.sendChain.chainKey

LEMMA AgreementIs ==
  ASSUME NEW K, NEW root \in ChainKeys(K), NEW a, NEW b
  PROVE  LET c == CalculateRatchet(root, a, b)
         IN /\ Len(c) = Len(root) + 1 /\ Len(root) \in Nat \ {0} /\ Len(c) >= 2
            /\ c[1] = root[1] /\ Latest(c) = {a, b} /\ (Len(c) = 2 <=> Len(root) = 1)
<1> DEFINE c == Append(root, {a, b})
<1>1. root \in Seq((K \X Nat) \cup SUBSET K) /\ Len(root) \in Nat \ {0}
  BY LenProperties DEF ChainKeys
<1>2. Len(c) = Len(root) + 1 /\ c[Len(root) + 1] = {a, b} /\ \A i \in 1..Len(root) : c[i] = root[i]
  BY <1>1
<1> HIDE DEF c
<1>3. 1 \in 1..Len(root) /\ Len(root) + 1 >= 2 /\ (Len(root) + 1 = 2 <=> Len(root) = 1)
  <2> DEFINE n == Len(root)
  <2>1. n \in Nat /\ n # 0
    BY <1>1
  <2> HIDE DEF n
  <2>2. 1 \in 1..n /\ n + 1 >= 2 /\ (n + 1 = 2 => n = 1) /\ (n = 1 => n + 1 = 2)
    BY <2>1
  <2> QED BY <2>2 DEF n
<1>4. Latest(c) = {a, b}
  BY <1>2, <1>3 DEF Latest
<1> QED BY <1>1, <1>2, <1>3, <1>4 DEF CalculateRatchet, c

\* The last agreement of a chain is between keys that were made.
LEMMA LatestIs ==
  ASSUME NEW K, NEW c \in ChainKeys(K)
  PROVE  Latest(c) \subseteq K
<1>1. Len(c) \in Nat
  BY LenProperties DEF ChainKeys
<1>2. Len(c) >= 2 => Len(c) \in 2..Len(c)
  BY <1>1
<1> QED BY <1>2 DEF ChainKeys, Latest

LEMMA SecretHas ==
  ASSUME NEW base, NEW id
  PROVE  /\ Len(Secret(base, id)) = 1 /\ Secret(base, id)[1] = <<base, id>>
         /\ Latest(Secret(base, id)) = {}
<1> DEFINE x == <<base, id>>
<1> HIDE DEF x
<1>1. Len(<<x>>) = 1 /\ <<x>>[1] = x
  OBVIOUS
<1>2. Latest(<<x>>) = {}
  BY <1>1 DEF Latest
<1> QED BY <1>1, <1>2 DEF Secret, x

LEMMA CoreFields ==
  ASSUME NEW K, NEW s \in Session(K), NEW i \in Chains(s)
  PROVE  LET x == Core(s, i)
         IN /\ x.aliceBaseKey \in K /\ x.oneTimeId \in Nat /\ x.rootKey \in ChainKeys(K)
            /\ x.sendChain.ratchetKey \in K
            /\ x.recvChains \in Seq(RecvChain(K)) /\ Len(x.recvChains) \in Nat
            /\ Len(x.recvChains) <= MaxRecvChains
            /\ \A a \in 1..Len(x.recvChains) :
                 /\ x.recvChains[a] \in RecvChain(K) /\ x.recvChains[a].chainKey \in ChainKeys(K)
<1> DEFINE x == Core(s, i)
<1>1. x \in PrevSession(K)
  BY CoreIs
<1> HIDE DEF x
<1>2. x.recvChains \in Seq(RecvChain(K)) /\ Len(x.recvChains) <= MaxRecvChains
  BY <1>1 DEF PrevSession, Record, SeqUpTo
<1>3. Len(x.recvChains) \in Nat
  BY <1>2, LenProperties
<1>4. ASSUME NEW a \in 1..Len(x.recvChains)
      PROVE  x.recvChains[a] \in RecvChain(K) /\ x.recvChains[a].chainKey \in ChainKeys(K)
  <2>1. x.recvChains[a] \in RecvChain(K)
    BY <1>2, ElementOfSeq
  <2> QED BY <2>1 DEF RecvChain
<1>5. /\ x.aliceBaseKey \in K /\ x.oneTimeId \in Nat /\ x.rootKey \in ChainKeys(K)
      /\ x.sendChain.ratchetKey \in K
  BY <1>1 DEF PrevSession, Record, SendChain
<1> QED BY <1>2, <1>3, <1>4, <1>5 DEF x

LEMMA FrontIs ==
  ASSUME NEW K, NEW s \in Session(K)
  PROVE  LET x == Core(s, 0)
         IN /\ x.aliceBaseKey = s.aliceBaseKey /\ x.oneTimeId = s.oneTimeId
            /\ x.initialExchange = s.initialExchange /\ x.rootKey = s.rootKey
            /\ x.recvChains = s.recvChains /\ x.sendChain = s.sendChain
<1>1. Core(s, 0) = Snapshot(s)
  BY CoreIs
<1> QED BY <1>1 DEF Snapshot, Session, Record

\* A record without previous sessions.
LEMMA AloneIs ==
  ASSUME NEW K, NEW s \in Session(K), s.prevSessions = <<>>
  PROVE  Chains(s) = {0}
<1>1. Len(s.prevSessions) = 0 /\ 0..0 = {0}
  OBVIOUS
<1> QED BY <1>1 DEF Chains

LEMMA OutgoingCore ==
  ASSUME RatchetAssumption, NEW K, NEW p \in Parties, NEW q \in Parties, SignedPreKey(q) \in K,
         NEW base \in K, NEW ratchet \in K, NEW id \in Nat
  PROVE  LET s == Outgoing(q, id, base, ratchet)
         IN /\ Chains(s) = {0} /\ Core(s, 0) = s
            /\ s.aliceBaseKey = base /\ s.oneTimeId = id /\ s.initialExchange
            /\ s.rootKey = CalculateRatchet(Secret(base, id), ratchet, SignedPreKey(q))
            /\ s.sendChain.ratchetKey = ratchet /\ s.sendChain.chainKey = s.rootKey
            /\ Len(s.recvChains) = 1 /\ s.recvChains[1].chainKey = Secret(base, id)
<1> DEFINE s == Outgoing(q, id, base, ratchet)
<1>1. s \in Session(K) /\ s.prevSessions = <<>>
  BY OutgoingIs
<1>2. Chains(s) = {0}
  <2> HIDE DEF s
  <2> QED BY <1>1, AloneIs
<1>3. Core(s, 0) = s
  BY <1>1 DEF Core, Snapshot, Outgoing
<1>4. /\ s.aliceBaseKey = base /\ s.oneTimeId = id /\ s.initialExchange
      /\ s.rootKey = CalculateRatchet(Secret(base, id), ratchet, SignedPreKey(q))
      /\ s.sendChain.ratchetKey = ratchet /\ s.sendChain.chainKey = s.rootKey
      /\ s.recvChains = <<FreshChain(SignedPreKey(q), Secret(base, id))>>
  BY DEF Outgoing
<1>5. Len(s.recvChains) = 1 /\ s.recvChains[1] = FreshChain(SignedPreKey(q), Secret(base, id))
  BY <1>4
<1>6. FreshChain(SignedPreKey(q), Secret(base, id)).chainKey = Secret(base, id)
  BY DEF FreshChain
<1> HIDE DEF s
<1> QED BY <1>2, <1>3, <1>4, <1>5, <1>6 DEF s

LEMMA EncryptedCores ==
  ASSUME NEW K, NEW s \in Session(K)
  PROVE  LET t == Encrypted(s)
         IN /\ Chains(t) = Chains(s)
            /\ \A i \in Chains(s) : Alike(Core(t, i), Core(s, i))
<1> DEFINE t == Encrypted(s)
<1>1. /\ t \in Session(K) /\ Chains(t) = Chains(s) /\ t.prevSessions = s.prevSessions
      /\ t.sendChain.chainKey = s.sendChain.chainKey
  BY EncryptedIs, EncryptedChains
<1>2. /\ t.aliceBaseKey = s.aliceBaseKey /\ t.oneTimeId = s.oneTimeId
      /\ t.initialExchange = s.initialExchange /\ t.rootKey = s.rootKey
      /\ t.recvChains = s.recvChains /\ t.sendChain.ratchetKey = s.sendChain.ratchetKey
  BY DEF Encrypted, Session, Record, SendChain
<1> HIDE DEF t
<1>3. Alike(Core(t, 0), Core(s, 0))
  BY <1>1, <1>2, FrontIs DEF Alike, SecretOf
<1>4. ASSUME NEW i \in Chains(s), i # 0 PROVE Core(t, i) = Core(s, i)
  BY <1>1, <1>4 DEF Core
<1> QED BY <1>1, <1>3, <1>4 DEF Alike, t
\* A key of a chain that is used up, or was never there, is not taken from it again.
Used(c, n) == n < c.nextMsgIndex /\ n \notin c.unused

LEMMA SelectedUses ==
  ASSUME RatchetAssumption, NEW K, NEW c \in RecvChain(K), NEW n \in Nat
  PROVE  /\ Used(Selected(c, n), n)
         /\ \A k \in Nat : Used(c, k) => Used(Selected(c, n), k)
         /\ Used(c, n) => ~Selectable(c, n)
<1>1. /\ c \in [ratchetKey : K, chainKey : ChainKeys(K), nextMsgIndex : Nat, unused : SUBSET Nat]
      /\ c.unused \subseteq 0..(c.nextMsgIndex - 1) /\ c.nextMsgIndex \in Nat
  BY DEF RecvChain, Skips
<1>2. Used(c, n) => ~Selectable(c, n)
  BY DEF Used, Selectable
<1>3. CASE n < c.nextMsgIndex
  <2>1. /\ Selected(c, n).unused = c.unused \ {n}
        /\ Selected(c, n).nextMsgIndex = c.nextMsgIndex
    BY <1>1, <1>3 DEF Selected
  <2> QED BY <1>2, <1>3, <2>1 DEF Used
<1>4. CASE ~(n < c.nextMsgIndex)
  <2> DEFINE all == Skipped(c, n)
             next == n + 1
  <2>1. Selected(c, n).unused = Kept(all) /\ Selected(c, n).nextMsgIndex = next
    <3>1. Selected(c, n) = [c EXCEPT !.nextMsgIndex = next, !.unused = Kept(all)]
      BY <1>4 DEF Selected
    <3> HIDE DEF next, all
    <3> QED BY <1>1, <3>1
  <2>2. Kept(all) \subseteq all
    BY DEF Kept
  <2>3. n \notin all
    BY <1>1, <1>4 DEF Skipped
  <2>4. \A k \in Nat : k < c.nextMsgIndex /\ k \notin c.unused => k \notin all
    BY <1>1, <1>4 DEF Skipped
  <2> HIDE DEF all
  <2>5. \A k \in Nat : k < c.nextMsgIndex => k < next
    BY <1>1, <1>4
  <2>6. n < next
    OBVIOUS
  <2> HIDE DEF next
  <2> QED BY <1>2, <2>1, <2>2, <2>3, <2>4, <2>5, <2>6 DEF Used
<1> QED BY <1>3, <1>4

\* A message of a chain that session x knows, which is x with the chain one further.
Advances(y, x, m) ==
  /\ SecretOf(y) = SecretOf(x) /\ y.aliceBaseKey = x.aliceBaseKey /\ y.oneTimeId = x.oneTimeId
  /\ y.initialExchange = x.initialExchange /\ y.rootKey = x.rootKey /\ y.sendChain = x.sendChain
  /\ \E k \in 1..Len(x.recvChains) :
       /\ x.recvChains[k].chainKey = m.chainKey /\ Selectable(x.recvChains[k], m.counter)
       /\ y.recvChains = [x.recvChains EXCEPT ![k] = Selected(x.recvChains[k], m.counter)]
\* One of a new chain: the ratchet turns, with a new key.
Turned(y, x, m, key) ==
  /\ SecretOf(y) = SecretOf(x) /\ y.aliceBaseKey = x.aliceBaseKey /\ y.oneTimeId = x.oneTimeId
  /\ m.chainKey = CalculateRatchet(x.rootKey, x.sendChain.ratchetKey, m.ratchetKey)
  /\ y.rootKey = CalculateRatchet(m.chainKey, key, m.ratchetKey) /\ ~y.initialExchange
  /\ y.sendChain.ratchetKey = key /\ y.sendChain.chainKey = y.rootKey
  /\ \E n, d \in Nat :
       /\ Len(y.recvChains) = n + 1 /\ n + d <= Len(x.recvChains)
       /\ \A a \in 1..n : y.recvChains[a] = x.recvChains[a + d]
       /\ y.recvChains[n + 1].chainKey = m.chainKey /\ Used(y.recvChains[n + 1], m.counter)

LEMMA LastOfHas ==
  ASSUME NEW S, NEW seq \in Seq(S), NEW n \in Nat
  PROVE  \E d \in Nat : /\ Len(LastOf(seq, n)) \in Nat /\ Len(LastOf(seq, n)) + d <= Len(seq)
                        /\ \A a \in 1..Len(LastOf(seq, n)) : LastOf(seq, n)[a] = seq[a + d]
<1>1. Len(seq) \in Nat
  BY LenProperties
<1>2. CASE Len(seq) <= n
  <2>1. LastOf(seq, n) = seq /\ Len(seq) + 0 <= Len(seq) /\ \A a \in 1..Len(seq) : a + 0 = a
    BY <1>1, <1>2 DEF LastOf
  <2> QED BY <1>1, <2>1
<1>3. CASE ~(Len(seq) <= n)
  <2> DEFINE d == Len(seq) - n
             l == SubSeq(seq, d + 1, Len(seq))
  <2>1. d \in Nat /\ d + 1 \in Nat \ {0} /\ (IF d + 1 <= Len(seq) THEN Len(seq) - (d + 1) + 1 ELSE 0) = n
        /\ Len(seq) - (d + 1) + 1 = n /\ n + d <= Len(seq)
    BY <1>1, <1>3
  <2>2. LastOf(seq, n) = l
    BY <1>1, <1>3 DEF LastOf
  <2> HIDE DEF d
  <2>3. Len(l) = n /\ \A a \in 1..n : l[a] = seq[(d + 1) + a - 1]
    BY <1>1, <2>1, PartIs
  <2> HIDE DEF l
  <2>4. \A a \in 1..n : (d + 1) + a - 1 = a + d
    BY <2>1
  <2> QED BY <2>1, <2>2, <2>3, <2>4
<1> QED BY <1>2, <1>3

LEMMA DecryptedAdvances ==
  ASSUME RatchetAssumption, NEW K, NEW u \in Session(K), NEW m \in Messages(K), NEW key,
         Decrypts(u, m), KnownChains(u, m) # {}
  PROVE  LET t == DecryptedFrom(u, m, key)
         IN /\ Chains(t) = Chains(u) /\ \A i \in Chains(u) \ {0} : Core(t, i) = Core(u, i)
            /\ Advances(Core(t, 0), Core(u, 0), m)
<1> DEFINE k == FirstIn(KnownChains(u, m))
           c == u.recvChains[k]
           t == DecryptedFrom(u, m, key)
<1>1. t \in Session(K) /\ t.prevSessions = u.prevSessions /\ t.sendChain = u.sendChain
  BY DecryptedKnown
<1>2. k \in 1..Len(u.recvChains) /\ c \in RecvChain(K) /\ ChainFor(u, m) = c
  BY KnownChainIs DEF ChainFor
<1>3. c.chainKey = m.chainKey /\ Selectable(c, m.counter)
  BY <1>2 DEF Decrypts
<1>4. t = [u EXCEPT !.recvChains[k] = Selected(c, m.counter)]
  BY <1>2 DEF DecryptedFrom
<1> DEFINE d == Selected(c, m.counter)
           recv == [u.recvChains EXCEPT ![k] = d]
<1> HIDE DEF k, c, t, d
<1>5. t = [u EXCEPT !.recvChains = recv]
  BY <1>4 DEF d
<1> HIDE DEF recv
<1>6. /\ t.recvChains = recv /\ t.aliceBaseKey = u.aliceBaseKey /\ t.oneTimeId = u.oneTimeId
      /\ t.initialExchange = u.initialExchange /\ t.rootKey = u.rootKey
  BY <1>5 DEF Session, Record
<1>7. Chains(t) = Chains(u) /\ \A i \in Chains(u) \ {0} : Core(t, i) = Core(u, i)
  BY <1>1 DEF Chains, Core
<1>8. /\ Core(u, 0).aliceBaseKey = u.aliceBaseKey /\ Core(u, 0).oneTimeId = u.oneTimeId
      /\ Core(u, 0).initialExchange = u.initialExchange
      /\ Core(u, 0).rootKey = u.rootKey /\ Core(u, 0).recvChains = u.recvChains
      /\ Core(u, 0).sendChain = u.sendChain
  BY FrontIs
<1>9. /\ Core(t, 0).aliceBaseKey = t.aliceBaseKey /\ Core(t, 0).oneTimeId = t.oneTimeId
      /\ Core(t, 0).initialExchange = t.initialExchange
      /\ Core(t, 0).rootKey = t.rootKey /\ Core(t, 0).recvChains = t.recvChains
      /\ Core(t, 0).sendChain = t.sendChain
  BY <1>1, FrontIs
<1>10. \E j \in 1..Len(u.recvChains) :
         /\ u.recvChains[j].chainKey = m.chainKey /\ Selectable(u.recvChains[j], m.counter)
         /\ recv = [u.recvChains EXCEPT ![j] = Selected(u.recvChains[j], m.counter)]
  BY <1>2, <1>3 DEF c, d, recv
<1>11. Advances(Core(t, 0), Core(u, 0), m)
  BY <1>1, <1>6, <1>8, <1>9, <1>10 DEF Advances, SecretOf
<1> QED BY <1>7, <1>11 DEF t

LEMMA DecryptedTurns ==
  ASSUME RatchetAssumption, NEW K, NEW u \in Session(K), NEW m \in Messages(K),
         NEW L, K \subseteq L, NEW key \in L, Decrypts(u, m), KnownChains(u, m) = {}
  PROVE  LET t == DecryptedFrom(u, m, key)
         IN /\ Chains(t) = Chains(u) /\ \A i \in Chains(u) \ {0} : Core(t, i) = Core(u, i)
            /\ Turned(Core(t, 0), Core(u, 0), m, key)
<1> DEFINE t == DecryptedFrom(u, m, key)
           fresh == FreshChain(m.ratchetKey, m.chainKey)
           c == Selected(fresh, m.counter)
           last == LastOf(u.recvChains, MaxRecvChains - 1)
           root == CalculateRatchet(m.chainKey, key, m.ratchetKey)
           send == [ratchetKey |-> key, chainKey |-> root, nextMsgIndex |-> 0]
<1>1. t \in Session(L) /\ t.prevSessions = u.prevSessions
  BY DecryptedTurned
<1>2. /\ m.chainKey = CalculateRatchet(u.rootKey, u.sendChain.ratchetKey, m.ratchetKey)
      /\ ChainFor(u, m) = fresh
  BY DEF Decrypts, ChainFor, FreshChain
<1>3. fresh \in RecvChain(K) /\ fresh.chainKey = m.chainKey /\ m.counter \in Nat
  BY FreshChainIs DEF Messages
<1> HIDE DEF fresh
<1>4. c.chainKey = m.chainKey /\ Used(c, m.counter) /\ c \in RecvChain(K)
  BY <1>3, SelectedIs, SelectedUses
<1>5. t = [u EXCEPT !.rootKey = root, !.recvChains = Append(last, c), !.sendChain = send,
                    !.initialExchange = FALSE]
  BY <1>2, <1>4 DEF DecryptedFrom
<1>6. PICK d \in Nat : /\ Len(last) \in Nat /\ Len(last) + d <= Len(u.recvChains)
                       /\ \A a \in 1..Len(last) : last[a] = u.recvChains[a + d]
  <2>1. u.recvChains \in Seq(RecvChain(K)) /\ MaxRecvChains - 1 \in Nat
    BY RecordIs DEF RatchetAssumption
  <2> QED BY <2>1, LastOfHas
<1>7. last \in Seq(RecvChain(K))
  <2>1. u.recvChains \in Seq(RecvChain(K)) /\ MaxRecvChains - 1 \in Nat
    BY RecordIs DEF RatchetAssumption
  <2> QED BY <2>1, LastOfIs
<1>8. send.ratchetKey = key /\ send.chainKey = root
  OBVIOUS
<1> HIDE DEF t, c, last, root, send
<1> DEFINE recv == Append(last, c)
<1>9. /\ Len(recv) = Len(last) + 1 /\ recv[Len(last) + 1] = c
      /\ \A a \in 1..Len(last) : recv[a] = last[a]
  BY <1>4, <1>6, <1>7
<1> HIDE DEF recv
<1>10. /\ t.recvChains = recv /\ t.aliceBaseKey = u.aliceBaseKey /\ t.oneTimeId = u.oneTimeId
       /\ ~t.initialExchange /\ t.rootKey = root /\ t.sendChain = send
  BY <1>5 DEF Session, Record, recv
<1>11. Chains(t) = Chains(u) /\ \A i \in Chains(u) \ {0} : Core(t, i) = Core(u, i)
  BY <1>1 DEF Chains, Core
<1>12. \E n, e \in Nat :
         /\ Len(recv) = n + 1 /\ n + e <= Len(u.recvChains)
         /\ \A a \in 1..n : recv[a] = u.recvChains[a + e]
         /\ recv[n + 1].chainKey = m.chainKey /\ Used(recv[n + 1], m.counter)
  BY <1>4, <1>6, <1>9
<1>13. /\ Core(u, 0).aliceBaseKey = u.aliceBaseKey /\ Core(u, 0).oneTimeId = u.oneTimeId
       /\ Core(u, 0).rootKey = u.rootKey /\ Core(u, 0).recvChains = u.recvChains
       /\ Core(u, 0).sendChain = u.sendChain
  BY FrontIs
<1>14. /\ Core(t, 0).aliceBaseKey = t.aliceBaseKey /\ Core(t, 0).oneTimeId = t.oneTimeId
       /\ Core(t, 0).initialExchange = t.initialExchange
       /\ Core(t, 0).rootKey = t.rootKey /\ Core(t, 0).recvChains = t.recvChains
       /\ Core(t, 0).sendChain = t.sendChain
  BY <1>1, FrontIs
<1>15. Turned(Core(t, 0), Core(u, 0), m, key)
  <2> DEFINE x == Core(u, 0)
             y == Core(t, 0)
  <2>1. /\ y.aliceBaseKey = x.aliceBaseKey /\ y.oneTimeId = x.oneTimeId /\ ~y.initialExchange
        /\ y.rootKey = root /\ y.sendChain = send /\ y.recvChains = recv
        /\ x.rootKey = u.rootKey /\ x.sendChain = u.sendChain /\ x.recvChains = u.recvChains
    BY <1>10, <1>13, <1>14
  <2> HIDE DEF x, y
  <2>2. /\ m.chainKey = CalculateRatchet(x.rootKey, x.sendChain.ratchetKey, m.ratchetKey)
        /\ SecretOf(y) = SecretOf(x)
    BY <1>2, <1>8, <2>1 DEF SecretOf
  <2>3. /\ y.rootKey = CalculateRatchet(m.chainKey, key, m.ratchetKey)
        /\ y.sendChain.ratchetKey = key /\ y.sendChain.chainKey = y.rootKey
    BY <1>2, <1>8, <2>1 DEF root
  <2>4. \E n, e \in Nat :
          /\ Len(y.recvChains) = n + 1 /\ n + e <= Len(x.recvChains)
          /\ \A a \in 1..n : y.recvChains[a] = x.recvChains[a + e]
          /\ y.recvChains[n + 1].chainKey = m.chainKey /\ Used(y.recvChains[n + 1], m.counter)
    <3>1. PICK n \in Nat, e \in Nat :
            /\ Len(recv) = n + 1 /\ n + e <= Len(u.recvChains)
            /\ \A a \in 1..n : recv[a] = u.recvChains[a + e]
            /\ recv[n + 1].chainKey = m.chainKey /\ Used(recv[n + 1], m.counter)
      BY <1>12
    <3>2. y.recvChains = recv /\ x.recvChains = u.recvChains
      BY <2>1
    <3> QED BY <3>1, <3>2
  <2>5. Turned(y, x, m, key)
    BY <2>1, <2>2, <2>3, <2>4, Zenon DEF Turned
  <2> QED BY <2>5 DEF x, y
<1> QED BY <1>11, <1>15 DEF t

-----------------------------------------------------------------------------
(* Sessions of a record that have nothing in common, and what they heard.  *)

Base(s, i) == Core(s, i).aliceBaseKey
RatchetOf(s, i) == Core(s, i).sendChain.ratchetKey
Receiving(s, i) == Core(s, i).recvChains
Bases(s) == {Base(s, i) : i \in Chains(s)}

\* The sessions have neither base key nor ratchet key in common, and no receiving
\* chain was agreed with a ratchet key that is still in use.
Apart(s, is) ==
  /\ \A i, j \in is :
       /\ Base(s, i) = Base(s, j) => i = j
       /\ RatchetOf(s, i) = RatchetOf(s, j) => i = j
       /\ \A a \in 1..Len(Receiving(s, i)) :
            RatchetOf(s, j) \notin Latest(Receiving(s, i)[a].chainKey)
  /\ \A i \in is : \A a, b \in 1..Len(Receiving(s, i)) :
       Receiving(s, i)[a].chainKey = Receiving(s, i)[b].chainKey => a = b

\* None of the sessions has the key of m, or can get it again.
Deaf(s, m, is) ==
  \A i \in is :
    /\ RatchetOf(s, i) \notin Latest(m.chainKey)
    /\ \A a \in 1..Len(Receiving(s, i)) :
         Receiving(s, i)[a].chainKey = m.chainKey => Used(Receiving(s, i)[a], m.counter)

\* A ratchet key the sessions know nothing of.
Unheard(key, s, is) ==
  \A i \in is :
    /\ RatchetOf(s, i) # key
    /\ \A a \in 1..Len(Receiving(s, i)) : key \notin Latest(Receiving(s, i)[a].chainKey)

\* The sessions ks of t are sessions of s, which may have sent more since.
Within(t, s, ks) ==
  \E f \in [ks -> Chains(s)] :
    /\ \A i, j \in ks : f[i] = f[j] => i = j
    /\ \A i \in ks : Alike(Core(t, i), Core(s, f[i]))

LEMMA ArrangesWithin ==
  ASSUME NEW t, NEW s, NEW ks, Arranges(t, s, ks)
  PROVE  Within(t, s, ks)
BY DEF Arranges, Within, Alike

LEMMA EncryptedWithin ==
  ASSUME NEW K, NEW s \in Session(K)
  PROVE  /\ Within(Encrypted(s), s, Chains(Encrypted(s)))
         /\ Bases(s) \subseteq Bases(Encrypted(s))
<1> DEFINE t == Encrypted(s)
           f == [i \in Chains(s) |-> i]
<1>1. Chains(t) = Chains(s) /\ \A i \in Chains(s) : Alike(Core(t, i), Core(s, i))
  BY EncryptedCores
<1>2. f \in [Chains(s) -> Chains(s)] /\ \A i \in Chains(s) : f[i] = i
  OBVIOUS
<1> HIDE DEF t, f
<1>3. Within(t, s, Chains(t))
  BY <1>1, <1>2 DEF Within
<1>4. Bases(s) \subseteq Bases(t)
  BY <1>1 DEF Bases, Base, Alike
<1> QED BY <1>3, <1>4 DEF t

LEMMA WithinIs ==
  ASSUME NEW t, NEW s, NEW ks, Within(t, s, ks)
  PROVE  /\ Apart(s, Chains(s)) => Apart(t, ks)
         /\ \A m : Deaf(s, m, Chains(s)) => Deaf(t, m, ks)
         /\ \A key : Unheard(key, s, Chains(s)) => Unheard(key, t, ks)
         /\ \A p : RecordFormed(s, p, Chains(s)) => RecordFormed(t, p, ks)
         /\ \A i \in ks : \E j \in Chains(s) :
              Base(t, i) = Base(s, j) /\ Core(t, i).oneTimeId = Core(s, j).oneTimeId
<1>1. PICK f \in [ks -> Chains(s)] :
        /\ \A i, j \in ks : f[i] = f[j] => i = j
        /\ \A i \in ks : Alike(Core(t, i), Core(s, f[i]))
  BY DEF Within
<1>2. \A i \in ks :
        /\ f[i] \in Chains(s) /\ Base(t, i) = Base(s, f[i])
        /\ Core(t, i).oneTimeId = Core(s, f[i]).oneTimeId
        /\ RatchetOf(t, i) = RatchetOf(s, f[i]) /\ Receiving(t, i) = Receiving(s, f[i])
  BY <1>1 DEF Alike, Base, RatchetOf, Receiving
<1>3. Apart(s, Chains(s)) => Apart(t, ks)
  BY <1>1, <1>2 DEF Apart
<1>4. ASSUME NEW m, Deaf(s, m, Chains(s)) PROVE Deaf(t, m, ks)
  BY <1>2, <1>4 DEF Deaf
<1>5. ASSUME NEW key, Unheard(key, s, Chains(s)) PROVE Unheard(key, t, ks)
  BY <1>2, <1>5 DEF Unheard
<1>6. ASSUME NEW p, RecordFormed(s, p, Chains(s)) PROVE RecordFormed(t, p, ks)
  <2>1. ASSUME NEW i \in ks PROVE Formed(Core(t, i), p)
    <3> DEFINE x == Core(t, i)
               y == Core(s, f[i])
    <3>1. Alike(x, y) /\ Formed(y, p)
      BY <1>1, <1>2, <1>6 DEF RecordFormed
    <3> HIDE DEF x, y
    <3>2. Formed(x, p)
      BY <3>1 DEF Alike, Formed
    <3> QED BY <3>2 DEF x
  <2> QED BY <2>1 DEF RecordFormed
<1> QED BY <1>2, <1>3, <1>4, <1>5, <1>6

LEMMA KeepsBases ==
  ASSUME NEW t, NEW s, Keeps(t, s)
  PROVE  Bases(s) \subseteq Bases(t)
BY DEF Keeps, Bases, Base

\* Different receiving chains have different names.
LEMMA OneChain ==
  ASSUME NEW s, NEW is, NEW p, Apart(s, is), RecordFormed(s, p, is),
         NEW i \in is, NEW j \in is,
         NEW a \in 1..Len(Receiving(s, i)), NEW b \in 1..Len(Receiving(s, j)),
         Receiving(s, i)[a].chainKey = Receiving(s, j)[b].chainKey
  PROVE  i = j /\ a = b
<1>1. /\ Receiving(s, i)[a].chainKey[1] = SecretOf(Core(s, i))
      /\ Receiving(s, j)[b].chainKey[1] = SecretOf(Core(s, j))
  BY DEF RecordFormed, Formed, Receiving
<1>2. SecretOf(Core(s, i)) = SecretOf(Core(s, j))
  BY <1>1
<1>3. Base(s, i) = Base(s, j)
  BY <1>2 DEF SecretOf, Base
<1>4. i = j
  BY <1>3 DEF Apart
<1> QED BY <1>4 DEF Apart

-----------------------------------------------------------------------------
(* A message of a chain that is known.                                     *)

\* What changes is that the key of the message is used.
LEMMA AdvancesIs ==
  ASSUME RatchetAssumption, NEW K, NEW u \in Session(K), NEW m \in Messages(K), NEW t,
         Chains(t) = Chains(u), \A i \in Chains(u) \ {0} : Core(t, i) = Core(u, i),
         Advances(Core(t, 0), Core(u, 0), m)
  PROVE  /\ \A i \in Chains(u) :
              /\ Base(t, i) = Base(u, i) /\ Core(t, i).oneTimeId = Core(u, i).oneTimeId
              /\ SecretOf(Core(t, i)) = SecretOf(Core(u, i))
              /\ Core(t, i).initialExchange = Core(u, i).initialExchange
              /\ Core(t, i).rootKey = Core(u, i).rootKey
              /\ Core(t, i).sendChain = Core(u, i).sendChain
              /\ RatchetOf(t, i) = RatchetOf(u, i)
              /\ Len(Receiving(t, i)) = Len(Receiving(u, i))
              /\ \A a \in 1..Len(Receiving(u, i)) :
                   /\ Receiving(t, i)[a].chainKey = Receiving(u, i)[a].chainKey
                   /\ \A n \in Nat : Used(Receiving(u, i)[a], n) => Used(Receiving(t, i)[a], n)
         /\ \E k \in 1..Len(Receiving(u, 0)) :
              /\ Receiving(u, 0)[k].chainKey = m.chainKey
              /\ ~Used(Receiving(u, 0)[k], m.counter) /\ Used(Receiving(t, 0)[k], m.counter)
<1> DEFINE x == Core(u, 0)
           y == Core(t, 0)
<1>0. 0 \in Chains(u) /\ m.counter \in Nat
  BY CoreIs DEF Messages
<1>1. /\ x.recvChains \in Seq(RecvChain(K)) /\ Len(x.recvChains) \in Nat
      /\ \A a \in 1..Len(x.recvChains) : x.recvChains[a] \in RecvChain(K)
  BY <1>0, CoreFields
<1> HIDE DEF x, y
<1>2. PICK k \in 1..Len(x.recvChains) :
        /\ x.recvChains[k].chainKey = m.chainKey /\ Selectable(x.recvChains[k], m.counter)
        /\ y.recvChains = [x.recvChains EXCEPT ![k] = Selected(x.recvChains[k], m.counter)]
  BY DEF Advances, x, y
<1> DEFINE c == x.recvChains[k]
           d == Selected(c, m.counter)
<1>3. c \in RecvChain(K)
  BY <1>1, <1>2
<1>4. d.chainKey = c.chainKey
  <2> HIDE DEF c
  <2> QED BY <1>0, <1>3, SelectedIs
<1>5. Used(d, m.counter) /\ ~Used(c, m.counter) /\ \A n \in Nat : Used(c, n) => Used(d, n)
  <2>1. Selectable(c, m.counter)
    BY <1>2
  <2> HIDE DEF c
  <2> QED BY <1>0, <1>3, <2>1, SelectedUses
<1> HIDE DEF d
<1>6. Len(y.recvChains) = Len(x.recvChains) /\ y.recvChains[k] = d
      /\ \A a \in 1..Len(x.recvChains) : a # k => y.recvChains[a] = x.recvChains[a]
  BY <1>1, <1>2 DEF d
<1>7. \A a \in 1..Len(x.recvChains) :
        /\ y.recvChains[a].chainKey = x.recvChains[a].chainKey
        /\ \A n \in Nat : Used(x.recvChains[a], n) => Used(y.recvChains[a], n)
  BY <1>4, <1>5, <1>6
<1>8. /\ y.aliceBaseKey = x.aliceBaseKey /\ y.oneTimeId = x.oneTimeId /\ SecretOf(y) = SecretOf(x)
      /\ y.initialExchange = x.initialExchange /\ y.rootKey = x.rootKey /\ y.sendChain = x.sendChain
  BY DEF Advances, x, y
<1>9. \E l \in 1..Len(Receiving(u, 0)) :
        /\ Receiving(u, 0)[l].chainKey = m.chainKey
        /\ ~Used(Receiving(u, 0)[l], m.counter) /\ Used(Receiving(t, 0)[l], m.counter)
  BY <1>2, <1>5, <1>6 DEF Receiving, x, y
<1>10. ASSUME NEW i \in Chains(u), i # 0
       PROVE  Core(t, i) = Core(u, i)
  BY <1>10
<1>11. /\ Base(t, 0) = Base(u, 0) /\ Core(t, 0).oneTimeId = Core(u, 0).oneTimeId
       /\ SecretOf(Core(t, 0)) = SecretOf(Core(u, 0))
       /\ Core(t, 0).initialExchange = Core(u, 0).initialExchange
       /\ Core(t, 0).rootKey = Core(u, 0).rootKey
       /\ Core(t, 0).sendChain = Core(u, 0).sendChain
       /\ RatchetOf(t, 0) = RatchetOf(u, 0)
       /\ Len(Receiving(t, 0)) = Len(Receiving(u, 0))
       /\ \A a \in 1..Len(Receiving(u, 0)) :
            /\ Receiving(t, 0)[a].chainKey = Receiving(u, 0)[a].chainKey
            /\ \A n \in Nat : Used(Receiving(u, 0)[a], n) => Used(Receiving(t, 0)[a], n)
  BY <1>6, <1>7, <1>8 DEF Base, RatchetOf, Receiving, x, y
<1>12. \A i \in Chains(u) \ {0} :
         /\ Core(t, i) = Core(u, i) /\ Base(t, i) = Base(u, i) /\ RatchetOf(t, i) = RatchetOf(u, i)
         /\ Receiving(t, i) = Receiving(u, i)
  BY <1>10 DEF Base, RatchetOf, Receiving
<1> QED BY <1>9, <1>11, <1>12

LEMMA KnownFormed ==
  ASSUME RatchetAssumption, NEW K, NEW u \in Session(K), NEW m \in Messages(K), NEW t, NEW p,
         Chains(t) = Chains(u), \A i \in Chains(u) \ {0} : Core(t, i) = Core(u, i),
         Advances(Core(t, 0), Core(u, 0), m), RecordFormed(u, p, Chains(u))
  PROVE  /\ RecordFormed(t, p, Chains(t)) /\ SecretOf(Core(t, 0)) = m.chainKey[1]
         /\ \A i \in Chains(u) :
              Base(t, i) = Base(u, i) /\ Core(t, i).oneTimeId = Core(u, i).oneTimeId
<1>1. ASSUME NEW i \in Chains(u) PROVE Formed(Core(t, i), p)
  <2> DEFINE x == Core(u, i)
             y == Core(t, i)
  <2>1. Formed(x, p)
    BY DEF RecordFormed
  <2>2. /\ SecretOf(y) = SecretOf(x) /\ y.aliceBaseKey = x.aliceBaseKey
        /\ y.initialExchange = x.initialExchange /\ y.rootKey = x.rootKey
        /\ y.sendChain = x.sendChain /\ Len(y.recvChains) = Len(x.recvChains)
        /\ \A a \in 1..Len(x.recvChains) : y.recvChains[a].chainKey = x.recvChains[a].chainKey
    BY AdvancesIs DEF Base, Receiving
  <2> HIDE DEF x, y
  <2>3. Formed(y, p)
    BY <2>1, <2>2 DEF Formed
  <2> QED BY <2>3 DEF y
<1>2. SecretOf(Core(t, 0)) = m.chainKey[1]
  <2>1. SecretOf(Core(t, 0)) = SecretOf(Core(u, 0)) /\ 0 \in Chains(u)
    BY CoreIs, AdvancesIs
  <2>2. PICK k \in 1..Len(Receiving(u, 0)) : Receiving(u, 0)[k].chainKey = m.chainKey
    BY AdvancesIs
  <2>3. Receiving(u, 0)[k].chainKey[1] = SecretOf(Core(u, 0))
    BY <2>1 DEF RecordFormed, Formed, Receiving
  <2> QED BY <2>1, <2>2, <2>3
<1>3. \A i \in Chains(u) :
        Base(t, i) = Base(u, i) /\ Core(t, i).oneTimeId = Core(u, i).oneTimeId
  BY AdvancesIs
<1> QED BY <1>1, <1>2, <1>3 DEF RecordFormed

LEMMA KnownKeeps ==
  ASSUME RatchetAssumption, NEW K, NEW u \in Session(K), NEW m \in Messages(K), NEW t, NEW p,
         Chains(t) = Chains(u), \A i \in Chains(u) \ {0} : Core(t, i) = Core(u, i),
         Advances(Core(t, 0), Core(u, 0), m),
         Apart(u, Chains(u)), RecordFormed(u, p, Chains(u))
  PROVE  /\ Apart(t, Chains(t))
         /\ Deaf(t, m, Chains(t)) /\ ~Deaf(u, m, Chains(u))
         /\ \A n \in Messages(K) : Deaf(u, n, Chains(u)) => Deaf(t, n, Chains(t))
         /\ \A key : Unheard(key, u, Chains(u)) =>
              Unheard(key, t, Chains(t)) /\ key \notin Latest(m.chainKey)
<1>1. \A i \in Chains(u) :
        /\ Base(t, i) = Base(u, i) /\ RatchetOf(t, i) = RatchetOf(u, i)
        /\ Len(Receiving(t, i)) = Len(Receiving(u, i))
        /\ \A a \in 1..Len(Receiving(u, i)) :
             /\ Receiving(t, i)[a].chainKey = Receiving(u, i)[a].chainKey
             /\ \A n \in Nat : Used(Receiving(u, i)[a], n) => Used(Receiving(t, i)[a], n)
  BY AdvancesIs
<1>2. PICK k \in 1..Len(Receiving(u, 0)) :
        /\ Receiving(u, 0)[k].chainKey = m.chainKey
        /\ ~Used(Receiving(u, 0)[k], m.counter) /\ Used(Receiving(t, 0)[k], m.counter)
  BY AdvancesIs
<1>3. 0 \in Chains(u) /\ Chains(t) = Chains(u)
  BY CoreIs
<1>4. Apart(t, Chains(t))
  <2>1. \A i, j \in Chains(u) :
          /\ Base(t, i) = Base(t, j) => i = j
          /\ RatchetOf(t, i) = RatchetOf(t, j) => i = j
          /\ \A a \in 1..Len(Receiving(t, i)) :
               RatchetOf(t, j) \notin Latest(Receiving(t, i)[a].chainKey)
    BY <1>1 DEF Apart
  <2>2. \A i \in Chains(u) : \A a, b \in 1..Len(Receiving(t, i)) :
          Receiving(t, i)[a].chainKey = Receiving(t, i)[b].chainKey => a = b
    BY <1>1 DEF Apart
  <2> QED BY <1>3, <2>1, <2>2 DEF Apart
<1>6. Deaf(t, m, Chains(t))
  <2>1. \A i \in Chains(u) : RatchetOf(t, i) \notin Latest(m.chainKey)
    BY <1>1, <1>2, <1>3 DEF Apart
  <2>2. ASSUME NEW i \in Chains(u), NEW a \in 1..Len(Receiving(t, i)),
               Receiving(t, i)[a].chainKey = m.chainKey
        PROVE  Used(Receiving(t, i)[a], m.counter)
    <3>1. a \in 1..Len(Receiving(u, i)) /\ Receiving(u, i)[a].chainKey = Receiving(u, 0)[k].chainKey
      BY <1>1, <1>2, <2>2
    <3>2. i = 0 /\ a = k
      BY <1>2, <1>3, <3>1, OneChain
    <3> QED BY <1>2, <3>2
  <2> QED BY <1>3, <2>1, <2>2 DEF Deaf
<1>7. ~Deaf(u, m, Chains(u))
  BY <1>2, <1>3 DEF Deaf
<1>8. ASSUME NEW n \in Messages(K), Deaf(u, n, Chains(u)) PROVE Deaf(t, n, Chains(t))
  <2>1. n.counter \in Nat
    BY DEF Messages
  <2> QED BY <1>1, <1>3, <1>8, <2>1 DEF Deaf
<1>9. ASSUME NEW key, Unheard(key, u, Chains(u))
      PROVE  Unheard(key, t, Chains(t)) /\ key \notin Latest(m.chainKey)
  <2>1. key \notin Latest(m.chainKey)
    BY <1>2, <1>3, <1>9 DEF Unheard
  <2> QED BY <1>1, <1>3, <1>9, <2>1 DEF Unheard
<1> QED BY <1>4, <1>6, <1>7, <1>8, <1>9

-----------------------------------------------------------------------------
(* A message of a new chain.                                               *)

\* The receiving chains of session 0 of t: the one of m, which was used, and chains
\* of session 0 of u.
Receives(t, u, m) ==
  \E z \in 1..Len(Receiving(t, 0)) :
    \E f \in [1..Len(Receiving(t, 0)) \ {z} -> 1..Len(Receiving(u, 0))] :
      /\ Receiving(t, 0)[z].chainKey = m.chainKey /\ Used(Receiving(t, 0)[z], m.counter)
      /\ \A a, b \in 1..Len(Receiving(t, 0)) \ {z} : f[a] = f[b] => a = b
      /\ \A a \in 1..Len(Receiving(t, 0)) \ {z} : Receiving(t, 0)[a] = Receiving(u, 0)[f[a]]

\* Session 0 of u gets a new ratchet key and one more receiving chain, perhaps in
\* place of an old one.
LEMMA TurnedIs ==
  ASSUME NEW K, NEW u \in Session(K), NEW m \in Messages(K), NEW t, NEW key,
         Chains(t) = Chains(u), \A i \in Chains(u) \ {0} : Core(t, i) = Core(u, i),
         Turned(Core(t, 0), Core(u, 0), m, key)
  PROVE  /\ \A i \in Chains(u) \ {0} :
              /\ Core(t, i) = Core(u, i) /\ Base(t, i) = Base(u, i)
              /\ RatchetOf(t, i) = RatchetOf(u, i) /\ Receiving(t, i) = Receiving(u, i)
         /\ Base(t, 0) = Base(u, 0) /\ SecretOf(Core(t, 0)) = SecretOf(Core(u, 0))
         /\ Core(t, 0).oneTimeId = Core(u, 0).oneTimeId
         /\ RatchetOf(t, 0) = key /\ Latest(m.chainKey) = {RatchetOf(u, 0), m.ratchetKey}
         /\ Len(m.chainKey) >= 2 /\ m.chainKey[1] = Core(u, 0).rootKey[1]
         /\ Receives(t, u, m)
<1> DEFINE x == Core(u, 0)
           y == Core(t, 0)
<1>0. 0 \in Chains(u)
  BY CoreIs
<1>1. x.rootKey \in ChainKeys(K) /\ Len(x.recvChains) \in Nat
  BY <1>0, CoreFields
<1>2. /\ SecretOf(y) = SecretOf(x) /\ y.aliceBaseKey = x.aliceBaseKey /\ y.oneTimeId = x.oneTimeId
      /\ m.chainKey = CalculateRatchet(x.rootKey, x.sendChain.ratchetKey, m.ratchetKey)
      /\ y.sendChain.ratchetKey = key
  BY DEF Turned
<1>3. PICK n \in Nat, d \in Nat :
        /\ Len(y.recvChains) = n + 1 /\ n + d <= Len(x.recvChains)
        /\ \A a \in 1..n : y.recvChains[a] = x.recvChains[a + d]
        /\ y.recvChains[n + 1].chainKey = m.chainKey /\ Used(y.recvChains[n + 1], m.counter)
  BY DEF Turned
<1> HIDE DEF x, y
<1>4. /\ Len(m.chainKey) >= 2 /\ m.chainKey[1] = x.rootKey[1]
      /\ Latest(m.chainKey) = {x.sendChain.ratchetKey, m.ratchetKey}
  BY <1>1, <1>2, AgreementIs
<1> DEFINE z == n + 1
           f == [a \in 1..Len(y.recvChains) \ {z} |-> a + d]
<1>5. z \in 1..Len(y.recvChains)
  BY <1>3
<1>6. \A a \in 1..Len(y.recvChains) \ {z} : a \in 1..n /\ a + d \in 1..Len(x.recvChains)
  BY <1>1, <1>3
<1>7. /\ f \in [1..Len(y.recvChains) \ {z} -> 1..Len(x.recvChains)]
      /\ \A a \in 1..Len(y.recvChains) \ {z} : f[a] = a + d
  BY <1>6
<1> HIDE DEF f
<1>8. \A a, b \in 1..Len(y.recvChains) \ {z} : f[a] = f[b] => a = b
  <2>1. \A a, b \in Nat : a + d = b + d => a = b
    OBVIOUS
  <2>2. \A a \in 1..Len(y.recvChains) \ {z} : a \in Nat
    OBVIOUS
  <2> QED BY <1>7, <2>1, <2>2
<1>9. \A a \in 1..Len(y.recvChains) \ {z} : y.recvChains[a] = x.recvChains[f[a]]
  BY <1>3, <1>6, <1>7
<1>10. y.recvChains[z].chainKey = m.chainKey /\ Used(y.recvChains[z], m.counter)
  BY <1>3
<1> HIDE DEF z
<1>11. Receiving(u, 0) = x.recvChains /\ Receiving(t, 0) = y.recvChains
  BY DEF Receiving, x, y
<1>12. Receives(t, u, m)
  <2> DEFINE r == Receiving(t, 0)
             q == Receiving(u, 0)
  <2>1. /\ z \in 1..Len(r) /\ f \in [1..Len(r) \ {z} -> 1..Len(q)]
        /\ r[z].chainKey = m.chainKey /\ Used(r[z], m.counter)
        /\ \A a, b \in 1..Len(r) \ {z} : f[a] = f[b] => a = b
        /\ \A a \in 1..Len(r) \ {z} : r[a] = q[f[a]]
    BY <1>5, <1>7, <1>8, <1>9, <1>10, <1>11
  <2> HIDE DEF r, q
  <2>2. \E g \in [1..Len(r) \ {z} -> 1..Len(q)] :
          /\ r[z].chainKey = m.chainKey /\ Used(r[z], m.counter)
          /\ \A a, b \in 1..Len(r) \ {z} : g[a] = g[b] => a = b
          /\ \A a \in 1..Len(r) \ {z} : r[a] = q[g[a]]
    BY <2>1, Zenon
  <2>3. \E e \in 1..Len(r) :
          \E g \in [1..Len(r) \ {e} -> 1..Len(q)] :
            /\ r[e].chainKey = m.chainKey /\ Used(r[e], m.counter)
            /\ \A a, b \in 1..Len(r) \ {e} : g[a] = g[b] => a = b
            /\ \A a \in 1..Len(r) \ {e} : r[a] = q[g[a]]
    BY <2>1, <2>2, Zenon
  <2> QED BY <2>3, Zenon DEF Receives, r, q
<1>13. /\ RatchetOf(t, 0) = key /\ RatchetOf(u, 0) = x.sendChain.ratchetKey
       /\ Base(t, 0) = Base(u, 0)
  BY <1>2 DEF RatchetOf, Base, x, y
<1>14. \A i \in Chains(u) \ {0} :
         /\ Core(t, i) = Core(u, i) /\ Base(t, i) = Base(u, i)
         /\ RatchetOf(t, i) = RatchetOf(u, i) /\ Receiving(t, i) = Receiving(u, i)
  BY DEF Base, RatchetOf, Receiving
<1>15. /\ SecretOf(Core(t, 0)) = SecretOf(Core(u, 0)) /\ Core(t, 0).oneTimeId = Core(u, 0).oneTimeId
       /\ m.chainKey[1] = Core(u, 0).rootKey[1]
  BY <1>2, <1>4 DEF x, y
<1> QED BY <1>4, <1>12, <1>13, <1>14, <1>15

\* Session 0 of u is apart from the others and from what it heard, though they may
\* know its ratchet key, which is the signed pre-key in a session just opened.
Leads(u, m) ==
  /\ \A j \in Chains(u) \ {0} :
       /\ Base(u, j) # Base(u, 0) /\ RatchetOf(u, j) # RatchetOf(u, 0)
       /\ RatchetOf(u, j) # m.ratchetKey
  /\ \A j \in Chains(u) : \A a \in 1..Len(Receiving(u, 0)) :
       RatchetOf(u, j) \notin Latest(Receiving(u, 0)[a].chainKey)
  /\ \A a, b \in 1..Len(Receiving(u, 0)) :
       Receiving(u, 0)[a].chainKey = Receiving(u, 0)[b].chainKey => a = b
\* The chains of a session began with its secret.
Rooted(x) ==
  /\ x.rootKey[1] = SecretOf(x)
  /\ \A a \in 1..Len(x.recvChains) : x.recvChains[a].chainKey[1] = SecretOf(x)

LEMMA TurnedFormed ==
  ASSUME NEW K, NEW u \in Session(K), NEW m \in Messages(K), NEW t, NEW key, NEW p,
         Chains(t) = Chains(u), \A i \in Chains(u) \ {0} : Core(t, i) = Core(u, i),
         Turned(Core(t, 0), Core(u, 0), m, key), Rooted(Core(u, 0)),
         key[1] = p, key # SignedPreKey(p), RecordFormed(u, p, Chains(u) \ {0})
  PROVE  RecordFormed(t, p, Chains(t)) /\ SecretOf(Core(t, 0)) = m.chainKey[1]
<1> DEFINE y == Core(t, 0)
<1>1. /\ SecretOf(y) = SecretOf(Core(u, 0))
      /\ Len(m.chainKey) >= 2 /\ m.chainKey[1] = Core(u, 0).rootKey[1]
  BY TurnedIs
<1>2. SecretOf(y) = m.chainKey[1]
  BY <1>1 DEF Rooted
<1>3a. Receives(t, u, m)
  BY TurnedIs
<1>3b. PICK z \in 1..Len(Receiving(t, 0)) :
        \E f \in [1..Len(Receiving(t, 0)) \ {z} -> 1..Len(Receiving(u, 0))] :
          /\ Receiving(t, 0)[z].chainKey = m.chainKey /\ Used(Receiving(t, 0)[z], m.counter)
          /\ \A a, b \in 1..Len(Receiving(t, 0)) \ {z} : f[a] = f[b] => a = b
          /\ \A a \in 1..Len(Receiving(t, 0)) \ {z} : Receiving(t, 0)[a] = Receiving(u, 0)[f[a]]
  BY <1>3a, Zenon DEF Receives
<1>3. PICK f \in [1..Len(Receiving(t, 0)) \ {z} -> 1..Len(Receiving(u, 0))] :
        /\ Receiving(t, 0)[z].chainKey = m.chainKey /\ Used(Receiving(t, 0)[z], m.counter)
        /\ \A a, b \in 1..Len(Receiving(t, 0)) \ {z} : f[a] = f[b] => a = b
        /\ \A a \in 1..Len(Receiving(t, 0)) \ {z} : Receiving(t, 0)[a] = Receiving(u, 0)[f[a]]
  BY <1>3b
<1>4. ASSUME NEW a \in 1..Len(y.recvChains) PROVE y.recvChains[a].chainKey[1] = SecretOf(y)
  <2>1. CASE a = z
    BY <1>2, <1>3, <2>1 DEF Receiving
  <2>2. CASE a # z
    <3>1. a \in 1..Len(Receiving(t, 0)) \ {z}
      BY <2>2 DEF Receiving
    <3>2. f[a] \in 1..Len(Receiving(u, 0)) /\ Receiving(t, 0)[a] = Receiving(u, 0)[f[a]]
      BY <1>3, <3>1
    <3> QED BY <1>1, <3>2 DEF Rooted, Receiving
  <2> QED BY <2>1, <2>2
<1>5. /\ y.rootKey = CalculateRatchet(m.chainKey, key, m.ratchetKey) /\ ~y.initialExchange
      /\ y.sendChain.ratchetKey = key /\ y.sendChain.chainKey = y.rootKey
  BY DEF Turned
<1> HIDE DEF y
<1>6. /\ Len(y.rootKey) >= 2 /\ y.rootKey[1] = m.chainKey[1]
      /\ Len(m.chainKey) \in Nat /\ (Len(y.rootKey) = 2 <=> Len(m.chainKey) = 1)
  <2>1. m.chainKey \in ChainKeys(K)
    BY DEF Messages
  <2> QED BY <1>5, <2>1, AgreementIs
<1>7. Len(y.rootKey) # 2
  <2> DEFINE n == Len(m.chainKey)
  <2>0. n \in Nat /\ n >= 2
    BY <1>1, <1>6
  <2> HIDE DEF n
  <2>1. n # 1
    BY <2>0
  <2> QED BY <1>6, <2>1 DEF n
<1>8. Formed(y, p)
  BY <1>2, <1>4, <1>5, <1>6, <1>7 DEF Formed
<1>9. \A i \in Chains(u) \ {0} : Formed(Core(t, i), p)
  BY DEF RecordFormed
<1> QED BY <1>2, <1>8, <1>9 DEF RecordFormed, y

LEMMA TurnedApart ==
  ASSUME NEW K, NEW u \in Session(K), NEW m \in Messages(K), NEW t, NEW key,
         Chains(t) = Chains(u), \A i \in Chains(u) \ {0} : Core(t, i) = Core(u, i),
         Turned(Core(t, 0), Core(u, 0), m, key), Leads(u, m), key \notin K,
         Apart(u, Chains(u) \ {0})
  PROVE  Apart(t, Chains(t))
<1> DEFINE is == Chains(u) \ {0}
<1>1. /\ \A i \in is : /\ Base(t, i) = Base(u, i) /\ RatchetOf(t, i) = RatchetOf(u, i)
                       /\ Receiving(t, i) = Receiving(u, i)
      /\ Base(t, 0) = Base(u, 0) /\ RatchetOf(t, 0) = key
      /\ Latest(m.chainKey) = {RatchetOf(u, 0), m.ratchetKey}
  BY TurnedIs
<1>2a. Receives(t, u, m)
  BY TurnedIs
<1>2b. PICK z \in 1..Len(Receiving(t, 0)) :
        \E f \in [1..Len(Receiving(t, 0)) \ {z} -> 1..Len(Receiving(u, 0))] :
          /\ Receiving(t, 0)[z].chainKey = m.chainKey /\ Used(Receiving(t, 0)[z], m.counter)
          /\ \A a, b \in 1..Len(Receiving(t, 0)) \ {z} : f[a] = f[b] => a = b
          /\ \A a \in 1..Len(Receiving(t, 0)) \ {z} : Receiving(t, 0)[a] = Receiving(u, 0)[f[a]]
  BY <1>2a, Zenon DEF Receives
<1>2. PICK f \in [1..Len(Receiving(t, 0)) \ {z} -> 1..Len(Receiving(u, 0))] :
        /\ Receiving(t, 0)[z].chainKey = m.chainKey /\ Used(Receiving(t, 0)[z], m.counter)
        /\ \A a, b \in 1..Len(Receiving(t, 0)) \ {z} : f[a] = f[b] => a = b
        /\ \A a \in 1..Len(Receiving(t, 0)) \ {z} : Receiving(t, 0)[a] = Receiving(u, 0)[f[a]]
  BY <1>2b
<1>3. \A i \in Chains(u) :
        /\ RatchetOf(u, i) \in K
        /\ \A a \in 1..Len(Receiving(u, i)) : key \notin Latest(Receiving(u, i)[a].chainKey)
  <2> SUFFICES ASSUME NEW i \in Chains(u)
               PROVE  /\ RatchetOf(u, i) \in K
                      /\ \A a \in 1..Len(Receiving(u, i)) : key \notin Latest(Receiving(u, i)[a].chainKey)
    OBVIOUS
  <2>1. /\ RatchetOf(u, i) \in K
        /\ \A a \in 1..Len(Receiving(u, i)) : Receiving(u, i)[a].chainKey \in ChainKeys(K)
    BY CoreFields DEF RatchetOf, Receiving
  <2>2. \A a \in 1..Len(Receiving(u, i)) : Latest(Receiving(u, i)[a].chainKey) \subseteq K
    BY <2>1, LatestIs
  <2> QED BY <2>1, <2>2
<1>4. Chains(t) = is \cup {0} /\ is \subseteq Chains(u) /\ 0 \in Chains(u) /\ 0 \notin is
  BY CoreIs
<1>5. Latest(m.chainKey) \subseteq K
  BY LatestIs DEF Messages
<1>6. \A i \in is : RatchetOf(u, i) \notin Latest(m.chainKey)
  BY <1>1 DEF Leads
<1> HIDE DEF is
\* the receiving chains of session 0
<1>7. ASSUME NEW a \in 1..Len(Receiving(t, 0))
      PROVE  /\ key \notin Latest(Receiving(t, 0)[a].chainKey)
             /\ \A j \in is : RatchetOf(u, j) \notin Latest(Receiving(t, 0)[a].chainKey)
             /\ a # z => /\ f[a] \in 1..Len(Receiving(u, 0))
                         /\ Receiving(t, 0)[a] = Receiving(u, 0)[f[a]]
                         /\ Receiving(t, 0)[a].chainKey # m.chainKey
  <2>1. CASE a = z
    BY <1>2, <1>3, <1>5, <1>6, <2>1
  <2>2. CASE a # z
    <3>1. f[a] \in 1..Len(Receiving(u, 0)) /\ Receiving(t, 0)[a] = Receiving(u, 0)[f[a]]
      BY <1>2, <2>2
    <3>2. \A j \in Chains(u) : RatchetOf(u, j) \notin Latest(Receiving(t, 0)[a].chainKey)
      BY <3>1 DEF Leads
    <3>3. Receiving(t, 0)[a].chainKey # m.chainKey
      BY <1>1, <1>4, <3>2
    <3>4. key \notin Latest(Receiving(t, 0)[a].chainKey)
      BY <1>3, <1>4, <3>1
    <3> QED BY <1>4, <3>1, <3>2, <3>3, <3>4
  <2> QED BY <2>1, <2>2
<1>8. \A a, b \in 1..Len(Receiving(t, 0)) :
        Receiving(t, 0)[a].chainKey = Receiving(t, 0)[b].chainKey => a = b
  <2> SUFFICES ASSUME NEW a \in 1..Len(Receiving(t, 0)), NEW b \in 1..Len(Receiving(t, 0)),
                      Receiving(t, 0)[a].chainKey = Receiving(t, 0)[b].chainKey
               PROVE  a = b
    OBVIOUS
  <2>1. CASE a = z \/ b = z
    BY <1>2, <1>7, <2>1
  <2>2. CASE a # z /\ b # z
    <3>1. /\ f[a] \in 1..Len(Receiving(u, 0)) /\ f[b] \in 1..Len(Receiving(u, 0))
          /\ Receiving(u, 0)[f[a]].chainKey = Receiving(u, 0)[f[b]].chainKey
      BY <1>7, <2>2
    <3>2. f[a] = f[b]
      BY <3>1 DEF Leads
    <3> QED BY <1>2, <2>2, <3>2
  <2> QED BY <2>1, <2>2
<1>9. ASSUME NEW i \in is \cup {0}, NEW j \in is \cup {0}
      PROVE  /\ Base(t, i) = Base(t, j) => i = j
             /\ RatchetOf(t, i) = RatchetOf(t, j) => i = j
             /\ \A a \in 1..Len(Receiving(t, i)) :
                  RatchetOf(t, j) \notin Latest(Receiving(t, i)[a].chainKey)
  <2>1. CASE i \in is /\ j \in is
    BY <1>1, <2>1 DEF Apart, is
  <2>2. CASE i \in is /\ j = 0
    BY <1>1, <1>3, <1>4, <2>2 DEF Leads, is
  <2>3. CASE i = 0 /\ j \in is
    <3>1. Base(t, i) # Base(t, j)
      BY <1>1, <2>3 DEF Leads, is
    <3>2. RatchetOf(t, i) # RatchetOf(t, j)
      BY <1>1, <1>3, <1>4, <2>3
    <3> QED BY <1>1, <1>7, <2>3, <3>1, <3>2
  <2>4. CASE i = 0 /\ j = 0
    BY <1>1, <1>7, <2>4
  <2> QED BY <2>1, <2>2, <2>3, <2>4
<1>10. \A i \in is : \A a, b \in 1..Len(Receiving(t, i)) :
         Receiving(t, i)[a].chainKey = Receiving(t, i)[b].chainKey => a = b
  BY <1>1 DEF Apart, is
<1> QED BY <1>4, <1>8, <1>9, <1>10 DEF Apart

LEMMA TurnedDeaf ==
  ASSUME NEW K, NEW u \in Session(K), NEW m \in Messages(K), NEW t, NEW key, NEW p,
         Chains(t) = Chains(u), \A i \in Chains(u) \ {0} : Core(t, i) = Core(u, i),
         Turned(Core(t, 0), Core(u, 0), m, key), Leads(u, m),
         Rooted(Core(u, 0)), key \notin K, RecordFormed(u, p, Chains(u) \ {0})
  PROVE  /\ Deaf(t, m, Chains(t))
         /\ \A n \in Messages(K) :
              /\ n.chainKey # m.chainKey
              /\ Deaf(u, n, Chains(u) \ {0})
              /\ \A a \in 1..Len(Receiving(u, 0)) :
                   Receiving(u, 0)[a].chainKey = n.chainKey => Used(Receiving(u, 0)[a], n.counter)
              => Deaf(t, n, Chains(t))
         /\ \A k \in K : k # m.ratchetKey /\ Unheard(k, u, Chains(u)) =>
              Unheard(k, t, Chains(t)) /\ k \notin Latest(m.chainKey)
<1> DEFINE is == Chains(u) \ {0}
<1>1. /\ \A i \in is : /\ Base(t, i) = Base(u, i) /\ RatchetOf(t, i) = RatchetOf(u, i)
                       /\ Receiving(t, i) = Receiving(u, i)
      /\ RatchetOf(t, 0) = key /\ Latest(m.chainKey) = {RatchetOf(u, 0), m.ratchetKey}
      /\ m.chainKey[1] = SecretOf(Core(u, 0))
  <2>1. \A i \in is : /\ Base(t, i) = Base(u, i) /\ RatchetOf(t, i) = RatchetOf(u, i)
                      /\ Receiving(t, i) = Receiving(u, i)
    BY TurnedIs
  <2>2. RatchetOf(t, 0) = key /\ Latest(m.chainKey) = {RatchetOf(u, 0), m.ratchetKey}
    BY TurnedIs
  <2>3. m.chainKey[1] = Core(u, 0).rootKey[1]
    BY TurnedIs
  <2> QED BY <2>1, <2>2, <2>3 DEF Rooted
<1>2a. Receives(t, u, m)
  BY TurnedIs
<1>2b. PICK z \in 1..Len(Receiving(t, 0)) :
        \E f \in [1..Len(Receiving(t, 0)) \ {z} -> 1..Len(Receiving(u, 0))] :
          /\ Receiving(t, 0)[z].chainKey = m.chainKey /\ Used(Receiving(t, 0)[z], m.counter)
          /\ \A a, b \in 1..Len(Receiving(t, 0)) \ {z} : f[a] = f[b] => a = b
          /\ \A a \in 1..Len(Receiving(t, 0)) \ {z} : Receiving(t, 0)[a] = Receiving(u, 0)[f[a]]
  BY <1>2a, Zenon DEF Receives
<1>2. PICK f \in [1..Len(Receiving(t, 0)) \ {z} -> 1..Len(Receiving(u, 0))] :
        /\ Receiving(t, 0)[z].chainKey = m.chainKey /\ Used(Receiving(t, 0)[z], m.counter)
        /\ \A a, b \in 1..Len(Receiving(t, 0)) \ {z} : f[a] = f[b] => a = b
        /\ \A a \in 1..Len(Receiving(t, 0)) \ {z} : Receiving(t, 0)[a] = Receiving(u, 0)[f[a]]
  BY <1>2b
<1>3. \A n \in Messages(K) : Latest(n.chainKey) \subseteq K
  BY LatestIs DEF Messages
<1>4. Chains(t) = is \cup {0} /\ is \subseteq Chains(u) /\ 0 \in Chains(u) /\ 0 \notin is
  BY CoreIs
<1>5. \A a \in 1..Len(Receiving(t, 0)) : a # z =>
        f[a] \in 1..Len(Receiving(u, 0)) /\ Receiving(t, 0)[a] = Receiving(u, 0)[f[a]]
  BY <1>2
<1>6. \A i \in is : RatchetOf(u, i) \notin Latest(m.chainKey)
  BY <1>1 DEF Leads
<1>7. \A i \in is : \A a \in 1..Len(Receiving(u, i)) : Receiving(u, i)[a].chainKey # m.chainKey
  <2> SUFFICES ASSUME NEW i \in is, NEW a \in 1..Len(Receiving(u, i)),
                      Receiving(u, i)[a].chainKey = m.chainKey
               PROVE  FALSE
    OBVIOUS
  <2>1. Receiving(u, i)[a].chainKey[1] = SecretOf(Core(u, i))
    BY DEF RecordFormed, Formed, Receiving
  <2>2. SecretOf(Core(u, i)) = SecretOf(Core(u, 0))
    BY <1>1, <2>1
  <2>3. Base(u, i) = Base(u, 0)
    BY <2>2 DEF SecretOf, Base
  <2> QED BY <2>3 DEF Leads
<1>8. ASSUME NEW a \in 1..Len(Receiving(t, 0)), Receiving(t, 0)[a].chainKey = m.chainKey
      PROVE  a = z
  <2> SUFFICES ASSUME a # z PROVE FALSE
    OBVIOUS
  <2>1. RatchetOf(u, 0) \notin Latest(Receiving(t, 0)[a].chainKey)
    BY <1>4, <1>5 DEF Leads
  <2> QED BY <1>1, <1>8, <2>1
<1> HIDE DEF is
<1>9. Deaf(t, m, Chains(t))
  <2>1. \A i \in is : RatchetOf(t, i) \notin Latest(m.chainKey)
    BY <1>1, <1>6
  <2>2. RatchetOf(t, 0) \notin Latest(m.chainKey)
    BY <1>1, <1>3
  <2>3. \A i \in is : \A a \in 1..Len(Receiving(t, i)) : Receiving(t, i)[a].chainKey # m.chainKey
    BY <1>1, <1>7
  <2>4. \A a \in 1..Len(Receiving(t, 0)) :
          Receiving(t, 0)[a].chainKey = m.chainKey => Used(Receiving(t, 0)[a], m.counter)
    BY <1>2, <1>8
  <2> QED BY <1>4, <2>1, <2>2, <2>3, <2>4 DEF Deaf
<1>10. ASSUME NEW n \in Messages(K), n.chainKey # m.chainKey, Deaf(u, n, is),
              \A a \in 1..Len(Receiving(u, 0)) :
                Receiving(u, 0)[a].chainKey = n.chainKey => Used(Receiving(u, 0)[a], n.counter)
       PROVE  Deaf(t, n, Chains(t))
  <2>1. RatchetOf(t, 0) \notin Latest(n.chainKey)
    BY <1>1, <1>3
  <2>2. \A i \in is :
          /\ RatchetOf(t, i) \notin Latest(n.chainKey)
          /\ \A a \in 1..Len(Receiving(t, i)) :
               Receiving(t, i)[a].chainKey = n.chainKey => Used(Receiving(t, i)[a], n.counter)
    BY <1>1, <1>10 DEF Deaf
  <2>3. \A a \in 1..Len(Receiving(t, 0)) :
          Receiving(t, 0)[a].chainKey = n.chainKey => Used(Receiving(t, 0)[a], n.counter)
    BY <1>2, <1>5, <1>10
  <2> QED BY <1>4, <2>1, <2>2, <2>3 DEF Deaf
<1>11. ASSUME NEW k \in K, k # m.ratchetKey, Unheard(k, u, Chains(u))
       PROVE  Unheard(k, t, Chains(t)) /\ k \notin Latest(m.chainKey)
  <2>1. RatchetOf(u, 0) # k
    BY <1>4, <1>11 DEF Unheard
  <2>2. k \notin Latest(m.chainKey) /\ k # key
    BY <1>1, <1>11, <2>1
  <2>3. \A i \in is :
          /\ RatchetOf(t, i) # k
          /\ \A a \in 1..Len(Receiving(t, i)) : k \notin Latest(Receiving(t, i)[a].chainKey)
    BY <1>1, <1>4, <1>11 DEF Unheard
  <2>4. \A a \in 1..Len(Receiving(t, 0)) : k \notin Latest(Receiving(t, 0)[a].chainKey)
    BY <1>2, <1>4, <1>5, <1>11, <2>2 DEF Unheard
  <2> QED BY <1>1, <1>4, <2>2, <2>3, <2>4 DEF Unheard
<1> QED BY <1>9, <1>10, <1>11 DEF is

-----------------------------------------------------------------------------
(* What a party heard, it does not hear again.                             *)

Forgetful(p) == Lapsed(p, "session dropped") \/ Lapsed(p, "session forgotten")
\* A first message that may open its session again.
Reopens(p, m) == Forgetful(p) /\ m.type = "pkmsg" /\ m.oneTimeId = NoKeyId

Deciphering(p) == op[p].step \in {"opened", "decrypted"}
HeardBy(p) == IF Deciphering(p) THEN got[p] \cup {op[p].message} ELSE got[p]

\* The one-time pre-keys the peer opened sessions with are none of those left.
Spends(s, p, is, left) ==
  \A i \in is : Base(s, i)[1] # p => Core(s, i).oneTimeId \notin left

\* The record of p, and the one its operation is to write, neither of which has a key
\* of what p heard.
RecordHears(p) ==
  session[p] # NoSession =>
    LET s == session[p]
    IN /\ Apart(s, Chains(s)) /\ Spends(s, p, Chains(s), preKeys[p])
       /\ \A m \in got[p] : Reopens(p, m) \/ Deaf(s, m, Chains(s))
WriteHears(p) ==
  op[p].step # "none" =>
    LET s == op[p].session
    IN /\ Apart(s, Chains(s))
       /\ Spends(s, p, IF op[p].step = "opened" THEN Chains(s) \ {0} ELSE Chains(s), preKeys[p])
       /\ \A m \in HeardBy(p) : Reopens(p, m) \/ Deaf(s, m, Chains(s))
       /\ Forgetful(p) \/ session[p] = NoSession \/ Bases(session[p]) \subseteq Bases(s)

\* The message being decrypted is a new one, and of the session in front.
MessageHears(p) ==
  Deciphering(p) =>
    LET m == op[p].message
    IN /\ m \notin got[p] \/ Reopens(p, m)
       /\ SecretOf(Core(op[p].session, 0)) = <<m.baseKey, m.oneTimeId>>

\* The session that is prepared is alone, with a ratchet key that is not in use.
TaskHears(p) ==
  task[p].step \in {"prepared", "renewing"} =>
    LET s == task[p].session
        key == RatchetOf(s, 0)
    IN /\ Chains(s) = {0} /\ Base(s, 0)[1] = p
       /\ Len(Receiving(s, 0)) = 1 /\ Len(Receiving(s, 0)[1].chainKey) = 1
       /\ session[p] # NoSession => Unheard(key, session[p], Chains(session[p]))
       /\ op[p].step # "none" => Unheard(key, op[p].session, Chains(op[p].session))
       /\ \A m \in HeardBy(p) : key \notin Latest(m.chainKey)

\* A first message that was heard does not open its session again.
FirstHears(p) ==
  \A m \in got[p] : m.type = "pkmsg" =>
    /\ m.oneTimeId \notin preKeys[p]
    /\ Forgetful(p) \/ (session[p] # NoSession /\ m.baseKey \in Bases(session[p]))

Hears(p) ==
  RecordHears(p) /\ WriteHears(p) /\ MessageHears(p) /\ TaskHears(p) /\ FirstHears(p)
HearsOrLapsed(p) == Lapsed(p, "deleted session used") \/ Hears(p)
OnceHeard ==
  \A m \in again : Lapsed(Peer(m.from), "deleted session used") \/ Reopens(Peer(m.from), m)

-----------------------------------------------------------------------------
(* Each step leaves sessions and messages well formed.                     *)

\* A session that is prepared has keys of its own.
LEMMA OutgoingFormed ==
  ASSUME RatchetAssumption, NEW K, NEW p \in Parties, NEW q \in Parties, SignedPreKey(q) \in K,
         NEW base \in K, NEW ratchet \in K, NEW id \in Nat,
         base[1] = p, ratchet[1] = p, ratchet # SignedPreKey(p)
  PROVE  LET s == Outgoing(q, id, base, ratchet)
         IN /\ RecordFormed(s, p, Chains(s)) /\ Chains(s) = {0}
            /\ Base(s, 0) = base /\ RatchetOf(s, 0) = ratchet
            /\ Len(Receiving(s, 0)) = 1 /\ Len(Receiving(s, 0)[1].chainKey) = 1
<1> DEFINE s == Outgoing(q, id, base, ratchet)
<1>1. /\ Chains(s) = {0} /\ Core(s, 0) = s
      /\ s.aliceBaseKey = base /\ s.oneTimeId = id /\ s.initialExchange
      /\ s.rootKey = CalculateRatchet(Secret(base, id), ratchet, SignedPreKey(q))
      /\ s.sendChain.ratchetKey = ratchet /\ s.sendChain.chainKey = s.rootKey
      /\ Len(s.recvChains) = 1 /\ s.recvChains[1].chainKey = Secret(base, id)
  BY OutgoingCore
<1>2. /\ Secret(base, id) \in ChainKeys(K) /\ Len(Secret(base, id)) = 1
      /\ Secret(base, id)[1] = <<base, id>>
  BY SecretIs, SecretHas
<1> HIDE DEF s
<1>3. /\ Len(s.rootKey) = 2 /\ s.rootKey[1] = <<base, id>>
  <2>1. /\ Len(s.rootKey) = Len(Secret(base, id)) + 1 /\ s.rootKey[1] = Secret(base, id)[1]
    BY <1>1, <1>2, AgreementIs
  <2> QED BY <1>2, <2>1
<1>4. SecretOf(s) = <<base, id>>
  BY <1>1 DEF SecretOf
<1>5. \A a \in 1..Len(s.recvChains) : s.recvChains[a].chainKey[1] = <<base, id>>
  BY <1>1, <1>2
<1>6. Formed(s, p)
  BY <1>1, <1>3, <1>4, <1>5 DEF Formed
<1>7. RecordFormed(s, p, Chains(s))
  BY <1>1, <1>6 DEF RecordFormed
<1> QED BY <1>1, <1>2, <1>7 DEF Base, RatchetOf, Receiving, s

LEMMA NewKeyIs ==
  ASSUME Typed, SessionsAssumption, NEW p \in Parties, NEW i \in Nat \ {0}
  PROVE  NewKey(p, i)[1] = p /\ NewKey(p, i) # SignedPreKey(p)
<1>1. generated[p] \in Nat
  BY DEF Typed, TypedKeys, SessionsAssumption
<1>2. generated[p] + i # 0
  BY <1>1
<1> QED BY <1>2 DEF NewKey, SignedPreKey

LEMMA PrepareGives ==
  ASSUME RatchetAssumption, SessionsAssumption, Typed, NEW p \in Parties, NEW step, Prepare(p, step)
  PROVE  \E s \in Session(KeysMade') :
           /\ task' = [task EXCEPT ![p] = [step |-> step, session |-> s]]
           /\ RecordFormed(s, p, Chains(s)) /\ Chains(s) = {0}
           /\ Base(s, 0)[1] = p /\ RatchetOf(s, 0) \notin KeysMade
           /\ Len(Receiving(s, 0)) = 1 /\ Len(Receiving(s, 0)[1].chainKey) = 1
<1> DEFINE q == Peer(p)
           base == NewKey(p, 1)
           ratchet == NewKey(p, 2)
<1>1. generated' = [generated EXCEPT ![p] = @ + 2]
  BY DEF Prepare
<1>2. /\ KeysMade \subseteq KeysMade' /\ base \in KeysMade'
      /\ ratchet \in KeysMade' /\ ratchet \notin KeysMade
  <2>1. 2 \in Nat /\ 1 \in 1..2 /\ 2 \in 1..2
    OBVIOUS
  <2>2. /\ KeysMade \subseteq KeysMade'
        /\ \A i \in 1..2 : NewKey(p, i) \in KeysMade' /\ NewKey(p, i) \notin KeysMade
    BY <1>1, <2>1, KeysGrow
  <2> QED BY <2>1, <2>2
<1>3. q \in Parties
  BY PeerIs
<1>4. PICK id \in HandedOut(q) :
        task' = [task EXCEPT ![p] = [step |-> step, session |-> NewSession(p, id)]]
  BY DEF Prepare
<1>5. id \in Nat
  <2>1. bundles[q] \in SUBSET Nat
    BY <1>3 DEF Typed, TypedKeys, SessionsAssumption
  <2>2. bundles[q] # {} => FirstIn(bundles[q]) \in Nat
    BY <2>1, LeastIs
  <2> QED BY <2>2 DEF HandedOut, NoKeyId
<1>6. SignedPreKey(q) \in KeysMade'
  BY <1>2, <1>3, SignedIsMade
<1>7. base[1] = p /\ ratchet[1] = p /\ ratchet # SignedPreKey(p)
  <2>1. 1 \in Nat \ {0} /\ 2 \in Nat \ {0}
    OBVIOUS
  <2> QED BY <2>1, NewKeyIs
<1> DEFINE s == Outgoing(q, id, base, ratchet)
           L == KeysMade'
<1>8. s = NewSession(p, id)
  BY DEF NewSession
<1> HIDE DEF base, ratchet, q, L
<1>9. base \in L /\ ratchet \in L /\ SignedPreKey(q) \in L
  BY <1>2, <1>6 DEF L
<1>10. s \in Session(L)
  BY <1>3, <1>5, <1>9, OutgoingIs
<1>11. /\ RecordFormed(s, p, Chains(s)) /\ Chains(s) = {0}
       /\ Base(s, 0) = base /\ RatchetOf(s, 0) = ratchet
       /\ Len(Receiving(s, 0)) = 1 /\ Len(Receiving(s, 0)[1].chainKey) = 1
  BY <1>3, <1>5, <1>7, <1>9, OutgoingFormed
<1> HIDE DEF s
<1> QED BY <1>2, <1>4, <1>7, <1>8, <1>10, <1>11 DEF L

LEMMA PrepareFormed ==
  ASSUME RatchetAssumption, SessionsAssumption, Typed, NEW p \in Parties, NEW step, Prepare(p, step),
         UNCHANGED <<session, op, sent>>, FormedFor(p)
  PROVE  FormedFor(p)'
<1>1. PICK s \in Session(KeysMade') :
        /\ task' = [task EXCEPT ![p] = [step |-> step, session |-> s]]
        /\ RecordFormed(s, p, Chains(s))
  BY PrepareGives
<1>2. task'[p].session = s
  BY <1>1 DEF Typed, TypedOver
<1>3. SentBy(p)' = SentBy(p)
  BY DEF SentBy
<1> QED BY <1>1, <1>2, <1>3 DEF FormedFor

\* The message of a well formed session.
LEMMA MessageOfFormed ==
  ASSUME NEW K, NEW s \in Session(K), NEW p \in Parties, NEW id, RecordFormed(s, p, Chains(s))
  PROVE  MessageFormed(Message(s, p, id))
<1> DEFINE m == Message(s, p, id)
           x == Core(s, 0)
<1>1. Formed(x, p)
  BY CoreIs DEF RecordFormed
<1>2. /\ x.aliceBaseKey = s.aliceBaseKey /\ x.oneTimeId = s.oneTimeId
      /\ x.initialExchange = s.initialExchange /\ x.rootKey = s.rootKey
      /\ x.sendChain = s.sendChain
  BY FrontIs
<1>3. /\ m.from = p /\ m.type = (IF s.initialExchange THEN "pkmsg" ELSE "msg")
      /\ m.ratchetKey = s.sendChain.ratchetKey /\ m.chainKey = s.sendChain.chainKey
      /\ m.baseKey = s.aliceBaseKey /\ m.oneTimeId = s.oneTimeId
  BY DEF Message
<1>4. m.type = "pkmsg" <=> s.initialExchange
  BY <1>3
<1> HIDE DEF m, x
<1>5. /\ Len(m.chainKey) >= 2 /\ m.chainKey[1] = <<m.baseKey, m.oneTimeId>>
      /\ m.ratchetKey[1] = m.from
  BY <1>1, <1>2, <1>3 DEF Formed, SecretOf
<1>6. (m.type = "pkmsg" <=> Len(m.chainKey) = 2) /\ (m.type = "pkmsg" => m.baseKey[1] = m.from)
  BY <1>1, <1>2, <1>3, <1>4 DEF Formed
<1>7. MessageFormed(m)
  BY <1>5, <1>6 DEF MessageFormed
<1> QED BY <1>7 DEF m

LEMMA EncryptFormed ==
  ASSUME SessionsAssumption, Typed, NEW p \in Parties, NEW prefetched \in BOOLEAN,
         Encrypt(p, prefetched), FormedFor(p)
  PROVE  FormedFor(p)'
<1> DEFINE s == SessionToEncrypt(p, prefetched)
           t == Encrypted(s)
           m == Message(s, p, NextId(p))
<1>1. /\ s # NoSession
      /\ op' = [op EXCEPT ![p] = [step |-> "encrypted", session |-> t, message |-> m]]
      /\ task' \in {task, [task EXCEPT ![p] = Idle]}
      /\ UNCHANGED <<session, sent>>
  BY DEF Encrypt
<1>2. s \in Session(KeysMade) /\ RecordFormed(s, p, Chains(s))
  <2>1. CASE s = session[p]
    <3>1. session[p] # NoSession
      BY <1>1, <2>1
    <3>2. session[p] \in Session(KeysMade)
      BY <3>1 DEF Typed, TypedOver
    <3>3. RecordFormed(session[p], p, Chains(session[p]))
      BY <3>1 DEF FormedFor
    <3> HIDE DEF s
    <3> QED BY <2>1, <3>2, <3>3
  <2>2. CASE s # session[p]
    <3>1. prefetched /\ s = task[p].session
      BY <2>2 DEF SessionToEncrypt
    <3>2. task[p].step = "ready"
      BY <3>1 DEF Encrypt
    <3> HIDE DEF s
    <3> QED BY <3>1, <3>2, TaskIs DEF FormedFor
  <2> QED BY <2>1, <2>2
<1>3. /\ op'[p].step = "encrypted" /\ op'[p].session = t /\ op'[p].message = m
  BY <1>1 DEF Typed, TypedOver
<1>4. task'[p] = task[p] \/ task'[p].step = "none"
  <2>1. task \in [Parties -> Tasks(KeysMade)] /\ Idle.step = "none"
    BY DEF Typed, TypedOver, Idle
  <2>2. task' \in {task, [task EXCEPT ![p] = Idle]}
    BY <1>1
  <2> QED BY <2>1, <2>2
<1>5. SentBy(p)' = SentBy(p) /\ session' = session
  BY <1>1 DEF SentBy
<1> HIDE DEF s
<1>6. MessageFormed(m)
  BY <1>2, MessageOfFormed
<1> HIDE DEF m
<1>7. RecordFormed(t, p, Chains(t))
  BY <1>2, EncryptedWithin, WithinIs
<1> HIDE DEF t
<1> QED BY <1>3, <1>4, <1>5, <1>6, <1>7 DEF FormedFor

\* What is stored, resolved or released was in hand.
LEMMA MovesFormed ==
  ASSUME Typed, NEW p \in Parties,
         \/ Persist(p) \/ Release(p) \/ Consume(p) \/ Deliver(p)
         \/ Reestablish(p) \/ Delete(p) \/ Interrupt(p),
         FormedFor(p)
  PROVE  FormedFor(p)'
<1> DEFINE Stands(s) == RecordFormed(s, p, Chains(s))
<1>0. /\ session \in [Parties -> Session(KeysMade) \cup {NoSession}]
      /\ task \in [Parties -> Tasks(KeysMade)] /\ op \in [Parties -> Operations(KeysMade)]
  BY DEF Typed, TypedOver
<1>1. /\ session[p] # NoSession => Stands(session[p])
      /\ task[p].step # "none" => Stands(task[p].session)
      /\ op[p].step # "none" => Stands(op[p].session) /\ MessageFormed(op[p].message)
      /\ \A m \in SentBy(p) : MessageFormed(m)
  BY DEF FormedFor
<1> SUFFICES /\ session'[p] # NoSession => Stands(session'[p])
             /\ task'[p].step # "none" => Stands(task'[p].session)
             /\ op'[p].step # "none" => Stands(op'[p].session) /\ MessageFormed(op'[p].message)
             /\ \A m \in SentBy(p)' : MessageFormed(m)
  BY DEF FormedFor
<1> HIDE DEF Stands
<1>2. Idle.step = "none" /\ Free.step = "none"
  BY DEF Idle, Free
<1>3. sent' = sent => SentBy(p)' = SentBy(p)
  BY DEF SentBy
<1>4. CASE Persist(p)
  BY <1>0, <1>1, <1>2, <1>3, <1>4 DEF Persist
<1>5. CASE Release(p)
  <2>1. SentBy(p)' \subseteq SentBy(p) \cup {op[p].message}
    BY <1>5 DEF Release, SentBy
  <2> QED BY <1>0, <1>1, <1>2, <1>5, <2>1 DEF Release
<1>6. CASE Consume(p)
  <2>1. op[p].step = "opened" /\ op'[p].session = op[p].session /\ op'[p].message = op[p].message
    BY <1>0, <1>6, OpIs DEF Consume
  <2>2. UNCHANGED <<session, task, sent>>
    BY <1>6 DEF Consume
  <2> QED BY <1>1, <1>3, <2>1, <2>2
<1>7. CASE Deliver(p)
  BY <1>0, <1>1, <1>2, <1>3, <1>7 DEF Deliver
<1>8. CASE Reestablish(p)
  BY <1>0, <1>1, <1>2, <1>3, <1>8 DEF Reestablish
<1>9. CASE Delete(p)
  BY <1>0, <1>1, <1>3, <1>9 DEF Delete
<1>10. CASE Interrupt(p)
  <2>1. session'[p] = session[p] \/ (op[p].step # "none" /\ session'[p] = op[p].session)
    BY <1>0, <1>10 DEF Interrupt
  <2>2. task'[p] = task[p] \/ task'[p].step = "none"
    BY <1>0, <1>2, <1>10 DEF Interrupt
  <2>3. op'[p].step = "none" /\ sent' = sent
    BY <1>0, <1>2, <1>10 DEF Interrupt
  <2> QED BY <1>1, <1>3, <2>1, <2>2, <2>3
<1> QED BY <1>4, <1>5, <1>6, <1>7, <1>8, <1>9, <1>10

-----------------------------------------------------------------------------
(* What a decryption makes of the record.                                  *)

LEMMA IncomingCore ==
  ASSUME NEW p, NEW m
  PROVE  LET x == Incoming(p, m)
         IN /\ x.aliceBaseKey = m.baseKey /\ x.oneTimeId = m.oneTimeId
            /\ x.sendChain.ratchetKey = SignedPreKey(p) /\ Len(x.recvChains) = 0
            /\ SecretOf(x) = <<m.baseKey, m.oneTimeId>> /\ Rooted(x)
<1> DEFINE x == Incoming(p, m)
<1>1. /\ x.aliceBaseKey = m.baseKey /\ x.oneTimeId = m.oneTimeId /\ x.recvChains = <<>>
      /\ x.rootKey = Secret(m.baseKey, m.oneTimeId)
      /\ x.sendChain.ratchetKey = SignedPreKey(p)
  BY DEF Incoming
<1>2. x.rootKey[1] = <<m.baseKey, m.oneTimeId>>
  BY <1>1, SecretHas
<1> HIDE DEF x
<1>3. Len(x.recvChains) = 0 /\ 1..0 = {}
  BY <1>1
<1>4. SecretOf(x) = <<m.baseKey, m.oneTimeId>>
  BY <1>1 DEF SecretOf
<1>5. Rooted(x)
  BY <1>2, <1>3, <1>4 DEF Rooted
<1> QED BY <1>1, <1>3, <1>4, <1>5 DEF x

LEMMA NotMatched ==
  ASSUME NEW K, NEW s \in Session(K), NEW m, ~HasMatch(s, m)
  PROVE  m.baseKey \notin Bases(s)
<1>1. s.aliceBaseKey # m.baseKey /\ \A i \in DOMAIN s.prevSessions : s.prevSessions[i].aliceBaseKey # m.baseKey
  BY DEF HasMatch, Matches
<1>2. Base(s, 0) # m.baseKey
  BY <1>1, FrontIs DEF Base
<1>3. DOMAIN s.prevSessions = 1..Len(s.prevSessions) /\ Len(s.prevSessions) \in Nat
  BY RecordIs, LenProperties
<1>4. \A i \in 1..Len(s.prevSessions) : Base(s, i) # m.baseKey
  BY <1>1, <1>3, CoreIs DEF Base
<1>5. \A i \in Chains(s) : i = 0 \/ i \in 1..Len(s.prevSessions)
  BY <1>3 DEF Chains
<1> QED BY <1>2, <1>4, <1>5 DEF Bases

\* The record that m is decrypted with: the sessions that are stored, or a new one
\* in front of them.
LEMMA FrontFor ==
  ASSUME RatchetAssumption, SessionsAssumption, Typed, NEW p \in Parties,
         NEW m \in Messages(KeysMade), CanDecrypt(p, m), FormedFor(p)
  PROVE  LET u == SessionFor(p, m)
             s == session[p]
         IN /\ u \in Session(KeysMade) /\ Decrypts(u, m)
            /\ Opens(p, m) =>
                 /\ Turns(p, m) /\ Core(u, 0) = Incoming(p, m)
                 /\ RecordFormed(u, p, Chains(u) \ {0})
                 /\ s = NoSession => Chains(u) = {0}
                 /\ s # NoSession => Within(u, s, Chains(u) \ {0}) /\ m.baseKey \notin Bases(s)
            /\ ~Opens(p, m) =>
                 s # NoSession /\ Within(u, s, Chains(u)) /\ RecordFormed(u, p, Chains(u))
            /\ s # NoSession => Forgets(p, m) \/ Bases(s) \subseteq Bases(u)
<1> DEFINE u == SessionFor(p, m)
           s == session[p]
<1>1. (m.type = "msg" => s # NoSession) /\ Decrypts(u, m)
  BY DEF CanDecrypt
<1>2. /\ u \in Session(KeysMade)
      /\ s = NoSession => u.prevSessions = <<>> /\ Opens(p, m)
      /\ s # NoSession =>
           /\ Arranges(u, s, 1..Len(u.prevSessions))
           /\ Opens(p, m) \/ Arranges(u, s, Chains(u))
           /\ Forgets(p, m) \/ Keeps(u, s)
      /\ Opens(p, m) => Turns(p, m) /\ Core(u, 0) = Incoming(p, m)
  BY <1>1, SessionForIs
<1>3. /\ s # NoSession => s \in Session(KeysMade) /\ RecordFormed(s, p, Chains(s))
  BY DEF Typed, TypedOver, FormedFor
<1>4. Opens(p, m) /\ s # NoSession => ~HasMatch(s, m)
  BY DEF Opens, IsMatched
<1> HIDE DEF u, s
<1>5. 1..Len(u.prevSessions) = Chains(u) \ {0}
  <2>1. Len(u.prevSessions) \in Nat
    BY <1>2, RecordIs
  <2> QED BY <2>1 DEF Chains
<1>6. s = NoSession => Chains(u) = {0}
  BY <1>2, AloneIs
<1>7. s # NoSession =>
        /\ Within(u, s, Chains(u) \ {0}) /\ RecordFormed(u, p, Chains(u) \ {0})
        /\ Opens(p, m) \/ (Within(u, s, Chains(u)) /\ RecordFormed(u, p, Chains(u)))
  <2> SUFFICES ASSUME s # NoSession
               PROVE  /\ Within(u, s, Chains(u) \ {0}) /\ RecordFormed(u, p, Chains(u) \ {0})
                      /\ Opens(p, m) \/ (Within(u, s, Chains(u)) /\ RecordFormed(u, p, Chains(u)))
    OBVIOUS
  <2>1. Within(u, s, Chains(u) \ {0})
    BY <1>2, <1>5, ArrangesWithin
  <2>2. Opens(p, m) \/ Within(u, s, Chains(u))
    BY <1>2, ArrangesWithin
  <2>3. RecordFormed(s, p, Chains(s))
    BY <1>3
  <2> QED BY <2>1, <2>2, <2>3, WithinIs
<1>8. s # NoSession => Forgets(p, m) \/ Bases(s) \subseteq Bases(u)
  BY <1>2, KeepsBases
<1>9. Opens(p, m) /\ s # NoSession => m.baseKey \notin Bases(s)
  BY <1>3, <1>4, NotMatched
<1>10. RecordFormed(u, p, Chains(u) \ {0})
  BY <1>6, <1>7 DEF RecordFormed
<1> QED BY <1>1, <1>2, <1>6, <1>7, <1>8, <1>9, <1>10 DEF u, s

\* What is written is the record with one session that heard the message: a chain of
\* it is further, or the ratchet turned.
LEMMA DecryptedIs ==
  ASSUME RatchetAssumption, SessionsAssumption, Typed, NEW p \in Parties,
         NEW m \in Messages(KeysMade), CanDecrypt(p, m), FormedFor(p)
  PROVE  LET u == SessionFor(p, m)
             key == NewKey(p, 1)
             t == DecryptedFrom(u, m, key)
         IN /\ Chains(t) = Chains(u) /\ \A i \in Chains(u) \ {0} : Core(t, i) = Core(u, i)
            /\ Turns(p, m) => Turned(Core(t, 0), Core(u, 0), m, key)
            /\ ~Turns(p, m) => Advances(Core(t, 0), Core(u, 0), m)
<1> DEFINE u == SessionFor(p, m)
           key == NewKey(p, 1)
<1>1. u \in Session(KeysMade) /\ Decrypts(u, m)
  BY FrontFor
<1>2. Turns(p, m) <=> KnownChains(u, m) = {}
  BY DEF Turns
<1> DEFINE L == KeysMade \cup {key}
<1>3. KeysMade \subseteq L /\ key \in L
  OBVIOUS
<1> HIDE DEF u, key, L
<1>4. CASE KnownChains(u, m) = {}
  BY <1>1, <1>2, <1>3, <1>4, DecryptedTurns DEF u, key
<1>5. CASE KnownChains(u, m) # {}
  BY <1>1, <1>2, <1>5, DecryptedAdvances DEF u, key
<1> QED BY <1>4, <1>5

LEMMA DecryptedFormed ==
  ASSUME RatchetAssumption, SessionsAssumption, Typed, NEW p \in Parties,
         NEW m \in Messages(KeysMade), CanDecrypt(p, m), FormedFor(p), MessageFormed(m)
  PROVE  LET t == DecryptedFrom(SessionFor(p, m), m, NewKey(p, 1))
         IN RecordFormed(t, p, Chains(t)) /\ SecretOf(Core(t, 0)) = <<m.baseKey, m.oneTimeId>>
<1> DEFINE u == SessionFor(p, m)
           key == NewKey(p, 1)
           t == DecryptedFrom(u, m, key)
<1>1. /\ u \in Session(KeysMade)
      /\ Opens(p, m) => /\ Turns(p, m) /\ Core(u, 0) = Incoming(p, m)
                        /\ RecordFormed(u, p, Chains(u) \ {0})
      /\ ~Opens(p, m) => RecordFormed(u, p, Chains(u))
  BY FrontFor
<1>2. /\ Chains(t) = Chains(u) /\ \A i \in Chains(u) \ {0} : Core(t, i) = Core(u, i)
      /\ Turns(p, m) => Turned(Core(t, 0), Core(u, 0), m, key)
      /\ ~Turns(p, m) => Advances(Core(t, 0), Core(u, 0), m)
  BY DecryptedIs
<1>3. key[1] = p /\ key # SignedPreKey(p)
  <2>1. 1 \in Nat \ {0}
    OBVIOUS
  <2> QED BY <2>1, NewKeyIs
<1>4. m.chainKey[1] = <<m.baseKey, m.oneTimeId>>
  BY DEF MessageFormed
<1> HIDE DEF u, t, key
<1>5. 0 \in Chains(u)
  BY <1>1, CoreIs
<1>6. CASE Turns(p, m)
  <2>1. Rooted(Core(u, 0))
    <3>1. CASE Opens(p, m)
      BY <1>1, <3>1, IncomingCore
    <3>2. CASE ~Opens(p, m)
      <4>1. Formed(Core(u, 0), p)
        BY <1>1, <1>5, <3>2 DEF RecordFormed
      <4> QED BY <4>1 DEF Formed, Rooted
    <3> QED BY <3>1, <3>2
  <2>2. RecordFormed(u, p, Chains(u) \ {0})
    BY <1>1 DEF RecordFormed
  <2>3. RecordFormed(t, p, Chains(t)) /\ SecretOf(Core(t, 0)) = m.chainKey[1]
    BY <1>1, <1>2, <1>3, <1>6, <2>1, <2>2, TurnedFormed
  <2> QED BY <1>4, <2>3 DEF u, t, key
<1>7. CASE ~Turns(p, m)
  <2>1. RecordFormed(t, p, Chains(t)) /\ SecretOf(Core(t, 0)) = m.chainKey[1]
    BY <1>1, <1>2, <1>7, KnownFormed
  <2> QED BY <1>4, <2>1 DEF u, t, key
<1> QED BY <1>6, <1>7

\* The record t that p writes after m, and whether that is its first time: it has no
\* key of m nor of what p heard before.
DecryptsTo(p, m, t) ==
  /\ Apart(t, Chains(t))
  /\ \A n \in got[p] : Reopens(p, n) \/ Deaf(t, n, Chains(t))
  /\ Deaf(t, m, Chains(t))
  /\ m \notin got[p] \/ Reopens(p, m)
  /\ \A k \in KeysMade :
       \/ k[1] # p \/ k = SignedPreKey(p)
       \/ session[p] # NoSession /\ ~Unheard(k, session[p], Chains(session[p]))
       \/ Unheard(k, t, Chains(t)) /\ k \notin Latest(m.chainKey)

LEMMA KnownDecrypts ==
  ASSUME RatchetAssumption, SessionsAssumption, Typed, NEW p \in Parties,
         NEW m \in Messages(KeysMade), CanDecrypt(p, m), FormedFor(p), Hears(p),
         got[p] \subseteq Messages(KeysMade), ~Turns(p, m)
  PROVE  DecryptsTo(p, m, DecryptedFrom(SessionFor(p, m), m, NewKey(p, 1)))
<1> DEFINE u == SessionFor(p, m)
           s == session[p]
           key == NewKey(p, 1)
           t == DecryptedFrom(u, m, key)
<1>1. /\ u \in Session(KeysMade) /\ s # NoSession /\ Within(u, s, Chains(u))
      /\ RecordFormed(u, p, Chains(u))
  BY FrontFor
<1>2. /\ Chains(t) = Chains(u) /\ \A i \in Chains(u) \ {0} : Core(t, i) = Core(u, i)
      /\ Advances(Core(t, 0), Core(u, 0), m)
  BY DecryptedIs
<1>3. /\ Apart(s, Chains(s))
      /\ \A n \in got[p] : Reopens(p, n) \/ Deaf(s, n, Chains(s))
  BY <1>1 DEF Hears, RecordHears
<1> HIDE DEF u, s, key, t
<1>4. /\ Apart(u, Chains(u))
      /\ \A n : Deaf(s, n, Chains(s)) => Deaf(u, n, Chains(u))
      /\ \A k : Unheard(k, s, Chains(s)) => Unheard(k, u, Chains(u))
  BY <1>1, <1>3, WithinIs
<1>5. /\ Apart(t, Chains(t)) /\ Deaf(t, m, Chains(t)) /\ ~Deaf(u, m, Chains(u))
      /\ \A n \in Messages(KeysMade) : Deaf(u, n, Chains(u)) => Deaf(t, n, Chains(t))
      /\ \A k : Unheard(k, u, Chains(u)) =>
           Unheard(k, t, Chains(t)) /\ k \notin Latest(m.chainKey)
  BY <1>1, <1>2, <1>4, KnownKeeps
<1>6. \A n \in got[p] : Reopens(p, n) \/ Deaf(t, n, Chains(t))
  BY <1>3, <1>4, <1>5
<1>7. m \notin got[p] \/ Reopens(p, m)
  BY <1>3, <1>4, <1>5
<1>8. \A k \in KeysMade : Unheard(k, s, Chains(s)) => Unheard(k, t, Chains(t)) /\ k \notin Latest(m.chainKey)
  BY <1>4, <1>5
<1>9. DecryptsTo(p, m, t)
  BY <1>1, <1>5, <1>6, <1>7, <1>8 DEF DecryptsTo, s
<1> QED BY <1>9 DEF t, u, key

LEMMA TurnDecrypts ==
  ASSUME RatchetAssumption, SessionsAssumption, Typed, NEW p \in Parties,
         NEW m \in Messages(KeysMade), CanDecrypt(p, m), FormedFor(p), MessageFormed(m), Hears(p),
         m.from # p, NewKey(p, 1) \notin KeysMade,
         got[p] \subseteq Messages(KeysMade), Turns(p, m), ~Opens(p, m)
  PROVE  DecryptsTo(p, m, DecryptedFrom(SessionFor(p, m), m, NewKey(p, 1)))
<1> DEFINE u == SessionFor(p, m)
           s == session[p]
           key == NewKey(p, 1)
           t == DecryptedFrom(u, m, key)
<1>1. /\ u \in Session(KeysMade) /\ s # NoSession /\ Within(u, s, Chains(u))
      /\ RecordFormed(u, p, Chains(u))
  BY FrontFor
<1>2. /\ Chains(t) = Chains(u) /\ \A i \in Chains(u) \ {0} : Core(t, i) = Core(u, i)
      /\ Turned(Core(t, 0), Core(u, 0), m, key)
  BY DecryptedIs
<1>3. /\ Apart(s, Chains(s))
      /\ \A n \in got[p] : Reopens(p, n) \/ Deaf(s, n, Chains(s))
  BY <1>1 DEF Hears, RecordHears
<1>4. m.ratchetKey[1] # p
  BY DEF MessageFormed
<1>5. key \notin KeysMade
  OBVIOUS
<1> HIDE DEF u, s, key, t
<1>6. /\ Apart(u, Chains(u))
      /\ \A n : Deaf(s, n, Chains(s)) => Deaf(u, n, Chains(u))
      /\ \A k : Unheard(k, s, Chains(s)) => Unheard(k, u, Chains(u))
  BY <1>1, <1>3, WithinIs
<1>7. 0 \in Chains(u) /\ \A j \in Chains(u) : Formed(Core(u, j), p)
  BY <1>1, CoreIs DEF RecordFormed
<1>8. Rooted(Core(u, 0))
  BY <1>7 DEF Formed, Rooted
<1>9. Leads(u, m)
  <2>1. \A j \in Chains(u) : RatchetOf(u, j) # m.ratchetKey
    BY <1>4, <1>7 DEF Formed, RatchetOf
  <2>2. \A j \in Chains(u) \ {0} : Base(u, j) # Base(u, 0) /\ RatchetOf(u, j) # RatchetOf(u, 0)
    BY <1>6, <1>7 DEF Apart
  <2>3. \A j \in Chains(u) : \A a \in 1..Len(Receiving(u, 0)) :
          RatchetOf(u, j) \notin Latest(Receiving(u, 0)[a].chainKey)
    BY <1>6, <1>7 DEF Apart
  <2>4. \A a, b \in 1..Len(Receiving(u, 0)) :
          Receiving(u, 0)[a].chainKey = Receiving(u, 0)[b].chainKey => a = b
    BY <1>6, <1>7 DEF Apart
  <2> QED BY <2>1, <2>2, <2>3, <2>4 DEF Leads
<1>10. RecordFormed(u, p, Chains(u) \ {0}) /\ Apart(u, Chains(u) \ {0})
  BY <1>6, <1>7 DEF RecordFormed, Apart
<1>11. Apart(t, Chains(t))
  BY <1>1, <1>2, <1>5, <1>9, <1>10, TurnedApart
<1>12. /\ Deaf(t, m, Chains(t))
       /\ \A n \in Messages(KeysMade) :
            /\ n.chainKey # m.chainKey
            /\ Deaf(u, n, Chains(u) \ {0})
            /\ \A a \in 1..Len(Receiving(u, 0)) :
                 Receiving(u, 0)[a].chainKey = n.chainKey => Used(Receiving(u, 0)[a], n.counter)
            => Deaf(t, n, Chains(t))
       /\ \A k \in KeysMade : k # m.ratchetKey /\ Unheard(k, u, Chains(u)) =>
            Unheard(k, t, Chains(t)) /\ k \notin Latest(m.chainKey)
  BY <1>1, <1>2, <1>5, <1>8, <1>9, <1>10, TurnedDeaf
<1>13. RatchetOf(u, 0) \in Latest(m.chainKey)
  <2>1. Latest(m.chainKey) = {RatchetOf(u, 0), m.ratchetKey}
    BY <1>1, <1>2, TurnedIs
  <2> QED BY <2>1
<1>14. \A n : Deaf(u, n, Chains(u)) => n.chainKey # m.chainKey
  BY <1>7, <1>13 DEF Deaf
<1>15. ASSUME NEW n \in got[p], Deaf(u, n, Chains(u)) PROVE Deaf(t, n, Chains(t))
  <2>1. /\ Deaf(u, n, Chains(u) \ {0})
        /\ \A a \in 1..Len(Receiving(u, 0)) :
             Receiving(u, 0)[a].chainKey = n.chainKey => Used(Receiving(u, 0)[a], n.counter)
    BY <1>7, <1>15 DEF Deaf
  <2>2. n.chainKey # m.chainKey /\ n \in Messages(KeysMade)
    BY <1>14, <1>15
  <2> QED BY <1>12, <2>1, <2>2
<1>16. \A n \in got[p] : Reopens(p, n) \/ Deaf(t, n, Chains(t))
  BY <1>3, <1>6, <1>15
<1>17. m \notin got[p] \/ Reopens(p, m)
  BY <1>3, <1>6, <1>14
<1>18. \A k \in KeysMade : k[1] = p /\ Unheard(k, s, Chains(s)) =>
         Unheard(k, t, Chains(t)) /\ k \notin Latest(m.chainKey)
  BY <1>4, <1>6, <1>12
<1>19. DecryptsTo(p, m, t)
  BY <1>1, <1>11, <1>12, <1>16, <1>17, <1>18 DEF DecryptsTo, s
<1> QED BY <1>19 DEF t, u, key

LEMMA OpenDecrypts ==
  ASSUME RatchetAssumption, SessionsAssumption, Typed, NEW p \in Parties,
         NEW m \in Messages(KeysMade), CanDecrypt(p, m), FormedFor(p), MessageFormed(m), Hears(p),
         m.from # p, NewKey(p, 1) \notin KeysMade,
         got[p] \subseteq Messages(KeysMade), \A n \in got[p] : MessageFormed(n), Opens(p, m)
  PROVE  DecryptsTo(p, m, DecryptedFrom(SessionFor(p, m), m, NewKey(p, 1)))
<1> DEFINE u == SessionFor(p, m)
           s == session[p]
           key == NewKey(p, 1)
           t == DecryptedFrom(u, m, key)
<1>1. /\ u \in Session(KeysMade) /\ Turns(p, m) /\ Core(u, 0) = Incoming(p, m)
      /\ RecordFormed(u, p, Chains(u) \ {0})
      /\ s = NoSession => Chains(u) = {0}
      /\ s # NoSession => Within(u, s, Chains(u) \ {0}) /\ m.baseKey \notin Bases(s)
  BY FrontFor
<1>2. /\ Chains(t) = Chains(u) /\ \A i \in Chains(u) \ {0} : Core(t, i) = Core(u, i)
      /\ Turned(Core(t, 0), Core(u, 0), m, key)
  BY <1>1, DecryptedIs
<1>3. s # NoSession =>
        /\ Apart(s, Chains(s))
        /\ \A n \in got[p] : Reopens(p, n) \/ Deaf(s, n, Chains(s))
  BY DEF Hears, RecordHears
<1>4. m.ratchetKey[1] # p /\ m.type = "pkmsg" /\ m.oneTimeId \in preKeys[p] \cup {NoKeyId}
  BY DEF MessageFormed, Opens, CanDecrypt, HasPreKeys
<1>5. key \notin KeysMade
  OBVIOUS
\* a message of the same chain is a first message of the session that is opened
<1>6. ASSUME NEW n \in got[p], n.chainKey = m.chainKey PROVE Reopens(p, n)
  <2>1. MessageFormed(n)
    OBVIOUS
  <2>2. n.type = "pkmsg" /\ <<n.baseKey, n.oneTimeId>> = <<m.baseKey, m.oneTimeId>>
    BY <1>4, <1>6, <2>1 DEF MessageFormed
  <2>3. n.baseKey = m.baseKey /\ n.oneTimeId = m.oneTimeId
    BY <2>2
  <2>4. /\ n.oneTimeId \notin preKeys[p]
        /\ Forgetful(p) \/ (session[p] # NoSession /\ n.baseKey \in Bases(session[p]))
    BY <2>2 DEF Hears, FirstHears
  <2> QED BY <1>1, <1>4, <2>2, <2>3, <2>4 DEF Reopens
<1>7. /\ Base(u, 0) = m.baseKey /\ RatchetOf(u, 0) = SignedPreKey(p) /\ Len(Receiving(u, 0)) = 0
      /\ Rooted(Core(u, 0))
  BY <1>1, IncomingCore DEF Base, RatchetOf, Receiving
<1> HIDE DEF u, s, key, t
<1>8. /\ Apart(u, Chains(u) \ {0})
      /\ \A n \in got[p] : Reopens(p, n) \/ Deaf(u, n, Chains(u) \ {0})
      /\ \A k : (s # NoSession /\ ~Unheard(k, s, Chains(s))) \/ Unheard(k, u, Chains(u) \ {0})
      /\ \A j \in Chains(u) \ {0} : Base(u, j) # m.baseKey
  <2>1. CASE s = NoSession
    <3>1. Chains(u) \ {0} = {}
      BY <1>1, <2>1
    <3> QED BY <2>1, <3>1 DEF Apart, Deaf, Unheard
  <2>2. CASE s # NoSession
    <3>1. Within(u, s, Chains(u) \ {0})
      BY <1>1, <2>2
    <3>2. /\ Apart(s, Chains(s)) => Apart(u, Chains(u) \ {0})
          /\ \A n : Deaf(s, n, Chains(s)) => Deaf(u, n, Chains(u) \ {0})
          /\ \A k : Unheard(k, s, Chains(s)) => Unheard(k, u, Chains(u) \ {0})
      BY <3>1, WithinIs
    <3>4. ASSUME NEW i \in Chains(u) \ {0} PROVE Base(u, i) \in Bases(s)
      <4>1. PICK j \in Chains(s) : Base(u, i) = Base(s, j)
        BY <3>1, WithinIs
      <4> QED BY <4>1 DEF Bases
    <3>3. \A j \in Chains(u) \ {0} : Base(u, j) # m.baseKey
      BY <1>1, <2>2, <3>4
    <3> QED BY <1>3, <2>2, <3>2, <3>3
  <2> QED BY <2>1, <2>2
<1>9. 1..Len(Receiving(u, 0)) = {}
  BY <1>7
<1>10. Leads(u, m)
  <2>1. \A j \in Chains(u) \ {0} : RatchetOf(u, j) # m.ratchetKey /\ RatchetOf(u, j) # SignedPreKey(p)
    BY <1>1, <1>4 DEF RecordFormed, Formed, RatchetOf
  <2> QED BY <1>7, <1>8, <1>9, <2>1 DEF Leads
<1>11. Apart(t, Chains(t))
  BY <1>1, <1>2, <1>5, <1>8, <1>10, TurnedApart
<1>12. /\ Deaf(t, m, Chains(t))
       /\ \A n \in Messages(KeysMade) :
            /\ n.chainKey # m.chainKey
            /\ Deaf(u, n, Chains(u) \ {0})
            /\ \A a \in 1..Len(Receiving(u, 0)) :
                 Receiving(u, 0)[a].chainKey = n.chainKey => Used(Receiving(u, 0)[a], n.counter)
            => Deaf(t, n, Chains(t))
       /\ \A k \in KeysMade : k # m.ratchetKey /\ Unheard(k, u, Chains(u)) =>
            Unheard(k, t, Chains(t)) /\ k \notin Latest(m.chainKey)
  BY <1>1, <1>2, <1>5, <1>7, <1>10, TurnedDeaf
<1>13. \A n \in got[p] : Reopens(p, n) \/ Deaf(t, n, Chains(t))
  BY <1>6, <1>8, <1>9, <1>12
<1>14. m \notin got[p] \/ Reopens(p, m)
  BY <1>6
<1>15. \A k \in KeysMade :
         \/ k[1] # p \/ k = SignedPreKey(p)
         \/ s # NoSession /\ ~Unheard(k, s, Chains(s))
         \/ Unheard(k, t, Chains(t)) /\ k \notin Latest(m.chainKey)
  <2> SUFFICES ASSUME NEW k \in KeysMade, k[1] = p, k # SignedPreKey(p),
                      ~(s # NoSession /\ ~Unheard(k, s, Chains(s)))
               PROVE  Unheard(k, t, Chains(t)) /\ k \notin Latest(m.chainKey)
    OBVIOUS
  <2>1. Unheard(k, u, Chains(u) \ {0})
    BY <1>8
  <2>2. Unheard(k, u, Chains(u))
    BY <1>7, <1>9, <2>1 DEF Unheard
  <2> QED BY <1>4, <1>12, <2>2
<1>16. DecryptsTo(p, m, t)
  BY <1>11, <1>12, <1>13, <1>14, <1>15 DEF DecryptsTo, s
<1> QED BY <1>16 DEF t, u, key

\* The keys and sessions that are gone by then.
LEMMA DecryptSpends ==
  ASSUME RatchetAssumption, SessionsAssumption, Typed, NEW p \in Parties,
         NEW m \in Messages(KeysMade), CanDecrypt(p, m), FormedFor(p), Hears(p)
  PROVE  LET t == DecryptedFrom(SessionFor(p, m), m, NewKey(p, 1))
         IN /\ Spends(t, p, IF Opens(p, m) /\ m.oneTimeId # NoKeyId THEN Chains(t) \ {0} ELSE Chains(t),
                      preKeys[p])
            /\ session[p] # NoSession => Forgets(p, m) \/ Bases(session[p]) \subseteq Bases(t)
<1> DEFINE u == SessionFor(p, m)
           s == session[p]
           key == NewKey(p, 1)
           t == DecryptedFrom(u, m, key)
           left == preKeys[p]
<1>1. /\ u \in Session(KeysMade)
      /\ Opens(p, m) =>
           /\ Core(u, 0) = Incoming(p, m)
           /\ s = NoSession => Chains(u) = {0}
           /\ s # NoSession => Within(u, s, Chains(u) \ {0})
      /\ ~Opens(p, m) => s # NoSession /\ Within(u, s, Chains(u))
      /\ s # NoSession => Forgets(p, m) \/ Bases(s) \subseteq Bases(u)
  BY FrontFor
<1>2. /\ Chains(t) = Chains(u) /\ \A i \in Chains(u) \ {0} : Core(t, i) = Core(u, i)
      /\ Turns(p, m) => Turned(Core(t, 0), Core(u, 0), m, key)
      /\ ~Turns(p, m) => Advances(Core(t, 0), Core(u, 0), m)
  BY DecryptedIs
<1>3. s # NoSession => Spends(s, p, Chains(s), left)
  BY DEF Hears, RecordHears
<1>4. left \subseteq OneTimeKeys /\ NoKeyId \notin OneTimeKeys
  BY DEF Typed, TypedKeys, SessionsAssumption
<1> HIDE DEF u, s, key, t, left
<1>5. 0 \in Chains(u)
  BY <1>1, CoreIs
<1>6. Base(t, 0) = Base(u, 0) /\ Core(t, 0).oneTimeId = Core(u, 0).oneTimeId
  BY <1>2 DEF Turned, Advances, Base
<1>7. \A i \in Chains(u) : Base(t, i) = Base(u, i) /\ Core(t, i).oneTimeId = Core(u, i).oneTimeId
  <2> SUFFICES ASSUME NEW i \in Chains(u)
               PROVE  Base(t, i) = Base(u, i) /\ Core(t, i).oneTimeId = Core(u, i).oneTimeId
    OBVIOUS
  <2>1. CASE i = 0
    BY <1>6, <2>1
  <2>2. CASE i # 0
    BY <1>2, <2>2 DEF Base
  <2> QED BY <2>1, <2>2
<1>8. Bases(t) = Bases(u)
  BY <1>2, <1>7 DEF Bases
<1>9. \A is \in {Chains(u), Chains(u) \ {0}} : s # NoSession /\ Within(u, s, is) => Spends(t, p, is, left)
  <2> SUFFICES ASSUME NEW is \in {Chains(u), Chains(u) \ {0}}, s # NoSession, Within(u, s, is),
                      NEW i \in is, Base(t, i)[1] # p
               PROVE  Core(t, i).oneTimeId \notin left
    BY DEF Spends
  <2>1. PICK j \in Chains(s) : Base(u, i) = Base(s, j) /\ Core(u, i).oneTimeId = Core(s, j).oneTimeId
    BY WithinIs
  <2>2. i \in Chains(u)
    OBVIOUS
  <2> QED BY <1>3, <1>7, <2>1, <2>2 DEF Spends
<1> DEFINE is == IF Opens(p, m) /\ m.oneTimeId # NoKeyId THEN Chains(t) \ {0} ELSE Chains(t)
<1>10. Spends(t, p, is, left)
  <2>1. CASE ~Opens(p, m)
    <3>1. s # NoSession /\ Within(u, s, Chains(u))
      BY <1>1, <2>1
    <3>2. Spends(t, p, Chains(u), left)
      BY <1>9, <3>1
    <3>3. is = Chains(u)
      BY <1>2, <2>1
    <3> QED BY <3>2, <3>3
  <2>2. CASE Opens(p, m)
    <3>1. Spends(t, p, Chains(u) \ {0}, left)
      <4>1. CASE s = NoSession
        <5>1. Chains(u) \ {0} = {}
          BY <1>1, <2>2, <4>1
        <5> QED BY <5>1 DEF Spends
      <4>2. CASE s # NoSession
        BY <1>1, <1>9, <2>2, <4>2
      <4> QED BY <4>1, <4>2
    <3>2. CASE m.oneTimeId = NoKeyId
      <4>1. Core(t, 0).oneTimeId = NoKeyId
        BY <1>1, <1>6, <2>2, <3>2, IncomingCore
      <4>2. Core(t, 0).oneTimeId \notin left
        BY <1>4, <4>1
      <4>3. is = Chains(u)
        BY <1>2, <3>2
      <4>4. Spends(t, p, Chains(u), left)
        BY <3>1, <4>2 DEF Spends
      <4> QED BY <4>3, <4>4
    <3>3. CASE m.oneTimeId # NoKeyId
      <4>1. is = Chains(u) \ {0}
        BY <1>2, <2>2, <3>3
      <4> QED BY <3>1, <4>1
    <3> QED BY <3>2, <3>3
  <2> QED BY <2>1, <2>2
<1> HIDE DEF is
<1>11. Spends(t, p, is, left) /\ (s # NoSession => Forgets(p, m) \/ Bases(s) \subseteq Bases(t))
  BY <1>1, <1>8, <1>10
<1> QED BY <1>11 DEF u, s, key, t, left, is

\* What p has in hand once a message of its peer decrypted.
LEMMA DecryptGives ==
  ASSUME RatchetAssumption, SessionsAssumption, Typed, \A q \in Parties : FormedFor(q),
         NEW p \in Parties, NEW m \in sent, Decrypt(p, m)
  PROVE  /\ m \in Messages(KeysMade) /\ MessageFormed(m) /\ m.from = Peer(p)
         /\ \E t, step :
              /\ op' = [op EXCEPT ![p] = [step |-> step, session |-> t, message |-> m]]
              /\ step \in {"opened", "decrypted"}
              /\ RecordFormed(t, p, Chains(t)) /\ SecretOf(Core(t, 0)) = <<m.baseKey, m.oneTimeId>>
              /\ Hears(p) =>
                   /\ DecryptsTo(p, m, t)
                   /\ Spends(t, p, IF step = "opened" THEN Chains(t) \ {0} ELSE Chains(t), preKeys[p])
                   /\ session[p] # NoSession =>
                        "session forgotten" \in lapses'[p] \/ Bases(session[p]) \subseteq Bases(t)
<1> DEFINE step == IF Opens(p, m) /\ m.oneTimeId # NoKeyId THEN "opened" ELSE "decrypted"
           key == NewKey(p, 1)
           t == DecryptedFrom(SessionFor(p, m), m, key)
<1>1. /\ CanDecrypt(p, m) /\ m.from = Peer(p) /\ FormedFor(p)
      /\ op' = [op EXCEPT ![p] = [step |-> step, session |-> t, message |-> m]]
  BY DEF Decrypt, IsFor
<1>2. Peer(p) \in Parties /\ Peer(p) # p
  BY PeerIs
<1>3. /\ m \in Messages(KeysMade) /\ got[p] \subseteq SentBy(Peer(p))
      /\ SentBy(Peer(p)) \subseteq Messages(KeysMade)
  BY <1>2, SentByIs DEF Typed, TypedOver, Heard
<1>4. \A n \in SentBy(Peer(p)) : MessageFormed(n)
  BY <1>2 DEF FormedFor
<1>5. MessageFormed(m)
  BY <1>1, <1>4 DEF SentBy
<1>6. key \notin KeysMade
  <2>1. generated[p] \in Nat
    BY DEF Typed, TypedKeys, SessionsAssumption
  <2>2. ~(generated[p] + 1 <= generated[p])
    BY <2>1
  <2> QED BY <2>2 DEF NewKey, KeysMade
<1>7. RecordFormed(t, p, Chains(t)) /\ SecretOf(Core(t, 0)) = <<m.baseKey, m.oneTimeId>>
  BY <1>1, <1>3, <1>5, DecryptedFormed
<1>8. Hears(p) => DecryptsTo(p, m, t)
  <2> SUFFICES ASSUME Hears(p) PROVE DecryptsTo(p, m, t)
    OBVIOUS
  <2>1. got[p] \subseteq Messages(KeysMade) /\ \A n \in got[p] : MessageFormed(n)
    BY <1>3, <1>4
  <2>2. m.from # p
    BY <1>1, <1>2
  <2>3. CASE Opens(p, m)
    BY <1>1, <1>3, <1>5, <1>6, <2>1, <2>2, <2>3, OpenDecrypts
  <2>4. CASE ~Opens(p, m) /\ Turns(p, m)
    BY <1>1, <1>3, <1>5, <1>6, <2>1, <2>2, <2>4, TurnDecrypts
  <2>5. CASE ~Turns(p, m)
    BY <1>1, <1>3, <2>1, <2>5, KnownDecrypts
  <2> QED BY <2>3, <2>4, <2>5
<1>9. Hears(p) =>
        /\ Spends(t, p, IF Opens(p, m) /\ m.oneTimeId # NoKeyId THEN Chains(t) \ {0} ELSE Chains(t),
                  preKeys[p])
        /\ session[p] # NoSession => Forgets(p, m) \/ Bases(session[p]) \subseteq Bases(t)
  BY <1>1, <1>3, DecryptSpends
<1>10. Forgets(p, m) => "session forgotten" \in lapses'[p]
  BY DEF Decrypt, Lapse, Typed, TypedKeys
<1> HIDE DEF t, key
<1>11. Hears(p) =>
         /\ Spends(t, p, IF step = "opened" THEN Chains(t) \ {0} ELSE Chains(t), preKeys[p])
         /\ session[p] # NoSession =>
              "session forgotten" \in lapses'[p] \/ Bases(session[p]) \subseteq Bases(t)
  <2>1. CASE Opens(p, m) /\ m.oneTimeId # NoKeyId
    BY <1>9, <1>10, <2>1
  <2>2. CASE ~(Opens(p, m) /\ m.oneTimeId # NoKeyId)
    BY <1>9, <1>10, <2>2
  <2> QED BY <2>1, <2>2
<1>12. step \in {"opened", "decrypted"}
  OBVIOUS
<1> HIDE DEF step
<1> QED BY <1>1, <1>3, <1>5, <1>7, <1>8, <1>11, <1>12

LEMMA DecryptFormed ==
  ASSUME RatchetAssumption, SessionsAssumption, Typed, \A q \in Parties : FormedFor(q),
         NEW p \in Parties, NEW m \in sent, Decrypt(p, m)
  PROVE  FormedFor(p)'
<1>1. PICK t, step :
        /\ op' = [op EXCEPT ![p] = [step |-> step, session |-> t, message |-> m]]
        /\ RecordFormed(t, p, Chains(t))
  BY DecryptGives
<1>2. MessageFormed(m)
  BY DecryptGives
<1>3. op'[p].session = t /\ op'[p].message = m
  BY <1>1 DEF Typed, TypedOver
<1>4. UNCHANGED <<session, task, sent>>
  BY DEF Decrypt
<1>5. SentBy(p)' = SentBy(p)
  BY <1>4 DEF SentBy
<1> QED BY <1>1, <1>2, <1>3, <1>4, <1>5 DEF FormedFor

LEMMA ResolveFormed ==
  ASSUME RatchetAssumption, SessionsAssumption, Typed, NEW p \in Parties,
         Resolve(p) \/ Refetch(p), FormedFor(p)
  PROVE  FormedFor(p)'
<1>1. UNCHANGED <<session, op, sent>>
  BY DEF Resolve, Refetch
<1>2. CASE Prepare(p, "prepared") \/ Prepare(p, "renewing")
  BY <1>1, <1>2, PrepareFormed
<1>3. CASE /\ session[p] # NoSession
           /\ task' = [task EXCEPT ![p] = [step |-> "ready", session |-> session[p]]]
  <2>1. task'[p].session = session[p]
    BY <1>3 DEF Typed, TypedOver
  <2>2. SentBy(p)' = SentBy(p)
    BY <1>1 DEF SentBy
  <2> QED BY <1>1, <1>3, <2>1, <2>2 DEF FormedFor
<1> QED BY <1>2, <1>3 DEF Resolve, Refetch

LEMMA OthersFormed ==
  ASSUME NEW p \in Parties, LeavesOthers(p), NEW q \in Parties \ {p}, FormedFor(q)
  PROVE  FormedFor(q)'
<1>1. /\ session'[q] = session[q] /\ task'[q] = task[q] /\ op'[q] = op[q]
      /\ SentBy(q)' = SentBy(q)
  BY DEF LeavesOthers
<1> QED BY <1>1 DEF FormedFor

LEMMA StepFormed ==
  ASSUME RatchetAssumption, SessionsAssumption, Typed, \A p \in Parties : FormedFor(p), [Next]_vars
  PROVE  \A p \in Parties : FormedFor(p)'
<1>1. ASSUME NEW p \in Parties, LeavesOthers(p), FormedFor(p)'
      PROVE  \A q \in Parties : FormedFor(q)'
  BY <1>1, OthersFormed
<1>2. ASSUME NEW p \in Parties,
             \/ Resolve(p) \/ Persist(p) \/ Release(p) \/ Consume(p) \/ Deliver(p)
             \/ Refetch(p) \/ Reestablish(p) \/ Delete(p) \/ Interrupt(p)
      PROVE  \A q \in Parties : FormedFor(q)'
  <2>1. FormedFor(p)'
    BY <1>2, ResolveFormed, MovesFormed
  <2> QED BY <1>1, <1>2, <2>1, StepLeaves
<1>3. ASSUME NEW p \in Parties, NEW prefetched \in BOOLEAN, Encrypt(p, prefetched)
      PROVE  \A q \in Parties : FormedFor(q)'
  BY <1>1, <1>3, StepLeaves, EncryptFormed
<1>4. ASSUME NEW p \in Parties, NEW m \in sent, Decrypt(p, m)
      PROVE  \A q \in Parties : FormedFor(q)'
  BY <1>1, <1>4, StepLeaves, DecryptFormed
<1>5. CASE UNCHANGED vars
  BY <1>5 DEF vars, FormedFor, SentBy
<1> QED BY <1>2, <1>3, <1>4, <1>5 DEF Next

-----------------------------------------------------------------------------
(* Each step keeps what was heard apart from what is stored.               *)

\* A session record is a record.
LEMMA NotAbsent ==
  ASSUME NoSessionAssumption, NEW s \in Session(KeysMade)
  PROVE  s # NoSession
<1> DEFINE Keys == Parties \X Nat
           Names == Seq((Keys \X Nat) \cup SUBSET Keys)
           Received == [ratchetKey : Keys, chainKey : Names, nextMsgIndex : Nat, unused : SUBSET Nat]
           Sending == [ratchetKey : Keys, chainKey : Names, nextMsgIndex : Nat]
           Records(P) ==
             [aliceBaseKey : Keys, oneTimeId : Nat, initialExchange : BOOLEAN, rootKey : Names,
              recvChains : Seq(Received), sendChain : Sending, prevSessions : P]
<1> DEFINE K == KeysMade
<1>1. K \subseteq Keys
  BY DEF KeysMade
<1> HIDE DEF K
<1>2. ChainKeys(K) \subseteq Names
  <2>1. (K \X Nat) \cup SUBSET K \subseteq (Keys \X Nat) \cup SUBSET Keys
    BY <1>1
  <2> QED BY <2>1, SeqMonotonic DEF ChainKeys
<1> HIDE DEF Keys, Names
<1>3. RecvChain(K) \subseteq Received /\ SendChain(K) \subseteq Sending
  BY <1>1, <1>2 DEF RecvChain, SendChain
<1> HIDE DEF Received, Sending
<1>4. SeqUpTo(RecvChain(K), MaxRecvChains) \subseteq Seq(Received)
  BY <1>3, SeqMonotonic DEF SeqUpTo
<1>5. ASSUME NEW P, NEW Q, P \subseteq Q
      PROVE  Record(K, P) \subseteq Records(Q)
  BY <1>1, <1>2, <1>3, <1>4, <1>5 DEF Record
<1> HIDE DEF Records
<1>6. PrevSession(K) \subseteq Records({<<>>})
  BY <1>5 DEF PrevSession
<1>7. SeqUpTo(PrevSession(K), MaxPrevSessions) \subseteq Seq(Records({<<>>}))
  BY <1>6, SeqMonotonic DEF SeqUpTo
<1>8. s \in Records(Seq(Records({<<>>})))
  BY <1>5, <1>7 DEF Session, K
<1>9. ASSUME NEW P PROVE RecordsWith(P) = Records(P)
  BY DEF RecordsWith, Records, Keys, Names, Received, Sending
<1> QED BY <1>8, <1>9 DEF NoSessionAssumption

LEMMA LapsesStay ==
  ASSUME NEW p, lapses[p] \subseteq lapses'[p]
  PROVE  /\ Forgetful(p) => Forgetful(p)'
         /\ \A m : Reopens(p, m) => Reopens(p, m)'
         /\ Lapsed(p, "deleted session used") => Lapsed(p, "deleted session used")'
BY DEF Forgetful, Reopens, Lapsed

LEMMA WithinSpends ==
  ASSUME NEW t, NEW s, NEW ks, Within(t, s, ks), NEW p, NEW left, Spends(s, p, Chains(s), left)
  PROVE  Spends(t, p, ks, left)
<1> SUFFICES ASSUME NEW i \in ks, Base(t, i)[1] # p
             PROVE  Core(t, i).oneTimeId \notin left
  BY DEF Spends
<1>1. PICK j \in Chains(s) : Base(t, i) = Base(s, j) /\ Core(t, i).oneTimeId = Core(s, j).oneTimeId
  BY WithinIs
<1> QED BY <1>1 DEF Spends

\* A key that was not made is in no session.
LEMMA NewUnheard ==
  ASSUME NEW K, NEW s \in Session(K), NEW key, key \notin K
  PROVE  Unheard(key, s, Chains(s))
<1>1. ASSUME NEW i \in Chains(s)
      PROVE  /\ RatchetOf(s, i) # key
             /\ \A a \in 1..Len(Receiving(s, i)) : key \notin Latest(Receiving(s, i)[a].chainKey)
  <2>1. /\ RatchetOf(s, i) \in K
        /\ \A a \in 1..Len(Receiving(s, i)) : Receiving(s, i)[a].chainKey \in ChainKeys(K)
    BY CoreFields DEF RatchetOf, Receiving
  <2> QED BY <2>1, LatestIs
<1> QED BY <1>1 DEF Unheard

\* What a party heard are messages of its peer.
LEMMA HeardIs ==
  ASSUME SessionsAssumption, Typed, NEW p \in Parties, \A q \in Parties : FormedFor(q)
  PROVE  \A m \in HeardBy(p) : m \in Messages(KeysMade) /\ MessageFormed(m) /\ m.from = Peer(p)
<1>1. Peer(p) \in Parties
  BY PeerIs
<1>2. got[p] \subseteq SentBy(Peer(p))
  BY DEF Typed, Heard
<1>3. Deciphering(p) => op[p].message \in SentBy(Peer(p))
  BY DEF Deciphering, Typed, InHand
<1>4. HeardBy(p) \subseteq SentBy(Peer(p))
  BY <1>2, <1>3 DEF HeardBy
<1>5. SentBy(Peer(p)) \subseteq Messages(KeysMade)
  BY <1>1, SentByIs
<1> QED BY <1>1, <1>4, <1>5 DEF FormedFor, SentBy

LEMMA PrepareHears ==
  ASSUME RatchetAssumption, SessionsAssumption, Typed, \A q \in Parties : FormedFor(q),
         NEW p \in Parties, NEW step \in {"prepared", "renewing"}, Prepare(p, step),
         UNCHANGED <<session, preKeys, op, got, lapses>>, Hears(p)
  PROVE  Hears(p)'
<1>1. PICK s \in Session(KeysMade') :
        /\ task' = [task EXCEPT ![p] = [step |-> step, session |-> s]]
        /\ RecordFormed(s, p, Chains(s)) /\ Chains(s) = {0}
        /\ Base(s, 0)[1] = p /\ RatchetOf(s, 0) \notin KeysMade
        /\ Len(Receiving(s, 0)) = 1 /\ Len(Receiving(s, 0)[1].chainKey) = 1
  BY PrepareGives
<1>2. task'[p].step = step /\ task'[p].session = s
  BY <1>1 DEF Typed, TypedOver
<1>3. session[p] = NoSession
  BY DEF Prepare
<1>4. RecordHears(p)' /\ WriteHears(p)' /\ MessageHears(p)' /\ FirstHears(p)'
  BY DEF Hears, RecordHears, WriteHears, MessageHears, FirstHears, HeardBy, Deciphering, Reopens,
         Forgetful, Lapsed
<1>5. op[p].step # "none" => Unheard(RatchetOf(s, 0), op[p].session, Chains(op[p].session))
  BY <1>1, OpIs, NewUnheard
<1>6. \A m \in HeardBy(p) : RatchetOf(s, 0) \notin Latest(m.chainKey)
  <2> SUFFICES ASSUME NEW m \in HeardBy(p) PROVE RatchetOf(s, 0) \notin Latest(m.chainKey)
    OBVIOUS
  <2>1. m.chainKey \in ChainKeys(KeysMade)
    BY HeardIs DEF Messages
  <2> QED BY <1>1, <2>1, LatestIs
<1>7. HeardBy(p)' = HeardBy(p)
  BY DEF HeardBy, Deciphering
<1>8. TaskHears(p)'
  BY <1>1, <1>2, <1>3, <1>5, <1>6, <1>7 DEF TaskHears
<1> QED BY <1>4, <1>8 DEF Hears

LEMMA ResolveHears ==
  ASSUME RatchetAssumption, SessionsAssumption, Typed, \A q \in Parties : FormedFor(q),
         NEW p \in Parties, Resolve(p) \/ Refetch(p), Hears(p)
  PROVE  Hears(p)'
<1>1. UNCHANGED <<session, preKeys, op, got, lapses>>
  BY DEF Resolve, Refetch
<1>2. CASE Prepare(p, "prepared") \/ Prepare(p, "renewing")
  BY <1>1, <1>2, PrepareHears
<1>3. CASE task' = [task EXCEPT ![p] = [step |-> "ready", session |-> session[p]]]
  <2>1. task'[p].step = "ready"
    BY <1>3 DEF Typed, TypedOver
  <2>2. TaskHears(p)'
    BY <2>1 DEF TaskHears
  <2> QED BY <1>1, <2>2 DEF Hears, RecordHears, WriteHears, MessageHears, FirstHears, HeardBy,
                            Deciphering, Reopens, Forgetful, Lapsed
<1> QED BY <1>2, <1>3 DEF Resolve, Refetch

\* A prepared session has heard nothing.
LEMMA AloneHears ==
  ASSUME SessionsAssumption, Typed, \A q \in Parties : FormedFor(q), NEW p \in Parties,
         task[p].step \in {"prepared", "renewing"}, TaskHears(p)
  PROVE  LET s == task[p].session
         IN /\ Apart(s, Chains(s)) /\ Spends(s, p, Chains(s), preKeys[p])
            /\ \A m \in got[p] : Deaf(s, m, Chains(s))
<1> DEFINE s == task[p].session
           c == Receiving(s, 0)
<1>1. /\ Chains(s) = {0} /\ Base(s, 0)[1] = p /\ Len(c) = 1 /\ Len(c[1].chainKey) = 1
      /\ \A m \in HeardBy(p) : RatchetOf(s, 0) \notin Latest(m.chainKey)
  BY DEF TaskHears
<1>2. \A m \in got[p] : m \in HeardBy(p) /\ Len(m.chainKey) >= 2
  BY HeardIs DEF HeardBy, MessageFormed
<1> HIDE DEF s, c
<1>3. 1..Len(c) = {1} /\ Latest(c[1].chainKey) = {}
  BY <1>1 DEF Latest
<1>4. Apart(s, Chains(s))
  BY <1>1, <1>3 DEF Apart, c
<1>5. Spends(s, p, Chains(s), preKeys[p])
  BY <1>1 DEF Spends
<1>6. ASSUME NEW m \in got[p] PROVE Deaf(s, m, Chains(s))
  <2>1. c[1].chainKey # m.chainKey
    <3>1. ~(1 >= 2)
      OBVIOUS
    <3> QED BY <1>1, <1>2, <3>1
  <2> QED BY <1>1, <1>2, <1>3, <2>1 DEF Deaf, c
<1> QED BY <1>4, <1>5, <1>6 DEF s

\* No operation is under way, and the prepared session is stored.
LEMMA StoresHears ==
  ASSUME SessionsAssumption, Typed, \A q \in Parties : FormedFor(q), NEW p \in Parties,
         task[p].step \in {"prepared", "renewing"}, op[p].step = "none",
         session'[p] = task[p].session, task'[p].step \in {"none", "ready"},
         UNCHANGED <<preKeys, op, got>>, lapses[p] \subseteq lapses'[p],
         session[p] # NoSession => Forgetful(p)', Hears(p)
  PROVE  Hears(p)'
<1> DEFINE s == task[p].session
<1>1. /\ Apart(s, Chains(s)) /\ Spends(s, p, Chains(s), preKeys[p])
      /\ \A m \in got[p] : Deaf(s, m, Chains(s))
  BY AloneHears DEF Hears
<1> HIDE DEF s
<1>2. RecordHears(p)'
  BY <1>1 DEF RecordHears, s
<1>3. WriteHears(p)' /\ MessageHears(p)' /\ TaskHears(p)'
  BY DEF WriteHears, MessageHears, TaskHears, Deciphering
<1>4. FirstHears(p)'
  <2>1. Forgetful(p) => Forgetful(p)'
    BY LapsesStay
  <2> QED BY <2>1 DEF Hears, FirstHears
<1> QED BY <1>2, <1>3, <1>4 DEF Hears

LEMMA PersistHears ==
  ASSUME SessionsAssumption, Typed, \A q \in Parties : FormedFor(q), NEW p \in Parties,
         Persist(p), Hears(p)
  PROVE  Hears(p)'
<1>1. /\ task[p].step = "prepared" /\ op[p].step = "none"
      /\ UNCHANGED <<preKeys, op, got, lapses>>
      /\ session'[p] = IF session[p] = NoSession THEN task[p].session ELSE session[p]
      /\ task'[p].step = "ready"
  BY DEF Persist, Typed, TypedOver
<1>2. CASE session[p] = NoSession
  BY <1>1, <1>2, StoresHears
<1>3. CASE session[p] # NoSession
  <2>1. session'[p] = session[p]
    BY <1>1, <1>3
  <2>2. TaskHears(p)'
    BY <1>1 DEF TaskHears
  <2> QED BY <1>1, <2>1, <2>2 DEF Hears, RecordHears, WriteHears, MessageHears, FirstHears, HeardBy,
                                  Deciphering, Reopens, Forgetful, Lapsed
<1> QED BY <1>2, <1>3

LEMMA ReestablishHears ==
  ASSUME SessionsAssumption, Typed, \A q \in Parties : FormedFor(q), NEW p \in Parties,
         Reestablish(p), Hears(p)
  PROVE  Hears(p)'
<1>1. /\ task[p].step = "renewing" /\ op[p].step = "none"
      /\ UNCHANGED <<preKeys, op, got>>
      /\ session'[p] = task[p].session /\ task'[p].step = "none"
  BY DEF Reestablish, Typed, TypedOver, Idle
<1>2. lapses[p] \subseteq lapses'[p] /\ (session[p] # NoSession => "session dropped" \in lapses'[p])
  BY DEF Reestablish, Lapse, Typed, TypedKeys
<1>3. session[p] # NoSession => Forgetful(p)'
  BY <1>2 DEF Forgetful, Lapsed
<1> QED BY <1>1, <1>2, <1>3, StoresHears

LEMMA EncryptHears ==
  ASSUME SessionsAssumption, Typed, NEW p \in Parties, NEW prefetched \in BOOLEAN,
         Encrypt(p, prefetched), Hears(p)
  PROVE  HearsOrLapsed(p)'
<1> DEFINE s == session[p]
           t == Encrypted(s)
<1>1. /\ UNCHANGED <<session, preKeys, got>> /\ op[p].step = "none"
      /\ task' \in {task, [task EXCEPT ![p] = Idle]}
      /\ lapses' = [lapses EXCEPT ![p] = @ \cup IF s = NoSession THEN {"deleted session used"} ELSE {}]
  BY DEF Encrypt, Lapse
<1>2. CASE s = NoSession
  <2>1. "deleted session used" \in lapses'[p]
    BY <1>1, <1>2 DEF Typed, TypedKeys
  <2> QED BY <2>1 DEF HearsOrLapsed, Lapsed
<1>3. CASE s # NoSession
  <2>1. op'[p].step = "encrypted" /\ op'[p].session = t
    BY <1>3 DEF Encrypt, SessionToEncrypt, Typed, TypedOver
  <2>2. s \in Session(KeysMade)
    BY <1>3 DEF Typed, TypedOver
  <2>3. lapses[p] \subseteq lapses'[p]
    BY <1>1 DEF Typed, TypedKeys
  <2>4. task'[p] = task[p] \/ task'[p].step = "none"
    <3>1. task \in [Parties -> Tasks(KeysMade)] /\ Idle.step = "none"
      BY DEF Typed, TypedOver, Idle
    <3>2. task' \in {task, [task EXCEPT ![p] = Idle]}
      BY <1>1
    <3> QED BY <3>1, <3>2
  <2>5. /\ Apart(s, Chains(s)) /\ Spends(s, p, Chains(s), preKeys[p])
        /\ \A m \in got[p] : Reopens(p, m) \/ Deaf(s, m, Chains(s))
        /\ TaskHears(p) /\ FirstHears(p)
    BY <1>3 DEF Hears, RecordHears
  <2>6. HeardBy(p) = got[p] /\ HeardBy(p)' = got[p] /\ ~Deciphering(p)'
    BY <1>1, <2>1 DEF HeardBy, Deciphering
  <2>7. session'[p] = s
    BY <1>1
  <2> HIDE DEF s
  <2>8. Within(t, s, Chains(t)) /\ Bases(s) \subseteq Bases(t)
    BY <2>2, EncryptedWithin
  <2> HIDE DEF t
  <2>9. /\ Apart(t, Chains(t)) /\ Spends(t, p, Chains(t), preKeys[p])
        /\ \A m \in got[p] : Reopens(p, m) \/ Deaf(t, m, Chains(t))
        /\ \A key : Unheard(key, s, Chains(s)) => Unheard(key, t, Chains(t))
    BY <2>5, <2>8, WithinIs, WithinSpends
  <2>10. /\ Forgetful(p) => Forgetful(p)'
         /\ \A m : Reopens(p, m) => Reopens(p, m)'
    BY <2>3, LapsesStay
  <2>11. RecordHears(p)'
    BY <1>1, <2>5, <2>7, <2>10 DEF RecordHears
  <2>12. WriteHears(p)'
    BY <1>1, <2>1, <2>6, <2>7, <2>8, <2>9, <2>10 DEF WriteHears
  <2>13. MessageHears(p)'
    BY <2>6 DEF MessageHears
  <2>14. TaskHears(p)'
    <3> SUFFICES ASSUME task'[p] = task[p] PROVE TaskHears(p)'
      BY <2>4 DEF TaskHears
    <3> QED BY <1>3, <2>1, <2>5, <2>6, <2>7, <2>9 DEF TaskHears, s
  <2>15. FirstHears(p)'
    BY <1>1, <2>5, <2>10 DEF FirstHears
  <2> QED BY <2>11, <2>12, <2>13, <2>14, <2>15 DEF HearsOrLapsed, Hears
<1> QED BY <1>2, <1>3

\* The record of an operation is written, and its message returned or not.
LEMMA WrittenHears ==
  ASSUME NoSessionAssumption, SessionsAssumption, Typed, \A q \in Parties : FormedFor(q),
         NEW p \in Parties, op[p].step \in {"encrypted", "decrypted"},
         session'[p] = op[p].session, op'[p].step = "none", preKeys' = preKeys,
         task'[p] = task[p] \/ task'[p].step = "none", lapses[p] \subseteq lapses'[p],
         got[p] \subseteq got'[p], got'[p] \subseteq HeardBy(p), Hears(p)
  PROVE  Hears(p)'
<1> DEFINE t == op[p].session
           left == preKeys[p]
<1>1. /\ op[p].step # "none" /\ op[p].step # "opened"
      /\ RecordHears(p) /\ WriteHears(p) /\ MessageHears(p) /\ TaskHears(p) /\ FirstHears(p)
  BY DEF Hears
<1>2. /\ Apart(t, Chains(t)) /\ Spends(t, p, Chains(t), left)
      /\ \A m \in HeardBy(p) : Reopens(p, m) \/ Deaf(t, m, Chains(t))
      /\ Forgetful(p) \/ session[p] = NoSession \/ Bases(session[p]) \subseteq Bases(t)
  BY <1>1 DEF WriteHears
<1>3. t \in Session(KeysMade)
  BY <1>1, OpIs
<1>4. t # NoSession
  BY <1>3, NotAbsent
<1>5. Deciphering(p) => SecretOf(Core(t, 0)) = <<op[p].message.baseKey, op[p].message.oneTimeId>>
  BY <1>1 DEF MessageHears
<1>6. TaskHears(p) /\ task[p].step \in {"prepared", "renewing"} =>
        Unheard(RatchetOf(task[p].session, 0), t, Chains(t))
  BY <1>1 DEF TaskHears
<1> HIDE DEF t, left
<1>7. /\ Forgetful(p) => Forgetful(p)'
      /\ \A m : Reopens(p, m) => Reopens(p, m)'
  BY LapsesStay
<1>8. session'[p] = t /\ preKeys'[p] = left
  BY DEF t, left
<1>9. RecordHears(p)'
  BY <1>2, <1>7, <1>8 DEF RecordHears
<1>10. WriteHears(p)' /\ MessageHears(p)' /\ HeardBy(p)' = got'[p]
  BY DEF WriteHears, MessageHears, Deciphering, HeardBy
<1>11. TaskHears(p)'
  <2> SUFFICES ASSUME task'[p] = task[p] PROVE TaskHears(p)'
    BY DEF TaskHears
  <2> QED BY <1>1, <1>6, <1>8, <1>10 DEF TaskHears
<1>12. ASSUME NEW m \in got'[p], m.type = "pkmsg"
       PROVE  m.oneTimeId \notin left /\ (Forgetful(p) \/ m.baseKey \in Bases(t))
  <2>1. CASE m \in got[p]
    BY <1>1, <1>2, <1>12, <2>1 DEF FirstHears, left
  <2>2. CASE m \notin got[p]
    <3>1. Deciphering(p) /\ m = op[p].message
      BY <2>2 DEF HeardBy
    <3>2. MessageFormed(m) /\ m.from = Peer(p) /\ Peer(p) # p
      BY <3>1, HeardIs, PeerIs DEF HeardBy
    <3>3. m.baseKey[1] # p
      BY <1>12, <3>2 DEF MessageFormed
    <3>4. Base(t, 0) = m.baseKey /\ Core(t, 0).oneTimeId = m.oneTimeId
      BY <1>5, <3>1 DEF SecretOf, Base
    <3>5. 0 \in Chains(t)
      BY <1>3, CoreIs
    <3> QED BY <1>2, <3>3, <3>4, <3>5 DEF Spends, Bases
  <2> QED BY <2>1, <2>2
<1>13. FirstHears(p)'
  BY <1>4, <1>7, <1>8, <1>12 DEF FirstHears
<1> QED BY <1>9, <1>10, <1>11, <1>13 DEF Hears

LEMMA ReleaseHears ==
  ASSUME NoSessionAssumption, SessionsAssumption, Typed, \A q \in Parties : FormedFor(q),
         NEW p \in Parties, Release(p) \/ Deliver(p), Hears(p)
  PROVE  Hears(p)'
<1>1. op[p].step \in {"encrypted", "decrypted"} /\ UNCHANGED <<preKeys, task, lapses>>
  BY DEF Release, Deliver
<1>2. session'[p] = op[p].session /\ op'[p].step = "none"
  BY DEF Release, Deliver, Typed, TypedOver, Free
<1>3. got[p] \subseteq got'[p] /\ got'[p] \subseteq HeardBy(p)
  BY DEF Release, Deliver, Typed, Heard, HeardBy, Deciphering
<1> QED BY <1>1, <1>2, <1>3, WrittenHears

LEMMA InterruptHears ==
  ASSUME NoSessionAssumption, SessionsAssumption, Typed, \A q \in Parties : FormedFor(q),
         NEW p \in Parties, Interrupt(p), Hears(p)
  PROVE  Hears(p)'
<1>1. /\ op[p].step # "none" /\ UNCHANGED <<preKeys, got>> /\ op'[p].step = "none"
      /\ lapses[p] \subseteq lapses'[p]
  BY DEF Interrupt, Lapse, Typed, TypedOver, TypedKeys, Free
<1>2. task'[p] = task[p] \/ task'[p].step = "none"
  <2>1. task \in [Parties -> Tasks(KeysMade)] /\ Idle.step = "none"
    BY DEF Typed, TypedOver, Idle
  <2>2. task' \in {task, [task EXCEPT ![p] = Idle]}
    BY DEF Interrupt
  <2> QED BY <2>1, <2>2
<1>3. /\ Forgetful(p) => Forgetful(p)'
      /\ \A m : Reopens(p, m) => Reopens(p, m)'
  BY <1>1, LapsesStay
<1>4. CASE session'[p] = session[p]
  <2>1. got[p] \subseteq HeardBy(p) /\ HeardBy(p)' = got[p]
    BY <1>1 DEF HeardBy, Deciphering
  <2>2. WriteHears(p)' /\ MessageHears(p)'
    BY <1>1 DEF WriteHears, MessageHears, Deciphering
  <2>3. RecordHears(p)' /\ FirstHears(p)'
    BY <1>1, <1>3, <1>4 DEF Hears, RecordHears, FirstHears
  <2>4. TaskHears(p)'
    BY <1>1, <1>2, <1>4, <2>1 DEF Hears, TaskHears
  <2> QED BY <2>2, <2>3, <2>4 DEF Hears
<1>5. CASE op[p].step # "opened" /\ session' = [session EXCEPT ![p] = op[p].session]
  <2>1. session'[p] = op[p].session
    BY <1>5 DEF Typed, TypedOver
  <2>2. op[p].step \in {"encrypted", "decrypted"}
    BY <1>1, <1>5, OpIs
  <2>3. got[p] \subseteq got'[p] /\ got'[p] \subseteq HeardBy(p)
    BY <1>1 DEF HeardBy
  <2> QED BY <1>1, <1>2, <2>1, <2>2, <2>3, WrittenHears
<1> QED BY <1>4, <1>5 DEF Interrupt

LEMMA DeleteHears ==
  ASSUME Typed, NEW p \in Parties, Delete(p), Hears(p)
  PROVE  Hears(p)'
<1>1. /\ session'[p] = NoSession /\ UNCHANGED <<preKeys, task, op, got>>
      /\ lapses[p] \subseteq lapses'[p] /\ "session dropped" \in lapses'[p]
  BY DEF Delete, Lapse, Typed, TypedOver, TypedKeys
<1>2. Forgetful(p)' /\ \A m : Reopens(p, m) => Reopens(p, m)'
  BY <1>1, LapsesStay DEF Forgetful, Lapsed
<1>3. HeardBy(p)' = HeardBy(p) /\ (Deciphering(p)' <=> Deciphering(p))
  BY <1>1 DEF HeardBy, Deciphering
<1>4. RecordHears(p)' /\ FirstHears(p)'
  BY <1>1, <1>2 DEF Hears, RecordHears, FirstHears
<1>5. WriteHears(p)'
  BY <1>1, <1>2, <1>3 DEF Hears, WriteHears
<1>6. MessageHears(p)'
  BY <1>1, <1>2, <1>3 DEF Hears, MessageHears
<1>7. TaskHears(p)'
  BY <1>1, <1>3 DEF Hears, TaskHears
<1> QED BY <1>4, <1>5, <1>6, <1>7 DEF Hears

LEMMA ConsumeHears ==
  ASSUME Typed, NEW p \in Parties, Consume(p), Hears(p)
  PROVE  Hears(p)'
<1> DEFINE t == op[p].session
           id == op[p].message.oneTimeId
<1>1. /\ op[p].step = "opened" /\ op'[p].step = "decrypted"
      /\ op'[p].session = t /\ op'[p].message = op[p].message
      /\ preKeys'[p] = preKeys[p] \ {id} /\ UNCHANGED <<session, task, got, lapses>>
  BY OpIs DEF Consume, Typed, TypedOver, TypedKeys
<1>2. /\ \A m : Reopens(p, m) => Reopens(p, m)'
      /\ Forgetful(p) => Forgetful(p)'
  BY <1>1 DEF Reopens, Forgetful, Lapsed
<1>3. HeardBy(p)' = HeardBy(p) /\ Deciphering(p) /\ Deciphering(p)'
  BY <1>1 DEF HeardBy, Deciphering
<1>4. Core(t, 0).oneTimeId = id
  BY <1>3 DEF Hears, MessageHears, SecretOf
<1>5. /\ Apart(t, Chains(t)) /\ Spends(t, p, Chains(t) \ {0}, preKeys[p])
      /\ \A m \in HeardBy(p) : Reopens(p, m) \/ Deaf(t, m, Chains(t))
      /\ Forgetful(p) \/ session[p] = NoSession \/ Bases(session[p]) \subseteq Bases(t)
  BY <1>1 DEF Hears, WriteHears
<1>6. RecordHears(p)'
  BY <1>1, <1>2 DEF Hears, RecordHears, Spends
<1>7. MessageHears(p)'
  BY <1>1, <1>2, <1>3 DEF Hears, MessageHears
<1>8. TaskHears(p)'
  BY <1>1, <1>3 DEF Hears, TaskHears
<1>9. FirstHears(p)'
  BY <1>1, <1>2 DEF Hears, FirstHears
<1> HIDE DEF t, id
<1>10. Spends(t, p, Chains(t), preKeys[p] \ {id})
  BY <1>4, <1>5 DEF Spends
<1>11. WriteHears(p)'
  BY <1>1, <1>2, <1>3, <1>5, <1>10 DEF WriteHears
<1> QED BY <1>6, <1>7, <1>8, <1>9, <1>11 DEF Hears

LEMMA DecryptHears ==
  ASSUME RatchetAssumption, SessionsAssumption, Typed, \A q \in Parties : FormedFor(q),
         NEW p \in Parties, NEW m \in sent, Decrypt(p, m), Hears(p)
  PROVE  Hears(p)'
<1> DEFINE s == session[p]
<1>1. PICK t, step :
        /\ op' = [op EXCEPT ![p] = [step |-> step, session |-> t, message |-> m]]
        /\ step \in {"opened", "decrypted"}
        /\ RecordFormed(t, p, Chains(t)) /\ SecretOf(Core(t, 0)) = <<m.baseKey, m.oneTimeId>>
        /\ Hears(p) =>
             /\ DecryptsTo(p, m, t)
             /\ Spends(t, p, IF step = "opened" THEN Chains(t) \ {0} ELSE Chains(t), preKeys[p])
             /\ session[p] # NoSession =>
                  "session forgotten" \in lapses'[p] \/ Bases(session[p]) \subseteq Bases(t)
  BY DecryptGives
<1>2. /\ op[p].step = "none" /\ UNCHANGED <<session, preKeys, task, got>>
      /\ lapses[p] \subseteq lapses'[p]
  BY DEF Decrypt, Lapse, Typed, TypedKeys
<1>3. op'[p].step = step /\ op'[p].session = t /\ op'[p].message = m
  BY <1>1 DEF Typed, TypedOver
<1>4. /\ Forgetful(p) => Forgetful(p)'
      /\ \A n : Reopens(p, n) => Reopens(p, n)'
  BY <1>2, LapsesStay
<1>5. "session forgotten" \in lapses'[p] => Forgetful(p)'
  BY DEF Forgetful, Lapsed
<1>6. HeardBy(p) = got[p] /\ HeardBy(p)' = got[p] \cup {m}
  BY <1>1, <1>2, <1>3 DEF HeardBy, Deciphering
<1>7. /\ Apart(t, Chains(t)) /\ Deaf(t, m, Chains(t)) /\ (m \notin got[p] \/ Reopens(p, m))
      /\ \A n \in got[p] : Reopens(p, n) \/ Deaf(t, n, Chains(t))
      /\ \A k \in KeysMade :
           \/ k[1] # p \/ k = SignedPreKey(p)
           \/ s # NoSession /\ ~Unheard(k, s, Chains(s))
           \/ Unheard(k, t, Chains(t)) /\ k \notin Latest(m.chainKey)
  BY <1>1 DEF DecryptsTo
<1>8. RecordHears(p)'
  BY <1>2, <1>4 DEF Hears, RecordHears
<1>9. WriteHears(p)'
  BY <1>1, <1>2, <1>3, <1>4, <1>5, <1>6, <1>7 DEF WriteHears
<1>10. MessageHears(p)'
  BY <1>1, <1>2, <1>3, <1>4, <1>7 DEF MessageHears
<1>11. FirstHears(p)'
  BY <1>2, <1>4 DEF Hears, FirstHears
<1>12. TaskHears(p)'
  <2> SUFFICES ASSUME task[p].step \in {"prepared", "renewing"} PROVE TaskHears(p)'
    BY <1>2 DEF TaskHears
  <2> DEFINE v == task[p].session
             key == RatchetOf(v, 0)
  <2>1. /\ Chains(v) = {0} /\ Base(v, 0)[1] = p
        /\ Len(Receiving(v, 0)) = 1 /\ Len(Receiving(v, 0)[1].chainKey) = 1
        /\ s # NoSession => Unheard(key, s, Chains(s))
        /\ \A n \in got[p] : key \notin Latest(n.chainKey)
    BY <1>6 DEF Hears, TaskHears
  <2>2. v \in Session(KeysMade) /\ RecordFormed(v, p, Chains(v))
    BY TaskIs DEF FormedFor
  <2>3. task'[p].session = v /\ session'[p] = s
    BY <1>2
  <2> HIDE DEF v
  <2>4. 0 \in Chains(v)
    BY <2>1
  <2>5. key \in KeysMade
    BY <2>2, <2>4, CoreFields DEF RatchetOf
  <2>6. key[1] = p /\ key # SignedPreKey(p)
    BY <2>2, <2>4 DEF RecordFormed, Formed, RatchetOf
  <2>7. Unheard(key, t, Chains(t)) /\ key \notin Latest(m.chainKey)
    BY <1>7, <2>1, <2>5, <2>6
  <2> HIDE DEF s, key
  <2>8. \A n \in got[p] \cup {m} : key \notin Latest(n.chainKey)
    BY <2>1, <2>7
  <2> QED BY <1>3, <1>6, <2>1, <2>3, <2>7, <2>8 DEF TaskHears, key
<1> QED BY <1>8, <1>9, <1>10, <1>11, <1>12 DEF Hears

\* What a step of p does.
Moves(p) ==
  \/ Resolve(p) \/ Persist(p) \/ Release(p) \/ Consume(p) \/ Deliver(p)
  \/ Refetch(p) \/ Reestablish(p) \/ Delete(p) \/ Interrupt(p)
  \/ \E prefetched \in BOOLEAN : Encrypt(p, prefetched)
  \/ \E m \in sent : Decrypt(p, m)

\* The others keep what they have, and nothing that happened is forgotten.
LEMMA MoveLeaves ==
  ASSUME Typed, NEW p \in Parties, Moves(p)
  PROVE  /\ LeavesOthers(p) /\ \A q \in Parties : lapses[q] \subseteq lapses'[q]
         /\ \A q \in Parties \ {p} : preKeys'[q] = preKeys[q] /\ got'[q] = got[q]
<1>1. LeavesOthers(p)
  BY StepLeaves DEF Moves
<1>2. \/ UNCHANGED lapses
      \/ \E what : lapses' = [lapses EXCEPT ![p] = @ \cup what]
  BY DEF Moves, Resolve, Persist, Release, Consume, Deliver, Refetch, Reestablish, Delete, Interrupt,
         Encrypt, Decrypt, Lapse
<1>3. UNCHANGED preKeys \/ \E x : preKeys' = [preKeys EXCEPT ![p] = x]
  BY DEF Moves, Resolve, Persist, Release, Consume, Deliver, Refetch, Reestablish, Delete, Interrupt,
         Encrypt, Decrypt
<1>4. UNCHANGED got \/ \E x : got' = [got EXCEPT ![p] = x]
  BY DEF Moves, Resolve, Persist, Release, Consume, Deliver, Refetch, Reestablish, Delete, Interrupt,
         Encrypt, Decrypt
<1>5. \A q \in Parties : lapses[q] \subseteq lapses'[q]
  BY <1>2 DEF Typed, TypedKeys
<1>6. ASSUME NEW q \in Parties, q # p PROVE preKeys'[q] = preKeys[q] /\ got'[q] = got[q]
  BY <1>3, <1>4, <1>6 DEF Typed, TypedKeys, Heard
<1> QED BY <1>1, <1>5, <1>6

LEMMA OthersHear ==
  ASSUME Typed, NEW p \in Parties, Moves(p), NEW q \in Parties \ {p}, HearsOrLapsed(q)
  PROVE  HearsOrLapsed(q)'
<1>1. /\ session'[q] = session[q] /\ task'[q] = task[q] /\ op'[q] = op[q]
      /\ lapses'[q] = lapses[q] /\ preKeys'[q] = preKeys[q] /\ got'[q] = got[q]
  BY MoveLeaves DEF LeavesOthers
<1>2. /\ \A m : Reopens(q, m)' <=> Reopens(q, m)
      /\ (Forgetful(q)' <=> Forgetful(q)) /\ (Deciphering(q)' <=> Deciphering(q))
  BY <1>1 DEF Reopens, Forgetful, Lapsed, Deciphering
<1>3. HeardBy(q)' = HeardBy(q)
  BY <1>1, <1>2 DEF HeardBy
<1>4. RecordHears(q) => RecordHears(q)'
  BY <1>1, <1>2 DEF RecordHears
<1>5. WriteHears(q) => WriteHears(q)'
  BY <1>1, <1>2, <1>3 DEF WriteHears
<1>6. MessageHears(q) => MessageHears(q)'
  BY <1>1, <1>2 DEF MessageHears
<1>7. TaskHears(q) => TaskHears(q)'
  BY <1>1, <1>3 DEF TaskHears
<1>8. FirstHears(q) => FirstHears(q)'
  BY <1>1, <1>2 DEF FirstHears
<1> QED BY <1>1, <1>4, <1>5, <1>6, <1>7, <1>8 DEF HearsOrLapsed, Hears, Lapsed

LEMMA MoveHears ==
  ASSUME RatchetAssumption, SessionsAssumption, NoSessionAssumption, Typed,
         \A q \in Parties : FormedFor(q), NEW p \in Parties, Moves(p), HearsOrLapsed(p)
  PROVE  HearsOrLapsed(p)'
<1>1. CASE Lapsed(p, "deleted session used")
  BY <1>1, MoveLeaves DEF HearsOrLapsed, Lapsed
<1>2. CASE Hears(p)
  <2>1. CASE Resolve(p) \/ Refetch(p)
    BY <1>2, <2>1, ResolveHears DEF HearsOrLapsed
  <2>2. CASE Persist(p)
    BY <1>2, <2>2, PersistHears DEF HearsOrLapsed
  <2>3. CASE Release(p) \/ Deliver(p)
    BY <1>2, <2>3, ReleaseHears DEF HearsOrLapsed
  <2>4. CASE Consume(p)
    BY <1>2, <2>4, ConsumeHears DEF HearsOrLapsed
  <2>5. CASE Reestablish(p)
    BY <1>2, <2>5, ReestablishHears DEF HearsOrLapsed
  <2>6. CASE Delete(p)
    BY <1>2, <2>6, DeleteHears DEF HearsOrLapsed
  <2>7. CASE Interrupt(p)
    BY <1>2, <2>7, InterruptHears DEF HearsOrLapsed
  <2>8. CASE \E prefetched \in BOOLEAN : Encrypt(p, prefetched)
    BY <1>2, <2>8, EncryptHears
  <2>9. CASE \E m \in sent : Decrypt(p, m)
    BY <1>2, <2>9, DecryptHears DEF HearsOrLapsed
  <2> QED BY <2>1, <2>2, <2>3, <2>4, <2>5, <2>6, <2>7, <2>8, <2>9 DEF Moves
<1> QED BY <1>1, <1>2 DEF HearsOrLapsed

\* What is returned again is a first message that opens its session again.
LEMMA MoveOnce ==
  ASSUME SessionsAssumption, Typed, NEW p \in Parties, Moves(p), HearsOrLapsed(p), OnceHeard
  PROVE  OnceHeard'
<1>1. \A q \in Parties : lapses[q] \subseteq lapses'[q]
  BY MoveLeaves
<1>2. ASSUME NEW m \in again PROVE m.from \in Parties /\ Peer(m.from) \in Parties
  BY PeerIs DEF Typed, TypedOver, Heard, Messages
<1>3. ASSUME NEW m \in again
      PROVE  Lapsed(Peer(m.from), "deleted session used")' \/ Reopens(Peer(m.from), m)'
  BY <1>1, <1>2 DEF OnceHeard, Lapsed, Reopens, Forgetful
<1>4. CASE again' = again
  BY <1>3, <1>4 DEF OnceHeard
<1>5. CASE Deliver(p)
  <2> PICK m : m = op[p].message
    OBVIOUS
  <2>1. /\ op[p].step = "decrypted" /\ UNCHANGED lapses
        /\ again' = IF m \in got[p] THEN again \cup {m} ELSE again
    BY <1>5 DEF Deliver
  <2>2. m \in SentBy(Peer(p)) /\ m.from = Peer(p) /\ Peer(m.from) = p
    BY <2>1, PeerIs DEF Typed, InHand, SentBy
  <2>3. m \in got[p] => Lapsed(p, "deleted session used") \/ Reopens(p, m)
    BY <2>1 DEF HearsOrLapsed, Hears, MessageHears, Deciphering
  <2>4. m \in got[p] => Lapsed(p, "deleted session used")' \/ Reopens(p, m)'
    BY <2>1, <2>3 DEF Lapsed, Reopens, Forgetful
  <2> QED BY <1>3, <2>1, <2>2, <2>4 DEF OnceHeard
<1>6. again' = again \/ Deliver(p)
  BY DEF Moves, Resolve, Persist, Release, Consume, Refetch, Reestablish, Delete, Interrupt,
         Encrypt, Decrypt
<1> QED BY <1>4, <1>5, <1>6

LEMMA StepHears ==
  ASSUME RatchetAssumption, SessionsAssumption, NoSessionAssumption, Typed,
         \A p \in Parties : FormedFor(p) /\ HearsOrLapsed(p), OnceHeard, [Next]_vars
  PROVE  (\A p \in Parties : HearsOrLapsed(p)') /\ OnceHeard'
<1>1. CASE Next
  <2>1. PICK p \in Parties : Moves(p)
    BY <1>1 DEF Next, Moves
  <2>2. HearsOrLapsed(p)' /\ OnceHeard'
    BY <2>1, MoveHears, MoveOnce
  <2>3. \A q \in Parties \ {p} : HearsOrLapsed(q)'
    BY <2>1, OthersHear
  <2> QED BY <2>2, <2>3
<1>2. CASE UNCHANGED vars
  <2>1. UNCHANGED <<session, preKeys, task, op, got, again, lapses>>
    BY <1>2 DEF vars
  <2>2. OnceHeard'
    BY <2>1 DEF OnceHeard, Lapsed, Reopens, Forgetful
  <2>3. ASSUME NEW p \in Parties PROVE HearsOrLapsed(p)'
    BY <2>1 DEF HearsOrLapsed, Hears, RecordHears, WriteHears, MessageHears, TaskHears, FirstHears,
                HeardBy, Deciphering, Reopens, Forgetful, Lapsed
  <2> QED BY <2>2, <2>3
<1> QED BY <1>1, <1>2

LEMMA InitHears ==
  ASSUME Init
  PROVE  (\A p \in Parties : FormedFor(p) /\ HearsOrLapsed(p)) /\ OnceHeard
<1>1. ASSUME NEW p \in Parties
      PROVE  /\ session[p] = NoSession /\ task[p].step = "none" /\ op[p].step = "none"
             /\ got[p] = {} /\ SentBy(p) = {} /\ again = {}
  BY DEF Init, Idle, Free, SentBy
<1>2. ASSUME NEW p \in Parties PROVE FormedFor(p) /\ Hears(p)
  BY <1>1 DEF FormedFor, Hears, RecordHears, WriteHears, MessageHears, TaskHears, FirstHears,
              Deciphering
<1>3. again = {}
  BY DEF Init
<1> QED BY <1>2, <1>3 DEF HearsOrLapsed, OnceHeard

\* However often the network repeats a message, and whichever of the two parties' sessions
\* it meets, it is returned once: no record that is stored, or about to be, has a key of a
\* message that was returned, or a ratchet key that leads to one.  The exceptions are
\* those that DecryptedOnce names.
THEOREM SessionDecryptsOnce == Spec => []DecryptedOnce
<1> USE RatchetAssumption, SessionsAssumption, NoSessionAssumption
<1> DEFINE Inv == /\ Typed /\ OnceHeard
                  /\ \A p \in Parties : FormedFor(p) /\ HearsOrLapsed(p)
<1>1. Init => Inv
  BY InitTyped, InitHears
<1>2. Inv /\ [Next]_vars => Inv'
  BY StepTyped, StepFormed, StepHears
<1>3. Inv => DecryptedOnce
  BY DEF OnceHeard, DecryptedOnce, Reopens, Forgetful
<1> QED BY <1>1, <1>2, <1>3, PTL DEF Spec

-----------------------------------------------------------------------------
(* Everything that was sent can be decrypted.                              *)

\* The sessions of a record, and those that p stores, is about to write, and prepared.
CoresOf(s) == {Core(s, i) : i \in Chains(s)}
StoredCores(p) == IF session[p] = NoSession THEN {} ELSE CoresOf(session[p])
WrittenCores(p) == IF op[p].step = "none" THEN {} ELSE CoresOf(op[p].session)
PreparedCores(p) ==
  IF task[p].step \in {"prepared", "renewing"} THEN CoresOf(task[p].session) ELSE {}

\* A voice: the ratchet key and the chain that a session sends with.
VoiceOf(x) == <<x.sendChain.ratchetKey, x.rootKey>>
VoiceIn(m) == <<m.ratchetKey, m.chainKey>>
SecretIn(v) == v[2][1]
BaseIn(v) == SecretIn(v)[1]
IdIn(v) == SecretIn(v)[2]

VoicesOf(S) == {VoiceOf(x) : x \in S}
Said(p) == {VoiceIn(m) : m \in SentBy(p)}
StoredVoices(p) == VoicesOf(StoredCores(p))
WrittenVoices(p) == VoicesOf(WrittenCores(p))
PreparedVoices(p) == VoicesOf(PreparedCores(p))
InUse(p) == Said(p) \cup StoredVoices(p) \cup WrittenVoices(p)
Voices(p) == InUse(p) \cup PreparedVoices(p)

\* What p prepares is a new outgoing session, and what it encrypts has a voice of the
\* record it is about to write.
Makes(p) ==
  /\ task[p].step \in {"prepared", "renewing"} =>
       LET s == task[p].session
       IN s = Outgoing(Peer(p), s.oneTimeId, s.aliceBaseKey, s.sendChain.ratchetKey)
  /\ op[p].step = "encrypted" => VoiceIn(op[p].message) \in WrittenVoices(p)

\* Neither a session that was deleted, nor one that was forgotten, came back.
Steady(p) == ~Lapsed(p, "deleted session used") /\ ~Lapsed(p, "session reopened")

\* Two voices of p differ in the ratchet key, in the secret or in how often the ratchet
\* turned; p takes a base key, and a one-time pre-key of its peer, for one session only.
Told(V, p) ==
  \A v, w \in V :
    /\ v[1] = w[1] => v = w
    /\ SecretIn(v) = SecretIn(w) /\ Len(v[2]) = Len(w[2]) => v = w
    /\ BaseIn(v)[1] = p /\ BaseIn(v) = BaseIn(w) => SecretIn(v) = SecretIn(w)
    /\ BaseIn(v)[1] = p /\ BaseIn(w)[1] = p /\ IdIn(v) = IdIn(w) /\ IdIn(v) # NoKeyId =>
         BaseIn(v) = BaseIn(w)
\* Its voices have no signed pre-key, and its one-time pre-keys are taken.
OwnKeys(p) ==
  \A v \in Voices(p) :
    v[1] # SignedPreKey(p) /\ (BaseIn(v)[1] = p => IdIn(v) \notin bundles[Peer(p)])

\* No session of p is behind what p sent with it, ...
Furthest(p) ==
  \A w \in StoredVoices(p) \cup WrittenVoices(p), v \in Said(p) :
    SecretIn(v) = SecretIn(w) => Len(v[2]) <= Len(w[2])
\* ... p keeps the sessions that it sent with, ...
Opened(p) ==
  \A v \in Said(p) :
    /\ Forgetful(p) \/ \E w \in StoredVoices(p) : SecretIn(w) = SecretIn(v)
    /\ BaseIn(v)[1] # p => IdIn(v) \notin preKeys[p]
SecretsKept(p) ==
  op[p].step # "none" =>
    \/ Forgetful(p)
    \/ \A v \in StoredVoices(p) : \E w \in WrittenVoices(p) : SecretIn(v) = SecretIn(w)
\* ... and what it prepares has another base key than they.
TaskFresh(p) == \A w \in PreparedVoices(p), v \in InUse(p) : BaseIn(v) # BaseIn(w)

Speaks(p) ==
  /\ Told(Voices(p), p) /\ OwnKeys(p) /\ Furthest(p)
  /\ Opened(p) /\ SecretsKept(p) /\ TaskFresh(p)

\* A voice of the peer finds its chain, is one turn ahead, or opens a session.
HeardOn(S, v) ==
  \E y \in S : \E a \in 1..Len(y.recvChains) :
    y.recvChains[a].ratchetKey = v[1] /\ y.recvChains[a].chainKey = v[2]
TurnsTo(S, v) == \E y \in S : v[2] = CalculateRatchet(y.rootKey, y.sendChain.ratchetKey, v[1])
OpensAs(S, left, p, v) ==
  /\ \A y \in S : y.aliceBaseKey # BaseIn(v)
  /\ IdIn(v) \in left \cup {NoKeyId} /\ BaseIn(v)[1] # p
  /\ v[2] = CalculateRatchet(Secret(BaseIn(v), IdIn(v)), SignedPreKey(p), v[1])
Hearable(S, left, p, v) == HeardOn(S, v) \/ TurnsTo(S, v) \/ OpensAs(S, left, p, v)

\* The chains that the sessions S of p receive are ones the peer sent with, and only
\* what was heard is used up on them.
Received(S, heard, q) ==
  \A y \in S : \A a \in 1..Len(y.recvChains) :
    LET c == y.recvChains[a]
    IN /\ <<c.ratchetKey, c.chainKey>> \in Said(q) \/ c.ratchetKey = SignedPreKey(q)
       /\ \A n \in Nat : Used(c, n) => \E m \in heard : m.chainKey = c.chainKey /\ m.counter = n
\* They turned the ratchet for something that the peer sent.
Answers(S, q) ==
  \A y \in S :
    \/ Len(y.rootKey) = 2
    \/ \E v \in Said(q) : SecretIn(v) = SecretOf(y) /\ Len(v[2]) + 1 = Len(y.rootKey)
\* Sessions S and the pre-keys left are enough for whatever the peer says.
Listens(S, left, heard, p) ==
  /\ \A v \in Voices(Peer(p)) : Hearable(S, left, p, v)
  /\ Received(S, heard, Peer(p)) /\ Answers(S, Peer(p))
  /\ bundles[p] \subseteq left

\* The pre-keys that are left when the operation is over.
Left(p) == IF op[p].step = "opened" THEN preKeys[p] \ {op[p].message.oneTimeId} ELSE preKeys[p]
\* What p stores listens, until it is to be replaced, and what it is about to write does.
HearsPeer(p) ==
  /\ op[p].step # "decrypted" => Listens(StoredCores(p), preKeys[p], got[p], p)
  /\ op[p].step # "none" => Listens(WrittenCores(p), Left(p), HeardBy(p), p)

\* Unless something happened that Decryptable names.
SpeaksOrLapsed(p) == Steady(p) => Speaks(p)
HearsPeerOrLapsed(p) == lapses[p] = {} /\ Steady(Peer(p)) => HearsPeer(p)

\* The skipped keys that fit are all kept.
LEMMA KeptWhole ==
  ASSUME RatchetAssumption, NEW S \in SUBSET Nat, IsFiniteSet(S), Cardinality(S) <= MaxUnusedKeys
  PROVE  Kept(S) = S
<1>1. ASSUME NEW i \in S PROVE Cardinality({j \in S : j > i}) < MaxUnusedKeys
  <2> DEFINE above == {j \in S : j > i}
  <2>1. above \subseteq S \ {i}
    OBVIOUS
  <2>2. IsFiniteSet(S \ {i}) /\ Cardinality(S \ {i}) = Cardinality(S) - 1
    BY FS_RemoveElement
  <2>3. Cardinality(above) <= Cardinality(S \ {i}) /\ Cardinality(above) \in Nat
    BY <2>1, <2>2, FS_Subset, FS_CardinalityType
  <2>4. Cardinality(S) \in Nat /\ MaxUnusedKeys \in Nat
    BY FS_CardinalityType DEF RatchetAssumption
  <2> HIDE DEF above
  <2>5. Cardinality(above) < MaxUnusedKeys
    BY <2>2, <2>3, <2>4
  <2> QED BY <2>5 DEF above
<1> QED BY <1>1 DEF Kept

\* Where no key is evicted, only the key of the message is used up.
Roomy(c, n) == ~(n >= c.nextMsgIndex /\ Cardinality(Skipped(c, n)) > MaxUnusedKeys)

\* Of a chain with room for them, a step uses up one key.
LEMMA SelectedOnly ==
  ASSUME RatchetAssumption, NEW K, NEW c \in RecvChain(K), NEW n \in Nat, Roomy(c, n)
  PROVE  /\ Selected(c, n).ratchetKey = c.ratchetKey
         /\ \A k \in Nat : Used(Selected(c, n), k) => k = n \/ Used(c, k)
<1>1. /\ c \in [ratchetKey : K, chainKey : ChainKeys(K), nextMsgIndex : Nat, unused : SUBSET Nat]
      /\ c.unused \subseteq 0..(c.nextMsgIndex - 1) /\ c.nextMsgIndex \in Nat
  BY DEF RecvChain, Skips
<1>2. CASE n < c.nextMsgIndex
  <2>1. /\ Selected(c, n).unused = c.unused \ {n}
        /\ Selected(c, n).nextMsgIndex = c.nextMsgIndex
        /\ Selected(c, n).ratchetKey = c.ratchetKey
    BY <1>1, <1>2 DEF Selected
  <2> QED BY <1>2, <2>1 DEF Used
<1>3. CASE ~(n < c.nextMsgIndex)
  <2> DEFINE all == Skipped(c, n)
             next == n + 1
  <2>1. /\ Selected(c, n).unused = Kept(all) /\ Selected(c, n).nextMsgIndex = next
        /\ Selected(c, n).ratchetKey = c.ratchetKey
    <3>1. Selected(c, n) = [c EXCEPT !.nextMsgIndex = next, !.unused = Kept(all)]
      BY <1>3 DEF Selected
    <3> HIDE DEF next, all
    <3> QED BY <1>1, <3>1
  <2>2. all \in SUBSET Nat /\ IsFiniteSet(all)
    <3>1. IsFiniteSet(0..(c.nextMsgIndex - 1)) /\ IsFiniteSet(c.nextMsgIndex..(n - 1))
      <4>1. 0 \in Int /\ c.nextMsgIndex \in Int /\ n \in Int /\ c.nextMsgIndex - 1 \in Int /\ n - 1 \in Int
        BY <1>1
      <4> QED BY <4>1, FS_Interval
    <3>2. IsFiniteSet(c.unused)
      BY <1>1, <3>1, FS_Subset
    <3>3. IsFiniteSet(c.unused \cup (c.nextMsgIndex..(n - 1)))
      BY <3>1, <3>2, FS_Union
    <3>4. c.unused \cup (c.nextMsgIndex..(n - 1)) \subseteq Nat
      BY <1>1
    <3> QED BY <3>3, <3>4 DEF Skipped
  <2>3. Cardinality(all) <= MaxUnusedKeys
    <3>1. ~(Cardinality(all) > MaxUnusedKeys)
      BY <1>1, <1>3 DEF Roomy
    <3>2. Cardinality(all) \in Nat /\ MaxUnusedKeys \in Nat
      BY <2>2, FS_CardinalityType DEF RatchetAssumption
    <3> QED BY <3>1, <3>2
  <2>4. Kept(all) = all
    BY <2>2, <2>3, KeptWhole
  <2>5. \A k \in Nat : k < next /\ k \notin all => k = n \/ (k < c.nextMsgIndex /\ k \notin c.unused)
    BY <1>1, <1>3 DEF Skipped
  <2> HIDE DEF all, next
  <2> QED BY <2>1, <2>4, <2>5 DEF Used
<1> QED BY <1>2, <1>3

\* A session that heard a message of a chain it has, and one that turned, where nothing
\* was evicted.
Listened(y, x, m) ==
  /\ y.aliceBaseKey = x.aliceBaseKey /\ y.oneTimeId = x.oneTimeId /\ y.rootKey = x.rootKey
  /\ y.sendChain = x.sendChain /\ Len(y.recvChains) = Len(x.recvChains)
  /\ \A a \in 1..Len(x.recvChains) :
       /\ y.recvChains[a].ratchetKey = x.recvChains[a].ratchetKey
       /\ y.recvChains[a].chainKey = x.recvChains[a].chainKey
       /\ \A n \in Nat : Used(y.recvChains[a], n) =>
            \/ Used(x.recvChains[a], n)
            \/ x.recvChains[a].chainKey = m.chainKey /\ n = m.counter
GainsChain(y, x, m) ==
  /\ Len(y.recvChains) = Len(x.recvChains) + 1
  /\ \A a \in 1..Len(x.recvChains) : y.recvChains[a] = x.recvChains[a]
  /\ LET c == y.recvChains[Len(x.recvChains) + 1]
     IN /\ c.ratchetKey = m.ratchetKey /\ c.chainKey = m.chainKey
        /\ \A n \in Nat : Used(c, n) => n = m.counter

\* Decrypting takes a known chain further ...
LEMMA DecryptedListens ==
  ASSUME RatchetAssumption, NEW K, NEW u \in Session(K), NEW m \in Messages(K), NEW key,
         Decrypts(u, m), KnownChains(u, m) # {}, Roomy(ChainFor(u, m), m.counter)
  PROVE  Listened(Core(DecryptedFrom(u, m, key), 0), Core(u, 0), m)
<1> DEFINE k == FirstIn(KnownChains(u, m))
           c == u.recvChains[k]
           t == DecryptedFrom(u, m, key)
           d == Selected(c, m.counter)
           recv == [u.recvChains EXCEPT ![k] = d]
<1>1. t \in Session(K) /\ t.sendChain = u.sendChain
  BY DecryptedKnown
<1>2. k \in 1..Len(u.recvChains) /\ c \in RecvChain(K) /\ ChainFor(u, m) = c
  BY KnownChainIs DEF ChainFor
<1>3. c.chainKey = m.chainKey
  BY <1>2 DEF Decrypts
<1>4. t = [u EXCEPT !.recvChains = recv]
  BY <1>2 DEF DecryptedFrom
<1>5. m.counter \in Nat
  BY DEF Messages
<1>6. /\ d.ratchetKey = c.ratchetKey /\ d.chainKey = c.chainKey
      /\ \A n \in Nat : Used(d, n) => n = m.counter \/ Used(c, n)
  BY <1>2, <1>5, SelectedOnly, SelectedIs
<1>7. u.recvChains \in Seq(RecvChain(K)) /\ Len(u.recvChains) \in Nat
  BY RecordIs, LenProperties
<1> HIDE DEF k, c, t, d
<1>8. /\ Len(recv) = Len(u.recvChains) /\ recv[k] = d
      /\ \A a \in 1..Len(u.recvChains) : a # k => recv[a] = u.recvChains[a]
  BY <1>2, <1>7
<1>9. u.recvChains[k] = c
  BY DEF c
<1> HIDE DEF recv
<1>10. /\ t.recvChains = recv /\ t.aliceBaseKey = u.aliceBaseKey /\ t.oneTimeId = u.oneTimeId
       /\ t.rootKey = u.rootKey
  BY <1>4 DEF Session, Record
<1>11. /\ Core(u, 0).aliceBaseKey = u.aliceBaseKey /\ Core(u, 0).oneTimeId = u.oneTimeId
       /\ Core(u, 0).rootKey = u.rootKey /\ Core(u, 0).recvChains = u.recvChains
       /\ Core(u, 0).sendChain = u.sendChain
  BY FrontIs
<1>12. /\ Core(t, 0).aliceBaseKey = t.aliceBaseKey /\ Core(t, 0).oneTimeId = t.oneTimeId
       /\ Core(t, 0).rootKey = t.rootKey /\ Core(t, 0).recvChains = t.recvChains
       /\ Core(t, 0).sendChain = t.sendChain
  BY <1>1, FrontIs
<1>13. ASSUME NEW a \in 1..Len(u.recvChains)
       PROVE  /\ recv[a].ratchetKey = u.recvChains[a].ratchetKey
              /\ recv[a].chainKey = u.recvChains[a].chainKey
              /\ \A n \in Nat : Used(recv[a], n) =>
                   \/ Used(u.recvChains[a], n)
                   \/ u.recvChains[a].chainKey = m.chainKey /\ n = m.counter
  <2>1. CASE a = k
    BY <1>3, <1>6, <1>8, <1>9, <2>1
  <2>2. CASE a # k
    BY <1>8, <2>2
  <2> QED BY <2>1, <2>2
<1>14. Listened(Core(t, 0), Core(u, 0), m)
  BY <1>1, <1>8, <1>10, <1>11, <1>12, <1>13, Zenon DEF Listened
<1> QED BY <1>14 DEF t

\* ... and gains a chain that is new.
LEMMA DecryptedGains ==
  ASSUME RatchetAssumption, NEW K, NEW u \in Session(K), NEW m \in Messages(K),
         NEW L, K \subseteq L, NEW key \in L, Decrypts(u, m), KnownChains(u, m) = {},
         Roomy(ChainFor(u, m), m.counter), Len(u.recvChains) < MaxRecvChains
  PROVE  GainsChain(Core(DecryptedFrom(u, m, key), 0), Core(u, 0), m)
<1> DEFINE t == DecryptedFrom(u, m, key)
           fresh == FreshChain(m.ratchetKey, m.chainKey)
           c == Selected(fresh, m.counter)
           recv == Append(u.recvChains, c)
<1>1. t \in Session(L)
  BY DecryptedTurned
<1>2. ChainFor(u, m) = fresh
  BY DEF Decrypts, ChainFor, FreshChain
<1>3. fresh \in RecvChain(K) /\ m.counter \in Nat
  BY FreshChainIs DEF Messages
<1>4. /\ fresh.chainKey = m.chainKey /\ fresh.ratchetKey = m.ratchetKey
      /\ \A n \in Nat : ~Used(fresh, n)
  BY DEF FreshChain, Used
<1> HIDE DEF fresh
<1>5. /\ c \in RecvChain(K) /\ c.chainKey = m.chainKey /\ c.ratchetKey = m.ratchetKey
      /\ \A n \in Nat : Used(c, n) => n = m.counter
  BY <1>2, <1>3, <1>4, SelectedIs, SelectedOnly
<1>6. u.recvChains \in Seq(RecvChain(K)) /\ Len(u.recvChains) \in Nat
  BY RecordIs, LenProperties
<1>7. LastOf(u.recvChains, MaxRecvChains - 1) = u.recvChains
  BY <1>6 DEF LastOf, RatchetAssumption
<1>8. t.recvChains = recv
  <2> DEFINE r == CalculateRatchet(c.chainKey, key, m.ratchetKey)
             send == [ratchetKey |-> key, chainKey |-> r, nextMsgIndex |-> 0]
             all == Append(LastOf(u.recvChains, MaxRecvChains - 1), c)
  <2>1. t = [u EXCEPT !.rootKey = r, !.recvChains = all, !.sendChain = send, !.initialExchange = FALSE]
    BY <1>2 DEF DecryptedFrom
  <2>2. all = recv
    BY <1>7
  <2> HIDE DEF t, r, send, all, recv
  <2>3. t.recvChains = all
    BY <2>1 DEF Session, Record
  <2> QED BY <2>2, <2>3
<1> HIDE DEF c, t
<1>9. /\ Len(recv) = Len(u.recvChains) + 1 /\ recv[Len(u.recvChains) + 1] = c
      /\ \A a \in 1..Len(u.recvChains) : recv[a] = u.recvChains[a]
  BY <1>5, <1>6
<1> HIDE DEF recv
<1>10. Core(u, 0).recvChains = u.recvChains /\ Core(t, 0).recvChains = recv
  BY <1>1, <1>8, FrontIs
<1>11. GainsChain(Core(t, 0), Core(u, 0), m)
  BY <1>5, <1>9, <1>10, Zenon DEF GainsChain
<1> QED BY <1>11 DEF t

\* The types of the sessions of a record.
LEMMA CoresAre ==
  ASSUME NEW K, NEW s \in Session(K), NEW x \in CoresOf(s)
  PROVE  /\ x \in PrevSession(K) /\ x.aliceBaseKey \in K /\ x.oneTimeId \in Nat
         /\ x.rootKey \in ChainKeys(K) /\ x.sendChain.ratchetKey \in K
         /\ Len(x.recvChains) \in Nat
         /\ \A a \in 1..Len(x.recvChains) : x.recvChains[a] \in RecvChain(K)
<1>1. PICK i \in Chains(s) : x = Core(s, i)
  BY DEF CoresOf
<1>2. x \in PrevSession(K)
  BY <1>1, CoreIs
<1>3. /\ x.aliceBaseKey \in K /\ x.oneTimeId \in Nat /\ x.rootKey \in ChainKeys(K)
      /\ x.sendChain.ratchetKey \in K /\ Len(x.recvChains) \in Nat
      /\ \A a \in 1..Len(x.recvChains) : x.recvChains[a] \in RecvChain(K)
  BY <1>1, CoreFields
<1> QED BY <1>2, <1>3

\* A ciphertext of a session has its voice.
LEMMA EncryptedSet ==
  ASSUME NEW K, NEW s \in Session(K)
  PROVE  /\ \A y \in CoresOf(Encrypted(s)) : \E x \in CoresOf(s) : Alike(y, x)
         /\ \A x \in CoresOf(s) : \E y \in CoresOf(Encrypted(s)) : Alike(y, x)
         /\ VoicesOf(CoresOf(Encrypted(s))) = VoicesOf(CoresOf(s))
<1>1. /\ \A y \in CoresOf(Encrypted(s)) : \E x \in CoresOf(s) : Alike(y, x)
      /\ \A x \in CoresOf(s) : \E y \in CoresOf(Encrypted(s)) : Alike(y, x)
  <2>1. /\ Chains(Encrypted(s)) = Chains(s)
        /\ \A i \in Chains(s) : Alike(Core(Encrypted(s), i), Core(s, i))
    BY EncryptedCores
  <2> QED BY <2>1 DEF CoresOf
<1>2. \A x, y : Alike(x, y) => VoiceOf(x) = VoiceOf(y)
  BY DEF Alike, VoiceOf
<1>3. VoicesOf(CoresOf(Encrypted(s))) = VoicesOf(CoresOf(s))
  BY <1>1, <1>2 DEF VoicesOf
<1> QED BY <1>1, <1>3

\* The sessions of p are well-formed; each base key is the base key of one of a record.
LEMMA KnownCores ==
  ASSUME Typed, NEW p \in Parties, FormedFor(p),
         NEW x \in StoredCores(p) \cup WrittenCores(p) \cup PreparedCores(p)
  PROVE  /\ Formed(x, p) /\ x.aliceBaseKey \in KeysMade /\ x.oneTimeId \in Nat
         /\ x.rootKey \in ChainKeys(KeysMade) /\ x.sendChain.ratchetKey \in KeysMade
         /\ Len(x.recvChains) \in Nat
         /\ \A a \in 1..Len(x.recvChains) : x.recvChains[a] \in RecvChain(KeysMade)
<1>1. PICK s \in Session(KeysMade) : x \in CoresOf(s) /\ RecordFormed(s, p, Chains(s))
  <2>1. CASE x \in StoredCores(p)
    <3>1. session[p] # NoSession /\ x \in CoresOf(session[p])
      BY <2>1 DEF StoredCores
    <3>2. session[p] \in Session(KeysMade)
      BY <3>1 DEF Typed, TypedOver
    <3> QED BY <3>1, <3>2 DEF FormedFor
  <2>2. CASE x \in WrittenCores(p)
    <3>1. op[p].step # "none" /\ x \in CoresOf(op[p].session)
      BY <2>2 DEF WrittenCores
    <3>2. op[p].session \in Session(KeysMade)
      BY <3>1, OpIs
    <3> QED BY <3>1, <3>2 DEF FormedFor
  <2>3. CASE x \in PreparedCores(p)
    <3>1. task[p].step \in {"prepared", "renewing"} /\ x \in CoresOf(task[p].session)
      BY <2>3 DEF PreparedCores
    <3>2. task[p].session \in Session(KeysMade)
      BY <3>1, TaskIs
    <3> QED BY <3>1, <3>2 DEF FormedFor
  <2> QED BY <2>1, <2>2, <2>3
<1>2. Formed(x, p)
  BY <1>1 DEF CoresOf, RecordFormed
<1> QED BY <1>1, <1>2, CoresAre

\* A base key is of one session.
LEMMA OneSession ==
  ASSUME NEW p, Hears(p)
  PROVE  /\ \A x, y \in StoredCores(p) : x.aliceBaseKey = y.aliceBaseKey => x = y
         /\ \A x, y \in WrittenCores(p) : x.aliceBaseKey = y.aliceBaseKey => x = y
<1>1. ASSUME NEW s, Apart(s, Chains(s)), NEW x \in CoresOf(s), NEW y \in CoresOf(s),
             x.aliceBaseKey = y.aliceBaseKey
      PROVE  x = y
  <2>1. PICK i \in Chains(s) : x = Core(s, i)
    BY DEF CoresOf
  <2>2. PICK j \in Chains(s) : y = Core(s, j)
    BY DEF CoresOf
  <2>3. Base(s, i) = Base(s, j)
    BY <1>1, <2>1, <2>2 DEF Base
  <2>4. i = j
    BY <1>1, <2>1, <2>2, <2>3 DEF Apart
  <2> QED BY <2>1, <2>2, <2>4
<1>2. session[p] # NoSession => Apart(session[p], Chains(session[p]))
  BY DEF Hears, RecordHears
<1>3. op[p].step # "none" => Apart(op[p].session, Chains(op[p].session))
  BY DEF Hears, WriteHears
<1> QED BY <1>1, <1>2, <1>3 DEF StoredCores, WrittenCores

\* A voice is a key and a chain that begins with the secret of its session.
VoiceFormed(v) ==
  /\ v = <<v[1], v[2]>> /\ v[1] \in KeysMade /\ v[2] \in ChainKeys(KeysMade)
  /\ Len(v[2]) \in Nat /\ Len(v[2]) >= 2
  /\ SecretIn(v) = <<BaseIn(v), IdIn(v)>> /\ BaseIn(v) \in KeysMade /\ IdIn(v) \in Nat

\* What the voices of a party, of its sessions and of its messages are.
LEMMA VoicesAre ==
  ASSUME Typed, NEW p \in Parties, FormedFor(p)
  PROVE  /\ \A v \in Voices(p) : VoiceFormed(v)
         /\ \A x \in StoredCores(p) \cup WrittenCores(p) \cup PreparedCores(p) :
              /\ SecretIn(VoiceOf(x)) = SecretOf(x) /\ BaseIn(VoiceOf(x)) = x.aliceBaseKey
              /\ IdIn(VoiceOf(x)) = x.oneTimeId /\ VoiceOf(x)[2] = x.rootKey
              /\ VoiceOf(x)[1] = x.sendChain.ratchetKey /\ VoiceOf(x) \in Voices(p)
         /\ \A m \in SentBy(p) :
              /\ SecretIn(VoiceIn(m)) = <<m.baseKey, m.oneTimeId>> /\ BaseIn(VoiceIn(m)) = m.baseKey
              /\ IdIn(VoiceIn(m)) = m.oneTimeId /\ VoiceIn(m) \in Said(p) /\ VoiceIn(m) \in Voices(p)
<1>1. ASSUME NEW k \in KeysMade, NEW c \in ChainKeys(KeysMade), NEW base \in KeysMade, NEW id \in Nat,
             c[1] = <<base, id>>, Len(c) >= 2
      PROVE  VoiceFormed(<<k, c>>)
  <2>1. Len(c) \in Nat
    BY LenProperties DEF ChainKeys
  <2> QED BY <1>1, <2>1 DEF VoiceFormed, SecretIn, BaseIn, IdIn
<1>2. ASSUME NEW x \in StoredCores(p) \cup WrittenCores(p) \cup PreparedCores(p)
      PROVE  /\ SecretIn(VoiceOf(x)) = SecretOf(x) /\ BaseIn(VoiceOf(x)) = x.aliceBaseKey
             /\ IdIn(VoiceOf(x)) = x.oneTimeId /\ VoiceOf(x)[2] = x.rootKey
             /\ VoiceOf(x)[1] = x.sendChain.ratchetKey /\ VoiceOf(x) \in Voices(p)
             /\ VoiceFormed(VoiceOf(x))
  <2>1. Formed(x, p)
    BY KnownCores
  <2>2. /\ x.aliceBaseKey \in KeysMade /\ x.oneTimeId \in Nat
        /\ x.rootKey \in ChainKeys(KeysMade) /\ x.sendChain.ratchetKey \in KeysMade
    BY KnownCores
  <2>3. x.rootKey[1] = <<x.aliceBaseKey, x.oneTimeId>> /\ Len(x.rootKey) >= 2
    BY <2>1 DEF Formed, SecretOf
  <2>4. VoiceFormed(VoiceOf(x))
    BY <1>1, <2>2, <2>3 DEF VoiceOf
  <2>5. VoiceOf(x) \in Voices(p)
    BY DEF Voices, InUse, StoredVoices, WrittenVoices, PreparedVoices, VoicesOf
  <2> QED BY <2>3, <2>4, <2>5 DEF VoiceOf, SecretIn, BaseIn, IdIn, SecretOf
<1>3. ASSUME NEW m \in SentBy(p)
      PROVE  /\ SecretIn(VoiceIn(m)) = <<m.baseKey, m.oneTimeId>> /\ BaseIn(VoiceIn(m)) = m.baseKey
             /\ IdIn(VoiceIn(m)) = m.oneTimeId /\ VoiceIn(m) \in Said(p) /\ VoiceIn(m) \in Voices(p)
             /\ VoiceFormed(VoiceIn(m))
  <2>1. m \in Messages(KeysMade) /\ MessageFormed(m)
    BY SentByIs DEF FormedFor
  <2>2. /\ m.baseKey \in KeysMade /\ m.oneTimeId \in Nat
        /\ m.chainKey \in ChainKeys(KeysMade) /\ m.ratchetKey \in KeysMade
    BY <2>1 DEF Messages
  <2>3. m.chainKey[1] = <<m.baseKey, m.oneTimeId>> /\ Len(m.chainKey) >= 2
    BY <2>1 DEF MessageFormed
  <2>4. VoiceFormed(VoiceIn(m))
    BY <1>1, <2>2, <2>3 DEF VoiceIn
  <2>5. VoiceIn(m) \in Said(p) /\ VoiceIn(m) \in Voices(p)
    BY DEF Voices, InUse, Said
  <2> QED BY <2>3, <2>4, <2>5 DEF VoiceIn, SecretIn, BaseIn, IdIn
<1>4. ASSUME NEW v \in Voices(p) PROVE VoiceFormed(v)
  <2>1. CASE v \in Said(p)
    <3>1. PICK m \in SentBy(p) : v = VoiceIn(m)
      BY <2>1 DEF Said
    <3> QED BY <1>3, <3>1
  <2>2. CASE v \notin Said(p)
    <3>1. PICK x \in StoredCores(p) \cup WrittenCores(p) \cup PreparedCores(p) : v = VoiceOf(x)
      BY <2>2 DEF Voices, InUse, StoredVoices, WrittenVoices, PreparedVoices, VoicesOf
    <3> QED BY <1>2, <3>1
  <2> QED BY <2>1, <2>2
<1> QED BY <1>2, <1>3, <1>4

\* y is session x after it heard m on a chain it has, and after it turned the ratchet.
Further(p, m, y, x) ==
  Advances(y, x, m) /\ ("keys evicted" \in lapses'[p] \/ Listened(y, x, m))
Turning(p, m, y, x) ==
  Turned(y, x, m, NewKey(p, 1)) /\ ("keys evicted" \in lapses'[p] \/ GainsChain(y, x, m))
\* To decrypt m, p takes one session of its record further to y, or opens y.
Decodes(p, m, y) ==
  /\ \A z \in WrittenCores(p)' : z = y \/ z \in StoredCores(p)
  /\ \/ /\ ~Opens(p, m)
        /\ \E x \in StoredCores(p) :
             /\ Further(p, m, y, x) \/ Turning(p, m, y, x)
             /\ \/ "session forgotten" \in lapses'[p]
                \/ \A z \in StoredCores(p) : z = x \/ z \in WrittenCores(p)'
     \/ /\ Opens(p, m) /\ \A z \in StoredCores(p) : z.aliceBaseKey # m.baseKey
        /\ m.oneTimeId \in preKeys[p] \/ m.oneTimeId = NoKeyId
        /\ Turning(p, m, y, Incoming(p, m))
        /\ "session forgotten" \in lapses'[p] \/ StoredCores(p) \subseteq WrittenCores(p)'

\* What the decryption of a message starts with, and is about to write.
LEMMA DecryptHas ==
  ASSUME RatchetAssumption, SessionsAssumption, Typed, \A q \in Parties : FormedFor(q),
         NEW p \in Parties, NEW m \in sent, Decrypt(p, m)
  PROVE  /\ m \in Messages(KeysMade) /\ MessageFormed(m) /\ m \in SentBy(Peer(p))
         /\ op[p].step = "none" /\ op'[p].message = m
         /\ op'[p].step = IF Opens(p, m) /\ m.oneTimeId # NoKeyId THEN "opened" ELSE "decrypted"
         /\ "session reopened" \in lapses'[p] \/ ~MayReopen(p, m)
         /\ \E y \in WrittenCores(p)' : Decodes(p, m, y)
<1> DEFINE u == SessionFor(p, m)
           key == NewKey(p, 1)
           t == DecryptedFrom(u, m, key)
           s == session[p]
           L == KeysMade \cup {key}
           step == IF Opens(p, m) /\ m.oneTimeId # NoKeyId THEN "opened" ELSE "decrypted"
<1>1. /\ CanDecrypt(p, m) /\ m.from = Peer(p) /\ FormedFor(p) /\ op[p].step = "none"
      /\ op' = [op EXCEPT ![p] = [step |-> step, session |-> t, message |-> m]]
  BY DEF Decrypt, IsFor
<1>2. m \in Messages(KeysMade) /\ MessageFormed(m) /\ m \in SentBy(Peer(p))
  BY <1>1, DecryptGives DEF SentBy
<1>3. op'[p] = [step |-> step, session |-> t, message |-> m]
  BY <1>1 DEF Typed, TypedOver
<1>4. /\ Forgets(p, m) => "session forgotten" \in lapses'[p]
      /\ Evicts(p, m) => "keys evicted" \in lapses'[p]
      /\ MayReopen(p, m) => "session reopened" \in lapses'[p]
  BY DEF Decrypt, Lapse, Typed, TypedKeys
<1>5. WrittenCores(p)' = CoresOf(t)
  <2>1. op'[p].step # "none" /\ op'[p].session = t
    <3> HIDE DEF t
    <3> QED BY <1>3
  <2> HIDE DEF t
  <2> QED BY <2>1 DEF WrittenCores
<1>6. /\ u \in Session(KeysMade) /\ Decrypts(u, m)
      /\ Opens(p, m) =>
           /\ Turns(p, m) /\ Core(u, 0) = Incoming(p, m)
           /\ s # NoSession => m.baseKey \notin Bases(s)
  BY <1>1, <1>2, FrontFor
<1>7. /\ s = NoSession => u.prevSessions = <<>> /\ Opens(p, m)
      /\ s # NoSession =>
           /\ Arranges(u, s, 1..Len(u.prevSessions))
           /\ Opens(p, m) \/ Arranges(u, s, Chains(u))
           /\ Forgets(p, m) \/ Keeps(u, s)
      /\ Opens(p, m) => u.recvChains = <<>>
  BY <1>1, <1>2, SessionForIs DEF CanDecrypt
<1>8. /\ Chains(t) = Chains(u) /\ \A i \in Chains(u) \ {0} : Core(t, i) = Core(u, i)
      /\ Turns(p, m) => Turned(Core(t, 0), Core(u, 0), m, key)
      /\ ~Turns(p, m) => Advances(Core(t, 0), Core(u, 0), m)
  BY <1>1, <1>2, DecryptedIs
<1>9. /\ Turns(p, m) <=> KnownChains(u, m) = {}
      /\ ~Evicts(p, m) =>
           Roomy(ChainFor(u, m), m.counter) /\ (Turns(p, m) => ~(Len(u.recvChains) >= MaxRecvChains))
  BY DEF Turns, Evicts, Roomy
<1>10. KeysMade \subseteq L /\ key \in L
  OBVIOUS
<1>11. Len(u.recvChains) \in Nat /\ MaxRecvChains \in Nat /\ Len(u.prevSessions) \in Nat
  BY <1>6, RecordIs, LenProperties DEF RatchetAssumption
<1> HIDE DEF L, u, key, s
<1>12. Turns(p, m) => Turning(p, m, Core(t, 0), Core(u, 0))
  <2>1. ASSUME Turns(p, m), ~Evicts(p, m) PROVE GainsChain(Core(t, 0), Core(u, 0), m)
    BY <1>2, <1>6, <1>9, <1>10, <1>11, <2>1, DecryptedGains
  <2> QED BY <1>4, <1>8, <2>1 DEF Turning, key
<1>13. ~Turns(p, m) => Further(p, m, Core(t, 0), Core(u, 0))
  <2>1. ASSUME ~Turns(p, m), ~Evicts(p, m) PROVE Listened(Core(t, 0), Core(u, 0), m)
    BY <1>2, <1>6, <1>9, <2>1, DecryptedListens
  <2> QED BY <1>4, <1>8, <2>1 DEF Further
<1> HIDE DEF t, step
<1>14. /\ Chains(u) \ {0} = 1..Len(u.prevSessions) /\ 0 \in Chains(u)
  BY <1>11 DEF Chains
<1>15. s = NoSession => Chains(u) = {0}
  BY <1>6, <1>7, AloneIs
<1>16. \A i \in Chains(u) \ {0} : Core(t, i) \in StoredCores(p)
  <2> SUFFICES ASSUME NEW i \in Chains(u) \ {0} PROVE Core(t, i) \in StoredCores(p)
    OBVIOUS
  <2>1. s # NoSession
    BY <1>15
  <2>2. Arranges(u, s, Chains(u) \ {0})
    BY <1>7, <1>14, <2>1
  <2>3. Core(u, i) \in CoresOf(s)
    BY <2>2 DEF Arranges, CoresOf
  <2> QED BY <1>8, <2>1, <2>3 DEF StoredCores, s
<1>17. \A z \in CoresOf(t) : z = Core(t, 0) \/ z \in StoredCores(p)
  BY <1>8, <1>16 DEF CoresOf
<1>18. Core(t, 0) \in CoresOf(t)
  BY <1>8, <1>14 DEF CoresOf
<1>19. Forgets(p, m) \/ \A z \in StoredCores(p) : z = Core(u, 0) \/ z \in CoresOf(t)
  <2> SUFFICES ASSUME ~Forgets(p, m), NEW z \in StoredCores(p), z # Core(u, 0)
               PROVE  z \in CoresOf(t)
    OBVIOUS
  <2>1. s # NoSession /\ z \in CoresOf(s)
    BY DEF StoredCores, s
  <2>2. PICK i \in Chains(u) : Core(u, i) = z
    BY <1>7, <2>1 DEF Keeps, CoresOf
  <2>3. i \in Chains(u) \ {0}
    BY <2>2
  <2> QED BY <1>8, <2>2, <2>3 DEF CoresOf
<1>20. Decodes(p, m, Core(t, 0))
  <2>1. CASE Opens(p, m)
    <3>1. \A z \in StoredCores(p) : z.aliceBaseKey # m.baseKey
      BY <1>6, <2>1 DEF StoredCores, CoresOf, Bases, Base, s
    <3>2. m.oneTimeId \in preKeys[p] \/ m.oneTimeId = NoKeyId
      BY <1>1, <2>1 DEF CanDecrypt, HasPreKeys
    <3>3. Incoming(p, m).aliceBaseKey = m.baseKey /\ Core(u, 0) = Incoming(p, m)
      BY <1>6, <2>1, IncomingCore
    <3>4. Turning(p, m, Core(t, 0), Incoming(p, m))
      BY <1>6, <1>12, <2>1, <3>3
    <3>5. "session forgotten" \in lapses'[p] \/ StoredCores(p) \subseteq CoresOf(t)
      BY <1>4, <1>19, <3>1, <3>3
    <3>6. /\ \A z \in WrittenCores(p)' : z = Core(t, 0) \/ z \in StoredCores(p)
          /\ "session forgotten" \in lapses'[p] \/ StoredCores(p) \subseteq WrittenCores(p)'
      BY <1>5, <1>17, <3>5
    <3> QED BY <2>1, <3>1, <3>2, <3>4, <3>6, Zenon DEF Decodes
  <2>2. CASE ~Opens(p, m)
    <3>1. s # NoSession /\ Arranges(u, s, Chains(u))
      BY <1>7, <2>2
    <3>2. Core(u, 0) \in StoredCores(p)
      <4>1. Core(u, 0) \in CoresOf(s)
        BY <1>14, <3>1 DEF Arranges, CoresOf
      <4> QED BY <3>1, <4>1 DEF StoredCores, s
    <3>3. Further(p, m, Core(t, 0), Core(u, 0)) \/ Turning(p, m, Core(t, 0), Core(u, 0))
      BY <1>12, <1>13
    <3>4. \/ "session forgotten" \in lapses'[p]
          \/ \A z \in StoredCores(p) : z = Core(u, 0) \/ z \in CoresOf(t)
      BY <1>4, <1>19
    <3>5. /\ \A z \in WrittenCores(p)' : z = Core(t, 0) \/ z \in StoredCores(p)
          /\ \/ "session forgotten" \in lapses'[p]
             \/ \A z \in StoredCores(p) : z = Core(u, 0) \/ z \in WrittenCores(p)'
      BY <1>5, <1>17, <3>4
    <3> DEFINE x == Core(u, 0)
               y == Core(t, 0)
    <3> HIDE DEF x, y
    <3>6. \E z \in StoredCores(p) :
            /\ Further(p, m, y, z) \/ Turning(p, m, y, z)
            /\ \/ "session forgotten" \in lapses'[p]
               \/ \A w \in StoredCores(p) : w = z \/ w \in WrittenCores(p)'
      BY <3>2, <3>3, <3>5 DEF x, y
    <3>7. \A z \in WrittenCores(p)' : z = y \/ z \in StoredCores(p)
      BY <3>5 DEF y
    <3>8. Decodes(p, m, y)
      BY <2>2, <3>6, <3>7, Zenon DEF Decodes
    <3> QED BY <3>8 DEF y
  <2> QED BY <2>1, <2>2
<1>21. op'[p].message = m /\ op'[p].step = step
  BY <1>3
<1>22. Core(t, 0) \in WrittenCores(p)'
  BY <1>5, <1>18
<1>23. \E y \in WrittenCores(p)' : Decodes(p, m, y)
  BY <1>20, <1>22
<1> QED BY <1>1, <1>2, <1>4, <1>21, <1>23 DEF step
-----------------------------------------------------------------------------
(* What p sends with.                                                      *)

\* A record has one voice of a secret; what p writes has used its one-time pre-keys.
LEMMA OneVoice ==
  ASSUME Typed, NEW p \in Parties, FormedFor(p), Hears(p)
  PROVE  /\ \A v, w \in StoredVoices(p) : SecretIn(v) = SecretIn(w) => v = w
         /\ \A v, w \in WrittenVoices(p) : SecretIn(v) = SecretIn(w) => v = w
         /\ op[p].step \in {"encrypted", "decrypted"} =>
              \A v \in WrittenVoices(p) : BaseIn(v)[1] # p => IdIn(v) \notin preKeys[p]
<1>1. ASSUME NEW x \in StoredCores(p) \cup WrittenCores(p) \cup PreparedCores(p)
      PROVE  /\ SecretIn(VoiceOf(x)) = SecretOf(x) /\ BaseIn(VoiceOf(x)) = x.aliceBaseKey
             /\ IdIn(VoiceOf(x)) = x.oneTimeId
  BY VoicesAre
<1>2. /\ \A x, y \in StoredCores(p) : x.aliceBaseKey = y.aliceBaseKey => x = y
      /\ \A x, y \in WrittenCores(p) : x.aliceBaseKey = y.aliceBaseKey => x = y
  BY OneSession
<1>3. \A x, y : SecretOf(x) = SecretOf(y) => x.aliceBaseKey = y.aliceBaseKey
  BY DEF SecretOf
<1>4. \A v, w \in StoredVoices(p) : SecretIn(v) = SecretIn(w) => v = w
  BY <1>1, <1>2, <1>3 DEF StoredVoices, VoicesOf
<1>5. \A v, w \in WrittenVoices(p) : SecretIn(v) = SecretIn(w) => v = w
  BY <1>1, <1>2, <1>3 DEF WrittenVoices, VoicesOf
<1>6. ASSUME op[p].step \in {"encrypted", "decrypted"}, NEW v \in WrittenVoices(p), BaseIn(v)[1] # p
      PROVE  IdIn(v) \notin preKeys[p]
  <2>1. PICK x \in WrittenCores(p) : v = VoiceOf(x)
    BY DEF WrittenVoices, VoicesOf
  <2>2. PICK i \in Chains(op[p].session) : x = Core(op[p].session, i)
    BY <1>6, <2>1 DEF WrittenCores, CoresOf
  <2>3. Spends(op[p].session, p, Chains(op[p].session), preKeys[p])
    BY <1>6 DEF Hears, WriteHears
  <2>4. x.aliceBaseKey[1] # p => x.oneTimeId \notin preKeys[p]
    BY <2>2, <2>3 DEF Spends, Base
  <2> QED BY <1>1, <1>6, <2>1, <2>4
<1> QED BY <1>4, <1>5, <1>6

\* Where no voice is new, the voices stay told apart, and p's keys its own.
LEMMA FewerVoices ==
  ASSUME NEW p \in Parties, Speaks(p), Voices(p)' \subseteq Voices(p),
         bundles'[Peer(p)] \subseteq bundles[Peer(p)]
  PROVE  Told(Voices(p), p)' /\ OwnKeys(p)'
<1>1. Told(Voices(p), p) /\ OwnKeys(p)
  BY DEF Speaks
<1>2. \A V, W : V \subseteq W /\ Told(W, p) => Told(V, p)
  BY DEF Told
<1>3. Told(Voices(p)', p)
  BY <1>1, <1>2
<1>4. OwnKeys(p)'
  BY <1>1 DEF OwnKeys
<1> QED BY <1>3, <1>4

\* p has the voices it had, perhaps without the one it prepared.
LEMMA SameVoices ==
  ASSUME NEW p \in Parties, Speaks(p),
         Said(p)' = Said(p), StoredVoices(p)' = StoredVoices(p), WrittenVoices(p)' = WrittenVoices(p),
         PreparedVoices(p)' \subseteq PreparedVoices(p), op'[p].step # "none" => op[p].step # "none",
         preKeys'[p] \subseteq preKeys[p], bundles'[Peer(p)] \subseteq bundles[Peer(p)],
         lapses[p] \subseteq lapses'[p]
  PROVE  Speaks(p)'
<1>1. InUse(p)' = InUse(p) /\ Voices(p)' \subseteq Voices(p)
  BY DEF InUse, Voices
<1>2. Forgetful(p) => Forgetful(p)'
  BY LapsesStay
<1>3. Told(Voices(p), p)' /\ OwnKeys(p)'
  BY <1>1, FewerVoices
<1>4. Furthest(p)'
  BY DEF Speaks, Furthest
<1>5. Opened(p)'
  BY <1>2 DEF Speaks, Opened
<1>6. SecretsKept(p)'
  BY <1>2 DEF Speaks, SecretsKept
<1>7. TaskFresh(p)'
  BY <1>1 DEF Speaks, TaskFresh
<1> QED BY <1>3, <1>4, <1>5, <1>6, <1>7 DEF Speaks

\* The operation is over: its record was stored, and its ciphertext sent, or not.
LEMMA EndsSpeaking ==
  ASSUME Typed, NEW p \in Parties, FormedFor(p), Hears(p), Speaks(p), op[p].step # "none",
         op'[p].step = "none", WrittenVoices(p)' = {},
         PreparedVoices(p)' \subseteq PreparedVoices(p),
         UNCHANGED <<preKeys, bundles>>, lapses[p] \subseteq lapses'[p],
         \/ StoredVoices(p)' = StoredVoices(p) /\ Said(p)' = Said(p)
         \/ /\ StoredVoices(p)' = WrittenVoices(p) /\ op[p].step \in {"encrypted", "decrypted"}
            /\ Said(p)' = Said(p) \/ \E v \in WrittenVoices(p) : Said(p)' = Said(p) \cup {v}
  PROVE  Speaks(p)'
<1>1. InUse(p)' \subseteq InUse(p) /\ Voices(p)' \subseteq Voices(p)
  BY DEF InUse, Voices
<1>2. Forgetful(p) => Forgetful(p)'
  BY LapsesStay
<1>3. Told(Voices(p), p)' /\ OwnKeys(p)'
  BY <1>1, FewerVoices
<1>4. Furthest(p)' /\ Opened(p)'
  <2>1. CASE StoredVoices(p)' = StoredVoices(p) /\ Said(p)' = Said(p)
    <3>1. Furthest(p)'
      BY <2>1 DEF Speaks, Furthest
    <3>2. Opened(p)'
      BY <1>2, <2>1 DEF Speaks, Opened
    <3> QED BY <3>1, <3>2
  <2>2. CASE /\ StoredVoices(p)' = WrittenVoices(p) /\ op[p].step \in {"encrypted", "decrypted"}
             /\ Said(p)' = Said(p) \/ \E v \in WrittenVoices(p) : Said(p)' = Said(p) \cup {v}
    <3>1. \A v \in Said(p)' : v \in Said(p) \/ v \in WrittenVoices(p)
      BY <2>2
    <3>2. ASSUME NEW v \in WrittenVoices(p), NEW w \in WrittenVoices(p), SecretIn(v) = SecretIn(w)
          PROVE  Len(v[2]) <= Len(w[2])
      <4>1. v = w
        BY <3>2, OneVoice
      <4>2. Len(v[2]) \in Nat
        BY VoicesAre DEF VoiceFormed, Voices, InUse
      <4> QED BY <4>1, <4>2
    <3>3. \A v \in Said(p)', w \in WrittenVoices(p) :
            SecretIn(v) = SecretIn(w) => Len(v[2]) <= Len(w[2])
      BY <3>1, <3>2 DEF Speaks, Furthest
    <3>4. Furthest(p)'
      BY <2>2, <3>3 DEF Furthest
    <3>5. ASSUME NEW v \in Said(p)'
          PROVE  /\ Forgetful(p) \/ \E w \in WrittenVoices(p) : SecretIn(w) = SecretIn(v)
                 /\ BaseIn(v)[1] # p => IdIn(v) \notin preKeys[p]
      <4>1. CASE v \in Said(p)
        BY <4>1 DEF Speaks, Opened, SecretsKept
      <4>2. CASE v \in WrittenVoices(p)
        BY <2>2, <4>2, OneVoice
      <4> QED BY <3>1, <4>1, <4>2
    <3>6. Opened(p)'
      BY <1>2, <2>2, <3>5 DEF Opened
    <3> QED BY <3>4, <3>6
  <2> QED BY <2>1, <2>2
<1>5. SecretsKept(p)'
  BY DEF SecretsKept
<1>6. TaskFresh(p)'
  BY <1>1 DEF Speaks, TaskFresh
<1> QED BY <1>3, <1>4, <1>5, <1>6 DEF Speaks

\* What was prepared is stored.
LEMMA StoresSpeaking ==
  ASSUME NEW p \in Parties, Speaks(p), op'[p].step = "none",
         Said(p)' = Said(p), StoredVoices(p)' = PreparedVoices(p),
         WrittenVoices(p)' = {}, PreparedVoices(p)' = {},
         UNCHANGED <<preKeys, bundles>>, lapses[p] \subseteq lapses'[p],
         StoredVoices(p) = {} \/ Forgetful(p)'
  PROVE  Speaks(p)'
<1>1. InUse(p)' \subseteq Voices(p) /\ Voices(p)' \subseteq Voices(p)
  BY DEF InUse, Voices
<1>2. Forgetful(p) => Forgetful(p)'
  BY LapsesStay
<1>3. Told(Voices(p), p)' /\ OwnKeys(p)'
  BY <1>1, FewerVoices
<1>4. Furthest(p)'
  <2>1. ASSUME NEW v \in Said(p), NEW w \in PreparedVoices(p) PROVE SecretIn(v) # SecretIn(w)
    <3>1. BaseIn(v) # BaseIn(w)
      BY DEF Speaks, TaskFresh, InUse
    <3> QED BY <3>1 DEF BaseIn
  <2> QED BY <2>1 DEF Furthest
<1>5. Opened(p)'
  BY <1>2 DEF Speaks, Opened
<1>6. SecretsKept(p)' /\ TaskFresh(p)'
  BY DEF SecretsKept, TaskFresh
<1> QED BY <1>3, <1>4, <1>5, <1>6 DEF Speaks

\* A party still speaks when its session is deleted, ...
LEMMA DropsSpeaking ==
  ASSUME NEW p \in Parties, Speaks(p), Forgetful(p)', StoredVoices(p)' = {},
         Said(p)' = Said(p), WrittenVoices(p)' = WrittenVoices(p),
         PreparedVoices(p)' = PreparedVoices(p), UNCHANGED <<preKeys, bundles>>
  PROVE  Speaks(p)'
<1>1. InUse(p)' \subseteq InUse(p) /\ Voices(p)' \subseteq Voices(p)
  BY DEF InUse, Voices
<1>2. Told(Voices(p), p)' /\ OwnKeys(p)'
  BY <1>1, FewerVoices
<1>3. Furthest(p)'
  BY DEF Speaks, Furthest
<1>4. Opened(p)'
  BY DEF Speaks, Opened
<1>5. SecretsKept(p)' /\ TaskFresh(p)'
  BY <1>1 DEF Speaks, SecretsKept, TaskFresh
<1> QED BY <1>2, <1>3, <1>4, <1>5 DEF Speaks

\* ... and when it is about to write the sessions it has.
LEMMA StartsSpeaking ==
  ASSUME NEW p \in Parties, Speaks(p), Said(p)' = Said(p), StoredVoices(p)' = StoredVoices(p),
         WrittenVoices(p)' = StoredVoices(p), PreparedVoices(p)' \subseteq PreparedVoices(p),
         UNCHANGED <<preKeys, bundles>>, lapses[p] \subseteq lapses'[p]
  PROVE  Speaks(p)'
<1>1. InUse(p)' \subseteq InUse(p) /\ Voices(p)' \subseteq Voices(p)
  BY DEF InUse, Voices
<1>2. Told(Voices(p), p)' /\ OwnKeys(p)'
  BY <1>1, FewerVoices
<1>3. Forgetful(p) => Forgetful(p)'
  BY LapsesStay
<1>4. Furthest(p)'
  BY DEF Speaks, Furthest
<1>5. Opened(p)'
  BY <1>3 DEF Speaks, Opened
<1>6. SecretsKept(p)' /\ TaskFresh(p)'
  BY <1>1 DEF Speaks, SecretsKept, TaskFresh
<1> QED BY <1>2, <1>4, <1>5, <1>6 DEF Speaks

\* A voice that differs from all others.
LEMMA ToldMore ==
  ASSUME NEW V, NEW p, NEW w, Told(V, p),
         \A v \in V : v[1] # w[1],
         \A v \in V : ~(SecretIn(v) = SecretIn(w) /\ Len(v[2]) = Len(w[2])),
         \A v \in V :
           (BaseIn(v)[1] = p \/ BaseIn(w)[1] = p) /\ BaseIn(v) = BaseIn(w) => SecretIn(v) = SecretIn(w),
         \A v \in V :
           BaseIn(v)[1] = p /\ BaseIn(w)[1] = p /\ IdIn(v) = IdIn(w) /\ IdIn(v) # NoKeyId =>
             BaseIn(v) = BaseIn(w)
  PROVE  Told(V \cup {w}, p)
<1> SUFFICES ASSUME NEW v \in V \cup {w}, NEW z \in V \cup {w}
             PROVE  /\ v[1] = z[1] => v = z
                    /\ SecretIn(v) = SecretIn(z) /\ Len(v[2]) = Len(z[2]) => v = z
                    /\ BaseIn(v)[1] = p /\ BaseIn(v) = BaseIn(z) => SecretIn(v) = SecretIn(z)
                    /\ BaseIn(v)[1] = p /\ BaseIn(z)[1] = p /\ IdIn(v) = IdIn(z) /\ IdIn(v) # NoKeyId =>
                         BaseIn(v) = BaseIn(z)
  BY DEF Told
<1>1. CASE v = w /\ z = w
  BY <1>1
<1>2. CASE v = w /\ z \in V
  BY <1>2
<1>3. CASE v \in V /\ z = w
  BY <1>3
<1>4. CASE v \in V /\ z \in V
  BY <1>4 DEF Told
<1> QED BY <1>1, <1>2, <1>3, <1>4

\* p's record gets one new voice: a session that p has is two agreements further, or p
\* opened one that it never sent with.
LEMMA GainsVoice ==
  ASSUME Typed, NEW p \in Parties, FormedFor(p), Hears(p), Speaks(p), NEW w,
         w[1] \notin KeysMade, w[1] # SignedPreKey(p),
         WrittenVoices(p) = {}, WrittenVoices(p)' \subseteq StoredVoices(p) \cup {w},
         Said(p)' = Said(p), StoredVoices(p)' = StoredVoices(p), PreparedVoices(p)' = PreparedVoices(p),
         UNCHANGED <<preKeys, bundles>>, lapses[p] \subseteq lapses'[p],
         \/ \E x \in StoredVoices(p) : SecretIn(w) = SecretIn(x) /\ Len(w[2]) = Len(x[2]) + 2
         \/ /\ BaseIn(w)[1] # p /\ \A v \in InUse(p) : SecretIn(v) # SecretIn(w)
            /\ \A v \in PreparedVoices(p) : BaseIn(v)[1] = p,
         \/ Forgetful(p)'
         \/ \A v \in StoredVoices(p) : \E z \in WrittenVoices(p)' : SecretIn(v) = SecretIn(z)
  PROVE  Speaks(p)'
<1>1. /\ \A v \in Voices(p) : v[1] # w[1]
      /\ \A v \in Voices(p) : ~(SecretIn(v) = SecretIn(w) /\ Len(v[2]) = Len(w[2]))
      /\ \A v \in Voices(p) :
           (BaseIn(v)[1] = p \/ BaseIn(w)[1] = p) /\ BaseIn(v) = BaseIn(w) => SecretIn(v) = SecretIn(w)
      /\ \A v \in Voices(p) :
           BaseIn(v)[1] = p /\ BaseIn(w)[1] = p /\ IdIn(v) = IdIn(w) /\ IdIn(v) # NoKeyId =>
             BaseIn(v) = BaseIn(w)
      /\ BaseIn(w)[1] = p => IdIn(w) \notin bundles[Peer(p)]
      /\ \A v \in Said(p) : SecretIn(v) = SecretIn(w) => Len(v[2]) <= Len(w[2])
      /\ \A v \in PreparedVoices(p) : BaseIn(v) # BaseIn(w)
  <2>1. ASSUME NEW v \in Voices(p)
        PROVE  v[1] # w[1] /\ Len(v[2]) \in Nat
    BY <2>1, VoicesAre DEF VoiceFormed
  <2>2. CASE \E x \in StoredVoices(p) : SecretIn(w) = SecretIn(x) /\ Len(w[2]) = Len(x[2]) + 2
    <3>1. PICK x \in StoredVoices(p) : SecretIn(w) = SecretIn(x) /\ Len(w[2]) = Len(x[2]) + 2
      BY <2>2
    <3>2. x \in Voices(p) /\ x \in InUse(p) /\ BaseIn(w) = BaseIn(x) /\ IdIn(w) = IdIn(x)
      BY <3>1 DEF Voices, InUse, BaseIn, IdIn
    <3>3. Len(x[2]) \in Nat
      BY <2>1, <3>2
    <3>4. ASSUME NEW v \in Said(p), SecretIn(v) = SecretIn(w)
          PROVE  Len(v[2]) <= Len(w[2]) /\ Len(v[2]) # Len(w[2])
      <4>1. Len(v[2]) <= Len(x[2])
        BY <3>1, <3>4 DEF Speaks, Furthest
      <4>2. Len(v[2]) \in Nat
        BY <2>1 DEF Voices, InUse
      <4> QED BY <3>1, <3>3, <4>1, <4>2
    <3>5. ASSUME NEW v \in StoredVoices(p), SecretIn(v) = SecretIn(w)
          PROVE  Len(v[2]) # Len(w[2])
      <4>1. v = x
        BY <3>1, <3>5, OneVoice
      <4> QED BY <3>1, <3>3, <4>1
    <3>6. ASSUME NEW v \in PreparedVoices(p)
          PROVE  BaseIn(v) # BaseIn(w) /\ SecretIn(v) # SecretIn(w)
      <4>1. BaseIn(v) # BaseIn(x)
        BY <3>2 DEF Speaks, TaskFresh
      <4> QED BY <3>2, <4>1 DEF BaseIn
    <3>7. \A v \in Voices(p) : ~(SecretIn(v) = SecretIn(w) /\ Len(v[2]) = Len(w[2]))
      BY <3>4, <3>5, <3>6 DEF Voices, InUse
    <3>8. Told(Voices(p), p) /\ OwnKeys(p)
      BY DEF Speaks
    <3>9. \A v \in Voices(p) :
            /\ (BaseIn(v)[1] = p \/ BaseIn(w)[1] = p) /\ BaseIn(v) = BaseIn(w) => SecretIn(v) = SecretIn(w)
            /\ BaseIn(v)[1] = p /\ BaseIn(w)[1] = p /\ IdIn(v) = IdIn(w) /\ IdIn(v) # NoKeyId =>
                 BaseIn(v) = BaseIn(w)
      BY <3>1, <3>2, <3>8 DEF Told
    <3>10. BaseIn(w)[1] = p => IdIn(w) \notin bundles[Peer(p)]
      BY <3>2, <3>8 DEF OwnKeys
    <3> QED BY <2>1, <3>4, <3>6, <3>7, <3>9, <3>10
  <2>3. CASE /\ BaseIn(w)[1] # p /\ \A v \in InUse(p) : SecretIn(v) # SecretIn(w)
             /\ \A v \in PreparedVoices(p) : BaseIn(v)[1] = p
    <3>1. \A v \in Voices(p) : SecretIn(v) # SecretIn(w)
      BY <2>3 DEF Voices, BaseIn
    <3>2. Said(p) \subseteq Voices(p)
      BY DEF Voices, InUse
    <3> QED BY <2>1, <2>3, <3>1, <3>2
  <2> QED BY <2>2, <2>3
<1>2. Voices(p)' \subseteq Voices(p) \cup {w} /\ InUse(p)' \subseteq InUse(p) \cup {w}
  BY DEF Voices, InUse
<1>3. Told(Voices(p), p) /\ OwnKeys(p)
  BY DEF Speaks
<1>4. Told(Voices(p) \cup {w}, p)
  BY <1>1, <1>3, ToldMore
<1>5. Told(Voices(p), p)'
  <2>1. \A V, W : V \subseteq W /\ Told(W, p) => Told(V, p)
    BY DEF Told
  <2>2. Told(Voices(p)', p)
    BY <1>2, <1>4, <2>1
  <2> QED BY <2>2
<1>6. OwnKeys(p)'
  BY <1>1, <1>2, <1>3 DEF OwnKeys
<1>7. Furthest(p)'
  BY <1>1 DEF Speaks, Furthest
<1>8. Forgetful(p) => Forgetful(p)'
  BY LapsesStay
<1>9. Opened(p)'
  BY <1>8 DEF Speaks, Opened
<1>10. SecretsKept(p)'
  BY <1>8 DEF SecretsKept
<1>11. TaskFresh(p)'
  BY <1>1, <1>2 DEF Speaks, TaskFresh
<1> QED BY <1>5, <1>6, <1>7, <1>9, <1>10, <1>11 DEF Speaks

\* A new session is prepared with two new keys, and with a pre-key that is not handed
\* out again.
LEMMA PrepareMakes ==
  ASSUME RatchetAssumption, SessionsAssumption, Typed, NEW p \in Parties, NEW step, Prepare(p, step)
  PROVE  \E id \in Nat, base, ratchet \in KeysMade' :
           /\ base \notin KeysMade /\ ratchet \notin KeysMade /\ base[1] = p /\ ratchet # SignedPreKey(p)
           /\ id \in bundles[Peer(p)] \/ id = NoKeyId
           /\ id \notin bundles'[Peer(p)] /\ bundles'[Peer(p)] \subseteq bundles[Peer(p)]
           /\ bundles'[p] = bundles[p]
           /\ task'[p] = [step |-> step, session |-> Outgoing(Peer(p), id, base, ratchet)]
<1> DEFINE q == Peer(p)
<1>1. q \in Parties /\ q # p
  BY PeerIs
<1>2. generated' = [generated EXCEPT ![p] = @ + 2]
  BY DEF Prepare
<1>3. PICK id \in HandedOut(q) :
        /\ bundles' = [bundles EXCEPT ![q] = IF id = NoKeyId THEN {} ELSE @ \ {id}]
        /\ task' = [task EXCEPT ![p] = [step |-> step, session |-> NewSession(p, id)]]
  BY DEF Prepare
<1>4. /\ NewKey(p, 1) \in KeysMade' /\ NewKey(p, 2) \in KeysMade'
      /\ NewKey(p, 1) \notin KeysMade /\ NewKey(p, 2) \notin KeysMade
  <2>1. 2 \in Nat /\ 1 \in 1..2 /\ 2 \in 1..2
    OBVIOUS
  <2> QED BY <1>2, <2>1, KeysGrow
<1>5. NewKey(p, 1)[1] = p /\ NewKey(p, 2) # SignedPreKey(p)
  <2>1. 1 \in Nat \ {0} /\ 2 \in Nat \ {0}
    OBVIOUS
  <2> QED BY <2>1, NewKeyIs
<1>6. bundles[q] \subseteq OneTimeKeys /\ OneTimeKeys \subseteq Nat
  BY <1>1 DEF Typed, TypedKeys, SessionsAssumption
<1>7. (id \in bundles[q] \/ id = NoKeyId) /\ id \in Nat
  <2>1. CASE bundles[q] = {}
    BY <1>3, <2>1 DEF HandedOut, NoKeyId
  <2>2. CASE bundles[q] # {}
    <3>1. FirstIn(bundles[q]) \in bundles[q]
      BY <1>6, <2>2, LeastIs
    <3> QED BY <1>3, <1>6, <2>2, <3>1 DEF HandedOut, NoKeyId
  <2> QED BY <2>1, <2>2
<1>8. /\ id \notin bundles'[q] /\ bundles'[q] \subseteq bundles[q] /\ bundles'[p] = bundles[p]
  BY <1>1, <1>3 DEF Typed, TypedKeys
<1>9. task'[p] = [step |-> step, session |-> Outgoing(q, id, NewKey(p, 1), NewKey(p, 2))]
  BY <1>3 DEF Typed, TypedOver, NewSession
<1> QED BY <1>4, <1>5, <1>7, <1>8, <1>9

\* The voice of what was prepared.
LEMMA MadeVoice ==
  ASSUME RatchetAssumption, NEW K, NEW p \in Parties, NEW q \in Parties, SignedPreKey(q) \in K,
         NEW base \in K, NEW ratchet \in K, NEW id \in Nat
  PROVE  LET s == Outgoing(q, id, base, ratchet)
             v == <<ratchet, CalculateRatchet(Secret(base, id), ratchet, SignedPreKey(q))>>
         IN /\ CoresOf(s) = {s} /\ VoiceOf(s) = v /\ VoicesOf(CoresOf(s)) = {v}
            /\ SecretIn(v) = <<base, id>> /\ BaseIn(v) = base /\ IdIn(v) = id /\ Len(v[2]) = 2
<1> DEFINE s == Outgoing(q, id, base, ratchet)
           root == CalculateRatchet(Secret(base, id), ratchet, SignedPreKey(q))
           v == <<ratchet, root>>
<1>1. Chains(s) = {0} /\ Core(s, 0) = s /\ s.rootKey = root /\ s.sendChain.ratchetKey = ratchet
  BY OutgoingCore
<1>2. root[1] = <<base, id>> /\ Len(root) = 2
  <2>1. Secret(base, id) \in ChainKeys(K)
    BY SecretIs
  <2> QED BY <2>1, AgreementIs, SecretHas
<1> HIDE DEF s, root
<1>3. CoresOf(s) = {s}
  BY <1>1 DEF CoresOf
<1>4. VoiceOf(s) = v
  BY <1>1 DEF VoiceOf
<1>5. VoicesOf(CoresOf(s)) = {v}
  BY <1>3, <1>4 DEF VoicesOf
<1>6. SecretIn(v) = <<base, id>> /\ BaseIn(v) = base /\ IdIn(v) = id /\ Len(v[2]) = 2
  BY <1>2 DEF SecretIn, BaseIn, IdIn
<1> QED BY <1>3, <1>4, <1>5, <1>6 DEF s, root

\* A party still speaks with a new session that it prepared, ...
LEMMA PrepareSpeaks ==
  ASSUME RatchetAssumption, SessionsAssumption, Typed, NEW p \in Parties, FormedFor(p), Speaks(p),
         NEW step \in {"prepared", "renewing"}, Prepare(p, step), task[p].step = "none",
         UNCHANGED <<session, preKeys, op, sent, lapses>>
  PROVE  Speaks(p)'
<1> DEFINE q == Peer(p)
<1>1. q \in Parties /\ SignedPreKey(q) \in KeysMade /\ KeysMade \subseteq KeysMade'
  BY PeerIs, SignedIsMade, PrepareIs
<1>2. PICK id \in Nat, base \in KeysMade', ratchet \in KeysMade' :
        /\ base \notin KeysMade /\ ratchet \notin KeysMade /\ base[1] = p /\ ratchet # SignedPreKey(p)
        /\ id \in bundles[q] \/ id = NoKeyId
        /\ id \notin bundles'[q] /\ bundles'[q] \subseteq bundles[q]
        /\ bundles'[p] = bundles[p]
        /\ task'[p] = [step |-> step, session |-> Outgoing(q, id, base, ratchet)]
  BY PrepareMakes
<1> DEFINE L == KeysMade'
           s == Outgoing(q, id, base, ratchet)
           w == <<ratchet, CalculateRatchet(Secret(base, id), ratchet, SignedPreKey(q))>>
<1>3. SignedPreKey(q) \in L /\ base \in L /\ ratchet \in L
  BY <1>1
<1> HIDE DEF L
<1>4. /\ VoicesOf(CoresOf(s)) = {w} /\ w[1] = ratchet
      /\ SecretIn(w) = <<base, id>> /\ BaseIn(w) = base /\ IdIn(w) = id
  BY <1>1, <1>3, MadeVoice
<1> HIDE DEF s, w
<1>5. PreparedVoices(p) = {} /\ PreparedVoices(p)' = {w}
  <2>1. PreparedCores(p)' = CoresOf(s)
    BY <1>2 DEF PreparedCores, s
  <2> QED BY <1>4, <2>1 DEF PreparedVoices, PreparedCores, VoicesOf
<1>6. /\ Said(p)' = Said(p) /\ StoredVoices(p)' = StoredVoices(p) /\ WrittenVoices(p)' = WrittenVoices(p)
      /\ InUse(p)' = InUse(p)
  BY DEF Said, SentBy, StoredVoices, StoredCores, WrittenVoices, WrittenCores, InUse
<1>7. Voices(p)' = Voices(p) \cup {w} /\ Voices(p) = InUse(p)
  BY <1>5, <1>6 DEF Voices
<1>8. ASSUME NEW v \in Voices(p)
      PROVE  /\ v[1] # w[1] /\ BaseIn(v) # BaseIn(w) /\ SecretIn(v) # SecretIn(w)
             /\ BaseIn(v)[1] = p => ~(IdIn(v) = IdIn(w) /\ IdIn(v) # NoKeyId)
  <2>1. v[1] \in KeysMade /\ BaseIn(v) \in KeysMade
    BY VoicesAre DEF VoiceFormed
  <2>2. BaseIn(v)[1] = p => IdIn(v) \notin bundles[q]
    BY DEF Speaks, OwnKeys
  <2>3. v[1] # w[1] /\ BaseIn(v) # BaseIn(w)
    BY <1>2, <1>4, <2>1
  <2> QED BY <1>2, <1>4, <2>2, <2>3 DEF BaseIn
<1>9. Told(Voices(p), p) /\ OwnKeys(p)
  BY DEF Speaks
<1>10. Told(Voices(p), p)'
  <2>1. Told(Voices(p) \cup {w}, p)
    BY <1>8, <1>9, ToldMore
  <2>2. Told(Voices(p)', p)
    BY <1>7, <2>1
  <2> QED BY <2>2
<1>11. OwnKeys(p)'
  BY <1>2, <1>4, <1>7, <1>9 DEF OwnKeys
<1>12. Furthest(p)' /\ Opened(p)' /\ SecretsKept(p)'
  BY <1>6 DEF Speaks, Furthest, Opened, SecretsKept, Forgetful, Lapsed
<1>13. TaskFresh(p)'
  BY <1>5, <1>6, <1>7, <1>8 DEF TaskFresh
<1> QED BY <1>10, <1>11, <1>12, <1>13 DEF Speaks

\* ... and with the ratchet turned for a message.
LEMMA DecryptSpeaks ==
  ASSUME RatchetAssumption, SessionsAssumption, Typed, \A q \in Parties : FormedFor(q),
         NEW p \in Parties, NEW m \in sent, Decrypt(p, m), Makes(p), Hears(p), Speaks(p), Steady(p)'
  PROVE  Speaks(p)'
<1> DEFINE key == NewKey(p, 1)
<1>1. /\ m \in Messages(KeysMade) /\ MessageFormed(m) /\ m \in SentBy(Peer(p)) /\ op[p].step = "none"
      /\ "session reopened" \in lapses'[p] \/ ~MayReopen(p, m)
      /\ op'[p].step \in {"opened", "decrypted"}
  BY DecryptHas
<1>2. PICK y \in WrittenCores(p)' : Decodes(p, m, y)
  BY DecryptHas
<1>3. /\ UNCHANGED <<session, preKeys, bundles, task, sent>> /\ lapses[p] \subseteq lapses'[p]
  BY DEF Decrypt, Lapse, Typed, TypedKeys
<1>4. /\ Said(p)' = Said(p) /\ StoredVoices(p)' = StoredVoices(p) /\ PreparedVoices(p)' = PreparedVoices(p)
      /\ WrittenVoices(p) = {}
  BY <1>1, <1>3 DEF Said, SentBy, StoredVoices, StoredCores, PreparedVoices, PreparedCores,
                    WrittenVoices, WrittenCores, VoicesOf
<1>5. key \notin KeysMade /\ key # SignedPreKey(p)
  <2>1. key # SignedPreKey(p)
    <3>1. 1 \in Nat \ {0}
      OBVIOUS
    <3> QED BY <3>1, NewKeyIs
  <2>2. generated[p] \in Nat
    BY DEF Typed, TypedKeys, SessionsAssumption
  <2>3. ~(generated[p] + 1 <= generated[p])
    BY <2>2
  <2> QED BY <2>1, <2>3 DEF NewKey, KeysMade
<1>6. "session forgotten" \in lapses'[p] => Forgetful(p)'
  BY DEF Forgetful, Lapsed
<1>7. FormedFor(p)
  OBVIOUS
<1>8. ASSUME NEW x \in StoredCores(p)
      PROVE  /\ VoiceOf(x) \in StoredVoices(p) /\ SecretIn(VoiceOf(x)) = SecretOf(x)
             /\ x.rootKey[1] = SecretOf(x) /\ x.rootKey \in ChainKeys(KeysMade)
  <2>1. VoiceOf(x) \in StoredVoices(p)
    BY DEF StoredVoices, VoicesOf
  <2>2. SecretIn(VoiceOf(x)) = SecretOf(x)
    BY <1>7, VoicesAre
  <2>3. x.rootKey[1] = SecretOf(x) /\ x.rootKey \in ChainKeys(KeysMade)
    BY <1>7, KnownCores DEF Formed
  <2> QED BY <2>1, <2>2, <2>3
<1>9. \A z \in WrittenCores(p)' : VoiceOf(z) = VoiceOf(y) \/ VoiceOf(z) \in StoredVoices(p)
  BY <1>2, <1>8 DEF Decodes
<1>10. WrittenVoices(p)' \subseteq StoredVoices(p) \cup {VoiceOf(y)} /\ VoiceOf(y) \in WrittenVoices(p)'
       /\ \A z \in WrittenCores(p)' : VoiceOf(z) \in WrittenVoices(p)'
  BY <1>9 DEF WrittenVoices, VoicesOf
\* A turn: the voice is two agreements longer than that of x, or than the secret of m.
<1>11. ASSUME NEW x, Turning(p, m, y, x)
       PROVE  /\ VoiceOf(y)[1] = key /\ SecretIn(VoiceOf(y)) = m.chainKey[1]
              /\ Len(VoiceOf(y)[2]) = Len(m.chainKey) + 1
              /\ m.chainKey = CalculateRatchet(x.rootKey, x.sendChain.ratchetKey, m.ratchetKey)
  <2>1. /\ m.chainKey = CalculateRatchet(x.rootKey, x.sendChain.ratchetKey, m.ratchetKey)
        /\ y.rootKey = CalculateRatchet(m.chainKey, key, m.ratchetKey)
        /\ y.sendChain.ratchetKey = key
    BY <1>11 DEF Turning, Turned
  <2>2. m.chainKey \in ChainKeys(KeysMade)
    BY <1>1 DEF Messages
  <2>3. y.rootKey[1] = m.chainKey[1] /\ Len(y.rootKey) = Len(m.chainKey) + 1
    BY <2>1, <2>2, AgreementIs
  <2> QED BY <2>1, <2>3 DEF VoiceOf, SecretIn
<1>12. ASSUME NEW x \in StoredCores(p), ~Opens(p, m), Turning(p, m, y, x)
       PROVE  /\ SecretIn(VoiceOf(y)) = SecretIn(VoiceOf(x))
              /\ Len(VoiceOf(y)[2]) = Len(VoiceOf(x)[2]) + 2
  <2>1. m.chainKey[1] = x.rootKey[1] /\ Len(m.chainKey) = Len(x.rootKey) + 1 /\ Len(x.rootKey) \in Nat
    BY <1>8, <1>11, <1>12, AgreementIs
  <2>2. VoiceOf(x)[2] = x.rootKey
    BY DEF VoiceOf
  <2>3. SecretIn(VoiceOf(y)) = m.chainKey[1] /\ Len(VoiceOf(y)[2]) = Len(m.chainKey) + 1
    BY <1>11, <1>12
  <2>4. SecretIn(VoiceOf(y)) = SecretIn(VoiceOf(x))
    BY <1>8, <2>1, <2>3
  <2>5. Len(VoiceOf(y)[2]) = Len(x.rootKey) + 2
    BY <2>1, <2>3
  <2> QED BY <2>2, <2>4, <2>5
<1>13. CASE ~Opens(p, m)
  <2>1. PICK x \in StoredCores(p) :
          /\ Further(p, m, y, x) \/ Turning(p, m, y, x)
          /\ \/ "session forgotten" \in lapses'[p]
             \/ \A z \in StoredCores(p) : z = x \/ z \in WrittenCores(p)'
    BY <1>2, <1>13 DEF Decodes
  <2>2. SecretIn(VoiceOf(y)) = SecretIn(VoiceOf(x))
    <3>1. CASE Further(p, m, y, x)
      <4>1. VoiceOf(y) = VoiceOf(x)
        BY <3>1 DEF Further, Advances, VoiceOf
      <4> QED BY <4>1
    <3>2. CASE Turning(p, m, y, x)
      BY <1>12, <1>13, <3>2
    <3> QED BY <2>1, <3>1, <3>2
  <2>3. \/ Forgetful(p)'
        \/ \A v \in StoredVoices(p) : \E z \in WrittenVoices(p)' : SecretIn(v) = SecretIn(z)
    <3> SUFFICES ASSUME ~Forgetful(p)', NEW v \in StoredVoices(p)
                 PROVE  \E z \in WrittenVoices(p)' : SecretIn(v) = SecretIn(z)
      OBVIOUS
    <3>1. PICK z \in StoredCores(p) : v = VoiceOf(z)
      BY DEF StoredVoices, VoicesOf
    <3>2. z = x \/ z \in WrittenCores(p)'
      BY <1>6, <2>1
    <3> QED BY <1>10, <2>2, <3>1, <3>2
  <2>4. CASE Turning(p, m, y, x)
    <3>1. \E v \in StoredVoices(p) :
            SecretIn(VoiceOf(y)) = SecretIn(v) /\ Len(VoiceOf(y)[2]) = Len(v[2]) + 2
      BY <1>8, <1>12, <1>13, <2>4
    <3>2. VoiceOf(y)[1] = key
      BY <1>11, <2>4
    <3> DEFINE w == VoiceOf(y)
    <3> HIDE DEF w, key
    <3>3. /\ w[1] \notin KeysMade /\ w[1] # SignedPreKey(p)
          /\ WrittenVoices(p)' \subseteq StoredVoices(p) \cup {w}
          /\ \E v \in StoredVoices(p) : SecretIn(w) = SecretIn(v) /\ Len(w[2]) = Len(v[2]) + 2
      BY <1>5, <1>10, <3>1, <3>2 DEF w
    <3> QED BY <1>3, <1>4, <1>7, <2>3, <3>3, GainsVoice
  <2>5. CASE Further(p, m, y, x)
    <3>1. VoiceOf(y) = VoiceOf(x)
      BY <2>5 DEF Further, Advances, VoiceOf
    <3>2. WrittenVoices(p)' \subseteq StoredVoices(p)
      BY <1>8, <1>10, <3>1
    <3>3. InUse(p)' = InUse(p) /\ Voices(p)' = Voices(p)
      BY <1>4, <3>2 DEF InUse, Voices
    <3>4. Told(Voices(p), p)' /\ OwnKeys(p)'
      BY <1>3, <3>3, FewerVoices
    <3>5. Furthest(p)'
      BY <1>4, <3>2 DEF Speaks, Furthest
    <3>6. Forgetful(p) => Forgetful(p)'
      BY <1>3, LapsesStay
    <3>7. Opened(p)'
      BY <1>3, <1>4, <3>6 DEF Speaks, Opened
    <3>8. SecretsKept(p)'
      BY <1>4, <2>3 DEF SecretsKept
    <3>9. TaskFresh(p)'
      BY <1>4, <3>3 DEF Speaks, TaskFresh
    <3> QED BY <3>4, <3>5, <3>7, <3>8, <3>9 DEF Speaks
  <2> QED BY <2>1, <2>4, <2>5
<1>14. CASE Opens(p, m)
  <2>1. /\ \A z \in StoredCores(p) : z.aliceBaseKey # m.baseKey
        /\ m.oneTimeId \in preKeys[p] \/ m.oneTimeId = NoKeyId
        /\ Turning(p, m, y, Incoming(p, m))
        /\ "session forgotten" \in lapses'[p] \/ StoredCores(p) \subseteq WrittenCores(p)'
    BY <1>2, <1>14 DEF Decodes
  <2>2. Peer(p) # p /\ m.from = Peer(p) /\ m.type = "pkmsg"
    BY <1>1, <1>14, PeerIs DEF SentBy, Opens
  <2>3. /\ SecretIn(VoiceOf(y)) = <<m.baseKey, m.oneTimeId>> /\ BaseIn(VoiceOf(y)) = m.baseKey
        /\ IdIn(VoiceOf(y)) = m.oneTimeId /\ m.baseKey[1] # p
    <3>1. SecretIn(VoiceOf(y)) = m.chainKey[1]
      BY <1>11, <2>1
    <3>2. m.chainKey[1] = <<m.baseKey, m.oneTimeId>> /\ m.baseKey[1] = m.from
      BY <1>1, <2>2 DEF MessageFormed
    <3>3. SecretIn(VoiceOf(y)) = <<m.baseKey, m.oneTimeId>>
      BY <3>1, <3>2
    <3> QED BY <2>2, <3>2, <3>3 DEF BaseIn, IdIn
  <2>4. ASSUME NEW v \in StoredVoices(p) PROVE BaseIn(v) # m.baseKey
    <3>1. PICK z \in StoredCores(p) : v = VoiceOf(z)
      BY DEF StoredVoices, VoicesOf
    <3>2. BaseIn(v) = z.aliceBaseKey
      BY <1>7, <3>1, VoicesAre
    <3> QED BY <2>1, <3>2
  <2>5. \A v : SecretIn(v) = SecretIn(VoiceOf(y)) => BaseIn(v) = m.baseKey /\ IdIn(v) = m.oneTimeId
    BY <2>3 DEF BaseIn, IdIn
  <2>6. ASSUME NEW v \in Said(p) PROVE SecretIn(v) # SecretIn(VoiceOf(y))
    <3> SUFFICES ASSUME SecretIn(v) = SecretIn(VoiceOf(y)) PROVE FALSE
      OBVIOUS
    <3>1. BaseIn(v) = m.baseKey /\ IdIn(v) = m.oneTimeId
      BY <2>5
    <3>2. /\ Forgetful(p) \/ \E w \in StoredVoices(p) : SecretIn(w) = SecretIn(v)
          /\ IdIn(v) \notin preKeys[p]
      BY <2>3, <3>1 DEF Speaks, Opened
    <3>3. Forgetful(p) /\ m.oneTimeId = NoKeyId
      BY <2>1, <2>4, <2>5, <3>1, <3>2
    <3>4. MayReopen(p, m)
      BY <1>14, <3>3 DEF MayReopen, Forgetful, Lapsed
    <3> QED BY <1>1, <3>4 DEF Steady, Lapsed
  <2>7. \A v \in InUse(p) : SecretIn(v) # SecretIn(VoiceOf(y))
    BY <1>4, <2>4, <2>5, <2>6 DEF InUse
  <2>8. ASSUME NEW v \in PreparedVoices(p) PROVE BaseIn(v)[1] = p
    <3>1. PICK z \in PreparedCores(p) : v = VoiceOf(z)
      BY DEF PreparedVoices, VoicesOf
    <3>2. /\ task[p].step \in {"prepared", "renewing"} /\ z \in CoresOf(task[p].session)
      BY <3>1 DEF PreparedCores
    <3>3. Chains(task[p].session) = {0} /\ Base(task[p].session, 0)[1] = p
      BY <3>2 DEF Hears, TaskHears
    <3>4. z.aliceBaseKey[1] = p
      BY <3>2, <3>3 DEF CoresOf, Base
    <3>5. BaseIn(v) = z.aliceBaseKey
      BY <1>7, <3>1, VoicesAre
    <3> QED BY <3>4, <3>5
  <2>9. \/ Forgetful(p)'
        \/ \A v \in StoredVoices(p) : \E z \in WrittenVoices(p)' : SecretIn(v) = SecretIn(z)
    <3> SUFFICES ASSUME ~Forgetful(p)', NEW v \in StoredVoices(p) PROVE v \in WrittenVoices(p)'
      OBVIOUS
    <3>1. PICK z \in StoredCores(p) : v = VoiceOf(z)
      BY DEF StoredVoices, VoicesOf
    <3> QED BY <1>6, <1>10, <2>1, <3>1
  <2>10. VoiceOf(y)[1] = key
    BY <1>11, <2>1
  <2> DEFINE w == VoiceOf(y)
  <2> HIDE DEF w, key
  <2>11. /\ w[1] \notin KeysMade /\ w[1] # SignedPreKey(p)
         /\ WrittenVoices(p)' \subseteq StoredVoices(p) \cup {w}
         /\ BaseIn(w)[1] # p /\ \A v \in InUse(p) : SecretIn(v) # SecretIn(w)
    BY <1>5, <1>10, <2>3, <2>7, <2>10 DEF w
  <2> QED BY <1>3, <1>4, <1>7, <2>8, <2>9, <2>11, GainsVoice
<1> QED BY <1>13, <1>14

\* The sessions and voices after a step, by what it wrote.
LEMMA CoresFollow ==
  ASSUME NoSessionAssumption, Typed, NEW p \in Parties
  PROVE  /\ session'[p] = session[p] =>
              StoredCores(p)' = StoredCores(p) /\ StoredVoices(p)' = StoredVoices(p)
         /\ op'[p] = op[p] => WrittenCores(p)' = WrittenCores(p) /\ WrittenVoices(p)' = WrittenVoices(p)
         /\ op'[p].step = "none" => WrittenCores(p)' = {} /\ WrittenVoices(p)' = {}
         /\ op[p].step = "none" => WrittenCores(p) = {} /\ WrittenVoices(p) = {}
         /\ task'[p] = task[p] => PreparedVoices(p)' = PreparedVoices(p)
         /\ task'[p].step \in {"none", "ready"} => PreparedVoices(p)' = {}
         /\ SentBy(p)' = SentBy(p) => Said(p)' = Said(p)
         /\ session[p] = NoSession => StoredCores(p) = {} /\ StoredVoices(p) = {}
         /\ session'[p] = NoSession => StoredCores(p)' = {} /\ StoredVoices(p)' = {}
         /\ op[p].step # "none" /\ session'[p] = op[p].session =>
              StoredCores(p)' = WrittenCores(p) /\ StoredVoices(p)' = WrittenVoices(p)
         /\ task[p].step \in {"prepared", "renewing"} /\ session'[p] = task[p].session =>
              StoredCores(p)' = PreparedCores(p) /\ StoredVoices(p)' = PreparedVoices(p)
<1>1. op[p].step # "none" => op[p].session # NoSession
  BY OpIs, NotAbsent
<1>2. task[p].step # "none" => task[p].session # NoSession
  BY TaskIs, NotAbsent
<1>3. /\ session'[p] = session[p] => StoredCores(p)' = StoredCores(p)
      /\ op'[p] = op[p] => WrittenCores(p)' = WrittenCores(p)
      /\ op'[p].step = "none" => WrittenCores(p)' = {}
      /\ op[p].step = "none" => WrittenCores(p) = {}
      /\ task'[p] = task[p] => PreparedCores(p)' = PreparedCores(p)
      /\ task'[p].step \in {"none", "ready"} => PreparedCores(p)' = {}
      /\ session[p] = NoSession => StoredCores(p) = {}
      /\ session'[p] = NoSession => StoredCores(p)' = {}
  BY DEF StoredCores, WrittenCores, PreparedCores
<1>4. op[p].step # "none" /\ session'[p] = op[p].session => StoredCores(p)' = WrittenCores(p)
  BY <1>1 DEF StoredCores, WrittenCores
<1>5. task[p].step \in {"prepared", "renewing"} /\ session'[p] = task[p].session =>
        StoredCores(p)' = PreparedCores(p)
  BY <1>2 DEF StoredCores, PreparedCores
<1>6. VoicesOf({}) = {}
  BY DEF VoicesOf
<1>7. SentBy(p)' = SentBy(p) => Said(p)' = Said(p)
  BY DEF Said
<1> QED BY <1>3, <1>4, <1>5, <1>6, <1>7 DEF StoredVoices, WrittenVoices, PreparedVoices

\* A party takes pre-keys from the bundle of its peer only.
LEMMA MoveBundles ==
  ASSUME RatchetAssumption, SessionsAssumption, Typed, NEW p \in Parties, Moves(p)
  PROVE  bundles'[p] = bundles[p] /\ bundles'[Peer(p)] \subseteq bundles[Peer(p)]
<1>1. CASE UNCHANGED bundles
  BY <1>1
<1>2. CASE \E step : Prepare(p, step)
  BY <1>2, PrepareMakes
<1>3. UNCHANGED bundles \/ \E step : Prepare(p, step)
  BY DEF Moves, Resolve, Persist, Release, Consume, Deliver, Refetch, Reestablish, Delete, Interrupt,
         Encrypt, Decrypt
<1> QED BY <1>1, <1>2, <1>3

\* What p encrypts with is a record that it stored or resolved.
LEMMA EncryptHas ==
  ASSUME SessionsAssumption, Typed, NEW p \in Parties, FormedFor(p), NEW prefetched \in BOOLEAN,
         Encrypt(p, prefetched)
  PROVE  \E s \in Session(KeysMade) :
           /\ session[p] # NoSession => s = session[p]
           /\ WrittenCores(p)' = CoresOf(Encrypted(s)) /\ WrittenVoices(p)' = VoicesOf(CoresOf(s))
           /\ op'[p].step = "encrypted" /\ VoiceIn(op'[p].message) \in WrittenVoices(p)'
<1>1. PICK s : s = SessionToEncrypt(p, prefetched)
  OBVIOUS
<1>2. /\ s # NoSession /\ prefetched => task[p].step = "ready"
      /\ op' = [op EXCEPT ![p] = [step |-> "encrypted", session |-> Encrypted(s),
                                  message |-> Message(s, p, NextId(p))]]
  BY <1>1 DEF Encrypt
<1>3. /\ session[p] # NoSession => s = session[p]
      /\ s \in Session(KeysMade) /\ RecordFormed(s, p, Chains(s))
  <2>1. CASE s = session[p]
    <3>1. session[p] # NoSession
      BY <1>1, <2>1 DEF Encrypt
    <3>2. session[p] \in Session(KeysMade)
      BY <3>1 DEF Typed, TypedOver
    <3> QED BY <2>1, <3>1, <3>2 DEF FormedFor
  <2>2. CASE s # session[p]
    <3>1. session[p] = NoSession /\ prefetched /\ s = task[p].session
      BY <1>1, <2>2 DEF SessionToEncrypt
    <3>2. task[p].step = "ready"
      BY <1>2, <3>1 DEF Encrypt
    <3>3. task[p].session \in Session(KeysMade)
      BY <3>2, TaskIs
    <3> QED BY <3>1, <3>2, <3>3 DEF FormedFor
  <2> QED BY <2>1, <2>2
<1>4. op'[p] = [step |-> "encrypted", session |-> Encrypted(s), message |-> Message(s, p, NextId(p))]
  BY <1>2 DEF Typed, TypedOver
<1> DEFINE t == Encrypted(s)
           m == Message(s, p, NextId(p))
<1>5. /\ VoicesOf(CoresOf(t)) = VoicesOf(CoresOf(s))
  BY <1>3, EncryptedSet
<1>6. VoiceIn(m) = <<s.sendChain.ratchetKey, s.sendChain.chainKey>>
  BY DEF Message, VoiceIn
<1> HIDE DEF t, m
<1>7. op'[p].step = "encrypted" /\ op'[p].session = t /\ op'[p].message = m
  BY <1>4 DEF t, m
<1>8. WrittenCores(p)' = CoresOf(t)
  BY <1>7 DEF WrittenCores
<1>9. WrittenVoices(p)' = VoicesOf(CoresOf(s))
  BY <1>5, <1>8 DEF WrittenVoices
<1>10. VoiceIn(m) \in VoicesOf(CoresOf(s))
  <2>1. 0 \in Chains(s)
    BY <1>3, CoreIs
  <2>2. Core(s, 0).sendChain = s.sendChain
    BY <1>3, FrontIs
  <2>3. Core(s, 0).sendChain.chainKey = Core(s, 0).rootKey
    BY <1>3, <2>1 DEF RecordFormed, Formed
  <2>4. VoiceIn(m) = VoiceOf(Core(s, 0))
    BY <1>6, <2>2, <2>3 DEF VoiceOf
  <2> QED BY <2>1, <2>4 DEF VoicesOf, CoresOf
<1> QED BY <1>3, <1>7, <1>8, <1>9, <1>10 DEF t

\* What a party sets, it has.
LEMMA FreeIdle ==
  ASSUME Typed, NEW p \in Parties
  PROVE  /\ \A t : op' = [op EXCEPT ![p] = t] => op'[p] = t
         /\ \A t : task' = [task EXCEPT ![p] = t] => task'[p] = t
         /\ \A t : session' = [session EXCEPT ![p] = t] => session'[p] = t
BY DEF Typed, TypedOver

\* Each step of a party keeps what it makes.
LEMMA MoveMakes ==
  ASSUME RatchetAssumption, SessionsAssumption, NoSessionAssumption, Typed, NEW p \in Parties,
         FormedFor(p), Moves(p), Makes(p)
  PROVE  Makes(p)'
<1>1. ASSUME NEW step \in {"prepared", "renewing"}, Prepare(p, step), UNCHANGED <<session, op>>
      PROVE  Makes(p)'
  <2> DEFINE q == Peer(p)
  <2>1. PICK id \in Nat, base \in KeysMade', ratchet \in KeysMade' :
          task'[p] = [step |-> step, session |-> Outgoing(q, id, base, ratchet)]
    BY <1>1, PrepareMakes
  <2> DEFINE s == Outgoing(q, id, base, ratchet)
  <2>2. s.aliceBaseKey = base /\ s.oneTimeId = id /\ s.sendChain.ratchetKey = ratchet
    BY DEF Outgoing
  <2>3. s = Outgoing(q, s.oneTimeId, s.aliceBaseKey, s.sendChain.ratchetKey)
    BY <2>2
  <2> HIDE DEF s
  <2>4. task'[p].session = s
    BY <2>1 DEF s
  <2>5. WrittenVoices(p)' = WrittenVoices(p)
    BY <1>1, CoresFollow
  <2> QED BY <1>1, <2>3, <2>4, <2>5 DEF Makes
<1>2. CASE Resolve(p) \/ Refetch(p)
  <2>1. CASE \E step \in {"prepared", "renewing"} : Prepare(p, step)
    BY <1>1, <1>2, <2>1 DEF Resolve, Refetch
  <2>2. CASE ~\E step \in {"prepared", "renewing"} : Prepare(p, step)
    <3>1. /\ task' = [task EXCEPT ![p] = [step |-> "ready", session |-> session[p]]]
          /\ UNCHANGED <<session, op>>
      BY <1>2, <2>2 DEF Resolve, Refetch
    <3>2. task'[p].step = "ready" /\ WrittenVoices(p)' = WrittenVoices(p)
      BY <3>1, CoresFollow DEF Typed, TypedOver
    <3> QED BY <3>1, <3>2 DEF Makes
  <2> QED BY <2>1, <2>2
<1>3. CASE \E prefetched \in BOOLEAN : Encrypt(p, prefetched)
  <2>1. op'[p].step = "encrypted" /\ VoiceIn(op'[p].message) \in WrittenVoices(p)'
    BY <1>3, EncryptHas
  <2>2. task' = task \/ task' = [task EXCEPT ![p] = Idle]
    BY <1>3 DEF Encrypt
  <2>3. task'[p] = task[p] \/ task'[p].step = "none"
    BY <2>2 DEF Idle, Typed, TypedOver
  <2> QED BY <2>1, <2>3 DEF Makes
<1>4. CASE Persist(p) \/ Reestablish(p) \/ Release(p) \/ Deliver(p) \/ Interrupt(p) \/ Delete(p)
  <2>1. op'[p] = op[p] \/ op'[p].step = "none"
    <3>1. op' = op \/ op' = [op EXCEPT ![p] = Free]
      BY <1>4 DEF Persist, Reestablish, Release, Deliver, Interrupt, Delete
    <3>2. op' = op \/ op'[p] = Free
      BY <3>1, FreeIdle
    <3> QED BY <3>2 DEF Free
  <2>2. task'[p] = task[p] \/ task'[p].step \in {"none", "ready"}
    <3>1. CASE Persist(p)
      BY <3>1, FreeIdle DEF Persist
    <3>2. task' = task \/ task' = [task EXCEPT ![p] = Idle] \/ Persist(p)
      BY <1>4 DEF Reestablish, Release, Deliver, Interrupt, Delete
    <3>3. task' = task \/ task'[p] = Idle \/ Persist(p)
      BY <3>2, FreeIdle
    <3> QED BY <3>1, <3>3 DEF Idle
  <2>3. op'[p] = op[p] => WrittenVoices(p)' = WrittenVoices(p)
    BY CoresFollow
  <2> QED BY <2>1, <2>2, <2>3 DEF Makes
<1>5. CASE Consume(p) \/ \E m \in sent : Decrypt(p, m)
  <2>1. op'[p].step # "encrypted"
    <3>1. CASE Consume(p)
      <4>1. op[p] \in [step : {"encrypted", "opened", "decrypted"}, session : Session(KeysMade),
                       message : Messages(KeysMade)]
        BY <3>1, OpIs DEF Consume
      <4>2. PICK o : o = op[p]
        OBVIOUS
      <4>3. op'[p] = [o EXCEPT !.step = "decrypted"]
        BY <3>1, <4>2 DEF Consume, Typed, TypedOver
      <4>4. o = [step |-> o.step, session |-> o.session, message |-> o.message]
        BY <4>1, <4>2
      <4>5. op'[p].step = "decrypted"
        BY <4>3, <4>4
      <4> QED BY <4>5
    <3>2. CASE \E m \in sent : Decrypt(p, m)
      <4>1. PICK m \in sent : Decrypt(p, m)
        BY <3>2
      <4>2. PICK t \in Session(KeysMade'), step \in {"opened", "decrypted"} :
              op' = [op EXCEPT ![p] = [step |-> step, session |-> t, message |-> m]]
        BY <4>1, DecryptIs
      <4>3. op'[p] = [step |-> step, session |-> t, message |-> m]
        BY <4>2, FreeIdle
      <4> QED BY <4>3
    <3> QED BY <1>5, <3>1, <3>2
  <2>2. task' = task
    BY <1>5 DEF Consume, Decrypt
  <2> QED BY <2>1, <2>2 DEF Makes
<1> QED BY <1>2, <1>3, <1>4, <1>5 DEF Moves

\* Consuming a pre-key leaves the record that is about to be written.
LEMMA ConsumeKeeps ==
  ASSUME Typed, NEW p \in Parties, Consume(p)
  PROVE  /\ op[p].step = "opened" /\ op'[p].step = "decrypted"
         /\ op'[p].session = op[p].session /\ op'[p].message = op[p].message
         /\ WrittenCores(p)' = WrittenCores(p) /\ WrittenVoices(p)' = WrittenVoices(p)
         /\ preKeys'[p] = preKeys[p] \ {op[p].message.oneTimeId}
         /\ UNCHANGED <<session, bundles, task, sent, got, lapses>>
<1>1. PICK o : o = op[p]
  OBVIOUS
<1>2. o \in [step : {"encrypted", "opened", "decrypted"}, session : Session(KeysMade),
             message : Messages(KeysMade)]
  BY <1>1, OpIs DEF Consume
<1>3. o = [step |-> o.step, session |-> o.session, message |-> o.message]
  BY <1>2
<1>4. op'[p] = [o EXCEPT !.step = "decrypted"]
  BY <1>1 DEF Consume, Typed, TypedOver
<1>5. op'[p].step = "decrypted" /\ op'[p].session = o.session /\ op'[p].message = o.message
  BY <1>3, <1>4
<1>6. op[p].step = "opened"
  BY DEF Consume
<1>7. WrittenCores(p)' = WrittenCores(p)
  BY <1>1, <1>5, <1>6 DEF WrittenCores
<1>8. preKeys'[p] = preKeys[p] \ {op[p].message.oneTimeId}
  BY DEF Consume, Typed, TypedKeys
<1> QED BY <1>1, <1>5, <1>6, <1>7, <1>8 DEF Consume, WrittenVoices

\* How an operation ends: written, or not, and what was sent or returned then.
LEMMA OperationEnds ==
  ASSUME SessionsAssumption, Typed, NEW p \in Parties,
         Release(p) \/ Deliver(p) \/ Interrupt(p)
  PROVE  /\ op[p].step # "none" /\ op'[p].step = "none"
         /\ task'[p] = task[p] \/ task'[p].step = "none"
         /\ UNCHANGED <<preKeys, bundles, generated>>
         /\ \/ /\ session'[p] = session[p] /\ Interrupt(p)
            \/ /\ session'[p] = op[p].session /\ op[p].step \in {"encrypted", "decrypted"}
         /\ \/ /\ SentBy(p)' = SentBy(p)
            \/ /\ Release(p) /\ op[p].step = "encrypted" /\ session'[p] = op[p].session
               /\ SentBy(p)' = SentBy(p) \cup {op[p].message}
         /\ \/ got'[p] = got[p] /\ (op[p].step = "decrypted" => "message lost" \in lapses'[p])
            \/ op[p].step = "decrypted" /\ got'[p] = got[p] \cup {op[p].message}
<1>1. op[p].step # "none" /\ op[p].step \in {"none", "encrypted", "opened", "decrypted"}
  BY OpIs DEF Release, Deliver, Interrupt
<1>2. op'[p] = Free
  BY FreeIdle DEF Release, Deliver, Interrupt
<1>3. op'[p].step = "none"
  BY <1>2 DEF Free
<1>4. task'[p] = task[p] \/ task'[p].step = "none"
  <2>1. task' = task \/ task' = [task EXCEPT ![p] = Idle]
    BY DEF Release, Deliver, Interrupt
  <2>2. task' = task \/ task'[p] = Idle
    BY <2>1, FreeIdle
  <2> QED BY <2>2 DEF Idle
<1>5. UNCHANGED <<preKeys, bundles, generated>>
  BY DEF Release, Deliver, Interrupt
<1>6. \/ /\ session'[p] = session[p] /\ Interrupt(p)
      \/ /\ session'[p] = op[p].session /\ op[p].step \in {"encrypted", "decrypted"}
  <2>1. CASE Release(p) \/ Deliver(p)
    BY <2>1, FreeIdle DEF Release, Deliver
  <2>2. CASE Interrupt(p)
    BY <1>1, <2>2, FreeIdle DEF Interrupt
  <2> QED BY <2>1, <2>2
<1>7. \/ /\ SentBy(p)' = SentBy(p)
      \/ /\ Release(p) /\ op[p].step = "encrypted" /\ session'[p] = op[p].session
         /\ SentBy(p)' = SentBy(p) \cup {op[p].message}
  <2>1. CASE Release(p)
    <3>1. op[p].step = "encrypted" /\ session'[p] = op[p].session /\ op[p].message.from = p
      BY <2>1, FreeIdle DEF Release, Typed, InHand
    <3>2. SentBy(p)' = SentBy(p) \cup {op[p].message}
      BY <2>1, <3>1 DEF Release, SentBy
    <3> QED BY <2>1, <3>1, <3>2
  <2>2. CASE Deliver(p) \/ Interrupt(p)
    BY <2>2, SameSent DEF Deliver, Interrupt
  <2> QED BY <2>1, <2>2
<1>8. \/ got'[p] = got[p] /\ (op[p].step = "decrypted" => "message lost" \in lapses'[p])
      \/ op[p].step = "decrypted" /\ got'[p] = got[p] \cup {op[p].message}
  <2>1. CASE Release(p)
    BY <2>1 DEF Release
  <2>2. CASE Deliver(p)
    <3>1. got \in [Parties -> SUBSET sent] /\ op[p].step = "decrypted"
      BY <2>2 DEF Deliver, Typed, Heard
    <3>2. got' = [got EXCEPT ![p] = got[p] \cup {op[p].message}]
      BY <2>2 DEF Deliver
    <3> QED BY <3>1, <3>2
  <2>3. CASE Interrupt(p)
    <3>1. UNCHANGED got
      BY <2>3 DEF Interrupt
    <3>2. op[p].step = "decrypted" => Lapse(p, {"message lost"})
      BY <2>3 DEF Interrupt
    <3>3. {"message lost"} \in SUBSET LapseNames
      BY DEF LapseNames
    <3>4. op[p].step = "decrypted" => lapses'[p] = lapses[p] \cup {"message lost"}
      BY <3>2, <3>3, LapseIs
    <3> QED BY <3>1, <3>4
  <2> QED BY <2>1, <2>2, <2>3
<1> QED BY <1>1, <1>3, <1>4, <1>5, <1>6, <1>7, <1>8

\* A lapse is remembered.
LEMMA LapseHas ==
  ASSUME Typed, NEW p \in Parties, NEW what \in LapseNames, Lapse(p, {what})
  PROVE  what \in lapses'[p]
<1>1. {what} \in SUBSET LapseNames
  OBVIOUS
<1>2. lapses'[p] = lapses[p] \cup {what}
  BY <1>1, LapseIs
<1> QED BY <1>2

\* Each step of a party leaves it speaking.
LEMMA MoveSpeaks ==
  ASSUME RatchetAssumption, SessionsAssumption, NoSessionAssumption, Typed,
         \A q \in Parties : FormedFor(q), NEW p \in Parties, Moves(p),
         Makes(p), HearsOrLapsed(p), SpeaksOrLapsed(p)
  PROVE  SpeaksOrLapsed(p)'
<1> SUFFICES ASSUME Steady(p)' PROVE Speaks(p)'
  BY DEF SpeaksOrLapsed
<1>1. lapses[p] \subseteq lapses'[p]
  BY MoveLeaves
<1>2. Hears(p) /\ Speaks(p)
  BY <1>1 DEF Steady, Lapsed, HearsOrLapsed, SpeaksOrLapsed
<1>3. bundles'[p] = bundles[p] /\ bundles'[Peer(p)] \subseteq bundles[Peer(p)]
  BY MoveBundles
<1>4. CASE Resolve(p) \/ Refetch(p)
  <2>1. CASE \E step \in {"prepared", "renewing"} : Prepare(p, step)
    BY <1>2, <1>4, <2>1, PrepareSpeaks DEF Resolve, Refetch
  <2>2. CASE ~\E step \in {"prepared", "renewing"} : Prepare(p, step)
    <3>1. /\ task' = [task EXCEPT ![p] = [step |-> "ready", session |-> session[p]]]
          /\ UNCHANGED <<session, preKeys, op, sent, lapses>>
      BY <1>4, <2>2 DEF Resolve, Refetch
    <3>2. task'[p].step = "ready"
      <4>1. task'[p] = [step |-> "ready", session |-> session[p]]
        BY <3>1, FreeIdle
      <4> QED BY <4>1
    <3>3. /\ Said(p)' = Said(p) /\ StoredVoices(p)' = StoredVoices(p)
          /\ WrittenVoices(p)' = WrittenVoices(p) /\ PreparedVoices(p)' = {}
      BY <3>1, <3>2, CoresFollow, SameSent
    <3> QED BY <1>1, <1>2, <1>3, <3>1, <3>3, SameVoices
  <2> QED BY <2>1, <2>2
<1>5. CASE Persist(p)
  <2>1. /\ task[p].step = "prepared" /\ op'[p].step = "none" /\ op[p].step = "none"
        /\ UNCHANGED <<preKeys, bundles, op, sent, lapses>>
    BY <1>5 DEF Persist
  <2>2. /\ session'[p] = IF session[p] = NoSession THEN task[p].session ELSE session[p]
        /\ task'[p].step = "ready"
    <3>1. PICK kept : kept = IF session[p] = NoSession THEN task[p].session ELSE session[p]
      OBVIOUS
    <3>2. /\ session' = [session EXCEPT ![p] = kept]
          /\ task' = [task EXCEPT ![p] = [step |-> "ready", session |-> kept]]
      BY <1>5, <3>1 DEF Persist
    <3>3. session'[p] = kept /\ task'[p] = [step |-> "ready", session |-> kept]
      BY <3>2, FreeIdle
    <3> QED BY <3>1, <3>3
  <2>3. Said(p)' = Said(p) /\ WrittenVoices(p)' = {} /\ PreparedVoices(p)' = {}
    BY <2>1, <2>2, CoresFollow, SameSent
  <2>4. CASE session[p] = NoSession
    <3>1. StoredVoices(p)' = PreparedVoices(p) /\ StoredVoices(p) = {}
      BY <2>1, <2>2, <2>4, CoresFollow
    <3> QED BY <1>1, <1>2, <2>1, <2>3, <3>1, StoresSpeaking
  <2>5. CASE session[p] # NoSession
    <3>1. StoredVoices(p)' = StoredVoices(p) /\ WrittenVoices(p)' = WrittenVoices(p)
      BY <2>1, <2>2, <2>5, CoresFollow
    <3> QED BY <1>1, <1>2, <1>3, <2>1, <2>3, <3>1, SameVoices
  <2> QED BY <2>4, <2>5
<1>6. CASE Reestablish(p)
  <2>1. /\ task[p].step = "renewing" /\ op'[p].step = "none" /\ op[p].step = "none"
        /\ UNCHANGED <<preKeys, bundles, op, sent>>
    BY <1>6 DEF Reestablish
  <2>2. session'[p] = task[p].session /\ task'[p] = Idle
    BY <1>6, FreeIdle DEF Reestablish
  <2>3. task'[p].step = "none"
    BY <2>2 DEF Idle
  <2>4. Said(p)' = Said(p) /\ WrittenVoices(p)' = {} /\ PreparedVoices(p)' = {}
    BY <2>1, <2>3, CoresFollow, SameSent
  <2>5. StoredVoices(p)' = PreparedVoices(p)
    BY <2>1, <2>2, CoresFollow
  <2>6. StoredVoices(p) = {} \/ Forgetful(p)'
    <3>1. CASE session[p] = NoSession
      BY <3>1, CoresFollow
    <3>2. CASE session[p] # NoSession
      <4>1. Lapse(p, {"session dropped"})
        BY <1>6, <3>2 DEF Reestablish
      <4>2. "session dropped" \in LapseNames
        BY DEF LapseNames
      <4>3. "session dropped" \in lapses'[p]
        BY <4>1, <4>2, LapseHas
      <4> QED BY <4>3 DEF Forgetful, Lapsed
    <3> QED BY <3>1, <3>2
  <2> QED BY <1>1, <1>2, <2>1, <2>4, <2>5, <2>6, StoresSpeaking
<1>7. CASE \E prefetched \in BOOLEAN : Encrypt(p, prefetched)
  <2>1. PICK prefetched \in BOOLEAN : Encrypt(p, prefetched)
    BY <1>7
  <2>2. session[p] # NoSession
    <3>1. SUFFICES ASSUME session[p] = NoSession PROVE FALSE
      OBVIOUS
    <3>2. Lapse(p, {"deleted session used"})
      BY <2>1, <3>1 DEF Encrypt
    <3>3. "deleted session used" \in LapseNames
      BY DEF LapseNames
    <3>4. "deleted session used" \in lapses'[p]
      BY <3>2, <3>3, LapseHas
    <3> QED BY <3>4 DEF Steady, Lapsed
  <2>3. WrittenVoices(p)' = VoicesOf(CoresOf(session[p]))
    <3>1. FormedFor(p)
      OBVIOUS
    <3>2. PICK s \in Session(KeysMade) :
           /\ session[p] # NoSession => s = session[p]
           /\ WrittenCores(p)' = CoresOf(Encrypted(s)) /\ WrittenVoices(p)' = VoicesOf(CoresOf(s))
           /\ op'[p].step = "encrypted" /\ VoiceIn(op'[p].message) \in WrittenVoices(p)'
      BY <2>1, <3>1, EncryptHas
    <3> QED BY <2>2, <3>2
  <2>4. WrittenVoices(p)' = StoredVoices(p)
    BY <2>2, <2>3 DEF StoredVoices, StoredCores
  <2>5. UNCHANGED <<session, preKeys, bundles, sent>> /\ (task' = task \/ task' = [task EXCEPT ![p] = Idle])
    BY <2>1 DEF Encrypt
  <2>6. task'[p] = task[p] \/ task'[p].step = "none"
    <3>1. task' = task \/ task'[p] = Idle
      BY <2>5, FreeIdle
    <3> QED BY <3>1 DEF Idle
  <2>7. PreparedVoices(p)' \subseteq PreparedVoices(p)
    BY <2>6, CoresFollow
  <2>8. Said(p)' = Said(p) /\ StoredVoices(p)' = StoredVoices(p)
    BY <2>5, CoresFollow, SameSent
  <2> QED BY <1>1, <1>2, <2>4, <2>5, <2>7, <2>8, StartsSpeaking
<1>8. CASE Release(p) \/ Deliver(p) \/ Interrupt(p)
  <2>1. /\ op[p].step # "none" /\ op'[p].step = "none"
        /\ task'[p] = task[p] \/ task'[p].step = "none"
        /\ UNCHANGED <<preKeys, bundles, generated>>
    BY <1>8, OperationEnds
  <2>2. WrittenVoices(p)' = {} /\ PreparedVoices(p)' \subseteq PreparedVoices(p)
    BY <2>1, CoresFollow
  <2>3. \/ StoredVoices(p)' = StoredVoices(p) /\ Said(p)' = Said(p)
        \/ /\ StoredVoices(p)' = WrittenVoices(p) /\ op[p].step \in {"encrypted", "decrypted"}
           /\ Said(p)' = Said(p) \/ \E v \in WrittenVoices(p) : Said(p)' = Said(p) \cup {v}
    <3>1. CASE SentBy(p)' = SentBy(p)
      <4>1. Said(p)' = Said(p)
        BY <3>1, CoresFollow
      <4>2. \/ session'[p] = session[p]
            \/ session'[p] = op[p].session /\ op[p].step \in {"encrypted", "decrypted"}
        BY <1>8, OperationEnds
      <4>3. \/ StoredVoices(p)' = StoredVoices(p)
            \/ StoredVoices(p)' = WrittenVoices(p) /\ op[p].step \in {"encrypted", "decrypted"}
        BY <2>1, <4>2, CoresFollow
      <4> QED BY <4>1, <4>3
    <3>2. CASE /\ op[p].step = "encrypted" /\ session'[p] = op[p].session
               /\ SentBy(p)' = SentBy(p) \cup {op[p].message}
      <4>1. StoredVoices(p)' = WrittenVoices(p)
        BY <2>1, <3>2, CoresFollow
      <4>2. VoiceIn(op[p].message) \in WrittenVoices(p)
        BY <3>2 DEF Makes
      <4>3. Said(p)' = Said(p) \cup {VoiceIn(op[p].message)}
        BY <3>2 DEF Said
      <4> QED BY <3>2, <4>1, <4>2, <4>3
    <3> QED BY <1>8, <3>1, <3>2, OperationEnds
  <2> QED BY <1>1, <1>2, <2>1, <2>2, <2>3, EndsSpeaking
<1>9. CASE Delete(p)
  <2>1. session'[p] = NoSession /\ UNCHANGED <<preKeys, bundles, task, op, sent>>
    BY <1>9, FreeIdle DEF Delete
  <2>2. Forgetful(p)'
    <3>1. Lapse(p, {"session dropped"})
      BY <1>9 DEF Delete
    <3>2. "session dropped" \in LapseNames
      BY DEF LapseNames
    <3>3. "session dropped" \in lapses'[p]
      BY <3>1, <3>2, LapseHas
    <3> QED BY <3>3 DEF Forgetful, Lapsed
  <2>3. /\ StoredVoices(p)' = {} /\ Said(p)' = Said(p) /\ WrittenVoices(p)' = WrittenVoices(p)
        /\ PreparedVoices(p)' = PreparedVoices(p)
    BY <2>1, CoresFollow, SameSent
  <2> QED BY <1>2, <2>1, <2>2, <2>3, DropsSpeaking
<1>10. CASE Consume(p)
  <2>1. /\ op[p].step = "opened" /\ WrittenVoices(p)' = WrittenVoices(p)
        /\ preKeys'[p] = preKeys[p] \ {op[p].message.oneTimeId}
        /\ UNCHANGED <<session, bundles, task, sent, got, lapses>>
    BY <1>10, ConsumeKeeps
  <2>2. /\ StoredVoices(p)' = StoredVoices(p) /\ Said(p)' = Said(p)
        /\ PreparedVoices(p)' = PreparedVoices(p)
    BY <2>1, CoresFollow, SameSent
  <2>3. preKeys'[p] \subseteq preKeys[p]
    BY <2>1
  <2> QED BY <1>1, <1>2, <1>3, <2>1, <2>2, <2>3, SameVoices
<1>11. CASE \E m \in sent : Decrypt(p, m)
  BY <1>2, <1>11, DecryptSpeaks
<1> QED BY <1>4, <1>5, <1>6, <1>7, <1>8, <1>9, <1>10, <1>11 DEF Moves

\* The voices of one party stand still while the other moves.
LEMMA OthersVoices ==
  ASSUME RatchetAssumption, SessionsAssumption, NoSessionAssumption, Typed, NEW p \in Parties, Moves(p)
  PROVE  LET q == Peer(p)
         IN /\ Said(q)' = Said(q) /\ StoredVoices(q)' = StoredVoices(q)
            /\ WrittenVoices(q)' = WrittenVoices(q) /\ PreparedVoices(q)' = PreparedVoices(q)
            /\ Voices(q)' = Voices(q) /\ bundles'[p] = bundles[p]
<1> DEFINE q == Peer(p)
<1>1. q \in Parties \ {p}
  BY PeerIs
<1>2. session'[q] = session[q] /\ task'[q] = task[q] /\ op'[q] = op[q] /\ SentBy(q)' = SentBy(q)
  BY <1>1, MoveLeaves DEF LeavesOthers
<1> HIDE DEF q
<1>3. /\ Said(q)' = Said(q) /\ StoredVoices(q)' = StoredVoices(q)
      /\ WrittenVoices(q)' = WrittenVoices(q) /\ PreparedVoices(q)' = PreparedVoices(q)
  BY <1>1, <1>2, CoresFollow
<1>4. bundles'[p] = bundles[p]
  BY MoveBundles
<1> QED BY <1>3, <1>4 DEF Voices, InUse, q

\* What it takes to still hear the peer after a step of its own.
LEMMA HearsAfter ==
  ASSUME NEW p, Said(Peer(p))' = Said(Peer(p)), Voices(Peer(p))' = Voices(Peer(p)),
         bundles'[p] = bundles[p],
         op'[p].step # "decrypted" => Listens(StoredCores(p)', preKeys'[p], got'[p], p),
         op'[p].step # "none" => Listens(WrittenCores(p)', Left(p)', HeardBy(p)', p)
  PROVE  HearsPeer(p)'
<1>1. Listens(StoredCores(p)', preKeys'[p], got'[p], p) => Listens(StoredCores(p), preKeys[p], got[p], p)'
  BY DEF Listens, Received, Answers
<1>2. Listens(WrittenCores(p)', Left(p)', HeardBy(p)', p) => Listens(WrittenCores(p), Left(p), HeardBy(p), p)'
  BY DEF Listens, Received, Answers
<1> QED BY <1>1, <1>2 DEF HearsPeer

\* Encrypting changes no receiving chain, ratchet or base key.
LEMMA AlikeListens ==
  ASSUME NEW p, NEW S, NEW T, NEW left, NEW heard, Listens(S, left, heard, p),
         \A y \in T : \E x \in S : Alike(y, x), \A x \in S : \E y \in T : Alike(y, x)
  PROVE  Listens(T, left, heard, p)
<1> DEFINE q == Peer(p)
<1>1. ASSUME NEW v, Hearable(S, left, p, v) PROVE Hearable(T, left, p, v)
  <2>1. CASE HeardOn(S, v)
    <3>1. PICK x \in S : \E a \in 1..Len(x.recvChains) :
            x.recvChains[a].ratchetKey = v[1] /\ x.recvChains[a].chainKey = v[2]
      BY <2>1 DEF HeardOn
    <3>2. PICK y \in T : Alike(y, x)
      OBVIOUS
    <3>3. y.recvChains = x.recvChains
      BY <3>2 DEF Alike
    <3> QED BY <3>1, <3>3 DEF HeardOn, Hearable
  <2>2. CASE TurnsTo(S, v)
    <3>1. PICK x \in S : v[2] = CalculateRatchet(x.rootKey, x.sendChain.ratchetKey, v[1])
      BY <2>2 DEF TurnsTo
    <3>2. PICK y \in T : Alike(y, x)
      OBVIOUS
    <3>3. y.rootKey = x.rootKey /\ y.sendChain.ratchetKey = x.sendChain.ratchetKey
      BY <3>2 DEF Alike
    <3> QED BY <3>1, <3>3 DEF TurnsTo, Hearable
  <2>3. CASE OpensAs(S, left, p, v)
    <3>1. \A y \in T : y.aliceBaseKey # BaseIn(v)
      BY <2>3 DEF OpensAs, Alike
    <3> QED BY <2>3, <3>1 DEF OpensAs, Hearable
  <2> QED BY <1>1, <2>1, <2>2, <2>3 DEF Hearable
<1>2. Received(T, heard, q)
  <2> SUFFICES ASSUME NEW y \in T, NEW a \in 1..Len(y.recvChains)
               PROVE  LET c == y.recvChains[a]
                      IN /\ <<c.ratchetKey, c.chainKey>> \in Said(q) \/ c.ratchetKey = SignedPreKey(q)
                         /\ \A n \in Nat : Used(c, n) => \E m \in heard : m.chainKey = c.chainKey /\ m.counter = n
    BY DEF Received
  <2>1. PICK x \in S : Alike(y, x)
    OBVIOUS
  <2>2. y.recvChains = x.recvChains
    BY <2>1 DEF Alike
  <2> QED BY <2>2 DEF Listens, Received
<1>3. Answers(T, q)
  <2> SUFFICES ASSUME NEW y \in T
               PROVE  \/ Len(y.rootKey) = 2
                      \/ \E v \in Said(q) : SecretIn(v) = SecretOf(y) /\ Len(v[2]) + 1 = Len(y.rootKey)
    BY DEF Answers
  <2>1. PICK x \in S : Alike(y, x)
    OBVIOUS
  <2>2. y.rootKey = x.rootKey /\ SecretOf(y) = SecretOf(x)
    BY <2>1 DEF Alike
  <2> QED BY <2>2 DEF Listens, Answers
<1> QED BY <1>1, <1>2, <1>3 DEF Listens

\* A party without a session hears what opens one, also with the one that it made.
LEMMA MadeListens ==
  ASSUME RatchetAssumption, NEW K, NEW p \in Parties, Peer(p) \in Parties, SignedPreKey(Peer(p)) \in K,
         NEW base \in K, NEW ratchet \in K, NEW id \in Nat,
         \A v \in Voices(Peer(p)) : BaseIn(v)[1] # p => BaseIn(v) # base,
         NEW left, NEW heard, Listens({}, left, heard, p)
  PROVE  Listens(CoresOf(Outgoing(Peer(p), id, base, ratchet)), left, heard, p)
<1> DEFINE q == Peer(p)
<1>0. q \in Parties /\ SignedPreKey(q) \in K
  OBVIOUS
<1> HIDE DEF q
<1> DEFINE s == Outgoing(q, id, base, ratchet)
           root == CalculateRatchet(Secret(base, id), ratchet, SignedPreKey(q))
<1>1. /\ Chains(s) = {0} /\ Core(s, 0) = s /\ s.rootKey = root /\ s.sendChain.ratchetKey = ratchet
      /\ s.aliceBaseKey = base
  BY <1>0, OutgoingCore
<1>2. Len(root) = 2
  BY DEF CalculateRatchet, Secret
<1>3. s.recvChains = <<FreshChain(SignedPreKey(q), Secret(base, id))>>
  BY DEF Outgoing
<1> HIDE DEF s, root
<1>4. ASSUME NEW v \in Voices(q) PROVE Hearable({s}, left, p, v)
  <2>1. OpensAs({}, left, p, v)
    BY <1>4 DEF Listens, Hearable, HeardOn, TurnsTo, q
  <2>2. base # BaseIn(v)
    BY <1>4, <2>1 DEF OpensAs, q
  <2> QED BY <1>1, <2>1, <2>2 DEF OpensAs, Hearable
<1>5. Received({s}, heard, q)
  <2> SUFFICES ASSUME NEW a \in 1..Len(s.recvChains)
               PROVE  LET c == s.recvChains[a]
                      IN /\ <<c.ratchetKey, c.chainKey>> \in Said(q) \/ c.ratchetKey = SignedPreKey(q)
                         /\ \A n \in Nat : Used(c, n) => \E m \in heard : m.chainKey = c.chainKey /\ m.counter = n
    BY DEF Received
  <2>1. s.recvChains[a] = FreshChain(SignedPreKey(q), Secret(base, id))
    BY <1>3
  <2>2. s.recvChains[a].ratchetKey = SignedPreKey(q) /\ s.recvChains[a].nextMsgIndex = 0
    BY <2>1 DEF FreshChain
  <2> QED BY <2>2 DEF Used
<1>6. Answers({s}, q)
  BY <1>1, <1>2 DEF Answers
<1>7. CoresOf(s) = {s}
  BY <1>1 DEF CoresOf
<1> QED BY <1>4, <1>5, <1>6, <1>7 DEF Listens, s, q

\* A session that decrypted one more message of a chain that it knows.
LEMMA FurtherListens ==
  ASSUME NEW p, NEW S, NEW T, NEW left, NEW heard, NEW m, NEW x \in S, NEW y \in T,
         Listened(y, x, m), \A z \in T : z = y \/ z \in S, \A z \in S : z = x \/ z \in T,
         Listens(S, left, heard, p)
  PROVE  Listens(T, left, heard \cup {m}, p)
<1> DEFINE q == Peer(p)
<1>1. /\ y.aliceBaseKey = x.aliceBaseKey /\ y.rootKey = x.rootKey /\ y.sendChain = x.sendChain
      /\ Len(y.recvChains) = Len(x.recvChains) /\ SecretOf(y) = SecretOf(x)
  BY DEF Listened, SecretOf
<1>2. \A a \in 1..Len(x.recvChains) :
        /\ y.recvChains[a].ratchetKey = x.recvChains[a].ratchetKey
        /\ y.recvChains[a].chainKey = x.recvChains[a].chainKey
        /\ \A n \in Nat : Used(y.recvChains[a], n) =>
             \/ Used(x.recvChains[a], n)
             \/ x.recvChains[a].chainKey = m.chainKey /\ n = m.counter
  BY DEF Listened
<1>3. ASSUME NEW v, Hearable(S, left, p, v) PROVE Hearable(T, left, p, v)
  <2>1. CASE HeardOn(S, v)
    <3>1. PICK z \in S : \E a \in 1..Len(z.recvChains) :
            z.recvChains[a].ratchetKey = v[1] /\ z.recvChains[a].chainKey = v[2]
      BY <2>1 DEF HeardOn
    <3>2. CASE z = x
      <4>1. \E a \in 1..Len(y.recvChains) :
              y.recvChains[a].ratchetKey = v[1] /\ y.recvChains[a].chainKey = v[2]
        BY <1>1, <1>2, <3>1, <3>2
      <4> QED BY <4>1 DEF HeardOn, Hearable
    <3>3. CASE z \in T
      BY <3>1, <3>3 DEF HeardOn, Hearable
    <3> QED BY <3>2, <3>3
  <2>2. CASE TurnsTo(S, v)
    <3>1. PICK z \in S : v[2] = CalculateRatchet(z.rootKey, z.sendChain.ratchetKey, v[1])
      BY <2>2 DEF TurnsTo
    <3>2. PICK w \in T : w.rootKey = z.rootKey /\ w.sendChain = z.sendChain
      BY <1>1
    <3> QED BY <3>1, <3>2 DEF TurnsTo, Hearable
  <2>3. CASE OpensAs(S, left, p, v)
    <3>1. \A z \in T : z.aliceBaseKey # BaseIn(v)
      BY <1>1, <2>3 DEF OpensAs
    <3> QED BY <2>3, <3>1 DEF OpensAs, Hearable
  <2> QED BY <1>3, <2>1, <2>2, <2>3 DEF Hearable
<1>4. Received(T, heard \cup {m}, q)
  <2>1. Received(S, heard, q)
    BY DEF Listens
  <2> SUFFICES ASSUME NEW z \in T, NEW a \in 1..Len(z.recvChains)
               PROVE  LET c == z.recvChains[a]
                      IN /\ <<c.ratchetKey, c.chainKey>> \in Said(q) \/ c.ratchetKey = SignedPreKey(q)
                         /\ \A n \in Nat : Used(c, n) =>
                              \E h \in heard \cup {m} : h.chainKey = c.chainKey /\ h.counter = n
    BY DEF Received
  <2>2. CASE z \in S
    BY <2>1, <2>2 DEF Received
  <2>3. CASE z = y
    <3> DEFINE c == x.recvChains[a]
               d == z.recvChains[a]
    <3>1. a \in 1..Len(x.recvChains)
      BY <1>1, <2>3
    <3>2. /\ <<c.ratchetKey, c.chainKey>> \in Said(q) \/ c.ratchetKey = SignedPreKey(q)
          /\ \A n \in Nat : Used(c, n) => \E h \in heard : h.chainKey = c.chainKey /\ h.counter = n
      BY <2>1, <3>1 DEF Received
    <3>3. /\ d.ratchetKey = c.ratchetKey /\ d.chainKey = c.chainKey
          /\ \A n \in Nat : Used(d, n) => Used(c, n) \/ (c.chainKey = m.chainKey /\ n = m.counter)
      BY <1>2, <2>3, <3>1
    <3> HIDE DEF c, d
    <3>4. ASSUME NEW n \in Nat, Used(d, n)
          PROVE  \E h \in heard \cup {m} : h.chainKey = d.chainKey /\ h.counter = n
      <4>1. CASE Used(c, n)
        BY <3>2, <3>3, <4>1
      <4>2. CASE c.chainKey = m.chainKey /\ n = m.counter
        BY <3>3, <4>2
      <4> QED BY <3>3, <3>4, <4>1, <4>2
    <3>5. <<d.ratchetKey, d.chainKey>> \in Said(q) \/ d.ratchetKey = SignedPreKey(q)
      BY <3>2, <3>3
    <3> QED BY <3>4, <3>5 DEF d
  <2> QED BY <2>2, <2>3
<1>5. Answers(T, q)
  <2>1. Answers(S, q)
    BY DEF Listens
  <2> SUFFICES ASSUME NEW z \in T
               PROVE  \/ Len(z.rootKey) = 2
                      \/ \E v \in Said(q) : SecretIn(v) = SecretOf(z) /\ Len(v[2]) + 1 = Len(z.rootKey)
    BY DEF Answers
  <2>2. PICK w \in S : z.rootKey = w.rootKey /\ SecretOf(z) = SecretOf(w)
    BY <1>1
  <2> QED BY <2>1, <2>2 DEF Answers
<1> QED BY <1>3, <1>4, <1>5 DEF Listens

\* One that turned the ratchet for a message that was sent.
LEMMA TurnReceives ==
  ASSUME NEW p, NEW S, NEW T, NEW heard, NEW m, NEW x, NEW y \in T, NEW key,
         Turned(y, x, m, key), GainsChain(y, x, m), \A z \in T : z = y \/ z \in S,
         Received(S, heard, p), Received({x}, heard, p), Answers(S, p),
         VoiceIn(m) \in Said(p), m.chainKey[1] = SecretOf(x),
         NEW K, m.chainKey \in ChainKeys(K), Len(x.recvChains) \in Nat
  PROVE  Received(T, heard \cup {m}, p) /\ Answers(T, p)
<1>1. Received(T, heard \cup {m}, p)
  <2> SUFFICES ASSUME NEW z \in T, NEW a \in 1..Len(z.recvChains)
               PROVE  LET c == z.recvChains[a]
                      IN /\ <<c.ratchetKey, c.chainKey>> \in Said(p) \/ c.ratchetKey = SignedPreKey(p)
                         /\ \A n \in Nat : Used(c, n) =>
                              \E h \in heard \cup {m} : h.chainKey = c.chainKey /\ h.counter = n
    BY DEF Received
  <2>1. CASE z \in S
    BY <2>1 DEF Received
  <2>2. CASE z = y /\ a \in 1..Len(x.recvChains)
    <3>1. y.recvChains[a] = x.recvChains[a]
      BY <2>2 DEF GainsChain
    <3> QED BY <2>2, <3>1 DEF Received
  <2>3. CASE z = y /\ a = Len(x.recvChains) + 1
    <3> DEFINE c == z.recvChains[a]
    <3>1. /\ c.ratchetKey = m.ratchetKey /\ c.chainKey = m.chainKey
          /\ \A n \in Nat : Used(c, n) => n = m.counter
      BY <2>3 DEF GainsChain
    <3> HIDE DEF c
    <3>2. <<c.ratchetKey, c.chainKey>> \in Said(p)
      BY <3>1 DEF VoiceIn
    <3> QED BY <3>1, <3>2 DEF c
  <2>4. z \in S \/ (z = y /\ a \in 1..Len(x.recvChains)) \/ (z = y /\ a = Len(x.recvChains) + 1)
    <3>1. CASE z = y
      <4>2. Len(y.recvChains) = Len(x.recvChains) + 1
        BY DEF GainsChain
      <4> QED BY <3>1, <4>2
    <3> QED BY <3>1
  <2> QED BY <2>1, <2>2, <2>3, <2>4
<1>2. Answers(T, p)
  <2> SUFFICES ASSUME NEW z \in T
               PROVE  \/ Len(z.rootKey) = 2
                      \/ \E v \in Said(p) : SecretIn(v) = SecretOf(z) /\ Len(v[2]) + 1 = Len(z.rootKey)
    BY DEF Answers
  <2>1. CASE z \in S
    BY <2>1 DEF Answers
  <2>2. CASE z = y
    <3>1. y.rootKey = CalculateRatchet(m.chainKey, key, m.ratchetKey) /\ SecretOf(y) = SecretOf(x)
      BY DEF Turned
    <3>2. Len(y.rootKey) = Len(m.chainKey) + 1
      BY <3>1, AgreementIs
    <3>3. SecretIn(VoiceIn(m)) = m.chainKey[1] /\ VoiceIn(m)[2] = m.chainKey
      BY DEF SecretIn, VoiceIn
    <3> QED BY <2>2, <3>1, <3>2, <3>3
  <2> QED BY <2>1, <2>2
<1> QED BY <1>1, <1>2

\* ... and so hears what it heard before, and what the peer may say.
LEMMA TurnListens ==
  ASSUME NEW p, NEW S, NEW T, NEW left, NEW heard, NEW m, NEW x \in S, NEW y \in T, NEW key,
         Turned(y, x, m, key), GainsChain(y, x, m),
         \A z \in T : z = y \/ z \in S, \A z \in S : z = x \/ z \in T,
         Listens(S, left, heard, p), Told(Voices(Peer(p)), Peer(p)), VoiceIn(m) \in Said(Peer(p)),
         m.chainKey[1] = SecretOf(x), NEW K, m.chainKey \in ChainKeys(K), x.rootKey \in ChainKeys(K),
         Len(x.recvChains) \in Nat
  PROVE  Listens(T, left, heard \cup {m}, p)
<1> DEFINE q == Peer(p)
<1>1. m.chainKey = CalculateRatchet(x.rootKey, x.sendChain.ratchetKey, m.ratchetKey)
  BY DEF Turned
<1>2. y.aliceBaseKey = x.aliceBaseKey
  BY DEF Turned
<1>3. /\ Len(y.recvChains) = Len(x.recvChains) + 1 /\ Len(x.recvChains) \in Nat
      /\ \A a \in 1..Len(x.recvChains) : y.recvChains[a] = x.recvChains[a]
      /\ y.recvChains[Len(x.recvChains) + 1].ratchetKey = m.ratchetKey
      /\ y.recvChains[Len(x.recvChains) + 1].chainKey = m.chainKey
  BY DEF GainsChain
<1>4. HeardOn(T, VoiceIn(m))
  <2>1. Len(x.recvChains) + 1 \in 1..Len(y.recvChains)
    BY <1>3
  <2> QED BY <1>3, <2>1 DEF HeardOn, VoiceIn
<1>5. ASSUME NEW v \in Voices(q) PROVE Hearable(T, left, p, v)
  <2>0. Hearable(S, left, p, v)
    BY <1>5 DEF Listens
  <2>1. CASE HeardOn(S, v)
    <3>1. PICK z \in S : \E a \in 1..Len(z.recvChains) :
            z.recvChains[a].ratchetKey = v[1] /\ z.recvChains[a].chainKey = v[2]
      BY <2>1 DEF HeardOn
    <3>2. CASE z = x
      <4>1. PICK a \in 1..Len(x.recvChains) :
              x.recvChains[a].ratchetKey = v[1] /\ x.recvChains[a].chainKey = v[2]
        BY <3>1, <3>2
      <4>2. a \in 1..Len(y.recvChains)
        BY <1>3
      <4>3. y.recvChains[a].ratchetKey = v[1] /\ y.recvChains[a].chainKey = v[2]
        BY <1>3, <4>1
      <4> QED BY <4>2, <4>3 DEF HeardOn, Hearable
    <3>3. CASE z \in T
      BY <3>1, <3>3 DEF HeardOn, Hearable
    <3> QED BY <3>2, <3>3
  <2>2. CASE TurnsTo(S, v)
    <3>1. PICK z \in S : v[2] = CalculateRatchet(z.rootKey, z.sendChain.ratchetKey, v[1])
      BY <2>2 DEF TurnsTo
    <3>2. CASE z = x
      <4>1. v[2] = CalculateRatchet(x.rootKey, x.sendChain.ratchetKey, v[1])
        BY <3>1, <3>2
      <4>2. /\ Len(v[2]) = Len(x.rootKey) + 1 /\ v[2][1] = x.rootKey[1]
            /\ Len(m.chainKey) = Len(x.rootKey) + 1 /\ m.chainKey[1] = x.rootKey[1]
        BY <1>1, <4>1, AgreementIs
      <4>3. VoiceIn(m)[2] = m.chainKey
        BY DEF VoiceIn
      <4>4. SecretIn(v) = SecretIn(VoiceIn(m)) /\ Len(v[2]) = Len(VoiceIn(m)[2])
        BY <4>2, <4>3 DEF SecretIn
      <4>5. VoiceIn(m) \in Voices(q)
        BY DEF Voices, InUse
      <4>6. v = VoiceIn(m)
        BY <4>4, <4>5, <1>5 DEF Told
      <4> QED BY <1>4, <4>6 DEF Hearable
    <3>3. CASE z \in T
      BY <3>1, <3>3 DEF TurnsTo, Hearable
    <3> QED BY <3>2, <3>3
  <2>3. CASE OpensAs(S, left, p, v)
    <3>1. \A z \in T : z.aliceBaseKey # BaseIn(v)
      BY <1>2, <2>3 DEF OpensAs
    <3> QED BY <2>3, <3>1 DEF OpensAs, Hearable
  <2> QED BY <2>0, <2>1, <2>2, <2>3 DEF Hearable
<1>6. Received(T, heard \cup {m}, q) /\ Answers(T, q)
  <2>1. Received(S, heard, q) /\ Answers(S, q)
    BY DEF Listens
  <2>2. Received({x}, heard, q)
    BY <2>1 DEF Received
  <2> QED BY <2>1, <2>2, TurnReceives
<1> QED BY <1>5, <1>6 DEF Listens

\* A session that a first message opened.
LEMMA OpenListens ==
  ASSUME SessionsAssumption, NEW p \in Parties, NEW S, NEW T, NEW left, NEW after, NEW heard, NEW m,
         NEW y \in T, NEW key, Turned(y, Incoming(p, m), m, key), GainsChain(y, Incoming(p, m), m),
         \A z \in T : z = y \/ z \in S, S \subseteq T,
         Listens(S, left, heard, p), VoiceIn(m) \in Said(Peer(p)),
         \A v \in Voices(Peer(p)) : VoiceFormed(v),
         Told(Voices(Peer(p)), Peer(p)), OwnKeys(Peer(p)),
         m.chainKey[1] = <<m.baseKey, m.oneTimeId>>, m.baseKey[1] = Peer(p), m.oneTimeId \in Nat,
         NEW K, m.chainKey \in ChainKeys(K),
         after = IF m.oneTimeId # NoKeyId THEN left \ {m.oneTimeId} ELSE left
  PROVE  Listens(T, after, heard \cup {m}, p)
<1> DEFINE q == Peer(p)
           x == Incoming(p, m)
           w == VoiceIn(m)
<1>1. /\ x.aliceBaseKey = m.baseKey /\ SecretOf(x) = <<m.baseKey, m.oneTimeId>> /\ Len(x.recvChains) = 0
  BY IncomingCore
<1>2. x.rootKey = Secret(m.baseKey, m.oneTimeId) /\ x.sendChain.ratchetKey = SignedPreKey(p)
  BY DEF Incoming
<1> HIDE DEF x
<1>3. /\ y.aliceBaseKey = m.baseKey
      /\ m.chainKey = CalculateRatchet(Secret(m.baseKey, m.oneTimeId), SignedPreKey(p), m.ratchetKey)
  BY <1>1, <1>2 DEF Turned, x
<1>4. Len(m.chainKey) = 2
  BY <1>3 DEF CalculateRatchet, Secret
<1>5. /\ w[1] = m.ratchetKey /\ w[2] = m.chainKey /\ SecretIn(w) = <<m.baseKey, m.oneTimeId>>
      /\ BaseIn(w) = m.baseKey /\ IdIn(w) = m.oneTimeId
  BY DEF VoiceIn, SecretIn, BaseIn, IdIn
<1>6. w \in Voices(q)
  BY DEF Voices, InUse
<1>7. HeardOn(T, w)
  <2>1. /\ 1 \in 1..Len(y.recvChains)
        /\ y.recvChains[1].ratchetKey = m.ratchetKey /\ y.recvChains[1].chainKey = m.chainKey
    BY <1>1 DEF GainsChain, x
  <2> QED BY <2>1, <1>5 DEF HeardOn
<1> HIDE DEF w
<1>8. ASSUME NEW v \in Voices(q) PROVE Hearable(T, after, p, v)
  <2>0. Hearable(S, left, p, v)
    BY <1>8 DEF Listens
  <2>1. CASE HeardOn(S, v)
    BY <2>1 DEF HeardOn, Hearable
  <2>2. CASE TurnsTo(S, v)
    BY <2>2 DEF TurnsTo, Hearable
  <2>3. CASE OpensAs(S, left, p, v)
    <3>1. /\ \A z \in S : z.aliceBaseKey # BaseIn(v)
          /\ IdIn(v) \in left \cup {NoKeyId} /\ BaseIn(v)[1] # p
          /\ v[2] = CalculateRatchet(Secret(BaseIn(v), IdIn(v)), SignedPreKey(p), v[1])
      BY <2>3 DEF OpensAs
    <3>2. BaseIn(v)[1] = q
      <4>1. VoiceFormed(v)
        BY <1>8
      <4>2. BaseIn(v) \in Parties \X Nat
        BY <4>1 DEF VoiceFormed, KeysMade
      <4>3. BaseIn(v)[1] \in Parties
        BY <4>2
      <4> QED BY <3>1, <4>3, PeerIs
    <3>3. CASE BaseIn(v) = m.baseKey
      <4>1. SecretIn(v) = SecretIn(w)
        BY <1>5, <1>6, <1>8, <3>2, <3>3 DEF Told
      <4>2. Len(v[2]) = 2
        BY <3>1 DEF CalculateRatchet, Secret
      <4>3. v = w
        BY <1>4, <1>5, <1>6, <1>8, <4>1, <4>2 DEF Told
      <4> QED BY <1>7, <4>3 DEF Hearable
    <3>4. CASE BaseIn(v) # m.baseKey
      <4>1. \A z \in T : z.aliceBaseKey # BaseIn(v)
        BY <1>3, <3>1, <3>4
      <4>2. IdIn(v) # NoKeyId => IdIn(v) # m.oneTimeId
        BY <1>5, <1>6, <1>8, <3>2, <3>4 DEF Told
      <4>3. IdIn(v) \in after \cup {NoKeyId}
        BY <3>1, <4>2
      <4> QED BY <3>1, <4>1, <4>3 DEF OpensAs, Hearable
    <3> QED BY <3>3, <3>4
  <2> QED BY <2>0, <2>1, <2>2, <2>3 DEF Hearable
<1>9. Received(T, heard \cup {m}, q) /\ Answers(T, q)
  <2>1. Received(S, heard, q) /\ Answers(S, q)
    BY DEF Listens
  <2>2. Received({x}, heard, q)
    BY <1>1 DEF Received
  <2>3. Turned(y, x, m, key) /\ GainsChain(y, x, m) /\ m.chainKey[1] = SecretOf(x)
    BY <1>1 DEF x
  <2>4. VoiceIn(m) \in Said(q)
    OBVIOUS
  <2>5. Len(x.recvChains) \in Nat
    BY <1>1
  <2> QED BY <2>1, <2>2, <2>3, <2>4, <2>5, TurnReceives
<1>10. bundles[p] \subseteq after
  <2>1. bundles[p] \subseteq left
    BY DEF Listens
  <2>2. Peer(q) = p
    BY PeerIs
  <2>3. m.oneTimeId \notin bundles[p]
    BY <1>5, <1>6, <2>2 DEF OwnKeys
  <2> QED BY <2>1, <2>3
<1> QED BY <1>8, <1>9, <1>10 DEF Listens

\* A party that decrypts a message still hears its peer.
LEMMA DecryptListens ==
  ASSUME RatchetAssumption, SessionsAssumption, NoSessionAssumption, Typed,
         \A q \in Parties : FormedFor(q), NEW p \in Parties, NEW m \in sent, Decrypt(p, m),
         Speaks(Peer(p)), HearsPeer(p), lapses'[p] = {}
  PROVE  HearsPeer(p)'
<1> DEFINE q == Peer(p)
<1>1. /\ m \in Messages(KeysMade) /\ MessageFormed(m) /\ m \in SentBy(q)
      /\ op[p].step = "none" /\ op'[p].message = m
      /\ op'[p].step = IF Opens(p, m) /\ m.oneTimeId # NoKeyId THEN "opened" ELSE "decrypted"
      /\ "session reopened" \in lapses'[p] \/ ~MayReopen(p, m)
      /\ \E y \in WrittenCores(p)' : Decodes(p, m, y)
  BY DecryptHas
<1>2. PICK y : y \in WrittenCores(p)' /\ Decodes(p, m, y)
  BY <1>1
<1>3. /\ Said(q)' = Said(q) /\ Voices(q)' = Voices(q) /\ bundles'[p] = bundles[p]
  <2>1. Moves(p)
    BY DEF Moves
  <2> QED BY <2>1, OthersVoices
<1>4. UNCHANGED <<session, preKeys, got>>
  BY DEF Decrypt
<1>5. StoredCores(p)' = StoredCores(p)
  BY <1>4, CoresFollow
<1>6. Listens(StoredCores(p), preKeys[p], got[p], p)
  BY <1>1 DEF HearsPeer
<1>7. /\ HeardBy(p)' = got[p] \cup {m}
      /\ Left(p)' = IF Opens(p, m) /\ m.oneTimeId # NoKeyId THEN preKeys[p] \ {m.oneTimeId} ELSE preKeys[p]
  BY <1>1, <1>4 DEF HeardBy, Deciphering, Left
<1>8. PICK T : T = WrittenCores(p)'
  OBVIOUS
<1>9. PICK S : S = StoredCores(p)
  OBVIOUS
<1>10. /\ m.chainKey \in ChainKeys(KeysMade) /\ m.oneTimeId \in Nat
       /\ m.chainKey[1] = <<m.baseKey, m.oneTimeId>>
       /\ VoiceIn(m) \in Said(q) /\ Told(Voices(q), q) /\ OwnKeys(q)
       /\ \A v \in Voices(q) : VoiceFormed(v)
  <2>1. q \in Parties /\ FormedFor(q)
    BY PeerIs
  <2>2. m.chainKey \in ChainKeys(KeysMade) /\ m.oneTimeId \in Nat
    BY <1>1 DEF Messages
  <2>3. m.chainKey[1] = <<m.baseKey, m.oneTimeId>>
    BY <1>1 DEF MessageFormed
  <2>4. VoiceIn(m) \in Said(q) /\ \A v \in Voices(q) : VoiceFormed(v)
    BY <1>1, <2>1, VoicesAre
  <2> QED BY <2>2, <2>3, <2>4 DEF Speaks
<1>11. Listens(WrittenCores(p)', Left(p)', HeardBy(p)', p)
  <2>1. \A z \in T : z = y \/ z \in S
    BY <1>2, <1>8, <1>9 DEF Decodes
  <2>2. ASSUME NEW x \in S, ~Opens(p, m), Further(p, m, y, x) \/ Turning(p, m, y, x),
               \A z \in S : z = x \/ z \in T
        PROVE  Listens(T, preKeys[p], got[p] \cup {m}, p)
    <3>1. y \in T /\ Listens(S, preKeys[p], got[p], p)
      BY <1>2, <1>6, <1>8, <1>9
    <3>2. CASE Further(p, m, y, x)
      <4>1. Listened(y, x, m)
        BY <3>2 DEF Further
      <4> QED BY <2>1, <2>2, <3>1, <4>1, FurtherListens
    <3>3. CASE Turning(p, m, y, x)
      <4>1. Turned(y, x, m, NewKey(p, 1)) /\ GainsChain(y, x, m)
        BY <3>3 DEF Turning
      <4>2. Formed(x, p) /\ x.rootKey \in ChainKeys(KeysMade) /\ Len(x.recvChains) \in Nat
        BY <1>9, KnownCores
      <4>3. m.chainKey[1] = SecretOf(x)
        <5>1. m.chainKey = CalculateRatchet(x.rootKey, x.sendChain.ratchetKey, m.ratchetKey)
          BY <4>1 DEF Turned
        <5>2. m.chainKey[1] = x.rootKey[1]
          BY <4>2, <5>1, AgreementIs
        <5> QED BY <4>2, <5>2 DEF Formed
      <4>4. Told(Voices(Peer(p)), Peer(p)) /\ VoiceIn(m) \in Said(Peer(p))
        BY <1>10
      <4> QED BY <1>10, <2>1, <2>2, <3>1, <4>1, <4>2, <4>3, <4>4, TurnListens
    <3> QED BY <2>2, <3>2, <3>3
  <2>3. CASE ~Opens(p, m)
    <3>1. PICK x \in S :
            /\ Further(p, m, y, x) \/ Turning(p, m, y, x)
            /\ \A z \in S : z = x \/ z \in T
      BY <1>2, <1>8, <1>9, <2>3 DEF Decodes
    <3>2. Listens(T, preKeys[p], got[p] \cup {m}, p)
      BY <2>2, <2>3, <3>1
    <3> QED BY <1>7, <1>8, <2>3, <3>2
  <2>4. CASE Opens(p, m)
    <3>1. /\ Turning(p, m, y, Incoming(p, m)) /\ S \subseteq T
      BY <1>2, <1>8, <1>9, <2>4 DEF Decodes
    <3>2. Turned(y, Incoming(p, m), m, NewKey(p, 1)) /\ GainsChain(y, Incoming(p, m), m)
      BY <3>1 DEF Turning
    <3>3. m.baseKey[1] = Peer(p)
      <4>1. m.type = "pkmsg"
        BY <2>4 DEF Opens
      <4> QED BY <1>1, <4>1 DEF MessageFormed, SentBy
    <3>4. PICK after : after = IF m.oneTimeId # NoKeyId THEN preKeys[p] \ {m.oneTimeId} ELSE preKeys[p]
      OBVIOUS
    <3>5. y \in T /\ Listens(S, preKeys[p], got[p], p)
      BY <1>2, <1>6, <1>8, <1>9
    <3>6. /\ Told(Voices(Peer(p)), Peer(p)) /\ VoiceIn(m) \in Said(Peer(p)) /\ OwnKeys(Peer(p))
          /\ \A v \in Voices(Peer(p)) : VoiceFormed(v)
      BY <1>10
    <3>7. Listens(T, after, got[p] \cup {m}, p)
      BY <1>10, <2>1, <3>1, <3>2, <3>3, <3>4, <3>5, <3>6, OpenListens
    <3>8. Left(p)' = after
      BY <1>7, <2>4, <3>4
    <3> QED BY <1>7, <1>8, <3>7, <3>8
  <2> QED BY <2>3, <2>4
<1>12. Listens(StoredCores(p)', preKeys'[p], got'[p], p)
  BY <1>4, <1>5, <1>6
<1> QED BY <1>3, <1>11, <1>12, HearsAfter

\* A new outgoing session was not answered yet.
LEMMA OutgoingExchange ==
  ASSUME NEW q, NEW id, NEW base, NEW ratchet
  PROVE  Outgoing(q, id, base, ratchet).initialExchange
BY DEF Outgoing

\* What is prepared has no previous sessions.
LEMMA TaskPrevious ==
  ASSUME Typed, NEW p \in Parties, task[p].step \in {"prepared", "renewing"}, Makes(p)
  PROVE  task[p].session.prevSessions = <<>>
<1>1. \A q, id, base, ratchet : Outgoing(q, id, base, ratchet).prevSessions = <<>>
  BY DEF Outgoing
<1>2. \E id, base, ratchet : task[p].session = Outgoing(Peer(p), id, base, ratchet)
  BY DEF Makes
<1> QED BY <1>1, <1>2

\* A party still hears its peer after a step of its own.
LEMMA MoverHears ==
  ASSUME RatchetAssumption, SessionsAssumption, NoSessionAssumption, Typed,
         \A q \in Parties : FormedFor(q), NEW p \in Parties, Moves(p),
         Makes(p), HearsOrLapsed(p), SpeaksOrLapsed(Peer(p)), HearsPeerOrLapsed(p)
  PROVE  HearsPeerOrLapsed(p)'
<1> SUFFICES ASSUME lapses'[p] = {}, Steady(Peer(p))' PROVE HearsPeer(p)'
  BY DEF HearsPeerOrLapsed
<1> DEFINE q == Peer(p)
<1>1. lapses[p] = {} /\ Steady(q)
  <2>1. q \in Parties
    BY PeerIs
  <2> QED BY <2>1, MoveLeaves DEF Steady, Lapsed
<1>2. HearsPeer(p) /\ Hears(p) /\ Speaks(q)
  BY <1>1 DEF HearsPeerOrLapsed, HearsOrLapsed, SpeaksOrLapsed, Lapsed
<1>3. Said(q)' = Said(q) /\ Voices(q)' = Voices(q) /\ bundles'[p] = bundles[p]
  BY OthersVoices
<1>4. ASSUME UNCHANGED <<preKeys, got>>, session'[p] = session[p], op'[p] = op[p] PROVE HearsPeer(p)'
  <2>1. /\ StoredCores(p)' = StoredCores(p) /\ WrittenCores(p)' = WrittenCores(p)
    BY <1>4, CoresFollow
  <2>2. Left(p)' = Left(p) /\ HeardBy(p)' = HeardBy(p)
    BY <1>4 DEF Left, HeardBy, Deciphering
  <2>3. op'[p].step # "decrypted" => Listens(StoredCores(p)', preKeys'[p], got'[p], p)
    BY <1>2, <1>4, <2>1 DEF HearsPeer
  <2>4. op'[p].step # "none" => Listens(WrittenCores(p)', Left(p)', HeardBy(p)', p)
    BY <1>2, <1>4, <2>1, <2>2 DEF HearsPeer
  <2> QED BY <1>3, <2>3, <2>4, HearsAfter
<1>5. CASE Resolve(p) \/ Refetch(p)
  BY <1>4, <1>5 DEF Resolve, Refetch
<1>6. CASE Persist(p) \/ Reestablish(p)
  <2>1. /\ task[p].step \in {"prepared", "renewing"} /\ op'[p] = op[p] /\ op[p].step = "none"
        /\ UNCHANGED <<preKeys, got>>
    BY <1>6 DEF Persist, Reestablish
  <2>2. CASE session'[p] = session[p]
    BY <1>4, <2>1, <2>2
  <2>3. CASE session'[p] # session[p]
    <3>1. session[p] = NoSession /\ session'[p] = task[p].session
      <4>1. CASE Persist(p)
        <5>1. PICK kept : kept = IF session[p] = NoSession THEN task[p].session ELSE session[p]
          OBVIOUS
        <5>2. session' = [session EXCEPT ![p] = kept]
          BY <4>1, <5>1 DEF Persist
        <5>3. session'[p] = kept
          BY <5>2, FreeIdle
        <5> QED BY <2>3, <5>1, <5>3
      <4>2. CASE Reestablish(p)
        <5>1. session'[p] = task[p].session
          BY <4>2, FreeIdle DEF Reestablish
        <5>2. session[p] = NoSession
          <6> SUFFICES ASSUME session[p] # NoSession PROVE FALSE
            OBVIOUS
          <6>1. Lapse(p, {"session dropped"})
            BY <4>2 DEF Reestablish
          <6>2. "session dropped" \in LapseNames
            BY DEF LapseNames
          <6>3. "session dropped" \in lapses'[p]
            BY <6>1, <6>2, LapseHas
          <6> QED BY <6>3
        <5> QED BY <5>1, <5>2
      <4> QED BY <1>6, <4>1, <4>2
    <3> DEFINE s == task[p].session
    <3>2. s \in Session(KeysMade) /\ RecordFormed(s, p, Chains(s))
      BY <2>1, TaskIs DEF FormedFor
    <3>3. s = Outgoing(q, s.oneTimeId, s.aliceBaseKey, s.sendChain.ratchetKey)
      BY <2>1 DEF Makes
    <3>4. PICK id, base, ratchet : id = s.oneTimeId /\ base = s.aliceBaseKey /\ ratchet = s.sendChain.ratchetKey
      OBVIOUS
    <3>5. s \in PreparedCores(p) /\ PreparedCores(p) = CoresOf(s)
      <4>1. PreparedCores(p) = CoresOf(s)
        BY <2>1 DEF PreparedCores
      <4>2. /\ 0 \in Chains(s) /\ Core(s, 0) = Snapshot(s)
        BY <3>2, CoreIs
      <4>3. Snapshot(s) = s
        <5>1. s.prevSessions = <<>>
          BY <1>2, <2>1, TaskPrevious
        <5> QED BY <3>2, <5>1 DEF Snapshot, Session, Record
      <4> QED BY <4>1, <4>2, <4>3 DEF CoresOf
    <3>6. /\ base \in KeysMade /\ id \in Nat /\ ratchet \in KeysMade /\ Formed(s, p)
      BY <3>4, <3>5, KnownCores
    <3>7. base[1] = p
      <4>1. s.initialExchange
        BY <3>3, OutgoingExchange
      <4> QED BY <3>4, <3>6, <4>1 DEF Formed
    <3>8. SignedPreKey(q) \in KeysMade /\ q \in Parties
      BY PeerIs, SignedIsMade
    <3>9. Listens({}, preKeys[p], got[p], p)
      <4>1. StoredCores(p) = {}
        BY <3>1, CoresFollow
      <4> QED BY <1>2, <2>1, <4>1 DEF HearsPeer
    <3>10. Listens(CoresOf(s), preKeys[p], got[p], p)
      <4>1. \A v \in Voices(Peer(p)) : BaseIn(v)[1] # p => BaseIn(v) # base
        BY <3>7
      <4>2. Listens(CoresOf(Outgoing(q, id, base, ratchet)), preKeys[p], got[p], p)
        BY <3>6, <3>8, <3>9, <4>1, MadeListens
      <4> HIDE DEF s
      <4> QED BY <3>3, <3>4, <4>2
    <3>11. StoredCores(p)' = CoresOf(s)
      BY <2>1, <3>1, <3>5, CoresFollow
    <3> QED BY <1>3, <2>1, <3>10, <3>11, HearsAfter
  <2> QED BY <2>2, <2>3
<1>7. CASE \E prefetched \in BOOLEAN : Encrypt(p, prefetched)
  <2>1. PICK prefetched \in BOOLEAN : Encrypt(p, prefetched)
    BY <1>7
  <2>2. session[p] # NoSession
    <3> SUFFICES ASSUME session[p] = NoSession PROVE FALSE
      OBVIOUS
    <3>2. Lapse(p, {"deleted session used"})
      BY <2>1 DEF Encrypt
    <3>3. "deleted session used" \in LapseNames
      BY DEF LapseNames
    <3>4. "deleted session used" \in lapses'[p]
      BY <3>2, <3>3, LapseHas
    <3> QED BY <3>4
  <2>3. FormedFor(p)
    OBVIOUS
  <2>4. PICK s \in Session(KeysMade) :
         /\ session[p] # NoSession => s = session[p]
         /\ WrittenCores(p)' = CoresOf(Encrypted(s)) /\ WrittenVoices(p)' = VoicesOf(CoresOf(s))
         /\ op'[p].step = "encrypted" /\ VoiceIn(op'[p].message) \in WrittenVoices(p)'
    BY <2>1, <2>3, EncryptHas
  <2>5. op[p].step = "none" /\ UNCHANGED <<session, preKeys, got>>
    BY <2>1 DEF Encrypt
  <2>6. StoredCores(p) = CoresOf(s)
    BY <2>2, <2>4 DEF StoredCores
  <2>7. Listens(StoredCores(p), preKeys[p], got[p], p)
    BY <1>2, <2>5 DEF HearsPeer
  <2>8. Listens(CoresOf(Encrypted(s)), preKeys[p], got[p], p)
    BY <2>6, <2>7, EncryptedSet, AlikeListens
  <2>9. StoredCores(p)' = StoredCores(p)
    BY <2>5, CoresFollow
  <2>10. Left(p)' = preKeys[p] /\ HeardBy(p)' = got[p]
    BY <2>4, <2>5 DEF Left, HeardBy, Deciphering
  <2>11. Listens(WrittenCores(p)', Left(p)', HeardBy(p)', p)
    BY <2>4, <2>8, <2>10
  <2>12. Listens(StoredCores(p)', preKeys'[p], got'[p], p)
    BY <2>5, <2>7, <2>9
  <2> QED BY <1>3, <2>11, <2>12, HearsAfter
<1>8. CASE Release(p) \/ Deliver(p) \/ Interrupt(p)
  <2>1. /\ op[p].step # "none" /\ op'[p].step = "none"
        /\ UNCHANGED <<preKeys, bundles, generated>>
    BY <1>8, OperationEnds
  <2>2. /\ "message lost" \notin lapses'[p]
        /\ \/ session'[p] = session[p] /\ Interrupt(p)
           \/ session'[p] = op[p].session /\ op[p].step \in {"encrypted", "decrypted"}
        /\ \/ got'[p] = got[p] /\ (op[p].step = "decrypted" => "message lost" \in lapses'[p])
           \/ op[p].step = "decrypted" /\ got'[p] = got[p] \cup {op[p].message}
    BY <1>8, OperationEnds
  <2>3. CASE session'[p] = session[p] /\ Interrupt(p)
    <3>1. got'[p] = got[p] /\ op[p].step # "decrypted"
      <4>1. got'[p] = got[p]
        BY <2>3 DEF Interrupt
      <4>2. op[p].step # "decrypted"
        <5> SUFFICES ASSUME op[p].step = "decrypted" PROVE FALSE
          OBVIOUS
        <5>1. Lapse(p, {"message lost"})
          BY <2>3 DEF Interrupt
        <5>2. "message lost" \in LapseNames
          BY DEF LapseNames
        <5>3. "message lost" \in lapses'[p]
          BY <5>1, <5>2, LapseHas
        <5> QED BY <5>3
      <4> QED BY <4>1, <4>2
    <3>2. StoredCores(p)' = StoredCores(p)
      BY <2>3, CoresFollow
    <3>3. Listens(StoredCores(p)', preKeys'[p], got'[p], p)
      BY <1>2, <2>1, <3>1, <3>2 DEF HearsPeer
    <3> QED BY <1>3, <2>1, <3>3, HearsAfter
  <2>4. CASE session'[p] = op[p].session /\ op[p].step \in {"encrypted", "decrypted"}
    <3>1. StoredCores(p)' = WrittenCores(p)
      BY <2>1, <2>4, CoresFollow
    <3>2. Left(p) = preKeys[p]
      BY <2>4 DEF Left
    <3>3. HeardBy(p) = got'[p]
      BY <2>2, <2>4 DEF HeardBy, Deciphering
    <3>4. Listens(StoredCores(p)', preKeys'[p], got'[p], p)
      BY <1>2, <2>1, <3>1, <3>2, <3>3 DEF HearsPeer
    <3> QED BY <1>3, <2>1, <3>4, HearsAfter
  <2> QED BY <2>2, <2>3, <2>4
<1>9. CASE Delete(p)
  <2>1. Lapse(p, {"session dropped"})
    BY <1>9 DEF Delete
  <2>2. "session dropped" \in LapseNames
    BY DEF LapseNames
  <2>3. "session dropped" \in lapses'[p]
    BY <2>1, <2>2, LapseHas
  <2> QED BY <2>3
<1>10. CASE Consume(p)
  <2>1. /\ op[p].step = "opened" /\ op'[p].step = "decrypted"
        /\ op'[p].message = op[p].message /\ WrittenCores(p)' = WrittenCores(p)
        /\ preKeys'[p] = preKeys[p] \ {op[p].message.oneTimeId}
        /\ UNCHANGED <<session, bundles, task, sent, got, lapses>>
    BY <1>10, ConsumeKeeps
  <2>2. Left(p)' = Left(p) /\ HeardBy(p)' = HeardBy(p)
    BY <2>1 DEF Left, HeardBy, Deciphering
  <2>3. Listens(WrittenCores(p)', Left(p)', HeardBy(p)', p)
    BY <1>2, <2>1, <2>2 DEF HearsPeer
  <2> QED BY <1>3, <2>1, <2>3, HearsAfter
<1>11. CASE \E m \in sent : Decrypt(p, m)
  BY <1>2, <1>11, DecryptListens
<1> QED BY <1>5, <1>6, <1>7, <1>8, <1>9, <1>10, <1>11 DEF Moves

\* A party hears its peer as long as the new voices of that can be heard.
LEMMA HearsOthers ==
  ASSUME NEW p, session'[p] = session[p], op'[p] = op[p], preKeys'[p] = preKeys[p], got'[p] = got[p],
         bundles'[p] \subseteq bundles[p], Said(Peer(p)) \subseteq Said(Peer(p))', HearsPeer(p),
         StoredCores(p)' = StoredCores(p), WrittenCores(p)' = WrittenCores(p),
         op[p].step # "decrypted" =>
           \A v \in Voices(Peer(p))' :
             v \in Voices(Peer(p)) \/ Hearable(StoredCores(p), preKeys[p], p, v),
         op[p].step # "none" =>
           \A v \in Voices(Peer(p))' :
             v \in Voices(Peer(p)) \/ Hearable(WrittenCores(p), Left(p), p, v)
  PROVE  HearsPeer(p)'
<1> DEFINE q == Peer(p)
<1>1. PICK S : S = StoredCores(p)
  OBVIOUS
<1>2. PICK T : T = WrittenCores(p)
  OBVIOUS
<1>3. PICK left, after, heard, hearing :
        left = preKeys[p] /\ after = Left(p) /\ heard = got[p] /\ hearing = HeardBy(p)
  OBVIOUS
<1>4. ASSUME NEW U, NEW l, NEW h, Listens(U, l, h, p),
             \A v \in Voices(q)' : v \in Voices(q) \/ Hearable(U, l, p, v)
      PROVE  Listens(U, l, h, p)'
  <2>1. \A v \in Voices(q)' : Hearable(U, l, p, v)
    BY <1>4 DEF Listens
  <2>2. (\A v \in Voices(q) : Hearable(U, l, p, v))'
    BY <2>1
  <2>3. Received(U, h, q)'
    BY <1>4 DEF Listens, Received
  <2>4. Answers(U, q)'
    BY <1>4 DEF Listens, Answers
  <2>5. bundles'[p] \subseteq l
    BY <1>4 DEF Listens
  <2> QED BY <2>2, <2>3, <2>4, <2>5 DEF Listens
<1>5. op[p].step # "decrypted" => Listens(S, left, heard, p)'
  BY <1>1, <1>3, <1>4 DEF HearsPeer
<1>6. op[p].step # "none" => Listens(T, after, hearing, p)'
  BY <1>2, <1>3, <1>4 DEF HearsPeer
<1>7. op'[p].step # "decrypted" => Listens(StoredCores(p), preKeys[p], got[p], p)'
  BY <1>1, <1>3, <1>5 DEF Listens, Received, Answers
<1>8. op'[p].step # "none" => Listens(WrittenCores(p), Left(p), HeardBy(p), p)'
  <2>1. Left(p)' = after /\ HeardBy(p)' = hearing
    BY <1>3 DEF Left, HeardBy, Deciphering
  <2> QED BY <1>2, <1>6, <2>1 DEF Listens, Received, Answers
<1> QED BY <1>7, <1>8 DEF HearsPeer

\* Only a new session and a turn of the ratchet bring new voices.
LEMMA MoveVoices ==
  ASSUME SessionsAssumption, NoSessionAssumption, Typed, NEW p \in Parties, FormedFor(p), Makes(p),
         Steady(p)',
         \/ Resolve(p) /\ session[p] # NoSession
         \/ Persist(p) \/ Reestablish(p) \/ Delete(p) \/ Consume(p)
         \/ Release(p) \/ Deliver(p) \/ Interrupt(p)
         \/ \E prefetched \in BOOLEAN : Encrypt(p, prefetched)
  PROVE  Voices(p)' \subseteq Voices(p) /\ Said(p) \subseteq Said(p)'
<1>1. CASE Resolve(p) /\ session[p] # NoSession
  <2>1. /\ task' = [task EXCEPT ![p] = [step |-> "ready", session |-> session[p]]]
        /\ UNCHANGED <<session, op, sent>>
    BY <1>1 DEF Resolve, Prepare
  <2>2. task'[p].step = "ready"
    <3>1. task'[p] = [step |-> "ready", session |-> session[p]]
      BY <2>1, FreeIdle
    <3> QED BY <3>1
  <2>3. /\ Said(p)' = Said(p) /\ StoredVoices(p)' = StoredVoices(p)
        /\ WrittenVoices(p)' = WrittenVoices(p) /\ PreparedVoices(p)' = {}
    BY <2>1, <2>2, CoresFollow, SameSent
  <2> QED BY <2>3 DEF Voices, InUse
<1>2. CASE Persist(p) \/ Reestablish(p)
  <2>1. /\ task[p].step \in {"prepared", "renewing"} /\ UNCHANGED <<op, sent>>
    BY <1>2 DEF Persist, Reestablish
  <2>2. /\ session'[p] = session[p] \/ session'[p] = task[p].session
        /\ task'[p].step \in {"none", "ready"}
    <3>1. CASE Persist(p)
      <4>1. PICK kept : kept = IF session[p] = NoSession THEN task[p].session ELSE session[p]
        OBVIOUS
      <4>2. /\ session' = [session EXCEPT ![p] = kept]
            /\ task' = [task EXCEPT ![p] = [step |-> "ready", session |-> kept]]
        BY <3>1, <4>1 DEF Persist
      <4>3. session'[p] = kept /\ task'[p] = [step |-> "ready", session |-> kept]
        BY <4>2, FreeIdle
      <4> QED BY <4>1, <4>3
    <3>2. CASE Reestablish(p)
      <4>1. session'[p] = task[p].session /\ task'[p] = Idle
        BY <3>2, FreeIdle DEF Reestablish
      <4> QED BY <4>1 DEF Idle
    <3> QED BY <1>2, <3>1, <3>2
  <2>3. /\ Said(p)' = Said(p) /\ WrittenVoices(p)' = WrittenVoices(p) /\ PreparedVoices(p)' = {}
    BY <2>1, <2>2, CoresFollow, SameSent
  <2>4. StoredVoices(p)' = StoredVoices(p) \/ StoredVoices(p)' = PreparedVoices(p)
    BY <2>1, <2>2, CoresFollow
  <2> QED BY <2>3, <2>4 DEF Voices, InUse
<1>3. CASE Delete(p)
  <2>1. session'[p] = NoSession /\ UNCHANGED <<task, op, sent>>
    BY <1>3, FreeIdle DEF Delete
  <2>2. /\ StoredVoices(p)' = {} /\ Said(p)' = Said(p) /\ WrittenVoices(p)' = WrittenVoices(p)
        /\ PreparedVoices(p)' = PreparedVoices(p)
    BY <2>1, CoresFollow, SameSent
  <2> QED BY <2>2 DEF Voices, InUse
<1>4. CASE Consume(p)
  <2>1. WrittenVoices(p)' = WrittenVoices(p) /\ UNCHANGED <<session, task, sent>>
    BY <1>4, ConsumeKeeps
  <2>2. /\ StoredVoices(p)' = StoredVoices(p) /\ Said(p)' = Said(p)
        /\ PreparedVoices(p)' = PreparedVoices(p)
    BY <2>1, CoresFollow, SameSent
  <2> QED BY <2>1, <2>2 DEF Voices, InUse
<1>5. CASE Release(p) \/ Deliver(p) \/ Interrupt(p)
  <2>1. /\ op[p].step # "none" /\ op'[p].step = "none"
        /\ task'[p] = task[p] \/ task'[p].step = "none"
        /\ \/ session'[p] = session[p]
           \/ session'[p] = op[p].session
        /\ \/ SentBy(p)' = SentBy(p)
           \/ op[p].step = "encrypted" /\ SentBy(p)' = SentBy(p) \cup {op[p].message}
    BY <1>5, OperationEnds
  <2>2. WrittenVoices(p)' = {} /\ PreparedVoices(p)' \subseteq PreparedVoices(p)
    BY <2>1, CoresFollow
  <2>3. StoredVoices(p)' = StoredVoices(p) \/ StoredVoices(p)' = WrittenVoices(p)
    BY <2>1, CoresFollow
  <2>4. Said(p) \subseteq Said(p)' /\ Said(p)' \subseteq Said(p) \cup WrittenVoices(p)
    <3>1. CASE SentBy(p)' = SentBy(p)
      BY <3>1, CoresFollow
    <3>2. CASE op[p].step = "encrypted" /\ SentBy(p)' = SentBy(p) \cup {op[p].message}
      <4>1. VoiceIn(op[p].message) \in WrittenVoices(p)
        BY <3>2 DEF Makes
      <4>2. Said(p)' = Said(p) \cup {VoiceIn(op[p].message)}
        BY <3>2 DEF Said
      <4> QED BY <4>1, <4>2
    <3> QED BY <2>1, <3>1, <3>2
  <2> QED BY <2>2, <2>3, <2>4 DEF Voices, InUse
<1>6. CASE \E prefetched \in BOOLEAN : Encrypt(p, prefetched)
  <2>1. PICK prefetched \in BOOLEAN : Encrypt(p, prefetched)
    BY <1>6
  <2>2. session[p] # NoSession
    <3> SUFFICES ASSUME session[p] = NoSession PROVE FALSE
      OBVIOUS
    <3>2. Lapse(p, {"deleted session used"})
      BY <2>1 DEF Encrypt
    <3>3. "deleted session used" \in LapseNames
      BY DEF LapseNames
    <3>4. "deleted session used" \in lapses'[p]
      BY <3>2, <3>3, LapseHas
    <3> QED BY <3>4 DEF Steady, Lapsed
  <2>3. PICK s \in Session(KeysMade) :
         /\ session[p] # NoSession => s = session[p]
         /\ WrittenCores(p)' = CoresOf(Encrypted(s)) /\ WrittenVoices(p)' = VoicesOf(CoresOf(s))
         /\ op'[p].step = "encrypted" /\ VoiceIn(op'[p].message) \in WrittenVoices(p)'
    BY <2>1, EncryptHas
  <2>4. WrittenVoices(p)' = StoredVoices(p)
    BY <2>2, <2>3 DEF StoredVoices, StoredCores
  <2>5. UNCHANGED <<session, sent>> /\ (task' = task \/ task' = [task EXCEPT ![p] = Idle])
    BY <2>1 DEF Encrypt
  <2>6. task'[p] = task[p] \/ task'[p].step = "none"
    <3>1. task' = task \/ task'[p] = Idle
      BY <2>5, FreeIdle
    <3> QED BY <3>1 DEF Idle
  <2>7. PreparedVoices(p)' \subseteq PreparedVoices(p)
    BY <2>6, CoresFollow
  <2>8. Said(p)' = Said(p) /\ StoredVoices(p)' = StoredVoices(p)
    BY <2>5, CoresFollow, SameSent
  <2> QED BY <2>4, <2>7, <2>8 DEF Voices, InUse
<1> QED BY <1>1, <1>2, <1>3, <1>4, <1>5, <1>6

\* Two keys agree on the same, whichever comes first.
LEMMA AgreeEither ==
  ASSUME NEW root, NEW a, NEW b
  PROVE  CalculateRatchet(root, a, b) = CalculateRatchet(root, b, a)
<1>1. {a, b} = {b, a}
  OBVIOUS
<1> QED BY <1>1 DEF CalculateRatchet

\* What a new session says.
LEMMA MadeSpeaks ==
  ASSUME NEW q, NEW id, NEW base, NEW ratchet
  PROVE  LET s == Outgoing(q, id, base, ratchet)
             w == <<ratchet, CalculateRatchet(Secret(base, id), ratchet, SignedPreKey(q))>>
         IN VoicesOf(CoresOf(s)) = {w} /\ SecretIn(w) = <<base, id>> /\ BaseIn(w) = base /\ IdIn(w) = id
<1> DEFINE s == Outgoing(q, id, base, ratchet)
           root == CalculateRatchet(Secret(base, id), ratchet, SignedPreKey(q))
           w == <<ratchet, root>>
<1>1. s.rootKey = root /\ s.sendChain.ratchetKey = ratchet /\ s.prevSessions = <<>>
  BY DEF Outgoing
<1>2. Snapshot(s).rootKey = root /\ Snapshot(s).sendChain = s.sendChain
  BY DEF Outgoing, Snapshot
<1>3. root[1] = <<base, id>>
  BY DEF CalculateRatchet, Secret
<1> HIDE DEF s, root
<1>4. Chains(s) = {0}
  BY <1>1 DEF Chains
<1>5. CoresOf(s) = {Snapshot(s)}
  BY <1>4 DEF CoresOf, Core
<1>6. VoiceOf(Snapshot(s)) = w
  BY <1>1, <1>2 DEF VoiceOf
<1>7. VoicesOf(CoresOf(s)) = {w}
  BY <1>5, <1>6 DEF VoicesOf
<1>8. SecretIn(w) = <<base, id>> /\ BaseIn(w) = base /\ IdIn(w) = id
  BY <1>3 DEF SecretIn, BaseIn, IdIn
<1> QED BY <1>7, <1>8 DEF s, root

\* What p prepares opens a session with its peer q.
LEMMA PreparedHeard ==
  ASSUME RatchetAssumption, SessionsAssumption, NoSessionAssumption, Typed,
         \A r \in Parties : FormedFor(r), NEW p \in Parties, NEW q \in Parties, q = Peer(p),
         NEW step \in {"prepared", "renewing"}, Prepare(p, step), UNCHANGED <<session, op, sent>>,
         NEW left, bundles[q] \subseteq left,
         NEW S, S \subseteq StoredCores(q) \cup WrittenCores(q),
         NEW v \in Voices(p)'
  PROVE  v \in Voices(p) \/ Hearable(S, left, q, v)
<1>1. PICK id \in Nat, base \in KeysMade', ratchet \in KeysMade' :
        /\ base \notin KeysMade /\ ratchet \notin KeysMade /\ base[1] = p /\ ratchet # SignedPreKey(p)
        /\ id \in bundles[q] \/ id = NoKeyId
        /\ id \notin bundles'[q] /\ bundles'[q] \subseteq bundles[q]
        /\ bundles'[p] = bundles[p]
        /\ task'[p] = [step |-> step, session |-> Outgoing(q, id, base, ratchet)]
  BY PrepareMakes
<1> DEFINE s == Outgoing(q, id, base, ratchet)
           root == CalculateRatchet(Secret(base, id), ratchet, SignedPreKey(q))
           w == <<ratchet, root>>
<1>3. /\ VoicesOf(CoresOf(s)) = {w} /\ SecretIn(w) = <<base, id>> /\ BaseIn(w) = base /\ IdIn(w) = id
  BY MadeSpeaks
<1> HIDE DEF s
<1>4. PreparedVoices(p)' = {w}
  <2>1. task'[p].step = step /\ task'[p].session = s
    BY <1>1 DEF s
  <2>2. PreparedCores(p)' = CoresOf(s)
    BY <2>1 DEF PreparedCores
  <2> QED BY <1>3, <2>2 DEF PreparedVoices
<1>5. /\ Said(p)' = Said(p) /\ StoredVoices(p)' = StoredVoices(p) /\ WrittenVoices(p)' = WrittenVoices(p)
  BY CoresFollow, SameSent
<1>6. v \in Voices(p) \/ v = w
  BY <1>4, <1>5 DEF Voices, InUse
<1>7. OpensAs(S, left, q, w)
  <2>1. \A y \in S : y.aliceBaseKey # BaseIn(w)
    BY <1>1, <1>3, KnownCores
  <2>2. IdIn(w) \in left \cup {NoKeyId}
    BY <1>1, <1>3
  <2>3. BaseIn(w)[1] # q
    BY <1>1, <1>3, PeerIs
  <2>4. w[2] = CalculateRatchet(Secret(BaseIn(w), IdIn(w)), SignedPreKey(q), w[1])
    BY <1>3, AgreeEither
  <2> QED BY <2>1, <2>2, <2>3, <2>4 DEF OpensAs
<1> QED BY <1>6, <1>7 DEF Hearable

\* The session of q that sent m is where p heard it: q is one turn behind p.
LEMMA AnsweredBy ==
  ASSUME Typed, NEW p, NEW q \in Parties, FormedFor(q), NEW m \in SentBy(q), Speaks(q), lapses[q] = {},
         NEW S, S \subseteq StoredCores(q) \cup WrittenCores(q),
         \A v \in StoredVoices(q) : \E y \in S : SecretIn(v) = SecretOf(y),
         \A v \in Said(p), y \in S :
           SecretIn(v) = SecretOf(y) /\ SecretOf(y) = SecretIn(VoiceIn(m)) => Len(v[2]) + 1 <= Len(m.chainKey),
         Answers(S, p)
  PROVE  \E y \in S : y.sendChain.ratchetKey = m.ratchetKey /\ y.rootKey = m.chainKey
<1> DEFINE w == VoiceIn(m)
<1>1. w[1] = m.ratchetKey /\ w[2] = m.chainKey
  BY DEF VoiceIn
<1>2. w \in Said(q) /\ w \in Voices(q) /\ VoiceFormed(w)
  <2>1. FormedFor(q)
    OBVIOUS
  <2> QED BY <2>1, VoicesAre
<1> HIDE DEF w
<1>3. PICK v \in StoredVoices(q) : SecretIn(v) = SecretIn(w)
  BY <1>2 DEF Speaks, Opened, Forgetful, Lapsed
<1>4. PICK y \in S : SecretOf(y) = SecretIn(w)
  BY <1>3
<1> DEFINE z == VoiceOf(y)
<1>5. /\ SecretIn(z) = SecretOf(y) /\ z[2] = y.rootKey /\ z[1] = y.sendChain.ratchetKey
      /\ z \in Voices(q) /\ VoiceFormed(z) /\ z \in StoredVoices(q) \cup WrittenVoices(q)
  <2>1. y \in StoredCores(q) \cup WrittenCores(q) \cup PreparedCores(q) /\ FormedFor(q)
    OBVIOUS
  <2>2. /\ SecretIn(z) = SecretOf(y) /\ z[2] = y.rootKey /\ z[1] = y.sendChain.ratchetKey
        /\ z \in Voices(q)
    BY <2>1, VoicesAre
  <2>3. VoiceFormed(z)
    BY <2>1, <2>2, VoicesAre
  <2>4. z \in StoredVoices(q) \cup WrittenVoices(q)
    BY DEF StoredVoices, WrittenVoices, VoicesOf
  <2> QED BY <2>2, <2>3, <2>4
<1> HIDE DEF z
<1>6. Len(w[2]) <= Len(z[2])
  BY <1>2, <1>4, <1>5 DEF Speaks, Furthest
<1>7. Len(z[2]) <= Len(w[2])
  <2>1. Len(z[2]) \in Nat /\ Len(w[2]) \in Nat /\ Len(w[2]) >= 2
    BY <1>2, <1>5 DEF VoiceFormed
  <2>2. CASE Len(y.rootKey) = 2
    BY <1>5, <2>1, <2>2
  <2>3. CASE \E u \in Said(p) : SecretIn(u) = SecretOf(y) /\ Len(u[2]) + 1 = Len(y.rootKey)
    <3>1. PICK u \in Said(p) : SecretIn(u) = SecretOf(y) /\ Len(u[2]) + 1 = Len(y.rootKey)
      BY <2>3
    <3>2. SecretOf(y) = SecretIn(VoiceIn(m))
      BY <1>4 DEF w
    <3>3. Len(u[2]) + 1 <= Len(m.chainKey)
      BY <3>1, <3>2
    <3> QED BY <1>1, <1>5, <3>1, <3>3
  <2> QED BY <2>2, <2>3 DEF Answers
<1>8. z = w
  <2>1. Len(z[2]) \in Nat /\ Len(w[2]) \in Nat
    BY <1>2, <1>5 DEF VoiceFormed
  <2>2. Len(z[2]) = Len(w[2])
    BY <1>6, <1>7, <2>1
  <2> QED BY <1>2, <1>4, <1>5, <2>2 DEF Speaks, Told
<1> QED BY <1>1, <1>5, <1>8

\* What p sends with after it turned the ratchet for m is one turn ahead of the session
\* that m was sent with.
LEMMA TurnedHeard ==
  ASSUME RatchetAssumption, SessionsAssumption, NoSessionAssumption, Typed,
         \A r \in Parties : FormedFor(r), NEW p \in Parties, NEW q \in Parties, p = Peer(q), q = Peer(p),
         NEW m \in sent, Decrypt(p, m), Speaks(p), Speaks(q), lapses[q] = {}, Steady(p)',
         NEW S, S \subseteq StoredCores(q) \cup WrittenCores(q),
         \A v \in StoredVoices(q) : \E y \in S : SecretIn(v) = SecretOf(y), Answers(S, p),
         NEW left, NEW v \in Voices(p)'
  PROVE  v \in Voices(p) \/ Hearable(S, left, q, v)
<1>1. /\ m \in Messages(KeysMade) /\ MessageFormed(m) /\ m \in SentBy(q)
      /\ op[p].step = "none"
      /\ "session reopened" \in lapses'[p] \/ ~MayReopen(p, m)
      /\ \E y \in WrittenCores(p)' : Decodes(p, m, y)
  BY DecryptHas
<1>2. PICK y : y \in WrittenCores(p)' /\ Decodes(p, m, y)
  BY <1>1
<1>3. v \in Voices(p) \/ v = VoiceOf(y)
  <2>1. UNCHANGED <<session, task, sent>>
    BY DEF Decrypt
  <2>2. /\ Said(p)' = Said(p) /\ StoredVoices(p)' = StoredVoices(p) /\ PreparedVoices(p)' = PreparedVoices(p)
    BY <2>1, CoresFollow, SameSent
  <2>3. WrittenVoices(p)' \subseteq StoredVoices(p) \cup {VoiceOf(y)}
    <3>1. \A z \in WrittenCores(p)' : z = y \/ z \in StoredCores(p)
      BY <1>2 DEF Decodes
    <3> QED BY <3>1 DEF WrittenVoices, StoredVoices, VoicesOf
  <2> QED BY <2>2, <2>3 DEF Voices, InUse
<1>4. CASE \E x \in StoredCores(p) : Further(p, m, y, x)
  <2>1. PICK x \in StoredCores(p) : Further(p, m, y, x)
    BY <1>4
  <2>2. VoiceOf(y) = VoiceOf(x)
    BY <2>1 DEF Further, Advances, VoiceOf
  <2>3. VoiceOf(y) \in StoredVoices(p)
    BY <2>2 DEF StoredVoices, VoicesOf
  <2> QED BY <1>3, <2>3 DEF Voices, InUse
<1>5. ASSUME NEW x, Turning(p, m, y, x),
             \A u \in Said(p), z \in S :
               SecretIn(u) = SecretOf(z) /\ SecretOf(z) = SecretIn(VoiceIn(m)) =>
                 Len(u[2]) + 1 <= Len(m.chainKey)
      PROVE  v \in Voices(p) \/ Hearable(S, left, q, v)
  <2>1. PICK z \in S : z.sendChain.ratchetKey = m.ratchetKey /\ z.rootKey = m.chainKey
    <3>1. \A a \in Said(p), b \in S :
            SecretIn(a) = SecretOf(b) /\ SecretOf(b) = SecretIn(VoiceIn(m)) => Len(a[2]) + 1 <= Len(m.chainKey)
      BY <1>5
    <3>2. m \in SentBy(q)
      BY <1>1
    <3>3. FormedFor(q)
      OBVIOUS
    <3> QED BY <3>1, <3>2, <3>3, AnsweredBy
  <2>2. /\ y.rootKey = CalculateRatchet(m.chainKey, NewKey(p, 1), m.ratchetKey)
        /\ y.sendChain.ratchetKey = NewKey(p, 1)
    BY <1>5 DEF Turning, Turned
  <2> DEFINE w == VoiceOf(y)
  <2>3. w[1] = NewKey(p, 1) /\ w[2] = CalculateRatchet(m.chainKey, NewKey(p, 1), m.ratchetKey)
    BY <2>2 DEF VoiceOf
  <2>4. w[2] = CalculateRatchet(z.rootKey, z.sendChain.ratchetKey, w[1])
    BY <2>1, <2>3, AgreeEither
  <2> HIDE DEF w
  <2>5. TurnsTo(S, w)
    BY <2>4 DEF TurnsTo
  <2> QED BY <1>3, <2>5 DEF Hearable, w
<1>6. m.chainKey \in ChainKeys(KeysMade) /\ SecretIn(VoiceIn(m)) = m.chainKey[1]
  <2>1. m.chainKey \in ChainKeys(KeysMade)
    BY <1>1 DEF Messages
  <2> QED BY <2>1 DEF SecretIn, VoiceIn
<1>7. CASE \E x \in StoredCores(p) : Turning(p, m, y, x)
  <2>1. PICK x \in StoredCores(p) : Turning(p, m, y, x)
    BY <1>7
  <2>2. m.chainKey = CalculateRatchet(x.rootKey, x.sendChain.ratchetKey, m.ratchetKey)
    BY <2>1 DEF Turning, Turned
  <2>3. /\ SecretIn(VoiceOf(x)) = SecretOf(x) /\ VoiceOf(x)[2] = x.rootKey /\ VoiceOf(x) \in Voices(p)
        /\ VoiceOf(x) \in StoredVoices(p) /\ x.rootKey \in ChainKeys(KeysMade)
        /\ x.rootKey[1] = SecretOf(x)
    <3>1. FormedFor(p)
      OBVIOUS
    <3>2. Formed(x, p) /\ x.rootKey \in ChainKeys(KeysMade)
      BY <3>1, KnownCores
    <3>3. SecretIn(VoiceOf(x)) = SecretOf(x) /\ VoiceOf(x)[2] = x.rootKey /\ VoiceOf(x) \in Voices(p)
      BY <3>1, VoicesAre
    <3>4. VoiceOf(x) \in StoredVoices(p)
      BY DEF StoredVoices, VoicesOf
    <3> QED BY <3>2, <3>3, <3>4 DEF Formed
  <2>4. /\ Len(m.chainKey) = Len(x.rootKey) + 1 /\ m.chainKey[1] = x.rootKey[1] /\ Len(x.rootKey) \in Nat
    BY <2>2, <2>3, AgreementIs
  <2>5. ASSUME NEW u \in Said(p), NEW z \in S,
               SecretIn(u) = SecretOf(z) /\ SecretOf(z) = SecretIn(VoiceIn(m))
        PROVE  Len(u[2]) + 1 <= Len(m.chainKey)
    <3>1. SecretIn(u) = SecretIn(VoiceOf(x))
      BY <1>6, <2>3, <2>4, <2>5
    <3>2. Len(u[2]) <= Len(VoiceOf(x)[2])
      BY <2>3, <3>1 DEF Speaks, Furthest
    <3>3. Len(u[2]) \in Nat
      <4>1. u \in Voices(p) /\ FormedFor(p)
        BY DEF Voices, InUse
      <4>2. VoiceFormed(u)
        BY <4>1, VoicesAre
      <4> QED BY <4>2 DEF VoiceFormed
    <3> QED BY <2>3, <2>4, <3>2, <3>3
  <2> QED BY <1>5, <2>1, <2>5
<1>8. CASE Opens(p, m) /\ Turning(p, m, y, Incoming(p, m))
  <2>1. /\ \A z \in StoredCores(p) : z.aliceBaseKey # m.baseKey
        /\ m.oneTimeId \in preKeys[p] \/ m.oneTimeId = NoKeyId
    BY <1>2, <1>8 DEF Decodes
  <2>2. /\ SecretIn(VoiceIn(m)) = <<m.baseKey, m.oneTimeId>> /\ m.baseKey[1] = q
    <3>1. m.type = "pkmsg"
      BY <1>8 DEF Opens
    <3> QED BY <1>1, <1>6, <3>1 DEF MessageFormed, SentBy
  <2>3. ASSUME NEW u \in Said(p), SecretIn(u) = SecretIn(VoiceIn(m)) PROVE FALSE
    <3>1. BaseIn(u) = m.baseKey /\ IdIn(u) = m.oneTimeId
      BY <2>2, <2>3 DEF BaseIn, IdIn
    <3>2. BaseIn(u)[1] # p
      BY <2>2, <3>1, PeerIs
    <3>3. m.oneTimeId \notin preKeys[p]
      BY <3>1, <3>2 DEF Speaks, Opened
    <3>4. m.oneTimeId = NoKeyId
      BY <2>1, <3>3
    <3>5. ~Forgetful(p)
      <4>1. ~MayReopen(p, m)
        BY <1>1 DEF Steady, Lapsed
      <4> QED BY <1>8, <3>4, <4>1 DEF MayReopen, Forgetful, Lapsed
    <3>6. PICK w \in StoredVoices(p) : SecretIn(w) = SecretIn(u)
      BY <3>5 DEF Speaks, Opened
    <3>7. PICK x \in StoredCores(p) : w = VoiceOf(x)
      BY DEF StoredVoices, VoicesOf
    <3>8. BaseIn(w) = x.aliceBaseKey
      <4>1. FormedFor(p)
        OBVIOUS
      <4> QED BY <3>7, <4>1, VoicesAre
    <3>9. BaseIn(w) = BaseIn(u)
      BY <3>6 DEF BaseIn
    <3> QED BY <2>1, <3>1, <3>8, <3>9
  <2>4. Turning(p, m, y, Incoming(p, m))
    BY <1>8
  <2> QED BY <1>5, <2>3, <2>4
<1>9. \/ \E x \in StoredCores(p) : Further(p, m, y, x)
      \/ \E x \in StoredCores(p) : Turning(p, m, y, x)
      \/ Opens(p, m) /\ Turning(p, m, y, Incoming(p, m))
  BY <1>2 DEF Decodes
<1> QED BY <1>4, <1>7, <1>8, <1>9

\* A party still hears its peer after a step of that.
LEMMA OthersHeard ==
  ASSUME RatchetAssumption, SessionsAssumption, NoSessionAssumption, Typed,
         \A r \in Parties : FormedFor(r), NEW p \in Parties, NEW q \in Parties, p = Peer(q), q = Peer(p),
         Moves(p), Makes(p), SpeaksOrLapsed(p), SpeaksOrLapsed(q), HearsPeerOrLapsed(q)
  PROVE  HearsPeerOrLapsed(q)'
<1> SUFFICES ASSUME lapses'[q] = {}, Steady(p)' PROVE HearsPeer(q)'
  BY DEF HearsPeerOrLapsed
<1>1. /\ session'[q] = session[q] /\ op'[q] = op[q] /\ preKeys'[q] = preKeys[q] /\ got'[q] = got[q]
      /\ lapses'[q] = lapses[q] /\ lapses[p] \subseteq lapses'[p]
  <2>1. q \in Parties \ {p}
    BY PeerIs
  <2> QED BY <2>1, MoveLeaves DEF LeavesOthers
<1>2. lapses[q] = {} /\ Steady(p) /\ Steady(q)
  BY <1>1 DEF Steady, Lapsed
<1>3. HearsPeer(q) /\ Speaks(p) /\ Speaks(q)
  BY <1>2 DEF HearsPeerOrLapsed, SpeaksOrLapsed
<1>4. StoredCores(q)' = StoredCores(q) /\ WrittenCores(q)' = WrittenCores(q)
  BY <1>1, CoresFollow
<1>5. bundles'[q] \subseteq bundles[q]
  BY MoveBundles
<1>6. ASSUME Said(p) \subseteq Said(p)',
             \A S, left, v :
               /\ S \subseteq StoredCores(q) \cup WrittenCores(q)
               /\ \A u \in StoredVoices(q) : \E y \in S : SecretIn(u) = SecretOf(y)
               /\ Answers(S, p) /\ bundles[q] \subseteq left /\ v \in Voices(p)'
               => v \in Voices(p) \/ Hearable(S, left, q, v)
      PROVE  HearsPeer(q)'
  <2>1. ASSUME op[q].step # "decrypted", NEW v \in Voices(p)'
        PROVE  v \in Voices(p) \/ Hearable(StoredCores(q), preKeys[q], q, v)
    <3>1. Answers(StoredCores(q), p) /\ bundles[q] \subseteq preKeys[q]
      BY <1>3, <2>1 DEF HearsPeer, Listens
    <3>2. \A u \in StoredVoices(q) : \E y \in StoredCores(q) : SecretIn(u) = SecretOf(y)
      <4>1. FormedFor(q)
        OBVIOUS
      <4> QED BY <4>1, VoicesAre DEF StoredVoices, VoicesOf
    <3> QED BY <1>6, <2>1, <3>1, <3>2
  <2>2. ASSUME op[q].step # "none", NEW v \in Voices(p)'
        PROVE  v \in Voices(p) \/ Hearable(WrittenCores(q), Left(q), q, v)
    <3>1. Answers(WrittenCores(q), p) /\ bundles[q] \subseteq Left(q)
      BY <1>3, <2>2 DEF HearsPeer, Listens
    <3>2. \A u \in StoredVoices(q) : \E y \in WrittenCores(q) : SecretIn(u) = SecretOf(y)
      <4>1. \A u \in StoredVoices(q) : \E w \in WrittenVoices(q) : SecretIn(u) = SecretIn(w)
        BY <1>2, <1>3, <2>2 DEF Speaks, SecretsKept, Forgetful, Lapsed
      <4>2. FormedFor(q)
        OBVIOUS
      <4>3. \A w \in WrittenVoices(q) : \E y \in WrittenCores(q) : SecretIn(w) = SecretOf(y)
        BY <4>2, VoicesAre DEF WrittenVoices, VoicesOf
      <4> QED BY <4>1, <4>3
    <3> QED BY <1>6, <2>2, <3>1, <3>2
  <2> QED BY <1>1, <1>3, <1>4, <1>5, <1>6, <2>1, <2>2, HearsOthers
<1>7. CASE \/ Resolve(p) /\ session[p] # NoSession
           \/ Persist(p) \/ Reestablish(p) \/ Delete(p) \/ Consume(p)
           \/ Release(p) \/ Deliver(p) \/ Interrupt(p)
           \/ \E prefetched \in BOOLEAN : Encrypt(p, prefetched)
  <2>1. FormedFor(p)
    OBVIOUS
  <2>2. Voices(p)' \subseteq Voices(p) /\ Said(p) \subseteq Said(p)'
    BY <1>7, <2>1, MoveVoices
  <2> QED BY <1>6, <2>2
<1>8. CASE \E step \in {"prepared", "renewing"} : Prepare(p, step) /\ UNCHANGED <<session, op, sent>>
  <2>1. PICK step \in {"prepared", "renewing"} : Prepare(p, step) /\ UNCHANGED <<session, op, sent>>
    BY <1>8
  <2>2. Said(p)' = Said(p)
    BY <2>1, CoresFollow, SameSent
  <2>3. ASSUME NEW S, NEW left, NEW v,
               S \subseteq StoredCores(q) \cup WrittenCores(q), bundles[q] \subseteq left, v \in Voices(p)'
        PROVE  v \in Voices(p) \/ Hearable(S, left, q, v)
    BY <2>1, <2>3, PreparedHeard
  <2> QED BY <1>6, <2>2, <2>3
<1>9. CASE \E m \in sent : Decrypt(p, m)
  <2>1. PICK m \in sent : Decrypt(p, m)
    BY <1>9
  <2>2. Said(p)' = Said(p)
    BY <2>1, CoresFollow, SameSent DEF Decrypt
  <2>3. ASSUME NEW S, NEW left, NEW v,
               S \subseteq StoredCores(q) \cup WrittenCores(q),
               \A u \in StoredVoices(q) : \E y \in S : SecretIn(u) = SecretOf(y), Answers(S, p),
               v \in Voices(p)'
        PROVE  v \in Voices(p) \/ Hearable(S, left, q, v)
    BY <1>2, <1>3, <2>1, <2>3, TurnedHeard
  <2> QED BY <1>6, <2>2, <2>3
<1>10. \/ \/ Resolve(p) /\ session[p] # NoSession
          \/ Persist(p) \/ Reestablish(p) \/ Delete(p) \/ Consume(p)
          \/ Release(p) \/ Deliver(p) \/ Interrupt(p)
          \/ \E prefetched \in BOOLEAN : Encrypt(p, prefetched)
       \/ \E step \in {"prepared", "renewing"} : Prepare(p, step) /\ UNCHANGED <<session, op, sent>>
       \/ \E m \in sent : Decrypt(p, m)
  BY DEF Moves, Resolve, Refetch
<1> QED BY <1>7, <1>8, <1>9, <1>10

\* Parties that can send and hear, and what a step leaves of it.
Ready(p) == Makes(p) /\ SpeaksOrLapsed(p) /\ HearsPeerOrLapsed(p)

\* Each step of a party leaves both of them ready.
LEMMA MoveReady ==
  ASSUME RatchetAssumption, SessionsAssumption, NoSessionAssumption, Typed,
         \A r \in Parties : FormedFor(r) /\ HearsOrLapsed(r) /\ Ready(r),
         NEW p \in Parties, Moves(p)
  PROVE  \A r \in Parties : Ready(r)'
<1> DEFINE q == Peer(p)
<1>1. q \in Parties /\ q # p /\ Peer(q) = p /\ \A r \in Parties : r = p \/ r = q
  BY PeerIs
<1>2. \A r \in Parties : FormedFor(r) /\ HearsOrLapsed(r) /\ Makes(r) /\ SpeaksOrLapsed(r) /\ HearsPeerOrLapsed(r)
  BY DEF Ready
<1>3. Makes(p)'
  BY <1>2, MoveMakes
<1>4. SpeaksOrLapsed(p)'
  BY <1>2, MoveSpeaks
<1>5. HearsPeerOrLapsed(p)'
  BY <1>1, <1>2, MoverHears
<1>6. HearsPeerOrLapsed(q)'
  <2>1. \A r \in Parties : FormedFor(r)
    BY <1>2
  <2>2. p = Peer(q) /\ q = Peer(p)
    BY <1>1
  <2> HIDE DEF q
  <2>3. Makes(p) /\ SpeaksOrLapsed(p) /\ SpeaksOrLapsed(q) /\ HearsPeerOrLapsed(q) /\ q \in Parties
    BY <1>1, <1>2
  <2> QED BY <2>1, <2>2, <2>3, OthersHeard
<1>7. /\ session'[q] = session[q] /\ task'[q] = task[q] /\ op'[q] = op[q] /\ SentBy(q)' = SentBy(q)
      /\ lapses'[q] = lapses[q] /\ preKeys'[q] = preKeys[q]
  BY <1>1, MoveLeaves DEF LeavesOthers
<1>8. /\ Said(q)' = Said(q) /\ StoredVoices(q)' = StoredVoices(q)
      /\ WrittenVoices(q)' = WrittenVoices(q) /\ PreparedVoices(q)' = PreparedVoices(q)
      /\ bundles'[p] = bundles[p]
  BY OthersVoices
<1> HIDE DEF q
<1>9. Makes(q)'
  <2>1. Makes(q)
    BY <1>1, <1>2
  <2> QED BY <1>7, <1>8, <2>1 DEF Makes
<1>10. SpeaksOrLapsed(q)'
  <2> SUFFICES ASSUME Steady(q)' PROVE Speaks(q)'
    BY DEF SpeaksOrLapsed
  <2>1. Speaks(q)
    BY <1>1, <1>2, <1>7 DEF SpeaksOrLapsed, Steady, Lapsed
  <2> QED BY <1>1, <1>7, <1>8, <2>1, SameVoices
<1> QED BY <1>1, <1>3, <1>4, <1>5, <1>6, <1>9, <1>10 DEF Ready

\* Each step leaves the parties ready, ...
LEMMA StepReady ==
  ASSUME RatchetAssumption, SessionsAssumption, NoSessionAssumption, Typed,
         \A r \in Parties : FormedFor(r) /\ HearsOrLapsed(r) /\ Ready(r), [Next]_vars
  PROVE  \A r \in Parties : Ready(r)'
<1>1. CASE Next
  <2>1. PICK p \in Parties : Moves(p)
    BY <1>1 DEF Next, Moves
  <2> QED BY <2>1, MoveReady
<1>2. CASE UNCHANGED vars
  <2> USE <1>2 DEF vars
  <2>1. \A r : /\ StoredCores(r)' = StoredCores(r) /\ WrittenCores(r)' = WrittenCores(r)
               /\ PreparedCores(r)' = PreparedCores(r) /\ Said(r)' = Said(r)
               /\ Left(r)' = Left(r) /\ HeardBy(r)' = HeardBy(r) /\ SentBy(r)' = SentBy(r)
    BY DEF StoredCores, WrittenCores, PreparedCores, Said, SentBy, Left, HeardBy, Deciphering
  <2>2. \A r : /\ StoredVoices(r)' = StoredVoices(r) /\ WrittenVoices(r)' = WrittenVoices(r)
               /\ PreparedVoices(r)' = PreparedVoices(r)
    BY <2>1 DEF StoredVoices, WrittenVoices, PreparedVoices
  <2>3. \A r : Voices(r)' = Voices(r) /\ InUse(r)' = InUse(r)
    BY <2>1, <2>2 DEF Voices, InUse
  <2> SUFFICES ASSUME NEW r \in Parties PROVE Ready(r)'
    OBVIOUS
  <2>4. Makes(r)'
    BY <2>2 DEF Ready, Makes
  <2>5. SpeaksOrLapsed(r)'
    <3>1. SpeaksOrLapsed(r)
      BY DEF Ready
    <3>2. Speaks(r) => Speaks(r)'
      <4> SUFFICES ASSUME Speaks(r) PROVE Speaks(r)'
        OBVIOUS
      <4>1. /\ op'[r].step # "none" => op[r].step # "none"
            /\ preKeys'[r] \subseteq preKeys[r] /\ bundles'[Peer(r)] \subseteq bundles[Peer(r)]
            /\ lapses[r] \subseteq lapses'[r]
        OBVIOUS
      <4>2. /\ Said(r)' = Said(r) /\ StoredVoices(r)' = StoredVoices(r)
            /\ WrittenVoices(r)' = WrittenVoices(r) /\ PreparedVoices(r)' \subseteq PreparedVoices(r)
        BY <2>1, <2>2
      <4> HIDE <1>2
      <4> QED BY <4>1, <4>2, SameVoices
    <3> QED BY <3>1, <3>2 DEF SpeaksOrLapsed, Steady, Lapsed
  <2>6. HearsPeerOrLapsed(r)'
    <3>1. HearsPeerOrLapsed(r)
      BY DEF Ready
    <3>2. HearsPeer(r) => HearsPeer(r)'
      <4> SUFFICES ASSUME HearsPeer(r) PROVE HearsPeer(r)'
        OBVIOUS
      <4>1. /\ Said(Peer(r))' = Said(Peer(r)) /\ Voices(Peer(r))' = Voices(Peer(r)) /\ bundles'[r] = bundles[r]
        BY <2>1, <2>3
      <4>2. op'[r].step # "decrypted" => Listens(StoredCores(r)', preKeys'[r], got'[r], r)
        BY <2>1 DEF HearsPeer
      <4>3. op'[r].step # "none" => Listens(WrittenCores(r)', Left(r)', HeardBy(r)', r)
        BY <2>1 DEF HearsPeer
      <4> HIDE <1>2
      <4> QED BY <4>1, <4>2, <4>3, HearsAfter
    <3> QED BY <3>1, <3>2 DEF HearsPeerOrLapsed, Steady, Lapsed
  <2> QED BY <2>4, <2>5, <2>6 DEF Ready
<1> QED BY <1>1, <1>2

\* ... and so they start.
LEMMA InitReady ==
  ASSUME SessionsAssumption, Init
  PROVE  \A r \in Parties : Ready(r)
<1> SUFFICES ASSUME NEW r \in Parties PROVE Ready(r)
  OBVIOUS
<1>1. \A p \in Parties : /\ StoredCores(p) = {} /\ WrittenCores(p) = {} /\ PreparedCores(p) = {}
                         /\ SentBy(p) = {} /\ op[p].step = "none" /\ task[p].step = "none"
                         /\ bundles[p] = OneTimeKeys /\ preKeys[p] = OneTimeKeys
  BY DEF Init, StoredCores, WrittenCores, PreparedCores, SentBy, Idle, Free
<1>2. \A p \in Parties : /\ Voices(p) = {} /\ InUse(p) = {} /\ Said(p) = {} /\ StoredVoices(p) = {}
                         /\ WrittenVoices(p) = {} /\ PreparedVoices(p) = {}
  BY <1>1 DEF Voices, InUse, Said, StoredVoices, WrittenVoices, PreparedVoices, VoicesOf
<1>3. Peer(r) \in Parties
  BY PeerIs
<1>4. Makes(r)
  BY <1>1 DEF Makes
<1>5. Speaks(r)
  BY <1>1, <1>2 DEF Speaks, Told, OwnKeys, Furthest, Opened, SecretsKept, TaskFresh
<1>6. HearsPeer(r)
  BY <1>1, <1>2, <1>3 DEF HearsPeer, Listens, Received, Answers
<1> QED BY <1>4, <1>5, <1>6 DEF Ready, SpeaksOrLapsed, HearsPeerOrLapsed

-----------------------------------------------------------------------------
(* What was sent and not heard can be decrypted.                           *)

\* Too many messages of its chain are missing before m.
Beyond(s, m) == m.counter > ChainFor(s, m).nextMsgIndex + FutureMessagesMax

\* Whether a session decrypts a message depends on its ratchet alone.
LEMMA SameChain ==
  ASSUME NEW t, NEW x, NEW m,
         t.recvChains = x.recvChains, t.rootKey = x.rootKey, t.sendChain = x.sendChain
  PROVE  ChainFor(t, m) = ChainFor(x, m) /\ (Decrypts(t, m) <=> Decrypts(x, m))
<1>1. KnownChains(t, m) = KnownChains(x, m)
  BY DEF KnownChains
<1>2. ChainFor(t, m) = ChainFor(x, m)
  BY <1>1 DEF ChainFor
<1> QED BY <1>2 DEF Decrypts

\* The record decrypts what one of its sessions decrypts, ...
LEMMA MsgFound ==
  ASSUME RatchetAssumption, NEW K, NEW s \in Session(K), NEW m, NEW y \in CoresOf(s), Decrypts(y, m)
  PROVE  Decrypts(SessionForMsg(s, m), m)
<1>1. PICK i \in Chains(s) : y = Core(s, i)
  BY DEF CoresOf
<1>2. CASE Decrypts(s, m)
  BY <1>2 DEF SessionForMsg
<1>3. CASE ~Decrypts(s, m)
  <2>1. Decrypts(Core(s, 0), m) <=> Decrypts(s, m)
    BY FrontIs, SameChain
  <2>2. i # 0
    BY <1>1, <1>3, <2>1
  <2>3. i \in 1..Len(s.prevSessions) /\ y = s.prevSessions[i]
    <3>1. i \in 1..Len(s.prevSessions)
      BY <2>2, RecordIs DEF Chains
    <3> QED BY <1>1, <3>1, CoreIs
  <2>4. DOMAIN s.prevSessions = 1..Len(s.prevSessions)
    BY RecordIs, LenProperties
  <2>5. i \in Fallbacks(s, m) /\ Fallbacks(s, m) \in SUBSET Nat
    BY <2>3, <2>4 DEF Fallbacks
  <2>6. PICK j : j = FirstIn(Fallbacks(s, m))
    OBVIOUS
  <2>7. j \in Fallbacks(s, m)
    BY <2>5, <2>6, LeastIs
  <2>8. j \in 1..Len(s.prevSessions) /\ Decrypts(s.prevSessions[j], m)
    BY <2>4, <2>7 DEF Fallbacks
  <2>9. SessionForMsg(s, m) = Promoted(s, j)
    BY <1>3, <2>5, <2>6 DEF SessionForMsg
  <2>10. Promoted(s, j) \in Session(K) /\ Core(Promoted(s, j), 0) = s.prevSessions[j]
    BY <2>8, PromotedIs
  <2>11. Decrypts(Core(Promoted(s, j), 0), m) <=> Decrypts(Promoted(s, j), m)
    <3>1. PICK t : t = Promoted(s, j)
      OBVIOUS
    <3>2. t \in Session(K)
      BY <2>10, <3>1
    <3>3. Decrypts(Core(t, 0), m) <=> Decrypts(t, m)
      BY <3>2, FrontIs, SameChain
    <3> QED BY <3>1, <3>3
  <2> QED BY <2>8, <2>9, <2>10, <2>11
<1> QED BY <1>2, <1>3

\* ... and finds the session with the base key of a first message.
LEMMA MatchFound ==
  ASSUME RatchetAssumption, NEW K, NEW s \in Session(K), NEW m, NEW y \in CoresOf(s),
         y.aliceBaseKey = m.baseKey, \A x \in CoresOf(s) : x.aliceBaseKey = y.aliceBaseKey => x = y
  PROVE  /\ HasMatch(s, m) /\ ChainFor(FindMatchingSession(s, m), m) = ChainFor(y, m)
         /\ Decrypts(FindMatchingSession(s, m), m) <=> Decrypts(y, m)
<1>1. PICK i \in Chains(s) : y = Core(s, i)
  BY DEF CoresOf
<1>2. CASE s.aliceBaseKey = m.baseKey
  <2>1. 0 \in Chains(s) /\ Core(s, 0).aliceBaseKey = m.baseKey
    BY <1>2, FrontIs, CoreIs
  <2>2. y = Core(s, 0)
    BY <2>1 DEF CoresOf
  <2>3. ChainFor(s, m) = ChainFor(y, m) /\ (Decrypts(s, m) <=> Decrypts(y, m))
    <3>1. /\ y.recvChains = s.recvChains /\ y.rootKey = s.rootKey /\ y.sendChain = s.sendChain
      BY <2>2, FrontIs
    <3> QED BY <3>1, SameChain
  <2> QED BY <1>2, <2>3 DEF HasMatch, FindMatchingSession
<1>3. CASE s.aliceBaseKey # m.baseKey
  <2>1. Core(s, 0).aliceBaseKey # m.baseKey
    BY <1>3, FrontIs
  <2>2. i \in 1..Len(s.prevSessions) /\ y = s.prevSessions[i]
    <3>1. i \in 1..Len(s.prevSessions)
      BY <1>1, <2>1, RecordIs DEF Chains
    <3> QED BY <1>1, <3>1, CoreIs
  <2>3. DOMAIN s.prevSessions = 1..Len(s.prevSessions)
    BY RecordIs, LenProperties
  <2>4. i \in Matches(s, m) /\ Matches(s, m) \in SUBSET Nat
    BY <2>2, <2>3 DEF Matches
  <2>5. PICK j : j = FirstIn(Matches(s, m))
    OBVIOUS
  <2>6. j \in Matches(s, m)
    BY <2>4, <2>5, LeastIs
  <2>7. j \in 1..Len(s.prevSessions) /\ s.prevSessions[j].aliceBaseKey = m.baseKey
    BY <2>3, <2>6 DEF Matches
  <2>8. s.prevSessions[j] = y
    <3>1. j \in Chains(s) /\ Core(s, j) = s.prevSessions[j]
      BY <2>7, CoreIs
    <3> QED BY <2>7, <3>1 DEF CoresOf
  <2>9. PICK t : t = Promoted(s, j)
    OBVIOUS
  <2>10. FindMatchingSession(s, m) = t /\ HasMatch(s, m)
    BY <1>3, <2>4, <2>5, <2>9 DEF FindMatchingSession, HasMatch
  <2>11. t \in Session(K) /\ Core(t, 0) = y
    BY <2>7, <2>8, <2>9, PromotedIs
  <2>12. y.recvChains = t.recvChains /\ y.rootKey = t.rootKey /\ y.sendChain = t.sendChain
    BY <2>11, FrontIs
  <2>13. ChainFor(t, m) = ChainFor(y, m) /\ (Decrypts(t, m) <=> Decrypts(y, m))
    BY <2>12, SameChain
  <2> QED BY <2>10, <2>13
<1> QED BY <1>2, <1>3

\* A record without a session of that base key does not claim to have one.
LEMMA NoMatch ==
  ASSUME NEW K, NEW s \in Session(K), NEW m, \A y \in CoresOf(s) : y.aliceBaseKey # m.baseKey
  PROVE  ~HasMatch(s, m)
<1>1. s.aliceBaseKey # m.baseKey
  <2>1. 0 \in Chains(s) /\ Core(s, 0).aliceBaseKey = s.aliceBaseKey
    BY FrontIs, CoreIs
  <2> QED BY <2>1 DEF CoresOf
<1>2. ASSUME NEW i \in Matches(s, m) PROVE FALSE
  <2>1. DOMAIN s.prevSessions = 1..Len(s.prevSessions)
    BY RecordIs, LenProperties
  <2>2. i \in 1..Len(s.prevSessions) /\ s.prevSessions[i].aliceBaseKey = m.baseKey
    BY <1>2, <2>1 DEF Matches
  <2>3. i \in Chains(s) /\ Core(s, i) = s.prevSessions[i]
    BY <2>2, CoreIs
  <2> QED BY <2>2, <2>3 DEF CoresOf
<1> QED BY <1>1, <1>2 DEF HasMatch

\* A receiving chain has each key that was not used, or is too far behind it.
LEMMA UnusedIs ==
  ASSUME RatchetAssumption, NEW K, NEW c \in RecvChain(K), NEW n \in Nat, ~Used(c, n)
  PROVE  Selectable(c, n) \/ n > c.nextMsgIndex + FutureMessagesMax
<1>1. c.nextMsgIndex \in Nat /\ FutureMessagesMax \in Nat
  BY DEF RecvChain, RatchetAssumption
<1> QED BY <1>1 DEF Used, Selectable

\* A session that knows the chain of a message it did not hear, or can turn to it, decrypts
\* it, unless it is too far.
LEMMA Reads ==
  ASSUME RatchetAssumption, NEW K, NEW S \in SUBSET PrevSession(K), NEW m \in Messages(K),
         NEW heard, NEW q, Received(S, heard, q), m.ratchetKey # SignedPreKey(q),
         \A v \in Said(q) : v[1] = m.ratchetKey => v[2] = m.chainKey,
         \A h \in heard : ~(h.chainKey = m.chainKey /\ h.counter = m.counter), NEW y \in S
  PROVE  /\ KnownChains(y, m) # {} => Decrypts(y, m) \/ Beyond(y, m)
         /\ m.chainKey = CalculateRatchet(y.rootKey, y.sendChain.ratchetKey, m.ratchetKey) =>
              Decrypts(y, m) \/ Beyond(y, m)
         /\ KnownChains(y, m) = {} => ChainFor(y, m).nextMsgIndex = 0
         /\ ChainFor(y, m).nextMsgIndex \in Nat
<1> DEFINE c == ChainFor(y, m)
<1>1. y \in Session(K)
  <2>1. MaxPrevSessions \in Nat
    BY DEF RatchetAssumption
  <2>2. <<>> \in SeqUpTo(PrevSession(K), MaxPrevSessions)
    BY <2>1 DEF SeqUpTo
  <2>3. y \in PrevSession(K)
    OBVIOUS
  <2> QED BY <2>2, <2>3 DEF PrevSession, Session, Record
<1>2. c \in RecvChain(K)
  BY <1>1, ChainForIs
<1>3. m.counter \in Nat
  BY DEF Messages
<1>4. ASSUME KnownChains(y, m) # {}
      PROVE  Decrypts(y, m) \/ Beyond(y, m)
  <2>1. PICK a : a = FirstIn(KnownChains(y, m))
    OBVIOUS
  <2>2. a \in 1..Len(y.recvChains)
    BY <1>1, <1>4, <2>1, KnownChainIs
  <2>3. c = y.recvChains[a]
    BY <1>4, <2>1 DEF ChainFor
  <2>4. c.ratchetKey = m.ratchetKey
    <3>1. KnownChains(y, m) \in SUBSET Nat
      <4>1. DOMAIN y.recvChains = 1..Len(y.recvChains) /\ Len(y.recvChains) \in Nat
        BY <1>1, RecordIs, LenProperties
      <4> QED BY <4>1 DEF KnownChains
    <3>2. a \in KnownChains(y, m)
      BY <1>4, <2>1, <3>1, LeastIs
    <3> QED BY <2>3, <3>2 DEF KnownChains
  <2>5. /\ <<c.ratchetKey, c.chainKey>> \in Said(q) \/ c.ratchetKey = SignedPreKey(q)
        /\ \A n \in Nat : Used(c, n) => \E h \in heard : h.chainKey = c.chainKey /\ h.counter = n
    BY <2>2, <2>3 DEF Received
  <2>6. c.chainKey = m.chainKey
    BY <2>4, <2>5
  <2>7. ~Used(c, m.counter)
    BY <1>3, <2>5, <2>6
  <2>8. Selectable(c, m.counter) \/ m.counter > c.nextMsgIndex + FutureMessagesMax
    BY <1>2, <1>3, <2>7, UnusedIs
  <2> QED BY <2>6, <2>8 DEF Decrypts, Beyond
<1>5. ASSUME KnownChains(y, m) = {}
      PROVE  /\ c.nextMsgIndex = 0
             /\ m.chainKey = CalculateRatchet(y.rootKey, y.sendChain.ratchetKey, m.ratchetKey) =>
                  Decrypts(y, m) \/ Beyond(y, m)
  <2>1. c = FreshChain(m.ratchetKey, CalculateRatchet(y.rootKey, y.sendChain.ratchetKey, m.ratchetKey))
    BY <1>5 DEF ChainFor
  <2>2. /\ c.nextMsgIndex = 0
        /\ c.chainKey = CalculateRatchet(y.rootKey, y.sendChain.ratchetKey, m.ratchetKey)
    BY <2>1 DEF FreshChain
  <2>3. ~Used(c, m.counter)
    BY <1>3, <2>2 DEF Used
  <2>4. Selectable(c, m.counter) \/ m.counter > c.nextMsgIndex + FutureMessagesMax
    BY <1>2, <1>3, <2>3, UnusedIs
  <2> QED BY <2>2, <2>4 DEF Decrypts, Beyond
<1>6. c.nextMsgIndex \in Nat
  BY <1>2 DEF RecvChain
<1> QED BY <1>4, <1>5, <1>6

\* A message that p did not hear, and what its peer said with it, when nothing lapsed.
Waiting(p, m) ==
  /\ m \in Messages(KeysMade) /\ MessageFormed(m) /\ m.from = Peer(p)
  /\ Hearable(StoredCores(p), preKeys[p], p, VoiceIn(m))
  /\ Received(StoredCores(p), got[p], Peer(p)) /\ m.ratchetKey # SignedPreKey(Peer(p))
  /\ \A v \in Said(Peer(p)) : v[1] = m.ratchetKey => v[2] = m.chainKey
  /\ \A h \in got[p] : ~(h.chainKey = m.chainKey /\ h.counter = m.counter)

\* Such a message is one that was sent and not returned.
LEMMA WaitingIs ==
  ASSUME SessionsAssumption, Typed, NEW p \in Parties, NEW m \in sent, m.from = Peer(p),
         m \notin got[p], op[p].step = "none", FormedFor(Peer(p)),
         Speaks(Peer(p)), Sound(Peer(p)), HearsPeer(p)
  PROVE  Waiting(p, m)
<1> DEFINE q == Peer(p)
<1>1. q \in Parties
  BY PeerIs
<1>2. m \in SentBy(q) /\ got[p] \subseteq SentBy(q)
  BY DEF SentBy, Typed, Heard
<1>3. m \in Messages(KeysMade)
  BY DEF Typed, TypedOver
<1>4. MessageFormed(m)
  BY <1>2 DEF FormedFor
<1>5. Listens(StoredCores(p), preKeys[p], got[p], p)
  BY DEF HearsPeer
<1>6. VoiceIn(m) \in Said(q) /\ VoiceIn(m) \in Voices(q)
  BY <1>1, <1>2, VoicesAre
<1>7. VoiceIn(m)[1] = m.ratchetKey /\ VoiceIn(m)[2] = m.chainKey
  BY DEF VoiceIn
<1>8. Hearable(StoredCores(p), preKeys[p], p, VoiceIn(m)) /\ Received(StoredCores(p), got[p], q)
  BY <1>5, <1>6 DEF Listens
<1>9. m.ratchetKey # SignedPreKey(q)
  BY <1>6, <1>7 DEF Speaks, OwnKeys
<1>10. \A v \in Said(q) : v[1] = m.ratchetKey => v[2] = m.chainKey
  <2>1. \A v \in Said(q) : v \in Voices(q)
    BY DEF Voices, InUse
  <2> QED BY <1>6, <1>7, <2>1 DEF Speaks, Told
<1>11. \A h \in got[p] : ~(h.chainKey = m.chainKey /\ h.counter = m.counter)
  BY <1>2 DEF Sound
<1> QED BY <1>3, <1>4, <1>8, <1>9, <1>10, <1>11 DEF Waiting

\* A session that p stores, and m.
LEMMA StoredReads ==
  ASSUME RatchetAssumption, Typed, NEW p \in Parties, NEW m, Waiting(p, m),
         session[p] # NoSession, NEW y \in StoredCores(p)
  PROVE  /\ KnownChains(y, m) # {} => Decrypts(y, m) \/ Beyond(y, m)
         /\ m.chainKey = CalculateRatchet(y.rootKey, y.sendChain.ratchetKey, m.ratchetKey) =>
              Decrypts(y, m) \/ Beyond(y, m)
         /\ KnownChains(y, m) = {} => ChainFor(y, m).nextMsgIndex = 0
         /\ ChainFor(y, m).nextMsgIndex \in Nat
<1>1. session[p] \in Session(KeysMade)
  BY DEF Typed, TypedOver
<1>2. StoredCores(p) \in SUBSET PrevSession(KeysMade)
  BY <1>1, CoreIs DEF StoredCores, CoresOf
<1>3. m \in Messages(KeysMade)
  BY DEF Waiting
<1>4. /\ Received(StoredCores(p), got[p], Peer(p)) /\ m.ratchetKey # SignedPreKey(Peer(p))
      /\ \A v \in Said(Peer(p)) : v[1] = m.ratchetKey => v[2] = m.chainKey
      /\ \A h \in got[p] : ~(h.chainKey = m.chainKey /\ h.counter = m.counter)
  BY DEF Waiting
<1> QED BY <1>2, <1>3, <1>4, Reads

\* A session that heard the ratchet key of m, or can turn to it, and what it shares with m.
LEMMA HearerReads ==
  ASSUME RatchetAssumption, Typed, NEW p \in Parties, FormedFor(p), NEW m, Waiting(p, m),
         HeardOn(StoredCores(p), VoiceIn(m)) \/ TurnsTo(StoredCores(p), VoiceIn(m))
  PROVE  /\ session[p] # NoSession
         /\ \E y \in StoredCores(p) : y.aliceBaseKey = m.baseKey /\ (Decrypts(y, m) \/ Beyond(y, m))
<1>1. session[p] # NoSession
  BY DEF StoredCores, HeardOn, TurnsTo
<1>2. VoiceIn(m)[1] = m.ratchetKey /\ VoiceIn(m)[2] = m.chainKey
  BY DEF VoiceIn
<1>3. m.chainKey[1] = <<m.baseKey, m.oneTimeId>>
  BY DEF Waiting, MessageFormed
<1>4. ASSUME NEW y \in StoredCores(p), NEW a \in 1..Len(y.recvChains),
             y.recvChains[a].ratchetKey = m.ratchetKey, y.recvChains[a].chainKey = m.chainKey
      PROVE  y.aliceBaseKey = m.baseKey /\ (Decrypts(y, m) \/ Beyond(y, m))
  <2>1. /\ Formed(y, p) /\ Len(y.recvChains) \in Nat
        /\ \A b \in 1..Len(y.recvChains) : y.recvChains[b] \in RecvChain(KeysMade)
    BY KnownCores
  <2>2. SecretOf(y) = <<m.baseKey, m.oneTimeId>>
    BY <1>3, <1>4, <2>1 DEF Formed
  <2>3. y.aliceBaseKey = m.baseKey
    BY <2>2 DEF SecretOf
  <2>4. a \in KnownChains(y, m)
    <3>1. session[p] \in Session(KeysMade)
      BY <1>1 DEF Typed, TypedOver
    <3>2. y \in PrevSession(KeysMade)
      BY <1>1, <3>1, CoreIs DEF StoredCores, CoresOf
    <3>3. y.recvChains \in Seq(RecvChain(KeysMade))
      BY <3>2 DEF PrevSession, Record, SeqUpTo
    <3>4. DOMAIN y.recvChains = 1..Len(y.recvChains)
      BY <3>3, LenProperties
    <3> QED BY <1>4, <3>4 DEF KnownChains
  <2>5. Decrypts(y, m) \/ Beyond(y, m)
    BY <1>1, <2>4, StoredReads
  <2> QED BY <2>3, <2>5
<1>5. ASSUME NEW y \in StoredCores(p),
             m.chainKey = CalculateRatchet(y.rootKey, y.sendChain.ratchetKey, m.ratchetKey)
      PROVE  y.aliceBaseKey = m.baseKey /\ (Decrypts(y, m) \/ Beyond(y, m))
  <2>1. Formed(y, p) /\ y.rootKey \in ChainKeys(KeysMade)
    BY KnownCores
  <2>2. m.chainKey[1] = y.rootKey[1]
    BY <1>5, <2>1, AgreementIs
  <2>3. SecretOf(y) = <<m.baseKey, m.oneTimeId>>
    BY <1>3, <2>1, <2>2 DEF Formed
  <2>4. y.aliceBaseKey = m.baseKey
    BY <2>3 DEF SecretOf
  <2>5. Decrypts(y, m) \/ Beyond(y, m)
    BY <1>1, <1>5, StoredReads
  <2> QED BY <2>4, <2>5
<1>6. CASE HeardOn(StoredCores(p), VoiceIn(m))
  <2>1. PICK y \in StoredCores(p) : \E a \in 1..Len(y.recvChains) :
          y.recvChains[a].ratchetKey = m.ratchetKey /\ y.recvChains[a].chainKey = m.chainKey
    BY <1>2, <1>6 DEF HeardOn
  <2> QED BY <1>1, <1>4, <2>1
<1>7. CASE TurnsTo(StoredCores(p), VoiceIn(m))
  <2>1. PICK y \in StoredCores(p) :
          m.chainKey = CalculateRatchet(y.rootKey, y.sendChain.ratchetKey, m.ratchetKey)
    BY <1>2, <1>7 DEF TurnsTo
  <2> QED BY <1>1, <1>5, <2>1
<1> QED BY <1>6, <1>7

\* A message that opens a session at p is the first of the session it is opened with.
LEMMA OpenerReads ==
  ASSUME RatchetAssumption, NoSessionAssumption, Typed, NEW p \in Parties, NEW m, Waiting(p, m),
         OpensAs(StoredCores(p), preKeys[p], p, VoiceIn(m))
  PROVE  m.type = "pkmsg" /\ (CanDecrypt(p, m) \/ TooFarAhead(p, m))
<1> DEFINE u == SessionFor(p, m)
           c == ChainFor(u, m)
<1>1. /\ VoiceIn(m)[1] = m.ratchetKey /\ VoiceIn(m)[2] = m.chainKey
      /\ BaseIn(VoiceIn(m)) = m.baseKey /\ IdIn(VoiceIn(m)) = m.oneTimeId
  <2>1. m.chainKey[1] = <<m.baseKey, m.oneTimeId>>
    BY DEF Waiting, MessageFormed
  <2> QED BY <2>1 DEF VoiceIn, SecretIn, BaseIn, IdIn
<1>2. /\ \A y \in StoredCores(p) : y.aliceBaseKey # m.baseKey
      /\ m.oneTimeId \in preKeys[p] \cup {NoKeyId}
      /\ m.chainKey = CalculateRatchet(Secret(m.baseKey, m.oneTimeId), SignedPreKey(p), m.ratchetKey)
  BY <1>1 DEF OpensAs
<1>3. m \in Messages(KeysMade) /\ m.baseKey \in KeysMade /\ m.oneTimeId \in Nat /\ m.counter \in Nat
  BY DEF Waiting, Messages
<1>4. m.type = "pkmsg"
  <2>1. Secret(m.baseKey, m.oneTimeId) \in ChainKeys(KeysMade)
    BY <1>3, SecretIs
  <2>2. Len(Secret(m.baseKey, m.oneTimeId)) = 1
    BY DEF Secret
  <2>3. Len(m.chainKey) = 2
    BY <1>2, <2>1, <2>2, AgreementIs
  <2> QED BY <2>3 DEF Waiting, MessageFormed
<1>5. ~IsMatched(session[p], m)
  <2> SUFFICES ASSUME session[p] # NoSession PROVE ~HasMatch(session[p], m)
    BY DEF IsMatched
  <2>1. session[p] \in Session(KeysMade) /\ StoredCores(p) = CoresOf(session[p])
    BY DEF Typed, TypedOver, StoredCores
  <2> QED BY <1>2, <2>1, NoMatch
<1>6. /\ u.recvChains = <<>> /\ u.rootKey = Secret(m.baseKey, m.oneTimeId)
      /\ u.sendChain.ratchetKey = SignedPreKey(p)
  BY <1>4, <1>5 DEF SessionFor, Incoming, Succeeding
<1> HIDE DEF u
<1>7. c = FreshChain(m.ratchetKey, m.chainKey)
  <2>1. KnownChains(u, m) = {}
    BY <1>6 DEF KnownChains
  <2> QED BY <1>2, <1>6, <2>1 DEF ChainFor
<1>8. c.chainKey = m.chainKey /\ c.nextMsgIndex = 0
  BY <1>7 DEF FreshChain
<1>9. FutureMessagesMax \in Nat
  BY DEF RatchetAssumption
<1>10. Decrypts(u, m) \/ m.counter > c.nextMsgIndex + FutureMessagesMax
  <2> HIDE DEF c
  <2>1. Selectable(c, m.counter) \/ m.counter > c.nextMsgIndex + FutureMessagesMax
    BY <1>3, <1>8, <1>9 DEF Selectable
  <2> QED BY <1>8, <2>1 DEF Decrypts, c
<1>11. m.type # "msg" /\ HasPreKeys(p, m)
  BY <1>2, <1>4 DEF HasPreKeys
<1> QED BY <1>4, <1>10, <1>11 DEF CanDecrypt, TooFarAhead, u

\* A later message finds a session.
LEMMA MsgReads ==
  ASSUME RatchetAssumption, Typed, NEW p \in Parties, FormedFor(p), NEW m, Waiting(p, m), m.type = "msg",
         HeardOn(StoredCores(p), VoiceIn(m)) \/ TurnsTo(StoredCores(p), VoiceIn(m))
  PROVE  CanDecrypt(p, m) \/ TooFarAhead(p, m)
<1> DEFINE s == session[p]
<1>1. PICK y \in StoredCores(p) : Decrypts(y, m) \/ Beyond(y, m)
  BY HearerReads
<1>2. s # NoSession
  BY HearerReads
<1>3. s \in Session(KeysMade) /\ StoredCores(p) = CoresOf(s)
  BY <1>2 DEF Typed, TypedOver, StoredCores
<1>4. SessionFor(p, m) = SessionForMsg(s, m) /\ ~Opens(p, m)
  BY DEF SessionFor, Opens
<1> HIDE DEF s
<1>5. CASE \E z \in StoredCores(p) : Decrypts(z, m)
  <2>1. Decrypts(SessionForMsg(s, m), m)
    BY <1>3, <1>5, MsgFound
  <2> QED BY <1>2, <1>4, <2>1 DEF CanDecrypt, s
<1>6. CASE \A z \in StoredCores(p) : ~Decrypts(z, m)
  <2>1. Core(s, 0) \in StoredCores(p)
    BY <1>3, CoreIs DEF CoresOf
  <2>2. /\ ChainFor(Core(s, 0), m) = ChainFor(s, m)
        /\ Decrypts(Core(s, 0), m) <=> Decrypts(s, m)
    BY <1>3, FrontIs, SameChain
  <2>3. Fallbacks(s, m) = {}
    <3> SUFFICES ASSUME NEW i \in Fallbacks(s, m) PROVE FALSE
      OBVIOUS
    <3>1. DOMAIN s.prevSessions = 1..Len(s.prevSessions)
      BY <1>3, RecordIs, LenProperties
    <3>2. i \in 1..Len(s.prevSessions) /\ Decrypts(s.prevSessions[i], m)
      BY <3>1 DEF Fallbacks
    <3>3. i \in Chains(s) /\ Core(s, i) = s.prevSessions[i]
      BY <1>3, <3>2, CoreIs
    <3> QED BY <1>3, <1>6, <3>2, <3>3 DEF CoresOf
  <2>4. SessionForMsg(s, m) = s
    BY <2>3 DEF SessionForMsg
  <2>5. Beyond(s, m)
    <3>1. CASE KnownChains(Core(s, 0), m) # {}
      <4>1. Decrypts(Core(s, 0), m) \/ Beyond(Core(s, 0), m)
        BY <1>2, <2>1, <3>1, StoredReads DEF s
      <4>2. Beyond(Core(s, 0), m)
        BY <1>6, <2>1, <4>1
      <4> QED BY <2>2, <4>2 DEF Beyond
    <3>2. CASE KnownChains(Core(s, 0), m) = {}
      <4>1. ChainFor(s, m).nextMsgIndex = 0
        <5>1. ChainFor(Core(s, 0), m).nextMsgIndex = 0
          BY <1>2, <2>1, <3>2, StoredReads DEF s
        <5> QED BY <2>2, <5>1
      <4>2. Beyond(y, m) /\ ChainFor(y, m).nextMsgIndex \in Nat
        <5>1. ChainFor(y, m).nextMsgIndex \in Nat
          BY <1>2, StoredReads DEF s
        <5> QED BY <1>1, <1>6, <5>1
      <4>3. m.counter \in Nat /\ FutureMessagesMax \in Nat
        BY DEF Waiting, Messages, RatchetAssumption
      <4>4. m.counter > ChainFor(y, m).nextMsgIndex + FutureMessagesMax
        BY <4>2 DEF Beyond
      <4>5. m.counter > 0 + FutureMessagesMax
        BY <4>2, <4>3, <4>4
      <4> QED BY <4>1, <4>5 DEF Beyond
    <3> QED BY <3>1, <3>2
  <2> QED BY <1>2, <1>4, <2>4, <2>5 DEF TooFarAhead, Beyond, s
<1> QED BY <1>5, <1>6

\* A first message whose session is there already finds it.
LEMMA MatchReads ==
  ASSUME RatchetAssumption, Typed, NEW p \in Parties, FormedFor(p), Hears(p), NEW m, Waiting(p, m),
         m.type = "pkmsg",
         HeardOn(StoredCores(p), VoiceIn(m)) \/ TurnsTo(StoredCores(p), VoiceIn(m))
  PROVE  CanDecrypt(p, m) \/ TooFarAhead(p, m)
<1> DEFINE s == session[p]
           u == FindMatchingSession(s, m)
<1>1. PICK y \in StoredCores(p) : y.aliceBaseKey = m.baseKey /\ (Decrypts(y, m) \/ Beyond(y, m))
  BY HearerReads
<1>2. s # NoSession
  BY HearerReads
<1>3. s \in Session(KeysMade) /\ StoredCores(p) = CoresOf(s)
  BY <1>2 DEF Typed, TypedOver, StoredCores
<1>4. \A x \in CoresOf(s) : x.aliceBaseKey = y.aliceBaseKey => x = y
  BY <1>3, OneSession
<1> HIDE DEF s
<1>5. /\ HasMatch(s, m) /\ ChainFor(u, m) = ChainFor(y, m)
      /\ Decrypts(u, m) <=> Decrypts(y, m)
  BY <1>1, <1>3, <1>4, MatchFound
<1>6. SessionFor(p, m) = u /\ ~Opens(p, m)
  <2>1. IsMatched(session[p], m)
    BY <1>2, <1>5 DEF IsMatched, s
  <2> QED BY <2>1 DEF SessionFor, Opens, s
<1>7. m.type # "msg"
  OBVIOUS
<1> HIDE DEF u
<1> QED BY <1>1, <1>5, <1>6, <1>7 DEF CanDecrypt, TooFarAhead, Beyond

\* What parties that are ready were sent, they decrypt.
LEMMA ReadyImpliesDecryptable ==
  ASSUME RatchetAssumption, SessionsAssumption, NoSessionAssumption, Typed,
         \A p \in Parties : SoundOrLapsed(p) /\ FormedFor(p) /\ HearsOrLapsed(p) /\ Ready(p)
  PROVE  Decryptable
<1> SUFFICES ASSUME NEW m \in sent, m \notin got[Peer(m.from)], op[Peer(m.from)].step = "none",
                    lapses[Peer(m.from)] = {}, ~Lapsed(m.from, "deleted session used"),
                    ~Lapsed(m.from, "session reopened")
             PROVE  CanDecrypt(Peer(m.from), m) \/ TooFarAhead(Peer(m.from), m)
  BY DEF Decryptable
<1>1. PICK p : p = Peer(m.from)
  OBVIOUS
<1>2. m.from \in Parties
  BY DEF Typed, TypedOver, Messages
<1>3. p \in Parties /\ m.from = Peer(p) /\ Peer(p) \in Parties
  BY <1>1, <1>2, PeerIs
<1>4. Steady(p) /\ Steady(Peer(p)) /\ lapses[p] = {} /\ ~Lapsed(p, "deleted session used")
  BY <1>1, <1>3 DEF Steady, Lapsed
<1>5. FormedFor(p) /\ Hears(p) /\ HearsPeer(p)
  <2>1. FormedFor(p) /\ HearsOrLapsed(p) /\ HearsPeerOrLapsed(p)
    BY <1>3 DEF Ready
  <2> QED BY <1>4, <2>1 DEF HearsOrLapsed, HearsPeerOrLapsed
<1>6. FormedFor(Peer(p)) /\ Speaks(Peer(p)) /\ Sound(Peer(p))
  <2>1. FormedFor(Peer(p)) /\ SpeaksOrLapsed(Peer(p)) /\ SoundOrLapsed(Peer(p))
    BY <1>3 DEF Ready
  <2> QED BY <1>4, <2>1 DEF SpeaksOrLapsed, SoundOrLapsed, Steady
<1>7. Waiting(p, m)
  <2>1. m \notin got[p] /\ op[p].step = "none" /\ m.from = Peer(p)
    BY <1>1, <1>3
  <2> QED BY <1>3, <1>5, <1>6, <2>1, WaitingIs
<1>8. m.type \in {"pkmsg", "msg"}
  BY <1>7 DEF Waiting, Messages
<1>9. CanDecrypt(p, m) \/ TooFarAhead(p, m)
  <2>1. CASE OpensAs(StoredCores(p), preKeys[p], p, VoiceIn(m))
    BY <1>3, <1>7, <2>1, OpenerReads
  <2>2. CASE HeardOn(StoredCores(p), VoiceIn(m)) \/ TurnsTo(StoredCores(p), VoiceIn(m))
    BY <1>3, <1>5, <1>7, <1>8, <2>2, MsgReads, MatchReads
  <2> QED BY <1>7, <2>1, <2>2 DEF Waiting, Hearable
<1> QED BY <1>1, <1>9

\* Whatever is lost, late or out of order, and also when both parties open sessions at
\* once, what one party sends finds a session at the other that decrypts it: the one that
\* heard of its ratchet key, one that turns the ratchet to it, or the one it opens, with a
\* one-time pre-key that is still there.  The exceptions are those that Decryptable names.
THEOREM SessionDecryptable == Spec => []Decryptable
<1> USE RatchetAssumption, SessionsAssumption, NoSessionAssumption
<1> DEFINE Inv == /\ Typed /\ Owned /\ OnceHeard
                  /\ \A p \in Parties :
                       SoundOrLapsed(p) /\ FormedFor(p) /\ HearsOrLapsed(p) /\ Ready(p)
<1>1. Init => Inv
  BY InitTyped, InitSound, InitHears, InitReady
<1>2. Inv /\ [Next]_vars => Inv'
  <2> SUFFICES ASSUME Inv, [Next]_vars PROVE Inv'
    OBVIOUS
  <2>1. Typed'
    BY StepTyped
  <2>2. Owned' /\ \A p \in Parties : SoundOrLapsed(p)'
    BY StepSound
  <2>3. \A p \in Parties : FormedFor(p)'
    BY StepFormed
  <2>4. (\A p \in Parties : HearsOrLapsed(p)') /\ OnceHeard'
    BY StepHears
  <2>5. \A p \in Parties : Ready(p)'
    BY StepReady
  <2> QED BY <2>1, <2>2, <2>3, <2>4, <2>5
<1>3. Inv => Decryptable
  BY ReadyImpliesDecryptable
<1> QED BY <1>1, <1>2, <1>3, PTL DEF Spec
=============================================================================
