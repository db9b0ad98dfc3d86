---------------------------- MODULE AppStateProofs ----------------------------
(***************************************************************************)
(* That app-state sync keeps the user's writes, tells him the truth about  *)
(* them, reports what other devices change, is up to date when all is      *)
(* quiet, and keeps copies of prefixes of the log: for any collections,    *)
(* calls, bounds on rounds and pages, and numbers of faults.               *)
(***************************************************************************)
EXTENDS AppState, FiniteSetTheorems, WellFoundedInduction, SequenceTheorems, TLAPS

-----------------------------------------------------------------------------
(* Greatest and least numbers.                                             *)

\* A set of numbers that is not empty has a least one.
LEMMA MinIs ==
  ASSUME NEW S \in SUBSET Nat, S # {}
  PROVE  Min(S) \in S /\ \A y \in S : Min(S) <= y
<1> DEFINE T == {0..x : x \in S}
           R == StrictSubsetOrdering(Nat)
<1>1. IsWellFoundedOn(R, FiniteSubsetsOf(Nat))
  BY FS_StrictSubsetOrderingWellFounded
<1>2. T \subseteq FiniteSubsetsOf(Nat) /\ T # {}
  <2>1. ASSUME NEW x \in S PROVE 0..x \in FiniteSubsetsOf(Nat)
    <3>1. IsFiniteSet(0..x)
      BY FS_Interval
    <3> QED BY <3>1 DEF FiniteSubsetsOf
  <2> QED BY <2>1
<1>3. PICK t \in T : \A u \in T : ~(<<u, t>> \in R)
  BY <1>1, <1>2, WFMin
<1>4. PICK x \in S : t = 0..x
  OBVIOUS
<1>5. ASSUME NEW y \in S PROVE x <= y
  <2>1. ~(<<0..y, 0..x>> \in R)
    BY <1>3, <1>4
  <2> SUFFICES ASSUME y < x PROVE FALSE
    OBVIOUS
  <2>2. 0..y \subseteq 0..x /\ x \in 0..x /\ x \notin 0..y
    OBVIOUS
  <2> QED BY <2>1, <2>2 DEF StrictSubsetOrdering
<1> QED BY <1>5 DEF Min

\* And a greatest one if it is bounded.
LEMMA MaxIs ==
  ASSUME NEW S \in SUBSET Nat, S # {}, NEW n \in Nat, \A y \in S : y <= n
  PROVE  Max(S) \in S /\ \A y \in S : y <= Max(S)
<1> DEFINE T == {k \in 0..n : n - k \in S}
<1>1. T \in SUBSET Nat /\ T # {}
  <2>1. PICK y \in S : TRUE
    OBVIOUS
  <2>2. n - y \in T
    BY <2>1
  <2> QED BY SMTT(20), <2>2
<1>2. Min(T) \in T /\ \A k \in T : Min(T) <= k
  BY <1>1, MinIs
<1>3. PICK x \in S : x = n - Min(T)
  BY <1>2
<1>4. \A y \in S : y <= x
  <2> TAKE y \in S
  <2>1. n - y \in T
    OBVIOUS
  <2> QED BY <1>2, <1>3, <2>1
<1> QED BY <1>3, <1>4 DEF Max

-----------------------------------------------------------------------------
(* What patches contain.                                                   *)

\* v is the last of the patches lo to hi that touches i.
IsLast(patches, lo, hi, i, v) ==
  /\ v \in lo..hi /\ patches[v].set[i] # NoWrite
  /\ \A u \in lo..hi : u > v => patches[u].set[i] = NoWrite

Touching(patches, lo, hi, i) == {v \in lo..hi : patches[v].set[i] # NoWrite}
Untouched(patches, lo, hi, i) == \A v \in lo..hi : patches[v].set[i] = NoWrite

\* There is a last one, or none of the patches touches i.
LEMMA LastIs ==
  ASSUME NEW patches, NEW lo \in Nat, NEW hi \in Nat, NEW i,
         Touching(patches, lo, hi, i) # {}
  PROVE  IsLast(patches, lo, hi, i, Max(Touching(patches, lo, hi, i)))
<1> DEFINE touching == Touching(patches, lo, hi, i)
<1>1. touching \in SUBSET Nat /\ \A v \in touching : v <= hi
  BY DEF Touching
<1>2. Max(touching) \in touching /\ \A v \in touching : v <= Max(touching)
  BY <1>1, MaxIs
<1>3. Max(touching) \in lo..hi /\ patches[Max(touching)].set[i] # NoWrite
  BY <1>2 DEF Touching
<1>4. ASSUME NEW u \in lo..hi, u > Max(touching) PROVE patches[u].set[i] = NoWrite
  BY <1>2, <1>3, <1>4 DEF Touching
<1> HIDE DEF touching
<1>5. IsLast(patches, lo, hi, i, Max(touching))
  BY <1>3, <1>4 DEF IsLast
<1> QED BY <1>5 DEF touching

LEMMA TouchedOrNot ==
  ASSUME NEW patches, NEW lo \in Nat, NEW hi \in Nat, NEW i,
         ~Untouched(patches, lo, hi, i)
  PROVE  \E v : IsLast(patches, lo, hi, i, v)
<1>1. Touching(patches, lo, hi, i) # {}
  BY DEF Touching, Untouched
<1> QED BY <1>1, LastIs

\* The last one is what is merged.
LEMMA MergedUntouched ==
  ASSUME NEW patches, NEW lo, NEW hi, NEW i \in Indexes, Untouched(patches, lo, hi, i)
  PROVE  Merged(patches, lo, hi)[i] = NoWrite
<1>1. {v \in lo..hi : patches[v].set[i] # NoWrite} = {}
  BY DEF Untouched
<1> QED BY <1>1 DEF Merged

LEMMA MergedLast ==
  ASSUME NEW patches, NEW lo \in Nat, NEW hi \in Nat, NEW i \in Indexes, NEW v,
         IsLast(patches, lo, hi, i, v)
  PROVE  Merged(patches, lo, hi)[i] = patches[v].set[i]
<1> DEFINE touching == Touching(patches, lo, hi, i)
<1>1. Merged(patches, lo, hi)[i] =
        IF touching = {} THEN NoWrite ELSE patches[Max(touching)].set[i]
  BY DEF Merged, Touching
<1>2. touching # {}
  BY DEF IsLast, Touching
<1>3. IsLast(patches, lo, hi, i, Max(touching))
  BY <1>2, LastIs
<1>4. Max(touching) = v
  BY <1>3 DEF IsLast
<1> QED BY <1>1, <1>2, <1>4

LEMMA MergedPrefixLast ==
  ASSUME NEW patches, NEW hi \in Nat, NEW i \in Indexes, NEW v, IsLast(patches, 1, hi, i, v)
  PROVE  Merged(patches, 1, hi)[i] = patches[v].set[i]
<1>1. PICK one \in Nat : one = 1
  OBVIOUS
<1>2. IsLast(patches, one, hi, i, v)
  BY <1>1
<1>3. Merged(patches, one, hi)[i] = patches[v].set[i]
  BY <1>2, MergedLast
<1> QED BY <1>1, <1>3

\* Patches merged in two parts.
LEMMA MergedSplit ==
  ASSUME NEW patches, NEW lo \in Nat \ {0}, NEW hi \in Nat, lo <= hi + 1
  PROVE  Over(Merged(patches, 1, lo - 1), Merged(patches, lo, hi)) = Merged(patches, 1, hi)
<1> DEFINE a == Merged(patches, 1, lo - 1)
           b == Merged(patches, lo, hi)
           all == Merged(patches, 1, hi)
<1>1. ASSUME NEW i \in Indexes PROVE all[i] = IF b[i] # NoWrite THEN b[i] ELSE a[i]
  <2>1. CASE \E v : IsLast(patches, lo, hi, i, v)
    <3>1. PICK v : IsLast(patches, lo, hi, i, v)
      BY <2>1
    <3>2. IsLast(patches, 1, hi, i, v)
      BY <3>1 DEF IsLast
    <3>3. b[i] = patches[v].set[i] /\ all[i] = patches[v].set[i]
      BY <3>1, <3>2, MergedLast, MergedPrefixLast
    <3> QED BY <3>1, <3>3 DEF IsLast
  <2>2. CASE Untouched(patches, lo, hi, i)
    <3>1. b[i] = NoWrite
      BY <2>2, MergedUntouched
    <3>2. CASE \E v : IsLast(patches, 1, lo - 1, i, v)
      <4>1. PICK v : IsLast(patches, 1, lo - 1, i, v)
        BY <3>2
      <4>2. IsLast(patches, 1, hi, i, v)
        BY <2>2, <4>1 DEF IsLast, Untouched
      <4>3. a[i] = patches[v].set[i] /\ all[i] = patches[v].set[i]
        <5> HIDE DEF a, b, all
        <5>0. lo - 1 \in Nat
          OBVIOUS
        <5>1. Merged(patches, 1, lo - 1)[i] = patches[v].set[i]
          BY <4>1, <5>0, MergedPrefixLast
        <5>2. Merged(patches, 1, hi)[i] = patches[v].set[i]
          BY <4>2, MergedPrefixLast
        <5> QED BY <5>1, <5>2 DEF a, all
      <4> QED BY <3>1, <4>3
    <3>3. CASE Untouched(patches, 1, lo - 1, i)
      <4>1. Untouched(patches, 1, hi, i)
        BY <2>2, <3>3 DEF Untouched
      <4>2. a[i] = NoWrite /\ all[i] = NoWrite
        BY <3>3, <4>1, MergedUntouched
      <4> QED BY <3>1, <4>2
    <3> QED BY <3>2, <3>3, TouchedOrNot
  <2> QED BY <2>1, <2>2, TouchedOrNot
<1>2. all = [i \in Indexes |-> all[i]]
  BY DEF Merged
<1> HIDE DEF a, b, all
<1>3. Over(a, b) = [i \in Indexes |-> IF b[i] # NoWrite THEN b[i] ELSE a[i]]
  BY DEF Over
<1>4. Over(a, b) = all
  BY <1>1, <1>2, <1>3
<1> QED BY <1>4 DEF a, b, all

\* They are writes, and later patches do not change what a prefix contains.
LEMMA MergedTyped ==
  ASSUME NEW patches \in Seq(Patches), NEW lo \in Nat \ {0}, NEW hi \in Nat, hi <= Len(patches)
  PROVE  Merged(patches, lo, hi) \in Values
<1> SUFFICES ASSUME NEW i \in Indexes PROVE Merged(patches, lo, hi)[i] \in Writes \cup {NoWrite}
  BY DEF Merged, Values
<1>1. \A v \in lo..hi : patches[v] \in Patches
  OBVIOUS
<1>2. \A v \in lo..hi : patches[v].set[i] \in Writes \cup {NoWrite}
  BY <1>1 DEF Patches, Values
<1>3. \/ Untouched(patches, lo, hi, i)
      \/ \E v : IsLast(patches, lo, hi, i, v)
  BY TouchedOrNot
<1> QED BY <1>2, <1>3, MergedUntouched, MergedLast DEF IsLast

LEMMA MergedPrefix ==
  ASSUME NEW p, NEW q, NEW lo \in Nat, NEW hi \in Nat, \A v \in lo..hi : p[v] = q[v]
  PROVE  Merged(p, lo, hi) = Merged(q, lo, hi)
<1>1. ASSUME NEW i \in Indexes PROVE Merged(p, lo, hi)[i] = Merged(q, lo, hi)[i]
  <2>1. CASE Untouched(p, lo, hi, i)
    <3>1. Untouched(q, lo, hi, i)
      BY <2>1 DEF Untouched
    <3> QED BY <2>1, <3>1, MergedUntouched
  <2>2. CASE \E v : IsLast(p, lo, hi, i, v)
    <3>1. PICK v : IsLast(p, lo, hi, i, v)
      BY <2>2
    <3>2. IsLast(q, lo, hi, i, v) /\ p[v] = q[v]
      BY <3>1 DEF IsLast
    <3>3. Merged(p, lo, hi)[i] = p[v].set[i]
      BY <3>1, MergedLast
    <3>4. Merged(q, lo, hi)[i] = q[v].set[i]
      BY <3>2, MergedLast
    <3> QED BY <3>2, <3>3, <3>4
  <2> QED BY <2>1, <2>2, TouchedOrNot
<1>2. \A f : Merged(f, lo, hi) = [i \in Indexes |-> Merged(f, lo, hi)[i]]
  BY DEF Merged
<1> QED
  <2> DEFINE f == Merged(p, lo, hi)
             g == Merged(q, lo, hi)
  <2>1. /\ \A i \in Indexes : f[i] = g[i]
        /\ f = [i \in Indexes |-> f[i]] /\ g = [i \in Indexes |-> g[i]]
    BY <1>1, <1>2
  <2> HIDE DEF f, g
  <2>2. f = g
    BY <2>1
  <2> QED BY <2>2 DEF f, g

\* Nothing is merged of no patches.
LEMMA MergedNone ==
  ASSUME NEW patches, NEW lo \in Nat, NEW hi \in Nat, hi < lo
  PROVE  Merged(patches, lo, hi) = Nothing
<1>1. ASSUME NEW i \in Indexes PROVE Merged(patches, lo, hi)[i] = NoWrite
  <2>1. Untouched(patches, lo, hi, i)
    BY DEF Untouched
  <2> QED BY <2>1, MergedUntouched
<1>2. Merged(patches, lo, hi) = [i \in Indexes |-> Merged(patches, lo, hi)[i]]
  BY DEF Merged
<1> QED
  <2> DEFINE f == Merged(patches, lo, hi)
  <2>1. f = [i \in Indexes |-> f[i]] /\ \A i \in Indexes : f[i] = NoWrite
    BY <1>1, <1>2
  <2> HIDE DEF f
  <2>2. f = Nothing
    BY <2>1 DEF Nothing
  <2> QED BY <2>2 DEF f

LEMMA MergedOne ==
  ASSUME NEW patches, NEW n \in Nat, patches[n].set \in Values
  PROVE  Merged(patches, n, n) = patches[n].set
<1> DEFINE f == Merged(patches, n, n)
           g == patches[n].set
<1>1. ASSUME NEW i \in Indexes PROVE f[i] = g[i]
  <2>1. CASE g[i] = NoWrite
    <3>1. Untouched(patches, n, n, i)
      BY <2>1 DEF Untouched
    <3> QED BY <2>1, <3>1, MergedUntouched
  <2>2. CASE g[i] # NoWrite
    <3>1. IsLast(patches, n, n, i, n)
      BY <2>2 DEF IsLast
    <3> QED BY <3>1, MergedLast
  <2> QED BY <2>1, <2>2
<1>2. f = [i \in Indexes |-> f[i]] /\ g = [i \in Indexes |-> g[i]]
  BY DEF Merged, Values
<1> HIDE DEF f, g
<1>3. f = g
  BY <1>1, <1>2
<1> QED BY <1>3 DEF f, g

\* Mutations on top of others.
LEMMA OverTyped ==
  ASSUME NEW f \in Values, NEW g \in Values
  PROVE  Over(f, g) \in Values
BY DEF Over, Values

-----------------------------------------------------------------------------
(* Copies.  What is stored, and what a run works on, is what a prefix of   *)
(* the log contains; an answer, however it was spoiled, either is refused  *)
(* or fits the copy it is for.                                             *)

IsCopy(c, copy) ==
  /\ copy.version <= Len(log[c])
  /\ copy.map = Merged(log[c], 1, copy.version)
  /\ copy.initialized \/ copy.version = 0

Stored == \A c \in Collections : IsCopy(c, store.have[c])

\* A run's copies are not behind the stored ones, and equal unless to be saved.
Cached ==
  /\ run.toSync \subseteq run.collections /\ run.unsaved \subseteq run.collections
  /\ \A c \in Collections : IsCopy(c, run.cache[c])
  /\ \A c \in run.collections : store.have[c].version <= run.cache[c].version
  /\ \A c \in run.collections \ run.unsaved : run.cache[c] = store.have[c]

\* Patches and snapshots are there; an upload that succeeded is in the log.
Fits(c, p) ==
  /\ 1 <= p.lo /\ p.hi <= Len(log[c]) /\ p.snapshot <= Len(log[c])
  /\ p.hi = 0 \/ p.lo <= p.hi
  /\ p.snapshot = 0 \/ ~run.cache[c].initialized
  /\ p.hi = 0 /\ p.snapshot = 0 /\ ~run.cache[c].initialized => p.version = 0
  /\ p.state \in IF Uploads(c) THEN Conflict \cup {"success"} ELSE Success
  /\ Uploads(c) /\ p.state = "success" =>
       /\ run.cache[c].version < Len(log[c])
       /\ log[c][run.cache[c].version + 1].set = run.pending[c]

Answered ==
  run.stage = "answered" =>
    \A c \in run.toSync :
      LET p == run.answers[c] IN Refuses(p) \/ p.state = "no_download" \/ Fits(c, p)

CopiesInvariant == TypeOK /\ Stored /\ Cached /\ Answered

\* What the fields of a run are.
LEMMA RunIs ==
  ASSUME run \in Runs
  PROVE  /\ run.stage \in Stages
         /\ run.collections \subseteq Collections /\ run.toSync \subseteq Collections
         /\ run.pending \in [Collections -> Values]
         /\ run.iteration \in 0..MaxRounds
         /\ run.cache \in [Collections -> Copies]
         /\ run.unsaved \subseteq Collections
         /\ run.missing \subseteq Keys
         /\ run.answers \in [Collections -> Payloads]
         /\ run.results \in [Collections -> [state : States, mutations : Values]]
         /\ run.silent \in [Collections -> Nat]
BY DEF Runs

LEMMA CopyIs ==
  \A copy \in Copies : /\ copy.initialized \in BOOLEAN
                       /\ copy.version \in Nat
                       /\ copy.map \in Values
                       /\ copy = [initialized |-> copy.initialized, version |-> copy.version,
                                  map |-> copy.map]
BY DEF Copies

LEMMA PayloadIs ==
  \A p \in Payloads : /\ p.state \in States \cup {"missing", "no_download"}
                      /\ p.version \in Nat /\ p.snapshot \in Nat /\ p.lo \in Nat /\ p.hi \in Nat
BY DEF Payloads

\* The copy a run has of a collection.
LEMMA CacheIs ==
  ASSUME TypeOK, Cached, NEW c \in Collections
  PROVE  /\ run.cache[c] \in Copies /\ IsCopy(c, run.cache[c])
         /\ log[c] \in Seq(Patches)
         /\ run.pending[c] \in Values
         /\ run.answers[c] \in Payloads
         /\ Len(log[c]) \in Nat
         /\ run.cache[c].version \in 0..Len(log[c])
<1>1. /\ run.cache[c] \in Copies /\ log[c] \in Seq(Patches)
      /\ run.pending[c] \in Values /\ run.answers[c] \in Payloads
  BY RunIs DEF TypeOK
<1>2. IsCopy(c, run.cache[c])
  BY DEF Cached
<1> QED BY <1>1, <1>2, CopyIs DEF IsCopy

\* What patches add to a copy.
LEMMA PatchedIs ==
  ASSUME NEW c, log[c] \in Seq(Patches), NEW copy \in Copies, IsCopy(c, copy),
         NEW lo \in Nat \ {0}, NEW hi \in Nat, lo <= hi + 1, hi <= Len(log[c]), FollowsOn(copy, lo)
  PROVE  LET new == Patched(copy, c, lo, hi)
         IN new \in Copies /\ IsCopy(c, new) /\ new.version = hi /\ copy.version <= hi
<1>1. copy.version = lo - 1 /\ copy.map = Merged(log[c], 1, lo - 1) /\ copy.map \in Values
  BY CopyIs DEF FollowsOn, IsCopy
<1>2. Merged(log[c], lo, hi) \in Values
  BY MergedTyped
<1>3. Over(copy.map, Merged(log[c], lo, hi)) = Merged(log[c], 1, hi)
  BY <1>1, MergedSplit
<1>4. Over(copy.map, Merged(log[c], lo, hi)) \in Values
  BY <1>1, <1>2, OverTyped
<1> QED BY <1>1, <1>3, <1>4 DEF Patched, Copies, IsCopy

\* A snapshot takes the place of a copy that is not initialized.
LEMMA BootstrappedIs ==
  ASSUME NEW c, log[c] \in Seq(Patches), NEW copy \in Copies, IsCopy(c, copy),
         NEW n \in 0..Len(log[c]), n = 0 \/ ~copy.initialized
  PROVE  LET new == Bootstrapped(copy, c, n)
         IN /\ new \in Copies /\ IsCopy(c, new) /\ copy.version <= new.version
            /\ new.version = IF n = 0 THEN copy.version ELSE n
            /\ new.initialized <=> (copy.initialized \/ n # 0)
<1>1. CASE n = 0
  BY <1>1, CopyIs DEF Bootstrapped
<1>2. CASE n # 0
  <2>1. copy.version = 0
    BY <1>2 DEF IsCopy
  <2>2. Merged(log[c], 1, n) \in Values
    BY MergedTyped
  <2> QED BY <1>2, <2>1, <2>2 DEF Bootstrapped, Copies, IsCopy
<1> QED BY <1>1, <1>2

\* An upload that came through is the next patch.
LEMMA UploadedIs ==
  ASSUME TypeOK, Cached, NEW c \in Collections, run.cache[c].version < Len(log[c]),
         log[c][run.cache[c].version + 1].set = run.pending[c]
  PROVE  /\ Uploaded(c) \in Copies /\ IsCopy(c, Uploaded(c))
         /\ Uploaded(c).version = run.cache[c].version + 1
<1> DEFINE n == run.cache[c].version
<1>1. /\ n \in Nat /\ log[c] \in Seq(Patches) /\ run.pending[c] \in Values
      /\ run.cache[c].map \in Values /\ run.cache[c].map = Merged(log[c], 1, n)
  BY CacheIs, CopyIs DEF IsCopy
<1>2. Merged(log[c], n + 1, n + 1) = run.pending[c]
  BY <1>1, MergedOne
<1>3. Over(run.cache[c].map, run.pending[c]) = Merged(log[c], 1, n + 1)
  <2>1. PICK m \in Nat \ {0} : m = n + 1 /\ m - 1 = n
    BY <1>1
  <2>2. Over(Merged(log[c], 1, m - 1), Merged(log[c], m, m)) = Merged(log[c], 1, m)
    BY <2>1, MergedSplit
  <2> QED BY <1>1, <1>2, <2>1, <2>2
<1>4. Over(run.cache[c].map, run.pending[c]) \in Values
  BY <1>1, OverTyped
<1> QED BY <1>1, <1>3, <1>4, CacheIs DEF Uploaded, Copies, IsCopy

-----------------------------------------------------------------------------
(* What a round makes of an answer.                                        *)

\* With what the run knew when it asked, the answer is the newest there is.
Latest(c, p) ==
  IF Uploads(c) THEN p.hi = 0 /\ p.version = run.cache[c].version + 1 /\ Len(log[c]) = p.version
  ELSE Len(log[c]) = IF p.hi # 0 THEN p.hi
                     ELSE IF p.snapshot # 0 THEN p.snapshot ELSE run.cache[c].version

\* The copy stays one and does not go back.
Advances(c, o) ==
  o.copy \in Copies /\ IsCopy(c, o.copy) /\ run.cache[c].version <= o.copy.version
WellFormed(o) ==
  /\ o.state \in States /\ o.mutations \in Values /\ o.refetch \in BOOLEAN
  /\ o.needs \subseteq Keys
\* What is asked for, and what blocks, is a key of the log that is not there.
Justified(c, o) ==
  /\ \A k \in o.needs : Lacks(k)
  /\ o.state = "blocked" => \E v \in 1..Len(log[c]) : Lacks(log[c][v].key)
\* Who is done with a success has uploaded what was pending, and all there is.
Complete(c, p, o) ==
  o.state \in Success /\ ~o.refetch =>
    /\ p.state = "success" \/ (p.state = "conflict" /\ run.pending[c] = Nothing)
    /\ Fits(c, p)
    /\ run.pending[c] # Nothing => Uploads(c)
    /\ p.state = "success" /\ Latest(c, p) => o.copy.version = Len(log[c])
\* What is new in the copy and reported by nobody else is in the result.
Tells(c, p, o) ==
  o.state \in Success \cup Conflict =>
    /\ ~Refuses(p) /\ p.state # "no_download"
    /\ \A i \in Indexes, v \in 1..o.copy.version :
         IsLast(log[c], 1, o.copy.version, i, v) =>
           \/ v <= run.cache[c].version \/ v <= p.snapshot
           \/ o.mutations[i] = log[c][v].set[i]
           \/ log[c][v].set = run.pending[c]
Processes(c, p, o) ==
  Advances(c, o) /\ WellFormed(o) /\ Justified(c, o) /\ Complete(c, p, o) /\ Tells(c, p, o)

\* A key that is in the log.
LEMMA LogKey ==
  ASSUME TypeOK, NEW c \in Collections, NEW v \in 1..Len(log[c])
  PROVE  log[c][v] \in Patches /\ log[c][v].key \in Keys /\ log[c][v].set \in Values
<1>1. log[c] \in Seq(Patches)
  BY DEF TypeOK
<1>2. log[c][v] \in Patches
  BY <1>1
<1> QED BY <1>2 DEF Patches

LEMMA NothingTyped == Nothing \in Values
BY DEF Nothing, Values

\* An answer that cannot be used leaves everything as it is.
LEMMA UnusableIs ==
  ASSUME TypeOK, Cached, NEW c \in Collections, NEW p,
         NEW state \in Errors, NEW refetch \in BOOLEAN
  PROVE  Processes(c, p, Outcome(run.cache[c], state, Nothing, refetch, {}))
<1> DEFINE o == Outcome(run.cache[c], state, Nothing, refetch, {})
<1>1. /\ o.copy = run.cache[c] /\ o.state = state /\ o.mutations = Nothing
      /\ o.refetch = refetch /\ o.needs = {}
  BY DEF Outcome
<1>2. state \in States /\ state \notin Success \cup Conflict /\ state # "blocked"
  BY DEF States, Errors, Success, Conflict
<1> HIDE DEF o
<1>3. Advances(c, o)
  BY <1>1, CacheIs, CopyIs DEF Advances
<1>4. WellFormed(o) /\ Justified(c, o) /\ Complete(c, p, o) /\ Tells(c, p, o)
  BY <1>1, <1>2, NothingTyped DEF WellFormed, Justified, Complete, Tells
<1> QED BY <1>3, <1>4 DEF Processes, o

\* An answer that needs a key may be applied in part.
LEMMA BlockedIs ==
  ASSUME TypeOK, Cached, NEW c \in Collections, NEW p, NEW copy \in Copies, IsCopy(c, copy),
         run.cache[c].version <= copy.version, NEW refetch \in BOOLEAN,
         NEW needs \in SUBSET Keys, \A k \in needs : Lacks(k),
         \E v \in 1..Len(log[c]) : Lacks(log[c][v].key)
  PROVE  Processes(c, p, Outcome(copy, "blocked", Nothing, refetch, needs))
<1> DEFINE o == Outcome(copy, "blocked", Nothing, refetch, needs)
<1>1. /\ o.copy = copy /\ o.state = "blocked" /\ o.mutations = Nothing
      /\ o.refetch = refetch /\ o.needs = needs
  BY DEF Outcome
<1>2. "blocked" \in States /\ "blocked" \notin Success \cup Conflict
  BY DEF States, Errors, Success, Conflict
<1> HIDE DEF o
<1>3. Advances(c, o)
  BY <1>1 DEF Advances
<1>4. WellFormed(o) /\ Justified(c, o)
  BY <1>1, <1>2, NothingTyped DEF WellFormed, Justified
<1>5. Complete(c, p, o) /\ Tells(c, p, o)
  BY <1>1, <1>2 DEF Complete, Tells
<1> QED BY <1>3, <1>4, <1>5 DEF Processes, o

\* What a copy becomes when no key is missing.
LEMMA CaughtUpIs ==
  ASSUME TypeOK, Cached, NEW c \in Collections, NEW p \in Payloads, Fits(c, p),
         NEW copy \in Copies, IsCopy(c, copy), run.cache[c].version <= copy.version,
         copy.version = IF p.snapshot = 0 THEN run.cache[c].version ELSE p.snapshot,
         copy.initialized <=> (run.cache[c].initialized \/ p.snapshot # 0),
         p.hi = 0 \/ FollowsOn(copy, p.lo)
  PROVE  LET uploaded == /\ Uploads(c) /\ p.state = "success"
                         /\ p.version = run.cache[c].version + 1
             new == IF p.hi # 0 THEN Patched(copy, c, p.lo, p.hi)
                    ELSE IF uploaded THEN Uploaded(c)
                    ELSE IF ~copy.initialized /\ p.state = "success"
                    THEN [copy EXCEPT !.initialized = TRUE, !.version = p.version]
                    ELSE copy
         IN /\ new \in Copies /\ IsCopy(c, new) /\ copy.version <= new.version
            /\ new.version = IF p.hi # 0 THEN p.hi
                             ELSE IF uploaded THEN run.cache[c].version + 1 ELSE copy.version
<1> DEFINE uploaded == /\ Uploads(c) /\ p.state = "success"
                       /\ p.version = run.cache[c].version + 1
<1>0. /\ log[c] \in Seq(Patches) /\ Len(log[c]) \in Nat /\ run.cache[c].version \in Nat
      /\ p.version \in Nat /\ p.snapshot \in Nat /\ p.lo \in Nat /\ p.hi \in Nat
      /\ copy.version \in Nat /\ run.cache[c].initialized \in BOOLEAN
  BY CacheIs, CopyIs, PayloadIs
<1>1. CASE p.hi # 0
  <2>1. p.lo \in Nat \ {0} /\ p.lo <= p.hi + 1 /\ p.hi <= Len(log[c]) /\ FollowsOn(copy, p.lo)
    BY <1>0, <1>1 DEF Fits
  <2>2. LET new == Patched(copy, c, p.lo, p.hi)
        IN new \in Copies /\ IsCopy(c, new) /\ new.version = p.hi /\ copy.version <= p.hi
    BY <1>0, <2>1, PatchedIs
  <2> QED BY <1>1, <2>2
<1>2. CASE p.hi = 0 /\ uploaded
  <2>1. run.cache[c].version < Len(log[c])
        /\ log[c][run.cache[c].version + 1].set = run.pending[c]
    BY <1>2 DEF Fits
  <2>2. /\ Uploaded(c) \in Copies /\ IsCopy(c, Uploaded(c))
        /\ Uploaded(c).version = run.cache[c].version + 1
    BY <2>1, UploadedIs
  <2>3. copy.version = run.cache[c].version
    BY <1>0, <1>2 DEF Fits, Uploads
  <2> QED BY <1>0, <1>2, <2>2, <2>3
<1>3. CASE p.hi = 0 /\ ~uploaded /\ ~copy.initialized /\ p.state = "success"
  <2> DEFINE new == [copy EXCEPT !.initialized = TRUE, !.version = p.version]
  <2>1. p.snapshot = 0 /\ p.version = 0 /\ copy.version = 0
    BY <1>0, <1>3 DEF Fits, IsCopy
  <2>2. new = [initialized |-> TRUE, version |-> 0, map |-> copy.map]
    <3>1. new = [[copy EXCEPT !.initialized = TRUE] EXCEPT !.version = p.version]
      OBVIOUS
    <3>2. \A a, f, v, h :
            [[initialized |-> a, map |-> f, version |-> v] EXCEPT !.initialized = h]
              = [initialized |-> h, map |-> f, version |-> v]
      OBVIOUS
    <3>3. \A a, f, v, n :
            [[initialized |-> a, map |-> f, version |-> v] EXCEPT !.version = n]
              = [initialized |-> a, map |-> f, version |-> n]
      OBVIOUS
    <3>4. copy = [initialized |-> copy.initialized, map |-> copy.map, version |-> copy.version]
      BY DEF Copies
    <3> HIDE DEF new
    <3> QED BY <2>1, <3>1, <3>2, <3>3, <3>4
  <2>3. new \in Copies /\ IsCopy(c, new)
    BY <2>1, <2>2, CopyIs DEF IsCopy, Copies
  <2>4. new.version = 0
    BY <2>2
  <2> HIDE DEF new
  <2>5. /\ new \in Copies /\ IsCopy(c, new) /\ copy.version <= new.version
        /\ new.version = copy.version
    BY <2>1, <2>3, <2>4
  <2> QED BY <1>3, <2>5 DEF new
<1>4. CASE p.hi = 0 /\ ~uploaded /\ ~(~copy.initialized /\ p.state = "success")
  BY <1>0, <1>4
<1> QED BY <1>1, <1>2, <1>3, <1>4

LEMMA RefetchIs ==
  ASSUME NEW c, NEW p
  PROVE  ConflictRefetch(c, p) \in BOOLEAN
BY DEF ConflictRefetch

\* applyPatches.
LEMMA ApplyPatchesIs ==
  ASSUME TypeOK, Cached, NEW c \in Collections, NEW p \in Payloads, Fits(c, p),
         ~Refuses(p), p.state # "no_download",
         NEW copy \in Copies, IsCopy(c, copy), run.cache[c].version <= copy.version,
         copy.version = IF p.snapshot = 0 THEN run.cache[c].version ELSE p.snapshot,
         copy.initialized <=> (run.cache[c].initialized \/ p.snapshot # 0),
         p.hi = 0 \/ FollowsOn(copy, p.lo)
  PROVE  Processes(c, p, ApplyPatches(c, p, copy))
<1> DEFINE locked == {v \in p.lo..p.hi : Lacks(log[c][v].key)}
           o == ApplyPatches(c, p, copy)
<1>0. /\ log[c] \in Seq(Patches) /\ Len(log[c]) \in Nat /\ run.cache[c].version \in Nat
      /\ p.version \in Nat /\ p.snapshot \in Nat /\ p.lo \in Nat /\ p.hi \in Nat
      /\ copy.version \in Nat /\ run.cache[c].initialized \in BOOLEAN
      /\ 1 <= p.lo /\ p.hi <= Len(log[c]) /\ p.snapshot <= Len(log[c])
  BY CacheIs, CopyIs, PayloadIs DEF Fits
<1>1. CASE locked # {}
  <2>1. Min(locked) \in locked /\ \A v \in locked : Min(locked) <= v
    <3>1. locked \in SUBSET Nat
      BY <1>0
    <3> HIDE DEF locked
    <3> QED BY <1>1, <3>1, MinIs
  <2> DEFINE m == Min(locked)
             new == IF m = p.lo THEN copy ELSE Patched(copy, c, p.lo, m - 1)
             k == log[c][m].key
  <2>2. /\ m \in 1..Len(log[c]) /\ Lacks(k) /\ p.lo <= m /\ m <= p.hi
        /\ FollowsOn(copy, p.lo)
    BY <1>0, <2>1
  <2>3. k \in Keys
    BY <2>2, LogKey
  <2>4. o = Outcome(new, "blocked", Nothing, ConflictRefetch(c, p), {k})
    BY <1>1, <2>2 DEF ApplyPatches
  <2> HIDE DEF m, k, locked
  <2>5. new \in Copies /\ IsCopy(c, new) /\ run.cache[c].version <= new.version
    <3>1. CASE m = p.lo
      BY <3>1
    <3>2. CASE m # p.lo
      <4>1. LET n == Patched(copy, c, p.lo, m - 1)
            IN n \in Copies /\ IsCopy(c, n) /\ n.version = m - 1 /\ copy.version <= m - 1
        BY <1>0, <2>2, <3>2, PatchedIs
      <4> QED BY <1>0, <2>2, <3>2, <4>1
    <3> QED BY <3>1, <3>2
  <2>6. Lacks(k) /\ \E v \in 1..Len(log[c]) : Lacks(log[c][v].key)
    BY <2>2 DEF k
  <2> HIDE DEF new, o
  <2>7. Processes(c, p, Outcome(new, "blocked", Nothing, ConflictRefetch(c, p), {k}))
    BY <2>3, <2>5, <2>6, RefetchIs, BlockedIs
  <2> QED BY <2>4, <2>7 DEF o
<1>2. CASE locked = {}
  <2> DEFINE uploaded == /\ Uploads(c) /\ p.state = "success"
                         /\ p.version = run.cache[c].version + 1
             new == IF p.hi # 0 THEN Patched(copy, c, p.lo, p.hi)
                    ELSE IF uploaded THEN Uploaded(c)
                    ELSE IF ~copy.initialized /\ p.state = "success"
                    THEN [copy EXCEPT !.initialized = TRUE, !.version = p.version]
                    ELSE copy
             state == IF p.state = "conflict" /\ run.pending[c] = Nothing THEN "success"
                      ELSE p.state
             refetch == \/ ConflictRefetch(c, p) \/ p.state = "success_has_more"
                        \/ p.state = "success" /\ SkipsUpload(c)
  <2>1. o = Outcome(new, state, Reported(c, p), refetch, {})
    BY <1>2 DEF ApplyPatches
  <2>2. /\ new \in Copies /\ IsCopy(c, new) /\ copy.version <= new.version
        /\ new.version = IF p.hi # 0 THEN p.hi
                         ELSE IF uploaded THEN run.cache[c].version + 1 ELSE copy.version
    BY CaughtUpIs
  <2>3. /\ p.state \in Success \cup Conflict /\ p.state # "blocked"
        /\ state = p.state
        /\ Uploads(c) <=> (run.pending[c] # Nothing /\ run.cache[c].initialized)
    BY DEF Fits, Success, Conflict, Uploads
  <2>4. Reported(c, p) \in Values
    BY <1>0, MergedTyped DEF Reported
  <2>5. /\ refetch \in BOOLEAN
        /\ ~refetch => /\ p.state # "success_has_more"
                       /\ ~(p.state = "success" /\ SkipsUpload(c))
    OBVIOUS
  <2> HIDE DEF o, new, refetch
  <2>6. /\ o.copy = new /\ o.state = p.state /\ o.mutations = Reported(c, p)
        /\ o.refetch = refetch /\ o.needs = {}
    BY <2>1, <2>3 DEF Outcome
  <2>7. Advances(c, o)
    BY <1>0, <2>2, <2>6, CopyIs DEF Advances
  <2>8. WellFormed(o) /\ Justified(c, o)
    BY <2>3, <2>4, <2>5, <2>6 DEF WellFormed, Justified, States, Success, Conflict
  <2>9. Complete(c, p, o)
    <3> SUFFICES ASSUME p.state \in Success, ~refetch
                 PROVE  /\ p.state = "success"
                        /\ run.pending[c] # Nothing => Uploads(c)
                        /\ Latest(c, p) => new.version = Len(log[c])
      BY <2>6 DEF Complete
    <3>1. p.state = "success" /\ (run.pending[c] # Nothing => Uploads(c))
      BY <2>5 DEF Success, SkipsUpload
    <3>2. ASSUME Latest(c, p) PROVE new.version = Len(log[c])
      <4>1. CASE Uploads(c)
        BY <1>0, <2>2, <3>1, <3>2, <4>1 DEF Latest
      <4>2. CASE ~Uploads(c)
        BY <1>0, <2>2, <3>1, <3>2, <4>2 DEF Latest
      <4> QED BY <4>1, <4>2
    <3> QED BY <3>1, <3>2
  <2>10. Tells(c, p, o)
    <3> SUFFICES ASSUME NEW i \in Indexes, NEW v \in 1..new.version,
                        IsLast(log[c], 1, new.version, i, v),
                        v > run.cache[c].version, v > p.snapshot
                 PROVE  \/ Reported(c, p)[i] = log[c][v].set[i]
                        \/ log[c][v].set = run.pending[c]
      BY <1>0, <2>2, <2>6, CopyIs DEF Tells
    <3>1. new.version \in Nat /\ v \in Nat /\ v > copy.version
      BY <1>0, <2>2, CopyIs
    <3>2. CASE p.hi # 0
      <4>1. new.version = p.hi /\ copy.version = p.lo - 1
        BY <2>2, <3>2 DEF FollowsOn
      <4>2. v \in p.lo..p.hi
        BY <1>0, <3>1, <4>1
      <4>3. IsLast(log[c], p.lo, p.hi, i, v)
        BY <1>0, <4>1, <4>2 DEF IsLast
      <4> QED BY <1>0, <4>3, MergedLast DEF Reported
    <3>3. CASE p.hi = 0
      <4>1. uploaded /\ v = run.cache[c].version + 1
        BY <1>0, <2>2, <3>1, <3>3
      <4> QED BY <4>1 DEF Fits
    <3> QED BY <3>2, <3>3
  <2> QED BY <2>7, <2>8, <2>9, <2>10 DEF Processes, o
<1> QED BY <1>1, <1>2

\* processCollectionRound.
LEMMA ProcessIs ==
  ASSUME TypeOK, Cached, Answered, run.stage = "answered", NEW c \in run.toSync
  PROVE  Processes(c, run.answers[c], Process(c, run.answers[c]))
<1> DEFINE p == run.answers[c]
           copy == run.cache[c]
           locked == IF p.snapshot = 0 THEN {}
                     ELSE {k \in SnapshotKeys(c, p.snapshot) : Lacks(k)}
           new == Bootstrapped(copy, c, p.snapshot)
<1>1. c \in Collections /\ p \in Payloads /\ copy \in Copies /\ IsCopy(c, copy)
  BY RunIs, CacheIs DEF TypeOK
<1>2. CASE Refuses(p)
  <2> DEFINE state == IF p.state = "missing" THEN "error_retry" ELSE p.state
  <2>1. Process(c, p) = Outcome(copy, state, Nothing, FALSE, {}) /\ state \in Errors
    BY <1>2 DEF Process, Refuses, Errors
  <2> HIDE DEF p, state
  <2>2. Processes(c, p, Outcome(copy, state, Nothing, FALSE, {}))
    BY <1>1, <2>1, UnusableIs
  <2> QED BY <2>1, <2>2 DEF p
<1>3. CASE ~Refuses(p) /\ p.state = "no_download"
  <2>1. Process(c, p) = Outcome(copy, "error_retry", Nothing, TRUE, {})
    BY <1>3 DEF Process
  <2> HIDE DEF p
  <2>2. Processes(c, p, Outcome(copy, "error_retry", Nothing, TRUE, {}))
    BY <1>1, UnusableIs DEF Errors
  <2> QED BY <2>1, <2>2 DEF p
<1>4. CASE ~Refuses(p) /\ p.state # "no_download"
  <2>1. Fits(c, p)
    BY <1>4 DEF Answered
  <2>2. p.snapshot \in 0..Len(log[c]) /\ Len(log[c]) \in Nat
    BY <1>1, <2>1, PayloadIs, CacheIs DEF Fits
  <2>3. CASE locked # {}
    <3>1. Process(c, p) = Outcome(copy, "blocked", Nothing, ConflictRefetch(c, p), locked)
      BY <1>4, <2>3 DEF Process
    <3>2. \A k \in locked : Lacks(k) /\ \E v \in 1..Len(log[c]) : k = log[c][v].key
      BY <2>2 DEF SnapshotKeys
    <3> HIDE DEF p, locked
    <3>3. locked \in SUBSET Keys
      BY <1>1, <3>2, LogKey
    <3>4. \E v \in 1..Len(log[c]) : Lacks(log[c][v].key)
      BY <2>3, <3>2
    <3>5. copy.version <= copy.version
      BY <1>1, CopyIs
    <3>6. Processes(c, p, Outcome(copy, "blocked", Nothing, ConflictRefetch(c, p), locked))
      BY <1>1, <3>2, <3>3, <3>4, <3>5, RefetchIs, BlockedIs
    <3> QED BY <3>1, <3>6 DEF p
  <2>4. CASE locked = {}
    <3>1. Process(c, p) = ApplyPatches(c, p, new)
      BY <1>4, <2>4 DEF Process
    <3>2. /\ new \in Copies /\ IsCopy(c, new) /\ copy.version <= new.version
          /\ new.version = IF p.snapshot = 0 THEN copy.version ELSE p.snapshot
          /\ new.initialized <=> (copy.initialized \/ p.snapshot # 0)
      BY <1>1, <2>1, <2>2, CacheIs, BootstrappedIs DEF Fits
    <3> HIDE DEF p, new, locked
    <3>3. CASE p.hi = 0 \/ FollowsOn(new, p.lo)
      <4>1. Processes(c, p, ApplyPatches(c, p, new))
        BY <1>1, <1>4, <2>1, <3>2, <3>3, ApplyPatchesIs
      <4> QED BY <3>1, <4>1 DEF p
    <3>4. CASE p.hi # 0 /\ ~FollowsOn(new, p.lo)
      <4>1. ApplyPatches(c, p, new) = Outcome(new, "error_retry", Nothing, TRUE, {})
        BY <3>4 DEF ApplyPatches
      <4> DEFINE o == Outcome(new, "error_retry", Nothing, TRUE, {})
      <4>2. /\ o.copy = new /\ o.state = "error_retry" /\ o.mutations = Nothing
            /\ o.refetch = TRUE /\ o.needs = {}
        BY DEF Outcome
      <4> HIDE DEF o
      <4>3. Advances(c, o)
        BY <3>2, <4>2 DEF Advances
      <4>4. WellFormed(o) /\ Justified(c, o) /\ Complete(c, p, o) /\ Tells(c, p, o)
        BY <4>2, NothingTyped
           DEF WellFormed, Justified, Complete, Tells, States, Errors, Success, Conflict
      <4> QED BY <3>1, <4>1, <4>3, <4>4 DEF Processes, o, p
    <3> QED BY <3>3, <3>4
  <2> QED BY <2>3, <2>4
<1> QED BY <1>2, <1>3, <1>4

-----------------------------------------------------------------------------
(* What the server answers.                                                *)

LEMMA AnswerIs ==
  ASSUME AppStateAssumption, TypeOK, Cached, NEW c \in Collections,
         NEW n \in 1..MaxWrites, NEW page \in 1..Page
  PROVE  LET p == AnswerTo(c, n, page)
             all == Len(log[c])
         IN /\ Accepts(c) => p = Payload("success", all + 1, 0, 1, 0)
            /\ ~Accepts(c) =>
                 /\ p.version = all /\ p.snapshot \in 0..all /\ p.lo \in Nat /\ p.hi \in 0..all
                 /\ 1 <= p.lo /\ (p.hi = 0 \/ p.lo <= p.hi)
                 /\ p.snapshot = 0 \/ ~run.cache[c].initialized
                 /\ p.hi = 0 /\ p.snapshot = 0 /\ ~run.cache[c].initialized => all = 0
                 /\ p.state \in IF Uploads(c) THEN Conflict ELSE Success
                 /\ p.state = "success" =>
                      all = IF p.hi # 0 THEN p.hi
                            ELSE IF p.snapshot # 0 THEN p.snapshot ELSE run.cache[c].version
                 /\ p \in Payloads
<1> DEFINE p == AnswerTo(c, n, page)
           all == Len(log[c])
           asks == ~run.cache[c].initialized
           from == IF asks THEN Least(n, all) ELSE run.cache[c].version
           to == Least(from + page, all)
<1>0. /\ all \in Nat /\ n \in Nat \ {0} /\ page \in Nat \ {0}
      /\ run.cache[c].version \in 0..all /\ run.cache[c].initialized \in BOOLEAN
      /\ asks => run.cache[c].version = 0
  BY CacheIs, CopyIs DEF AppStateAssumption, IsCopy
<1>1. /\ from \in 0..all /\ to \in from..all
      /\ asks /\ from = 0 => all = 0
      /\ to = from => from = all
  BY <1>0 DEF Least
<1>2. CASE Accepts(c)
  BY <1>2 DEF AnswerTo, Accepts
<1>3. CASE ~Accepts(c)
  <2> DEFINE state == IF Uploads(c)
                      THEN IF to < all THEN "conflict_has_more" ELSE "conflict"
                      ELSE IF to < all THEN "success_has_more" ELSE "success"
  <2>1. p = Payload(state, all, IF asks THEN from ELSE 0, from + 1, IF to > from THEN to ELSE 0)
    BY <1>3 DEF AnswerTo
  <2>2. /\ state \in IF Uploads(c) THEN Conflict ELSE Success
        /\ state = "success" => ~Uploads(c) /\ to = all
    BY <1>0, <1>1 DEF Conflict, Success
  <2>3. state \in States
    BY <2>2 DEF States
  <2> HIDE DEF from, to, state, p
  <2>4. /\ p.state = state /\ p.version = all /\ p.snapshot = (IF asks THEN from ELSE 0)
        /\ p.lo = from + 1 /\ p.hi = IF to > from THEN to ELSE 0
    BY <2>1 DEF Payload
  <2>5. p \in Payloads
    BY <1>0, <1>1, <2>1, <2>3 DEF Payload, Payloads
  <2>6. /\ p.version = all /\ p.snapshot \in 0..all /\ p.lo \in Nat /\ p.hi \in 0..all
        /\ 1 <= p.lo /\ (p.hi = 0 \/ p.lo <= p.hi)
        /\ p.snapshot = 0 \/ asks
    BY <1>0, <1>1, <2>4
  <2>7. /\ p.hi = 0 /\ p.snapshot = 0 /\ asks => all = 0
        /\ p.state = "success" =>
             all = IF p.hi # 0 THEN p.hi
                   ELSE IF p.snapshot # 0 THEN p.snapshot ELSE run.cache[c].version
    BY <1>0, <1>1, <2>2, <2>4 DEF from
  <2> QED BY <1>3, <2>2, <2>4, <2>5, <2>6, <2>7 DEF p
<1> QED BY <1>2, <1>3

-----------------------------------------------------------------------------
(* Types.                                                                  *)

LEMMA EmptyTyped ==
  ASSUME AppStateAssumption
  PROVE  /\ Nothing \in Values /\ Nowhere \in [Collections -> Values] /\ Fresh \in Copies
         /\ NoAnswers \in [Collections -> Payloads]
         /\ NoResults \in [Collections -> [state : States, mutations : Values]]
         /\ NoOutcome \in [Collections -> States \cup {"absent"}]
<1>1. Nothing \in Values
  BY DEF Nothing, Values
<1>2. Nowhere \in [Collections -> Values] /\ Fresh \in Copies
  BY <1>1 DEF Nowhere, Fresh, Copies
<1>3. Payload("missing", 0, 0, 1, 0) \in Payloads
  BY DEF Payload, Payloads
<1>4. NoAnswers \in [Collections -> Payloads]
  BY <1>3 DEF NoAnswers
<1>5. "error_retry" \in States
  BY DEF States, Errors
<1>6. NoResults \in [Collections -> [state : States, mutations : Values]]
  BY <1>1, <1>5 DEF NoResults
<1> QED BY <1>1, <1>2, <1>4, <1>6 DEF NoOutcome

LEMMA IdleIs ==
  ASSUME AppStateAssumption
  PROVE  /\ Idle \in Runs
         /\ Idle.stage = "none" /\ Idle.collections = {} /\ Idle.toSync = {}
         /\ Idle.pending = Nowhere /\ Idle.iteration = 0
         /\ Idle.cache = [c \in Collections |-> Fresh] /\ Idle.unsaved = {}
         /\ Idle.missing = {} /\ Idle.answers = NoAnswers /\ Idle.results = NoResults
         /\ Idle.silent = [c \in Collections |-> 0]
<1>1. /\ "none" \in Stages /\ 0 \in 0..MaxRounds
      /\ [c \in Collections |-> Fresh] \in [Collections -> Copies]
      /\ [c \in Collections |-> 0] \in [Collections -> Nat]
  BY EmptyTyped DEF AppStateAssumption, Stages
<1>2. Idle \in Runs
  BY <1>1, EmptyTyped DEF Idle, Runs
<1> QED BY <1>2 DEF Idle

\* A run that begins with these collections and mutations.
Beginning(r, collections, pending) ==
  /\ r \in Runs
  /\ r.stage = "round" /\ r.collections = collections /\ r.toSync = collections
  /\ r.pending = pending /\ r.iteration = 1
  /\ \A c \in collections : r.cache[c] = store.have[c]
  /\ \A c \in Collections \ collections : r.cache[c] = Fresh
  /\ r.unsaved = {} /\ r.missing = {} /\ r.answers = NoAnswers
  /\ r.results = NoResults /\ r.silent = [c \in Collections |-> 0]
LEMMA StartedIs ==
  ASSUME AppStateAssumption, TypeOK, NEW collections \in SUBSET Collections,
         NEW pending \in [Collections -> Values]
  PROVE  Beginning(Started(collections, pending), collections, pending)
<1> DEFINE cache == [c \in Collections |-> IF c \in collections THEN store.have[c] ELSE Fresh]
           r == Started(collections, pending)
<1>1. cache \in [Collections -> Copies] /\ 1 \in 0..MaxRounds /\ "round" \in Stages
  BY EmptyTyped DEF TypeOK, AppStateAssumption, Stages
<1>5. /\ \A c \in collections : cache[c] = store.have[c]
      /\ \A c \in Collections \ collections : cache[c] = Fresh
  OBVIOUS
<1>2. r = [Idle EXCEPT !.stage = "round", !.collections = collections, !.toSync = collections,
                       !.pending = pending, !.iteration = 1, !.cache = cache]
  BY DEF Started
<1> HIDE DEF cache, r
<1>3. /\ r.stage = "round" /\ r.collections = collections /\ r.toSync = collections
      /\ r.pending = pending /\ r.iteration = 1 /\ r.cache = cache
      /\ r.unsaved = {} /\ r.missing = {} /\ r.answers = NoAnswers
      /\ r.results = NoResults /\ r.silent = [c \in Collections |-> 0]
  BY <1>2 DEF Idle
<1>4. r \in Runs
  BY <1>1, <1>2, IdleIs DEF Runs
<1>6. Beginning(r, collections, pending)
  BY <1>3, <1>4, <1>5 DEF Beginning
<1> QED BY <1>6 DEF r

-----------------------------------------------------------------------------
(* What a round does to a run.                                             *)

\* The versions that are counted as silent.
LEMMA SilentIs ==
  ASSUME TypeOK, Cached, NEW c \in Collections, NEW o, o.copy.version \in Nat
  PROVE  LET n == SilentUpTo(c, o)
         IN /\ n \in Nat /\ run.silent[c] <= n
            /\ run.results[c].mutations # Nothing => run.cache[c].version <= n
            /\ o.state # "blocked" => run.answers[c].snapshot <= n
            /\ o.state \in Errors \cup {"blocked"} => o.copy.version <= n
<1> DEFINE S == {run.silent[c]}
                \cup {run.cache[c].version : x \in {run.results[c].mutations} \ {Nothing}}
                \cup {run.answers[c].snapshot : x \in {o.state} \ {"blocked"}}
                \cup {o.copy.version : x \in {o.state} \cap (Errors \cup {"blocked"})}
           b == run.silent[c] + run.cache[c].version + run.answers[c].snapshot + o.copy.version
<1>1. /\ run.silent[c] \in Nat /\ run.cache[c].version \in Nat
      /\ run.answers[c].snapshot \in Nat /\ o.copy.version \in Nat
  BY RunIs, CacheIs, PayloadIs DEF TypeOK
<1>2. \A n \in S : n \in {run.silent[c], run.cache[c].version, run.answers[c].snapshot,
                          o.copy.version}
  OBVIOUS
<1>3. S \in SUBSET Nat /\ S # {} /\ b \in Nat /\ \A n \in S : n <= b
  <2>1. b \in Nat /\ run.silent[c] <= b /\ run.cache[c].version <= b
        /\ run.answers[c].snapshot <= b /\ o.copy.version <= b
    BY <1>1
  <2>2. run.silent[c] \in S
    OBVIOUS
  <2> HIDE DEF S, b
  <2> QED BY <1>1, <1>2, <2>1, <2>2
<1>4. /\ run.silent[c] \in S
      /\ run.results[c].mutations # Nothing => run.cache[c].version \in S
      /\ o.state # "blocked" => run.answers[c].snapshot \in S
      /\ o.state \in Errors \cup {"blocked"} => o.copy.version \in S
  OBVIOUS
<1>5. SilentUpTo(c, o) = Max(S)
  BY DEF SilentUpTo
<1> HIDE DEF S, b
<1>6. Max(S) \in S /\ \A n \in S : n <= Max(S)
  BY <1>3, MaxIs
<1> QED BY <1>3, <1>4, <1>5, <1>6

\* The fields of a run once the answers are processed.
LEMMA ProcessedIs ==
  ASSUME AppStateAssumption, TypeOK, Cached, Answered, run.stage = "answered"
  PROVE  /\ Processed \in Runs
         /\ Processed.stage = "answered" /\ Processed.collections = run.collections
         /\ Processed.pending = run.pending /\ Processed.iteration = run.iteration
         /\ Processed.toSync = {c \in run.toSync : Process(c, run.answers[c]).refetch}
         /\ Processed.missing = run.missing \cup Needs
         /\ Processed.answers = NoAnswers
         /\ Processed.unsaved = run.unsaved \cup
              {c \in run.toSync : Process(c, run.answers[c]).copy # run.cache[c]}
         /\ \A c \in Collections \ run.toSync :
              /\ Processed.cache[c] = run.cache[c] /\ Processed.results[c] = run.results[c]
              /\ Processed.silent[c] = run.silent[c]
         /\ \A c \in run.toSync :
              LET o == Process(c, run.answers[c])
              IN /\ Processed.cache[c] = o.copy
                 /\ Processed.results[c] = [state |-> o.state, mutations |-> o.mutations]
                 /\ Processed.silent[c] = SilentUpTo(c, o)
<1> DEFINE o(c) == Process(c, run.answers[c])
           cache == [c \in Collections |-> IF c \in run.toSync THEN o(c).copy ELSE run.cache[c]]
           results == [c \in Collections |-> IF c \in run.toSync
                                             THEN [state |-> o(c).state, mutations |-> o(c).mutations]
                                             ELSE run.results[c]]
           silent == [c \in Collections |-> IF c \in run.toSync THEN SilentUpTo(c, o(c))
                                            ELSE run.silent[c]]
           unsaved == run.unsaved \cup {c \in run.toSync : o(c).copy # run.cache[c]}
           toSync == {c \in run.toSync : o(c).refetch}
<1>1. run \in Runs /\ run.toSync \subseteq Collections
  BY RunIs DEF TypeOK
<1>2. \A c \in run.toSync : Outcomes[c] = o(c)
  BY DEF Outcomes
<1>3. Processed = [run EXCEPT !.cache = cache, !.unsaved = unsaved,
                              !.missing = run.missing \cup Needs, !.results = results,
                              !.silent = silent, !.toSync = toSync, !.answers = NoAnswers]
  <2>1. /\ cache = [c \in Collections |-> IF c \in run.toSync THEN Outcomes[c].copy
                                          ELSE run.cache[c]]
        /\ results = [c \in Collections |->
                        IF c \in run.toSync
                        THEN [state |-> Outcomes[c].state, mutations |-> Outcomes[c].mutations]
                        ELSE run.results[c]]
        /\ silent = [c \in Collections |-> IF c \in run.toSync THEN SilentUpTo(c, Outcomes[c])
                                           ELSE run.silent[c]]
        /\ unsaved = run.unsaved \cup {c \in run.toSync : Outcomes[c].copy # run.cache[c]}
        /\ toSync = {c \in run.toSync : Outcomes[c].refetch}
    BY <1>2
  <2> HIDE DEF cache, results, silent, unsaved, toSync
  <2> QED BY <2>1 DEF Processed
<1>4. \A c \in run.toSync : Processes(c, run.answers[c], o(c))
  BY ProcessIs
<1>5. cache \in [Collections -> Copies]
  BY <1>1, <1>4, RunIs DEF Processes, Advances
<1>6. results \in [Collections -> [state : States, mutations : Values]]
  BY <1>1, <1>4, RunIs DEF Processes, WellFormed
<1>7. silent \in [Collections -> Nat]
  <2>1. ASSUME NEW c \in run.toSync PROVE SilentUpTo(c, o(c)) \in Nat
    BY <1>1, <1>4, CopyIs, SilentIs DEF Processes, Advances
  <2> QED BY <1>1, <2>1, RunIs
<1>8. run.missing \cup Needs \subseteq Keys
  <2>1. \A c \in run.toSync : Outcomes[c].needs \subseteq Keys
    BY <1>2, <1>4 DEF Processes, WellFormed
  <2> QED BY <1>1, <2>1, RunIs DEF Needs
<1>9. unsaved \subseteq Collections /\ toSync \subseteq Collections
  BY <1>1, RunIs
<1>10. /\ \A c \in Collections \ run.toSync :
            cache[c] = run.cache[c] /\ results[c] = run.results[c] /\ silent[c] = run.silent[c]
       /\ \A c \in run.toSync :
            /\ cache[c] = o(c).copy /\ silent[c] = SilentUpTo(c, o(c))
            /\ results[c] = [state |-> o(c).state, mutations |-> o(c).mutations]
  BY <1>1
<1> HIDE DEF cache, results, silent, unsaved, toSync
<1>11. /\ Processed.stage = "answered" /\ Processed.collections = run.collections
       /\ Processed.pending = run.pending /\ Processed.iteration = run.iteration
       /\ Processed.toSync = toSync /\ Processed.missing = run.missing \cup Needs
       /\ Processed.answers = NoAnswers /\ Processed.unsaved = unsaved
       /\ Processed.cache = cache /\ Processed.results = results /\ Processed.silent = silent
  BY <1>1, <1>3 DEF Runs
<1>12. Processed \in Runs
  BY <1>1, <1>3, <1>5, <1>6, <1>7, <1>8, <1>9, EmptyTyped DEF Runs
<1> QED BY <1>10, <1>11, <1>12 DEF toSync, unsaved

\* On to the next round, or to the end with what is left as failed.
GivenUp(r, a, c) ==
  /\ a.results[c] = NoResults[c]
  /\ a.silent[c] = IF r.cache[c].initialized THEN r.cache[c].version ELSE r.silent[c]
LEMMA AdvanceIs ==
  ASSUME AppStateAssumption, NEW r \in Runs
  PROVE  LET a == Advance(r)
         IN /\ a \in Runs /\ a.stage \in {"round", "saving"}
            /\ a.collections = r.collections /\ a.pending = r.pending /\ a.cache = r.cache
            /\ a.unsaved = r.unsaved /\ a.missing = r.missing /\ a.answers = r.answers
            /\ a.stage = "saving" => a.toSync = {}
            /\ a.toSync \in {r.toSync, {}}
            /\ \A c \in Collections : c \in r.toSync \ a.toSync => GivenUp(r, a, c)
            /\ \A c \in Collections : c \notin r.toSync \ a.toSync =>
                 a.results[c] = r.results[c] /\ a.silent[c] = r.silent[c]
<1>0. /\ {"round", "saving"} \subseteq Stages
      /\ r.iteration \in 0..MaxRounds /\ MaxRounds \in Nat \ {0}
      /\ r.results \in [Collections -> [state : States, mutations : Values]]
      /\ r.silent \in [Collections -> Nat] /\ r.cache \in [Collections -> Copies]
      /\ r.toSync \subseteq Collections
  BY DEF Runs, Stages, AppStateAssumption
<1>1. CASE r.toSync = {}
  <2>1. Advance(r) = [r EXCEPT !.stage = "saving"]
    BY <1>1 DEF Advance
  <2> QED BY <1>0, <1>1, <2>1 DEF Runs
<1>2. CASE r.toSync # {} /\ RoundsOver(r)
  <2> DEFINE results == [c \in Collections |-> IF c \in r.toSync THEN NoResults[c] ELSE r.results[c]]
             silent == [c \in Collections |-> IF c \in r.toSync /\ r.cache[c].initialized
                                              THEN r.cache[c].version ELSE r.silent[c]]
  <2>1. Advance(r) = [r EXCEPT !.stage = "saving", !.toSync = {}, !.results = results,
                               !.silent = silent]
    BY <1>2 DEF Advance
  <2>2. results \in [Collections -> [state : States, mutations : Values]]
    BY <1>0, EmptyTyped
  <2>3. silent \in [Collections -> Nat]
    BY <1>0, CopyIs
  <2>4. /\ \A c \in Collections : c \in r.toSync =>
             /\ results[c] = NoResults[c]
             /\ silent[c] = IF r.cache[c].initialized THEN r.cache[c].version ELSE r.silent[c]
        /\ \A c \in Collections : c \notin r.toSync =>
             results[c] = r.results[c] /\ silent[c] = r.silent[c]
    OBVIOUS
  <2> HIDE DEF results, silent
  <2> DEFINE a == Advance(r)
  <2>5. /\ a.stage = "saving" /\ a.toSync = {} /\ a.results = results /\ a.silent = silent
        /\ a.collections = r.collections /\ a.pending = r.pending /\ a.cache = r.cache
        /\ a.unsaved = r.unsaved /\ a.missing = r.missing /\ a.answers = r.answers
    BY <2>1 DEF Runs
  <2>6. a \in Runs
    BY <1>0, <2>1, <2>2, <2>3 DEF Runs
  <2> HIDE DEF a
  <2> QED BY <2>4, <2>5, <2>6 DEF GivenUp, a
<1>3. CASE r.toSync # {} /\ ~RoundsOver(r)
  <2>1. Advance(r) = [r EXCEPT !.stage = "round", !.iteration = @ + 1]
    BY <1>3 DEF Advance
  <2>2. r.iteration + 1 \in 0..MaxRounds
    <3>1. r.iteration # MaxRounds
      BY <1>3 DEF RoundsOver
    <3> QED BY SMTT(20), <1>0, <3>1
  <2> QED BY <1>0, <1>3, <2>1, <2>2 DEF Runs
<1> QED BY <1>1, <1>2, <1>3

\* The run after its answers are processed.
RoundEffect ==
  /\ run' \in Runs
  /\ run'.stage \in {"notifying", "round", "saving"}
  /\ run'.stage = "saving" => run'.toSync = {}
  /\ run'.collections = run.collections /\ run'.pending = run.pending
  /\ run'.toSync \subseteq {c \in run.toSync : Process(c, run.answers[c]).refetch}
  /\ run'.missing = run.missing \cup Needs
  /\ run'.unsaved = run.unsaved \cup
       {c \in run.toSync : Process(c, run.answers[c]).copy # run.cache[c]}
  /\ \A c \in Collections \ run.toSync :
       /\ run'.cache[c] = run.cache[c] /\ run'.results[c] = run.results[c]
       /\ run'.silent[c] = run.silent[c]
  /\ \A c \in run.toSync :
       LET o == Process(c, run.answers[c])
       IN /\ run'.cache[c] = o.copy
          /\ \/ /\ run'.results[c] = [state |-> o.state, mutations |-> o.mutations]
                /\ run'.silent[c] = SilentUpTo(c, o)
                /\ c \in run'.toSync \/ ~o.refetch
             \/ /\ run'.results[c] = NoResults[c]
                /\ run'.silent[c] = IF o.copy.initialized THEN o.copy.version
                                    ELSE SilentUpTo(c, o)
LEMMA RoundIs ==
  ASSUME AppStateAssumption, TypeOK, Cached, Answered, ProcessRound
  PROVE  RoundEffect
<1> DEFINE r == Processed
           a == Advance(r)
<1>0. run.stage = "answered" /\ run.toSync \subseteq Collections
  BY RunIs DEF ProcessRound, TypeOK
<1>1. /\ r \in Runs
      /\ r.collections = run.collections /\ r.pending = run.pending
      /\ r.toSync = {c \in run.toSync : Process(c, run.answers[c]).refetch}
      /\ r.missing = run.missing \cup Needs
      /\ r.unsaved = run.unsaved \cup
           {c \in run.toSync : Process(c, run.answers[c]).copy # run.cache[c]}
      /\ \A c \in Collections \ run.toSync :
           /\ r.cache[c] = run.cache[c] /\ r.results[c] = run.results[c]
           /\ r.silent[c] = run.silent[c]
      /\ \A c \in run.toSync :
           LET o == Process(c, run.answers[c])
           IN /\ r.cache[c] = o.copy
              /\ r.results[c] = [state |-> o.state, mutations |-> o.mutations]
              /\ r.silent[c] = SilentUpTo(c, o)
  BY <1>0, ProcessedIs
<1> HIDE DEF r
<1>2. CASE Needs # {}
  <2>1. run' = [r EXCEPT !.stage = "notifying"] /\ "notifying" \in Stages
    BY <1>2 DEF ProcessRound, r, Stages
  <2>2. /\ run' \in Runs /\ run'.stage = "notifying"
        /\ run'.collections = r.collections /\ run'.pending = r.pending
        /\ run'.toSync = r.toSync /\ run'.missing = r.missing /\ run'.unsaved = r.unsaved
        /\ run'.cache = r.cache /\ run'.results = r.results /\ run'.silent = r.silent
    BY <1>1, <2>1 DEF Runs
  <2> QED BY <1>1, <2>2 DEF RoundEffect
<1>3. CASE Needs = {}
  <2>1. run' = a
    BY <1>3 DEF ProcessRound, r
  <2>2. /\ a \in Runs /\ a.stage \in {"round", "saving"}
        /\ a.collections = r.collections /\ a.pending = r.pending /\ a.cache = r.cache
        /\ a.unsaved = r.unsaved /\ a.missing = r.missing
        /\ a.stage = "saving" => a.toSync = {}
        /\ a.toSync \in {r.toSync, {}}
        /\ \A c \in Collections : c \in r.toSync \ a.toSync => GivenUp(r, a, c)
        /\ \A c \in Collections : c \notin r.toSync \ a.toSync =>
             a.results[c] = r.results[c] /\ a.silent[c] = r.silent[c]
    BY <1>1, AdvanceIs
  <2> HIDE DEF a
  <2>3. ASSUME NEW c \in run.toSync
        PROVE  LET o == Process(c, run.answers[c])
               IN /\ a.cache[c] = o.copy
                  /\ \/ /\ a.results[c] = [state |-> o.state, mutations |-> o.mutations]
                        /\ a.silent[c] = SilentUpTo(c, o)
                        /\ c \in a.toSync \/ ~o.refetch
                     \/ /\ a.results[c] = NoResults[c]
                        /\ a.silent[c] = IF o.copy.initialized THEN o.copy.version
                                         ELSE SilentUpTo(c, o)
    BY SMTT(20), <1>0, <1>1, <2>2 DEF GivenUp
  <2> QED BY <1>0, <1>1, <2>1, <2>2, <2>3 DEF RoundEffect
<1> QED BY <1>2, <1>3

\* The run after the missing keys were asked for.
NoticeEffect ==
  /\ run' \in Runs
  /\ run'.stage \in {"round", "saving"}
  /\ run'.stage = "saving" => run'.toSync = {}
  /\ run'.collections = run.collections /\ run'.pending = run.pending
  /\ run'.toSync \subseteq run.toSync
  /\ run'.missing = run.missing /\ run'.unsaved = run.unsaved /\ run'.cache = run.cache
  /\ \A c \in Collections : c \notin run.toSync \ run'.toSync =>
       run'.results[c] = run.results[c] /\ run'.silent[c] = run.silent[c]
  /\ \A c \in run.toSync \ run'.toSync : GivenUp(run, run', c)
LEMMA NoticeIs ==
  ASSUME AppStateAssumption, TypeOK, Notified
  PROVE  NoticeEffect
<1>1. run' = Advance(run) /\ run \in Runs /\ run.toSync \subseteq Collections
  BY RunIs DEF Notified, TypeOK
<1> QED BY <1>1, AdvanceIs DEF NoticeEffect

-----------------------------------------------------------------------------
(* How each variable changes.                                              *)

\* The log grows at its end.
LogGrows ==
  /\ log' \in [Collections -> Seq(Patches)]
  /\ \A c \in Collections :
       /\ Len(log[c]) \in Nat /\ Len(log'[c]) \in Nat /\ Len(log[c]) <= Len(log'[c])
       /\ \A v \in 1..Len(log[c]) : log'[c][v] = log[c][v]
       /\ \/ log'[c] = log[c]
          \/ \E e \in Patches : log'[c] = Append(log[c], e)

LEMMA GrowsIs ==
  ASSUME TypeOK, DOMAIN log' = Collections, log' = [c \in Collections |-> log'[c]],
         \A c \in Collections : \/ log'[c] = log[c]
                                \/ \E e \in Patches : log'[c] = Append(log[c], e)
  PROVE  LogGrows
<1>1. ASSUME NEW c \in Collections
      PROVE /\ log'[c] \in Seq(Patches)
            /\ Len(log[c]) \in Nat /\ Len(log'[c]) \in Nat /\ Len(log[c]) <= Len(log'[c])
            /\ \A v \in 1..Len(log[c]) : log'[c][v] = log[c][v]
  <2>1. log[c] \in Seq(Patches)
    BY DEF TypeOK
  <2>2. CASE log'[c] = log[c]
    BY <2>1, <2>2
  <2>3. CASE \E e \in Patches : log'[c] = Append(log[c], e)
    <3>1. PICK e \in Patches : log'[c] = Append(log[c], e)
      BY <2>3
    <3>2. \A q \in Seq(Patches) :
            /\ Append(q, e) \in Seq(Patches) /\ Len(Append(q, e)) = Len(q) + 1
            /\ Len(q) \in Nat
            /\ \A v \in 1..Len(q) : Append(q, e)[v] = q[v]
      OBVIOUS
    <3> QED BY <2>1, <3>1, <3>2
  <2> QED BY <2>2, <2>3
<1>2. log' \in [Collections -> Seq(Patches)]
  BY <1>1
<1> QED BY <1>1, <1>2 DEF LogGrows

LEMMA KeysAre ==
  ASSUME AppStateAssumption, TypeOK, store.keys # {}
  PROVE  ActiveKey \in Keys /\ store.keys \in SUBSET Nat
<1>1. store.keys \subseteq 1..MaxKey /\ MaxKey \in Nat
  BY DEF TypeOK, Keys, AppStateAssumption
<1>2. store.keys \in SUBSET Nat /\ \A k \in store.keys : k <= MaxKey
  BY <1>1
<1> QED BY <1>1, <1>2, MaxIs DEF ActiveKey, Keys

LEMMA LogSteps ==
  ASSUME AppStateAssumption, TypeOK, Cached, [Next]_vars
  PROVE  LogGrows
<1>0. log \in [Collections -> Seq(Patches)]
  BY DEF TypeOK
<1>1. CASE UNCHANGED log
  BY <1>0, <1>1, GrowsIs
<1>2. ASSUME NEW n, NEW page, ServerAnswers(n, page) PROVE LogGrows
  <2>1. log' = [c \in Collections |->
                  IF c \in run.toSync /\ Accepts(c) /\ ~Refuses(run'.answers[c])
                  THEN Append(log[c], [set |-> run.pending[c], key |-> ActiveKey])
                  ELSE log[c]]
    BY <1>2 DEF ServerAnswers
  <2>2. ASSUME NEW c \in Collections, c \in run.toSync, Accepts(c)
        PROVE  [set |-> run.pending[c], key |-> ActiveKey] \in Patches
    <3>1. store.keys # {}
      BY <1>2, <2>2 DEF ServerAnswers, NoKeyToUpload, Accepts
    <3> QED BY <3>1, KeysAre, RunIs DEF Patches, TypeOK
  <2> QED BY <2>1, <2>2, GrowsIs
<1>3. ASSUME NEW slot \in Changes, NEW k \in Keys, Publish(slot[1], slot[2], k) PROVE LogGrows
  <2>1. slot[1] \in Collections /\ slot[2] \in Indexes
    BY DEF AppStateAssumption, Slots
  <2> DEFINE w == hist.writes + 1
             e == [set |-> [Nothing EXCEPT ![slot[2]] = w], key |-> k]
  <2>2. w \in Writes
    BY <1>3 DEF Publish, TypeOK, Histories, Writes, AppStateAssumption
  <2>3. e \in Patches
    BY <2>2, NothingTyped DEF Patches, Values
  <2>4. log' = [log EXCEPT ![slot[1]] = Append(@, e)]
    BY <1>3 DEF Publish
  <2> HIDE DEF e
  <2> QED BY <1>0, <2>1, <2>3, <2>4, GrowsIs
<1>4. CASE \/ UNCHANGED vars \/ RoundThrows \/ ProcessRound \/ Notified \/ Save
           \/ QueryFails \/ SaveFails \/ FlushStep
           \/ \E slots \in Calls : EnqueueAndFlush(slots)
           \/ DirtyArrives \/ \E k \in Keys : KeyShareArrives(k)
  <2>1. UNCHANGED log
    BY <1>4 DEF vars, RoundThrows, ProcessRound, Notified, Save, QueryFails, SaveFails,
                FlushStep, FlushReturns, FlushThrows, FlushSettles, EnqueueAndFlush,
                DirtyArrives, KeyShareArrives
  <2> QED BY <1>1, <2>1
<1> QED BY <1>2, <1>3, <1>4 DEF Next, SyncStep

\* A run begins when there is none; it is answered, processed, dropped or saved.
Starts ==
  /\ run.stage = "none"
  /\ \E collections \in SUBSET Collections, pending \in [Collections -> Values] :
       run' = Started(collections, pending)
RunSteps ==
  \/ UNCHANGED <<run, store.have>>
  \/ Starts /\ UNCHANGED store.have
  \/ run' = Idle /\ UNCHANGED store.have
  \/ Save
  \/ \E n \in 1..MaxWrites, page \in 1..Page : ServerAnswers(n, page)
  \/ ProcessRound \/ Notified

LEMMA SyncedIs ==
  ASSUME NEW collections \in SUBSET Collections, NEW pending \in [Collections -> Values],
         run' = Synced(collections, pending)
  PROVE  UNCHANGED run \/ Starts
BY DEF Synced, Starts

LEMMA BeginningIs ==
  ASSUME AppStateAssumption, NEW f, f.queue \in [Collections -> Values], NEW h, FlushOn(f, h)
  PROVE  UNCHANGED run \/ Starts
<1> DEFINE touched == {c \in Collections : f.queue[c] # Nothing}
<1>1. touched \in SUBSET Collections
  OBVIOUS
<1>2. UNCHANGED run \/ run' = Synced(touched, f.queue)
  BY DEF FlushOn
<1> HIDE DEF touched
<1> QED BY <1>1, <1>2, SyncedIs

LEMMA FlushIs ==
  ASSUME flush \in Flushes
  PROVE  /\ flush.queue \in [Collections -> Values] /\ flush.batch \in [Collections -> Values]
         /\ flush.stage \in {"none", "syncing", "returned", "threw", "ended"}
         /\ flush.own \in BOOLEAN /\ flush.failed \in BOOLEAN
         /\ flush.outcome \in [Collections -> States \cup {"absent"}]
         /\ flush.askers \in SUBSET Writes
BY DEF Flushes

\* Queues with a user's call.
LEMMA EnqueuedIs ==
  ASSUME AppStateAssumption, TypeOK, NEW w \in Writes, NEW slots
  PROVE  LET f == Enqueue(flush, w, slots)
         IN /\ f \in Flushes
            /\ f.queue = [c \in Collections |-> [i \in Indexes |->
                            IF <<c, i>> \in slots THEN w ELSE flush.queue[c][i]]]
            /\ f.askers = flush.askers \cup {w}
            /\ f.batch = flush.batch /\ f.stage = flush.stage /\ f.own = flush.own
            /\ f.outcome = flush.outcome /\ f.failed = flush.failed
<1> DEFINE queue == [c \in Collections |-> [i \in Indexes |->
                       IF <<c, i>> \in slots THEN w ELSE flush.queue[c][i]]]
           f == Enqueue(flush, w, slots)
<1>1. f = [flush EXCEPT !.queue = queue, !.askers = flush.askers \cup {w}]
  BY DEF Enqueue
<1>2. flush \in Flushes
  BY DEF TypeOK
<1>3. queue \in [Collections -> Values]
  BY <1>2, FlushIs DEF Values
<1>4. flush.askers \cup {w} \in SUBSET Writes
  BY <1>2, FlushIs
<1> HIDE DEF queue, f
<1>5. f \in Flushes
  BY <1>1, <1>2, <1>3, <1>4 DEF Flushes
<1>6. /\ f.queue = queue /\ f.askers = flush.askers \cup {w}
      /\ f.batch = flush.batch /\ f.stage = flush.stage /\ f.own = flush.own
      /\ f.outcome = flush.outcome /\ f.failed = flush.failed
  BY <1>1, <1>2 DEF Flushes
<1> QED BY <1>5, <1>6 DEF queue, f

LEMMA RunStepsAre ==
  ASSUME AppStateAssumption, TypeOK, [Next]_vars
  PROVE  RunSteps
<1>1. CASE \/ UNCHANGED vars \/ FlushThrows \/ FlushSettles
           \/ \E slot \in Changes, k \in Keys : Publish(slot[1], slot[2], k)
  BY <1>1 DEF vars, FlushThrows, FlushSettles, Publish, RunSteps
<1>2. CASE RoundThrows \/ QueryFails \/ SaveFails
  BY <1>2 DEF RoundThrows, QueryFails, SaveFails, RunThrows, RunSteps
<1>3. CASE \/ Save \/ ProcessRound \/ Notified
           \/ \E n \in 1..MaxWrites, page \in 1..Page : ServerAnswers(n, page)
  BY <1>3 DEF RunSteps
<1>4. CASE DirtyArrives \/ \E k \in Keys : KeyShareArrives(k)
  <2>1. run' = Synced(Collections, Nowhere) /\ UNCHANGED store.have
    BY <1>4 DEF DirtyArrives, KeyShareArrives, SyncAll, TypeOK
  <2> QED BY <2>1, EmptyTyped, SyncedIs DEF RunSteps
<1>5. CASE FlushReturns
  <2> DEFINE f == [flush EXCEPT !.batch = Nowhere]
  <2>1. UNCHANGED store.have /\ (UNCHANGED run \/ \E h : FlushOn(f, h))
    BY <1>5 DEF FlushReturns
  <2>2. f.queue \in [Collections -> Values]
    BY FlushIs DEF TypeOK, Flushes
  <2> HIDE DEF f
  <2> QED BY <2>1, <2>2, BeginningIs DEF RunSteps
<1>6. ASSUME NEW slots \in Calls, EnqueueAndFlush(slots) PROVE RunSteps
  <2> DEFINE w == hist.writes + 1
             f == Enqueue(flush, w, slots)
  <2>1. w \in Writes
    BY <1>6 DEF EnqueueAndFlush, TypeOK, Histories, Writes, AppStateAssumption
  <2>2. UNCHANGED store.have /\ (UNCHANGED run \/ FlushOn(f, Noted(w, slots)))
    BY <1>6 DEF EnqueueAndFlush
  <2>3. f.queue \in [Collections -> Values]
    BY <2>1, EnqueuedIs, FlushIs DEF Flushes
  <2> HIDE DEF f
  <2> QED BY <2>2, <2>3, BeginningIs DEF RunSteps
<1> QED BY <1>1, <1>2, <1>3, <1>4, <1>5, <1>6 DEF Next, SyncStep, FlushStep

-----------------------------------------------------------------------------
(* The invariant of the copies.                                            *)

\* What can be wrong with an answer.
LEMMA SpoiledIs ==
  ASSUME AppStateAssumption, TypeOK, Cached, NEW c \in Collections,
         NEW q \in Payloads, NEW p \in Spoiled(c, q)
  PROVE  /\ p \in Payloads
         /\ \/ Refuses(p) \/ p.state = "no_download"
            \/ /\ p.lo = 1 /\ p.hi \in 1..run.cache[c].version \cup 1..q.snapshot
               /\ p.version = q.version /\ p.snapshot = q.snapshot /\ p.state = q.state
<1>0. q.state \in States \cup {"missing", "no_download"}
      /\ q.version \in Nat /\ q.snapshot \in Nat /\ q.lo \in Nat /\ q.hi \in Nat
      /\ run.cache[c].version \in Nat
  BY PayloadIs, CacheIs, CopyIs
<1>1. CASE \E s \in {"missing"} \cup Errors : p = [q EXCEPT !.state = s, !.hi = 0]
  <2>1. PICK s \in {"missing"} \cup Errors : p = [q EXCEPT !.state = s, !.hi = 0]
    BY <1>1
  <2>2. s \in States \cup {"missing", "no_download"}
    BY <2>1 DEF States, Errors
  <2>3. p \in Payloads /\ p.state = s
    BY <2>1, <2>2 DEF Payloads
  <2> QED BY <2>1, <2>3 DEF Refuses
<1>2. CASE p = [q EXCEPT !.state = "no_download"]
  BY <1>2 DEF Payloads
<1>3. CASE \E v \in 1..run.cache[c].version \cup 1..q.snapshot : p = [q EXCEPT !.lo = 1, !.hi = v]
  <2>1. PICK v \in 1..run.cache[c].version \cup 1..q.snapshot : p = [q EXCEPT !.lo = 1, !.hi = v]
    BY <1>3
  <2>2. v \in Nat
    BY <1>0
  <2>3. /\ p \in Payloads /\ p.lo = 1 /\ p.hi = v
        /\ p.version = q.version /\ p.snapshot = q.snapshot /\ p.state = q.state
    BY <2>1, <2>2 DEF Payloads
  <2> QED BY <2>3
<1> QED BY <1>1, <1>2, <1>3 DEF Spoiled

\* A run that is answered.
AnswerEffect(n, page) ==
  /\ run' \in Runs
  /\ run'.stage = "answered"
  /\ run'.collections = run.collections /\ run'.toSync = run.toSync
  /\ run'.pending = run.pending /\ run'.cache = run.cache /\ run'.unsaved = run.unsaved
  /\ run'.missing = run.missing /\ run'.results = run.results /\ run'.silent = run.silent
  /\ \A c \in run.toSync :
       \/ run'.answers[c] = AnswerTo(c, n, page)
       \/ /\ run'.answers[c] \in Spoiled(c, AnswerTo(c, n, page))
          /\ "failed" \in hist'.lapses
  /\ \A c \in Collections :
       log'[c] = IF c \in run.toSync /\ Accepts(c) /\ ~Refuses(run'.answers[c])
                 THEN Append(log[c], [set |-> run.pending[c], key |-> ActiveKey])
                 ELSE log[c]

LEMMA AnswerTyped ==
  ASSUME AppStateAssumption, TypeOK, Cached, NEW c \in Collections,
         NEW n \in 1..MaxWrites, NEW page \in 1..Page
  PROVE  AnswerTo(c, n, page) \in Payloads
<1>1. Payload("success", Len(log[c]) + 1, 0, 1, 0) \in Payloads
  BY CacheIs DEF Payload, Payloads, States, Success
<1>2. CASE Accepts(c)
  BY <1>1, <1>2, AnswerIs
<1>3. CASE ~Accepts(c)
  BY <1>3, AnswerIs
<1> QED BY <1>2, <1>3

LEMMA AnsweringIs ==
  ASSUME AppStateAssumption, TypeOK, Cached, NEW n \in 1..MaxWrites, NEW page \in 1..Page,
         ServerAnswers(n, page)
  PROVE  AnswerEffect(n, page)
<1> DEFINE all == [c \in Collections |-> IF c \in run.toSync THEN AnswerTo(c, n, page)
                                         ELSE NoAnswers[c]]
<1>0. run \in Runs /\ run.toSync \subseteq Collections /\ "answered" \in Stages
      /\ hist.lapses \in SUBSET {"joined", "failed"}
  BY RunIs DEF TypeOK, Stages, Histories
<1>1. all \in [Collections -> Payloads]
  BY AnswerTyped, EmptyTyped
<1>2. PICK answers \in [Collections -> Payloads] :
        /\ run' = [run EXCEPT !.stage = "answered", !.answers = answers]
        /\ \A c \in run.toSync :
             \/ answers[c] = AnswerTo(c, n, page)
             \/ /\ answers[c] \in Spoiled(c, AnswerTo(c, n, page))
                /\ "failed" \in hist'.lapses
  <2>1. CASE run' = [run EXCEPT !.stage = "answered", !.answers = all]
    BY <1>0, <1>1, <2>1
  <2>2. CASE /\ hist' = Fails(hist)
             /\ \E c \in run.toSync : \E p \in Spoiled(c, all[c]) :
                  run' = [run EXCEPT !.stage = "answered", !.answers = [all EXCEPT ![c] = p]]
    <3>0. PICK d \in run.toSync : \E p \in Spoiled(d, all[d]) :
            run' = [run EXCEPT !.stage = "answered", !.answers = [all EXCEPT ![d] = p]]
      BY <2>2
    <3>1. PICK p \in Spoiled(d, all[d]) :
            run' = [run EXCEPT !.stage = "answered", !.answers = [all EXCEPT ![d] = p]]
      BY <3>0
    <3>2. all[d] = AnswerTo(d, n, page) /\ d \in Collections
      BY <1>0
    <3>3. p \in Payloads
      BY <3>2, AnswerTyped, SpoiledIs
    <3>4. "failed" \in hist'.lapses
      BY <1>0, <2>2 DEF Fails, TypeOK, Histories
    <3> DEFINE answers == [all EXCEPT ![d] = p]
    <3>5. answers \in [Collections -> Payloads]
      BY <1>1, <3>3
    <3>6. \A c \in run.toSync : IF c = d THEN answers[c] = p
                                ELSE answers[c] = AnswerTo(c, n, page)
      BY <1>0, <1>1, <3>2
    <3> HIDE DEF all
    <3> WITNESS answers \in [Collections -> Payloads]
    <3> QED BY <3>1, <3>2, <3>4, <3>6
  <2> QED BY <2>1, <2>2 DEF ServerAnswers
<1>3. /\ run' \in Runs
      /\ run'.stage = "answered" /\ run'.answers = answers
      /\ run'.collections = run.collections /\ run'.toSync = run.toSync
      /\ run'.pending = run.pending /\ run'.cache = run.cache /\ run'.unsaved = run.unsaved
      /\ run'.missing = run.missing /\ run'.results = run.results /\ run'.silent = run.silent
  BY <1>0, <1>2 DEF Runs
<1>4. \A c \in Collections :
        log'[c] = IF c \in run.toSync /\ Accepts(c) /\ ~Refuses(run'.answers[c])
                  THEN Append(log[c], [set |-> run.pending[c], key |-> ActiveKey])
                  ELSE log[c]
  BY DEF ServerAnswers
<1> QED BY <1>2, <1>3, <1>4 DEF AnswerEffect

LEMMA RunTyped ==
  ASSUME AppStateAssumption, TypeOK, Cached, Answered, RunSteps
  PROVE  run' \in Runs
<1>1. CASE UNCHANGED run
  BY <1>1 DEF TypeOK
<1>2. CASE Starts
  <2>1. PICK collections \in SUBSET Collections, pending \in [Collections -> Values] :
          run' = Started(collections, pending)
    BY <1>2 DEF Starts
  <2> QED BY <2>1, StartedIs DEF Beginning
<1>3. CASE run' = Idle \/ Save
  BY <1>3, IdleIs DEF Save
<1>4. ASSUME NEW n \in 1..MaxWrites, NEW page \in 1..Page, ServerAnswers(n, page)
      PROVE  run' \in Runs
  BY <1>4, AnsweringIs DEF AnswerEffect
<1>5. CASE ProcessRound
  BY <1>5, RoundIs DEF RoundEffect
<1>6. CASE Notified
  BY <1>6, NoticeIs DEF NoticeEffect
<1> QED BY <1>1, <1>2, <1>3, <1>4, <1>5, <1>6 DEF RunSteps

\* What was a copy remains one.
LEMMA CopyStays ==
  ASSUME LogGrows, NEW c \in Collections, NEW copy, copy.version \in Nat, IsCopy(c, copy)
  PROVE  /\ copy.version <= Len(log'[c])
         /\ copy.map = Merged(log'[c], 1, copy.version)
         /\ copy.initialized \/ copy.version = 0
<1>1. /\ copy.version <= Len(log[c]) /\ Len(log[c]) <= Len(log'[c])
      /\ Len(log[c]) \in Nat /\ Len(log'[c]) \in Nat
      /\ \A v \in 1..copy.version : log[c][v] = log'[c][v]
  BY DEF LogGrows, IsCopy
<1>2. Merged(log[c], 1, copy.version) = Merged(log'[c], 1, copy.version)
  <2>1. PICK one \in Nat, n \in Nat : one = 1 /\ n = copy.version
    OBVIOUS
  <2>2. \A v \in one..n : log[c][v] = log'[c][v]
    BY <1>1, <2>1
  <2>3. Merged(log[c], one, n) = Merged(log'[c], one, n)
    BY <2>2, MergedPrefix
  <2> QED BY <2>1, <2>3
<1> QED BY <1>1, <1>2 DEF IsCopy

LEMMA FreshIsCopy ==
  ASSUME NEW c, NEW patches, NEW n \in Nat, n = Len(patches)
  PROVE  /\ Fresh.version <= n
         /\ Fresh.map = Merged(patches, 1, Fresh.version)
         /\ Fresh.initialized \/ Fresh.version = 0
<1>1. PICK one \in Nat, zero \in Nat : one = 1 /\ zero = 0
  OBVIOUS
<1>2. Merged(patches, one, zero) = Nothing
  BY <1>1, MergedNone
<1> QED BY <1>1, <1>2 DEF Fresh

LEMMA StoreIs ==
  ASSUME TypeOK
  PROVE  /\ store.keys \in SUBSET Keys
         /\ store.have \in [Collections -> Copies]
BY DEF TypeOK

\* What is stored at the end of a run are its copies.
LEMMA SaveIs ==
  ASSUME TypeOK, Cached, Save
  PROVE  /\ store' \in [keys : SUBSET Keys, have : [Collections -> Copies]]
         /\ store'.keys = store.keys
         /\ \A c \in Collections : store'.have[c] \in {store.have[c], run.cache[c]}
         /\ \A c \in run.collections : store'.have[c] = run.cache[c]
         /\ \A c \in Collections \ run.collections : store'.have[c] = store.have[c]
         /\ \A c \in Collections : store.have[c].version <= store'.have[c].version
<1> DEFINE have == [c \in Collections |-> IF c \in run.unsaved THEN run.cache[c] ELSE store.have[c]]
<1>1. store' = [store EXCEPT !.have = have]
  BY DEF Save
<1>2. run.cache \in [Collections -> Copies] /\ run.unsaved \subseteq run.collections
      /\ run.collections \subseteq Collections
  BY RunIs DEF TypeOK, Cached
<1>3. have \in [Collections -> Copies]
  BY <1>2, StoreIs
<1>4. /\ \A c \in Collections : have[c] \in {store.have[c], run.cache[c]}
      /\ \A c \in run.collections : have[c] = run.cache[c]
      /\ \A c \in Collections \ run.collections : have[c] = store.have[c]
  BY <1>2 DEF Cached
<1>5. \A c \in Collections : store.have[c].version <= have[c].version
  <2>1. ASSUME NEW c \in Collections PROVE store.have[c].version <= have[c].version
    <3>1. store.have[c].version \in Nat
      BY StoreIs, CopyIs
    <3>2. c \in run.collections => store.have[c].version <= run.cache[c].version
      BY DEF Cached
    <3> QED BY <1>2, <3>1, <3>2
  <2> QED BY <2>1
<1> HIDE DEF have
<1>6. store'.have = have /\ store'.keys = store.keys
      /\ store' \in [keys : SUBSET Keys, have : [Collections -> Copies]]
  BY <1>1, <1>3 DEF TypeOK
<1> QED BY <1>4, <1>5, <1>6

LEMMA StoreTyped ==
  ASSUME TypeOK, Cached, [Next]_vars
  PROVE  /\ store' \in [keys : SUBSET Keys, have : [Collections -> Copies]]
         /\ store.keys \subseteq store'.keys
         /\ Save \/ UNCHANGED store.have
<1>1. CASE Save
  BY <1>1, SaveIs
<1>2. ASSUME NEW k \in Keys, KeyShareArrives(k)
      PROVE /\ store' \in [keys : SUBSET Keys, have : [Collections -> Copies]]
            /\ store.keys \subseteq store'.keys
            /\ UNCHANGED store.have
  <2>1. store' = [store EXCEPT !.keys = store.keys \cup {k}]
    BY <1>2 DEF KeyShareArrives
  <2>2. store.keys \cup {k} \in SUBSET Keys
    BY StoreIs
  <2> QED BY <2>1, <2>2 DEF TypeOK
<1>3. CASE \/ UNCHANGED vars \/ RoundThrows \/ ProcessRound \/ Notified
           \/ \E n \in 1..MaxWrites, page \in 1..Page : ServerAnswers(n, page)
           \/ QueryFails \/ SaveFails \/ FlushStep
           \/ \E slots \in Calls : EnqueueAndFlush(slots)
           \/ \E slot \in Changes, k \in Keys : Publish(slot[1], slot[2], k)
           \/ DirtyArrives
  <2>1. UNCHANGED store
    BY <1>3 DEF vars, RoundThrows, ProcessRound, Notified, QueryFails, SaveFails, ServerAnswers,
                FlushStep, FlushReturns, FlushThrows, FlushSettles, EnqueueAndFlush, Publish,
                DirtyArrives
  <2> QED BY <2>1 DEF TypeOK
<1> QED BY <1>1, <1>2, <1>3 DEF Next, SyncStep

LEMMA StoredSteps ==
  ASSUME TypeOK, Stored, Cached, LogGrows, [Next]_vars
  PROVE  Stored'
<1> SUFFICES ASSUME NEW c \in Collections PROVE IsCopy(c, store.have[c])'
  BY DEF Stored
<1>1. /\ store.have[c] \in Copies /\ IsCopy(c, store.have[c])
      /\ run.cache[c] \in Copies /\ IsCopy(c, run.cache[c])
  BY StoreIs, CacheIs DEF Stored
<1>2. store'.have[c] \in {store.have[c], run.cache[c]}
  BY StoreTyped, SaveIs
<1>3. PICK copy \in Copies : copy = store'.have[c] /\ IsCopy(c, copy)
  BY <1>1, <1>2
<1> QED BY <1>3, CopyIs, CopyStays DEF IsCopy

LEMMA CachedSteps ==
  ASSUME AppStateAssumption, TypeOK, Stored, Cached, Answered, LogGrows, RunSteps
  PROVE  Cached'
<1> DEFINE Kept(c) == \E copy \in Copies : copy = run'.cache[c] /\ IsCopy(c, copy)
<1>0. \A c \in Collections :
        /\ store.have[c] \in Copies /\ IsCopy(c, store.have[c])
        /\ run.cache[c] \in Copies /\ IsCopy(c, run.cache[c])
        /\ store.have[c].version \in Nat
        /\ Kept(c) => IsCopy(c, run.cache[c])'
  <2> SUFFICES ASSUME NEW c \in Collections
               PROVE  /\ store.have[c] \in Copies /\ IsCopy(c, store.have[c])
                      /\ run.cache[c] \in Copies /\ IsCopy(c, run.cache[c])
                      /\ store.have[c].version \in Nat
                      /\ Kept(c) => IsCopy(c, run.cache[c])'
    OBVIOUS
  <2>1. /\ store.have[c] \in Copies /\ IsCopy(c, store.have[c])
        /\ run.cache[c] \in Copies /\ IsCopy(c, run.cache[c])
        /\ store.have[c].version \in Nat
    BY StoreIs, CacheIs, CopyIs DEF Stored
  <2>2. ASSUME NEW copy \in Copies, copy = run'.cache[c], IsCopy(c, copy)
        PROVE  IsCopy(c, run.cache[c])'
    BY <2>2, CopyIs, CopyStays DEF IsCopy
  <2> QED BY <2>1, <2>2
<1> HIDE DEF Kept
<1>00. run.collections \subseteq Collections /\ run.toSync \subseteq Collections
  BY RunIs DEF TypeOK
<1>1. CASE UNCHANGED <<run, store.have>>
  <2>1. \A c \in Collections : Kept(c)
    BY <1>0, <1>1 DEF Kept
  <2> QED BY <1>0, <1>1, <2>1 DEF Cached
<1>2. CASE Starts /\ UNCHANGED store.have
  <2>1. PICK collections \in SUBSET Collections, pending \in [Collections -> Values] :
          run' = Started(collections, pending)
    BY <1>2 DEF Starts
  <2>2. /\ run'.collections = collections /\ run'.toSync = collections /\ run'.unsaved = {}
        /\ \A c \in collections : run'.cache[c] = store.have[c]
        /\ \A c \in Collections \ collections : run'.cache[c] = Fresh
    <3>1. Beginning(Started(collections, pending), collections, pending)
      BY StartedIs
    <3>2. Beginning(run', collections, pending)
      BY <2>1, <3>1
    <3> QED BY <3>2 DEF Beginning
  <2>3. ASSUME NEW c \in Collections PROVE IsCopy(c, run.cache[c])'
    <3>1. CASE c \in collections
      <4>1. Kept(c)
        BY <1>0, <2>2, <3>1 DEF Kept
      <4> QED BY <1>0, <4>1
    <3>2. CASE c \notin collections
      <4>1. run'.cache[c] = Fresh /\ Len(log'[c]) \in Nat
        BY <2>2, <3>2 DEF LogGrows
      <4> QED BY <4>1, FreshIsCopy DEF IsCopy
    <3> QED BY <3>1, <3>2
  <2> QED BY <1>0, <1>2, <2>2, <2>3 DEF Cached
<1>3. CASE run' = Idle
  <2>1. /\ run'.collections = {} /\ run'.toSync = {} /\ run'.unsaved = {}
        /\ run'.cache = [c \in Collections |-> Fresh]
    BY <1>3, IdleIs
  <2>2. ASSUME NEW c \in Collections PROVE IsCopy(c, run.cache[c])'
    <3>1. run'.cache[c] = Fresh /\ Len(log'[c]) \in Nat
      BY <2>1 DEF LogGrows
    <3> QED BY <3>1, FreshIsCopy DEF IsCopy
  <2> QED BY <2>1, <2>2 DEF Cached
<1>4. ASSUME NEW n \in 1..MaxWrites, NEW page \in 1..Page, ServerAnswers(n, page)
      PROVE  Cached'
  <2>1. /\ run'.collections = run.collections /\ run'.toSync = run.toSync
        /\ run'.cache = run.cache /\ run'.unsaved = run.unsaved
    BY <1>4, AnsweringIs DEF AnswerEffect
  <2>2. \A c \in Collections : Kept(c)
    BY <1>0, <2>1 DEF Kept
  <2>3. UNCHANGED store
    BY <1>4 DEF ServerAnswers
  <2> QED BY <1>0, <2>1, <2>2, <2>3 DEF Cached
<1>5. CASE ProcessRound
  <2>1. RoundEffect /\ UNCHANGED store
    BY <1>5, RoundIs DEF ProcessRound
  <2>2. \A c \in run.toSync : LET o == Process(c, run.answers[c])
                              IN Advances(c, o)
    BY <1>5, ProcessIs DEF ProcessRound, Processes
  <2>3. ASSUME NEW c \in Collections PROVE IsCopy(c, run.cache[c])'
    <3>1. Kept(c)
      BY <1>0, <2>1, <2>2 DEF RoundEffect, Advances, Kept
    <3> QED BY <1>0, <3>1
  <2>4. ASSUME NEW c \in run.collections PROVE store.have[c].version <= run'.cache[c].version
    <3>1. /\ store.have[c].version \in Nat /\ run.cache[c].version \in Nat
          /\ run'.cache[c].version \in Nat
          /\ store.have[c].version <= run.cache[c].version
      BY <1>0, <1>00, <2>1, CopyIs DEF RoundEffect, Runs, Cached
    <3>2. run.cache[c].version <= run'.cache[c].version
      <4>1. CASE c \in run.toSync
        BY <2>1, <2>2, <4>1 DEF RoundEffect, Advances
      <4>2. CASE c \notin run.toSync
        <5>1. run'.cache[c] = run.cache[c]
          BY <1>00, <2>1, <4>2 DEF RoundEffect
        <5> QED BY <3>1, <5>1
      <4> QED BY <4>1, <4>2
    <3> QED BY <3>1, <3>2
  <2>5. /\ run'.collections = run.collections
        /\ run'.toSync \subseteq run.toSync /\ run.toSync \subseteq run.collections
        /\ run.unsaved \subseteq run.collections
        /\ run'.unsaved = run.unsaved \cup
             {c \in run.toSync : Process(c, run.answers[c]).copy # run.cache[c]}
    BY <2>1 DEF RoundEffect, Cached
  <2>6. ASSUME NEW c \in run.collections \ run'.unsaved PROVE run'.cache[c] = store.have[c]
    <3>1. run.cache[c] = store.have[c]
      BY <2>5 DEF Cached
    <3>2. run'.cache[c] = run.cache[c]
      BY <1>00, <2>1, <2>5 DEF RoundEffect
    <3> QED BY <3>1, <3>2
  <2> QED BY <2>1, <2>3, <2>4, <2>5, <2>6 DEF Cached
<1>6. CASE Notified
  <2>1. NoticeEffect /\ UNCHANGED store
    BY <1>6, NoticeIs DEF Notified
  <2>2. \A c \in Collections : Kept(c)
    BY <1>0, <2>1 DEF NoticeEffect, Kept
  <2> QED BY <1>0, <2>1, <2>2 DEF Cached, NoticeEffect
<1> QED BY <1>1, <1>2, <1>3, <1>4, <1>5, <1>6 DEF RunSteps, Save

\* What a run that begins is.
LEMMA StartsIs ==
  ASSUME AppStateAssumption, TypeOK, Starts
  PROVE  \E collections \in SUBSET Collections, pending \in [Collections -> Values] :
           Beginning(run', collections, pending)
<1>1. PICK collections \in SUBSET Collections, pending \in [Collections -> Values] :
        run' = Started(collections, pending)
  BY DEF Starts
<1>2. Beginning(Started(collections, pending), collections, pending)
  BY StartedIs
<1>3. Beginning(run', collections, pending)
  BY <1>1, <1>2
<1> QED BY <1>3

\* Whatever becomes of the answer to a collection, it is refused or fits.
LEMMA AnswerFits ==
  ASSUME AppStateAssumption, TypeOK, Cached, LogGrows, NEW n \in 1..MaxWrites,
         NEW page \in 1..Page, AnswerEffect(n, page), NEW c \in run.toSync
  PROVE  \/ Refuses(run'.answers[c]) \/ run'.answers[c].state = "no_download"
         \/ Fits(c, run.answers[c])'
<1> DEFINE p == run'.answers[c]
           q == AnswerTo(c, n, page)
           m == run.cache[c].version
           e == [set |-> run.pending[c], key |-> ActiveKey]
<1>0. c \in Collections
  BY RunIs DEF TypeOK
<1>1. /\ m \in 0..Len(log[c]) /\ Len(log[c]) \in Nat /\ log[c] \in Seq(Patches)
      /\ q \in Payloads
  BY <1>0, CacheIs, AnswerTyped
<1>2. /\ q.version \in Nat /\ q.snapshot \in Nat /\ q.lo \in Nat /\ q.hi \in Nat
  BY <1>1, PayloadIs
<1>3. SUFFICES ASSUME ~Refuses(p), p.state # "no_download"
               PROVE  Fits(c, run.answers[c])'
  OBVIOUS
<1>4. /\ p.version = q.version /\ p.snapshot = q.snapshot /\ p.state = q.state
      /\ \/ p.lo = q.lo /\ p.hi = q.hi
         \/ p.lo = 1 /\ p.hi \in 1..m \cup 1..q.snapshot
  BY <1>0, <1>1, <1>3, SpoiledIs DEF AnswerEffect
<1>5. /\ run'.cache[c] = run.cache[c] /\ run'.pending[c] = run.pending[c]
      /\ Uploads(c)' <=> Uploads(c)
  BY DEF AnswerEffect, Uploads
<1>6. Len(log'[c]) \in Nat /\ Len(log[c]) <= Len(log'[c])
  BY <1>0 DEF LogGrows
<1>7. CASE Accepts(c)
  <2>1. log'[c] = Append(log[c], e)
    BY <1>0, <1>3, <1>7 DEF AnswerEffect
  <2>2. Len(log'[c]) = Len(log[c]) + 1 /\ log'[c][Len(log[c]) + 1] = e
    <3>1. \A s \in Seq(Patches) : Len(s) \in Nat /\ DOMAIN s = 1..Len(s)
      OBVIOUS
    <3>2. Len(log'[c]) = Len(log[c]) + 1
      BY <1>1, <2>1
    <3>3. log'[c][Len(log[c]) + 1] = e
      BY <1>1, <2>1, <3>1
    <3> QED BY <3>2, <3>3
  <2>3. q.state = "success" /\ q.version = Len(log[c]) + 1 /\ q.snapshot = 0
        /\ q.lo = 1 /\ q.hi = 0
    <3>1. q = Payload("success", Len(log[c]) + 1, 0, 1, 0)
      BY <1>0, <1>7, AnswerIs
    <3> HIDE DEF q
    <3> QED BY <3>1 DEF Payload
  <2>4. Uploads(c) /\ run.cache[c].initialized /\ m = Len(log[c])
    BY <1>7 DEF Accepts, Uploads
  <2>5. log'[c][m + 1].set = run.pending[c] /\ m < Len(log'[c])
    BY <2>2, <2>4, <1>1
  <2> HIDE DEF e, q
  <2> QED BY <1>1, <1>4, <1>5, <1>6, <2>2, <2>3, <2>4, <2>5 DEF Fits, Conflict
<1>8. CASE ~Accepts(c)
  <2>1. log'[c] = log[c]
    BY <1>0, <1>8 DEF AnswerEffect
  <2>2. /\ q.version = Len(log[c]) /\ q.snapshot \in 0..Len(log[c]) /\ q.hi \in 0..Len(log[c])
        /\ 1 <= q.lo /\ (q.hi = 0 \/ q.lo <= q.hi)
        /\ q.snapshot = 0 \/ ~run.cache[c].initialized
        /\ q.hi = 0 /\ q.snapshot = 0 /\ ~run.cache[c].initialized => Len(log[c]) = 0
        /\ q.state \in IF Uploads(c) THEN Conflict ELSE Success
    BY <1>0, <1>8, AnswerIs
  <2>3. Uploads(c) => p.state # "success" /\ p.state \in Conflict
    BY <1>4, <2>2 DEF Conflict
  <2>4. ~Uploads(c) => p.state \in Success
    BY <1>4, <2>2
  <2>5. /\ 1 <= p.lo /\ p.hi <= Len(log[c]) /\ p.snapshot <= Len(log[c])
        /\ p.hi = 0 \/ p.lo <= p.hi
        /\ p.snapshot = 0 \/ ~run.cache[c].initialized
        /\ p.hi = 0 /\ p.snapshot = 0 /\ ~run.cache[c].initialized => p.version = 0
    <3>1. CASE p.lo = q.lo /\ p.hi = q.hi
      BY <1>1, <1>2, <1>4, <2>2, <3>1
    <3>2. CASE p.lo = 1 /\ p.hi \in 1..m \cup 1..q.snapshot
      <4>1. p.hi \in Nat /\ 1 <= p.hi /\ p.hi <= Len(log[c])
        <5>1. m \in Nat /\ m <= Len(log[c]) /\ q.snapshot <= Len(log[c])
          BY <1>1, <2>2
        <5> HIDE DEF m, q, p
        <5>2. CASE p.hi \in 1..m
          BY <1>1, <5>1, <5>2
        <5>3. CASE p.hi \in 1..q.snapshot
          BY <1>1, <1>2, <5>1, <5>3
        <5> QED BY <3>2, <5>2, <5>3
      <4> QED BY <1>1, <1>2, <1>4, <2>2, <3>2, <4>1
    <3> QED BY <1>4, <3>1, <3>2
  <2> HIDE DEF e, q
  <2> QED BY <1>5, <2>1, <2>3, <2>4, <2>5 DEF Fits
<1> QED BY <1>7, <1>8

\* As the log grows an answer continues to fit.
LEMMA FitsStays ==
  ASSUME TypeOK, Cached, LogGrows, UNCHANGED run, NEW c \in Collections, Fits(c, run.answers[c])
  PROVE  Fits(c, run.answers[c])'
<1> DEFINE m == run.cache[c].version
           p == run.answers[c]
<1>1. /\ Len(log[c]) \in Nat /\ Len(log'[c]) \in Nat /\ Len(log[c]) <= Len(log'[c])
      /\ \A v \in 1..Len(log[c]) : log'[c][v] = log[c][v]
      /\ m \in Nat /\ p.hi \in Nat /\ p.snapshot \in Nat
  BY CacheIs, PayloadIs DEF LogGrows
<1>2. Uploads(c)' <=> Uploads(c)
  BY DEF Uploads
<1>3. m < Len(log[c]) => m + 1 \in 1..Len(log[c])
  BY <1>1
<1>4. m < Len(log[c]) => log'[c][m + 1] = log[c][m + 1] /\ m < Len(log'[c])
  BY <1>1, <1>3
<1>5. p.hi <= Len(log'[c]) /\ p.snapshot <= Len(log'[c])
  BY <1>1 DEF Fits
<1> QED BY <1>2, <1>4, <1>5 DEF Fits

LEMMA AnsweredSteps ==
  ASSUME AppStateAssumption, TypeOK, Cached, Answered, LogGrows, RunSteps
  PROVE  Answered'
<1> SUFFICES ASSUME run'.stage = "answered", NEW c \in run'.toSync
             PROVE  \/ Refuses(run'.answers[c]) \/ run'.answers[c].state = "no_download"
                    \/ Fits(c, run.answers[c])'
  BY DEF Answered
<1>1. CASE UNCHANGED run
  <2>1. \/ Refuses(run.answers[c]) \/ run.answers[c].state = "no_download"
        \/ Fits(c, run.answers[c])
    BY <1>1 DEF Answered
  <2>2. c \in Collections
    BY <1>1, RunIs DEF TypeOK
  <2> QED BY <1>1, <2>1, <2>2, FitsStays
<1>2. CASE Starts
  <2>1. run'.stage = "round"
    BY <1>2, StartsIs DEF Beginning
  <2> QED BY <2>1
<1>3. CASE run' = Idle \/ Save
  <2>1. run'.stage = "none"
    BY <1>3, IdleIs DEF Save
  <2> QED BY <2>1
<1>4. ASSUME NEW n \in 1..MaxWrites, NEW page \in 1..Page, ServerAnswers(n, page)
      PROVE  \/ Refuses(run'.answers[c]) \/ run'.answers[c].state = "no_download"
             \/ Fits(c, run.answers[c])'
  <2>1. AnswerEffect(n, page)
    BY <1>4, AnsweringIs
  <2>2. c \in run.toSync
    BY <2>1 DEF AnswerEffect
  <2> QED BY <2>1, <2>2, AnswerFits
<1>5. CASE ProcessRound
  BY <1>5, RoundIs DEF RoundEffect
<1>6. CASE Notified
  BY <1>6, NoticeIs DEF NoticeEffect
<1> QED BY <1>1, <1>2, <1>3, <1>4, <1>5, <1>6 DEF RunSteps

-----------------------------------------------------------------------------
(* The flush and the history.                                              *)

LEMMA HistoryIs ==
  \A h \in Histories :
    /\ h.writes \in 0..MaxWrites /\ h.newest \in [Collections -> Values]
    /\ h.local \in SUBSET Writes /\ h.told \in SUBSET Writes /\ h.emitted \in SUBSET Writes
    /\ h.joined \in SUBSET Writes /\ h.late \in SUBSET Writes
    /\ h.silent \in [Collections -> SUBSET Nat]
    /\ h.lapses \in SUBSET {"joined", "failed"} /\ h.faults \in 0..MaxFaults
BY DEF Histories

\* But for lapses, which are not forgotten, and faults.
Alike(g, h) ==
  /\ g \in Histories
  /\ g.writes = h.writes /\ g.newest = h.newest /\ g.local = h.local /\ g.told = h.told
  /\ g.emitted = h.emitted /\ g.joined = h.joined /\ g.late = h.late /\ g.silent = h.silent
  /\ h.lapses \subseteq g.lapses

LEMMA SameIsAlike ==
  ASSUME NEW h \in Histories
  PROVE  Alike(h, h)
BY DEF Alike

LEMMA FailsIs ==
  ASSUME AppStateAssumption, NEW h \in Histories, h.faults < MaxFaults
  PROVE  Alike(Fails(h), h) /\ "failed" \in Fails(h).lapses
<1>1. h.faults + 1 \in 0..MaxFaults /\ h.lapses \cup {"failed"} \in SUBSET {"joined", "failed"}
  BY HistoryIs DEF AppStateAssumption
<1>2. Fails(h) = [h EXCEPT !.faults = h.faults + 1, !.lapses = h.lapses \cup {"failed"}]
  BY DEF Fails
<1> QED BY <1>1, <1>2 DEF Histories, Alike

\* What is set aside by a failure or by joining a run.
LEMMA LapsesIs ==
  ASSUME NEW h \in Histories, NEW S \in SUBSET {"joined", "failed"}
  PROVE  LET g == [h EXCEPT !.lapses = h.lapses \cup S]
         IN Alike(g, h) /\ g.lapses = h.lapses \cup S
<1>1. h.lapses \cup S \in SUBSET {"joined", "failed"}
  BY HistoryIs
<1> QED BY <1>1 DEF Histories, Alike

LEMMA SyncAllIs ==
  ASSUME TypeOK, SyncAll(hist)
  PROVE  Alike(hist', hist) /\ (run.stage # "none" => "joined" \in hist'.lapses)
<1> DEFINE S == {"joined" : x \in {run.stage} \ {"none"}}
<1>1. hist' = [hist EXCEPT !.lapses = hist.lapses \cup S] /\ hist \in Histories
  BY DEF SyncAll, TypeOK
<1>2. S \in SUBSET {"joined", "failed"} /\ (run.stage # "none" => "joined" \in S)
  OBVIOUS
<1> HIDE DEF S
<1> QED BY <1>1, <1>2, LapsesIs

LEMMA FaultIs ==
  ASSUME AppStateAssumption, TypeOK, \/ RoundThrows \/ QueryFails \/ SaveFails
  PROVE  Alike(hist', hist) /\ "failed" \in hist'.lapses
<1>1. hist \in Histories
  BY DEF TypeOK
<1>2. CASE QueryFails \/ SaveFails
  <2>1. hist' = Fails(hist) /\ hist.faults < MaxFaults
    BY <1>2 DEF QueryFails, SaveFails, MayFail
  <2> QED BY <1>1, <2>1, FailsIs
<1>3. CASE RoundThrows
  <2>1. hist' = [hist EXCEPT !.lapses = hist.lapses \cup {"failed"}]
    BY <1>3 DEF RoundThrows
  <2>2. {"failed"} \in SUBSET {"joined", "failed"} /\ "failed" \in {"failed"}
    OBVIOUS
  <2> QED BY <1>1, <2>1, <2>2, LapsesIs
<1> QED BY <1>2, <1>3

LEMMA AnswerHistory ==
  ASSUME AppStateAssumption, TypeOK, NEW n, NEW page, ServerAnswers(n, page)
  PROVE  Alike(hist', hist)
<1>1. hist \in Histories
  BY DEF TypeOK
<1>2. UNCHANGED hist \/ (hist' = Fails(hist) /\ hist.faults < MaxFaults)
  BY DEF ServerAnswers, MayFail
<1> QED BY <1>1, <1>2, FailsIs, SameIsAlike

\* A call of the user's is noted.
NotedAs(h, w, slots) ==
  /\ h \in Histories
  /\ h.writes = w /\ h.local = hist.local \cup {w}
  /\ h.newest = [c \in Collections |-> [i \in Indexes |->
                   IF <<c, i>> \in slots THEN w ELSE hist.newest[c][i]]]
  /\ h.late = IF flush.stage = "ended" THEN hist.late \cup {w} ELSE hist.late
  /\ h.told = hist.told /\ h.emitted = hist.emitted /\ h.joined = hist.joined
  /\ h.silent = hist.silent /\ h.lapses = hist.lapses /\ h.faults = hist.faults
LEMMA NotedIs ==
  ASSUME TypeOK, NEW w \in Writes, NEW slots
  PROVE  NotedAs(Noted(w, slots), w, slots)
<1> DEFINE newest == [c \in Collections |-> [i \in Indexes |->
                        IF <<c, i>> \in slots THEN w ELSE hist.newest[c][i]]]
           late == hist.late \cup {w : x \in {flush.stage} \cap {"ended"}}
           h == Noted(w, slots)
<1>1. hist \in Histories /\ hist.newest \in [Collections -> Values] /\ hist.late \in SUBSET Writes
      /\ hist.local \in SUBSET Writes
  BY HistoryIs DEF TypeOK
<1>2. newest \in [Collections -> Values]
  BY <1>1 DEF Values
<1>3. late \in SUBSET Writes /\ late = IF flush.stage = "ended" THEN hist.late \cup {w} ELSE hist.late
  BY <1>1
<1>4. w \in 0..MaxWrites /\ hist.local \cup {w} \in SUBSET Writes
  BY <1>1 DEF Writes
<1>5. h = [hist EXCEPT !.writes = w, !.local = hist.local \cup {w}, !.newest = newest, !.late = late]
  BY DEF Noted
<1> HIDE DEF newest, late, h
<1>6. h \in Histories
  BY <1>1, <1>2, <1>3, <1>4, <1>5 DEF Histories
<1>7. /\ h.writes = w /\ h.local = hist.local \cup {w} /\ h.newest = newest /\ h.late = late
      /\ h.told = hist.told /\ h.emitted = hist.emitted /\ h.joined = hist.joined
      /\ h.silent = hist.silent /\ h.lapses = hist.lapses /\ h.faults = hist.faults
  BY <1>1, <1>5 DEF Histories
<1> QED BY <1>3, <1>6, <1>7 DEF newest, h, NotedAs

\* The flush when it ends, with what failed back in the queue.
EndedAs(g, f, failed) ==
  /\ g \in Flushes
  /\ \A c \in failed : g.queue[c] = Over(f.batch[c], f.queue[c])
  /\ \A c \in Collections \ failed : g.queue[c] = f.queue[c]
  /\ g.batch = Nowhere /\ g.stage = "ended" /\ g.own = FALSE /\ g.askers = f.askers
  /\ g.failed <=> failed # {}
LEMMA EndedIs ==
  ASSUME AppStateAssumption, NEW f \in Flushes, NEW failed \in SUBSET Collections
  PROVE  EndedAs(Ended(f, failed), f, failed)
<1> DEFINE queue == Requeue(f.queue, f.batch, failed)
           g == Ended(f, failed)
<1>1. f.queue \in [Collections -> Values] /\ f.batch \in [Collections -> Values]
  BY DEF Flushes
<1>2. /\ queue \in [Collections -> Values]
      /\ \A c \in failed : queue[c] = Over(f.batch[c], f.queue[c])
      /\ \A c \in Collections \ failed : queue[c] = f.queue[c]
  BY <1>1, OverTyped DEF Requeue
<1>3. g = [f EXCEPT !.queue = queue, !.batch = Nowhere, !.stage = "ended",
                    !.outcome = NoOutcome, !.own = FALSE, !.failed = (failed # {})]
  BY DEF Ended
<1>4. PICK b \in BOOLEAN : b <=> failed # {}
  OBVIOUS
<1>5. g = [f EXCEPT !.queue = queue, !.batch = Nowhere, !.stage = "ended",
                    !.outcome = NoOutcome, !.own = FALSE, !.failed = b]
  BY <1>3, <1>4
<1> HIDE DEF queue, g
<1>6. g \in Flushes
  BY <1>2, <1>5, EmptyTyped DEF Flushes
<1>7. /\ g.queue = queue /\ g.batch = Nowhere /\ g.stage = "ended" /\ g.own = FALSE
      /\ g.askers = f.askers /\ g.failed = b
  BY <1>5 DEF Flushes
<1>8. EndedAs(g, f, failed)
  BY <1>2, <1>4, <1>6, <1>7 DEF EndedAs
<1> QED BY <1>8 DEF g

\* A run that throws ends the sync the flush awaits, if it does.
LEMMA ThrewIs ==
  ASSUME flush \in Flushes
  PROVE  LET g == Threw(flush)
         IN /\ g \in Flushes
            /\ g.stage = IF flush.stage = "syncing" THEN "threw" ELSE flush.stage
            /\ g.queue = flush.queue /\ g.batch = flush.batch /\ g.own = flush.own
            /\ g.outcome = flush.outcome /\ g.askers = flush.askers /\ g.failed = flush.failed
<1>1. CASE flush.stage = "syncing"
  BY <1>1 DEF Threw, Flushes
<1>2. CASE flush.stage # "syncing"
  BY <1>2 DEF Threw
<1> QED BY <1>1, <1>2

\* So does one that ends well.
LEMMA ReturnedIs ==
  ASSUME TypeOK
  PROVE  LET g == Returned(flush)
         IN /\ g \in Flushes
            /\ g.stage = IF flush.stage = "syncing" THEN "returned" ELSE flush.stage
            /\ g.queue = flush.queue /\ g.batch = flush.batch /\ g.own = flush.own
            /\ g.askers = flush.askers /\ g.failed = flush.failed
            /\ flush.stage # "syncing" => g.outcome = flush.outcome
            /\ flush.stage = "syncing" =>
                 \A c \in Collections : g.outcome[c] = IF c \in run.collections
                                                       THEN run.results[c].state ELSE "absent"
<1> DEFINE outcome == [c \in Collections |-> IF c \in run.collections
                                             THEN run.results[c].state ELSE "absent"]
           g == Returned(flush)
<1>0. flush \in Flushes
  BY DEF TypeOK
<1>1. CASE flush.stage = "syncing"
  <2>1. outcome \in [Collections -> States \cup {"absent"}]
    BY RunIs DEF TypeOK
  <2>2. g = [flush EXCEPT !.stage = "returned", !.outcome = outcome]
    BY <1>1 DEF Returned
  <2>3. \A c \in Collections : outcome[c] = IF c \in run.collections
                                            THEN run.results[c].state ELSE "absent"
    OBVIOUS
  <2> HIDE DEF g, outcome
  <2>4. /\ g \in Flushes /\ g.stage = "returned" /\ g.outcome = outcome
        /\ g.queue = flush.queue /\ g.batch = flush.batch /\ g.own = flush.own
        /\ g.askers = flush.askers /\ g.failed = flush.failed
    BY <1>0, <2>1, <2>2 DEF Flushes
  <2> QED BY <1>1, <2>3, <2>4 DEF g
<1>2. CASE flush.stage # "syncing"
  BY <1>0, <1>2 DEF Returned
<1> QED BY <1>1, <1>2

\* The flush goes on: it ends, or it begins to sync what is queued.
EndEffect(queue) ==
  /\ flush'.queue = queue /\ flush'.batch = Nowhere /\ flush'.stage = "ended"
  /\ flush'.own = FALSE
  /\ flush'.failed \/ queue = Nowhere
  /\ UNCHANGED run
SyncEffect(queue) ==
  /\ flush'.queue = Nowhere /\ flush'.batch = queue /\ flush'.stage = "syncing"
  /\ flush'.own <=> run.stage = "none"
  /\ run' = Synced({c \in Collections : queue[c] # Nothing}, queue)
FlushEffect(f, h) ==
  /\ flush' \in Flushes /\ flush'.askers = f.askers
  /\ Alike(hist', h)
  /\ EndEffect(f.queue) \/ SyncEffect(f.queue)
LEMMA FlushOnIs ==
  ASSUME AppStateAssumption, NEW f \in Flushes, NEW h \in Histories, h.faults = hist.faults,
         FlushOn(f, h)
  PROVE  FlushEffect(f, h)
<1> DEFINE touched == {c \in Collections : f.queue[c] # Nothing}
<1>0. f.queue \in [Collections -> Values] /\ {} \in SUBSET Collections
  BY DEF Flushes
<1>1. LET g == Ended(f, {})
      IN /\ g \in Flushes /\ g.queue = f.queue
         /\ g.batch = Nowhere /\ g.stage = "ended" /\ g.own = FALSE /\ g.askers = f.askers
         /\ g.failed = FALSE
  <2> DEFINE g == Ended(f, {})
  <2>1. /\ g \in Flushes /\ \A c \in Collections : g.queue[c] = f.queue[c]
        /\ g.batch = Nowhere /\ g.stage = "ended" /\ g.own = FALSE /\ g.askers = f.askers
        /\ g.failed \in BOOLEAN /\ ~g.failed
    <3>1. PICK none \in SUBSET Collections : none = {}
      OBVIOUS
    <3>2. EndedAs(g, f, none)
      BY <3>1, EndedIs
    <3> HIDE DEF g
    <3>3. /\ g \in Flushes /\ \A c \in Collections : g.queue[c] = f.queue[c]
          /\ g.batch = Nowhere /\ g.stage = "ended" /\ g.own = FALSE /\ g.askers = f.askers
          /\ g.failed <=> none # {}
      BY <3>1, <3>2 DEF EndedAs
    <3>4. g.failed \in BOOLEAN
      BY <3>3 DEF Flushes
    <3> QED BY <3>1, <3>3, <3>4
  <2>2. g.queue \in [Collections -> Values]
    BY <2>1 DEF Flushes
  <2> HIDE DEF g
  <2>3. g.queue = f.queue
    BY <1>0, <2>1, <2>2
  <2> QED BY <2>1, <2>3 DEF g
<1>2. CASE touched = {} /\ flush' = Ended(f, {}) /\ UNCHANGED run /\ hist' = h
  <2>1. f.queue = Nowhere
    <3>1. \A c \in Collections : f.queue[c] = Nothing
      BY <1>2
    <3> QED BY <1>0, <3>1 DEF Nowhere
  <2> QED BY <1>1, <1>2, <2>1, SameIsAlike DEF FlushEffect, EndEffect
<1>3. CASE /\ flush' = [f EXCEPT !.queue = Nowhere, !.batch = f.queue, !.stage = "syncing",
                                 !.outcome = NoOutcome, !.own = (run.stage = "none")]
           /\ run' = Synced(touched, f.queue) /\ hist' = h
  <2>1. PICK b \in BOOLEAN : b <=> run.stage = "none"
    OBVIOUS
  <2>2. flush' = [f EXCEPT !.queue = Nowhere, !.batch = f.queue, !.stage = "syncing",
                           !.outcome = NoOutcome, !.own = b]
    BY <1>3, <2>1
  <2>3. flush' \in Flushes
    BY <1>0, <2>2, EmptyTyped DEF Flushes
  <2>4. /\ flush'.queue = Nowhere /\ flush'.batch = f.queue /\ flush'.stage = "syncing"
        /\ flush'.own = b /\ flush'.failed = f.failed /\ flush'.askers = f.askers
    BY <2>2 DEF Flushes
  <2>5. SyncEffect(f.queue)
    BY <1>3, <2>1, <2>4 DEF SyncEffect
  <2> QED BY <1>3, <2>3, <2>4, <2>5, SameIsAlike DEF FlushEffect
<1>4. CASE /\ MayFail /\ flush' = [Ended(f, {}) EXCEPT !.failed = TRUE]
           /\ UNCHANGED run /\ hist' = Fails(h)
  <2> DEFINE g == Ended(f, {})
  <2>1. /\ g \in Flushes /\ g.queue = f.queue
        /\ g.batch = Nowhere /\ g.stage = "ended" /\ g.own = FALSE /\ g.askers = f.askers
    BY <1>1
  <2>2. flush' = [g EXCEPT !.failed = TRUE]
    BY <1>4
  <2> HIDE DEF g
  <2>3. /\ flush' \in Flushes /\ flush'.failed = TRUE /\ flush'.queue = f.queue
        /\ flush'.batch = Nowhere /\ flush'.stage = "ended" /\ flush'.own = FALSE
        /\ flush'.askers = f.askers
    BY <2>1, <2>2 DEF Flushes
  <2>4. EndEffect(f.queue)
    BY <1>4, <2>3 DEF EndEffect
  <2>5. Alike(hist', h)
    BY <1>4, FailsIs DEF MayFail
  <2> QED BY <2>3, <2>4, <2>5 DEF FlushEffect
<1> QED BY <1>2, <1>3, <1>4 DEF FlushOn

\* A call of the user's: it joins the flush under way or begins one.
CallEffect(w, slots, queue) ==
  /\ queue \in [Collections -> Values]
  /\ \A c \in Collections, i \in Indexes :
       IF <<c, i>> \in slots THEN queue[c][i] = w /\ hist'.newest[c][i] = w
       ELSE queue[c][i] = flush.queue[c][i] /\ hist'.newest[c][i] = hist.newest[c][i]
  /\ hist' \in Histories
  /\ hist'.writes = w /\ hist'.local = hist.local \cup {w}
  /\ hist'.late = IF flush.stage = "ended" THEN hist.late \cup {w} ELSE hist.late
  /\ hist'.told = hist.told /\ hist'.emitted = hist.emitted /\ hist'.joined = hist.joined
  /\ hist'.silent = hist.silent /\ hist.lapses \subseteq hist'.lapses
  /\ flush' \in Flushes /\ flush'.askers = flush.askers \cup {w}
  /\ \/ /\ flush.stage # "none" /\ UNCHANGED run
        /\ flush'.queue = queue /\ flush'.batch = flush.batch
        /\ flush'.stage = flush.stage /\ flush'.own = flush.own
        /\ flush'.outcome = flush.outcome /\ flush'.failed = flush.failed
     \/ flush.stage = "none" /\ EndEffect(queue)
     \/ flush.stage = "none" /\ SyncEffect(queue)
LEMMA CallIs ==
  ASSUME AppStateAssumption, TypeOK, NEW slots, EnqueueAndFlush(slots)
  PROVE  \E w \in Writes, queue \in [Collections -> Values] :
           w = hist.writes + 1 /\ CallEffect(w, slots, queue)
<1>1. PICK w \in Writes : w = hist.writes + 1
  BY DEF EnqueueAndFlush, TypeOK, Histories, Writes, AppStateAssumption
<1> DEFINE f == Enqueue(flush, w, slots)
           h == Noted(w, slots)
<1>2. /\ f \in Flushes /\ f.askers = flush.askers \cup {w}
      /\ f.queue = [c \in Collections |-> [i \in Indexes |->
                      IF <<c, i>> \in slots THEN w ELSE flush.queue[c][i]]]
      /\ f.batch = flush.batch /\ f.stage = flush.stage /\ f.own = flush.own
      /\ f.outcome = flush.outcome /\ f.failed = flush.failed
  BY EnqueuedIs
<1>3. NotedAs(h, w, slots)
  BY NotedIs
<1>4. IF flush.stage = "none" THEN FlushOn(f, h)
      ELSE flush' = f /\ UNCHANGED run /\ hist' = h
  BY <1>1 DEF EnqueueAndFlush
<1> HIDE DEF f, h
<1>5. /\ flush' \in Flushes /\ flush'.askers = f.askers /\ Alike(hist', h)
      /\ \/ /\ flush.stage # "none" /\ UNCHANGED run
            /\ flush'.queue = f.queue /\ flush'.batch = flush.batch
            /\ flush'.stage = flush.stage /\ flush'.own = flush.own
            /\ flush'.outcome = flush.outcome /\ flush'.failed = flush.failed
         \/ flush.stage = "none" /\ EndEffect(f.queue)
         \/ flush.stage = "none" /\ SyncEffect(f.queue)
  <2>1. h \in Histories /\ h.faults = hist.faults
    BY <1>3 DEF NotedAs
  <2>2. CASE flush.stage = "none"
    <3>1. FlushEffect(f, h)
      BY <1>2, <1>4, <2>1, <2>2, FlushOnIs
    <3> QED BY <2>2, <3>1 DEF FlushEffect
  <2>3. CASE flush.stage # "none"
    <3>1. flush' = f /\ UNCHANGED run /\ hist' = h
      BY <1>4, <2>3
    <3>2. Alike(hist', h)
      BY <2>1, <3>1, SameIsAlike
    <3> QED BY <1>2, <2>3, <3>1, <3>2
  <2> QED BY <2>2, <2>3
<1> DEFINE queue == f.queue
<1>6. queue \in [Collections -> Values]
  BY <1>2 DEF Flushes
<1>7. \A c \in Collections, i \in Indexes :
        IF <<c, i>> \in slots THEN queue[c][i] = w /\ hist'.newest[c][i] = w
        ELSE queue[c][i] = flush.queue[c][i] /\ hist'.newest[c][i] = hist.newest[c][i]
  BY <1>2, <1>3, <1>5 DEF Alike, NotedAs
<1>8. /\ hist' \in Histories
      /\ hist'.writes = w /\ hist'.local = hist.local \cup {w}
      /\ hist'.late = IF flush.stage = "ended" THEN hist.late \cup {w} ELSE hist.late
      /\ hist'.told = hist.told /\ hist'.emitted = hist.emitted /\ hist'.joined = hist.joined
      /\ hist'.silent = hist.silent /\ hist.lapses \subseteq hist'.lapses
  BY <1>3, <1>5 DEF Alike, NotedAs
<1>9. flush' \in Flushes /\ flush'.askers = flush.askers \cup {w}
  BY <1>2, <1>5
<1> HIDE DEF queue
<1>10. CallEffect(w, slots, queue)
  BY <1>5, <1>6, <1>7, <1>8, <1>9 DEF CallEffect, queue
<1> QED BY <1>1, <1>6, <1>10

\* The sync of the batch returned: what failed goes back to the queue.
Failing == {c \in Collections : flush.batch[c] # Nothing /\ ~Flushed(flush.outcome[c])}
ReturnEffect ==
  /\ flush' \in Flushes /\ flush'.askers = flush.askers
  /\ hist' \in Histories
  /\ hist'.writes = hist.writes /\ hist'.newest = hist.newest /\ hist'.local = hist.local
  /\ hist'.told = hist.told /\ hist'.emitted = hist.emitted /\ hist'.late = hist.late
  /\ hist'.silent = hist.silent /\ hist.lapses \subseteq hist'.lapses
  /\ hist.joined \subseteq hist'.joined
  /\ ~flush.own => \A c \in Collections \ Failing, i \in Indexes :
                     flush.batch[c][i] \in hist'.joined \cup {NoWrite}
  /\ \/ Failing = {} /\ EndEffect(flush.queue)
     \/ Failing = {} /\ SyncEffect(flush.queue)
     \/ /\ \A c \in Failing : flush'.queue[c] = Over(flush.batch[c], flush.queue[c])
        /\ \A c \in Collections \ Failing : flush'.queue[c] = flush.queue[c]
        /\ flush'.batch = Nowhere /\ flush'.stage = "ended" /\ flush'.own = FALSE
        /\ flush'.failed
        /\ UNCHANGED run
LEMMA ReturnIs ==
  ASSUME AppStateAssumption, TypeOK, FlushReturns
  PROVE  ReturnEffect
<1> DEFINE touched == {c \in Collections : flush.batch[c] # Nothing}
           failed == {c \in touched : ~Flushed(flush.outcome[c])}
           dropped == UNION {{flush.batch[c][i] : i \in Indexes} : c \in touched \ failed}
           joined == IF flush.own THEN hist.joined ELSE hist.joined \cup (dropped \ {NoWrite})
           h == [hist EXCEPT !.joined = joined]
           f == [flush EXCEPT !.batch = Nowhere]
<1>1. failed = Failing /\ failed \in SUBSET Collections
  BY DEF Failing
<1>2. /\ flush \in Flushes /\ hist \in Histories /\ flush.batch \in [Collections -> Values]
      /\ hist.joined \in SUBSET Writes
  BY FlushIs, HistoryIs DEF TypeOK
<1>3. dropped \ {NoWrite} \subseteq Writes
  BY <1>2 DEF Values
<1>4. \A c \in Collections \ Failing, i \in Indexes : flush.batch[c][i] \in dropped \cup {NoWrite}
  <2> SUFFICES ASSUME NEW c \in Collections \ Failing, NEW i \in Indexes
               PROVE  flush.batch[c][i] \in dropped \cup {NoWrite}
    OBVIOUS
  <2>1. CASE c \in touched
    BY <1>1, <2>1
  <2>2. CASE c \notin touched
    BY <2>2 DEF Nothing
  <2> QED BY <2>1, <2>2
<1>5. IF failed = {} THEN FlushOn(f, h)
      ELSE flush' = Ended(flush, failed) /\ UNCHANGED run /\ hist' = h
  BY DEF FlushReturns
<1> HIDE DEF failed, dropped
<1>6. /\ joined \in SUBSET Writes /\ hist.joined \subseteq joined
      /\ ~flush.own => \A c \in Collections \ Failing, i \in Indexes :
                         flush.batch[c][i] \in joined \cup {NoWrite}
  BY <1>2, <1>3, <1>4
<1> HIDE DEF joined
<1>7. /\ h \in Histories /\ h.joined = joined
      /\ h.writes = hist.writes /\ h.newest = hist.newest /\ h.local = hist.local
      /\ h.told = hist.told /\ h.emitted = hist.emitted /\ h.late = hist.late
      /\ h.silent = hist.silent /\ h.lapses = hist.lapses /\ h.faults = hist.faults
  BY <1>2, <1>6 DEF Histories
<1>8. /\ f \in Flushes /\ f.queue = flush.queue /\ f.failed = flush.failed
      /\ f.askers = flush.askers
  BY <1>2, EmptyTyped DEF Flushes
<1> HIDE DEF h, f
<1>9. CASE failed = {}
  <2>1. FlushEffect(f, h)
    BY <1>5, <1>7, <1>8, <1>9, FlushOnIs
  <2>2. EndEffect(flush.queue) \/ SyncEffect(flush.queue)
    BY <1>8, <2>1 DEF FlushEffect, EndEffect, SyncEffect
  <2> QED BY <1>1, <1>6, <1>7, <1>8, <1>9, <2>1, <2>2 DEF ReturnEffect, FlushEffect, Alike
<1>10. CASE failed # {}
  <2>1. flush' = Ended(flush, failed) /\ UNCHANGED run /\ hist' = h
    BY <1>5, <1>10
  <2>2. /\ flush' \in Flushes
        /\ \A c \in failed : flush'.queue[c] = Over(flush.batch[c], flush.queue[c])
        /\ \A c \in Collections \ failed : flush'.queue[c] = flush.queue[c]
        /\ flush'.batch = Nowhere /\ flush'.stage = "ended" /\ flush'.own = FALSE
        /\ flush'.askers = flush.askers /\ flush'.failed
    <3>1. EndedAs(flush', flush, failed)
      BY <1>1, <1>2, <2>1, EndedIs
    <3> QED BY <1>10, <3>1 DEF EndedAs
  <2> QED BY <1>1, <1>6, <1>7, <2>1, <2>2 DEF ReturnEffect
<1> QED BY <1>9, <1>10

\* The sync of the batch threw: all of it goes back to the queue.
ThrowEffect ==
  /\ flush' \in Flushes /\ flush'.askers = flush.askers
  /\ \A c \in Collections : flush'.queue[c] = Over(flush.batch[c], flush.queue[c])
  /\ flush'.batch = Nowhere /\ flush'.stage = "ended" /\ flush'.own = FALSE
  /\ flush'.failed <=> Collections # {}
  /\ UNCHANGED <<run, hist>>
LEMMA ThrowIs ==
  ASSUME AppStateAssumption, TypeOK, FlushThrows
  PROVE  ThrowEffect
<1>1. EndedAs(flush', flush, Collections)
  <2>1. flush \in Flushes /\ flush' = Ended(flush, Collections)
    BY DEF TypeOK, FlushThrows
  <2> QED BY <2>1, EndedIs
<1>2. UNCHANGED <<run, hist>>
  BY DEF FlushThrows
<1> QED BY <1>1, <1>2 DEF EndedAs, ThrowEffect

\* Who awaited the flush learns how it went.
SettleEffect ==
  /\ flush' \in Flushes /\ flush'.askers = {} /\ flush'.stage = "none" /\ ~flush'.failed
  /\ flush'.queue = flush.queue /\ flush'.batch = flush.batch /\ flush'.own = flush.own
  /\ hist' \in Histories
  /\ hist'.told = IF flush.failed THEN hist.told ELSE hist.told \cup flush.askers
  /\ hist'.writes = hist.writes /\ hist'.newest = hist.newest /\ hist'.local = hist.local
  /\ hist'.emitted = hist.emitted /\ hist'.joined = hist.joined /\ hist'.late = hist.late
  /\ hist'.silent = hist.silent /\ hist'.lapses = hist.lapses
  /\ UNCHANGED run
LEMMA SettleIs ==
  ASSUME TypeOK, FlushSettles
  PROVE  SettleEffect
<1> DEFINE told == IF flush.failed THEN hist.told ELSE hist.told \cup flush.askers
<1>1. /\ flush \in Flushes /\ hist \in Histories
      /\ flush.askers \in SUBSET Writes /\ hist.told \in SUBSET Writes
  BY FlushIs, HistoryIs DEF TypeOK
<1>2. told \in SUBSET Writes
  BY <1>1
<1>3. /\ flush' = [flush EXCEPT !.stage = "none", !.askers = {}, !.failed = FALSE]
      /\ hist' = [hist EXCEPT !.told = told]
      /\ UNCHANGED run
  BY DEF FlushSettles
<1>4. /\ flush' \in Flushes /\ flush'.askers = {} /\ flush'.stage = "none" /\ ~flush'.failed
      /\ flush'.queue = flush.queue /\ flush'.batch = flush.batch /\ flush'.own = flush.own
  BY <1>1, <1>3 DEF Flushes
<1>5. told = IF flush.failed THEN hist.told ELSE hist.told \cup flush.askers
  OBVIOUS
<1> HIDE DEF told
<1>6. /\ hist' \in Histories /\ hist'.told = told
      /\ hist'.writes = hist.writes /\ hist'.newest = hist.newest /\ hist'.local = hist.local
      /\ hist'.emitted = hist.emitted /\ hist'.joined = hist.joined /\ hist'.late = hist.late
      /\ hist'.silent = hist.silent /\ hist'.lapses = hist.lapses
  BY <1>1, <1>2, <1>3 DEF Histories
<1> QED BY <1>3, <1>4, <1>5, <1>6 DEF SettleEffect

\* Another device adds a patch.
PublishEffect(c, i, k) ==
  LET w == hist.writes + 1
  IN /\ w \in Writes
     /\ log'[c] = Append(log[c], [set |-> [Nothing EXCEPT ![i] = w], key |-> k])
     /\ \A d \in Collections \ {c} : log'[d] = log[d]
     /\ hist' \in Histories /\ hist'.writes = w
     /\ hist'.newest = hist.newest /\ hist'.local = hist.local /\ hist'.told = hist.told
     /\ hist'.emitted = hist.emitted /\ hist'.joined = hist.joined /\ hist'.late = hist.late
     /\ hist'.silent = hist.silent /\ hist'.lapses = hist.lapses
     /\ dirty' = TRUE /\ UNCHANGED <<store, run, flush>>
LEMMA PublishIs ==
  ASSUME AppStateAssumption, TypeOK, NEW c \in Collections, NEW i, NEW k, Publish(c, i, k)
  PROVE  PublishEffect(c, i, k)
<1>1. PICK w : w = hist.writes + 1
  OBVIOUS
<1>2. /\ hist.writes < MaxWrites
      /\ log' = [log EXCEPT ![c] = Append(@, [set |-> [Nothing EXCEPT ![i] = w], key |-> k])]
      /\ hist' = [hist EXCEPT !.writes = w]
      /\ dirty' = TRUE /\ UNCHANGED <<store, run, flush>>
  BY <1>1 DEF Publish
<1>3. hist \in Histories /\ log \in [Collections -> Seq(Patches)]
  BY DEF TypeOK
<1>4. w \in 0..MaxWrites /\ w \in Writes
  BY <1>1, <1>2, <1>3, HistoryIs DEF Writes, AppStateAssumption
<1>5. /\ log'[c] = Append(log[c], [set |-> [Nothing EXCEPT ![i] = w], key |-> k])
      /\ \A d \in Collections \ {c} : log'[d] = log[d]
  BY <1>2, <1>3
<1>6. /\ hist' \in Histories /\ hist'.writes = w
      /\ hist'.newest = hist.newest /\ hist'.local = hist.local /\ hist'.told = hist.told
      /\ hist'.emitted = hist.emitted /\ hist'.joined = hist.joined /\ hist'.late = hist.late
      /\ hist'.silent = hist.silent /\ hist'.lapses = hist.lapses
  BY <1>2, <1>3, <1>4 DEF Histories
<1> QED BY <1>1, <1>2, <1>4, <1>5, <1>6 DEF PublishEffect

\* A run ends well: what it found is reported.
SaveEffect ==
  /\ hist' \in Histories
  /\ hist'.writes = hist.writes /\ hist'.newest = hist.newest /\ hist'.local = hist.local
  /\ hist'.told = hist.told /\ hist'.joined = hist.joined /\ hist'.late = hist.late
  /\ hist.emitted \subseteq hist'.emitted
  /\ \A c \in run.collections, i \in Indexes :
       run.results[c].mutations[i] \in hist'.emitted \cup {NoWrite}
  /\ \A c \in Collections :
       hist'.silent[c] = hist.silent[c] \cup (store.have[c].version + 1)..run.silent[c]
  /\ hist.lapses \subseteq hist'.lapses
  /\ \A c \in run.collections :
       run.results[c].state \in Errors \cup Conflict => "failed" \in hist'.lapses
LEMMA SaveHistory ==
  ASSUME TypeOK, Save
  PROVE  SaveEffect
<1> DEFINE emitted == hist.emitted \cup Emitted
           silent == [c \in Collections |->
                        hist.silent[c] \cup (store.have[c].version + 1)..run.silent[c]]
           lapses == hist.lapses \cup {"failed" : x \in {run.results[c].state : c \in run.collections}
                                                        \cap (Errors \cup Conflict)}
<1>1. /\ hist \in Histories /\ hist.emitted \in SUBSET Writes
      /\ hist.silent \in [Collections -> SUBSET Nat]
      /\ hist.lapses \in SUBSET {"joined", "failed"}
  BY HistoryIs DEF TypeOK
<1>2. /\ run.results \in [Collections -> [state : States, mutations : Values]]
      /\ run.collections \subseteq Collections
      /\ run.silent \in [Collections -> Nat]
  BY RunIs DEF TypeOK
<1> DEFINE Of(c) == {run.results[c].mutations[i] : i \in Indexes}
           All == {{run.results[c].mutations[i] : i \in Indexes} : c \in run.collections}
<1>30. Emitted = (UNION All) \ {NoWrite}
  BY DEF Emitted
<1>31. \A c \in run.collections, i \in Indexes :
         run.results[c].mutations[i] \in Writes \cup {NoWrite}
  <2>1. \A c \in run.collections : run.results[c].mutations \in Values
    BY <1>2
  <2> QED BY <2>1 DEF Values
<1>3. Emitted \subseteq Writes
  <2> SUFFICES ASSUME NEW x \in Emitted PROVE x \in Writes
    OBVIOUS
  <2>1. x \in UNION All /\ x # NoWrite
    BY <1>30
  <2>2. PICK c \in run.collections : x \in Of(c)
    BY <2>1
  <2>3. PICK i \in Indexes : x = run.results[c].mutations[i]
    BY <2>2
  <2> QED BY <1>31, <2>1, <2>3
<1>4. \A c \in run.collections, i \in Indexes :
        run.results[c].mutations[i] \in Emitted \cup {NoWrite}
  <2> SUFFICES ASSUME NEW c \in run.collections, NEW i \in Indexes,
                      run.results[c].mutations[i] # NoWrite
               PROVE  run.results[c].mutations[i] \in Emitted
    OBVIOUS
  <2>1. Of(c) \in All
    OBVIOUS
  <2>2. run.results[c].mutations[i] \in Of(c)
    OBVIOUS
  <2> HIDE DEF Of, All
  <2> QED BY <1>30, <2>1, <2>2
<1> HIDE DEF Of, All
<1>5. emitted \in SUBSET Writes /\ hist.emitted \subseteq emitted
      /\ \A c \in run.collections, i \in Indexes :
           run.results[c].mutations[i] \in emitted \cup {NoWrite}
  BY <1>1, <1>3, <1>4
<1>6. silent \in [Collections -> SUBSET Nat]
  <2>1. \A c \in Collections : store.have[c].version \in Nat /\ run.silent[c] \in Nat
    BY <1>2, StoreIs, CopyIs
  <2>2. \A m \in Nat, n \in Nat : (m + 1)..n \in SUBSET Nat
    OBVIOUS
  <2>3. ASSUME NEW c \in Collections
        PROVE  hist.silent[c] \cup (store.have[c].version + 1)..run.silent[c] \in SUBSET Nat
    <3>1. (store.have[c].version + 1)..run.silent[c] \in SUBSET Nat
      BY <2>1, <2>2
    <3> QED BY <1>1, <3>1
  <2> QED BY <2>3
<1>7. /\ lapses \in SUBSET {"joined", "failed"} /\ hist.lapses \subseteq lapses
      /\ \A c \in run.collections :
           run.results[c].state \in Errors \cup Conflict => "failed" \in lapses
  BY <1>1
<1>8. hist' = [hist EXCEPT !.emitted = emitted, !.silent = silent, !.lapses = lapses]
  BY DEF Save
<1>9. \A c \in Collections :
        silent[c] = hist.silent[c] \cup (store.have[c].version + 1)..run.silent[c]
  OBVIOUS
<1> HIDE DEF emitted, silent, lapses
<1>10. /\ hist' \in Histories
       /\ hist'.emitted = emitted /\ hist'.silent = silent /\ hist'.lapses = lapses
       /\ hist'.writes = hist.writes /\ hist'.newest = hist.newest /\ hist'.local = hist.local
       /\ hist'.told = hist.told /\ hist'.joined = hist.joined /\ hist'.late = hist.late
  BY <1>1, <1>5, <1>6, <1>7, <1>8 DEF Histories
<1> QED BY <1>5, <1>7, <1>9, <1>10 DEF SaveEffect

\* What each step does to the flush and the history.
LEMMA FlushTyped ==
  ASSUME AppStateAssumption, TypeOK, [Next]_vars
  PROVE  flush' \in Flushes /\ hist' \in Histories
<1>0. flush \in Flushes /\ hist \in Histories
  BY DEF TypeOK
<1>1. CASE UNCHANGED <<flush, hist>>
  BY <1>0, <1>1
<1>2. CASE RoundThrows \/ QueryFails \/ SaveFails
  <2>1. flush' = Threw(flush)
    BY <1>2 DEF RoundThrows, QueryFails, SaveFails, RunThrows
  <2> QED BY <1>0, <1>2, <2>1, ThrewIs, FaultIs DEF Alike
<1>3. ASSUME NEW n, NEW page, ServerAnswers(n, page)
      PROVE  flush' \in Flushes /\ hist' \in Histories
  <2>1. Alike(hist', hist)
    BY <1>3, AnswerHistory
  <2>2. UNCHANGED flush
    BY <1>3 DEF ServerAnswers
  <2> QED BY <1>0, <2>1, <2>2 DEF Alike
<1>4. CASE Save
  <2>1. flush' = Returned(flush)
    BY <1>4 DEF Save
  <2> QED BY <1>4, <2>1, ReturnedIs, SaveHistory DEF SaveEffect
<1>5. CASE FlushReturns
  BY <1>5, ReturnIs DEF ReturnEffect
<1>6. CASE FlushThrows
  BY <1>0, <1>6, ThrowIs DEF ThrowEffect
<1>7. CASE FlushSettles
  BY <1>7, SettleIs DEF SettleEffect
<1>8. ASSUME NEW slots \in Calls, EnqueueAndFlush(slots)
      PROVE  flush' \in Flushes /\ hist' \in Histories
  <2>1. PICK w \in Writes, queue \in [Collections -> Values] : CallEffect(w, slots, queue)
    BY <1>8, CallIs
  <2> QED BY <2>1 DEF CallEffect
<1>9. ASSUME NEW slot \in Changes, NEW k \in Keys, Publish(slot[1], slot[2], k)
      PROVE  flush' \in Flushes /\ hist' \in Histories
  <2>1. slot[1] \in Collections
    BY DEF AppStateAssumption, Slots
  <2> QED BY <1>0, <1>9, <2>1, PublishIs DEF PublishEffect
<1>10. CASE DirtyArrives \/ \E k \in Keys : KeyShareArrives(k)
  <2>1. SyncAll(hist) /\ UNCHANGED flush
    BY <1>10 DEF DirtyArrives, KeyShareArrives
  <2> QED BY <1>0, <2>1, SyncAllIs DEF Alike
<1>11. CASE UNCHANGED vars \/ ProcessRound \/ Notified
  BY <1>1, <1>11 DEF vars, ProcessRound, Notified
<1> QED BY <1>2, <1>3, <1>4, <1>5, <1>6, <1>7, <1>8, <1>9, <1>10, <1>11
        DEF Next, SyncStep, FlushStep

LEMMA DirtyTyped ==
  ASSUME TypeOK, [Next]_vars
  PROVE  dirty' \in BOOLEAN
<1>1. CASE UNCHANGED dirty
  BY <1>1 DEF TypeOK
<1>2. CASE DirtyArrives \/ \E slot \in Changes, k \in Keys : Publish(slot[1], slot[2], k)
  BY <1>2 DEF DirtyArrives, Publish
<1>3. CASE \/ UNCHANGED vars \/ SyncStep \/ QueryFails \/ SaveFails \/ FlushStep
           \/ \E slots \in Calls : EnqueueAndFlush(slots)
           \/ \E k \in Keys : KeyShareArrives(k)
  <2>1. UNCHANGED dirty
    BY <1>3 DEF vars, SyncStep, RoundThrows, ServerAnswers, ProcessRound, Notified, Save, QueryFails,
                SaveFails, FlushStep, FlushReturns, FlushThrows, FlushSettles, EnqueueAndFlush,
                KeyShareArrives
  <2> QED BY <1>1, <2>1
<1> QED BY <1>2, <1>3 DEF Next

\* The copies of a step.
LEMMA CopiesStep ==
  ASSUME AppStateAssumption, CopiesInvariant, [Next]_vars
  PROVE  CopiesInvariant' /\ LogGrows /\ RunSteps
<1>1. TypeOK /\ Stored /\ Cached /\ Answered
  BY DEF CopiesInvariant
<1>2. LogGrows /\ RunSteps
  BY <1>1, LogSteps, RunStepsAre
<1>3. TypeOK'
  <2>1. log' \in [Collections -> Seq(Patches)]
    BY <1>2 DEF LogGrows
  <2>2. /\ store' \in [keys : SUBSET Keys, have : [Collections -> Copies]]
        /\ run' \in Runs /\ flush' \in Flushes /\ hist' \in Histories /\ dirty' \in BOOLEAN
    BY <1>1, <1>2, StoreTyped, RunTyped, FlushTyped, DirtyTyped
  <2> QED BY <2>1, <2>2 DEF TypeOK
<1>4. Stored' /\ Cached' /\ Answered'
  BY <1>1, <1>2, StoredSteps, CachedSteps, AnsweredSteps
<1> QED BY <1>2, <1>3, <1>4 DEF CopiesInvariant

LEMMA CopiesInit ==
  ASSUME AppStateAssumption, Init
  PROVE  CopiesInvariant
<1>1. TypeOK
  <2>1. log \in [Collections -> Seq(Patches)]
    BY DEF Init
  <2>2. store \in [keys : SUBSET Keys, have : [Collections -> Copies]]
    BY EmptyTyped DEF Init, AppStateAssumption, Keys
  <2>3. run \in Runs
    BY IdleIs DEF Init
  <2>4. flush \in Flushes
    BY EmptyTyped DEF Init, Flushes
  <2>5. hist \in Histories
    <3>1. 0 \in 0..MaxWrites /\ 0 \in 0..MaxFaults
      BY DEF AppStateAssumption
    <3>2. [c \in Collections |-> {}] \in [Collections -> SUBSET Nat]
      OBVIOUS
    <3> QED BY <3>1, <3>2, EmptyTyped DEF Init, Histories
  <2> QED BY <2>1, <2>2, <2>3, <2>4, <2>5 DEF Init, TypeOK
<1>2. \A c \in Collections : IsCopy(c, Fresh)
  <2>1. \A c \in Collections : log[c] = <<>> /\ Len(log[c]) = 0
    BY DEF Init
  <2>2. 0 \in Nat
    OBVIOUS
  <2> QED BY <2>1, <2>2, FreshIsCopy DEF IsCopy
<1>3. /\ store.have = [c \in Collections |-> Fresh] /\ run = Idle
  BY DEF Init
<1>4. Stored
  BY <1>2, <1>3 DEF Stored
<1>5. /\ run.stage = "none" /\ run.toSync = {} /\ run.collections = {} /\ run.unsaved = {}
      /\ run.cache = [c \in Collections |-> Fresh]
  BY <1>3, IdleIs
<1>6. Cached /\ Answered
  BY <1>2, <1>5 DEF Cached, Answered
<1> QED BY <1>1, <1>4, <1>6 DEF CopiesInvariant

LEMMA CopiesHold == Spec => []CopiesInvariant
<1>1. Init => CopiesInvariant
  BY AppStateAssumption, CopiesInit
<1>2. CopiesInvariant /\ [Next]_vars => CopiesInvariant'
  BY AppStateAssumption, CopiesStep
<1> QED BY <1>1, <1>2, PTL DEF Spec

(* Every variable of app-state sync has its type, for any collections,     *)
(* calls, numbers of rounds and faults.                                    *)
THEOREM AppStateTyping == Spec => []TypeOK
<1>1. CopiesInvariant => TypeOK
  BY DEF CopiesInvariant
<1> QED BY <1>1, CopiesHold, PTL

-----------------------------------------------------------------------------
(* The refinement.                                                         *)

\* The patches of a log without their keys.
Sets(patches) == [v \in DOMAIN patches |-> patches[v].set]

LEMMA SetsIs ==
  ASSUME NEW s \in Seq(Patches)
  PROVE  /\ Sets(s) \in Seq(Values) /\ Len(Sets(s)) = Len(s)
         /\ \A v \in 1..Len(s) : Sets(s)[v] = s[v].set
<1> DEFINE n == Len(s)
           f == Sets(s)
<1>1. n \in Nat /\ DOMAIN s = 1..n /\ \A v \in 1..n : s[v].set \in Values
  <2>1. n \in Nat /\ DOMAIN s = 1..n /\ s \in [1..n -> Patches]
    BY LenProperties
  <2> QED BY <2>1 DEF Patches
<1>2. f \in [1..n -> Values] /\ \A v \in 1..n : f[v] = s[v].set
  BY <1>1 DEF Sets
<1> HIDE DEF n, f
<1>3. f \in Seq(Values)
  BY <1>1, <1>2, SeqDef
<1>4. Len(f) = n
  <2>1. Len(f) \in Nat /\ 1..n = 1..Len(f)
    <3>1. Len(f) \in Nat /\ DOMAIN f = 1..Len(f)
      BY <1>3, LenProperties
    <3>2. DOMAIN f = 1..n
      BY <1>2
    <3> QED BY <3>1, <3>2
  <2>2. CASE Len(f) < n
    <3>1. n \in 1..n /\ n \notin 1..Len(f)
      BY <1>1, <2>1, <2>2
    <3> QED BY <2>1, <3>1
  <2>3. CASE n < Len(f)
    <3>1. Len(f) \in 1..Len(f) /\ Len(f) \notin 1..n
      BY <1>1, <2>1, <2>3
    <3> QED BY <2>1, <3>1
  <2> QED BY <1>1, <2>1, <2>2, <2>3
<1> QED BY <1>2, <1>3, <1>4 DEF n, f

\* The contents of a prefix of the log is what its patches are merged to.
LEMMA ContentsIs ==
  ASSUME NEW s \in Seq(Patches), NEW n \in 0..Len(s)
  PROVE  AsPromised!Contents(SubSeq(Sets(s), 1, n)) = Merged(s, 1, n)
<1> DEFINE q == SubSeq(Sets(s), 1, n)
<1>1. /\ Len(s) \in Nat /\ Sets(s) \in Seq(Values) /\ Len(Sets(s)) = Len(s)
      /\ \A v \in 1..Len(s) : Sets(s)[v] = s[v].set
  BY SetsIs, LenProperties
<1>2. /\ n \in Int /\ 1 \in Int /\ 1..n \subseteq 1..Len(s)
      /\ \A v \in 1..n : Sets(s)[v] \in Values
  BY <1>1, ElementOfSeq
<1>3. /\ q \in Seq(Values) /\ Len(q) = IF 1 <= n THEN n - 1 + 1 ELSE 0
      /\ \A v \in 1..(n - 1 + 1) : q[v] = Sets(s)[1 + v - 1]
  BY <1>2, SubSeqProperties
<1>4. Len(q) = n /\ DOMAIN q = 1..n
  BY <1>1, <1>3, LenProperties
<1>5. \A v \in 1..n : q[v] = s[v].set
  BY <1>1, <1>2, <1>3
<1> HIDE DEF q
<1>6. ASSUME NEW i \in Indexes
      PROVE  {v \in DOMAIN q : q[v][i] # AsPromised!NoWrite} =
             {v \in 1..n : s[v].set[i] # NoWrite}
  BY <1>4, <1>5 DEF AsPromised!NoWrite, NoWrite
<1>7. ASSUME NEW i \in Indexes
      PROVE  AsPromised!Contents(q)[i] = Merged(s, 1, n)[i]
  <2> DEFINE T == {v \in DOMAIN q : q[v][i] # AsPromised!NoWrite}
             U == {v \in 1..n : s[v].set[i] # NoWrite}
  <2>1. T = U
    BY <1>6
  <2>2. AsPromised!Contents(q)[i] = IF T = {} THEN AsPromised!NoWrite
                                    ELSE q[AsPromised!Max(T)][i]
    BY DEF AsPromised!Contents
  <2>3. Merged(s, 1, n)[i] = IF U = {} THEN NoWrite ELSE s[Max(U)].set[i]
    BY DEF Merged
  <2>4. U # {} => Max(U) \in 1..n /\ AsPromised!Max(U) = Max(U)
    <3>1. U \in SUBSET Nat /\ n \in Nat /\ \A v \in U : v <= n /\ v \in 1..n
      BY <1>1
    <3> HIDE DEF U
    <3>2. U # {} => Max(U) \in U
      BY <3>1, MaxIs
    <3>3. AsPromised!Max(U) = Max(U)
      BY DEF Max, AsPromised!Max
    <3> QED BY <3>1, <3>2, <3>3
  <2> HIDE DEF T, U
  <2> QED BY <1>5, <2>1, <2>2, <2>3, <2>4 DEF AsPromised!NoWrite, NoWrite
<1>8. /\ AsPromised!Contents(q) = [i \in Indexes |-> AsPromised!Contents(q)[i]]
      /\ Merged(s, 1, n) = [i \in Indexes |-> Merged(s, 1, n)[i]]
  BY DEF AsPromised!Contents, Merged
<1>9. \A f, g : f = [i \in Indexes |-> f[i]] /\ g = [i \in Indexes |-> g[i]]
                /\ (\A i \in Indexes : f[i] = g[i]) => f = g
  OBVIOUS
<1>10. AsPromised!Contents(q) = Merged(s, 1, n)
  BY <1>7, <1>8, <1>9
<1> QED BY <1>10 DEF q

LEMMA PrefixIs ==
  ASSUME NEW s \in Seq(Patches), NEW t \in Seq(Patches), Len(s) <= Len(t),
         \A v \in 1..Len(s) : t[v] = s[v]
  PROVE  AsPromised!IsPrefix(Sets(s), Sets(t))
<1> DEFINE n == Len(s)
           p == SubSeq(Sets(s), 1, n)
           q == SubSeq(Sets(t), 1, n)
<1>1. /\ n \in Nat /\ Len(t) \in Nat /\ n <= Len(t)
      /\ Sets(s) \in Seq(Values) /\ Len(Sets(s)) = n
      /\ Sets(t) \in Seq(Values) /\ Len(Sets(t)) = Len(t)
      /\ \A v \in 1..n : Sets(s)[v] = s[v].set
      /\ \A v \in 1..Len(t) : Sets(t)[v] = t[v].set
  BY SetsIs, LenProperties
<1>2. \A v \in 1..n : t[v] = s[v]
  OBVIOUS
<1> HIDE DEF n
<1>3. /\ n \in Int /\ 1 \in Int /\ 1..n \subseteq 1..Len(t) /\ n - 1 + 1 = n
      /\ \A v \in 1..n : Sets(s)[v] \in Values
      /\ \A v \in 1..n : Sets(t)[v] \in Values
      /\ \A v \in 1..n : 1 + v - 1 = v
  BY <1>1, ElementOfSeq
<1>4. /\ p \in Seq(Values) /\ Len(p) = IF 1 <= n THEN n - 1 + 1 ELSE 0
      /\ \A v \in 1..(n - 1 + 1) : p[v] = Sets(s)[1 + v - 1]
  BY <1>3, SubSeqProperties
<1>5. /\ q \in Seq(Values) /\ Len(q) = IF 1 <= n THEN n - 1 + 1 ELSE 0
      /\ \A v \in 1..(n - 1 + 1) : q[v] = Sets(t)[1 + v - 1]
  BY <1>3, SubSeqProperties
<1> HIDE DEF p, q
<1>6. Len(p) = n /\ Len(q) = n
  BY <1>1, <1>4, <1>5
<1>7. \A v \in 1..n : p[v] = q[v]
  <2>1. \A v \in 1..n : p[v] = Sets(s)[v]
    BY <1>3, <1>4
  <2>2. \A v \in 1..n : q[v] = Sets(t)[v]
    BY <1>3, <1>5
  <2>3. \A v \in 1..n : v \in 1..Len(t)
    BY <1>3
  <2>4. \A v \in 1..n : q[v] = t[v].set
    BY <1>1, <2>2, <2>3
  <2>5. \A v \in 1..n : p[v] = s[v].set
    BY <1>1, <2>1
  <2> HIDE DEF n
  <2> QED BY <1>2, <2>4, <2>5
<1>8. p = q
  BY <1>4, <1>5, <1>6, <1>7, SeqEqual
<1> QED BY <1>1, <1>8 DEF AsPromised!IsPrefix, p, q, n

\* The log and the copies as the promise has them.
PromisedLog == [c \in Collections |-> [v \in DOMAIN log[c] |-> log[c][v].set]]
PromisedHave == [c \in Collections |-> [version |-> store.have[c].version,
                                        map |-> store.have[c].map]]

LEMMA PublishPromised ==
  ASSUME CopiesInvariant, LogGrows, UNCHANGED store.have
  PROVE  AsPromised!Publish
<1>1. ASSUME NEW c \in Collections
      PROVE  /\ Sets(log'[c]) \in Seq(Values)
             /\ AsPromised!IsPrefix(Sets(log[c]), Sets(log'[c]))
  <2>1. log[c] \in Seq(Patches) /\ log'[c] \in Seq(Patches)
    BY DEF CopiesInvariant, TypeOK, LogGrows
  <2>2. Len(log[c]) <= Len(log'[c]) /\ \A v \in 1..Len(log[c]) : log'[c][v] = log[c][v]
    BY DEF LogGrows
  <2> QED BY <2>1, <2>2, SetsIs, PrefixIs
<1>2. AsPromised!Values = Values
  BY DEF AsPromised!Values, Values, AsPromised!NoWrite, NoWrite
<1>3. /\ PromisedLog = [c \in Collections |-> Sets(log[c])]
      /\ PromisedLog' = [c \in Collections |-> Sets(log'[c])]
  BY DEF PromisedLog, Sets
<1>4. PromisedLog' \in [Collections -> Seq(Values)]
  BY <1>1, <1>3
<1>5. \A c \in Collections : AsPromised!IsPrefix(PromisedLog[c], PromisedLog'[c])
  BY <1>1, <1>3
<1>6. PromisedHave' = PromisedHave
  BY DEF PromisedHave
<1> QED BY <1>2, <1>4, <1>5, <1>6 DEF AsPromised!Publish, PromisedLog, PromisedHave

LEMMA CatchUpPromised ==
  ASSUME CopiesInvariant, CopiesInvariant', Save
  PROVE  AsPromised!CatchUp
<1>0. log' = log
  BY DEF Save
<1>1. ASSUME NEW c \in Collections
      PROVE  /\ store'.have[c].version \in store.have[c].version..Len(Sets(log[c]))
             /\ store'.have[c].map =
                  AsPromised!Contents(SubSeq(Sets(log[c]), 1, store'.have[c].version))
  <2>1. /\ log[c] \in Seq(Patches)
        /\ store.have[c] \in Copies /\ store'.have[c] \in Copies
    BY StoreIs DEF CopiesInvariant, TypeOK
  <2>2. store.have[c].version <= store'.have[c].version
    BY SaveIs DEF CopiesInvariant
  <2>3. /\ store'.have[c].version <= Len(log[c])
        /\ store'.have[c].map = Merged(log[c], 1, store'.have[c].version)
    BY <1>0 DEF CopiesInvariant, Stored, IsCopy
  <2>4. /\ Len(log[c]) \in Nat /\ Len(Sets(log[c])) = Len(log[c])
        /\ store.have[c].version \in Nat /\ store'.have[c].version \in Nat
    BY <2>1, CopyIs, SetsIs, LenProperties
  <2>5. store'.have[c].version \in 0..Len(log[c])
    BY <2>3, <2>4
  <2> QED BY <2>1, <2>2, <2>3, <2>4, <2>5, ContentsIs
<1>2. PromisedLog = [c \in Collections |-> Sets(log[c])] /\ PromisedLog' = PromisedLog
  BY <1>0 DEF PromisedLog, Sets
<1>3. PromisedHave' = [c \in Collections |-> AsPromised!Copy(c, PromisedHave'[c].version)]
  <2>1. ASSUME NEW c \in Collections
        PROVE  [version |-> store'.have[c].version, map |-> store'.have[c].map]
               = AsPromised!Copy(c, PromisedHave'[c].version)
    <3>1. PromisedHave'[c].version = store'.have[c].version
      BY DEF PromisedHave
    <3>2. PromisedLog[c] = Sets(log[c])
      BY <1>2
    <3> QED BY <1>1, <3>1, <3>2 DEF AsPromised!Copy, PromisedLog
  <2> QED BY <2>1 DEF PromisedHave
<1>4. ASSUME NEW c \in Collections
      PROVE  PromisedHave'[c].version \in PromisedHave[c].version..Len(PromisedLog[c])
  BY <1>1, <1>2 DEF PromisedHave
<1> QED BY <1>2, <1>3, <1>4 DEF AsPromised!CatchUp, PromisedLog, PromisedHave

\* Whatever answers are lost, repeated, cut short by a missing key or fail to be
\* saved, the stored copy of a collection is what a prefix of the server's log
\* contains, and it never goes back (processCollectionRound, applyPatch, Save).
THEOREM CopiesAreReplicas == Spec => ReplicaSpec
<1>1. Init => AsPromised!Init
  <2> SUFFICES ASSUME Init PROVE AsPromised!Init
    OBVIOUS
  <2>1. /\ log = [c \in Collections |-> <<>>]
        /\ store.have = [c \in Collections |-> Fresh]
    BY DEF Init
  <2>2. Sets(<<>>) = <<>>
    <3>1. <<>> \in Seq(Patches) /\ Len(<<>>) = 0
      BY EmptySeq
    <3>2. Sets(<<>>) \in Seq(Values) /\ Len(Sets(<<>>)) = 0
      BY <3>1, SetsIs
    <3> QED BY <3>2, EmptySeq
  <2>3. PromisedLog = [c \in Collections |-> <<>>]
    BY <2>1, <2>2 DEF PromisedLog, Sets
  <2>4. PromisedHave = [c \in Collections |-> [version |-> 0, map |-> Nothing]]
    BY <2>1 DEF PromisedHave, Fresh
  <2>5. AsPromised!Nothing = Nothing
    BY DEF AsPromised!Nothing, Nothing, AsPromised!NoWrite, NoWrite
  <2> QED BY <2>3, <2>4, <2>5 DEF AsPromised!Init, PromisedLog, PromisedHave
<1>2. CopiesInvariant /\ CopiesInvariant' /\ [Next]_vars =>
        [AsPromised!Next]_<<[c \in Collections |-> [v \in DOMAIN log[c] |-> log[c][v].set]],
                            [c \in Collections |-> [version |-> store.have[c].version,
                                                    map |-> store.have[c].map]]>>
  <2> SUFFICES ASSUME CopiesInvariant, CopiesInvariant', [Next]_vars
               PROVE  AsPromised!Next
    OBVIOUS
  <2>1. Save \/ UNCHANGED store.have
    BY StoreTyped DEF CopiesInvariant
  <2>2. LogGrows
    BY AppStateAssumption, CopiesStep
  <2> QED BY <2>1, <2>2, PublishPromised, CatchUpPromised DEF AsPromised!Next
<1> QED BY <1>1, <1>2, CopiesHold, PTL DEF Spec, ReplicaSpec, AsPromised!Spec

-----------------------------------------------------------------------------
(* The writes of the user.                                                 *)

\* What the user did and was told is as before.
Remembered ==
  /\ hist' \in Histories /\ hist.writes <= hist'.writes
  /\ hist'.newest = hist.newest /\ hist'.local = hist.local /\ hist'.told = hist.told
  /\ hist'.joined = hist.joined /\ hist'.late = hist.late
  /\ hist.emitted \subseteq hist'.emitted /\ hist.lapses \subseteq hist'.lapses
  /\ \A c \in Collections : hist.silent[c] \subseteq hist'.silent[c]

\* The flush is left alone, loses the run it awaits, or has its result; or one
\* of its own steps is taken.
StillEffect ==
  /\ UNCHANGED flush /\ Remembered
  /\ run.stage # "none" => /\ run'.stage # "none"
                           /\ run'.pending = run.pending /\ run'.collections = run.collections
  /\ run'.pending \in {run.pending, Nowhere}
FlushSteps ==
  \/ StillEffect
  \/ flush' = Threw(flush) /\ Remembered /\ run' = Idle
  \/ Save /\ flush' = Returned(flush) /\ Remembered
  \/ \E slots \in Calls, w \in Writes, queue \in [Collections -> Values] :
       w = hist.writes + 1 /\ CallEffect(w, slots, queue)
  \/ flush.stage = "returned" /\ ReturnEffect
  \/ flush.stage = "threw" /\ ThrowEffect
  \/ flush.stage = "ended" /\ SettleEffect

LEMMA AlikeRemembers ==
  ASSUME TypeOK, Alike(hist', hist)
  PROVE  Remembered
<1>1. hist.writes \in Nat
  BY HistoryIs DEF TypeOK, AppStateAssumption
<1> QED BY <1>1 DEF Alike, Remembered

LEMMA FlushStepsAre ==
  ASSUME AppStateAssumption, CopiesInvariant, [Next]_vars
  PROVE  FlushSteps
<1>0. TypeOK /\ Cached /\ Answered /\ hist \in Histories
  BY DEF CopiesInvariant, TypeOK
<1>1. CASE UNCHANGED vars
  <2>1. hist' = hist /\ Alike(hist, hist)
    BY <1>0, <1>1, SameIsAlike DEF vars
  <2>2. Remembered
    BY <1>0, <2>1, AlikeRemembers
  <2> QED BY <1>1, <2>2 DEF vars, FlushSteps, StillEffect
<1>2. CASE RoundThrows \/ QueryFails \/ SaveFails
  <2>1. flush' = Threw(flush) /\ run' = Idle
    BY <1>2 DEF RoundThrows, QueryFails, SaveFails, RunThrows
  <2>2. Alike(hist', hist)
    BY <1>0, <1>2, FaultIs
  <2>3. Remembered
    BY <1>0, <2>2, AlikeRemembers
  <2> QED BY <2>1, <2>3 DEF FlushSteps
<1>3. ASSUME NEW n \in 1..MaxWrites, NEW page \in 1..Page, ServerAnswers(n, page)
      PROVE  FlushSteps
  <2>1. AnswerEffect(n, page)
    BY <1>0, <1>3, AnsweringIs
  <2>2. UNCHANGED flush
    BY <1>3 DEF ServerAnswers
  <2>3. Alike(hist', hist)
    BY <1>0, <1>3, AnswerHistory
  <2>4. Remembered
    BY <1>0, <2>3, AlikeRemembers
  <2> QED BY <2>1, <2>2, <2>4 DEF FlushSteps, StillEffect, AnswerEffect
<1>4. CASE ProcessRound \/ Notified
  <2>1. UNCHANGED flush /\ hist' = hist
    BY <1>4 DEF ProcessRound, Notified
  <2>2. /\ run'.stage # "none"
        /\ run'.pending = run.pending /\ run'.collections = run.collections
    <3>1. CASE ProcessRound
      <4>1. RoundEffect
        BY <1>0, <3>1, RoundIs
      <4> QED BY <4>1 DEF RoundEffect
    <3>2. CASE Notified
      <4>1. NoticeEffect
        BY <1>0, <3>2, NoticeIs
      <4> QED BY <4>1 DEF NoticeEffect
    <3> QED BY <1>4, <3>1, <3>2
  <2>3. Remembered
    BY <1>0, <2>1, SameIsAlike, AlikeRemembers
  <2> QED BY <2>1, <2>2, <2>3 DEF FlushSteps, StillEffect
<1>5. CASE Save
  <2>1. flush' = Returned(flush)
    BY <1>5 DEF Save
  <2>2. SaveEffect /\ hist.writes \in Nat
    BY <1>0, <1>5, SaveHistory, HistoryIs DEF AppStateAssumption
  <2>3. Remembered
    BY <2>2 DEF SaveEffect, Remembered
  <2> QED BY <1>5, <2>1, <2>3 DEF FlushSteps
<1>6. ASSUME NEW slots \in Calls, EnqueueAndFlush(slots)
      PROVE  FlushSteps
  <2>1. PICK w \in Writes, queue \in [Collections -> Values] :
          w = hist.writes + 1 /\ CallEffect(w, slots, queue)
    BY <1>0, <1>6, CallIs
  <2> QED BY <2>1 DEF FlushSteps
<1>7. CASE FlushStep
  <2>1. CASE FlushReturns
    BY <1>0, <2>1, ReturnIs DEF FlushReturns, FlushSteps
  <2>2. CASE FlushThrows
    BY <1>0, <2>2, ThrowIs DEF FlushThrows, FlushSteps
  <2>3. CASE FlushSettles
    BY <1>0, <2>3, SettleIs DEF FlushSettles, FlushSteps
  <2> QED BY <1>7, <2>1, <2>2, <2>3 DEF FlushStep
<1>8. ASSUME NEW slot \in Changes, NEW k \in Keys, Publish(slot[1], slot[2], k)
      PROVE  FlushSteps
  <2>1. slot[1] \in Collections
    BY DEF AppStateAssumption, Slots
  <2>2. PublishEffect(slot[1], slot[2], k) /\ hist.writes \in Nat
    BY <1>0, <1>8, <2>1, PublishIs, HistoryIs DEF AppStateAssumption
  <2>3. Remembered
    BY <2>2 DEF PublishEffect, Remembered
  <2> QED BY <2>2, <2>3 DEF PublishEffect, FlushSteps, StillEffect
<1>9. CASE DirtyArrives \/ \E k \in Keys : KeyShareArrives(k)
  <2>1. SyncAll(hist) /\ UNCHANGED flush
    BY <1>9 DEF DirtyArrives, KeyShareArrives
  <2>2. run' = run \/ (run.stage = "none" /\ run' = Started(Collections, Nowhere))
    BY <2>1 DEF SyncAll, Synced
  <2>5. run'.pending \in {run.pending, Nowhere}
    <3>1. PICK all \in SUBSET Collections : all = Collections
      OBVIOUS
    <3>2. Beginning(Started(all, Nowhere), all, Nowhere)
      BY <1>0, EmptyTyped, StartedIs
    <3>3. run' = run \/ Beginning(run', all, Nowhere)
      BY <2>2, <3>1, <3>2
    <3> QED BY <3>3 DEF Beginning
  <2>3. Alike(hist', hist)
    BY <1>0, <2>1, SyncAllIs
  <2>4. Remembered
    BY <1>0, <2>3, AlikeRemembers
  <2> QED BY <2>1, <2>2, <2>4, <2>5 DEF FlushSteps, StillEffect
<1> QED BY <1>1, <1>2, <1>3, <1>4, <1>5, <1>6, <1>7, <1>8, <1>9 DEF Next, SyncStep

\* What is queued is the user's last write, what is in the batch too, unless one
\* is queued since.  There is a batch only while it is synced.
InBatch ==
  /\ flush.stage \in {"none", "ended"} => flush.batch = Nowhere
  /\ \A c \in Collections, i \in Indexes :
       /\ flush.queue[c][i] \in {NoWrite, hist.newest[c][i]}
       /\ \/ flush.batch[c][i] \in {NoWrite, hist.newest[c][i]}
          \/ flush.queue[c][i] # NoWrite
Holds(c, values) == \E v \in 1..Len(log[c]) : log[c][v].set = values
\* The run the flush started carries its batch.
Carried ==
  flush.own /\ flush.stage = "syncing" =>
    /\ run.stage # "none" /\ run.pending = flush.batch
    /\ \A c \in Collections : flush.batch[c] # Nothing => c \in run.collections
\* A collection a run succeeded with has what was pending for it.
Uploading ==
  /\ run.stage = "saving" => run.toSync = {}
  /\ \A c \in run.collections \ run.toSync :
       run.results[c].state \in Success /\ run.pending[c] # Nothing => Holds(c, run.pending[c])
\* So has one the flush is told of.
Confirmed ==
  flush.own /\ flush.stage = "returned" =>
    \A c \in Collections :
      flush.batch[c] # Nothing /\ flush.outcome[c] \in Success => Holds(c, flush.batch[c])
WritesInvariant == InBatch /\ Carried /\ Uploading /\ Confirmed /\ NoWriteLost

\* As the log grows it continues to hold what it holds.
LEMMA HoldsStays ==
  ASSUME LogGrows, NEW c \in Collections, NEW values, Holds(c, values)
  PROVE  \E v \in 1..Len(log'[c]) : log'[c][v].set = values
<1>1. PICK v \in 1..Len(log[c]) : log[c][v].set = values
  BY DEF Holds
<1>2. /\ Len(log[c]) \in Nat /\ Len(log'[c]) \in Nat /\ Len(log[c]) <= Len(log'[c])
      /\ log'[c][v] = log[c][v]
  BY DEF LogGrows
<1>3. v \in 1..Len(log'[c])
  BY <1>2
<1> QED BY <1>1, <1>2, <1>3

LEMMA OnServerIs ==
  ASSUME TypeOK, NEW c \in Collections, NEW i, NEW w
  PROVE  OnServer(c, i, w) <=> \E v \in 1..Len(log[c]) : log[c][v].set[i] = w
<1>1. DOMAIN log[c] = 1..Len(log[c])
  BY LenProperties DEF TypeOK
<1> QED BY <1>1 DEF OnServer

LEMMA OnServerStays ==
  ASSUME TypeOK, TypeOK', LogGrows, NEW c \in Collections, NEW i, NEW w, OnServer(c, i, w)
  PROVE  \E v \in DOMAIN log'[c] : log'[c][v].set[i] = w
<1>1. PICK v \in 1..Len(log[c]) : log[c][v].set[i] = w
  BY OnServerIs
<1>2. /\ Len(log[c]) \in Nat /\ Len(log'[c]) \in Nat /\ Len(log[c]) <= Len(log'[c])
      /\ log'[c][v] = log[c][v]
  BY DEF LogGrows
<1>3. v \in 1..Len(log'[c])
  BY <1>2
<1>4. DOMAIN log'[c] = 1..Len(log'[c])
  BY LenProperties DEF TypeOK
<1> QED BY <1>1, <1>2, <1>3, <1>4

LEMMA UploadingGrows ==
  ASSUME LogGrows, run'.collections \subseteq Collections,
         run'.stage = "saving" => run'.toSync = {},
         \A c \in run'.collections \ run'.toSync :
           run'.results[c].state \in Success /\ run'.pending[c] # Nothing =>
             Holds(c, run'.pending[c])
  PROVE  Uploading'
<1>1. ASSUME NEW c \in run'.collections \ run'.toSync,
             run'.results[c].state \in Success, run'.pending[c] # Nothing
      PROVE  Holds(c, run.pending[c])'
  <2>1. Holds(c, run'.pending[c])
    BY <1>1
  <2>2. \E v \in 1..Len(log'[c]) : log'[c][v].set = run'.pending[c]
    BY <2>1, HoldsStays
  <2> QED BY <2>2 DEF Holds
<1> QED BY <1>1 DEF Uploading

LEMMA UploadingSteps ==
  ASSUME AppStateAssumption, CopiesInvariant, Uploading, LogGrows, RunSteps
  PROVE  Uploading'
<1>0. TypeOK /\ Cached /\ Answered
  BY DEF CopiesInvariant
<1>00. run.collections \subseteq Collections /\ run.toSync \subseteq Collections
  BY <1>0, RunIs DEF TypeOK
<1>1. CASE UNCHANGED run
  BY <1>00, <1>1, UploadingGrows DEF Uploading
<1>2. CASE Starts
  <2>1. PICK collections \in SUBSET Collections, pending \in [Collections -> Values] :
          Beginning(run', collections, pending)
    BY <1>0, <1>2, StartsIs
  <2> QED BY <2>1 DEF Beginning, Uploading
<1>3. CASE run' = Idle \/ Save
  <2>1. run'.stage = "none" /\ run'.collections = {}
    BY <1>3, IdleIs DEF Save
  <2> QED BY <2>1 DEF Uploading
<1>4. ASSUME NEW n \in 1..MaxWrites, NEW page \in 1..Page, ServerAnswers(n, page)
      PROVE  Uploading'
  <2>1. AnswerEffect(n, page)
    BY <1>0, <1>4, AnsweringIs
  <2>2. /\ run'.stage = "answered" /\ run'.collections = run.collections
        /\ run'.toSync = run.toSync /\ run'.pending = run.pending /\ run'.results = run.results
    BY <2>1 DEF AnswerEffect
  <2> QED BY <1>00, <2>2, UploadingGrows DEF Uploading
<1>5. CASE ProcessRound
  <2>1. RoundEffect
    BY <1>0, <1>5, RoundIs
  <2>2. /\ run'.stage = "saving" => run'.toSync = {}
        /\ run'.collections = run.collections /\ run'.pending = run.pending
    BY <2>1 DEF RoundEffect
  <2>3. ASSUME NEW c \in run'.collections \ run'.toSync,
               run'.results[c].state \in Success, run'.pending[c] # Nothing
        PROVE  Holds(c, run.pending[c])
    <3>1. CASE c \notin run.toSync
      <4>1. run'.results[c] = run.results[c]
        BY <1>00, <2>1, <2>2, <3>1 DEF RoundEffect
      <4> QED BY <2>2, <2>3, <3>1, <4>1 DEF Uploading
    <3>2. CASE c \in run.toSync
      <4> DEFINE p == run.answers[c]
                 o == Process(c, p)
      <4>1. \/ run'.results[c] = [state |-> o.state, mutations |-> o.mutations] /\ ~o.refetch
            \/ run'.results[c] = NoResults[c]
        BY <2>1, <2>3, <3>2 DEF RoundEffect
      <4>2. NoResults[c].state = "error_retry" /\ "error_retry" \notin Success
        BY <1>00, <3>2 DEF NoResults, Success
      <4>3. o.state \in Success /\ ~o.refetch
        BY <2>3, <4>1, <4>2
      <4>4. Complete(c, p, o)
        BY <1>0, <1>5, <3>2, ProcessIs DEF Processes, ProcessRound
      <4>5. /\ p.state = "success" \/ (p.state = "conflict" /\ run.pending[c] = Nothing)
            /\ Fits(c, p)
            /\ run.pending[c] # Nothing => Uploads(c)
        BY <4>3, <4>4 DEF Complete
      <4>6. /\ run.cache[c].version < Len(log[c])
            /\ log[c][run.cache[c].version + 1].set = run.pending[c]
        BY <2>2, <2>3, <4>5 DEF Fits
      <4>7. run.cache[c].version \in Nat /\ Len(log[c]) \in Nat
        BY <1>0, <1>00, <3>2, CacheIs
      <4>8. run.cache[c].version + 1 \in 1..Len(log[c])
        BY <4>6, <4>7
      <4> QED BY <4>6, <4>8 DEF Holds
    <3> QED BY <3>1, <3>2
  <2>4. \A c \in run'.collections \ run'.toSync :
          run'.results[c].state \in Success /\ run'.pending[c] # Nothing =>
            Holds(c, run'.pending[c])
    BY <2>2, <2>3
  <2> QED BY <1>00, <2>2, <2>3, <2>4, UploadingGrows
<1>6. CASE Notified
  <2>1. NoticeEffect
    BY <1>0, <1>6, NoticeIs
  <2>2. ASSUME NEW c \in run'.collections \ run'.toSync,
               run'.results[c].state \in Success, run'.pending[c] # Nothing
        PROVE  Holds(c, run.pending[c])
    <3>1. CASE c \in run.toSync
      <4>1. run'.results[c] = NoResults[c]
        BY <2>1, <2>2, <3>1 DEF NoticeEffect, GivenUp
      <4> QED BY <1>00, <2>2, <3>1, <4>1 DEF NoResults, Success
    <3>2. CASE c \notin run.toSync
      <4>1. /\ run'.results[c] = run.results[c] /\ c \in run.collections
            /\ run'.pending = run.pending
        BY <1>00, <2>1, <2>2, <3>2 DEF NoticeEffect
      <4> QED BY <2>2, <3>2, <4>1 DEF Uploading
    <3> QED BY <3>1, <3>2
  <2>3. /\ run'.stage = "saving" => run'.toSync = {}
        /\ run'.collections = run.collections /\ run'.pending = run.pending
    BY <2>1 DEF NoticeEffect
  <2>4. \A c \in run'.collections \ run'.toSync :
          run'.results[c].state \in Success /\ run'.pending[c] # Nothing =>
            Holds(c, run'.pending[c])
    BY <2>2, <2>3
  <2> QED BY <1>00, <2>2, <2>3, <2>4, UploadingGrows
<1> QED BY <1>1, <1>2, <1>3, <1>4, <1>5, <1>6 DEF RunSteps

\* A batch whose sync the flush begins itself is carried by the run.
LEMMA BatchIsCarried ==
  ASSUME AppStateAssumption, TypeOK, NEW queue \in [Collections -> Values], SyncEffect(queue),
         flush'.own
  PROVE  /\ run'.stage = "round" /\ run'.pending = queue
         /\ \A c \in Collections : queue[c] # Nothing => c \in run'.collections
<1> DEFINE touched == {c \in Collections : queue[c] # Nothing}
<1>1. touched \in SUBSET Collections /\ \A c \in Collections : queue[c] # Nothing => c \in touched
  OBVIOUS
<1>2. run' = Synced(touched, queue) /\ run.stage = "none"
  BY DEF SyncEffect
<1> HIDE DEF touched
<1>3. Beginning(Started(touched, queue), touched, queue)
  BY <1>1, StartedIs
<1>4. run' = Started(touched, queue)
  BY <1>2 DEF Synced
<1>5. Beginning(run', touched, queue)
  BY <1>3, <1>4
<1> QED BY <1>1, <1>5 DEF Beginning

LEMMA CarriedSteps ==
  ASSUME AppStateAssumption, TypeOK, Carried, FlushSteps
  PROVE  Carried'
<1>0. flush \in Flushes
  BY DEF TypeOK
<1>1. CASE StillEffect
  BY <1>1 DEF StillEffect, Carried
<1>2. CASE flush' = Threw(flush)
  <2>1. flush'.stage # "syncing"
    BY <1>0, <1>2, ThrewIs
  <2> QED BY <2>1 DEF Carried
<1>3. CASE flush' = Returned(flush)
  <2>1. flush'.stage # "syncing"
    BY <1>3, ReturnedIs
  <2> QED BY <2>1 DEF Carried
<1>4. ASSUME NEW slots \in Calls, NEW w \in Writes, NEW queue \in [Collections -> Values],
             CallEffect(w, slots, queue)
      PROVE  Carried'
  <2>1. CASE SyncEffect(queue)
    <3>1. flush'.batch = queue
      BY <2>1 DEF SyncEffect
    <3> QED BY <2>1, <3>1, BatchIsCarried DEF Carried
  <2>2. CASE EndEffect(queue)
    BY <2>2 DEF EndEffect, Carried
  <2>3. CASE /\ UNCHANGED run
             /\ flush'.batch = flush.batch /\ flush'.stage = flush.stage /\ flush'.own = flush.own
    BY <2>3 DEF Carried
  <2> QED BY <1>4, <2>1, <2>2, <2>3 DEF CallEffect
<1>5. CASE ReturnEffect
  <2>1. CASE SyncEffect(flush.queue)
    <3>1. flush'.batch = flush.queue /\ flush.queue \in [Collections -> Values]
      BY <1>0, <2>1, FlushIs DEF SyncEffect
    <3> QED BY <2>1, <3>1, BatchIsCarried DEF Carried
  <2>2. CASE flush'.stage = "ended"
    BY <2>2 DEF Carried
  <2> QED BY <1>5, <2>1, <2>2 DEF ReturnEffect, EndEffect
<1>6. CASE ThrowEffect \/ SettleEffect
  BY <1>6 DEF ThrowEffect, SettleEffect, Carried
<1> QED BY <1>1, <1>2, <1>3, <1>4, <1>5, <1>6 DEF FlushSteps

LEMMA ConfirmedGrows ==
  ASSUME LogGrows,
         flush'.own /\ flush'.stage = "returned" =>
           \A c \in Collections :
             flush'.batch[c] # Nothing /\ flush'.outcome[c] \in Success => Holds(c, flush'.batch[c])
  PROVE  Confirmed'
<1>1. ASSUME flush'.own, flush'.stage = "returned", NEW c \in Collections,
             flush'.batch[c] # Nothing, flush'.outcome[c] \in Success
      PROVE  Holds(c, flush.batch[c])'
  <2>1. Holds(c, flush'.batch[c])
    BY <1>1
  <2>2. \E v \in 1..Len(log'[c]) : log'[c][v].set = flush'.batch[c]
    BY <2>1, HoldsStays
  <2> QED BY <2>2 DEF Holds
<1> QED BY <1>1 DEF Confirmed

LEMMA ConfirmedSteps ==
  ASSUME AppStateAssumption, TypeOK, Carried, Uploading, Confirmed, LogGrows, FlushSteps
  PROVE  Confirmed'
<1>0. flush \in Flushes
  BY DEF TypeOK
<1>1. CASE StillEffect
  <2>1. flush' = flush
    BY <1>1 DEF StillEffect
  <2> QED BY <2>1, ConfirmedGrows DEF Confirmed
<1>2. CASE flush' = Threw(flush)
  <2>1. flush'.stage = "returned" => /\ flush.stage = "returned"
                                     /\ flush'.own = flush.own /\ flush'.batch = flush.batch
                                     /\ flush'.outcome = flush.outcome
    BY <1>0, <1>2, ThrewIs
  <2> QED BY <2>1, ConfirmedGrows DEF Confirmed
<1>3. CASE Save /\ flush' = Returned(flush)
  <2>1. CASE flush.stage = "syncing"
    <3>1. /\ flush'.own = flush.own /\ flush'.batch = flush.batch
          /\ \A c \in Collections : flush'.outcome[c] = IF c \in run.collections
                                                        THEN run.results[c].state ELSE "absent"
      BY <1>3, <2>1, ReturnedIs
    <3>2. run.toSync = {}
      BY <1>3 DEF Save, Uploading
    <3>3. ASSUME flush'.own, NEW c \in Collections,
                 flush'.batch[c] # Nothing, flush'.outcome[c] \in Success
          PROVE  Holds(c, flush'.batch[c])
      <4>1. run.pending = flush.batch /\ c \in run.collections
        BY <2>1, <3>1, <3>3 DEF Carried
      <4>2. run.results[c].state \in Success
        BY <3>1, <3>3, <4>1
      <4> QED BY <3>1, <3>2, <3>3, <4>1, <4>2 DEF Uploading
    <3> QED BY <3>3, ConfirmedGrows
  <2>2. CASE flush.stage # "syncing"
    <3>1. /\ flush'.stage = flush.stage /\ flush'.own = flush.own /\ flush'.batch = flush.batch
          /\ flush'.outcome = flush.outcome
      BY <1>3, <2>2, ReturnedIs
    <3> QED BY <3>1, ConfirmedGrows DEF Confirmed
  <2> QED BY <2>1, <2>2
<1>4. ASSUME NEW slots \in Calls, NEW w \in Writes, NEW queue \in [Collections -> Values],
             CallEffect(w, slots, queue)
      PROVE  Confirmed'
  <2>1. CASE SyncEffect(queue) \/ EndEffect(queue)
    BY <2>1 DEF SyncEffect, EndEffect, Confirmed
  <2>2. CASE /\ flush'.batch = flush.batch /\ flush'.stage = flush.stage /\ flush'.own = flush.own
             /\ flush'.outcome = flush.outcome
    BY <2>2, ConfirmedGrows DEF Confirmed
  <2> QED BY <1>4, <2>1, <2>2 DEF CallEffect
<1>5. CASE ReturnEffect
  BY <1>5 DEF ReturnEffect, SyncEffect, EndEffect, Confirmed
<1>6. CASE ThrowEffect \/ SettleEffect
  BY <1>6 DEF ThrowEffect, SettleEffect, Confirmed
<1> QED BY <1>1, <1>2, <1>3, <1>4, <1>5, <1>6 DEF FlushSteps

LEMMA OverIs ==
  ASSUME NEW values, NEW later, NEW i \in Indexes
  PROVE  Over(values, later)[i] = IF later[i] # NoWrite THEN later[i] ELSE values[i]
BY DEF Over

LEMMA NowhereIs ==
  \A c \in Collections, i \in Indexes : Nowhere[c][i] = NoWrite
BY DEF Nowhere, Nothing

LEMMA WriteIsOne ==
  ASSUME NEW w \in Writes
  PROVE  w # NoWrite
BY DEF Writes, NoWrite

LEMMA InBatchSteps ==
  ASSUME AppStateAssumption, TypeOK, InBatch, FlushSteps
  PROVE  InBatch'
<1>0. flush \in Flushes
  BY DEF TypeOK
<1>1. CASE StillEffect
  BY <1>1 DEF StillEffect, Remembered, InBatch
<1>2. CASE flush' = Threw(flush) /\ Remembered
  <2>1. /\ flush'.stage = IF flush.stage = "syncing" THEN "threw" ELSE flush.stage
        /\ flush'.queue = flush.queue /\ flush'.batch = flush.batch
    BY <1>0, <1>2, ThrewIs
  <2> QED BY <1>2, <2>1 DEF Remembered, InBatch
<1>3. CASE flush' = Returned(flush) /\ Remembered
  <2>1. /\ flush'.stage = IF flush.stage = "syncing" THEN "returned" ELSE flush.stage
        /\ flush'.queue = flush.queue /\ flush'.batch = flush.batch
    BY <1>3, ReturnedIs
  <2> QED BY <1>3, <2>1 DEF Remembered, InBatch
<1>4. ASSUME NEW slots \in Calls, NEW w \in Writes, NEW queue \in [Collections -> Values],
             CallEffect(w, slots, queue)
      PROVE  InBatch'
  <2>1. \A c \in Collections, i \in Indexes :
          /\ queue[c][i] \in {NoWrite, hist'.newest[c][i]}
          /\ \/ flush.batch[c][i] \in {NoWrite, hist'.newest[c][i]}
             \/ queue[c][i] # NoWrite
    <3> SUFFICES ASSUME NEW c \in Collections, NEW i \in Indexes
                 PROVE  /\ queue[c][i] \in {NoWrite, hist'.newest[c][i]}
                        /\ \/ flush.batch[c][i] \in {NoWrite, hist'.newest[c][i]}
                           \/ queue[c][i] # NoWrite
      OBVIOUS
    <3>1. /\ flush.queue[c][i] \in {NoWrite, hist.newest[c][i]}
          /\ \/ flush.batch[c][i] \in {NoWrite, hist.newest[c][i]}
             \/ flush.queue[c][i] # NoWrite
      BY DEF InBatch
    <3>2. IF <<c, i>> \in slots THEN queue[c][i] = w /\ hist'.newest[c][i] = w
          ELSE queue[c][i] = flush.queue[c][i] /\ hist'.newest[c][i] = hist.newest[c][i]
      BY <1>4 DEF CallEffect
    <3> QED BY <3>1, <3>2, WriteIsOne
  <2>2. CASE EndEffect(queue)
    BY <2>1, <2>2, NowhereIs DEF EndEffect, InBatch
  <2>3. CASE SyncEffect(queue)
    BY <2>1, <2>3, NowhereIs DEF SyncEffect, InBatch
  <2>4. CASE flush'.queue = queue /\ flush'.batch = flush.batch /\ flush'.stage = flush.stage
    BY <2>1, <2>4 DEF InBatch
  <2> QED BY <1>4, <2>2, <2>3, <2>4 DEF CallEffect
<1>5. ASSUME hist'.newest = hist.newest, flush'.batch = Nowhere, flush'.stage = "ended",
             NEW failed \in SUBSET Collections,
             \A c \in failed : flush'.queue[c] = Over(flush.batch[c], flush.queue[c]),
             \A c \in Collections \ failed : flush'.queue[c] = flush.queue[c]
      PROVE  InBatch'
  <2>1. ASSUME NEW c \in Collections, NEW i \in Indexes
        PROVE  flush'.queue[c][i] \in {NoWrite, hist.newest[c][i]}
    <3>1. /\ flush.queue[c][i] \in {NoWrite, hist.newest[c][i]}
          /\ \/ flush.batch[c][i] \in {NoWrite, hist.newest[c][i]}
             \/ flush.queue[c][i] # NoWrite
      BY DEF InBatch
    <3>2. CASE c \in failed
      BY <1>5, <3>1, <3>2, OverIs
    <3>3. CASE c \notin failed
      BY <1>5, <3>1, <3>3
    <3> QED BY <3>2, <3>3
  <2> QED BY <1>5, <2>1, NowhereIs DEF InBatch
<1>6. CASE ReturnEffect
  <2>1. hist'.newest = hist.newest
    BY <1>6 DEF ReturnEffect
  <2>2. CASE EndEffect(flush.queue)
    BY <2>1, <2>2, NowhereIs DEF EndEffect, InBatch
  <2>3. CASE SyncEffect(flush.queue)
    BY <2>1, <2>3, NowhereIs DEF SyncEffect, InBatch
  <2>4. CASE /\ \A c \in Failing : flush'.queue[c] = Over(flush.batch[c], flush.queue[c])
             /\ \A c \in Collections \ Failing : flush'.queue[c] = flush.queue[c]
             /\ flush'.batch = Nowhere /\ flush'.stage = "ended"
    <3>1. Failing \in SUBSET Collections
      BY DEF Failing
    <3> QED BY <1>5, <2>1, <2>4, <3>1
  <2> QED BY <1>6, <2>2, <2>3, <2>4 DEF ReturnEffect
<1>7. CASE ThrowEffect
  <2>1. PICK failed \in SUBSET Collections : failed = Collections
    OBVIOUS
  <2>2. /\ hist'.newest = hist.newest /\ flush'.batch = Nowhere /\ flush'.stage = "ended"
        /\ \A c \in failed : flush'.queue[c] = Over(flush.batch[c], flush.queue[c])
        /\ \A c \in Collections \ failed : flush'.queue[c] = flush.queue[c]
    BY <1>7, <2>1 DEF ThrowEffect
  <2> QED BY <1>5, <2>2
<1>8. CASE flush.stage = "ended" /\ SettleEffect
  BY <1>8 DEF SettleEffect, InBatch
<1> QED BY <1>1, <1>2, <1>3, <1>4, <1>6, <1>7, <1>8 DEF FlushSteps

LEMMA NoWriteLostSteps ==
  ASSUME AppStateAssumption, TypeOK, TypeOK', InBatch, Confirmed, NoWriteLost, LogGrows, FlushSteps
  PROVE  NoWriteLost'
<1>0. flush \in Flushes
  BY DEF TypeOK
<1> DEFINE Kept(c, i, w) == \/ w = NoWrite \/ w \in hist'.joined
                            \/ flush'.queue[c][i] = w \/ flush'.batch[c][i] = w
                            \/ OnServer(c, i, w)
<1> SUFFICES ASSUME NEW c \in Collections, NEW i \in Indexes
             PROVE  Kept(c, i, hist'.newest[c][i])
  <2>1. ASSUME NEW c \in Collections, NEW i \in Indexes, Kept(c, i, hist'.newest[c][i])
        PROVE  LET w == hist'.newest[c][i]
               IN \/ w = NoWrite \/ w \in hist'.joined
                  \/ flush'.queue[c][i] = w \/ flush'.batch[c][i] = w
                  \/ \E v \in DOMAIN log'[c] : log'[c][v].set[i] = w
    <3>1. PICK w : w = hist'.newest[c][i]
      OBVIOUS
    <3>2. \/ w = NoWrite \/ w \in hist'.joined
          \/ flush'.queue[c][i] = w \/ flush'.batch[c][i] = w
          \/ \E v \in DOMAIN log'[c] : log'[c][v].set[i] = w
      BY <2>1, <3>1, OnServerStays
    <3> QED BY <3>1, <3>2
  <2> HIDE DEF Kept
  <2> QED BY <2>1 DEF NoWriteLost, OnServer
<1> DEFINE n == hist.newest[c][i]
<1>00. \/ n = NoWrite \/ n \in hist.joined
       \/ flush.queue[c][i] = n \/ flush.batch[c][i] = n \/ OnServer(c, i, n)
  BY DEF NoWriteLost
<1>01. /\ flush.queue[c][i] \in {NoWrite, n}
       /\ flush.batch[c][i] \in {NoWrite, n} \/ flush.queue[c][i] # NoWrite
       /\ flush.stage \in {"none", "ended"} => flush.batch[c][i] = NoWrite
  BY NowhereIs DEF InBatch
<1> HIDE DEF n
<1>1. CASE /\ hist'.newest = hist.newest /\ hist'.joined = hist.joined
           /\ flush'.queue = flush.queue /\ flush'.batch = flush.batch
  BY <1>00, <1>1 DEF n
<1>2. CASE StillEffect
  BY <1>1, <1>2 DEF StillEffect, Remembered
<1>3. CASE (flush' = Threw(flush) \/ flush' = Returned(flush)) /\ Remembered
  <2>1. flush'.queue = flush.queue /\ flush'.batch = flush.batch
    BY <1>0, <1>3, ThrewIs, ReturnedIs
  <2> QED BY <1>1, <1>3, <2>1 DEF Remembered
<1>4. ASSUME NEW slots \in Calls, NEW w \in Writes, NEW queue \in [Collections -> Values],
             CallEffect(w, slots, queue)
      PROVE  Kept(c, i, hist'.newest[c][i])
  <2>1. IF <<c, i>> \in slots THEN queue[c][i] = w /\ hist'.newest[c][i] = w
        ELSE queue[c][i] = flush.queue[c][i] /\ hist'.newest[c][i] = n
    BY <1>4 DEF CallEffect, n
  <2>2. \/ flush'.queue = queue /\ flush'.batch = flush.batch
        \/ /\ flush.stage = "none"
           /\ flush'.queue = queue \/ flush'.batch = queue
    BY <1>4 DEF CallEffect, EndEffect, SyncEffect
  <2>3. hist'.joined = hist.joined
    BY <1>4 DEF CallEffect
  <2> QED BY <1>00, <1>01, <2>1, <2>2, <2>3
<1>5. CASE flush.stage = "returned" /\ ReturnEffect
  <2>1. hist'.newest[c][i] = n /\ hist.joined \subseteq hist'.joined
    BY <1>5 DEF ReturnEffect, n
  <2>2. CASE c \notin Failing
    <3>1. flush.batch[c][i] = n => \/ n = NoWrite \/ n \in hist'.joined \/ OnServer(c, i, n)
      <4>1. CASE ~flush.own
        BY <1>5, <2>2, <4>1 DEF ReturnEffect
      <4>2. CASE flush.own /\ flush.batch[c] = Nothing
        BY <4>2 DEF Nothing
      <4>3. CASE flush.own /\ flush.batch[c] # Nothing
        <5>1. flush.outcome[c] \in Success
          BY <2>2, <4>3 DEF Failing, Flushed
        <5>2. Holds(c, flush.batch[c])
          BY <1>5, <4>3, <5>1 DEF Confirmed
        <5>3. flush.batch[c][i] = n => OnServer(c, i, n)
          BY <5>2, OnServerIs DEF Holds
        <5> QED BY <5>3
      <4> QED BY <4>1, <4>2, <4>3
    <3>2. flush'.queue[c] = flush.queue[c] \/ flush'.batch[c] = flush.queue[c]
      BY <1>5, <2>2 DEF ReturnEffect, EndEffect, SyncEffect
    <3> QED BY <1>00, <2>1, <3>1, <3>2
  <2>3. CASE c \in Failing
    <3>1. flush'.queue[c] = Over(flush.batch[c], flush.queue[c])
      BY <1>5, <2>3 DEF ReturnEffect
    <3> QED BY <1>00, <1>01, <2>1, <3>1, OverIs
  <2> QED BY <2>2, <2>3
<1>6. CASE ThrowEffect
  <2>1. /\ flush'.queue[c] = Over(flush.batch[c], flush.queue[c]) /\ hist'.newest[c][i] = n
        /\ hist'.joined = hist.joined
    BY <1>6 DEF ThrowEffect, n
  <2> QED BY <1>00, <1>01, <2>1, OverIs
<1>7. CASE SettleEffect
  BY <1>1, <1>7 DEF SettleEffect
<1> QED BY <1>2, <1>3, <1>4, <1>5, <1>6, <1>7 DEF FlushSteps

LEMMA WritesInit ==
  ASSUME Init
  PROVE  WritesInvariant
<1>1. /\ flush.queue = Nowhere /\ flush.batch = Nowhere /\ flush.stage = "none" /\ ~flush.own
      /\ hist.newest = Nowhere /\ run.stage = "none" /\ run.collections = {}
  BY DEF Init, Idle
<1>2. InBatch
  BY <1>1 DEF InBatch
<1>3. NoWriteLost
  BY <1>1, NowhereIs DEF NoWriteLost
<1>4. Carried /\ Uploading /\ Confirmed
  BY <1>1 DEF Carried, Uploading, Confirmed
<1> QED BY <1>2, <1>3, <1>4 DEF WritesInvariant

LEMMA WritesStep ==
  ASSUME AppStateAssumption, CopiesInvariant, CopiesInvariant', WritesInvariant, [Next]_vars
  PROVE  WritesInvariant'
<1>1. LogGrows /\ RunSteps /\ FlushSteps
  BY CopiesStep, FlushStepsAre
<1>2. TypeOK /\ TypeOK'
  BY DEF CopiesInvariant
<1>3. InBatch /\ Carried /\ Uploading /\ Confirmed /\ NoWriteLost
  BY DEF WritesInvariant
<1>4. InBatch' /\ Carried'
  BY <1>1, <1>2, <1>3, InBatchSteps, CarriedSteps
<1>5. Uploading' /\ Confirmed'
  BY <1>1, <1>2, <1>3, UploadingSteps, ConfirmedSteps
<1>6. NoWriteLost'
  BY <1>1, <1>2, <1>3, NoWriteLostSteps
<1> QED BY <1>4, <1>5, <1>6 DEF WritesInvariant

LEMMA WritesHold == Spec => []WritesInvariant
<1>1. Init => WritesInvariant
  BY WritesInit
<1>2. CopiesInvariant /\ CopiesInvariant' /\ WritesInvariant /\ [Next]_vars => WritesInvariant'
  BY AppStateAssumption, WritesStep
<1> QED BY <1>1, <1>2, CopiesHold, PTL DEF Spec

\* The user's last write at an index is queued, in the batch under way or on the
\* server, whatever fails, but for the batch of a flush that joined a run
\* (WaAppStateMutationCoordinator: flushPendingMutationsLoop, requeue).
THEOREM WritesAreKept == Spec => []NoWriteLost
<1>1. WritesInvariant => NoWriteLost
  BY DEF WritesInvariant
<1> QED BY <1>1, WritesHold, PTL

\* Who was told, or waits to be, asked with an earlier write; at the end of a
\* flush that did not fail his writes are on the server.
Numbered == hist.told \cup flush.askers \subseteq 1..hist.writes
Awaited ==
  flush.stage = "ended" /\ ~flush.failed =>
    \A w \in flush.askers \ (hist.joined \cup hist.late) :
      \A c \in Collections, i \in Indexes :
        hist.newest[c][i] = w => OnServer(c, i, w)
ToldInvariant == Numbered /\ Awaited /\ ToldTheTruth

LEMMA NumberedSteps ==
  ASSUME AppStateAssumption, TypeOK, TypeOK', Numbered, FlushSteps
  PROVE  Numbered'
<1>0. /\ flush \in Flushes /\ hist.writes \in Nat /\ hist'.writes \in Nat
  BY HistoryIs DEF TypeOK
<1>1. \A m \in Nat, n \in Nat : m <= n => 1..m \subseteq 1..n
  OBVIOUS
<1>2. CASE StillEffect
  BY <1>0, <1>1, <1>2 DEF StillEffect, Remembered, Numbered
<1>3. CASE (flush' = Threw(flush) \/ flush' = Returned(flush)) /\ Remembered
  <2>1. flush'.askers = flush.askers
    BY <1>0, <1>3, ThrewIs, ReturnedIs
  <2> QED BY <1>0, <1>1, <1>3, <2>1 DEF Remembered, Numbered
<1>4. ASSUME NEW slots \in Calls, NEW w \in Writes, NEW queue \in [Collections -> Values],
             w = hist.writes + 1, CallEffect(w, slots, queue)
      PROVE  Numbered'
  <2>1. /\ hist'.writes = hist.writes + 1 /\ hist'.told = hist.told
        /\ flush'.askers = flush.askers \cup {w}
    BY <1>4 DEF CallEffect
  <2>2. w \in 1..hist'.writes /\ 1..hist.writes \subseteq 1..hist'.writes
    BY <1>0, <1>4, <2>1
  <2> QED BY <2>1, <2>2 DEF Numbered
<1>5. CASE ReturnEffect
  BY <1>5 DEF ReturnEffect, Numbered
<1>6. CASE ThrowEffect
  BY <1>6 DEF ThrowEffect, Numbered
<1>7. CASE SettleEffect
  BY <1>7 DEF SettleEffect, Numbered
<1> QED BY <1>2, <1>3, <1>4, <1>5, <1>6, <1>7 DEF FlushSteps

\* A flush that has seen the queue empty has everything on the server.
LEMMA EmptyIsDone ==
  ASSUME NoWriteLost, flush.queue = Nowhere, flush.batch = Nowhere,
         NEW w \in Writes, w \notin hist.joined, NEW c \in Collections, NEW i \in Indexes,
         hist.newest[c][i] = w
  PROVE  OnServer(c, i, w)
BY NowhereIs, WriteIsOne DEF NoWriteLost

LEMMA AwaitedSteps ==
  ASSUME AppStateAssumption, TypeOK, TypeOK', InBatch, Numbered, Awaited, ToldTheTruth,
         NoWriteLost', LogGrows, FlushSteps
  PROVE  Awaited'
<1> DEFINE Done(c, i, w) == \E v \in DOMAIN log'[c] : log'[c][v].set[i] = w
<1> SUFFICES ASSUME flush'.stage = "ended", ~flush'.failed,
                    NEW w \in flush'.askers \ (hist'.joined \cup hist'.late),
                    NEW c \in Collections, NEW i \in Indexes, hist'.newest[c][i] = w
             PROVE  Done(c, i, w)
  BY DEF Awaited, OnServer
<1>0. flush \in Flushes /\ hist.writes \in Nat
  BY HistoryIs DEF TypeOK
<1>1. w \in Writes
  <2>1. flush' \in Flushes
    BY DEF TypeOK
  <2>2. flush'.askers \in SUBSET Writes
    BY <2>1 DEF Flushes
  <2> QED BY <2>2
<1>2. CASE flush'.queue = Nowhere /\ flush'.batch = Nowhere
  <2>1. \A m \in Collections, j \in Indexes :
          LET n == hist'.newest[m][j]
          IN \/ n = NoWrite \/ n \in hist'.joined
             \/ flush'.queue[m][j] = n \/ flush'.batch[m][j] = n \/ Done(m, j, n)
    BY DEF NoWriteLost, OnServer
  <2> HIDE DEF Done
  <2> QED BY <1>1, <1>2, <2>1, NowhereIs, WriteIsOne
<1>3. CASE /\ flush.stage = "ended" /\ ~flush.failed /\ w \in flush.askers
           /\ hist.newest[c][i] = w /\ hist.joined \subseteq hist'.joined
           /\ hist.late \subseteq hist'.late
  <2>1. OnServer(c, i, w)
    BY <1>3 DEF Awaited
  <2> QED BY <2>1, OnServerStays
<1>4. CASE StillEffect
  BY <1>3, <1>4 DEF StillEffect, Remembered
<1>5. CASE (flush' = Threw(flush) \/ flush' = Returned(flush)) /\ Remembered
  <2>1. /\ flush'.askers = flush.askers /\ flush'.failed = flush.failed
        /\ flush.stage = "ended"
    BY <1>0, <1>5, ThrewIs, ReturnedIs
  <2> QED BY <1>3, <1>5, <2>1 DEF Remembered
<1>6. ASSUME NEW slots \in Calls, NEW n \in Writes, NEW queue \in [Collections -> Values],
             n = hist.writes + 1, CallEffect(n, slots, queue)
      PROVE  Done(c, i, w)
  <2>1. CASE EndEffect(queue)
    BY <1>2, <2>1 DEF EndEffect
  <2>2. CASE SyncEffect(queue)
    BY <2>2 DEF SyncEffect
  <2>3. CASE flush'.stage = flush.stage /\ flush'.failed = flush.failed
    <3>1. hist'.late = hist.late \cup {n} /\ hist'.joined = hist.joined
          /\ flush'.askers = flush.askers \cup {n}
      BY <1>6, <2>3 DEF CallEffect
    <3>2. w # n /\ w \in flush.askers
      BY <3>1
    <3>3. hist.newest[c][i] = w
      BY <1>6, <3>2 DEF CallEffect
    <3> QED BY <1>3, <2>3, <3>1, <3>2, <3>3
  <2> QED BY <1>6, <2>1, <2>2, <2>3 DEF CallEffect
<1>7. CASE ReturnEffect
  BY <1>2, <1>7 DEF ReturnEffect, EndEffect, SyncEffect
<1>8. CASE ThrowEffect
  BY <1>8 DEF ThrowEffect
<1>9. CASE SettleEffect
  BY <1>9 DEF SettleEffect
<1> QED BY <1>4, <1>5, <1>6, <1>7, <1>8, <1>9 DEF FlushSteps

LEMMA ToldSteps ==
  ASSUME AppStateAssumption, TypeOK, TypeOK', Numbered, Awaited, ToldTheTruth,
         LogGrows, FlushSteps
  PROVE  ToldTheTruth'
<1> DEFINE Done(c, i, w) == \E v \in DOMAIN log'[c] : log'[c][v].set[i] = w
<1> SUFFICES ASSUME NEW w \in hist'.told \ (hist'.joined \cup hist'.late),
                    NEW c \in Collections, NEW i \in Indexes, hist'.newest[c][i] = w
             PROVE  Done(c, i, w)
  BY DEF ToldTheTruth, OnServer
<1>0. flush \in Flushes /\ hist.writes \in Nat
  BY HistoryIs DEF TypeOK
<1>1. CASE /\ w \in hist.told /\ hist.newest[c][i] = w
           /\ hist.joined \subseteq hist'.joined /\ hist.late \subseteq hist'.late
  <2>1. OnServer(c, i, w)
    BY <1>1 DEF ToldTheTruth
  <2> QED BY <2>1, OnServerStays
<1>2. CASE StillEffect \/ Remembered
  BY <1>1, <1>2 DEF StillEffect, Remembered
<1>3. ASSUME NEW slots \in Calls, NEW n \in Writes, NEW queue \in [Collections -> Values],
             n = hist.writes + 1, CallEffect(n, slots, queue)
      PROVE  Done(c, i, w)
  <2>1. /\ hist'.told = hist.told /\ hist'.joined = hist.joined /\ hist.late \subseteq hist'.late
    BY <1>3 DEF CallEffect
  <2>2. w # n
    <3>1. w \in 1..hist.writes
      BY <2>1 DEF Numbered
    <3> QED BY <1>0, <1>3, <3>1
  <2>3. hist.newest[c][i] = w
    BY <1>3, <2>2 DEF CallEffect
  <2> QED BY <1>1, <2>1, <2>3
<1>4. CASE ReturnEffect \/ ThrowEffect
  BY <1>1, <1>4 DEF ReturnEffect, ThrowEffect
<1>5. CASE flush.stage = "ended" /\ SettleEffect
  <2>1. /\ hist'.newest = hist.newest /\ hist'.joined = hist.joined /\ hist'.late = hist.late
        /\ hist'.told = IF flush.failed THEN hist.told ELSE hist.told \cup flush.askers
    BY <1>5 DEF SettleEffect
  <2>2. CASE w \in hist.told
    BY <1>1, <2>1, <2>2
  <2>3. CASE w \notin hist.told
    <3>1. ~flush.failed /\ w \in flush.askers
      BY <2>1, <2>3
    <3>2. OnServer(c, i, w)
      BY <1>5, <2>1, <3>1 DEF Awaited
    <3> QED BY <3>2, OnServerStays
  <2> QED BY <2>2, <2>3
<1> QED BY <1>2, <1>3, <1>4, <1>5 DEF FlushSteps

\* A call that succeeded has its writes on the server unless the user overwrote
\* them since, but for joined runs and calls that came when the flush they
\* joined had seen the queue empty (enqueueAndFlush, flushPromise).
THEOREM SuccessIsTrue == Spec => []ToldTheTruth
<1>1. Init => ToldInvariant
  BY DEF Init, ToldInvariant, Numbered, Awaited, ToldTheTruth
<1>2. /\ CopiesInvariant /\ CopiesInvariant' /\ WritesInvariant /\ WritesInvariant'
      /\ ToldInvariant /\ [Next]_vars
      => ToldInvariant'
  <2> SUFFICES ASSUME CopiesInvariant, CopiesInvariant', WritesInvariant, WritesInvariant',
                      ToldInvariant, [Next]_vars
               PROVE  ToldInvariant'
    OBVIOUS
  <2>1. LogGrows /\ FlushSteps
    BY AppStateAssumption, CopiesStep, FlushStepsAre
  <2>2. TypeOK /\ TypeOK' /\ InBatch /\ NoWriteLost'
    BY DEF CopiesInvariant, WritesInvariant
  <2>3. Numbered' /\ Awaited' /\ ToldTheTruth'
    BY <2>1, <2>2, AppStateAssumption, NumberedSteps, AwaitedSteps, ToldSteps DEF ToldInvariant
  <2> QED BY <2>3 DEF ToldInvariant
<1>3. ToldInvariant => ToldTheTruth
  BY DEF ToldInvariant
<1> QED BY <1>1, <1>2, <1>3, CopiesHold, WritesHold, PTL DEF Spec

-----------------------------------------------------------------------------
(* What is reported.                                                       *)

\* What a user's device has queued, in the batch or in a run are his writes.
Own ==
  \A c \in Collections, i \in Indexes :
    {flush.queue[c][i], flush.batch[c][i], run.pending[c][i]} \subseteq hist.local \cup {NoWrite}
\* The change is the user's, counted as silent, or in the result of the run.
Tellable(c, i, v) ==
  \/ log[c][v].set[i] \in hist.local
  \/ v <= run.silent[c]
  \/ run.results[c].mutations[i] = log[c][v].set[i]
Reporting ==
  \A c \in run.collections : \A i \in Indexes, v \in 1..run.cache[c].version :
    v > store.have[c].version /\ IsLast(log[c], 1, run.cache[c].version, i, v) => Tellable(c, i, v)
Accounted ==
  \A c \in Collections : \A i \in Indexes, v \in 1..store.have[c].version :
    IsLast(log[c], 1, store.have[c].version, i, v) =>
      \/ log[c][v].set[i] \in hist.emitted \cup hist.local
      \/ v \in hist.silent[c]
ReportInvariant == Own /\ Reporting /\ Accounted

\* Nothing of the history that was noted is forgotten.
Recorded ==
  /\ hist.local \subseteq hist'.local /\ hist.emitted \subseteq hist'.emitted
  /\ hist.lapses \subseteq hist'.lapses
  /\ \A c \in Collections : hist.silent[c] \subseteq hist'.silent[c]
LEMMA RecordedIs ==
  ASSUME FlushSteps
  PROVE  Recorded
<1>1. CASE StillEffect \/ Remembered
  BY <1>1 DEF StillEffect, Remembered, Recorded
<1>2. ASSUME NEW slots \in Calls, NEW w \in Writes, NEW queue \in [Collections -> Values],
             CallEffect(w, slots, queue)
      PROVE  Recorded
  BY <1>2 DEF CallEffect, Recorded
<1>3. CASE ReturnEffect \/ ThrowEffect \/ SettleEffect
  BY <1>3 DEF ReturnEffect, ThrowEffect, SettleEffect, Recorded
<1> QED BY <1>1, <1>2, <1>3 DEF FlushSteps

\* What a run that begins for a batch, or is joined, has pending.
LEMMA PendingIs ==
  ASSUME AppStateAssumption, TypeOK, NEW queue \in [Collections -> Values], SyncEffect(queue)
  PROVE  run'.pending \in {run.pending, queue}
<1> DEFINE touched == {c \in Collections : queue[c] # Nothing}
<1>1. touched \in SUBSET Collections
  OBVIOUS
<1>2. run' = Synced(touched, queue)
  BY DEF SyncEffect
<1> HIDE DEF touched
<1>3. Beginning(Started(touched, queue), touched, queue)
  BY <1>1, StartedIs
<1>4. run' = run \/ Beginning(run', touched, queue)
  BY <1>2, <1>3 DEF Synced
<1> QED BY <1>4 DEF Beginning

LEMMA OwnSteps ==
  ASSUME AppStateAssumption, TypeOK, Own, FlushSteps
  PROVE  Own'
<1>0. flush \in Flushes /\ hist.local \subseteq hist'.local
  BY RecordedIs DEF TypeOK, Recorded
<1> SUFFICES ASSUME NEW c \in Collections, NEW i \in Indexes
             PROVE  /\ flush'.queue[c][i] \in hist'.local \cup {NoWrite}
                    /\ flush'.batch[c][i] \in hist'.local \cup {NoWrite}
                    /\ run'.pending[c][i] \in hist'.local \cup {NoWrite}
  BY DEF Own
<1>1. /\ flush.queue[c][i] \in hist'.local \cup {NoWrite}
      /\ flush.batch[c][i] \in hist'.local \cup {NoWrite}
      /\ run.pending[c][i] \in hist'.local \cup {NoWrite}
      /\ Nowhere[c][i] = NoWrite
  BY <1>0, NowhereIs DEF Own
<1>2. CASE StillEffect
  BY <1>1, <1>2 DEF StillEffect
<1>3. CASE (flush' = Threw(flush) \/ flush' = Returned(flush)) /\ run' = Idle
  <2>1. flush'.queue = flush.queue /\ flush'.batch = flush.batch
    BY <1>0, <1>3, ThrewIs, ReturnedIs
  <2>2. run'.pending = Nowhere
    BY <1>3, IdleIs
  <2> QED BY <1>1, <2>1, <2>2
<1>4. ASSUME NEW slots \in Calls, NEW w \in Writes, NEW queue \in [Collections -> Values],
             CallEffect(w, slots, queue)
      PROVE  /\ flush'.queue[c][i] \in hist'.local \cup {NoWrite}
             /\ flush'.batch[c][i] \in hist'.local \cup {NoWrite}
             /\ run'.pending[c][i] \in hist'.local \cup {NoWrite}
  <2>1. queue[c][i] \in hist'.local \cup {NoWrite}
    BY <1>1, <1>4 DEF CallEffect
  <2>2. CASE EndEffect(queue)
    BY <1>1, <2>1, <2>2 DEF EndEffect
  <2>3. CASE SyncEffect(queue)
    <3>1. run'.pending \in {run.pending, queue}
      BY <2>3, PendingIs
    <3> QED BY <1>1, <2>1, <2>3, <3>1 DEF SyncEffect
  <2>4. CASE UNCHANGED run /\ flush'.queue = queue /\ flush'.batch = flush.batch
    BY <1>1, <2>1, <2>4
  <2> QED BY <1>4, <2>2, <2>3, <2>4 DEF CallEffect
<1>5. CASE ReturnEffect
  <2>1. CASE EndEffect(flush.queue)
    BY <1>1, <2>1 DEF EndEffect
  <2>2. CASE SyncEffect(flush.queue)
    <3>1. run'.pending \in {run.pending, flush.queue}
      BY <1>0, <2>2, PendingIs, FlushIs
    <3> QED BY <1>1, <2>2, <3>1 DEF SyncEffect
  <2>3. CASE /\ \/ flush'.queue[c] = Over(flush.batch[c], flush.queue[c])
                \/ flush'.queue[c] = flush.queue[c]
             /\ flush'.batch = Nowhere /\ UNCHANGED run
    BY <1>1, <2>3, OverIs
  <2> QED BY <1>5, <2>1, <2>2, <2>3 DEF ReturnEffect
<1>6. CASE ThrowEffect
  BY <1>1, <1>6, OverIs DEF ThrowEffect
<1>7. CASE SettleEffect
  BY <1>1, <1>7 DEF SettleEffect
<1> QED BY <1>2, <1>3, <1>4, <1>5, <1>6, <1>7 DEF FlushSteps, Save

LEMMA LastShortened ==
  ASSUME NEW patches, NEW m \in Nat, NEW n \in Nat, n <= m, NEW i, NEW v,
         IsLast(patches, 1, m, i, v), v <= n
  PROVE  IsLast(patches, 1, n, i, v)
BY DEF IsLast

\* What is the last one in a part of the log stays it as the log grows.
LEMMA LastSame ==
  ASSUME LogGrows, NEW c \in Collections, NEW n \in 0..Len(log[c]), NEW i, NEW v,
         IsLast(log'[c], 1, n, i, v)
  PROVE  IsLast(log[c], 1, n, i, v) /\ log'[c][v] = log[c][v]
<1>1. Len(log[c]) \in Nat /\ \A u \in 1..Len(log[c]) : log'[c][u] = log[c][u]
  BY DEF LogGrows
<1>2. \A u \in 1..n : u \in 1..Len(log[c])
  BY <1>1
<1> QED BY <1>1, <1>2 DEF IsLast

\* A change in the log as it was is Tellable by the run as it will be.
TellableNext(c, i, v) ==
  \/ log[c][v].set[i] \in hist'.local
  \/ v <= run'.silent[c]
  \/ run'.results[c].mutations[i] = log[c][v].set[i]
LEMMA ReportingGrows ==
  ASSUME LogGrows, run'.collections \subseteq Collections,
         \A c \in run'.collections : run'.cache[c].version \in 0..Len(log[c]),
         \A c \in run'.collections : \A i \in Indexes, v \in 1..run'.cache[c].version :
           v > store'.have[c].version /\ IsLast(log[c], 1, run'.cache[c].version, i, v)
             => TellableNext(c, i, v)
  PROVE  Reporting'
<1> SUFFICES ASSUME NEW c \in run'.collections, NEW i \in Indexes,
                    NEW v \in 1..run'.cache[c].version, v > store'.have[c].version,
                    IsLast(log'[c], 1, run'.cache[c].version, i, v)
             PROVE  \/ log'[c][v].set[i] \in hist'.local
                    \/ v <= run'.silent[c]
                    \/ run'.results[c].mutations[i] = log'[c][v].set[i]
  BY DEF Reporting, Tellable, IsLast
<1>1. c \in Collections /\ run'.cache[c].version \in 0..Len(log[c])
  OBVIOUS
<1>2. IsLast(log[c], 1, run'.cache[c].version, i, v) /\ log'[c][v] = log[c][v]
  BY <1>1, LastSame
<1>3. TellableNext(c, i, v)
  BY <1>2
<1> QED BY <1>2, <1>3 DEF TellableNext

\* The outcome of a round tells of what is new in the copy, or counts it.
LEMMA OutcomeTells ==
  ASSUME TypeOK, Cached, Answered, Own, Reporting, run.stage = "answered",
         NEW c \in run.toSync, NEW o, o = Process(c, run.answers[c]),
         NEW i \in Indexes, NEW v \in 1..o.copy.version, v > store.have[c].version,
         IsLast(log[c], 1, o.copy.version, i, v)
  PROVE  /\ \/ log[c][v].set[i] \in hist.local
            \/ v <= SilentUpTo(c, o)
            \/ o.mutations[i] = log[c][v].set[i]
         /\ o.copy.version \in 0..Len(log[c]) /\ o.copy.initialized
         /\ v \in Nat /\ v <= o.copy.version
<1> DEFINE p == run.answers[c]
           n == SilentUpTo(c, o)
<1>1. c \in Collections /\ c \in run.collections
  BY RunIs DEF TypeOK, Cached
<1>2. Processes(c, p, o)
  BY ProcessIs
<1>3. o.copy.version \in Nat /\ IsCopy(c, o.copy) /\ o.state \in States
  BY <1>2, CopyIs DEF Processes, Advances, WellFormed
<1>4. /\ n \in Nat /\ run.silent[c] <= n
      /\ run.results[c].mutations # Nothing => run.cache[c].version <= n
      /\ o.state # "blocked" => p.snapshot <= n
      /\ o.state \in Errors \cup {"blocked"} => o.copy.version <= n
  BY <1>1, <1>3, SilentIs
<1>5. /\ run.cache[c].version \in 0..Len(log[c]) /\ Len(log[c]) \in Nat
      /\ p.snapshot \in Nat /\ run.silent[c] \in Nat
      /\ run.cache[c].version <= o.copy.version
  BY <1>1, <1>2, CacheIs, PayloadIs, RunIs DEF TypeOK, Processes, Advances
<1>6. v \in Nat /\ v <= o.copy.version /\ 1 <= v
  BY <1>3
<1>7. o.copy.version \in 0..Len(log[c]) /\ o.copy.initialized
  BY <1>3, <1>5, <1>6 DEF IsCopy
<1>8. log[c][v].set[i] # NoWrite
  BY DEF IsLast
<1> HIDE DEF p, n
<1>9. CASE o.state \in Errors \cup {"blocked"}
  BY <1>3, <1>4, <1>6, <1>7, <1>9 DEF n
<1>10. CASE o.state \in Success \cup Conflict
  <2>1. \/ v <= run.cache[c].version \/ v <= p.snapshot
        \/ o.mutations[i] = log[c][v].set[i] \/ log[c][v].set = run.pending[c]
    BY <1>2, <1>10 DEF Processes, Tells
  <2>2. CASE v <= run.cache[c].version
    <3>1. IsLast(log[c], 1, run.cache[c].version, i, v)
      BY <1>3, <1>5, <2>2, LastShortened
    <3>2. Tellable(c, i, v)
      BY <1>1, <1>5, <1>6, <2>2, <3>1 DEF Reporting
    <3>3. CASE run.results[c].mutations[i] = log[c][v].set[i]
      <4>1. run.results[c].mutations # Nothing
        BY <1>8, <3>3 DEF Nothing
      <4>2. run.cache[c].version <= n
        BY <1>4, <4>1 DEF n
      <4> QED BY <1>4, <1>5, <1>6, <1>7, <2>2, <4>2 DEF n
    <3>4. CASE v <= run.silent[c]
      BY <1>4, <1>5, <1>6, <1>7, <3>4 DEF n
    <3> QED BY <1>6, <1>7, <3>2, <3>3, <3>4 DEF Tellable
  <2>3. CASE v <= p.snapshot
    <3>1. o.state # "blocked"
      BY <1>10 DEF Success, Conflict
    <3> QED BY <1>4, <1>5, <1>6, <1>7, <2>3, <3>1 DEF n, p
  <2>4. CASE log[c][v].set = run.pending[c]
    <3>1. log[c][v].set[i] \in hist.local
      BY <1>1, <1>8, <2>4 DEF Own
    <3> QED BY <1>6, <1>7, <3>1
  <2> QED BY <1>6, <1>7, <2>1, <2>2, <2>3, <2>4
<1> QED BY <1>3, <1>9, <1>10 DEF States

LEMMA ReportingRound ==
  ASSUME AppStateAssumption, TypeOK, Cached, Answered, Own, Reporting, LogGrows, Recorded,
         ProcessRound
  PROVE  Reporting'
<1>0. /\ run.stage = "answered" /\ UNCHANGED store
      /\ run.toSync \subseteq run.collections /\ run.collections \subseteq Collections
      /\ hist.local \subseteq hist'.local
  BY RunIs DEF ProcessRound, Cached, TypeOK, Recorded
<1>1. RoundEffect
  BY RoundIs
<1>2. run'.collections = run.collections
  BY <1>1 DEF RoundEffect
<1>3. ASSUME NEW c \in run.collections \ run.toSync, NEW i \in Indexes,
             NEW v \in 1..run'.cache[c].version, v > store'.have[c].version,
             IsLast(log[c], 1, run'.cache[c].version, i, v)
      PROVE  TellableNext(c, i, v)
  <2>1. /\ run'.cache[c] = run.cache[c] /\ run'.results[c] = run.results[c]
        /\ run'.silent[c] = run.silent[c]
    BY <1>0, <1>1 DEF RoundEffect
  <2>2. Tellable(c, i, v)
    BY <1>0, <1>3, <2>1 DEF Reporting
  <2> QED BY <1>0, <2>1, <2>2 DEF Tellable, TellableNext
<1>4. ASSUME NEW c \in run.toSync, NEW i \in Indexes,
             NEW v \in 1..run'.cache[c].version, v > store'.have[c].version,
             IsLast(log[c], 1, run'.cache[c].version, i, v)
      PROVE  TellableNext(c, i, v)
  <2> DEFINE o == Process(c, run.answers[c])
  <2>1. run'.cache[c] = o.copy
    BY <1>1 DEF RoundEffect
  <2>2. /\ \/ log[c][v].set[i] \in hist.local \/ v <= SilentUpTo(c, o)
           \/ o.mutations[i] = log[c][v].set[i]
        /\ o.copy.initialized /\ v <= o.copy.version
    BY <1>0, <1>4, <2>1, OutcomeTells
  <2>3. \/ /\ run'.results[c] = [state |-> o.state, mutations |-> o.mutations]
           /\ run'.silent[c] = SilentUpTo(c, o)
        \/ run'.silent[c] = IF o.copy.initialized THEN o.copy.version ELSE SilentUpTo(c, o)
    BY <1>1 DEF RoundEffect
  <2> HIDE DEF o
  <2>4. CASE /\ run'.results[c] = [state |-> o.state, mutations |-> o.mutations]
             /\ run'.silent[c] = SilentUpTo(c, o)
    BY <1>0, <2>2, <2>4 DEF TellableNext
  <2>5. CASE run'.silent[c] = IF o.copy.initialized THEN o.copy.version ELSE SilentUpTo(c, o)
    BY <2>2, <2>5 DEF TellableNext
  <2> QED BY <2>3, <2>4, <2>5
<1>5. ASSUME NEW c \in run.collections PROVE run'.cache[c].version \in 0..Len(log[c])
  <2>1. CASE c \notin run.toSync
    <3>1. run'.cache[c] = run.cache[c]
      BY <1>0, <1>1, <2>1 DEF RoundEffect
    <3> QED BY <1>0, <3>1, CacheIs
  <2>2. CASE c \in run.toSync
    <3> DEFINE o == Process(c, run.answers[c])
    <3>1. run'.cache[c] = o.copy
      BY <1>1, <2>2 DEF RoundEffect
    <3>2. Processes(c, run.answers[c], o)
      BY <1>0, <2>2, ProcessIs
    <3> HIDE DEF o
    <3>3. o.copy.version \in Nat /\ IsCopy(c, o.copy) /\ Len(log[c]) \in Nat
      BY <1>0, <3>2, CopyIs, CacheIs DEF Processes, Advances
    <3> QED BY <3>1, <3>3 DEF IsCopy
  <2> QED BY <2>1, <2>2
<1> QED BY <1>0, <1>2, <1>3, <1>4, <1>5, ReportingGrows

LEMMA ReportingNotified ==
  ASSUME AppStateAssumption, TypeOK, Cached, Reporting, LogGrows, Recorded, Notified
  PROVE  Reporting'
<1>0. /\ UNCHANGED store
      /\ run.toSync \subseteq run.collections /\ run.collections \subseteq Collections
      /\ hist.local \subseteq hist'.local
  BY RunIs DEF Notified, Cached, TypeOK, Recorded
<1>1. NoticeEffect
  BY NoticeIs
<1>2. run'.collections = run.collections /\ run'.cache = run.cache
  BY <1>1 DEF NoticeEffect
<1>3. ASSUME NEW c \in run.collections, NEW i \in Indexes,
             NEW v \in 1..run'.cache[c].version, v > store'.have[c].version,
             IsLast(log[c], 1, run'.cache[c].version, i, v)
      PROVE  TellableNext(c, i, v)
  <2>1. CASE c \notin run.toSync \ run'.toSync
    <3>1. run'.results[c] = run.results[c] /\ run'.silent[c] = run.silent[c]
      BY <1>0, <1>1, <2>1 DEF NoticeEffect
    <3>2. Tellable(c, i, v)
      BY <1>0, <1>2, <1>3 DEF Reporting
    <3> QED BY <1>0, <3>1, <3>2 DEF Tellable, TellableNext
  <2>2. CASE c \in run.toSync \ run'.toSync
    <3>1. run'.silent[c] = IF run.cache[c].initialized THEN run.cache[c].version
                           ELSE run.silent[c]
      BY <1>1, <2>2 DEF NoticeEffect, GivenUp
    <3>2. run.cache[c].version \in Nat /\ IsCopy(c, run.cache[c])
      BY <1>0, CacheIs
    <3>3. v \in Nat /\ 1 <= v /\ v <= run.cache[c].version
      BY <1>2, <3>2
    <3>4. run.cache[c].initialized
      BY <3>2, <3>3 DEF IsCopy
    <3> QED BY <3>1, <3>3, <3>4 DEF TellableNext
  <2> QED BY <2>1, <2>2
<1>4. ASSUME NEW c \in run.collections PROVE run'.cache[c].version \in 0..Len(log[c])
  BY <1>0, <1>2, CacheIs
<1> QED BY <1>0, <1>2, <1>3, <1>4, ReportingGrows

LEMMA ReportingSteps ==
  ASSUME AppStateAssumption, TypeOK, Stored, Cached, Answered, Own, Reporting, LogGrows, Recorded,
         RunSteps
  PROVE  Reporting'
<1>0. /\ run.collections \subseteq Collections /\ hist.local \subseteq hist'.local
  BY RunIs DEF TypeOK, Recorded
<1>1. CASE /\ UNCHANGED store.have /\ run'.collections = run.collections
           /\ run'.cache = run.cache /\ run'.results = run.results /\ run'.silent = run.silent
  <2>1. ASSUME NEW c \in run.collections, NEW i \in Indexes,
               NEW v \in 1..run'.cache[c].version, v > store'.have[c].version,
               IsLast(log[c], 1, run'.cache[c].version, i, v)
        PROVE  TellableNext(c, i, v)
    <3>1. Tellable(c, i, v)
      BY <1>1, <2>1 DEF Reporting
    <3> QED BY <1>0, <1>1, <3>1 DEF Tellable, TellableNext
  <2>2. \A c \in run.collections : run'.cache[c].version \in 0..Len(log[c])
    BY <1>0, <1>1, CacheIs
  <2> QED BY <1>0, <1>1, <2>1, <2>2, ReportingGrows
<1>2. CASE UNCHANGED <<run, store.have>>
  BY <1>1, <1>2
<1>3. ASSUME NEW n \in 1..MaxWrites, NEW page \in 1..Page, ServerAnswers(n, page)
      PROVE  Reporting'
  <2>1. AnswerEffect(n, page) /\ UNCHANGED store
    BY <1>3, AnsweringIs DEF ServerAnswers
  <2> QED BY <1>1, <2>1 DEF AnswerEffect
<1>4. CASE Starts /\ UNCHANGED store.have
  <2>1. PICK collections \in SUBSET Collections, pending \in [Collections -> Values] :
          Beginning(run', collections, pending)
    BY <1>4, StartsIs
  <2>2. run'.collections = collections /\ \A c \in collections : run'.cache[c] = store.have[c]
    BY <2>1 DEF Beginning
  <2>3. \A c \in Collections : store.have[c].version \in 0..Len(log[c])
    BY StoreIs, CopyIs DEF Stored, IsCopy, LogGrows
  <2>4. ASSUME NEW c \in collections, NEW v \in 1..store.have[c].version,
               v > store.have[c].version
        PROVE  FALSE
    BY <2>3, <2>4
  <2> QED BY <1>4, <2>2, <2>3, <2>4, ReportingGrows
<1>5. CASE run' = Idle \/ Save
  <2>1. run'.collections = {}
    BY <1>5, IdleIs DEF Save
  <2> QED BY <2>1 DEF Reporting
<1>6. CASE ProcessRound
  BY <1>6, ReportingRound
<1>7. CASE Notified
  BY <1>7, ReportingNotified
<1> QED BY <1>2, <1>3, <1>4, <1>5, <1>6, <1>7 DEF RunSteps

\* A change in the log as it was is accounted for by what happened since.
AccountedNext(c, i, v) ==
  \/ log[c][v].set[i] \in hist'.emitted \cup hist'.local
  \/ v \in hist'.silent[c]
LEMMA AccountedGrows ==
  ASSUME LogGrows,
         \A c \in Collections : store'.have[c].version \in 0..Len(log[c]),
         \A c \in Collections : \A i \in Indexes, v \in 1..store'.have[c].version :
           IsLast(log[c], 1, store'.have[c].version, i, v) => AccountedNext(c, i, v)
  PROVE  Accounted'
<1> SUFFICES ASSUME NEW c \in Collections, NEW i \in Indexes,
                    NEW v \in 1..store'.have[c].version,
                    IsLast(log'[c], 1, store'.have[c].version, i, v)
             PROVE  \/ log'[c][v].set[i] \in hist'.emitted \cup hist'.local
                    \/ v \in hist'.silent[c]
  BY DEF Accounted, IsLast
<1>1. store'.have[c].version \in 0..Len(log[c])
  OBVIOUS
<1>2. IsLast(log[c], 1, store'.have[c].version, i, v) /\ log'[c][v] = log[c][v]
  BY <1>1, LastSame
<1>3. AccountedNext(c, i, v)
  BY <1>2
<1> QED BY <1>2, <1>3 DEF AccountedNext

LEMMA AccountedSteps ==
  ASSUME AppStateAssumption, TypeOK, Stored, Cached, Reporting, Accounted, LogGrows, Recorded,
         Save \/ UNCHANGED store.have
  PROVE  Accounted'
<1>0. /\ hist.local \subseteq hist'.local /\ hist.emitted \subseteq hist'.emitted
      /\ \A c \in Collections : hist.silent[c] \subseteq hist'.silent[c]
      /\ \A c \in Collections : store.have[c].version \in 0..Len(log[c])
  BY StoreIs, CopyIs DEF Recorded, Stored, IsCopy, LogGrows
<1>1. ASSUME NEW c \in Collections, NEW i \in Indexes, NEW v \in 1..store.have[c].version,
             IsLast(log[c], 1, store.have[c].version, i, v)
      PROVE  AccountedNext(c, i, v)
  BY <1>0, <1>1 DEF Accounted, AccountedNext
<1>2. CASE UNCHANGED store.have
  BY <1>0, <1>1, <1>2, AccountedGrows
<1>3. CASE Save
  <2>1. SaveEffect
    BY <1>3, SaveHistory
  <2>2. /\ \A c \in run.collections : store'.have[c] = run.cache[c]
        /\ \A c \in Collections \ run.collections : store'.have[c] = store.have[c]
    BY <1>3, SaveIs
  <2>3. \A c \in Collections : run.cache[c].version \in 0..Len(log[c])
    BY CacheIs
  <2>4. \A c \in Collections : store'.have[c].version \in 0..Len(log[c])
    BY <1>0, <2>2, <2>3
  <2>5. ASSUME NEW c \in Collections, NEW i \in Indexes, NEW v \in 1..store'.have[c].version,
               IsLast(log[c], 1, store'.have[c].version, i, v)
        PROVE  AccountedNext(c, i, v)
    <3>1. CASE c \notin run.collections
      BY <1>1, <2>2, <2>5, <3>1
    <3>2. CASE c \in run.collections /\ v <= store.have[c].version
      <4>1. run.cache[c].version \in Nat /\ store.have[c].version \in Nat
            /\ store.have[c].version <= run.cache[c].version
        BY <1>0, <2>3, <3>2 DEF Cached
      <4>2. IsLast(log[c], 1, store.have[c].version, i, v)
        BY <2>2, <2>5, <3>2, <4>1, LastShortened
      <4> QED BY <1>1, <3>2, <4>1, <4>2
    <3>3. CASE c \in run.collections /\ ~(v <= store.have[c].version)
      <4>1. /\ run.cache[c].version \in Nat /\ store.have[c].version \in Nat
            /\ run.silent[c] \in Nat
        BY <1>0, <2>3, RunIs DEF TypeOK
      <4>2. v \in 1..run.cache[c].version /\ v > store.have[c].version
        BY <2>2, <3>3, <4>1
      <4>3. Tellable(c, i, v)
        BY <2>2, <2>5, <3>3, <4>2 DEF Reporting
      <4>4. CASE log[c][v].set[i] \in hist.local
        BY <1>0, <4>4 DEF AccountedNext
      <4>5. CASE v <= run.silent[c]
        <5>1. v \in (store.have[c].version + 1)..run.silent[c]
          BY <4>1, <4>2, <4>5
        <5> QED BY <2>1, <5>1 DEF SaveEffect, AccountedNext
      <4>6. CASE run.results[c].mutations[i] = log[c][v].set[i]
        <5>1. log[c][v].set[i] # NoWrite
          BY <2>5 DEF IsLast
        <5> QED BY <2>1, <3>3, <4>6, <5>1 DEF SaveEffect, AccountedNext
      <4> QED BY <4>3, <4>4, <4>5, <4>6 DEF Tellable
    <3> QED BY <3>1, <3>2, <3>3
  <2> QED BY <2>4, <2>5, AccountedGrows
<1> QED BY <1>2, <1>3

LEMMA ReportInit ==
  ASSUME Init
  PROVE  ReportInvariant
<1>1. /\ flush.queue = Nowhere /\ flush.batch = Nowhere /\ run.pending = Nowhere
      /\ run.collections = {}
      /\ \A c \in Collections : store.have[c].version = 0
  BY DEF Init, Idle, Fresh
<1>2. Own
  BY <1>1, NowhereIs DEF Own
<1>3. Reporting /\ Accounted
  BY <1>1 DEF Reporting, Accounted
<1> QED BY <1>2, <1>3 DEF ReportInvariant

\* A change another device made that is in the stored copy and not overwritten
\* there has been reported as an event, but for snapshots and the versions of
\* rounds whose result another one replaced (emitEventsFromSyncResult).
THEOREM ChangesAreReported == Spec => []ChangesReported
<1>1. Init => ReportInvariant
  BY ReportInit
<1>2. CopiesInvariant /\ CopiesInvariant' /\ ReportInvariant /\ [Next]_vars => ReportInvariant'
  <2> SUFFICES ASSUME CopiesInvariant, ReportInvariant, [Next]_vars
               PROVE  ReportInvariant'
    OBVIOUS
  <2>1. LogGrows /\ RunSteps /\ FlushSteps
    BY AppStateAssumption, CopiesStep, FlushStepsAre
  <2>2. TypeOK /\ Stored /\ Cached /\ Answered
    BY DEF CopiesInvariant
  <2>3. Recorded /\ (Save \/ UNCHANGED store.have)
    BY <2>1, <2>2, RecordedIs, StoreTyped
  <2>4. Own /\ Reporting /\ Accounted
    BY DEF ReportInvariant
  <2>5. Own' /\ Reporting' /\ Accounted'
    BY <2>1, <2>2, <2>3, <2>4, AppStateAssumption, OwnSteps, ReportingSteps, AccountedSteps
  <2> QED BY <2>5 DEF ReportInvariant
<1>3. CopiesInvariant /\ ReportInvariant => ChangesReported
  <2> SUFFICES ASSUME CopiesInvariant, ReportInvariant, NEW c \in Collections, NEW i \in Indexes,
                      Touching(log[c], 1, store.have[c].version, i) # {}
               PROVE  LET last == Max(Touching(log[c], 1, store.have[c].version, i))
                      IN \/ log[c][last].set[i] \in hist.emitted \cup hist.local
                         \/ last \in hist.silent[c]
    BY DEF ChangesReported, Touching
  <2> DEFINE n == store.have[c].version
             last == Max(Touching(log[c], 1, n, i))
  <2>1. n \in Nat
    BY StoreIs, CopyIs DEF CopiesInvariant
  <2>2. IsLast(log[c], 1, n, i, last)
    BY <2>1, LastIs
  <2> HIDE DEF last
  <2>3. last \in 1..n
    BY <2>2 DEF IsLast
  <2> QED BY <2>2, <2>3 DEF ReportInvariant, Accounted, last
<1> QED BY <1>1, <1>2, <1>3, CopiesHold, PTL DEF Spec

-----------------------------------------------------------------------------
(* When all is quiet.                                                      *)

Calm == hist.lapses = {} /\ ~dirty
\* Patches wait for a key that has not come.
Waits(c) == \E v \in 1..Len(log[c]) : log[c][v].key \notin store.keys
\* The version a collection has, in the run or in the store.
Reached(c) == IF c \in run.collections THEN run.cache[c].version ELSE store.have[c].version
\* Nothing will be missed: a collection is still to be synced, waits for a key,
\* has a result that will be a lapse, or is up to date.
Attended(c) ==
  \/ c \in run.toSync \/ Waits(c)
  \/ c \in run.collections /\ run.results[c].state \in Errors \cup Conflict
  \/ Len(log[c]) = Reached(c)
Bare ==
  /\ run.stage = "none" => run.collections = {}
  /\ run.stage = "saving" => run.toSync = {}
NoneMissed == hist.lapses = {} => run.missing \cap store.keys = {}
Newest ==
  Calm /\ run.stage = "answered" =>
    \A c \in run.toSync : run.answers[c].state = "success" => Latest(c, run.answers[c])
AllAttended == Calm => \A c \in Collections : Attended(c)
Underway == Bare /\ NoneMissed /\ Newest /\ AllAttended

\* The steps that are no lapse.
Begun(r) == \E collections \in SUBSET Collections, pending \in [Collections -> Values] :
              Beginning(r, collections, pending)
CalmSteps ==
  \/ dirty' /\ UNCHANGED <<store, run>>
  \/ Beginning(run', Collections, Nowhere) /\ UNCHANGED <<log, store.have>>
  \/ UNCHANGED <<log, store, dirty, run>>
  \/ UNCHANGED <<log, store, dirty>> /\ run.stage = "none" /\ Begun(run')
  \/ /\ UNCHANGED <<store, dirty>>
     /\ \E n \in 1..MaxWrites, page \in 1..Page :
          /\ AnswerEffect(n, page)
          /\ \A c \in run.toSync : run'.answers[c] = AnswerTo(c, n, page)
  \/ UNCHANGED <<log, store, dirty>> /\ (ProcessRound \/ Notified)
  \/ UNCHANGED <<log, dirty>> /\ Save

LEMMA SyncEffectIs ==
  ASSUME AppStateAssumption, TypeOK, NEW queue \in [Collections -> Values],
         EndEffect(queue) \/ SyncEffect(queue)
  PROVE  UNCHANGED run \/ (run.stage = "none" /\ Begun(run'))
<1>1. CASE EndEffect(queue)
  BY <1>1 DEF EndEffect
<1>2. CASE SyncEffect(queue)
  <2> DEFINE touched == {c \in Collections : queue[c] # Nothing}
  <2>1. run' = Synced(touched, queue) /\ touched \in SUBSET Collections
    BY <1>2 DEF SyncEffect
  <2> HIDE DEF touched
  <2>2. Beginning(Started(touched, queue), touched, queue)
    BY <2>1, StartedIs
  <2>3. CASE run.stage = "none"
    <3>1. run' = Started(touched, queue)
      BY <2>1, <2>3 DEF Synced
    <3> QED BY <2>1, <2>2, <2>3, <3>1 DEF Begun
  <2>4. CASE run.stage # "none"
    BY <2>1, <2>4 DEF Synced
  <2> QED BY <2>3, <2>4
<1> QED BY <1>1, <1>2

LEMMA CalmStepsAre ==
  ASSUME AppStateAssumption, CopiesInvariant, [Next]_vars, hist'.lapses = {}
  PROVE  CalmSteps
<1>0. TypeOK /\ Cached /\ Answered
  BY DEF CopiesInvariant
<1>1. CASE UNCHANGED vars \/ FlushThrows \/ FlushSettles
  BY <1>1 DEF vars, FlushThrows, FlushSettles, CalmSteps
<1>2. CASE RoundThrows \/ QueryFails \/ SaveFails
  BY <1>0, <1>2, FaultIs
<1>3. ASSUME NEW n \in 1..MaxWrites, NEW page \in 1..Page, ServerAnswers(n, page)
      PROVE  CalmSteps
  <2>1. AnswerEffect(n, page) /\ UNCHANGED <<store, dirty>>
    BY <1>0, <1>3, AnsweringIs DEF ServerAnswers
  <2>2. \A c \in run.toSync : run'.answers[c] = AnswerTo(c, n, page)
    BY <2>1 DEF AnswerEffect
  <2> QED BY <2>1, <2>2 DEF CalmSteps
<1>4. CASE ProcessRound \/ Notified \/ Save
  BY <1>4 DEF ProcessRound, Notified, Save, CalmSteps
<1>5. CASE FlushReturns
  <2>1. ReturnEffect /\ UNCHANGED <<log, store, dirty>>
    BY <1>0, <1>5, ReturnIs DEF FlushReturns
  <2>2. flush.queue \in [Collections -> Values]
    BY <1>0, FlushIs DEF TypeOK
  <2>3. UNCHANGED run \/ (run.stage = "none" /\ Begun(run'))
    BY <1>0, <2>1, <2>2, SyncEffectIs DEF ReturnEffect
  <2> QED BY <2>1, <2>3 DEF CalmSteps
<1>6. ASSUME NEW slots \in Calls, EnqueueAndFlush(slots) PROVE CalmSteps
  <2>1. UNCHANGED <<log, store, dirty>>
    BY <1>6 DEF EnqueueAndFlush
  <2>2. PICK w \in Writes, queue \in [Collections -> Values] : CallEffect(w, slots, queue)
    BY <1>0, <1>6, CallIs
  <2>3. UNCHANGED run \/ (run.stage = "none" /\ Begun(run'))
    BY <1>0, <2>2, SyncEffectIs DEF CallEffect
  <2> QED BY <2>1, <2>3 DEF CalmSteps
<1>7. ASSUME NEW slot \in Changes, NEW k \in Keys, Publish(slot[1], slot[2], k)
      PROVE  CalmSteps
  BY <1>7 DEF Publish, CalmSteps
<1>8. CASE DirtyArrives \/ \E k \in Keys : KeyShareArrives(k)
  <2>1. SyncAll(hist) /\ UNCHANGED <<log, store.have>>
    BY <1>0, <1>8 DEF DirtyArrives, KeyShareArrives, TypeOK
  <2>2. run.stage = "none"
    BY <1>0, <2>1, SyncAllIs
  <2>3. run' = Started(Collections, Nowhere)
    BY <2>1, <2>2 DEF SyncAll, Synced
  <2>4. Beginning(Started(Collections, Nowhere), Collections, Nowhere)
    BY <1>0, EmptyTyped, StartedIs
  <2> QED BY <2>1, <2>3, <2>4 DEF CalmSteps
<1> QED BY <1>1, <1>2, <1>3, <1>4, <1>5, <1>6, <1>7, <1>8 DEF Next, SyncStep, FlushStep

LEMMA BareSteps ==
  ASSUME AppStateAssumption, TypeOK, Cached, Answered, Bare, RunSteps
  PROVE  Bare'
<1>1. CASE UNCHANGED run
  BY <1>1 DEF Bare
<1>2. CASE Starts
  <2>1. run'.stage = "round"
    BY <1>2, StartsIs DEF Beginning
  <2> QED BY <2>1 DEF Bare
<1>3. CASE run' = Idle \/ Save
  <2>1. run'.stage = "none" /\ run'.collections = {}
    BY <1>3, IdleIs DEF Save
  <2> QED BY <2>1 DEF Bare
<1>4. ASSUME NEW n \in 1..MaxWrites, NEW page \in 1..Page, ServerAnswers(n, page)
      PROVE  Bare'
  BY <1>4, AnsweringIs DEF AnswerEffect, Bare
<1>5. CASE ProcessRound
  BY <1>5, RoundIs DEF RoundEffect, Bare
<1>6. CASE Notified
  BY <1>6, NoticeIs DEF NoticeEffect, Bare
<1> QED BY <1>1, <1>2, <1>3, <1>4, <1>5, <1>6 DEF RunSteps

LEMMA NoneMissedSteps ==
  ASSUME AppStateAssumption, CopiesInvariant, NoneMissed, Recorded, [Next]_vars
  PROVE  NoneMissed'
<1> SUFFICES ASSUME hist'.lapses = {} PROVE run'.missing \cap store'.keys = {}
  BY DEF NoneMissed
<1>0. /\ TypeOK /\ Cached /\ Answered /\ run.missing \cap store.keys = {}
  BY DEF CopiesInvariant, NoneMissed, Recorded
<1>1. CalmSteps
  BY CalmStepsAre
<1>2. CASE UNCHANGED <<store, run>>
  BY <1>0, <1>2
<1>3. CASE Beginning(run', Collections, Nowhere) \/ Begun(run')
  BY <1>3 DEF Beginning, Begun
<1>4. ASSUME NEW n \in 1..MaxWrites, NEW page \in 1..Page, AnswerEffect(n, page), UNCHANGED store
      PROVE  run'.missing \cap store'.keys = {}
  BY <1>0, <1>4 DEF AnswerEffect
<1>5. CASE ProcessRound
  <2>1. run'.missing = run.missing \cup Needs /\ UNCHANGED store /\ run.stage = "answered"
    BY <1>0, <1>5, RoundIs DEF RoundEffect, ProcessRound
  <2>2. ASSUME NEW k \in Needs PROVE k \notin store.keys
    <3>1. PICK c \in run.toSync : k \in Process(c, run.answers[c]).needs
      BY DEF Needs, Outcomes
    <3>2. Processes(c, run.answers[c], Process(c, run.answers[c]))
      BY <1>0, <2>1, ProcessIs
    <3>3. Lacks(k)
      BY <3>1, <3>2 DEF Processes, Justified
    <3> QED BY <1>0, <3>3 DEF Lacks
  <2> QED BY <1>0, <2>1, <2>2
<1>6. CASE Notified
  BY <1>0, <1>6, NoticeIs DEF NoticeEffect, Notified
<1>7. CASE Save
  BY <1>7, IdleIs DEF Save
<1> QED BY <1>1, <1>2, <1>3, <1>4, <1>5, <1>6, <1>7 DEF CalmSteps

\* With what the run knew when it asked, a success is the newest there is.
LEMMA AnswerIsNewest ==
  ASSUME AppStateAssumption, TypeOK, Cached, NEW n \in 1..MaxWrites, NEW page \in 1..Page,
         AnswerEffect(n, page), NEW c \in run.toSync, run'.answers[c] = AnswerTo(c, n, page),
         run'.answers[c].state = "success"
  PROVE  Latest(c, run.answers[c])'
<1> DEFINE p == AnswerTo(c, n, page)
<1>1. /\ c \in Collections /\ run.cache[c].version \in Nat /\ log[c] \in Seq(Patches)
  BY RunIs, CacheIs DEF TypeOK
<1>2. run'.pending = run.pending /\ run'.cache = run.cache
  BY DEF AnswerEffect
<1>3. Uploads(c)' <=> Uploads(c)
  BY <1>2 DEF Uploads
<1>4. CASE Accepts(c)
  <2>1. p = Payload("success", Len(log[c]) + 1, 0, 1, 0)
    BY <1>1, <1>4, AnswerIs
  <2>2. p.state = "success" /\ p.version = Len(log[c]) + 1 /\ p.hi = 0
    BY <2>1 DEF Payload
  <2>3. ~Refuses(p)
    BY <2>2 DEF Refuses, Errors
  <2>4. log'[c] = Append(log[c], [set |-> run.pending[c], key |-> ActiveKey])
    BY <1>1, <1>4, <2>3 DEF AnswerEffect
  <2>5. Len(log'[c]) = Len(log[c]) + 1
    BY <1>1, <2>4
  <2>6. Uploads(c) /\ run.cache[c].version = Len(log[c])
    BY <1>4 DEF Accepts
  <2> HIDE DEF p
  <2> QED BY <1>2, <1>3, <2>2, <2>5, <2>6 DEF Latest, p
<1>5. CASE ~Accepts(c)
  <2>1. /\ p.state \in IF Uploads(c) THEN Conflict ELSE Success
        /\ p.state = "success" =>
             Len(log[c]) = IF p.hi # 0 THEN p.hi
                           ELSE IF p.snapshot # 0 THEN p.snapshot ELSE run.cache[c].version
    BY <1>1, <1>5, AnswerIs
  <2>2. p.state = "success" /\ log'[c] = log[c]
    BY <1>1, <1>5 DEF AnswerEffect
  <2>3. ~Uploads(c)
    BY <2>1, <2>2 DEF Conflict
  <2> HIDE DEF p
  <2> QED BY <1>2, <1>3, <2>1, <2>2, <2>3 DEF Latest, p
<1> QED BY <1>4, <1>5

LEMMA NewestSteps ==
  ASSUME AppStateAssumption, CopiesInvariant, Newest, Recorded, [Next]_vars
  PROVE  Newest'
<1> SUFFICES ASSUME hist'.lapses = {}, ~dirty', run'.stage = "answered", NEW c \in run'.toSync,
                    run'.answers[c].state = "success"
             PROVE  Latest(c, run.answers[c])'
  BY DEF Newest, Calm
<1>0. TypeOK /\ Cached /\ Answered /\ hist.lapses = {}
  BY DEF CopiesInvariant, Recorded
<1>1. CalmSteps
  BY CalmStepsAre
<1>2. CASE UNCHANGED <<log, store, dirty, run>>
  <2>1. Latest(c, run.answers[c])
    BY <1>0, <1>2 DEF Newest, Calm
  <2> QED BY <1>2, <2>1 DEF Latest, Uploads
<1>3. CASE Beginning(run', Collections, Nowhere) \/ Begun(run')
  BY <1>3 DEF Beginning, Begun
<1>4. ASSUME NEW n \in 1..MaxWrites, NEW page \in 1..Page, AnswerEffect(n, page),
             \A d \in run.toSync : run'.answers[d] = AnswerTo(d, n, page)
      PROVE  Latest(c, run.answers[c])'
  <2>1. c \in run.toSync
    BY <1>4 DEF AnswerEffect
  <2> QED BY <1>0, <1>4, <2>1, AnswerIsNewest
<1>5. CASE ProcessRound
  BY <1>0, <1>5, RoundIs DEF RoundEffect
<1>6. CASE Notified
  BY <1>0, <1>6, NoticeIs DEF NoticeEffect
<1>7. CASE Save
  BY <1>7, IdleIs DEF Save
<1> QED BY <1>1, <1>2, <1>3, <1>4, <1>5, <1>6, <1>7 DEF CalmSteps

\* A collection is attended to in the state to come.
AttendedNext(c) ==
  \/ c \in run'.toSync
  \/ \E v \in 1..Len(log'[c]) : log'[c][v].key \notin store'.keys
  \/ c \in run'.collections /\ run'.results[c].state \in Errors \cup Conflict
  \/ Len(log'[c]) = IF c \in run'.collections THEN run'.cache[c].version
                    ELSE store'.have[c].version

\* Who is done with in a calm round failed, waits for a key, or is up to date.
LEMMA RoundAttends ==
  ASSUME AppStateAssumption, TypeOK, Cached, Answered, NoneMissed, Newest, Calm, ProcessRound,
         NEW c \in run.toSync, c \notin run'.toSync
  PROVE  AttendedNext(c)
<1> DEFINE p == run.answers[c]
           o == Process(c, p)
<1>0. /\ run.stage = "answered" /\ UNCHANGED <<log, store>>
      /\ c \in run.collections /\ c \in Collections
      /\ run.missing \cap store.keys = {}
  BY RunIs DEF ProcessRound, Cached, TypeOK, NoneMissed, Calm
<1>1. Processes(c, p, o)
  BY <1>0, ProcessIs
<1>2. /\ run'.collections = run.collections /\ run'.cache[c] = o.copy
      /\ \/ run'.results[c] = [state |-> o.state, mutations |-> o.mutations] /\ ~o.refetch
         \/ run'.results[c] = NoResults[c]
  BY RoundIs DEF RoundEffect
<1> HIDE DEF o
<1>3. CASE run'.results[c] = NoResults[c]
  <2>1. run'.results[c].state = "error_retry"
    BY <1>0, <1>3 DEF NoResults
  <2> QED BY <1>0, <1>2, <2>1 DEF AttendedNext, Errors
<1>4. CASE run'.results[c] = [state |-> o.state, mutations |-> o.mutations] /\ ~o.refetch
  <2>1. o.state \in Success \cup Conflict \cup Errors \cup {"blocked"}
        /\ run'.results[c].state = o.state
    BY <1>1, <1>4 DEF Processes, WellFormed, States
  <2>2. CASE o.state \in Errors \cup Conflict
    BY <1>0, <1>2, <2>1, <2>2 DEF AttendedNext
  <2>3. CASE o.state = "blocked"
    <3>1. PICK v \in 1..Len(log[c]) : Lacks(log[c][v].key)
      BY <1>1, <2>3 DEF Processes, Justified
    <3>2. log[c][v].key \notin store.keys
      BY <1>0, <3>1 DEF Lacks
    <3> QED BY <1>0, <3>1, <3>2 DEF AttendedNext
  <2>4. CASE o.state \in Success
    <3>1. /\ p.state = "success" \/ (p.state = "conflict" /\ run.pending[c] = Nothing)
          /\ Fits(c, p)
          /\ p.state = "success" /\ Latest(c, p) => o.copy.version = Len(log[c])
      BY <1>1, <1>4, <2>4 DEF Processes, Complete
    <3>2. p.state = "success"
      <4>1. run.pending[c] = Nothing => ~Uploads(c)
        BY DEF Uploads
      <4>2. p.state \in IF Uploads(c) THEN Conflict \cup {"success"} ELSE Success
        BY <3>1 DEF Fits
      <4>3. "conflict" \notin Success
        BY DEF Success
      <4> QED BY <3>1, <4>1, <4>2, <4>3
    <3>3. Latest(c, p)
      BY <1>0, <3>2 DEF Newest
    <3>4. Len(log[c]) = o.copy.version
      BY <3>1, <3>2, <3>3
    <3> QED BY <1>0, <1>2, <3>4 DEF AttendedNext
  <2> QED BY <2>1, <2>2, <2>3, <2>4
<1> QED BY <1>2, <1>3, <1>4

LEMMA AttendedSteps ==
  ASSUME AppStateAssumption, CopiesInvariant, Underway, Recorded, [Next]_vars,
         hist'.lapses = {}, ~dirty', NEW c \in Collections
  PROVE  AttendedNext(c)
<1>0. TypeOK /\ Cached /\ Answered /\ Stored /\ hist.lapses = {}
      /\ Bare /\ NoneMissed /\ Newest /\ AllAttended
  BY DEF CopiesInvariant, Recorded, Underway
<1>1. CalmSteps
  BY CalmStepsAre
<1>2. CASE UNCHANGED <<log, store, dirty, run>>
  <2>1. Attended(c)
    BY <1>0, <1>2 DEF AllAttended, Calm
  <2> QED BY <1>2, <2>1 DEF Attended, Waits, Reached, AttendedNext
<1>3. CASE Beginning(run', Collections, Nowhere)
  BY <1>3 DEF Beginning, AttendedNext
<1>4. CASE UNCHANGED <<log, store, dirty>> /\ run.stage = "none" /\ Begun(run')
  <2>1. PICK collections \in SUBSET Collections, pending \in [Collections -> Values] :
          Beginning(run', collections, pending)
    BY <1>4 DEF Begun
  <2>2. run'.toSync = collections /\ run'.collections = collections
    BY <2>1 DEF Beginning
  <2>3. run.collections = {} /\ run.toSync = {}
    BY <1>0, <1>4 DEF Bare, Cached
  <2>4. Attended(c)
    BY <1>0, <1>4 DEF AllAttended, Calm
  <2>5. Waits(c) \/ Len(log[c]) = store.have[c].version
    BY <2>3, <2>4 DEF Attended, Reached
  <2> QED BY <1>4, <2>2, <2>5 DEF Waits, AttendedNext
<1>5. ASSUME NEW n \in 1..MaxWrites, NEW page \in 1..Page, AnswerEffect(n, page),
             UNCHANGED <<store, dirty>>
      PROVE  AttendedNext(c)
  <2>1. /\ run'.toSync = run.toSync /\ run'.collections = run.collections
        /\ run'.cache = run.cache /\ run'.results = run.results
        /\ c \notin run.toSync => log'[c] = log[c]
    BY <1>5 DEF AnswerEffect
  <2>2. Attended(c)
    BY <1>0, <1>5 DEF AllAttended, Calm
  <2> QED BY <1>5, <2>1, <2>2 DEF Attended, Waits, Reached, AttendedNext
<1>6. CASE UNCHANGED <<log, store, dirty>> /\ ProcessRound
  <2>1. Attended(c) /\ Calm
    BY <1>0, <1>6 DEF AllAttended, Calm
  <2>2. CASE c \in run.toSync
    BY <1>0, <1>6, <2>1, <2>2, RoundAttends DEF AttendedNext
  <2>3. CASE c \notin run.toSync
    <3>1. /\ run'.collections = run.collections
          /\ run'.cache[c] = run.cache[c] /\ run'.results[c] = run.results[c]
      BY <1>0, <1>6, <2>3, RoundIs DEF RoundEffect
    <3> QED BY <1>6, <2>1, <2>3, <3>1 DEF Attended, Waits, Reached, AttendedNext
  <2> QED BY <2>2, <2>3
<1>7. CASE UNCHANGED <<log, store, dirty>> /\ Notified
  <2>1. Attended(c)
    BY <1>0, <1>7 DEF AllAttended, Calm
  <2>2. NoticeEffect
    BY <1>0, <1>7, NoticeIs
  <2>3. CASE c \in run.toSync \ run'.toSync
    <3>1. run'.results[c].state = "error_retry" /\ run'.collections = run.collections
      BY <2>2, <2>3 DEF NoticeEffect, GivenUp, NoResults
    <3> QED BY <1>0, <2>3, <3>1 DEF Cached, AttendedNext, Errors
  <2>4. CASE c \notin run.toSync \ run'.toSync
    <3>1. /\ run'.collections = run.collections /\ run'.cache = run.cache
          /\ run'.results[c] = run.results[c]
      BY <2>2, <2>4 DEF NoticeEffect
    <3> QED BY <1>7, <2>1, <2>4, <3>1 DEF Attended, Waits, Reached, AttendedNext
  <2> QED BY <2>3, <2>4
<1>8. CASE UNCHANGED <<log, dirty>> /\ Save
  <2>1. Attended(c)
    BY <1>0, <1>8 DEF AllAttended, Calm
  <2>2. run.toSync = {} /\ run'.collections = {}
    BY <1>0, <1>8, IdleIs DEF Bare, Save
  <2>3. /\ store'.keys = store.keys
        /\ c \in run.collections => store'.have[c] = run.cache[c]
        /\ c \notin run.collections => store'.have[c] = store.have[c]
    BY <1>0, <1>8, SaveIs
  <2>4. c \in run.collections => run.results[c].state \notin Errors \cup Conflict
    <3>1. SaveEffect
      BY <1>0, <1>8, SaveHistory
    <3> QED BY <3>1 DEF SaveEffect
  <2>5. Waits(c) \/ Len(log[c]) = store'.have[c].version
    BY <2>1, <2>2, <2>3, <2>4 DEF Attended, Reached
  <2> QED BY <1>8, <2>2, <2>3, <2>5 DEF Waits, AttendedNext
<1> QED BY <1>1, <1>2, <1>3, <1>4, <1>5, <1>6, <1>7, <1>8 DEF CalmSteps

LEMMA UnderwayStep ==
  ASSUME AppStateAssumption, CopiesInvariant, Underway, [Next]_vars
  PROVE  Underway'
<1>1. LogGrows /\ RunSteps /\ FlushSteps /\ TypeOK /\ Cached /\ Answered
  BY CopiesStep, FlushStepsAre DEF CopiesInvariant
<1>2. Recorded
  BY <1>1, RecordedIs
<1>3. Bare' /\ NoneMissed' /\ Newest'
  BY <1>1, <1>2, BareSteps, NoneMissedSteps, NewestSteps DEF Underway
<1>4. AllAttended'
  <2>1. ASSUME hist'.lapses = {}, ~dirty', NEW c \in Collections PROVE AttendedNext(c)
    BY <1>2, <2>1, AttendedSteps
  <2> QED BY <2>1 DEF AllAttended, Calm, Attended, Waits, Reached, AttendedNext
<1> QED BY <1>3, <1>4 DEF Underway

LEMMA UnderwayInit ==
  ASSUME AppStateAssumption, Init
  PROVE  Underway
<1>1. /\ run.stage = "none" /\ run.collections = {} /\ run.missing = {} /\ run.toSync = {}
      /\ \A c \in Collections : store.have[c].version = 0 /\ Len(log[c]) = 0
  BY DEF Init, Idle, Fresh
<1>2. Bare /\ NoneMissed /\ Newest
  BY <1>1 DEF Bare, NoneMissed, Newest
<1>3. AllAttended
  BY <1>1 DEF AllAttended, Attended, Reached
<1> QED BY <1>2, <1>3 DEF Underway

\* When no run and no flush is under way, no notification is on its way and
\* nothing has failed or joined a run, the stored copies are up to date or wait
\* for a key that has not come (handleSyncdAppStateDirtyBit, handleIncomingKeyShare).
THEOREM QuietAndCurrent == Spec => []QuietIsCurrent
<1>1. Init => Underway
  BY AppStateAssumption, UnderwayInit
<1>2. CopiesInvariant /\ Underway /\ [Next]_vars => Underway'
  BY AppStateAssumption, UnderwayStep
<1>3. CopiesInvariant /\ Underway => QuietIsCurrent
  <2> SUFFICES ASSUME CopiesInvariant, Underway, run.stage = "none", ~dirty, hist.lapses = {},
                      NEW c \in Collections
               PROVE  Waits(c) \/ store.have[c].version = Len(log[c])
    BY DEF QuietIsCurrent, Waits
  <2>1. run.collections = {} /\ run.toSync = {} /\ Attended(c)
    BY DEF Underway, Bare, CopiesInvariant, Cached, AllAttended, Calm
  <2> QED BY <2>1 DEF Attended, Reached
<1> QED BY <1>1, <1>2, <1>3, CopiesHold, PTL DEF Spec
================================================================================
