---------------------- MODULE SharedExclusiveGateProofs ----------------------
(***************************************************************************)
(* Mutual exclusion in the gate, for any finite set of callers.  It is not *)
(* inductive by itself: the gate looks at its counters, never at the tasks *)
(* inside, so the invariant carries that the counters count them.          *)
(***************************************************************************)
EXTENDS SharedExclusiveGate, FiniteSetTheorems, TLAPS

\* The strengthening: typing, the counters, and what they are there for.
GateInv == GateTypeOK /\ CountersMatch /\ MutualExclusion

\* The three groups of callers are finite, so their counts are numbers, and
\* a count is zero only when the group is empty.
LEMMA GroupsFinite ==
  /\ IsFiniteSet(Sharing) /\ IsFiniteSet(Excluding) /\ IsFiniteSet(WaitingToExclude)
  /\ Cardinality(Sharing) = 0 => Sharing = {}
  /\ Cardinality(WaitingToExclude) = 0 => WaitingToExclude = {}
<1>1. Sharing \subseteq Tasks /\ Excluding \subseteq Tasks /\ WaitingToExclude \subseteq Tasks
  BY DEF Sharing, Excluding, WaitingToExclude
<1>2. IsFiniteSet(Sharing) /\ IsFiniteSet(Excluding) /\ IsFiniteSet(WaitingToExclude)
  BY <1>1, FS_Subset, GateAssumption DEF GateAssumption
<1>3. QED
  BY <1>2, FS_EmptySet

\* Adding one element to a finite set counts one more, removing one counts
\* one less, and a set that has an element does not count zero.
LEMMA CountStep ==
  ASSUME NEW S, IsFiniteSet(S), NEW t
  PROVE  /\ Cardinality(S) \in Nat
         /\ t \notin S => Cardinality(S \cup {t}) = Cardinality(S) + 1
         /\ t \in S => /\ Cardinality(S \ {t}) = Cardinality(S) - 1
                       /\ Cardinality(S) - 1 \in Nat
<1>1. Cardinality(S) \in Nat
  BY FS_CardinalityType
<1>2. t \notin S => Cardinality(S \cup {t}) = Cardinality(S) + 1
  BY FS_AddElement
<1>3. t \in S => Cardinality(S \ {t}) = Cardinality(S) - 1
  BY FS_RemoveElement
<1>4. t \in S => Cardinality(S \ {t}) \in Nat
  <2>1. IsFiniteSet(S \ {t})
    BY FS_RemoveElement
  <2> QED BY <2>1, FS_CardinalityType
<1> QED BY <1>1, <1>2, <1>3, <1>4

\* What one caller's change of status does to the groups and to their counts.
LEMMA GroupsMove ==
  ASSUME NEW t \in Tasks, NEW s, status \in [Tasks -> Status], Become(t, s)
  PROVE  /\ Sharing' = IF s = "shared" THEN Sharing \cup {t} ELSE Sharing \ {t}
         /\ Excluding' = IF s = "exclusive" THEN Excluding \cup {t} ELSE Excluding \ {t}
         /\ WaitingToExclude' = IF s = "waitExclusive" THEN WaitingToExclude \cup {t}
                                ELSE WaitingToExclude \ {t}
BY DEF Become, Sharing, Excluding, WaitingToExclude

\* The same for the two counts the gate keeps.
LEMMA CountsMove ==
  ASSUME NEW t \in Tasks, NEW s, status \in [Tasks -> Status], Become(t, s)
  PROVE  /\ Cardinality(Sharing) \in Nat
         /\ Cardinality(WaitingToExclude) \in Nat
         /\ status[t] = "shared" => Cardinality(Sharing) - 1 \in Nat
         /\ status[t] = "waitExclusive" => Cardinality(WaitingToExclude) - 1 \in Nat
         /\ Cardinality(Sharing') =
              IF s = "shared"
              THEN IF status[t] = "shared" THEN Cardinality(Sharing) ELSE Cardinality(Sharing) + 1
              ELSE IF status[t] = "shared" THEN Cardinality(Sharing) - 1 ELSE Cardinality(Sharing)
         /\ Cardinality(WaitingToExclude') =
              IF s = "waitExclusive"
              THEN IF status[t] = "waitExclusive" THEN Cardinality(WaitingToExclude)
                   ELSE Cardinality(WaitingToExclude) + 1
              ELSE IF status[t] = "waitExclusive" THEN Cardinality(WaitingToExclude) - 1
                   ELSE Cardinality(WaitingToExclude)
<1>1. IsFiniteSet(Sharing) /\ IsFiniteSet(WaitingToExclude)
  BY GroupsFinite
<1>2. /\ t \in Sharing <=> status[t] = "shared"
      /\ t \in WaitingToExclude <=> status[t] = "waitExclusive"
  BY DEF Sharing, WaitingToExclude
<1>3. /\ t \in Sharing => Sharing \cup {t} = Sharing
      /\ t \notin Sharing => Sharing \ {t} = Sharing
      /\ t \in WaitingToExclude => WaitingToExclude \cup {t} = WaitingToExclude
      /\ t \notin WaitingToExclude => WaitingToExclude \ {t} = WaitingToExclude
  OBVIOUS
<1>4. /\ Cardinality(Sharing) \in Nat
      /\ t \notin Sharing => Cardinality(Sharing \cup {t}) = Cardinality(Sharing) + 1
      /\ t \in Sharing => /\ Cardinality(Sharing \ {t}) = Cardinality(Sharing) - 1
                          /\ Cardinality(Sharing) - 1 \in Nat
  BY <1>1, CountStep
<1>5. /\ Cardinality(WaitingToExclude) \in Nat
      /\ t \notin WaitingToExclude =>
           Cardinality(WaitingToExclude \cup {t}) = Cardinality(WaitingToExclude) + 1
      /\ t \in WaitingToExclude =>
           /\ Cardinality(WaitingToExclude \ {t}) = Cardinality(WaitingToExclude) - 1
           /\ Cardinality(WaitingToExclude) - 1 \in Nat
  BY <1>1, CountStep
<1> QED
  BY <1>2, <1>3, <1>4, <1>5, GroupsMove

\* Leaving a group, or moving between waiting places, keeps the tasks inside
\* apart.
LEMMA FewerInsideKeepsMutex ==
  ASSUME MutualExclusion, Excluding' \subseteq Excluding, Sharing' \subseteq Sharing
  PROVE  MutualExclusion'
BY DEF MutualExclusion

\* The gate starts empty.
LEMMA InitGateInv == GateInit => GateInv
<1> SUFFICES ASSUME GateInit PROVE GateInv
  OBVIOUS
<1>1. Sharing = {} /\ Excluding = {} /\ WaitingToExclude = {}
  BY DEF GateInit, Sharing, Excluding, WaitingToExclude
<1>2. GateTypeOK
  BY DEF GateInit, GateTypeOK, Status, Waiters
<1>3. CountersMatch
  BY <1>1, FS_EmptySet DEF GateInit, CountersMatch
<1>4. MutualExclusion
  BY <1>1 DEF MutualExclusion
<1> QED BY <1>2, <1>3, <1>4 DEF GateInv

\* A caller gets in, shared: nobody excludes, by the counters.
LEMMA EnterShared ==
  ASSUME GateInv, NEW t \in Tasks, status[t] \in {"idle", "waitShared"},
         MayShare, Become(t, "shared"), activeShared' = activeShared + 1,
         UNCHANGED <<pendingExclusive, exclusiveActive>>
  PROVE  CountersMatch' /\ MutualExclusion' /\ activeShared' \in Nat
<1> USE DEF GateInv
<1>1. status \in [Tasks -> Status] /\ activeShared \in Nat
  BY DEF GateTypeOK
<1>2. Excluding = {}
  BY DEF MayShare, CountersMatch
<1>3. Excluding' = {}
  BY <1>1, <1>2, GroupsMove
<1>4. MutualExclusion'
  BY <1>3 DEF MutualExclusion
<1>5. CountersMatch'
  BY <1>1, <1>2, <1>3, CountsMove DEF CountersMatch
<1> QED BY <1>1, <1>4, <1>5

\* A caller gets in, exclusive: the counters say that nobody is inside.
LEMMA EnterExclusive ==
  ASSUME GateInv, NEW t \in Tasks, status[t] \in {"idle", "waitExclusive"},
         MayExclude, Become(t, "exclusive"), exclusiveActive' = TRUE,
         activeShared' = activeShared,
         pendingExclusive' = IF status[t] = "idle" THEN pendingExclusive
                             ELSE pendingExclusive - 1
  PROVE  CountersMatch' /\ MutualExclusion' /\ pendingExclusive' \in Nat
<1> USE DEF GateInv
<1>1. status \in [Tasks -> Status] /\ pendingExclusive \in Nat
  BY DEF GateTypeOK
<1>2. Excluding = {} /\ Sharing = {}
  BY GroupsFinite DEF MayExclude, CountersMatch
<1>3. Excluding' = {t} /\ Sharing' = {}
  BY <1>1, <1>2, GroupsMove
<1>4. MutualExclusion'
  BY <1>3 DEF MutualExclusion
<1>5. CountersMatch' /\ pendingExclusive' \in Nat
  BY <1>1, <1>3, CountsMove DEF CountersMatch
<1> QED BY <1>4, <1>5

\* A caller that is outside stays outside, waiting to share, or rejected: the
\* groups inside, and the pending callers, are untouched.
LEMMA StaysOutside ==
  ASSUME GateInv, NEW t \in Tasks, NEW s, s \in {"waitShared", "rejected"},
         status[t] \in {"idle", "waitShared"}, Become(t, s),
         UNCHANGED <<activeShared, pendingExclusive, exclusiveActive>>
  PROVE  CountersMatch' /\ MutualExclusion'
<1>1. Sharing' = Sharing /\ Excluding' = Excluding /\ WaitingToExclude' = WaitingToExclude
  BY DEF GateInv, GateTypeOK, Become, Sharing, Excluding, WaitingToExclude
<1> QED BY <1>1 DEF GateInv, CountersMatch, MutualExclusion

\* A step that moves no caller keeps the counters and the exclusion.
LEMMA NobodyMoves ==
  ASSUME GateInv, UNCHANGED <<status, activeShared, pendingExclusive, exclusiveActive>>
  PROVE  CountersMatch' /\ MutualExclusion'
<1>1. Sharing' = Sharing /\ Excluding' = Excluding /\ WaitingToExclude' = WaitingToExclude
  BY DEF Sharing, Excluding, WaitingToExclude
<1> QED BY <1>1 DEF GateInv, CountersMatch, MutualExclusion

\* A shared task leaves.
LEMMA LeaveShared ==
  ASSUME GateInv, NEW t \in Tasks, ReleaseShared(t)
  PROVE  CountersMatch' /\ MutualExclusion' /\ activeShared' \in Nat
<1>1. /\ status \in [Tasks -> Status] /\ status[t] = "shared" /\ Become(t, "idle")
      /\ activeShared' = activeShared - 1
      /\ UNCHANGED <<pendingExclusive, exclusiveActive>>
  BY DEF GateInv, GateTypeOK, ReleaseShared
<1>2. Excluding' = Excluding /\ Sharing' \subseteq Sharing
  BY <1>1 DEF Become, Excluding, Sharing
<1>3. MutualExclusion'
  BY <1>2, FewerInsideKeepsMutex DEF GateInv
<1>4. CountersMatch' /\ activeShared' \in Nat
  BY <1>1, <1>2, CountsMove DEF GateInv, CountersMatch
<1> QED BY <1>3, <1>4

\* The exclusive task leaves: by mutual exclusion it was the only one.
LEMMA LeaveExclusive ==
  ASSUME GateInv, NEW t \in Tasks, ReleaseExclusive(t)
  PROVE  CountersMatch' /\ MutualExclusion'
<1>1. /\ status \in [Tasks -> Status] /\ status[t] = "exclusive" /\ Become(t, "idle")
      /\ ~exclusiveActive' /\ exclusiveActive' \in BOOLEAN
      /\ UNCHANGED <<pendingExclusive, activeShared>>
  BY DEF GateInv, GateTypeOK, ReleaseExclusive
<1>2. Excluding = {t}
  BY <1>1 DEF GateInv, MutualExclusion, Excluding
<1>3. Excluding' = {} /\ Sharing' \subseteq Sharing
  BY <1>1, <1>2, GroupsMove DEF GateInv
<1>4. MutualExclusion'
  BY <1>3 DEF MutualExclusion
<1>5. CountersMatch'
  BY <1>1, <1>3, CountsMove DEF GateInv, CountersMatch
<1> QED BY <1>4, <1>5

\* A caller joins the pending exclusive callers.
LEMMA JoinPending ==
  ASSUME GateInv, NEW t \in Tasks, status[t] = "idle", Become(t, "waitExclusive"),
         pendingExclusive' = pendingExclusive + 1,
         UNCHANGED <<activeShared, exclusiveActive>>
  PROVE  CountersMatch' /\ MutualExclusion' /\ pendingExclusive' \in Nat
<1>1. status \in [Tasks -> Status] /\ pendingExclusive \in Nat
  BY DEF GateInv, GateTypeOK
<1>2. Excluding' = Excluding /\ Sharing' = Sharing
  BY <1>1 DEF Become, Excluding, Sharing
<1>3. MutualExclusion'
  BY <1>2, FewerInsideKeepsMutex DEF GateInv
<1>4. CountersMatch'
  BY <1>1, <1>2, CountsMove DEF GateInv, CountersMatch
<1> QED BY <1>1, <1>3, <1>4

\* A pending exclusive caller is rejected, or one that never waited is.
LEMMA LeavePending ==
  ASSUME GateInv, NEW t \in Tasks, status[t] \in {"idle", "waitExclusive"},
         Become(t, "rejected"),
         pendingExclusive' = IF status[t] = "idle" THEN pendingExclusive
                             ELSE pendingExclusive - 1,
         UNCHANGED <<activeShared, exclusiveActive>>
  PROVE  CountersMatch' /\ MutualExclusion' /\ pendingExclusive' \in Nat
<1>1. status \in [Tasks -> Status] /\ pendingExclusive \in Nat
  BY DEF GateInv, GateTypeOK
<1>2. Excluding' = Excluding /\ Sharing' = Sharing
  BY <1>1 DEF Become, Excluding, Sharing
<1>3. MutualExclusion'
  BY <1>2, FewerInsideKeepsMutex DEF GateInv
<1>4. CountersMatch' /\ pendingExclusive' \in Nat
  BY <1>1, <1>2, CountsMove DEF GateInv, CountersMatch
<1> QED BY <1>3, <1>4

\* Only callers that wait are ever woken: whoever stops waiting is taken out
\* of woken by the same step.
LEMMA WokenWait ==
  ASSUME GateTypeOK, GateNext
  PROVE  woken' \subseteq Waiters'
<1> USE DEF GateTypeOK, Waiters, Become
<1>1. ASSUME NEW t \in Tasks,
             RunShared(t) \/ ResumeShared(t) \/ ReleaseShared(t)
      PROVE  woken' \subseteq Waiters'
  BY <1>1 DEF RunShared, ResumeShared, ReleaseShared
<1>2. ASSUME NEW t \in Tasks,
             RunExclusive(t) \/ ResumeExclusive(t) \/ ReleaseExclusive(t)
      PROVE  woken' \subseteq Waiters'
  BY <1>2, GateAssumption DEF RunExclusive, ResumeExclusive, ReleaseExclusive, GateAssumption
<1>3. ASSUME Close \/ ResumeClose PROVE woken' \subseteq Waiters'
  BY <1>3, GateAssumption DEF Close, ResumeClose, GateAssumption
<1> QED BY <1>1, <1>2, <1>3 DEF GateNext

\* The invariant is inductive.
LEMMA StepGateInv == GateInv /\ [GateNext]_gate => GateInv'
<1> SUFFICES ASSUME GateInv, [GateNext]_gate PROVE GateInv'
  OBVIOUS
<1>0. GateTypeOK /\ status \in [Tasks -> Status] /\ activeShared \in Nat /\ pendingExclusive \in Nat
  BY DEF GateInv, GateTypeOK
<1> DEFINE Numbers == activeShared' \in Nat /\ pendingExclusive' \in Nat
           Kept == Numbers /\ CountersMatch' /\ MutualExclusion'
<1>1. ASSUME NEW t \in Tasks, RunShared(t) \/ ResumeShared(t) PROVE Kept
  <2>1. status[t] \in {"idle", "waitShared"} /\ UNCHANGED <<pendingExclusive, exclusiveActive>>
    BY <1>1 DEF RunShared, ResumeShared
  <2>2. CASE MayShare /\ Become(t, "shared") /\ activeShared' = activeShared + 1
    BY <1>0, <2>1, <2>2, EnterShared
  <2>3. CASE (Become(t, "rejected") \/ Become(t, "waitShared")) /\ UNCHANGED activeShared
    BY <1>0, <2>1, <2>3, StaysOutside
  <2>4. CASE UNCHANGED <<status, activeShared>>
    BY <1>0, <2>1, <2>4, NobodyMoves
  <2> QED BY <1>1, <2>2, <2>3, <2>4 DEF RunShared, ResumeShared
<1>2. ASSUME NEW t \in Tasks, ReleaseShared(t) PROVE Kept
  BY <1>0, <1>2, LeaveShared DEF ReleaseShared
<1>3. ASSUME NEW t \in Tasks, RunExclusive(t) PROVE Kept
  <2>1. status[t] = "idle" /\ UNCHANGED activeShared
    BY <1>3 DEF RunExclusive
  <2>2. CASE Become(t, "rejected") /\ UNCHANGED <<pendingExclusive, exclusiveActive>>
    BY <1>0, <2>1, <2>2, LeavePending
  <2>3. CASE /\ MayExclude /\ Become(t, "exclusive") /\ exclusiveActive' = TRUE
             /\ UNCHANGED pendingExclusive
    BY <1>0, <2>1, <2>3, EnterExclusive
  <2>4. CASE /\ Become(t, "waitExclusive") /\ pendingExclusive' = pendingExclusive + 1
             /\ UNCHANGED exclusiveActive
    BY <1>0, <2>1, <2>4, JoinPending
  <2> QED BY <1>3, <2>2, <2>3, <2>4 DEF RunExclusive
<1>4. ASSUME NEW t \in Tasks, ResumeExclusive(t) PROVE Kept
  <2>1. status[t] = "waitExclusive" /\ UNCHANGED activeShared
    BY <1>4 DEF ResumeExclusive
  <2>2. CASE /\ Become(t, "rejected") /\ pendingExclusive' = pendingExclusive - 1
             /\ UNCHANGED exclusiveActive
    BY <1>0, <2>1, <2>2, LeavePending
  <2>3. CASE /\ MayExclude /\ Become(t, "exclusive") /\ exclusiveActive' = TRUE
             /\ pendingExclusive' = pendingExclusive - 1
    BY <1>0, <2>1, <2>3, EnterExclusive
  <2>4. CASE UNCHANGED <<status, pendingExclusive, exclusiveActive>>
    BY <1>0, <2>1, <2>4, NobodyMoves
  <2> QED BY <1>4, <2>2, <2>3, <2>4 DEF ResumeExclusive
<1>5. ASSUME NEW t \in Tasks, ReleaseExclusive(t) PROVE Kept
  BY <1>0, <1>5, LeaveExclusive DEF ReleaseExclusive
<1>6. ASSUME Close \/ ResumeClose PROVE Kept
  BY <1>0, <1>6, NobodyMoves DEF Close, ResumeClose
<1>7. CASE GateNext
  <2>1. Kept
    BY <1>1, <1>2, <1>3, <1>4, <1>5, <1>6, <1>7 DEF GateNext
  <2>2. woken' \subseteq Waiters'
    BY <1>0, <1>7, WokenWait
  <2>3. status' \in [Tasks -> Status]
    BY <1>0, <1>7 DEF GateNext, RunShared, ResumeShared, ReleaseShared, RunExclusive,
       ResumeExclusive, ReleaseExclusive, Close, ResumeClose, Become, Status
  <2>4. /\ exclusiveActive' \in BOOLEAN /\ closed' \in BOOLEAN
        /\ closer' \in {"none", "closing", "done"}
    BY <1>7, <1>0 DEF GateTypeOK, GateNext, RunShared, ResumeShared, ReleaseShared, RunExclusive,
       ResumeExclusive, ReleaseExclusive, Close, ResumeClose
  <2> QED BY <2>1, <2>2, <2>3, <2>4 DEF GateInv, GateTypeOK
<1>8. CASE UNCHANGED gate
  <2>1. CountersMatch' /\ MutualExclusion'
    BY <1>8, NobodyMoves DEF gate
  <2>2. GateTypeOK'
    BY <1>0, <1>8 DEF gate, GateTypeOK, Waiters
  <2> QED BY <2>1, <2>2 DEF GateInv
<1> QED BY <1>7, <1>8

\* The counters count the callers inside and waiting, the types are right, and
\* an exclusive task runs alone, for any finite set of callers, whatever the
\* order of calls, wakeups and releases.
THEOREM GateIsSafe == GateSpec => [](GateTypeOK /\ CountersMatch /\ MutualExclusion)
<1>1. GateInit => GateInv
  BY InitGateInv
<1>2. GateInv /\ [GateNext]_gate => GateInv'
  BY StepGateInv
<1>3. GateInv => GateTypeOK /\ CountersMatch /\ MutualExclusion
  BY DEF GateInv
<1> QED BY <1>1, <1>2, <1>3, PTL DEF GateSpec

\* A shared caller is let in only by a gate that no exclusive caller waits
\* for: acquireShared tests pendingExclusive in the step that admits it.
THEOREM GateExclusiveFirst == GateSpec => ExclusiveFirst
<1> DEFINE Admission == \A t \in Tasks : status[t] # "shared" /\ status'[t] = "shared"
                                          => pendingExclusive = 0
<1>1. ASSUME GateInv, [GateNext]_gate PROVE [Admission]_gate
  <2> SUFFICES ASSUME GateNext, NEW u \in Tasks, status[u] # "shared", status'[u] = "shared"
               PROVE  pendingExclusive = 0
    BY <1>1
  <2>1. status \in [Tasks -> Status]
    BY <1>1 DEF GateInv, GateTypeOK
  <2>2. ASSUME NEW t \in Tasks, RunShared(t) \/ ResumeShared(t) PROVE pendingExclusive = 0
    BY <2>1, <2>2 DEF RunShared, ResumeShared, Become, MayShare
  <2>3. ASSUME NEW t \in Tasks, ReleaseShared(t) \/ RunExclusive(t) \/ ResumeExclusive(t)
                                  \/ ReleaseExclusive(t)
        PROVE  FALSE
    BY <2>1, <2>3 DEF ReleaseShared, RunExclusive, ResumeExclusive, ReleaseExclusive, Become
  <2>4. ASSUME Close \/ ResumeClose PROVE FALSE
    BY <2>4 DEF Close, ResumeClose
  <2> QED BY <2>2, <2>3, <2>4 DEF GateNext
<1>2. GateInv /\ [GateNext]_gate => [Admission]_gate
  BY <1>1
<1>3. GateSpec => []GateInv
  BY InitGateInv, StepGateInv, PTL DEF GateSpec
<1>4. [][Admission]_gate <=> ExclusiveFirst
  BY PTL DEF ExclusiveFirst
<1> QED BY <1>2, <1>3, <1>4, PTL DEF GateSpec
=============================================================================
