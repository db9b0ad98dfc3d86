------------------------- MODULE SharedExclusiveGate -------------------------
(***************************************************************************)
(* The reader/writer gate of src/src/infra/perf/SharedExclusiveGate.ts.    *)
(* The per-domain store locks run reads and point writes shared and clear  *)
(* exclusive, and close the gate before they destroy the store.            *)
(*                                                                         *)
(* A caller that finds the gate taken waits on waitForStateChange.         *)
(* notifyStateChange resolves the promises of all waiters; each of them    *)
(* then looks again in a microtask of its own, so other calls may run in   *)
(* between.  One action is one run of JavaScript to completion.            *)
(***************************************************************************)
EXTENDS Integers, FiniteSets

CONSTANTS
  Tasks,   \* the callers of runShared and runExclusive
  Closer   \* the caller of close, as an identity among the waiters

ASSUME GateAssumption == IsFiniteSet(Tasks) /\ Closer \notin Tasks

VARIABLES
  activeShared, pendingExclusive, exclusiveActive, closed,  \* the gate's fields
  status,  \* where each caller is
  closer,  \* where the caller of close is
  woken    \* the waiters whose waitForStateChange promise has resolved

gate == <<activeShared, pendingExclusive, exclusiveActive, closed, status, closer, woken>>

Status == {"idle", "waitShared", "shared", "waitExclusive", "exclusive", "rejected"}

Waiters == {t \in Tasks : status[t] \in {"waitShared", "waitExclusive"}}
             \cup (IF closer = "closing" THEN {Closer} ELSE {})

Sharing == {t \in Tasks : status[t] = "shared"}
Excluding == {t \in Tasks : status[t] = "exclusive"}
WaitingToExclude == {t \in Tasks : status[t] = "waitExclusive"}

-----------------------------------------------------------------------------
GateInit ==
  /\ activeShared = 0
  /\ pendingExclusive = 0
  /\ exclusiveActive = FALSE
  /\ closed = FALSE
  /\ status = [t \in Tasks |-> "idle"]
  /\ closer = "none"
  /\ woken = {}

Become(t, s) == status' = [status EXCEPT ![t] = s]

\* Faulty variant of MayShare: waiting exclusive callers are overtaken.
MayShareAnyway == ~exclusiveActive

\* A shared caller yields to the exclusive callers that wait.
MayShare == ~exclusiveActive /\ pendingExclusive = 0

\* Faulty variant of MayExclude: the shared callers inside are not counted.
MayExcludeAnyway == ~exclusiveActive

MayExclude == ~exclusiveActive /\ activeShared = 0

\* runShared, on its fast path or up to the first wait of acquireShared.
RunShared(t) ==
  /\ status[t] = "idle"
  /\ \/ /\ closed
        /\ Become(t, "rejected")
        /\ UNCHANGED activeShared
     \/ /\ ~closed /\ MayShare
        /\ Become(t, "shared")
        /\ activeShared' = activeShared + 1
     \/ /\ ~closed /\ ~MayShare
        /\ Become(t, "waitShared")
        /\ UNCHANGED activeShared
  /\ UNCHANGED <<pendingExclusive, exclusiveActive, closed, closer, woken>>

\* acquireShared after a wait: closed, admitted, or waiting again.
ResumeShared(t) ==
  /\ status[t] = "waitShared" /\ t \in woken
  /\ woken' = woken \ {t}
  /\ \/ /\ closed
        /\ Become(t, "rejected")
        /\ UNCHANGED activeShared
     \/ /\ ~closed /\ MayShare
        /\ Become(t, "shared")
        /\ activeShared' = activeShared + 1
     \/ /\ ~closed /\ ~MayShare
        /\ UNCHANGED <<status, activeShared>>
  /\ UNCHANGED <<pendingExclusive, exclusiveActive, closed, closer>>

\* The finally block of a shared task.
ReleaseShared(t) ==
  /\ status[t] = "shared"
  /\ Become(t, "idle")
  /\ activeShared' = activeShared - 1
  /\ woken' = Waiters
  /\ UNCHANGED <<pendingExclusive, exclusiveActive, closed, closer>>

\* runExclusive up to the first wait of acquireExclusive.
RunExclusive(t) ==
  /\ status[t] = "idle"
  /\ \/ /\ closed
        /\ Become(t, "rejected")
        /\ UNCHANGED <<pendingExclusive, exclusiveActive, woken>>
     \/ /\ ~closed /\ MayExclude
        /\ Become(t, "exclusive")
        /\ exclusiveActive' = TRUE
        /\ woken' = Waiters
        /\ UNCHANGED pendingExclusive
     \/ /\ ~closed /\ ~MayExclude
        /\ Become(t, "waitExclusive")
        /\ pendingExclusive' = pendingExclusive + 1
        /\ woken' = Waiters
        /\ UNCHANGED exclusiveActive
  /\ UNCHANGED <<activeShared, closed, closer>>

\* acquireExclusive after a wait; its finally block gives the place among the
\* pending callers back and notifies, also when the gate was closed.
ResumeExclusive(t) ==
  /\ status[t] = "waitExclusive" /\ t \in woken
  /\ \/ /\ closed
        /\ Become(t, "rejected")
        /\ pendingExclusive' = pendingExclusive - 1
        /\ woken' = Waiters \ {t}
        /\ UNCHANGED exclusiveActive
     \/ /\ ~closed /\ MayExclude
        /\ Become(t, "exclusive")
        /\ exclusiveActive' = TRUE
        /\ pendingExclusive' = pendingExclusive - 1
        /\ woken' = Waiters \ {t}
     \/ /\ ~closed /\ ~MayExclude
        /\ woken' = woken \ {t}
        /\ UNCHANGED <<status, pendingExclusive, exclusiveActive>>
  /\ UNCHANGED <<activeShared, closed, closer>>

\* Faulty variant of ReleaseExclusive: the waiters are not notified.
ReleaseQuietly(t) ==
  /\ status[t] = "exclusive"
  /\ Become(t, "idle")
  /\ exclusiveActive' = FALSE
  /\ UNCHANGED <<woken, activeShared, pendingExclusive, closed, closer>>

\* The finally block of runExclusive.
ReleaseExclusive(t) ==
  /\ status[t] = "exclusive"
  /\ Become(t, "idle")
  /\ exclusiveActive' = FALSE
  /\ woken' = Waiters
  /\ UNCHANGED <<activeShared, pendingExclusive, closed, closer>>

\* Faulty variant of Drained: a shared task that still runs is not waited for.
DrainedOfExclusive == ~exclusiveActive /\ pendingExclusive = 0

Drained == activeShared = 0 /\ ~exclusiveActive /\ pendingExclusive = 0

\* close up to its first wait.
Close ==
  /\ closer = "none"
  /\ closed' = TRUE
  /\ woken' = Waiters
  /\ closer' = IF Drained THEN "done" ELSE "closing"
  /\ UNCHANGED <<activeShared, pendingExclusive, exclusiveActive, status>>

\* close after a wait.
ResumeClose ==
  /\ closer = "closing" /\ Closer \in woken
  /\ woken' = woken \ {Closer}
  /\ closer' = IF Drained THEN "done" ELSE "closing"
  /\ UNCHANGED <<activeShared, pendingExclusive, exclusiveActive, closed, status>>

GateNext ==
  \/ \E t \in Tasks : \/ RunShared(t) \/ ResumeShared(t) \/ ReleaseShared(t)
                      \/ RunExclusive(t) \/ ResumeExclusive(t) \/ ReleaseExclusive(t)
  \/ Close \/ ResumeClose

GateSpec == GateInit /\ [][GateNext]_gate

\* Continuations run, and the tasks inside settle: their stores answer.
GateFairSpec ==
  /\ GateSpec
  /\ \A t \in Tasks : /\ WF_gate(ResumeShared(t)) /\ WF_gate(ResumeExclusive(t))
                      /\ WF_gate(ReleaseShared(t)) /\ WF_gate(ReleaseExclusive(t))
  /\ WF_gate(ResumeClose)

-----------------------------------------------------------------------------
(* Properties *)

GateTypeOK ==
  /\ activeShared \in Nat
  /\ pendingExclusive \in Nat
  /\ exclusiveActive \in BOOLEAN
  /\ closed \in BOOLEAN
  /\ status \in [Tasks -> Status]
  /\ closer \in {"none", "closing", "done"}
  /\ woken \subseteq Waiters

\* The counters count: a missed or doubled decrement on one of the paths out
\* of the gate would leave it taken for ever, or open too early.
CountersMatch ==
  /\ activeShared = Cardinality(Sharing)
  /\ pendingExclusive = Cardinality(WaitingToExclude)
  /\ exclusiveActive <=> Excluding # {}

\* An exclusive task runs alone.
MutualExclusion ==
  \A t \in Excluding, u \in Sharing \cup Excluding : t = u

\* No shared task gets in while an exclusive one waits.
ExclusiveFirst ==
  [][\A t \in Tasks : status[t] # "shared" /\ status'[t] = "shared"
                        => pendingExclusive = 0]_gate

\* A clear is not starved by reads and writes that keep coming: one that
\* waits for shared tasks gets in, unless another clear barges in before it.
ExclusiveGetsIn ==
  \A t \in Tasks :
    (status[t] = "waitExclusive" /\ ~exclusiveActive)
      ~> (exclusiveActive \/ status[t] = "rejected")

\* close returns: the tasks inside are waited for, no wakeup is lost, and no
\* place among the pending callers is left behind.
CloseReturns == (closer = "closing") ~> (closer = "done")
=============================================================================
