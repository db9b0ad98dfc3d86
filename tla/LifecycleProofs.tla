--------------------------- MODULE LifecycleProofs ---------------------------
(***************************************************************************)
(* That the lifecycle keeps one connection, restarts it once per pairing,  *)
(* tells the application the truth about it, watches it and makes it with  *)
(* the credentials in use, for any number of comms, calls and faults.      *)
(***************************************************************************)
EXTENDS Lifecycle, TLAPS

Manager == [comms : Ids \cup {None}, pending : Ids \cup {None}, timer : BOOLEAN,
            handler : BOOLEAN, generation : Nat, queue : Seq(Operations)]
History == [connects : 0..MaxConnects, disconnects : 0..MaxDisconnects,
            fatal : 0..MaxFatal, pairings : 0..MaxPairings, faults : 0..MaxFaults,
            restarts : Nat, epochs : Nat, told : {"nothing", "open", "closed", "failed"},
            lapses : SUBSET Lapses]
Authentication == [mem : Credentials, store : Credentials, saving : Credentials, pairing : BOOLEAN]

-----------------------------------------------------------------------------
(* Queues, and what the operators of the model do to a manager.            *)

\* A queue without its head.
LEMMA TailIs ==
  ASSUME NEW S, NEW q \in Seq(S), q # <<>>
  PROVE /\ Tail(q) \in Seq(S)
        /\ Head(q) \in S /\ Head(q) = q[1]
        /\ Len(q) \in Nat \ {0}
        /\ Len(Tail(q)) = Len(q) - 1
        /\ \A k \in 1..Len(Tail(q)) : Tail(q)[k] = q[k + 1]
<1>1. Len(q) \in Nat \ {0}
  OBVIOUS
<1> QED BY <1>1

\* A queue with one more at its end.
LEMMA AppendIs ==
  ASSUME NEW S, NEW q \in Seq(S), NEW e \in S
  PROVE /\ Append(q, e) \in Seq(S)
        /\ Append(q, e) # <<>>
        /\ Len(q) \in Nat
        /\ Len(Append(q, e)) = Len(q) + 1
        /\ \A k \in 1..Len(q) : Append(q, e)[k] = q[k]
        /\ Append(q, e)[Len(q) + 1] = e
OBVIOUS

\* A queue whose head is another.
LEMMA PutIs ==
  ASSUME NEW S, NEW q \in Seq(S), q # <<>>, NEW e \in S
  PROVE /\ [q EXCEPT ![1] = e] \in Seq(S)
        /\ [q EXCEPT ![1] = e] # <<>>
        /\ Len([q EXCEPT ![1] = e]) = Len(q)
        /\ \A k \in 1..Len(q) : [q EXCEPT ![1] = e][k] = IF k = 1 THEN e ELSE q[k]
<1>1. Len(q) \in Nat \ {0}
  OBVIOUS
<1> QED BY <1>1

\* Two managers that differ in their queues at most.
SameButQueue(m, n) ==
  /\ n.comms = m.comms /\ n.pending = m.pending /\ n.timer = m.timer
  /\ n.handler = m.handler /\ n.generation = m.generation

LEMMA EndedIs ==
  ASSUME NEW m \in Manager, m.queue # <<>>
  PROVE  /\ Ended(m) \in Manager /\ SameButQueue(m, Ended(m))
         /\ Ended(m).queue = Tail(m.queue)
<1>1. m.queue \in Seq(Operations)
  BY DEF Manager
<1>2. Tail(m.queue) \in Seq(Operations)
  BY <1>1, TailIs
<1> QED BY <1>2 DEF Ended, Manager, SameButQueue

LEMMA EnqueuedIs ==
  ASSUME NEW m \in Manager, NEW o \in Operations
  PROVE  /\ Enqueued(m, o) \in Manager /\ SameButQueue(m, Enqueued(m, o))
         /\ Enqueued(m, o).queue = Append(m.queue, o)
<1>1. m.queue \in Seq(Operations)
  BY DEF Manager
<1>2. Append(m.queue, o) \in Seq(Operations)
  BY <1>1, AppendIs
<1> QED BY <1>2 DEF Enqueued, Manager, SameButQueue

LEMMA PuttingIs ==
  ASSUME NEW m \in Manager, m.queue # <<>>, NEW o \in Operations
  PROVE  /\ Putting(m, o) \in Manager /\ SameButQueue(m, Putting(m, o))
         /\ Putting(m, o).queue = [m.queue EXCEPT ![1] = o]
<1>1. m.queue \in Seq(Operations)
  BY DEF Manager
<1>2. [m.queue EXCEPT ![1] = o] \in Seq(Operations)
  BY <1>1, PutIs
<1> QED BY <1>2 DEF Putting, Manager, SameButQueue

LEMMA OperationTyped ==
  ASSUME NEW kind \in {"connect", "disconnect", "restart"}, NEW gen \in Nat,
         NEW by \in Handlers \cup {"user"}
  PROVE  Operation(kind, gen, by) \in Operations
BY DEF Operation, Operations, NoCredentials, Credentials, None

LEMMA DisconnectedIs ==
  ASSUME NEW m \in Manager, NEW by \in Handlers \cup {"user"}
  PROVE  LET o == Operation("disconnect", m.generation + 1, by)
         IN /\ o \in Operations
            /\ Disconnected(m, by) \in Manager
            /\ Disconnected(m, by).comms = m.comms
            /\ Disconnected(m, by).pending = None
            /\ Disconnected(m, by).timer = FALSE
            /\ Disconnected(m, by).handler = m.handler
            /\ Disconnected(m, by).generation = m.generation + 1
            /\ Disconnected(m, by).queue = Append(m.queue, o)
<1> DEFINE o == Operation("disconnect", m.generation + 1, by)
           n == [m EXCEPT !.timer = FALSE, !.generation = @ + 1, !.pending = None]
<1>1. m.generation + 1 \in Nat
  BY DEF Manager
<1>2. o \in Operations
  BY <1>1, OperationTyped
<1>3. /\ n \in Manager
      /\ n.comms = m.comms /\ n.pending = None /\ n.timer = FALSE
      /\ n.handler = m.handler /\ n.generation = m.generation + 1 /\ n.queue = m.queue
  BY <1>1 DEF Manager
<1> HIDE DEF o, n
<1>4. /\ Enqueued(n, o) \in Manager /\ SameButQueue(n, Enqueued(n, o))
      /\ Enqueued(n, o).queue = Append(n.queue, o)
  BY <1>2, <1>3, EnqueuedIs
<1>5. Disconnected(m, by) = Enqueued(n, o)
  BY DEF Disconnected, o, n
<1> QED BY <1>2, <1>3, <1>4, <1>5 DEF SameButQueue, o

\* A connect asked for while none is under way.
LEMMA ConnectingIs ==
  ASSUME NEW m \in Manager, ~Queued("connect")
  PROVE  LET o == Operation("connect", m.generation + 1, "user")
         IN /\ o \in Operations
            /\ Connecting(m) \in Manager
            /\ Connecting(m).comms = m.comms
            /\ Connecting(m).pending = m.pending
            /\ Connecting(m).timer = m.timer
            /\ Connecting(m).handler = TRUE
            /\ Connecting(m).generation = m.generation + 1
            /\ Connecting(m).queue = Append(m.queue, o)
<1> DEFINE o == Operation("connect", m.generation + 1, "user")
           n == [m EXCEPT !.handler = TRUE, !.generation = @ + 1]
<1>1. m.generation + 1 \in Nat
  BY DEF Manager
<1>2. o \in Operations
  BY <1>1, OperationTyped
<1>3. /\ n \in Manager
      /\ n.comms = m.comms /\ n.pending = m.pending /\ n.timer = m.timer
      /\ n.handler = TRUE /\ n.generation = m.generation + 1 /\ n.queue = m.queue
  BY <1>1 DEF Manager
<1> HIDE DEF o, n
<1>4. /\ Enqueued(n, o) \in Manager /\ SameButQueue(n, Enqueued(n, o))
      /\ Enqueued(n, o).queue = Append(n.queue, o)
  BY <1>2, <1>3, EnqueuedIs
<1>5. Connecting(m) = Enqueued(n, o)
  BY DEF Connecting, o, n
<1> QED BY <1>2, <1>3, <1>4, <1>5 DEF SameButQueue, o

\* The timer of a pairing restart is taken, and a restart is queued unless one is.
LEMMA StartPairRestartIs ==
  ASSUME NEW m \in Manager
  PROVE  LET o == Operation("restart", 0, "user")
             n == StartPairRestart(m)
         IN /\ o \in Operations
            /\ n \in Manager
            /\ n.comms = m.comms /\ n.pending = m.pending /\ n.timer = FALSE
            /\ n.handler = m.handler /\ n.generation = m.generation
            /\ \/ (~m.timer \/ Queued("restart")) /\ n.queue = m.queue
               \/ m.timer /\ ~Queued("restart") /\ n.queue = Append(m.queue, o)
<1> DEFINE o == Operation("restart", 0, "user")
           n == [m EXCEPT !.timer = FALSE]
<1>1. o \in Operations
  BY OperationTyped
<1>2. n \in Manager /\ SameButQueue([m EXCEPT !.timer = FALSE], n) /\ n.queue = m.queue
      /\ n.comms = m.comms /\ n.pending = m.pending /\ n.timer = FALSE
      /\ n.handler = m.handler /\ n.generation = m.generation
      /\ (~m.timer => n = m)
  BY DEF Manager, SameButQueue
<1> HIDE DEF o, n
<1>3. /\ Enqueued(n, o) \in Manager /\ SameButQueue(n, Enqueued(n, o))
      /\ Enqueued(n, o).queue = Append(n.queue, o)
  BY <1>1, <1>2, EnqueuedIs
<1>4. StartPairRestart(m) = IF ~m.timer THEN n ELSE IF Queued("restart") THEN n
                            ELSE Enqueued(n, o)
  BY <1>2 DEF StartPairRestart, o, n
<1> QED BY <1>1, <1>2, <1>3, <1>4 DEF SameButQueue, o

LEMMA DisconnectingIs ==
  ASSUME NEW m \in Manager
  PROVE  LET n == Disconnecting(m)
         IN /\ n \in Manager
            /\ n.comms = None /\ n.pending = None /\ n.timer = FALSE
            /\ n.handler = FALSE /\ n.generation = m.generation /\ n.queue = m.queue
BY DEF Disconnecting, Manager

LEMMA UnboundIs ==
  ASSUME NEW m \in Manager, NEW i
  PROVE  LET n == Unbound(IF m.pending = i THEN [m EXCEPT !.pending = None] ELSE m, i)
         IN /\ n \in Manager
            /\ n.comms = IF m.comms \in {None, i} THEN None ELSE m.comms
            /\ n.pending = IF m.pending = i THEN None ELSE m.pending
            /\ n.timer = m.timer /\ n.handler = m.handler
            /\ n.generation = m.generation /\ n.queue = m.queue
BY DEF Unbound, Manager

-----------------------------------------------------------------------------
(* What they do to the comms, to the handlers and to what is reported.     *)

LEMMA SeenStays ==
  ASSUME NEW s \in Seen
  PROVE  /\ Started(s) \in Seen /\ Stopped(s) \in Seen /\ Held(s) \in Seen
         /\ Resumed(s) \in Seen /\ CameUp(s) \in Seen /\ Closed(s) \in Seen
         /\ GaveUp(s) \in Seen /\ TimedOut(s) \in Seen
BY DEF Seen, Phases, Waiters, Started, Stopped, Held, Resumed, CameUp, Closed, GaveUp,
       TimedOut, Failing

LEMMA StopIs ==
  ASSUME comms \in [Ids -> Seen], NEW ids
  PROVE  /\ Stop(ids) \in [Ids -> Seen]
         /\ \A i \in Ids : Stop(ids)[i] = IF i \in ids THEN Stopped(comms[i]) ELSE comms[i]
BY SeenStays DEF Stop

LEMMA WakingTyped ==
  ASSUME caller \in [Handlers -> HandlerType]
  PROVE  Waking \in [Handlers -> HandlerType]
BY DEF Waking, HandlerType

\* What is reported changes nothing else, and no lapse is taken back.
Reports(h, g) ==
  /\ g \in History /\ h.lapses \subseteq g.lapses
  /\ g.restarts = h.restarts /\ g.pairings = h.pairings

LEMMA HistoryIs ==
  ASSUME NEW h \in History
  PROVE  /\ \A what \in {"nothing", "open", "closed", "failed"} :
              /\ Reports(h, Telling(h, what))
              /\ Telling(h, what).told = what /\ Telling(h, what).lapses = h.lapses
         /\ \A lapse \in Lapses, if \in BOOLEAN :
              /\ Reports(h, Lapsing(h, lapse, if)) /\ Lapsing(h, lapse, if).told = h.told
              /\ Lapsing(h, lapse, if).lapses = IF if THEN h.lapses \cup {lapse} ELSE h.lapses
<1>1. ASSUME NEW what \in {"nothing", "open", "closed", "failed"}
      PROVE  /\ Reports(h, Telling(h, what))
             /\ Telling(h, what).told = what /\ Telling(h, what).lapses = h.lapses
  BY DEF Telling, History, Reports
<1>2. ASSUME NEW lapse \in Lapses, NEW if \in BOOLEAN
      PROVE  /\ Reports(h, Lapsing(h, lapse, if)) /\ Lapsing(h, lapse, if).told = h.told
             /\ Lapsing(h, lapse, if).lapses = IF if THEN h.lapses \cup {lapse} ELSE h.lapses
  BY DEF Lapsing, History, Reports
<1> QED BY <1>1, <1>2

LEMMA FailedIs ==
  ASSUME hist \in History, Fault
  PROVE  Reports(hist, Failed) /\ Failed.told = hist.told /\ Failed.lapses = hist.lapses
BY LifecycleAssumption DEF LifecycleAssumption, Failed, Fault, History, Reports

LEMMA RejectedIs ==
  ASSUME NEW h \in History
  PROVE  /\ Reports(h, Rejected(h))
         /\ op.kind = "connect" => Rejected(h).told = "failed" /\ Rejected(h).lapses = h.lapses
         /\ op.kind # "connect" =>
              /\ Rejected(h).told = h.told
              /\ Rejected(h).lapses = IF Current(op) THEN h.lapses \cup {"restart failed"}
                                      ELSE h.lapses
<1>1. Current(op) \in BOOLEAN /\ "restart failed" \in Lapses
  BY DEF Current, Lapses
<1> QED BY ZenonT(40), <1>1, HistoryIs DEF Rejected

-----------------------------------------------------------------------------
(* Types.                                                                  *)

LEMMA TypeOKIs ==
  TypeOK <=> /\ comms \in [Ids -> Seen] /\ made \in [Ids -> Credentials]
             /\ mgr \in Manager /\ caller \in [Handlers -> HandlerType]
             /\ auth \in Authentication /\ alive \in {"off", "scheduled", "sent"}
             /\ hist \in History
BY DEF TypeOK, Manager, Authentication, History

\* The operation at the head of the queue.
LEMMA OpIs ==
  ASSUME mgr \in Manager, mgr.queue # <<>>
  PROVE  /\ op \in Operations /\ op = mgr.queue[1]
         /\ mgr.queue \in Seq(Operations) /\ Len(mgr.queue) \in Nat \ {0}
<1>1. mgr.queue \in Seq(Operations)
  BY DEF Manager
<1> QED BY <1>1, TailIs DEF op

LEMMA StopTyped ==
  ASSUME TypeOK, NEW ids
  PROVE  Stop(ids) \in [Ids -> Seen]
BY TypeOKIs, StopIs

\* An operation that is rejected.
LEMMA RejectsTyped ==
  ASSUME TypeOK, mgr.queue # <<>>, NEW h \in History, Rejects(h)
  PROVE  TypeOK'
<1>1. Ended(mgr) \in Manager /\ Waking \in [Handlers -> HandlerType] /\ Rejected(h) \in History
  BY TypeOKIs, EndedIs, WakingTyped, RejectedIs DEF Reports
<1> QED BY <1>1, TypeOKIs DEF TypeOK, Manager, Authentication, History, Rejects

\* One whose comms have failed.
LEMMA StartFailsTyped ==
  ASSUME TypeOK, mgr.queue # <<>>, NEW h \in History, StartFails(mgr, h)
  PROVE  TypeOK'
<1> DEFINE n == Unbound(IF mgr.pending = op.comms THEN [mgr EXCEPT !.pending = None] ELSE mgr,
                        op.comms)
           o == [op EXCEPT !.at = "failing"]
<1>1. n \in Manager /\ n.queue = mgr.queue
  BY TypeOKIs, UnboundIs
<1>2. o \in Operations
  BY TypeOKIs, OpIs DEF Operations
<1>3. Stop({op.comms}) \in [Ids -> Seen]
  BY StopTyped
<1>4. mgr' = Putting(n, o) /\ comms' = Stop({op.comms}) /\ hist' = h
      /\ UNCHANGED <<made, caller, auth, alive>>
  BY DEF StartFails
<1> HIDE DEF n, o
<1>5. mgr' \in Manager
  BY <1>1, <1>2, <1>4, PuttingIs
<1> QED BY <1>3, <1>4, <1>5, TypeOKIs DEF TypeOK, Manager, Authentication, History

LEMMA CallsTyped ==
  ASSUME TypeOK, Connect \/ Disconnect \/ StreamError \/ ForceLogin \/ FailureStanza
                 \/ IdentityChange \/ Resume \/ \E p \in Handlers : GoOn(p)
  PROVE  TypeOK'
<1> USE TypeOKIs DEF Authentication
<1>1. CASE Connect
  <2>1. mgr' \in Manager
    BY <1>1, ConnectingIs DEF Connect
  <2>2. hist' \in History
    BY <1>1, LifecycleAssumption DEF LifecycleAssumption, Connect, History
  <2> QED BY <1>1, <2>1, <2>2 DEF Connect, TypeOK, Manager, History
<1>2. CASE Disconnect
  <2>1. mgr' \in Manager
    BY <1>2, DisconnectedIs DEF Disconnect
  <2>2. hist' \in History
    BY <1>2, LifecycleAssumption DEF LifecycleAssumption, Disconnect, History
  <2>3. comms' \in [Ids -> Seen]
    BY <1>2, StopTyped DEF Disconnect
  <2> QED BY <1>2, <2>1, <2>2, <2>3 DEF Disconnect, TypeOK, Manager, History
<1>3. ASSUME NEW p \in Handlers, NEW kind, Handle(p, kind)
      PROVE  TypeOK'
  <2> DEFINE h == [hist EXCEPT !.fatal = @ + 1]
  <2>1. comms' \in [Ids -> Seen]
    BY <1>3, StopTyped DEF Handle
  <2>2. h \in History
    BY <1>3, LifecycleAssumption DEF LifecycleAssumption, Handle, History
  <2>3. hist' \in History
    <3>1. Lapsing(h, "joined", TRUE) \in History
      BY <2>2, HistoryIs DEF Reports, Lapses
    <3>2. hist' = h \/ hist' = Lapsing(h, "joined", TRUE)
      BY <1>3 DEF Handle
    <3> QED BY <2>2, <3>1, <3>2
  <2>4. mgr' \in Manager
    <3>1. Disconnected(mgr, p) \in Manager
      BY DisconnectedIs
    <3>2. mgr' = Disconnected(mgr, p) \/ mgr' = mgr
      BY <1>3 DEF Handle
    <3> QED BY <3>1, <3>2
  <2>5. caller' \in [Handlers -> HandlerType]
    <3>1. Clears(kind) \in BOOLEAN /\ Connects(kind) \in BOOLEAN
      BY DEF Clears, Connects
    <3>2. [at |-> "disconnecting", clears |-> Clears(kind), connects |-> Connects(kind)]
            \in HandlerType
      BY <3>1 DEF HandlerType
    <3>3. \/ caller' = [caller EXCEPT ![p] = [at |-> "disconnecting", clears |-> Clears(kind),
                                             connects |-> Connects(kind)]]
          \/ caller' = caller
      BY <1>3 DEF Handle
    <3> QED BY <3>2, <3>3
  <2>6. UNCHANGED <<made, auth, alive>>
    BY <1>3 DEF Handle
  <2> QED BY <2>1, <2>3, <2>4, <2>5, <2>6 DEF TypeOK, Manager, History
<1>4. CASE ForceLogin
  <2>1. CASE Handle("stream", "force login")
    BY <1>3, <2>1 DEF Handlers
  <2>2. CASE mgr' = StartPairRestart(mgr) /\ UNCHANGED <<comms, made, caller, auth, alive, hist>>
    <3>1. mgr' \in Manager
      BY <2>2, StartPairRestartIs
    <3> QED BY <2>2, <3>1 DEF TypeOK, Manager, History
  <2> QED BY <1>4, <2>1, <2>2 DEF ForceLogin
<1>5. CASE Resume
  <2>1. comms' \in [Ids -> Seen]
    BY <1>5, SeenStays DEF Resume, Manager
  <2> QED BY <1>5, <2>1 DEF Resume, TypeOK, Manager, History
<1>6. ASSUME NEW p \in Handlers, GoOn(p)
      PROVE  TypeOK'
  <2>1. caller' \in [Handlers -> HandlerType]
    BY ZenonT(40), <1>6 DEF GoOn, HandlerType, Idle
  <2>2. mgr' \in Manager
    <3>1. CASE Queued("connect")
      BY <1>6, <3>1 DEF GoOn, Connecting
    <3>2. CASE ~Queued("connect")
      BY <1>6, <3>2, ConnectingIs DEF GoOn
    <3> QED BY <3>1, <3>2
  <2> QED BY <1>6, <2>1, <2>2 DEF GoOn, TypeOK, Manager, History
<1> QED BY <1>1, <1>2, <1>3, <1>4, <1>5, <1>6 DEF StreamError, FailureStanza, IdentityChange, Handlers

LEMMA BeginsTyped ==
  ASSUME TypeOK, BeginConnect \/ BeginDisconnect \/ BeginRestart
  PROVE  TypeOK'
<1> USE TypeOKIs DEF Authentication
<1>1. op \in Operations /\ mgr.queue # <<>>
  BY OpIs DEF BeginConnect, BeginDisconnect, BeginRestart, Running
<1>2. Ended(mgr) \in Manager /\ Waking \in [Handlers -> HandlerType]
  BY <1>1, EndedIs, WakingTyped
<1>3. CASE BeginConnect
  <2>1. CASE Rejects(hist)
    BY <2>1, <1>1, RejectsTyped
  <2>2. CASE mgr' = Ended(mgr) /\ caller' = Waking /\ hist' = Telling(hist, "open")
             /\ UNCHANGED <<comms, made, auth, alive>>
    <3>1. hist' \in History
      BY <2>2, HistoryIs DEF Reports
    <3> QED BY <2>2, <3>1, <1>2 DEF TypeOK, Manager, History
  <2>3. CASE mgr' = Putting(mgr, [op EXCEPT !.at = "loading", !.creds = auth.store])
             /\ UNCHANGED <<caller, hist, comms, made, auth, alive>>
    <3>1. [op EXCEPT !.at = "loading", !.creds = auth.store] \in Operations
      BY <1>1 DEF Operations
    <3>2. mgr' \in Manager
      BY <2>3, <3>1, <1>1, PuttingIs
    <3> QED BY <2>3, <3>2 DEF TypeOK, Manager, History
  <2> QED BY <1>3, <2>1, <2>2, <2>3 DEF BeginConnect
<1>4. CASE BeginDisconnect
  <2>1. [op EXCEPT !.at = "closing"] \in Operations
    BY <1>1 DEF Operations
  <2>2. mgr' \in Manager
    <3>1. Disconnecting(mgr) \in Manager /\ Disconnecting(mgr).queue = mgr.queue
      BY DisconnectingIs
    <3>2. Putting(Disconnecting(mgr), [op EXCEPT !.at = "closing"]) \in Manager
      BY <1>1, <2>1, <3>1, PuttingIs
    <3> QED BY <1>4, <1>2, <3>2 DEF BeginDisconnect
  <2>3. comms' \in [Ids -> Seen] /\ caller' \in [Handlers -> HandlerType] /\ hist' \in History
    BY <1>4, <1>2, StopTyped, HistoryIs DEF BeginDisconnect, Reports
  <2> QED BY <1>4, <2>2, <2>3 DEF BeginDisconnect, TypeOK, Manager, History
<1>5. CASE BeginRestart
  <2> DEFINE gen == mgr.generation + 1
             m == [mgr EXCEPT !.generation = gen, !.comms = None]
             o == [op EXCEPT !.at = "closing", !.gen = gen, !.creds = auth.mem]
  <2>0. gen \in Nat
    BY DEF Manager
  <2>1. m \in Manager /\ m.queue = mgr.queue
    BY <2>0 DEF Manager
  <2>2. o \in Operations
    BY <2>0, <1>1 DEF Operations
  <2>3. Putting(m, o) \in Manager
    BY <1>1, <2>1, <2>2, PuttingIs
  <2>4. mgr' \in Manager
    BY <1>5, <1>2, <2>3 DEF BeginRestart
  <2>5. comms' \in [Ids -> Seen] /\ caller' \in [Handlers -> HandlerType]
    BY <1>5, <1>2, StopTyped DEF BeginRestart
  <2>6. hist' \in History
    <3>1. CASE hist' = [hist EXCEPT !.restarts = @ + 1]
      BY <3>1 DEF History
    <3>2. CASE hist' = Lapsing(hist, "no handler", ~mgr.handler)
      <4>1. (~mgr.handler) \in BOOLEAN /\ "no handler" \in Lapses
        BY DEF Lapses
      <4> QED BY <3>2, <4>1, HistoryIs DEF Reports
    <3> QED BY <1>5, <3>1, <3>2 DEF BeginRestart
  <2> QED BY <1>5, <2>4, <2>5, <2>6 DEF BeginRestart, TypeOK, Manager, History
<1> QED BY <1>3, <1>4, <1>5

LEMMA ConfiguringTyped ==
  ASSUME TypeOK, mgr.queue # <<>>, NEW o \in Operations, NEW creds \in Credentials
  PROVE  Configuring(o, creds) \in Manager
<1>1. [o EXCEPT !.at = "configuring", !.creds = creds] \in Operations
  BY DEF Operations
<1> QED BY <1>1, TypeOKIs, PuttingIs DEF Configuring

LEMMA StartsTyped ==
  ASSUME TypeOK, \/ DisconnectEnds \/ RestartClosed \/ LoadCredentials \/ CreateComms
                 \/ AdoptComms \/ PersistServerKey
  PROVE  TypeOK'
<1> USE TypeOKIs DEF Authentication
<1>1. op \in Operations /\ mgr.queue # <<>>
  BY OpIs DEF DisconnectEnds, RestartClosed, LoadCredentials, CreateComms, AdoptComms,
              PersistServerKey, Running
<1>2. Ended(mgr) \in Manager /\ Waking \in [Handlers -> HandlerType]
  BY <1>1, EndedIs, WakingTyped
<1>3. CASE DisconnectEnds
  <2>1. hist' \in History
    BY <1>3, HistoryIs DEF DisconnectEnds, Reports
  <2> QED BY <1>3, <1>2, <2>1 DEF DisconnectEnds, TypeOK, Manager, History
<1>4. CASE RestartClosed
  <2>1. CASE Rejects(hist)
    BY <2>1, <1>1, RejectsTyped
  <2>2. CASE mgr' = Configuring(op, op.creds)
             /\ UNCHANGED <<comms, made, caller, auth, alive, hist>>
    <3>1. mgr' \in Manager
      BY <2>2, <1>1, ConfiguringTyped DEF Operations
    <3> QED BY <2>2, <3>1 DEF TypeOK, Manager, History
  <2> QED BY <1>4, <2>1, <2>2 DEF RestartClosed
<1>5. CASE LoadCredentials
  <2>1. CASE Fault /\ Rejects(Failed)
    BY <2>1, <1>1, RejectsTyped, FailedIs DEF Reports
  <2>2. ASSUME NEW found \in {op.creds, auth.store},
               LET fresh == found = NoCredentials
                   creds == IF fresh THEN [found EXCEPT !.epoch = hist.epochs + 1] ELSE found
                   h == IF fresh THEN [hist EXCEPT !.epochs = @ + 1] ELSE hist
               IN /\ auth' = [auth EXCEPT !.mem = creds, !.store = IF fresh THEN creds ELSE @]
                  /\ IF Current(op)
                     THEN mgr' = Configuring(op, creds) /\ hist' = h /\ UNCHANGED caller
                     ELSE mgr' = Ended(mgr) /\ caller' = Waking /\ hist' = Rejected(h),
               UNCHANGED <<comms, made, alive>>
        PROVE  TypeOK'
    <3> DEFINE fresh == found = NoCredentials
               creds == IF fresh THEN [found EXCEPT !.epoch = hist.epochs + 1] ELSE found
               h == IF fresh THEN [hist EXCEPT !.epochs = @ + 1] ELSE hist
    <3>1. found \in Credentials
      BY <1>1 DEF Operations
    <3>2. creds \in Credentials /\ h \in History
      BY <3>1 DEF Credentials, History
    <3>3. auth' \in Authentication
      BY <2>2, <3>2
    <3>4. mgr' \in Manager /\ caller' \in [Handlers -> HandlerType] /\ hist' \in History
      <4>1. Configuring(op, creds) \in Manager
        BY <1>1, <3>2, ConfiguringTyped
      <4>2. Rejected(h) \in History
        BY <3>2, RejectedIs DEF Reports
      <4> HIDE DEF h, creds
      <4> QED BY <2>2, <1>2, <3>2, <4>1, <4>2 DEF h, creds
    <3> QED BY <2>2, <3>3, <3>4 DEF TypeOK, Manager, History
  <2> QED BY <1>5, <2>1, <2>2 DEF LoadCredentials
<1>6. CASE CreateComms
  <2>1. PICK i \in Ids : /\ comms' = [comms EXCEPT ![i] = Started(@)]
                         /\ made' = [made EXCEPT ![i] = op.creds]
                         /\ mgr' = Putting([mgr EXCEPT !.pending = i],
                                           [op EXCEPT !.at = "waiting", !.comms = i])
    BY <1>6 DEF CreateComms
  <2>2. comms' \in [Ids -> Seen] /\ made' \in [Ids -> Credentials]
    BY <2>1, <1>1, SeenStays DEF Operations
  <2>3. [op EXCEPT !.at = "waiting", !.comms = i] \in Operations
    BY <1>1 DEF Operations
  <2>4. [mgr EXCEPT !.pending = i] \in Manager /\ [mgr EXCEPT !.pending = i].queue # <<>>
    BY <1>1 DEF Manager
  <2>5. mgr' \in Manager
    BY <2>1, <2>3, <2>4, PuttingIs
  <2> QED BY <1>6, <2>2, <2>5 DEF CreateComms, TypeOK, Manager, History
<1>7. ASSUME NEW m \in Manager, m.queue # <<>>, Ended(m) \in Manager, Succeeds(m),
             made' = made, comms' = comms, alive' \in {"off", "scheduled", "sent"},
             auth' \in Authentication
      PROVE  TypeOK'
  <2>1. hist' \in History
    BY <1>7, HistoryIs DEF Succeeds, Reports
  <2> QED BY <1>7, <1>2, <2>1 DEF Succeeds, TypeOK, Manager, History
<1>8. CASE AdoptComms
  <2> DEFINE m == [mgr EXCEPT !.comms = op.comms, !.pending = None]
             o == [op EXCEPT !.at = "persisting"]
  <2>1. m \in Manager /\ m.queue # <<>>
    BY <1>1 DEF Manager, Operations
  <2>2. o \in Operations
    BY <1>1 DEF Operations
  <2>3. Putting(m, o) \in Manager /\ Ended(m) \in Manager
    BY <2>1, <2>2, PuttingIs, EndedIs
  <2>4. CASE StartFails(mgr, hist)
    BY <2>4, <1>1, StartFailsTyped
  <2>5. CASE alive' = "off" /\ Succeeds(m) /\ UNCHANGED <<comms, made, auth>>
    BY <2>5, <2>1, <2>3, <1>7
  <2>6. CASE alive' = "scheduled" /\ mgr' = Putting(m, o)
             /\ UNCHANGED <<caller, hist, comms, made, auth>>
    BY <2>3, <2>6 DEF TypeOK, Manager, History
  <2> QED BY <1>8, <2>4, <2>5, <2>6 DEF AdoptComms
<1>9. CASE PersistServerKey
  <2>1. CASE StartFails(mgr, hist)
    BY <2>1, <1>1, StartFailsTyped
  <2>2. CASE Fault /\ StartFails(mgr, Failed)
    BY <2>2, <1>1, StartFailsTyped, FailedIs DEF Reports
  <2>3. CASE Succeeds(mgr) /\ auth' = [auth EXCEPT !.store = op.creds]
             /\ UNCHANGED <<comms, made, alive>>
    BY <2>3, <1>1, <1>2, <1>7 DEF Operations
  <2> QED BY <1>9, <2>1, <2>2, <2>3 DEF PersistServerKey
<1> QED BY <1>3, <1>4, <1>5, <1>6, <1>8, <1>9

\* What is done about an attempt that failed.
Recovering == StartFailed \/ ConfigFails

LEMMA RetriesTyped ==
  ASSUME TypeOK, Recovering \/ ClearRoutingInfo \/ RetryWithoutRouting
  PROVE  TypeOK'
<1> USE TypeOKIs DEF Authentication
<1>1. op \in Operations /\ mgr.queue # <<>>
  BY OpIs DEF Recovering, StartFailed, ConfigFails, ClearRoutingInfo, RetryWithoutRouting, Running
<1>2. Ended(mgr) \in Manager /\ Waking \in [Handlers -> HandlerType]
  BY <1>1, EndedIs, WakingTyped
<1>3. ASSUME Rejects(hist) PROVE TypeOK'
  BY <1>3, <1>1, RejectsTyped
<1>4. CASE Recovering
  <2>1. PICK h \in History : Recovers(h)
    BY <1>4, FailedIs DEF Recovering, StartFailed, ConfigFails, Reports
  <2>2. [op EXCEPT !.at = "cleaning"] \in Operations
    BY <1>1 DEF Operations
  <2>3. Disconnecting(mgr) \in Manager /\ Disconnecting(mgr).queue = mgr.queue
    BY DisconnectingIs
  <2>4. Putting(Disconnecting(mgr), [op EXCEPT !.at = "cleaning"]) \in Manager
    BY <1>1, <2>2, <2>3, PuttingIs
  <2>5. CASE Rejects(h)
    BY <1>1, <2>5, RejectsTyped
  <2>6. CASE /\ mgr' = Putting(Disconnecting(mgr), [op EXCEPT !.at = "cleaning"])
             /\ comms' = Stop({mgr.comms, mgr.pending}) /\ alive' = "off" /\ hist' = h
             /\ UNCHANGED <<made, caller, auth>>
    BY <2>4, <2>6, StopTyped DEF TypeOK, Manager, History
  <2> QED BY <2>1, <2>5, <2>6 DEF Recovers
<1>5. CASE ClearRoutingInfo
  <2> DEFINE creds == [auth.mem EXCEPT !.routing = FALSE]
  <2>1. CASE /\ mgr' = Putting(mgr, [op EXCEPT !.at = "unrouting", !.creds = creds])
             /\ auth' = [auth EXCEPT !.mem = creds]
             /\ UNCHANGED <<comms, made, caller, alive, hist>>
    <3>1. creds \in Credentials
      BY DEF Credentials
    <3>2. [op EXCEPT !.at = "unrouting", !.creds = creds] \in Operations
      BY <1>1, <3>1 DEF Operations
    <3>3. mgr' \in Manager /\ auth' \in Authentication
      BY <2>1, <1>1, <3>1, <3>2, PuttingIs
    <3> QED BY <2>1, <3>3 DEF TypeOK, Manager, History
  <2> QED BY <1>3, <1>5, <2>1 DEF ClearRoutingInfo
<1>6. CASE RetryWithoutRouting
  <2>1. CASE Fault /\ Rejects(Failed)
    BY <2>1, <1>1, RejectsTyped, FailedIs DEF Reports
  <2>2. CASE /\ auth' = [auth EXCEPT !.store = op.creds]
             /\ UNCHANGED <<comms, made, alive>>
             /\ \/ /\ mgr' = Configuring([op EXCEPT !.again = TRUE], op.creds)
                   /\ UNCHANGED <<caller, hist>>
                \/ mgr' = Ended(mgr) /\ caller' = Waking /\ hist' = Rejected(hist)
    <3>1. [op EXCEPT !.again = TRUE] \in Operations /\ op.creds \in Credentials
      BY <1>1 DEF Operations
    <3>2. Configuring([op EXCEPT !.again = TRUE], op.creds) \in Manager
      BY <1>1, <3>1, ConfiguringTyped
    <3>3. Rejected(hist) \in History
      BY RejectedIs DEF Reports
    <3>4. auth' \in Authentication
      BY <2>2, <3>1
    <3> QED BY <2>2, <1>2, <3>2, <3>3, <3>4 DEF TypeOK, Manager, History
  <2> QED BY <1>6, <2>1, <2>2 DEF RetryWithoutRouting
<1> QED BY <1>4, <1>5, <1>6

LEMMA OthersTyped ==
  ASSUME TypeOK,
         \/ PairSuccess \/ PairSaved \/ Paired \/ RestartTimerFires \/ Ping \/ Pong
         \/ \E p \in Handlers : Drained(p) \/ Wiped(p)
         \/ \E i \in Ids : CommsComeUp(i) \/ CommsClose(i) \/ CommsGiveUp(i)
  PROVE  TypeOK'
<1> USE TypeOKIs DEF Authentication
<1>1. CASE PairSuccess
  <2>1. auth' \in Authentication
    BY <1>1 DEF PairSuccess, Credentials
  <2>2. hist' \in History
    BY <1>1, LifecycleAssumption DEF LifecycleAssumption, PairSuccess, History
  <2> QED BY <1>1, <2>1, <2>2 DEF PairSuccess, TypeOK, Manager, History
<1>2. CASE Paired
  <2>1. auth' \in Authentication
    BY <1>2 DEF Paired
  <2>2. mgr' \in Manager
    BY <1>2 DEF Paired, Manager
  <2>3. comms' \in [Ids -> Seen]
    <3>1. CASE mgr.comms # None /\ comms' = [comms EXCEPT ![mgr.comms] = Held(@)]
      BY <3>1, SeenStays DEF Manager
    <3> QED BY <1>2, <3>1 DEF Paired
  <2>4. hist' \in History
    <3>1. Lapsing(hist, "unconfirmed", TRUE) \in History
      BY HistoryIs DEF Reports, Lapses
    <3> QED BY <1>2, <3>1 DEF Paired
  <2> QED BY <1>2, <2>1, <2>2, <2>3, <2>4 DEF Paired, TypeOK, Manager, History
<1>3. CASE RestartTimerFires
  <2>1. mgr' \in Manager
    BY <1>3, StartPairRestartIs DEF RestartTimerFires
  <2> QED BY <1>3, <2>1 DEF RestartTimerFires, TypeOK, Manager, History
<1>4. CASE Ping \/ Pong
  BY <1>4 DEF Ping, Pong, TypeOK, Manager, History
<1>5. ASSUME NEW p \in Handlers, Drained(p) \/ Wiped(p)
      PROVE  TypeOK'
  <2>1. caller' \in [Handlers -> HandlerType]
    <3>1. /\ Idle \in HandlerType /\ [caller[p] EXCEPT !.at = "wiping"] \in HandlerType
          /\ [caller[p] EXCEPT !.at = "returned", !.clears = FALSE] \in HandlerType
      BY DEF HandlerType, Idle
    <3>2. \/ caller' = [caller EXCEPT ![p] = Idle]
          \/ caller' = [caller EXCEPT ![p] = [caller[p] EXCEPT !.at = "wiping"]]
          \/ caller' = [caller EXCEPT ![p] = [caller[p] EXCEPT !.at = "returned",
                                                             !.clears = FALSE]]
      BY <1>5 DEF Drained, Wiped
    <3> QED BY <3>1, <3>2
  <2>2. auth' \in Authentication
    <3>1. NoCredentials \in Credentials
      BY DEF NoCredentials, Credentials
    <3>2. \/ auth' = [auth EXCEPT !.mem = NoCredentials]
          \/ auth' = [auth EXCEPT !.store = NoCredentials]
          \/ auth' = auth
      BY <1>5 DEF Drained, Wiped
    <3> QED BY <3>1, <3>2
  <2>3. hist' \in History
    <3>1. (mgr.queue # <<>> \/ mgr.comms # None) \in BOOLEAN /\ "logged out" \in Lapses
      BY DEF Lapses
    <3>2. Overlaps(hist) \in History
      BY <3>1, HistoryIs DEF Overlaps, Reports
    <3>3. Fault => Failed \in History
      BY FailedIs DEF Reports
    <3> QED BY <1>5, <3>2, <3>3 DEF Drained, Wiped
  <2> QED BY <1>5, <2>1, <2>2, <2>3 DEF Drained, Wiped, TypeOK, Manager, History
<1>6. ASSUME NEW i \in Ids, CommsComeUp(i) \/ CommsClose(i)
      PROVE  TypeOK'
  <2>1. comms' \in [Ids -> Seen]
    BY <1>6, SeenStays DEF CommsComeUp, CommsClose
  <2>2. mgr' \in Manager
    <3>1. StartPairRestart(mgr) \in Manager
      BY StartPairRestartIs
    <3> QED BY <1>6, <3>1 DEF CommsComeUp, CommsClose
  <2> QED BY <1>6, <2>1, <2>2 DEF CommsComeUp, CommsClose, TypeOK, Manager, History
<1>7. ASSUME NEW i \in Ids, CommsGiveUp(i)
      PROVE  TypeOK'
  <2>1. PICK s \in {GaveUp(comms[i]), TimedOut(comms[i])} :
          /\ comms' = [comms EXCEPT ![i] = s]
          /\ hist' = Lapsing(Failed, "gave up", s.phase = "gone" /\ i = mgr.comms)
    BY <1>7 DEF CommsGiveUp
  <2>2. comms' \in [Ids -> Seen]
    BY <2>1, SeenStays
  <2>3. hist' \in History
    BY <1>7, <2>1, FailedIs, HistoryIs DEF CommsGiveUp, Reports, Lapses
  <2> QED BY <1>7, <2>2, <2>3 DEF CommsGiveUp, TypeOK, Manager, History
<1>8. CASE PairSaved
  <2>1. auth' \in Authentication
    <3>1. NoCredentials \in Credentials
      BY DEF NoCredentials, Credentials
    <3>2. \/ auth' = [auth EXCEPT !.store = auth.saving, !.saving = NoCredentials]
          \/ auth' = [auth EXCEPT !.saving = NoCredentials, !.pairing = FALSE]
      BY <1>8 DEF PairSaved
    <3> QED BY <3>1, <3>2
  <2>2. hist' \in History
    <3>1. \/ hist' = hist
          \/ Fault /\ hist' = Lapsing(Failed, "unsaved", TRUE)
      BY <1>8 DEF PairSaved
    <3>2. "unsaved" \in Lapses
      BY DEF Lapses
    <3>3. ASSUME Fault PROVE Lapsing(Failed, "unsaved", TRUE) \in History
      <4>1. Failed \in History
        BY <3>3, FailedIs DEF Reports
      <4> QED BY <3>2, <4>1, HistoryIs DEF Reports
    <3> QED BY <3>1, <3>3
  <2> QED BY <1>8, <2>1, <2>2 DEF PairSaved, TypeOK, Manager, History
<1> QED BY <1>1, <1>2, <1>3, <1>4, <1>5, <1>6, <1>7, <1>8

LEMMA NextTyped ==
  ASSUME TypeOK, [Next]_vars
  PROVE  TypeOK'
<1>1. CASE UNCHANGED vars
  BY <1>1 DEF vars, TypeOK
<1>2. CASE Next
  BY <1>2, CallsTyped, BeginsTyped, StartsTyped, RetriesTyped, OthersTyped
     DEF Next, Operate, Recovering, Server, Own
<1> QED BY <1>1, <1>2

LEMMA InitTyped == Init => TypeOK
<1> SUFFICES ASSUME Init PROVE TypeOK
  OBVIOUS
<1>1. NoCredentials \in Credentials
  BY DEF NoCredentials, Credentials
<1>2. auth \in Authentication
  BY <1>1 DEF Init, Credentials, Authentication
<1>3. mgr \in Manager
  BY DEF Init, Manager
<1>4. hist \in History
  BY LifecycleAssumption DEF LifecycleAssumption, Init, History
<1>5. comms \in [Ids -> Seen] /\ made \in [Ids -> Credentials]
  BY <1>1 DEF Init, New, Seen, Phases, Waiters
<1>6. caller \in [Handlers -> HandlerType] /\ alive \in {"off", "scheduled", "sent"}
  BY DEF Init, Idle, HandlerType
<1> QED BY <1>2, <1>3, <1>4, <1>5, <1>6, TypeOKIs

(* The lifecycle's state, its queue of operations and its history are what  *)
(* the model says they are, however many comms and calls there are.         *)
THEOREM LifecycleTyping == Spec => []TypeOK
<1>1. Init => TypeOK
  BY InitTyped
<1>2. TypeOK /\ [Next]_vars => TypeOK'
  BY NextTyped
<1> QED BY <1>1, <1>2, PTL DEF Spec

-----------------------------------------------------------------------------
(* What a step does, in the terms of the invariants below.                 *)

\* To the queue: its head moves on, its head ends, an operation is added.
Moved(at) ==
  /\ mgr.queue # <<>> /\ mgr'.queue # <<>> /\ Len(mgr'.queue) = Len(mgr.queue)
  /\ \A k \in 1..Len(mgr.queue) : k # 1 => mgr'.queue[k] = mgr.queue[k]
  /\ op'.kind = op.kind /\ op'.at = at
Ending ==
  /\ mgr.queue # <<>> /\ Len(mgr'.queue) = Len(mgr.queue) - 1
  /\ \A k \in 1..Len(mgr'.queue) : mgr'.queue[k] = mgr.queue[k + 1]
Added(kind, gen) ==
  /\ mgr'.queue # <<>> /\ Len(mgr'.queue) = Len(mgr.queue) + 1
  /\ \A k \in 1..Len(mgr.queue) : mgr'.queue[k] = mgr.queue[k]
  /\ mgr'.queue[Len(mgr'.queue)].kind = kind /\ mgr'.queue[Len(mgr'.queue)].gen = gen
  /\ mgr'.queue[Len(mgr'.queue)].at = "queued"

\* To what is reported: no lapse is taken back, and told is left alone.
Kept ==
  /\ hist'.restarts = hist.restarts /\ hist'.pairings = hist.pairings
  /\ hist.lapses \subseteq hist'.lapses
Silent == Kept /\ hist'.told = hist.told

\* The three requests.
ConnectAsked ==
  /\ Added("connect", mgr.generation + 1) /\ mgr'.generation = mgr.generation + 1
  /\ mgr'.comms = mgr.comms /\ mgr'.pending = mgr.pending /\ mgr'.timer = mgr.timer
DisconnectAsked ==
  /\ Added("disconnect", mgr.generation + 1) /\ mgr'.generation = mgr.generation + 1
  /\ mgr'.comms = mgr.comms /\ mgr'.pending = None /\ mgr'.timer = FALSE
RestartAsked ==
  /\ mgr'.generation = mgr.generation
  /\ mgr'.comms = mgr.comms /\ mgr'.pending = mgr.pending /\ mgr'.timer = FALSE
  /\ \/ mgr'.queue = mgr.queue /\ (mgr.timer => Queued("restart"))
     \/ mgr.timer /\ ~Queued("restart") /\ Added("restart", 0)

LEMMA QueueIs ==
  ASSUME NEW m \in Manager
  PROVE  /\ m.queue \in Seq(Operations) /\ Len(m.queue) \in Nat
         /\ m.queue # <<>> <=> Len(m.queue) # 0
         /\ m.queue # <<>> => Head(m.queue) = m.queue[1]
         /\ \A k \in 1..Len(m.queue) : m.queue[k] \in Operations
<1>1. m.queue \in Seq(Operations)
  BY DEF Manager
<1> QED BY <1>1

LEMMA QueuedIs ==
  ASSUME mgr \in Manager, NEW kind
  PROVE  Queued(kind) <=> \E k \in 1..Len(mgr.queue) : mgr.queue[k].kind = kind
<1>1. mgr.queue \in Seq(Operations) /\ DOMAIN mgr.queue = 1..Len(mgr.queue)
  BY DEF Manager
<1> QED BY <1>1 DEF Queued, ToSet

LEMMA AddedBy ==
  ASSUME mgr \in Manager, NEW o \in Operations, o.at = "queued", mgr' \in Manager,
         mgr'.queue = Append(mgr.queue, o)
  PROVE  Added(o.kind, o.gen)
BY QueueIs, AppendIs DEF Added

LEMMA MovedBy ==
  ASSUME mgr \in Manager, mgr.queue # <<>>, NEW o \in Operations, o.kind = op.kind,
         mgr' \in Manager, mgr'.queue = [mgr.queue EXCEPT ![1] = o]
  PROVE  Moved(o.at) /\ op' = o
<1>1. mgr'.queue # <<>> /\ Len(mgr'.queue) = Len(mgr.queue) /\ Len(mgr.queue) \in Nat \ {0}
      /\ \A k \in 1..Len(mgr.queue) : mgr'.queue[k] = IF k = 1 THEN o ELSE mgr.queue[k]
  BY QueueIs, PutIs, OpIs
<1>2. op' = mgr'.queue[1]
  BY <1>1, QueueIs DEF op
<1> QED BY <1>1, <1>2 DEF Moved

LEMMA EndingBy ==
  ASSUME mgr \in Manager, mgr.queue # <<>>, mgr' \in Manager, mgr'.queue = Tail(mgr.queue)
  PROVE  Ending
BY QueueIs, TailIs DEF Ending

LEMMA RestartAskedBy ==
  ASSUME mgr \in Manager, mgr' = StartPairRestart(mgr)
  PROVE  RestartAsked
<1>1. mgr' \in Manager
  BY StartPairRestartIs
<1>2. mgr.timer /\ ~Queued("restart") => Added("restart", 0)
  <2> DEFINE o == Operation("restart", 0, "user")
  <2>1. o \in Operations /\ o.kind = "restart" /\ o.gen = 0 /\ o.at = "queued"
    BY OperationTyped DEF Operation
  <2>2. mgr.timer /\ ~Queued("restart") => mgr'.queue = Append(mgr.queue, o)
    BY StartPairRestartIs
  <2> HIDE DEF o
  <2> QED BY <1>1, <2>1, <2>2, AddedBy
<1> QED BY <1>1, <1>2, StartPairRestartIs DEF RestartAsked

LEMMA DisconnectAskedBy ==
  ASSUME mgr \in Manager, NEW by \in Handlers \cup {"user"}, mgr' = Disconnected(mgr, by)
  PROVE  DisconnectAsked
<1> DEFINE o == Operation("disconnect", mgr.generation + 1, by)
<1>1. o.kind = "disconnect" /\ o.gen = mgr.generation + 1 /\ o.at = "queued"
  BY DEF Operation
<1>2. o \in Operations /\ mgr'.queue = Append(mgr.queue, o) /\ mgr' \in Manager
      /\ mgr'.comms = mgr.comms /\ mgr'.pending = None /\ mgr'.timer = FALSE
      /\ mgr'.generation = mgr.generation + 1
  BY DisconnectedIs
<1> HIDE DEF o
<1> QED BY <1>1, <1>2, AddedBy DEF DisconnectAsked

LEMMA ConnectAskedBy ==
  ASSUME mgr \in Manager, ~Queued("connect"), mgr' = Connecting(mgr)
  PROVE  ConnectAsked
<1> DEFINE o == Operation("connect", mgr.generation + 1, "user")
<1>1. o.kind = "connect" /\ o.gen = mgr.generation + 1 /\ o.at = "queued"
  BY DEF Operation
<1>2. o \in Operations /\ mgr'.queue = Append(mgr.queue, o) /\ mgr' \in Manager
      /\ mgr'.comms = mgr.comms /\ mgr'.pending = mgr.pending /\ mgr'.timer = mgr.timer
      /\ mgr'.generation = mgr.generation + 1
  BY ConnectingIs
<1> HIDE DEF o
<1> QED BY <1>1, <1>2, AddedBy DEF ConnectAsked

\* What the operation at the head of the queue does: it moves on, it ends, it
\* is rejected, its comms are given up.
SameFields ==
  /\ mgr'.comms = mgr.comms /\ mgr'.pending = mgr.pending /\ mgr'.timer = mgr.timer
  /\ mgr'.generation = mgr.generation
SameLogin == auth'.mem = auth.mem /\ auth'.pairing = auth.pairing
MovesOn(at) == Moved(at) /\ op'.gen = op.gen /\ op'.comms = op.comms /\ SameFields
Told(what) == Ending /\ Kept /\ hist'.told = what
HeadRejected ==
  /\ Ending /\ SameFields /\ Kept /\ UNCHANGED <<comms, made, alive>>
  /\ op.kind = "connect" => hist'.told = "failed"
  /\ op.kind # "connect" => /\ hist'.told = hist.told
                            /\ Current(op) => "restart failed" \in hist'.lapses
HeadFailed ==
  /\ Moved("failing") /\ op'.gen = op.gen
  /\ mgr'.comms = IF mgr.comms \in {None, op.comms} THEN None ELSE mgr.comms
  /\ mgr'.pending = IF mgr.pending = op.comms THEN None ELSE mgr.pending
  /\ mgr'.timer = mgr.timer /\ mgr'.generation = mgr.generation
  /\ comms' = Stop({op.comms}) /\ Silent /\ SameLogin /\ UNCHANGED <<made, alive>>

\* A history that differs in what is counted and in new lapses only.
Grown(h) ==
  /\ h \in History /\ hist.lapses \subseteq h.lapses /\ h.told = hist.told
  /\ h.restarts = hist.restarts /\ h.pairings = hist.pairings

LEMMA GrownHistories ==
  ASSUME TypeOK
  PROVE  Grown(hist) /\ (Fault => Grown(Failed))
BY TypeOKIs, FailedIs DEF Grown, Reports

LEMMA EndedBy ==
  ASSUME TypeOK, mgr.queue # <<>>, mgr' = Ended(mgr)
  PROVE  Ending /\ SameFields
BY TypeOKIs, EndedIs, EndingBy DEF SameButQueue, SameFields

LEMMA RejectsDoes ==
  ASSUME TypeOK, mgr.queue # <<>>, NEW h, Grown(h),
         mgr' = Ended(mgr), hist' = Rejected(h), UNCHANGED <<comms, made, alive>>
  PROVE  HeadRejected
BY EndedBy, RejectedIs DEF HeadRejected, Grown, Kept, Reports

LEMMA StartFailsDoes ==
  ASSUME TypeOK, mgr.queue # <<>>, NEW h, Grown(h), StartFails(mgr, h)
  PROVE  HeadFailed
<1> DEFINE n == Unbound(IF mgr.pending = op.comms THEN [mgr EXCEPT !.pending = None] ELSE mgr,
                        op.comms)
           o == [op EXCEPT !.at = "failing"]
<1>1. /\ n \in Manager /\ n.queue = mgr.queue
      /\ n.comms = IF mgr.comms \in {None, op.comms} THEN None ELSE mgr.comms
      /\ n.pending = IF mgr.pending = op.comms THEN None ELSE mgr.pending
      /\ n.timer = mgr.timer /\ n.generation = mgr.generation
  BY TypeOKIs, UnboundIs
<1>2. o \in Operations /\ o.kind = op.kind /\ o.gen = op.gen /\ o.at = "failing"
  BY TypeOKIs, OpIs DEF Operations
<1>3. mgr' = Putting(n, o) /\ comms' = Stop({op.comms}) /\ hist' = h
      /\ UNCHANGED <<made, caller, auth, alive>>
  BY DEF StartFails
<1> HIDE DEF n, o
<1>4. /\ mgr' \in Manager /\ SameButQueue(n, mgr')
      /\ mgr'.queue = [mgr.queue EXCEPT ![1] = o]
  BY <1>1, <1>2, <1>3, PuttingIs
<1>5. Moved("failing") /\ op' = o
  BY <1>2, <1>4, TypeOKIs, MovedBy
<1> QED BY <1>1, <1>2, <1>3, <1>4, <1>5
        DEF HeadFailed, SameButQueue, Silent, Kept, Grown, SameLogin

LEMMA PuttingDoes ==
  ASSUME TypeOK, mgr.queue # <<>>, NEW o \in Operations, o.kind = op.kind,
         NEW m \in Manager, m.queue = mgr.queue, mgr' = Putting(m, o)
  PROVE  /\ Moved(o.at) /\ op' = o
         /\ mgr'.comms = m.comms /\ mgr'.pending = m.pending /\ mgr'.timer = m.timer
         /\ mgr'.generation = m.generation
BY ZenonT(40), TypeOKIs, PuttingIs, MovedBy DEF SameButQueue

LEMMA BeginConnectDoes ==
  ASSUME TypeOK, BeginConnect
  PROVE  /\ mgr.queue # <<>> /\ op.kind = "connect" /\ op.at = "queued"
         /\ UNCHANGED <<comms, made, auth, alive>>
         /\ \/ ~Current(op) /\ HeadRejected
            \/ /\ mgr.comms # None \/ mgr.pending # None
               /\ Told("open") /\ SameFields
            \/ /\ Current(op) /\ mgr.comms = None /\ mgr.pending = None
               /\ MovesOn("loading") /\ Silent
<1>1. mgr.queue # <<>> /\ op.kind = "connect" /\ op.at = "queued" /\ op \in Operations
  BY TypeOKIs, OpIs DEF BeginConnect, Running
<1>2. UNCHANGED <<comms, made, auth, alive>>
  BY DEF BeginConnect, Rejects
<1>3. CASE ~Current(op) /\ Rejects(hist)
  BY <1>1, <1>3, GrownHistories, RejectsDoes DEF Rejects
<1>4. CASE /\ mgr.comms # None \/ mgr.pending # None
           /\ mgr' = Ended(mgr) /\ hist' = Telling(hist, "open")
  <2>1. Kept /\ hist'.told = "open"
    BY <1>4, TypeOKIs, HistoryIs DEF Kept, Reports
  <2> QED BY <1>1, <1>2, <1>4, <2>1, EndedBy DEF Told
<1>5. CASE /\ Current(op) /\ mgr.comms = None /\ mgr.pending = None
           /\ mgr' = Putting(mgr, [op EXCEPT !.at = "loading", !.creds = auth.store])
           /\ UNCHANGED hist
  <2> DEFINE o == [op EXCEPT !.at = "loading", !.creds = auth.store]
  <2>1. o \in Operations /\ o.kind = op.kind /\ o.at = "loading" /\ o.gen = op.gen
        /\ o.comms = op.comms
    BY <1>1, TypeOKIs DEF Operations, Authentication
  <2> HIDE DEF o
  <2>2. mgr' = Putting(mgr, o)
    BY <1>5 DEF o
  <2>3. MovesOn("loading")
    BY <1>1, <2>1, <2>2, TypeOKIs, PuttingDoes DEF MovesOn, SameFields
  <2>4. Silent
    BY <1>5 DEF Silent, Kept
  <2> QED BY <1>1, <1>2, <1>5, <2>3, <2>4
<1> QED BY <1>3, <1>4, <1>5 DEF BeginConnect

LEMMA BeginDisconnectDoes ==
  ASSUME TypeOK, BeginDisconnect
  PROVE  /\ mgr.queue # <<>> /\ op.kind = "disconnect" /\ op.at = "queued"
         /\ UNCHANGED <<made, auth>>
         /\ \/ /\ Current(op) /\ Moved("closing") /\ op'.gen = op.gen
               /\ mgr'.comms = None /\ mgr'.pending = None /\ mgr'.timer = FALSE
               /\ mgr'.generation = mgr.generation
               /\ comms' = Stop({mgr.comms, mgr.pending}) /\ alive' = "off" /\ Silent
            \/ /\ ~Current(op) /\ Told("closed") /\ SameFields
               /\ UNCHANGED <<comms, alive>>
<1>1. mgr.queue # <<>> /\ op.kind = "disconnect" /\ op.at = "queued" /\ op \in Operations
      /\ UNCHANGED <<made, auth>>
  BY TypeOKIs, OpIs DEF BeginDisconnect, Running
<1>2. CASE /\ Current(op) /\ mgr' = Putting(Disconnecting(mgr), [op EXCEPT !.at = "closing"])
           /\ comms' = Stop({mgr.comms, mgr.pending}) /\ alive' = "off" /\ UNCHANGED hist
  <2> DEFINE o == [op EXCEPT !.at = "closing"]
             n == Disconnecting(mgr)
  <2>1. o \in Operations /\ o.kind = op.kind /\ o.at = "closing" /\ o.gen = op.gen
    BY <1>1 DEF Operations
  <2>2. n \in Manager /\ n.comms = None /\ n.pending = None /\ n.timer = FALSE
        /\ n.generation = mgr.generation /\ n.queue = mgr.queue
    BY TypeOKIs, DisconnectingIs
  <2>3. mgr' = Putting(n, o)
    BY <1>2
  <2> HIDE DEF o, n
  <2>4. Silent
    BY <1>2 DEF Silent, Kept
  <2> QED BY <1>1, <1>2, <2>1, <2>2, <2>3, <2>4, PuttingDoes
<1>3. CASE /\ ~Current(op) /\ mgr' = Ended(mgr) /\ hist' = Telling(hist, "closed")
           /\ UNCHANGED <<comms, alive>>
  <2>1. Kept /\ hist'.told = "closed"
    BY <1>3, TypeOKIs, HistoryIs DEF Kept, Reports
  <2> QED BY <1>1, <1>3, <2>1, EndedBy DEF Told
<1> QED BY <1>2, <1>3 DEF BeginDisconnect

LEMMA BeginRestartDoes ==
  ASSUME TypeOK, BeginRestart
  PROVE  /\ mgr.queue # <<>> /\ op.kind = "restart" /\ op.at = "queued"
         /\ UNCHANGED <<made, auth>>
         /\ \/ /\ mgr.comms # None /\ Moved("closing")
               /\ op'.gen = mgr.generation + 1 /\ op'.creds = auth.mem
               /\ mgr'.comms = None /\ mgr'.pending = mgr.pending
               /\ mgr'.timer = mgr.timer /\ mgr'.generation = mgr.generation + 1
               /\ comms' = Stop({mgr.comms}) /\ alive' = "off"
               /\ hist'.restarts = hist.restarts + 1 /\ hist'.pairings = hist.pairings
               /\ hist'.told = hist.told /\ hist'.lapses = hist.lapses
            \/ /\ ~auth.mem.registered \/ mgr.comms = None \/ "no handler" \in hist'.lapses
               /\ Ending /\ SameFields /\ Silent /\ UNCHANGED <<comms, alive>>
<1>1. mgr.queue # <<>> /\ op.kind = "restart" /\ op.at = "queued" /\ op \in Operations
      /\ UNCHANGED <<made, auth>>
  BY TypeOKIs, OpIs DEF BeginRestart, Running
<1> DEFINE gen == mgr.generation + 1
           m == [mgr EXCEPT !.generation = gen, !.comms = None]
           o == [op EXCEPT !.at = "closing", !.gen = gen, !.creds = auth.mem]
<1>2. CASE /\ mgr.comms # None /\ mgr' = Putting(m, o)
           /\ comms' = Stop({mgr.comms}) /\ alive' = "off"
           /\ hist' = [hist EXCEPT !.restarts = @ + 1]
  <2>1. gen \in Nat /\ mgr \in Manager /\ auth.mem \in Credentials
    BY TypeOKIs DEF Manager, Authentication
  <2>2. m \in Manager /\ m.comms = None /\ m.pending = mgr.pending
        /\ m.timer = mgr.timer /\ m.generation = gen /\ m.queue = mgr.queue
    BY <2>1 DEF Manager
  <2>3. o \in Operations /\ o.kind = op.kind /\ o.at = "closing" /\ o.gen = gen
        /\ o.creds = auth.mem
    BY <1>1, <2>1 DEF Operations
  <2>4. hist'.restarts = hist.restarts + 1 /\ hist'.pairings = hist.pairings
        /\ hist'.told = hist.told /\ hist'.lapses = hist.lapses
    BY <1>2, TypeOKIs DEF History
  <2>5. mgr' = Putting(m, o)
    BY <1>2
  <2> HIDE DEF m, o
  <2>6. /\ Moved(o.at) /\ op' = o
        /\ mgr'.comms = m.comms /\ mgr'.pending = m.pending /\ mgr'.timer = m.timer
        /\ mgr'.generation = m.generation
    BY <1>1, <2>2, <2>3, <2>5, PuttingDoes
  <2> QED BY <1>1, <1>2, <2>2, <2>3, <2>4, <2>6
<1>3. CASE /\ ~(mgr.handler /\ auth.mem.registered /\ mgr.comms # None)
           /\ mgr' = Ended(mgr) /\ hist' = Lapsing(hist, "no handler", ~mgr.handler)
           /\ UNCHANGED <<comms, alive>>
  <2>1. CASE mgr.handler
    BY <1>1, <1>3, <2>1, EndedBy DEF Lapsing, Silent, Kept
  <2>2. CASE ~mgr.handler
    <3>1. Silent /\ "no handler" \in hist'.lapses
      BY <1>3, <2>2, TypeOKIs DEF Lapsing, History, Silent, Kept
    <3> QED BY <1>1, <1>3, <3>1, EndedBy
  <2> QED BY <2>1, <2>2
<1> QED BY <1>2, <1>3 DEF BeginRestart

LEMMA DisconnectEndsDoes ==
  ASSUME TypeOK, DisconnectEnds
  PROVE  /\ mgr.queue # <<>> /\ op.kind = "disconnect" /\ op.at = "closing"
         /\ Told("closed") /\ SameFields /\ UNCHANGED <<comms, made, auth, alive>>
<1>1. Kept /\ hist'.told = "closed"
  BY TypeOKIs, HistoryIs DEF DisconnectEnds, Kept, Reports
<1> QED BY <1>1, EndedBy DEF DisconnectEnds, Running, Told

\* An operation goes on to configure its comms.
LEMMA ConfiguringDoes ==
  ASSUME TypeOK, mgr.queue # <<>>, NEW creds \in Credentials,
         NEW o \in Operations, o.kind = op.kind, o.gen = op.gen, o.comms = op.comms,
         mgr' = Configuring(o, creds)
  PROVE  MovesOn("configuring") /\ op'.creds = creds
<1> DEFINE c == [o EXCEPT !.at = "configuring", !.creds = creds]
<1>1. c \in Operations /\ c.kind = op.kind /\ c.gen = op.gen /\ c.at = "configuring"
      /\ c.comms = op.comms /\ c.creds = creds
  BY DEF Operations
<1>2. mgr' = Putting(mgr, c)
  BY DEF Configuring
<1> HIDE DEF c
<1> QED BY <1>1, <1>2, TypeOKIs, PuttingDoes DEF MovesOn, SameFields

LEMMA RestartClosedDoes ==
  ASSUME TypeOK, RestartClosed
  PROVE  /\ mgr.queue # <<>> /\ op.kind = "restart" /\ op.at = "closing"
         /\ UNCHANGED <<comms, made, auth, alive>>
         /\ \/ MovesOn("configuring") /\ op'.creds = op.creds /\ Silent /\ Current(op)
            \/ HeadRejected
<1>1. mgr.queue # <<>> /\ op.kind = "restart" /\ op.at = "closing" /\ op \in Operations
  BY TypeOKIs, OpIs DEF RestartClosed, Running
<1>2. UNCHANGED <<comms, made, auth, alive>>
  BY DEF RestartClosed, Rejects
<1>3. CASE Rejects(hist)
  BY <1>1, <1>2, <1>3, GrownHistories, RejectsDoes DEF Rejects
<1>4. CASE mgr' = Configuring(op, op.creds) /\ UNCHANGED hist /\ Current(op)
  <2>1. op.creds \in Credentials
    BY <1>1 DEF Operations
  <2> QED BY <1>1, <1>2, <1>4, <2>1, ConfiguringDoes DEF Silent, Kept
<1> QED BY <1>3, <1>4 DEF RestartClosed

LEMMA LoadCredentialsDoes ==
  ASSUME TypeOK, LoadCredentials
  PROVE  /\ mgr.queue # <<>> /\ op.kind = "connect" /\ op.at = "loading"
         /\ UNCHANGED <<comms, made, alive>> /\ auth'.pairing = auth.pairing
         /\ \/ MovesOn("configuring") /\ op'.creds = auth'.mem /\ Silent /\ Current(op)
            \/ HeadRejected
<1>1. mgr.queue # <<>> /\ op.kind = "connect" /\ op.at = "loading" /\ op \in Operations
  BY TypeOKIs, OpIs DEF LoadCredentials, Running
<1>2. UNCHANGED <<comms, made, alive>>
  BY DEF LoadCredentials, Rejects
<1>3. CASE Fault /\ Rejects(Failed)
  BY <1>1, <1>2, <1>3, GrownHistories, RejectsDoes DEF Rejects
<1>4. ASSUME NEW found \in {op.creds, auth.store},
             LET fresh == found = NoCredentials
                 creds == IF fresh THEN [found EXCEPT !.epoch = hist.epochs + 1] ELSE found
                 h == IF fresh THEN [hist EXCEPT !.epochs = @ + 1] ELSE hist
             IN /\ auth' = [auth EXCEPT !.mem = creds, !.store = IF fresh THEN creds ELSE @]
                /\ IF Current(op)
                   THEN mgr' = Configuring(op, creds) /\ hist' = h /\ UNCHANGED caller
                   ELSE mgr' = Ended(mgr) /\ caller' = Waking /\ hist' = Rejected(h)
      PROVE  /\ auth'.pairing = auth.pairing
             /\ \/ MovesOn("configuring") /\ op'.creds = auth'.mem /\ Silent /\ Current(op)
                \/ HeadRejected
  <2> DEFINE fresh == found = NoCredentials
             creds == IF fresh THEN [found EXCEPT !.epoch = hist.epochs + 1] ELSE found
             h == IF fresh THEN [hist EXCEPT !.epochs = @ + 1] ELSE hist
  <2>1. found \in Credentials
    BY <1>1, TypeOKIs DEF Operations, Authentication
  <2>2. creds \in Credentials
    BY <2>1, TypeOKIs DEF Credentials, History
  <2>3. Grown(h)
    BY TypeOKIs DEF Grown, History
  <2>4. auth'.mem = creds /\ auth'.pairing = auth.pairing
    BY <1>4, TypeOKIs DEF Authentication
  <2>5. \/ Current(op) /\ mgr' = Configuring(op, creds) /\ hist' = h
        \/ mgr' = Ended(mgr) /\ hist' = Rejected(h)
    BY <1>4
  <2> HIDE DEF creds, h
  <2>6. CASE Current(op) /\ mgr' = Configuring(op, creds) /\ hist' = h
    BY <1>1, <2>2, <2>3, <2>4, <2>6, ConfiguringDoes DEF Silent, Kept, Grown
  <2>7. CASE mgr' = Ended(mgr) /\ hist' = Rejected(h)
    BY <1>1, <1>2, <2>3, <2>4, <2>7, RejectsDoes
  <2> QED BY <2>5, <2>6, <2>7
<1> QED BY <1>1, <1>2, <1>3, <1>4 DEF LoadCredentials, Rejects

LEMMA CreateCommsDoes ==
  ASSUME TypeOK, CreateComms
  PROVE  /\ mgr.queue # <<>> /\ op.at = "configuring"
         /\ Silent /\ UNCHANGED <<auth, alive>>
         /\ \E i \in Ids :
              /\ comms[i].phase = "new" /\ comms' = [comms EXCEPT ![i] = Started(@)]
              /\ made' = [made EXCEPT ![i] = op.creds]
              /\ Moved("waiting") /\ op'.gen = op.gen /\ op'.creds = op.creds /\ op'.comms = i
              /\ mgr'.comms = mgr.comms /\ mgr'.pending = i /\ mgr'.timer = mgr.timer
              /\ mgr'.generation = mgr.generation
<1>1. mgr.queue # <<>> /\ op.at = "configuring" /\ op \in Operations
      /\ Silent /\ UNCHANGED <<auth, alive>>
  BY TypeOKIs, OpIs DEF CreateComms, Running, Silent, Kept
<1>2. PICK i \in Ids : /\ comms[i].phase = "new"
                       /\ comms' = [comms EXCEPT ![i] = Started(@)]
                       /\ made' = [made EXCEPT ![i] = op.creds]
                       /\ mgr' = Putting([mgr EXCEPT !.pending = i],
                                         [op EXCEPT !.at = "waiting", !.comms = i])
  BY DEF CreateComms
<1> DEFINE m == [mgr EXCEPT !.pending = i]
           o == [op EXCEPT !.at = "waiting", !.comms = i]
<1>3. m \in Manager /\ m.comms = mgr.comms /\ m.pending = i /\ m.timer = mgr.timer
      /\ m.generation = mgr.generation /\ m.queue = mgr.queue
  BY TypeOKIs DEF Manager
<1>4. o \in Operations /\ o.kind = op.kind /\ o.at = "waiting" /\ o.gen = op.gen
      /\ o.creds = op.creds /\ o.comms = i
  BY <1>1 DEF Operations
<1>5. mgr' = Putting(m, o)
  BY <1>2
<1> HIDE DEF m, o
<1>6. /\ Moved(o.at) /\ op' = o
      /\ mgr'.comms = m.comms /\ mgr'.pending = m.pending /\ mgr'.timer = m.timer
      /\ mgr'.generation = m.generation
  BY <1>1, <1>3, <1>4, <1>5, PuttingDoes
<1> QED BY <1>1, <1>2, <1>3, <1>4, <1>6

LEMMA AdoptCommsDoes ==
  ASSUME TypeOK, AdoptComms
  PROVE  /\ mgr.queue # <<>> /\ op.at = "waiting"
         /\ \/ HeadFailed
            \/ /\ comms[op.comms].waiter = "resolved" /\ Current(op)
               /\ mgr.pending = op.comms
               /\ mgr'.comms = op.comms /\ mgr'.pending = None
               /\ mgr'.timer = mgr.timer /\ mgr'.generation = mgr.generation
               /\ UNCHANGED <<comms, made, auth>>
               /\ \/ /\ op.creds.registered /\ alive' = "scheduled"
                     /\ Moved("persisting") /\ Silent
                     /\ op'.gen = op.gen /\ op'.creds = op.creds /\ op'.comms = op.comms
                  \/ ~op.creds.registered /\ alive' = "off" /\ Told("open")
<1>1. mgr.queue # <<>> /\ op.at = "waiting" /\ op \in Operations
  BY TypeOKIs, OpIs DEF AdoptComms, Running
<1> DEFINE m == [mgr EXCEPT !.comms = op.comms, !.pending = None]
           o == [op EXCEPT !.at = "persisting"]
<1>2. /\ m \in Manager /\ m.comms = op.comms /\ m.pending = None /\ m.timer = mgr.timer
      /\ m.generation = mgr.generation /\ m.queue = mgr.queue
  BY <1>1, TypeOKIs DEF Manager, Operations
<1>3. o \in Operations /\ o.kind = op.kind /\ o.at = "persisting" /\ o.gen = op.gen
      /\ o.creds = op.creds /\ o.comms = op.comms
  BY <1>1 DEF Operations
<1> HIDE DEF m, o
<1>4. CASE StartFails(mgr, hist)
  BY <1>1, <1>4, GrownHistories, StartFailsDoes
<1>5. CASE mgr' = Putting(m, o) /\ UNCHANGED hist
  <2>1. /\ Moved(o.at) /\ op' = o
        /\ mgr'.comms = m.comms /\ mgr'.pending = m.pending /\ mgr'.timer = m.timer
        /\ mgr'.generation = m.generation
    BY <1>1, <1>2, <1>3, <1>5, PuttingDoes
  <2>2. /\ Moved("persisting") /\ Silent
        /\ op'.gen = op.gen /\ op'.creds = op.creds /\ op'.comms = op.comms
        /\ mgr'.comms = op.comms /\ mgr'.pending = None /\ mgr'.timer = mgr.timer
        /\ mgr'.generation = mgr.generation
    BY <1>2, <1>3, <1>5, <2>1 DEF Silent, Kept
  <2>3. \/ StartFails(mgr, hist)
        \/ /\ comms[op.comms].waiter = "resolved" /\ Current(op) /\ mgr.pending = op.comms
           /\ UNCHANGED <<comms, made, auth>>
           /\ \/ op.creds.registered /\ alive' = "scheduled"
              \/ ~op.creds.registered /\ Succeeds(m)
    BY DEF AdoptComms, m
  <2>4. Succeeds(m) => Len(mgr'.queue) = Len(mgr.queue) - 1
    BY <1>1, <1>2, EndedIs, QueueIs, TailIs DEF Succeeds
  <2>5. Len(mgr'.queue) = Len(mgr.queue) /\ Len(mgr.queue) \in Nat
    BY <2>2, TypeOKIs, QueueIs DEF Moved
  <2> QED BY <1>1, <1>4, <2>2, <2>3, <2>4, <2>5
<1>6. CASE Succeeds(m)
  <2>1. Ended(m) \in Manager /\ SameButQueue(m, mgr') /\ mgr' = Ended(m)
        /\ mgr'.queue = Tail(mgr.queue)
    BY <1>1, <1>2, <1>6, EndedIs DEF Succeeds
  <2>2. Ending
    BY <1>1, <2>1, TypeOKIs, EndingBy
  <2>3. Kept /\ hist'.told = "open"
    BY <1>6, TypeOKIs, HistoryIs DEF Succeeds, Kept, Reports
  <2>4. Told("open") /\ mgr'.comms = op.comms /\ mgr'.pending = None
        /\ mgr'.timer = mgr.timer /\ mgr'.generation = mgr.generation
    BY <1>2, <2>1, <2>2, <2>3 DEF Told, SameButQueue
  <2>5. \/ StartFails(mgr, hist)
        \/ /\ comms[op.comms].waiter = "resolved" /\ Current(op) /\ mgr.pending = op.comms
           /\ UNCHANGED <<comms, made, auth>>
           /\ \/ mgr' = Putting(m, o)
              \/ ~op.creds.registered /\ alive' = "off"
    BY DEF AdoptComms, m, o
  <2>6. mgr' = Putting(m, o) => Len(mgr'.queue) = Len(mgr.queue)
    <3>1. Putting(m, o).queue = [mgr.queue EXCEPT ![1] = o]
      BY <1>1, <1>2, <1>3, PuttingIs
    <3>2. mgr.queue \in Seq(Operations)
      BY TypeOKIs, QueueIs
    <3> QED BY <1>1, <1>3, <3>1, <3>2, PutIs
  <2>7. Len(mgr'.queue) = Len(mgr.queue) - 1 /\ Len(mgr.queue) \in Nat
    BY <2>2, TypeOKIs, QueueIs DEF Ending
  <2> QED BY <1>1, <1>4, <2>4, <2>5, <2>6, <2>7
<1> QED BY <1>4, <1>5, <1>6 DEF AdoptComms, m, o

LEMMA PersistServerKeyDoes ==
  ASSUME TypeOK, PersistServerKey
  PROVE  /\ mgr.queue # <<>> /\ op.at = "persisting"
         /\ \/ HeadFailed
            \/ /\ Current(op) /\ Told("open") /\ SameFields /\ SameLogin
               /\ UNCHANGED <<comms, made, alive>>
<1>1. mgr.queue # <<>> /\ op.at = "persisting"
  BY DEF PersistServerKey, Running
<1>2. CASE StartFails(mgr, hist) \/ (Fault /\ StartFails(mgr, Failed))
  BY <1>1, <1>2, GrownHistories, StartFailsDoes
<1>3. CASE /\ Current(op) /\ Succeeds(mgr) /\ auth' = [auth EXCEPT !.store = op.creds]
           /\ UNCHANGED <<comms, made, alive>>
  <2>1. Kept /\ hist'.told = "open" /\ mgr' = Ended(mgr)
    BY <1>3, TypeOKIs, HistoryIs DEF Succeeds, Kept, Reports
  <2>2. SameLogin
    BY <1>3, TypeOKIs DEF Authentication, SameLogin
  <2> QED BY <1>1, <1>3, <2>1, <2>2, EndedBy DEF Told
<1> QED BY <1>2, <1>3 DEF PersistServerKey

LEMMA RecoversDoes ==
  ASSUME TypeOK, Recovering
  PROVE  /\ mgr.queue # <<>> /\ op.at \in {"failing", "configuring"} /\ UNCHANGED <<made, auth>>
         /\ \/ HeadRejected
            \/ /\ Moved("cleaning") /\ op'.gen = op.gen /\ op.kind # "restart"
               /\ mgr'.comms = None /\ mgr'.pending = None /\ mgr'.timer = FALSE
               /\ mgr'.generation = mgr.generation
               /\ comms' = Stop({mgr.comms, mgr.pending}) /\ alive' = "off" /\ Silent
<1>1. mgr.queue # <<>> /\ op.at \in {"failing", "configuring"} /\ op \in Operations
  BY TypeOKIs, OpIs DEF Recovering, StartFailed, ConfigFails, Running
<1>2. PICK h \in History : Grown(h) /\ Recovers(h)
  BY GrownHistories DEF Recovering, StartFailed, ConfigFails, Grown
<1>3. CASE Rejects(h)
  BY <1>1, <1>2, <1>3, RejectsDoes DEF Rejects
<1>4. CASE /\ mgr' = Putting(Disconnecting(mgr), [op EXCEPT !.at = "cleaning"])
           /\ op.kind # "restart" /\ comms' = Stop({mgr.comms, mgr.pending}) /\ alive' = "off"
           /\ hist' = h /\ UNCHANGED <<made, caller, auth>>
  <2> DEFINE o == [op EXCEPT !.at = "cleaning"]
             n == Disconnecting(mgr)
  <2>1. o \in Operations /\ o.kind = op.kind /\ o.at = "cleaning" /\ o.gen = op.gen
    BY <1>1 DEF Operations
  <2>2. n \in Manager /\ n.comms = None /\ n.pending = None /\ n.timer = FALSE
        /\ n.generation = mgr.generation /\ n.queue = mgr.queue
    BY TypeOKIs, DisconnectingIs
  <2>3. mgr' = Putting(n, o)
    BY <1>4
  <2> HIDE DEF o, n
  <2>4. Silent
    BY <1>2, <1>4 DEF Silent, Kept, Grown
  <2> QED BY <1>1, <1>4, <2>1, <2>2, <2>3, <2>4, PuttingDoes
<1> QED BY <1>2, <1>3, <1>4 DEF Recovers

LEMMA ClearRoutingInfoDoes ==
  ASSUME TypeOK, ClearRoutingInfo
  PROVE  /\ mgr.queue # <<>> /\ op.kind = "connect" /\ op.at = "cleaning"
         /\ UNCHANGED <<comms, made, alive>>
         /\ \/ HeadRejected /\ UNCHANGED auth
            \/ /\ MovesOn("unrouting") /\ op'.creds = auth'.mem /\ Silent
               /\ auth'.mem.epoch = auth.mem.epoch /\ auth'.pairing = auth.pairing
               /\ auth'.mem.registered = auth.mem.registered
<1>1. mgr.queue # <<>> /\ op.kind = "connect" /\ op.at = "cleaning" /\ op \in Operations
      /\ UNCHANGED <<comms, made, alive>>
  BY TypeOKIs, OpIs DEF ClearRoutingInfo, Running, Rejects
<1>2. CASE Rejects(hist)
  BY <1>1, <1>2, GrownHistories, RejectsDoes DEF Rejects
<1> DEFINE creds == [auth.mem EXCEPT !.routing = FALSE]
           o == [op EXCEPT !.at = "unrouting", !.creds = creds]
<1>3. CASE mgr' = Putting(mgr, o) /\ auth' = [auth EXCEPT !.mem = creds] /\ UNCHANGED hist
  <2>1. creds \in Credentials /\ creds.epoch = auth.mem.epoch
        /\ creds.registered = auth.mem.registered
    BY TypeOKIs DEF Authentication, Credentials
  <2>2. auth'.mem = creds /\ auth'.pairing = auth.pairing
    BY <1>3, TypeOKIs DEF Authentication
  <2>3. mgr' = Putting(mgr, o)
    BY <1>3
  <2> HIDE DEF creds
  <2>4. o \in Operations /\ o.kind = op.kind /\ o.at = "unrouting" /\ o.gen = op.gen
        /\ o.comms = op.comms /\ o.creds = creds
    BY <1>1, <2>1 DEF Operations
  <2> HIDE DEF o
  <2>5. MovesOn("unrouting") /\ op'.creds = creds
    BY <1>1, <2>3, <2>4, TypeOKIs, PuttingDoes DEF MovesOn, SameFields
  <2> QED BY <1>1, <1>3, <2>1, <2>2, <2>5 DEF Silent, Kept
<1> QED BY <1>2, <1>3 DEF ClearRoutingInfo

LEMMA RetryWithoutRoutingDoes ==
  ASSUME TypeOK, RetryWithoutRouting
  PROVE  /\ mgr.queue # <<>> /\ op.kind = "connect" /\ op.at = "unrouting"
         /\ UNCHANGED <<comms, made, alive>> /\ SameLogin
         /\ \/ HeadRejected
            \/ MovesOn("configuring") /\ op'.creds = op.creds /\ Silent
<1>1. mgr.queue # <<>> /\ op.kind = "connect" /\ op.at = "unrouting" /\ op \in Operations
      /\ UNCHANGED <<comms, made, alive>>
  BY TypeOKIs, OpIs DEF RetryWithoutRouting, Running, Rejects
<1>2. CASE Fault /\ Rejects(Failed)
  BY <1>1, <1>2, GrownHistories, RejectsDoes DEF Rejects, SameLogin
<1>3. CASE /\ auth' = [auth EXCEPT !.store = op.creds]
           /\ \/ mgr' = Configuring([op EXCEPT !.again = TRUE], op.creds) /\ UNCHANGED hist
              \/ mgr' = Ended(mgr) /\ hist' = Rejected(hist)
  <2>1. SameLogin
    BY <1>3, TypeOKIs DEF Authentication, SameLogin
  <2>2. CASE mgr' = Ended(mgr) /\ hist' = Rejected(hist)
    BY <1>1, <2>1, <2>2, GrownHistories, RejectsDoes
  <2>3. CASE mgr' = Configuring([op EXCEPT !.again = TRUE], op.creds) /\ UNCHANGED hist
    <3> DEFINE o == [op EXCEPT !.again = TRUE]
    <3>1. o \in Operations /\ o.kind = op.kind /\ o.gen = op.gen /\ o.comms = op.comms
          /\ op.creds \in Credentials
      BY <1>1 DEF Operations
    <3>2. mgr' = Configuring(o, op.creds)
      BY <2>3
    <3> HIDE DEF o
    <3>3. MovesOn("configuring") /\ op'.creds = op.creds
      BY <1>1, <3>1, <3>2, ConfiguringDoes
    <3> QED BY <1>1, <2>1, <2>3, <3>3 DEF Silent, Kept
  <2> QED BY <1>3, <2>2, <2>3
<1> QED BY <1>2, <1>3 DEF RetryWithoutRouting

\* The steps that come from outside the queue.
LEMMA ConnectDoes ==
  ASSUME TypeOK, Connect
  PROVE  ~Urgent /\ ConnectAsked /\ Silent /\ UNCHANGED <<comms, made, auth, alive>>
BY TypeOKIs, ConnectAskedBy DEF Connect, Silent, Kept, History

LEMMA DisconnectDoes ==
  ASSUME TypeOK, Disconnect
  PROVE  ~Urgent /\ DisconnectAsked /\ Silent /\ UNCHANGED <<made, auth, alive>>
         /\ comms' = Stop({mgr.pending})
BY TypeOKIs, DisconnectAskedBy DEF Disconnect, Silent, Kept, History

LEMMA HandleDoes ==
  ASSUME TypeOK, NEW p \in Handlers, NEW kind, Handle(p, kind)
  PROVE  /\ mgr.comms # None /\ comms[mgr.comms].phase = "up"
         /\ Silent /\ UNCHANGED <<made, auth, alive>>
         /\ \/ DisconnectAsked /\ comms' = Stop({mgr.comms, mgr.pending})
            \/ UNCHANGED mgr /\ comms' = Stop({mgr.comms}) /\ "joined" \in hist'.lapses
<1> DEFINE h == [hist EXCEPT !.fatal = @ + 1]
<1>1. h \in History /\ h.lapses = hist.lapses /\ h.told = hist.told
      /\ h.restarts = hist.restarts /\ h.pairings = hist.pairings
  BY TypeOKIs, LifecycleAssumption DEF LifecycleAssumption, Handle, History
<1>2. /\ mgr.comms # None /\ comms[mgr.comms].phase = "up" /\ UNCHANGED <<made, auth, alive>>
      /\ \/ /\ mgr' = Disconnected(mgr, p) /\ hist' = h
            /\ comms' = Stop({mgr.comms, mgr.pending})
         \/ UNCHANGED mgr /\ hist' = Lapsing(h, "joined", TRUE) /\ comms' = Stop({mgr.comms})
  BY DEF Handle
<1> HIDE DEF h
<1>3. CASE mgr' = Disconnected(mgr, p) /\ hist' = h
           /\ comms' = Stop({mgr.comms, mgr.pending})
  BY <1>1, <1>2, <1>3, TypeOKIs, DisconnectAskedBy DEF Silent, Kept
<1>4. CASE UNCHANGED mgr /\ hist' = Lapsing(h, "joined", TRUE) /\ comms' = Stop({mgr.comms})
  <2>1. Silent /\ "joined" \in hist'.lapses
    BY <1>1, <1>4 DEF Lapsing, History, Silent, Kept
  <2> QED BY <1>2, <1>4, <2>1
<1> QED BY <1>2, <1>3, <1>4

LEMMA ForceLoginDoes ==
  ASSUME TypeOK, ForceLogin
  PROVE  ~Urgent /\ \/ Handle("stream", "force login")
                    \/ RestartAsked /\ Silent /\ UNCHANGED <<comms, made, auth, alive>>
BY TypeOKIs, RestartAskedBy DEF ForceLogin, Silent, Kept

LEMMA GoOnDoes ==
  ASSUME TypeOK, NEW p \in Handlers, GoOn(p)
  PROVE  /\ ~Answered /\ Silent /\ UNCHANGED <<comms, made, auth, alive>>
         /\ ConnectAsked \/ UNCHANGED mgr
<1>1. ~Answered /\ Silent /\ UNCHANGED <<comms, made, auth, alive>>
      /\ (mgr' = Connecting(mgr) \/ UNCHANGED mgr)
  BY DEF GoOn, Silent, Kept
<1>2. CASE Queued("connect")
  BY <1>1, <1>2 DEF Connecting
<1>3. CASE ~Queued("connect")
  BY <1>1, <1>3, TypeOKIs, ConnectAskedBy
<1> QED BY <1>2, <1>3

\* The credentials are wiped in memory or in the store, or the handler fails.
LEMMA WipeDoes ==
  ASSUME TypeOK, NEW p \in Handlers, Drained(p) \/ Wiped(p)
  PROVE  /\ ~Urgent /\ Silent /\ UNCHANGED <<comms, made, mgr, alive>>
         /\ auth'.pairing = auth.pairing
         /\ \/ auth'.mem = auth.mem
            \/ mgr.queue = <<>> /\ mgr.comms = None
            \/ "logged out" \in hist'.lapses
<1>1. /\ ~Urgent /\ UNCHANGED <<comms, made, mgr, alive>>
      /\ \/ auth' = [auth EXCEPT !.mem = NoCredentials] /\ hist' = Overlaps(hist)
         \/ auth' = [auth EXCEPT !.store = NoCredentials] /\ hist' = Overlaps(hist)
         \/ Fault /\ hist' = Failed /\ UNCHANGED auth
  BY DEF Drained, Wiped
<1>2. auth'.pairing = auth.pairing
      /\ (auth'.mem # auth.mem => auth' = [auth EXCEPT !.mem = NoCredentials])
  BY <1>1, TypeOKIs DEF Authentication
<1>3. CASE hist' = Overlaps(hist)
  <2>1. CASE mgr.queue # <<>> \/ mgr.comms # None
    <3>1. Silent /\ "logged out" \in hist'.lapses
      BY <1>3, <2>1, TypeOKIs DEF Overlaps, Lapsing, History, Silent, Kept
    <3> QED BY <1>1, <1>2, <3>1
  <2>2. CASE ~(mgr.queue # <<>> \/ mgr.comms # None)
    BY <1>1, <1>2, <1>3, <2>2 DEF Overlaps, Lapsing, Silent, Kept
  <2> QED BY <2>1, <2>2
<1>4. CASE Fault /\ hist' = Failed /\ UNCHANGED auth
  BY <1>1, <1>4, GrownHistories DEF Grown, Silent, Kept
<1> QED BY <1>1, <1>3, <1>4

LEMMA PairSuccessDoes ==
  ASSUME TypeOK, PairSuccess
  PROVE  /\ ~Urgent /\ mgr.comms # None /\ ~auth.mem.registered /\ ~auth.pairing
         /\ auth'.mem.epoch = auth.mem.epoch /\ auth'.mem.registered /\ auth'.pairing
         /\ hist'.pairings = hist.pairings + 1 /\ hist'.restarts = hist.restarts
         /\ hist'.told = hist.told /\ hist'.lapses = hist.lapses
         /\ UNCHANGED <<comms, made, mgr, alive>>
BY TypeOKIs DEF PairSuccess, History, Authentication, Credentials

LEMMA PairSavedDoes ==
  ASSUME TypeOK, PairSaved
  PROVE  /\ ~Urgent /\ auth'.mem = auth.mem /\ Silent /\ UNCHANGED <<comms, made, mgr, alive>>
         /\ \/ auth'.pairing = auth.pairing
            \/ auth'.pairing = FALSE /\ "unsaved" \in hist'.lapses
<1>1. ~Urgent /\ UNCHANGED <<comms, made, mgr, alive>>
  BY DEF PairSaved
<1>2. CASE /\ auth' = [auth EXCEPT !.store = auth.saving, !.saving = NoCredentials]
           /\ UNCHANGED hist
  BY <1>1, <1>2, TypeOKIs DEF Authentication, Silent, Kept
<1>3. CASE /\ Fault /\ hist' = Lapsing(Failed, "unsaved", TRUE)
           /\ auth' = [auth EXCEPT !.saving = NoCredentials, !.pairing = FALSE]
  <2>1. auth'.mem = auth.mem /\ auth'.pairing = FALSE
    BY <1>3, TypeOKIs DEF Authentication
  <2>2. Grown(Failed) /\ Failed \in History
    BY <1>3, GrownHistories DEF Grown
  <2>3. /\ Reports(Failed, hist') /\ hist'.told = Failed.told
        /\ hist'.lapses = Failed.lapses \cup {"unsaved"}
    <3>1. "unsaved" \in Lapses
      BY DEF Lapses
    <3> QED BY <1>3, <2>2, <3>1, HistoryIs
  <2>4. Silent /\ "unsaved" \in hist'.lapses
    BY <2>2, <2>3 DEF Reports, Grown, Silent, Kept
  <2> QED BY <1>1, <2>1, <2>4
<1> QED BY <1>2, <1>3 DEF PairSaved

LEMMA PairedDoes ==
  ASSUME TypeOK, Paired
  PROVE  /\ ~Urgent /\ auth.pairing /\ auth'.mem = auth.mem /\ auth'.pairing = FALSE
         /\ Silent /\ UNCHANGED <<made, alive>>
         /\ mgr'.comms = mgr.comms /\ mgr'.pending = mgr.pending
         /\ mgr'.generation = mgr.generation /\ mgr'.queue = mgr.queue
         /\ \/ /\ mgr.comms # None /\ mgr'.timer = TRUE
               /\ comms' = [comms EXCEPT ![mgr.comms] = Held(@)]
            \/ UNCHANGED <<mgr, comms>> /\ "unconfirmed" \in hist'.lapses
<1>1. /\ ~Urgent /\ auth.pairing /\ auth' = [auth EXCEPT !.pairing = FALSE]
      /\ UNCHANGED <<made, alive>>
      /\ \/ /\ mgr.comms # None /\ mgr' = [mgr EXCEPT !.timer = TRUE]
            /\ comms' = [comms EXCEPT ![mgr.comms] = Held(@)] /\ UNCHANGED hist
         \/ hist' = Lapsing(hist, "unconfirmed", TRUE) /\ UNCHANGED <<mgr, comms>>
  BY DEF Paired
<1>2. auth'.mem = auth.mem /\ auth'.pairing = FALSE
  BY <1>1, TypeOKIs DEF Authentication
<1>3. CASE /\ mgr.comms # None /\ mgr' = [mgr EXCEPT !.timer = TRUE]
           /\ comms' = [comms EXCEPT ![mgr.comms] = Held(@)] /\ UNCHANGED hist
  BY <1>1, <1>2, <1>3, TypeOKIs DEF Manager, Silent, Kept
<1>4. CASE hist' = Lapsing(hist, "unconfirmed", TRUE) /\ UNCHANGED <<mgr, comms>>
  <2>1. Silent /\ "unconfirmed" \in hist'.lapses
    BY <1>4, TypeOKIs DEF Lapsing, History, Silent, Kept
  <2> QED BY <1>1, <1>2, <1>4, <2>1
<1> QED BY <1>1, <1>3, <1>4

LEMMA CommsCloseDoes ==
  ASSUME TypeOK, NEW i \in Ids, CommsClose(i)
  PROVE  /\ ~Urgent /\ comms[i].phase \in {"opening", "up"}
         /\ comms' = [comms EXCEPT ![i] = Closed(@)]
         /\ Silent /\ UNCHANGED <<made, auth, alive>>
         /\ RestartAsked \/ UNCHANGED mgr
BY TypeOKIs, RestartAskedBy DEF CommsClose, Silent, Kept

LEMMA CommsGiveUpDoes ==
  ASSUME TypeOK, NEW i \in Ids, CommsGiveUp(i)
  PROVE  /\ ~Urgent /\ comms[i].phase = "opening"
         /\ Silent /\ UNCHANGED <<made, mgr, auth, alive>>
         /\ \/ /\ comms' = [comms EXCEPT ![i] = GaveUp(@)]
               /\ i = mgr.comms => "gave up" \in hist'.lapses
            \/ comms' = [comms EXCEPT ![i] = TimedOut(@)]
<1>1. PICK s \in {GaveUp(comms[i]), TimedOut(comms[i])} :
        /\ comms' = [comms EXCEPT ![i] = s]
        /\ hist' = Lapsing(Failed, "gave up", s.phase = "gone" /\ i = mgr.comms)
  BY DEF CommsGiveUp
<1>2. Grown(Failed) /\ ~Urgent /\ comms[i].phase = "opening"
      /\ UNCHANGED <<made, mgr, auth, alive>>
  BY GrownHistories DEF CommsGiveUp
<1>3. CASE s.phase = "gone" /\ i = mgr.comms
  <2>1. Silent /\ "gave up" \in hist'.lapses
    BY <1>1, <1>2, <1>3 DEF Lapsing, History, Silent, Kept, Grown
  <2> QED BY <1>1, <1>2, <2>1
<1>4. CASE ~(s.phase = "gone" /\ i = mgr.comms)
  <2>1. Silent
    BY <1>1, <1>2, <1>4 DEF Lapsing, Silent, Kept, Grown
  <2>2. GaveUp(comms[i]).phase = "gone"
    BY TypeOKIs DEF GaveUp, Seen
  <2> QED BY <1>1, <1>2, <1>4, <2>1, <2>2
<1> QED BY <1>3, <1>4

-----------------------------------------------------------------------------
(* The queue: what its operations are at, and in which order.              *)

Places == 1..Len(mgr.queue)
Begun(o) == o.at # "queued"

\* Only the head has begun, it is at a stage of its kind, and one restart is
\* queued at most.
InTurn ==
  /\ \A k \in Places : k # 1 => ~Begun(mgr.queue[k])
  /\ \A k, l \in Places :
       mgr.queue[k].kind = "restart" /\ mgr.queue[l].kind = "restart" => k = l
  /\ mgr.queue # <<>> =>
       /\ op.at \in {"loading", "cleaning", "unrouting"} => op.kind = "connect"
       /\ op.at = "closing" => op.kind \in {"disconnect", "restart"}
       /\ op.at \in {"configuring", "waiting", "persisting", "failing"} =>
            op.kind \in {"connect", "restart"}
       /\ op.at = "waiting" => op.comms \in Ids

\* The stages an operation goes through.
Advances ==
  \/ Moved("closing") /\ op.kind \in {"disconnect", "restart"}
  \/ Moved("loading") /\ op.kind = "connect"
  \/ Moved("configuring") /\ op.kind \in {"connect", "restart"}
  \/ Moved("waiting") /\ op.at = "configuring" /\ op'.comms \in Ids
  \/ Moved("persisting") /\ op.at = "waiting"
  \/ Moved("failing") /\ op.at \in {"waiting", "persisting"}
  \/ Moved("cleaning") /\ op.at \in {"failing", "configuring"} /\ op.kind # "restart"
  \/ Moved("unrouting") /\ op.kind = "connect"
Requested ==
  \/ Added("connect", mgr.generation + 1) \/ Added("disconnect", mgr.generation + 1)
  \/ Added("restart", 0) /\ ~Queued("restart")

LEMMA QueueSteps ==
  ASSUME TypeOK, [Next]_vars
  PROVE  mgr'.queue = mgr.queue \/ Ending \/ Advances \/ Requested
<1>1. CASE BeginConnect \/ BeginDisconnect \/ BeginRestart
  BY <1>1, BeginConnectDoes, BeginDisconnectDoes, BeginRestartDoes
     DEF HeadRejected, Told, MovesOn, Advances
<1>2. CASE DisconnectEnds \/ RestartClosed \/ LoadCredentials
  BY <1>2, DisconnectEndsDoes, RestartClosedDoes, LoadCredentialsDoes
     DEF HeadRejected, Told, MovesOn, Advances
<1>3. CASE CreateComms \/ AdoptComms \/ PersistServerKey
  BY <1>3, CreateCommsDoes, AdoptCommsDoes, PersistServerKeyDoes
     DEF HeadFailed, Told, Advances
<1>4. CASE Recovering \/ ClearRoutingInfo \/ RetryWithoutRouting
  BY <1>4, RecoversDoes, ClearRoutingInfoDoes, RetryWithoutRoutingDoes
     DEF HeadRejected, MovesOn, Advances
<1>5. CASE Connect \/ Disconnect \/ ForceLogin \/ RestartTimerFires
  BY <1>5, ConnectDoes, DisconnectDoes, ForceLoginDoes, HandleDoes, TypeOKIs, RestartAskedBy
     DEF ConnectAsked, DisconnectAsked, RestartAsked, Requested, RestartTimerFires, Handlers
<1>6. CASE StreamError \/ FailureStanza \/ IdentityChange
  BY <1>6, HandleDoes DEF StreamError, FailureStanza, IdentityChange, Handlers, DisconnectAsked, Requested
<1>7. ASSUME NEW p \in Handlers, GoOn(p) \/ Drained(p) \/ Wiped(p)
      PROVE  mgr'.queue = mgr.queue \/ Requested
  BY <1>7, GoOnDoes, WipeDoes DEF ConnectAsked, Requested
<1>8. ASSUME NEW i \in Ids, CommsComeUp(i) \/ CommsClose(i) \/ CommsGiveUp(i)
      PROVE  mgr'.queue = mgr.queue \/ Requested
  BY <1>8, CommsCloseDoes, CommsGiveUpDoes DEF CommsComeUp, RestartAsked, Requested
<1>9. CASE Resume \/ PairSuccess \/ PairSaved \/ Paired \/ Ping \/ Pong \/ UNCHANGED vars
  BY <1>9, PairSuccessDoes, PairSavedDoes, PairedDoes DEF Resume, Ping, Pong, vars
<1> QED BY <1>1, <1>2, <1>3, <1>4, <1>5, <1>6, <1>7, <1>8, <1>9
        DEF Next, Operate, Recovering, Server, Own

\* Who is at the head afterwards.
LEMMA Heads ==
  ASSUME mgr \in Manager, mgr' \in Manager
  PROVE  /\ mgr.queue # <<>> => op = mgr.queue[1] /\ 1 \in Places
         /\ mgr'.queue # <<>> => op' = mgr'.queue[1] /\ 1 \in Places'
         /\ Ending /\ mgr'.queue # <<>> => 2 \in Places /\ op' = mgr.queue[2]
         /\ \A kind, gen : Added(kind, gen) =>
              /\ mgr.queue # <<>> => op' = op
              /\ mgr.queue = <<>> => op'.at = "queued" /\ op'.kind = kind /\ op'.gen = gen
<1>1. /\ mgr.queue # <<>> => op = mgr.queue[1] /\ 1 \in Places
      /\ mgr'.queue # <<>> => op' = mgr'.queue[1] /\ 1 \in Places'
  BY QueueIs DEF op, Places
<1>2. ASSUME Ending, mgr'.queue # <<>>
      PROVE  2 \in Places /\ op' = mgr.queue[2]
  BY <1>1, <1>2, QueueIs DEF Ending, Places
<1>3. ASSUME NEW kind, NEW gen, Added(kind, gen)
      PROVE  /\ mgr.queue # <<>> => op' = op
             /\ mgr.queue = <<>> => op'.at = "queued" /\ op'.kind = kind /\ op'.gen = gen
  BY <1>1, <1>3, QueueIs DEF Added, Places
<1> QED BY <1>1, <1>2, <1>3

LEMMA InTurnStep ==
  ASSUME TypeOK, TypeOK', InTurn, [Next]_vars
  PROVE  InTurn'
<1> USE DEF Places, Begun
<1>1. mgr \in Manager /\ mgr' \in Manager /\ Len(mgr.queue) \in Nat /\ Len(mgr'.queue) \in Nat
  BY TypeOKIs, QueueIs DEF TypeOK, Manager
<1>2. CASE mgr'.queue = mgr.queue
  BY <1>2 DEF InTurn, op
<1>3. CASE Ending
  BY SMTT(20), <1>1, <1>3, Heads DEF Ending, InTurn
<1>4. CASE Advances
  <2>1. mgr.queue # <<>> /\ mgr'.queue # <<>> /\ Len(mgr'.queue) = Len(mgr.queue)
        /\ (\A k \in Places : k # 1 => mgr'.queue[k] = mgr.queue[k]) /\ op'.kind = op.kind
    BY <1>4 DEF Advances, Moved
  <2>2. /\ op'.at \in {"loading", "cleaning", "unrouting"} => op'.kind = "connect"
        /\ op'.at = "closing" => op'.kind \in {"disconnect", "restart"}
        /\ op'.at \in {"configuring", "waiting", "persisting", "failing"} =>
             op'.kind \in {"connect", "restart"}
        /\ op'.at = "waiting" => op'.comms \in Ids
    BY <1>4, <2>1 DEF Advances, Moved, InTurn
  <2> QED BY <1>1, <2>1, <2>2, Heads DEF InTurn
<1>5. CASE Requested
  <2>1. PICK kind, gen : Added(kind, gen) /\ (kind = "restart" => ~Queued("restart"))
                         /\ kind \in {"connect", "disconnect", "restart"}
    BY <1>5 DEF Requested
  <2>2. \A k \in Places' : \/ k \in Places /\ mgr'.queue[k] = mgr.queue[k]
                           \/ k = Len(mgr'.queue)
    BY <1>1, <2>1 DEF Added
  <2>3. kind = "restart" => \A k \in Places : mgr.queue[k].kind # "restart"
    BY <1>1, <2>1, QueuedIs
  <2> QED BY ZenonT(40), <1>1, <2>1, <2>2, <2>3, Heads DEF InTurn, Added
<1> QED BY <1>2, <1>3, <1>4, <1>5, QueueSteps

-----------------------------------------------------------------------------
(* One connection.                                                         *)

\* What is live the manager holds: as its pending comms while the operation
\* that started them waits, afterwards as its own.
Bound ==
  /\ \A i \in Ids : Live(i) => i \in {mgr.comms, mgr.pending}
  /\ mgr.pending # None => mgr.queue # <<>> /\ op.at = "waiting" /\ op.comms = mgr.pending
  /\ mgr.comms # None /\ mgr.queue # <<>> => op.at \in {"queued", "persisting"}
  /\ mgr.queue # <<>> /\ op.at = "persisting" => mgr.comms = op.comms /\ mgr.comms # None

LEMMA PhasesAre ==
  ASSUME NEW s \in Seen
  PROVE  /\ Stopped(s).phase = IF s.phase = "new" THEN "new" ELSE "gone"
         /\ Held(s).phase = s.phase /\ Held(s).waiter = s.waiter
         /\ Resumed(s).phase = (IF s.phase = "gone" THEN "gone" ELSE "opening")
         /\ Resumed(s).waiter = s.waiter
         /\ Closed(s).phase = "opening" /\ Closed(s).waiter = s.waiter
         /\ GaveUp(s).phase = "gone" /\ TimedOut(s).phase = s.phase
         /\ CameUp(s).phase = "up"
         /\ s.waiter # "resolved" => /\ GaveUp(s).waiter # "resolved"
                                     /\ TimedOut(s).waiter # "resolved"
                                     /\ Stopped(s).waiter # "resolved"
         /\ Started(s).phase = "opening" /\ Started(s).waiter = "waiting"
BY DEF Seen, Stopped, Held, Resumed, Closed, GaveUp, TimedOut, CameUp, Started, Failing

\* What is stopped is not live, and nothing else comes alive.
LEMMA StoppedIsNotLive ==
  ASSUME TypeOK, NEW ids, comms' = Stop(ids), NEW i \in Ids, Live(i)'
  PROVE  Live(i) /\ i \notin ids
BY TypeOKIs, StopIs, PhasesAre DEF Live

LEMMA BoundAtHead ==
  ASSUME TypeOK, TypeOK', InTurn, InTurn', Bound, Operate
  PROVE  Bound'
<1> USE DEF None
<1>0. /\ mgr \in Manager /\ mgr' \in Manager
      /\ 0 \notin Ids
      /\ mgr.queue # <<>> => (op.at = "waiting" => op.comms \in Ids)
      /\ Ending /\ mgr'.queue # <<>> => op'.at = "queued"
      /\ \A at : Moved(at) => op'.at = at
  <2>1. mgr \in Manager /\ mgr' \in Manager /\ 0 \notin Ids
    BY TypeOKIs, LifecycleAssumption DEF LifecycleAssumption, TypeOK, Manager
  <2>2. Ending /\ mgr'.queue # <<>> => op'.at = "queued"
    BY <2>1, Heads DEF InTurn, Begun
  <2> QED BY <2>1, <2>2 DEF InTurn, Moved
<1>1. ASSUME HeadRejected, mgr.pending = None PROVE Bound'
  BY <1>0, <1>1 DEF HeadRejected, SameFields, Bound, Live
<1>2. ASSUME HeadFailed, op.at \in {"waiting", "persisting"}, mgr.queue # <<>>
      PROVE  Bound'
  <2>1. \A i \in Ids : Live(i)' => Live(i) /\ i \notin {op.comms}
    BY <1>2, StoppedIsNotLive DEF HeadFailed
  <2>2. mgr'.comms = None /\ mgr'.pending = None
    BY <1>0, <1>2 DEF HeadFailed, Bound
  <2> QED BY <1>0, <1>2, <2>1, <2>2 DEF HeadFailed, Bound
<1>3. CASE BeginConnect
  BY <1>0, <1>1, <1>3, BeginConnectDoes DEF Bound, Live, Told, SameFields, MovesOn
<1>4. CASE BeginDisconnect
  <2>1. CASE comms' = Stop({mgr.comms, mgr.pending}) /\ mgr'.comms = None /\ mgr'.pending = None
             /\ Moved("closing")
    BY <1>0, <2>1, StoppedIsNotLive DEF Bound
  <2>2. CASE Told("closed") /\ SameFields /\ UNCHANGED comms
    BY <1>0, <1>4, <2>2, BeginDisconnectDoes DEF Bound, Live, Told, SameFields
  <2> QED BY <1>4, <2>1, <2>2, BeginDisconnectDoes
<1>5. CASE BeginRestart
  <2>1. CASE comms' = Stop({mgr.comms}) /\ mgr'.comms = None /\ mgr'.pending = mgr.pending
             /\ Moved("closing")
    BY <1>0, <1>5, <2>1, BeginRestartDoes, StoppedIsNotLive DEF Bound
  <2>2. CASE Ending /\ SameFields /\ UNCHANGED comms
    BY <1>0, <1>5, <2>2, BeginRestartDoes DEF Bound, Live, SameFields
  <2> QED BY <1>5, <2>1, <2>2, BeginRestartDoes
<1>6. CASE DisconnectEnds
  BY <1>0, <1>6, DisconnectEndsDoes DEF Bound, Live, Told, SameFields
<1>7. CASE RestartClosed
  BY <1>0, <1>1, <1>7, RestartClosedDoes DEF Bound, Live, MovesOn, SameFields
<1>8. CASE LoadCredentials
  BY <1>0, <1>1, <1>8, LoadCredentialsDoes DEF Bound, Live, MovesOn, SameFields
<1>9. CASE CreateComms
  <2>1. mgr.comms = None /\ mgr.pending = None
    BY <1>9, CreateCommsDoes DEF Bound
  <2>2. PICK i \in Ids : /\ comms' = [comms EXCEPT ![i] = Started(@)]
                         /\ Moved("waiting") /\ op'.comms = i
                         /\ mgr'.comms = mgr.comms /\ mgr'.pending = i
    BY <1>9, CreateCommsDoes
  <2>3. \A j \in Ids : Live(j)' => j = i
    BY <1>0, <2>1, <2>2, TypeOKIs DEF Bound, Live
  <2> QED BY <1>0, <2>1, <2>2, <2>3 DEF Bound, Moved
<1>10. CASE AdoptComms
  <2>1. CASE HeadFailed
    BY <1>2, <1>10, <2>1, AdoptCommsDoes
  <2>2. CASE /\ mgr.pending = op.comms /\ mgr'.comms = op.comms /\ mgr'.pending = None
             /\ UNCHANGED comms
             /\ ((Moved("persisting") /\ op'.comms = op.comms) \/ Ending)
    <3>1. op.comms \in Ids /\ mgr.comms = None
      BY <1>0, <1>10, AdoptCommsDoes DEF Bound
    <3> QED BY <1>0, <2>2, <3>1 DEF Bound, Live
  <2> QED BY <1>10, <2>1, <2>2, AdoptCommsDoes DEF Told
<1>11. CASE PersistServerKey
  <2>1. CASE HeadFailed
    BY <1>2, <1>11, <2>1, PersistServerKeyDoes
  <2>2. CASE Told("open") /\ SameFields /\ UNCHANGED comms
    BY <1>0, <1>11, <2>2, PersistServerKeyDoes DEF Bound, Live, Told, SameFields
  <2> QED BY <1>11, <2>1, <2>2, PersistServerKeyDoes
<1>12. CASE Recovering
  <2>1. CASE HeadRejected
    BY <1>1, <1>12, <2>1, RecoversDoes DEF Bound
  <2>2. CASE comms' = Stop({mgr.comms, mgr.pending}) /\ mgr'.comms = None /\ mgr'.pending = None
             /\ Moved("cleaning")
    BY <1>0, <2>2, StoppedIsNotLive DEF Bound
  <2> QED BY <1>12, <2>1, <2>2, RecoversDoes
<1>13. CASE ClearRoutingInfo
  BY <1>0, <1>1, <1>13, ClearRoutingInfoDoes DEF Bound, Live, MovesOn, SameFields
<1>14. CASE RetryWithoutRouting
  BY <1>0, <1>1, <1>14, RetryWithoutRoutingDoes DEF Bound, Live, MovesOn, SameFields
<1> QED BY <1>3, <1>4, <1>5, <1>6, <1>7, <1>8, <1>9, <1>10, <1>11, <1>12, <1>13, <1>14
        DEF Operate, Recovering

LEMMA BoundElsewhere ==
  ASSUME TypeOK, TypeOK', InTurn, InTurn', Bound, [Next]_vars, ~Operate
  PROVE  Bound'
<1> USE DEF None
<1>0. /\ mgr \in Manager /\ mgr' \in Manager /\ 0 \notin Ids
      /\ \A kind, gen : Added(kind, gen) =>
           /\ mgr'.queue # <<>>
           /\ mgr.queue # <<>> => op' = op
           /\ mgr.queue = <<>> => op'.at = "queued"
  <2>1. mgr \in Manager /\ mgr' \in Manager /\ 0 \notin Ids
    BY TypeOKIs, LifecycleAssumption DEF LifecycleAssumption, TypeOK, Manager
  <2> QED BY <2>1, Heads DEF Added
<1>1. ASSUME ConnectAsked \/ RestartAsked \/ UNCHANGED mgr,
             \A i \in Ids : Live(i)' => Live(i) \/ i = mgr.comms
      PROVE  Bound'
  <2>1. CASE ConnectAsked
    BY <1>0, <1>1, <2>1 DEF ConnectAsked, Bound
  <2>2. CASE RestartAsked
    BY <1>0, <1>1, <2>2 DEF RestartAsked, Bound, op
  <2>3. CASE UNCHANGED mgr
    BY <1>0, <1>1, <2>3 DEF Bound, op
  <2> QED BY <1>1, <2>1, <2>2, <2>3
<1>2. ASSUME DisconnectAsked, NEW ids, mgr.pending \in ids, comms' = Stop(ids)
      PROVE  Bound'
  <2>1. \A i \in Ids : Live(i)' => Live(i) /\ i # mgr.pending
    BY <1>2, StoppedIsNotLive
  <2> QED BY <1>0, <1>2, <2>1 DEF DisconnectAsked, Bound
<1>3. CASE Connect
  BY <1>1, <1>3, ConnectDoes DEF Live
<1>4. CASE Disconnect
  BY <1>2, <1>4, DisconnectDoes
<1>5. ASSUME NEW p \in Handlers, NEW kind, Handle(p, kind)
      PROVE  Bound'
  <2>1. CASE DisconnectAsked /\ comms' = Stop({mgr.comms, mgr.pending})
    BY <1>2, <2>1
  <2>2. CASE UNCHANGED mgr /\ comms' = Stop({mgr.comms})
    BY <1>1, <2>2, StoppedIsNotLive
  <2> QED BY <1>5, <2>1, <2>2, HandleDoes
<1>6. CASE ForceLogin
  BY <1>1, <1>5, <1>6, ForceLoginDoes DEF Live, Handlers
<1>7. ASSUME NEW p \in Handlers, GoOn(p) \/ Drained(p) \/ Wiped(p)
      PROVE  Bound'
  BY <1>1, <1>7, GoOnDoes, WipeDoes DEF Live
<1>8. CASE Resume
  <2>1. comms' = [comms EXCEPT ![mgr.comms] = Resumed(@)] /\ UNCHANGED mgr
    BY <1>8 DEF Resume
  <2>2. \A i \in Ids : Live(i)' => Live(i) \/ i = mgr.comms
    BY <2>1, TypeOKIs DEF Live
  <2> QED BY <1>1, <2>1, <2>2
<1>9. CASE PairSuccess \/ PairSaved \/ Ping \/ Pong \/ UNCHANGED vars
  BY <1>1, <1>9, PairSuccessDoes, PairSavedDoes DEF Live, Ping, Pong, vars
<1>10. CASE Paired
  <2>1. \A i \in Ids : Live(i)' => Live(i)
    <3>1. CASE UNCHANGED comms
      BY <3>1 DEF Live
    <3>2. CASE mgr.comms # None /\ comms' = [comms EXCEPT ![mgr.comms] = Held(@)]
      <4>1. mgr.comms \in Ids /\ Held(comms[mgr.comms]).phase = comms[mgr.comms].phase
        BY <3>2, TypeOKIs, PhasesAre DEF Manager
      <4> QED BY <3>2, <4>1, TypeOKIs DEF Live
    <3> QED BY <1>10, <3>1, <3>2, PairedDoes
  <2> QED BY <1>0, <1>10, <2>1, PairedDoes DEF Bound, op
<1>11. CASE RestartTimerFires
  BY <1>1, <1>11, TypeOKIs, RestartAskedBy DEF RestartTimerFires, Live
<1>12. ASSUME NEW i \in Ids, CommsComeUp(i)
       PROVE  Bound'
  <2>1. comms' = [comms EXCEPT ![i] = CameUp(@)] /\ UNCHANGED mgr /\ Live(i)
    BY <1>12 DEF CommsComeUp, Live
  <2>2. \A j \in Ids : Live(j)' => Live(j) \/ j = mgr.comms
    BY <2>1, TypeOKIs DEF Live
  <2> QED BY <1>1, <2>1, <2>2
<1>13. ASSUME NEW i \in Ids, CommsClose(i)
       PROVE  Bound'
  <2>1. comms' = [comms EXCEPT ![i] = Closed(@)] /\ Live(i)
        /\ (RestartAsked \/ UNCHANGED mgr)
    BY <1>13, CommsCloseDoes DEF Live
  <2>2. \A j \in Ids : Live(j)' => Live(j) \/ j = mgr.comms
    BY <2>1, TypeOKIs DEF Live
  <2> QED BY <1>1, <2>1, <2>2
<1>14. ASSUME NEW i \in Ids, CommsGiveUp(i)
       PROVE  Bound'
  <2>1. UNCHANGED mgr /\ Live(i)
        /\ \E s \in Seen : comms' = [comms EXCEPT ![i] = s]
    BY <1>14, CommsGiveUpDoes, TypeOKIs, SeenStays DEF Live
  <2>2. \A j \in Ids : Live(j)' => Live(j) \/ j = mgr.comms
    BY <2>1, TypeOKIs DEF Live
  <2> QED BY <1>1, <2>1, <2>2
<1> QED BY <1>3, <1>4, <1>5, <1>6, <1>7, <1>8, <1>9, <1>10, <1>11, <1>12, <1>13, <1>14
        DEF Next, Server, Own, StreamError, FailureStanza, IdentityChange, Handlers

LEMMA BoundStep ==
  ASSUME TypeOK, InTurn, Bound, [Next]_vars
  PROVE  TypeOK' /\ InTurn' /\ Bound'
<1>1. TypeOK' /\ InTurn'
  BY NextTyped, InTurnStep
<1> QED BY <1>1, BoundAtHead, BoundElsewhere DEF Next

LEMMA InitBound == Init => InTurn /\ Bound
BY LifecycleAssumption
   DEF LifecycleAssumption, Init, InTurn, Bound, Live, New, None, Places

-----------------------------------------------------------------------------
(* One restart per pairing.                                                *)

\* A pairing is owed one restart: while its answer is sent, then while the
\* timer runs, then while the restart is queued.
Due(owed) == IF owed THEN 1 ELSE 0
RestartQueued ==
  \E k \in Places : mgr.queue[k].kind = "restart" /\ ~Begun(mgr.queue[k])
RestartsDue ==
  hist.restarts + Due(auth.pairing) + Due(mgr.timer) + Due(RestartQueued) <= hist.pairings

\* No step but a pairing owes one, and a restart that begins pays one.
LEMMA RestartQueuedStep ==
  ASSUME TypeOK, TypeOK', InTurn, [Next]_vars
  PROVE  /\ mgr'.queue = mgr.queue => (RestartQueued' <=> RestartQueued)
         /\ Ending /\ RestartQueued' => RestartQueued
         /\ Advances /\ RestartQueued' => RestartQueued
         /\ Advances /\ op.kind = "restart" => ~RestartQueued'
         /\ \A kind, gen : Added(kind, gen) /\ kind # "restart" /\ RestartQueued' => RestartQueued
<1> USE DEF Places, Begun, RestartQueued
<1>1. mgr \in Manager /\ mgr' \in Manager /\ Len(mgr.queue) \in Nat /\ Len(mgr'.queue) \in Nat
  BY TypeOKIs, QueueIs DEF TypeOK, Manager
<1>2. Ending /\ RestartQueued' => RestartQueued
  BY <1>1 DEF Ending
<1>3. ASSUME Advances
      PROVE  /\ RestartQueued' => RestartQueued
             /\ op.kind = "restart" => ~RestartQueued'
  <2>1. /\ mgr.queue # <<>> /\ mgr'.queue # <<>> /\ Len(mgr'.queue) = Len(mgr.queue)
        /\ \A k \in Places : k # 1 => mgr'.queue[k] = mgr.queue[k]
        /\ op'.at # "queued"
    BY <1>3 DEF Advances, Moved
  <2>2. op' = mgr'.queue[1] /\ op = mgr.queue[1] /\ 1 \in Places
    BY <1>1, <2>1, Heads
  <2>3. op.kind = "restart" => \A k \in Places : k # 1 => mgr.queue[k].kind # "restart"
    BY <2>2 DEF InTurn
  <2> QED BY <1>1, <2>1, <2>2, <2>3
<1>4. ASSUME NEW kind, NEW gen, Added(kind, gen), kind # "restart", RestartQueued'
      PROVE  RestartQueued
  BY <1>1, <1>4 DEF Added
<1> QED BY <1>2, <1>3, <1>4

LEMMA RestartsDueStep ==
  ASSUME TypeOK, TypeOK', InTurn, RestartsDue, [Next]_vars
  PROVE  RestartsDue'
<1>0. /\ hist.restarts \in Nat /\ hist.pairings \in Nat
      /\ hist'.restarts \in Nat /\ hist'.pairings \in Nat
      /\ mgr.timer \in BOOLEAN /\ mgr'.timer \in BOOLEAN
      /\ auth.pairing \in BOOLEAN /\ auth'.pairing \in BOOLEAN
      /\ \A owed \in BOOLEAN : Due(owed) \in {0, 1}
      /\ Due(TRUE) = 1 /\ Due(FALSE) = 0
      /\ RestartQueued \in BOOLEAN /\ RestartQueued' \in BOOLEAN
  BY LifecycleAssumption DEF LifecycleAssumption, TypeOK, Due, RestartQueued
<1>1. ASSUME Kept, auth'.pairing => auth.pairing, mgr'.timer => mgr.timer,
             RestartQueued' => RestartQueued
      PROVE  RestartsDue'
  BY <1>0, <1>1 DEF Kept, RestartsDue, Due
<1>2. ASSUME Kept, auth'.pairing = auth.pairing, RestartAsked
      PROVE  RestartsDue'
  <2>1. CASE mgr'.queue = mgr.queue
    BY <1>0, <1>1, <1>2, <2>1, RestartQueuedStep DEF RestartAsked
  <2>2. CASE mgr.timer /\ ~Queued("restart") /\ mgr'.timer = FALSE
    <3>1. ~RestartQueued
      BY <2>2, TypeOKIs, QueuedIs DEF RestartQueued, Places
    <3> QED BY <1>0, <1>2, <2>2, <3>1 DEF Kept, RestartsDue, Due
  <2> QED BY <1>2, <2>1, <2>2 DEF RestartAsked
<1>3. ASSUME ConnectAsked \/ DisconnectAsked, Silent, auth' = auth
      PROVE  RestartsDue'
  BY <1>0, <1>1, <1>3, RestartQueuedStep DEF Silent, ConnectAsked, DisconnectAsked
<1>4. ASSUME Ending \/ Advances, Kept, auth'.pairing = auth.pairing,
             mgr'.timer = mgr.timer \/ mgr'.timer = FALSE
      PROVE  RestartsDue'
  BY <1>0, <1>1, <1>4, RestartQueuedStep
<1>5. CASE BeginConnect
  BY <1>4, <1>5, BeginConnectDoes
     DEF HeadRejected, Told, MovesOn, Advances, SameFields, Silent
<1>6. CASE BeginDisconnect
  BY <1>4, <1>6, BeginDisconnectDoes DEF Told, Advances, SameFields, Silent
<1>7. CASE BeginRestart
  <2>1. CASE /\ Moved("closing") /\ mgr'.timer = mgr.timer
             /\ hist'.restarts = hist.restarts + 1 /\ hist'.pairings = hist.pairings
    <3>1. Advances /\ op.kind = "restart" /\ auth' = auth
      BY <1>7, <2>1, BeginRestartDoes DEF Advances
    <3>2. ~RestartQueued'
      BY <3>1, RestartQueuedStep
    <3>3. RestartQueued
      BY ZenonT(40), <1>7, BeginRestartDoes, TypeOKIs, Heads, NextTyped
         DEF RestartQueued, Begun, TypeOK, Manager
    <3> QED BY <1>0, <2>1, <3>1, <3>2, <3>3 DEF RestartsDue, Due
  <2>2. CASE Ending /\ SameFields /\ Silent /\ auth' = auth
    BY <1>4, <2>2 DEF SameFields, Silent
  <2> QED BY <1>7, <2>1, <2>2, BeginRestartDoes
<1>8. CASE DisconnectEnds \/ RestartClosed \/ LoadCredentials
  BY <1>4, <1>8, DisconnectEndsDoes, RestartClosedDoes, LoadCredentialsDoes
     DEF HeadRejected, Told, MovesOn, Advances, SameFields, Silent
<1>9. CASE CreateComms
  BY <1>4, <1>9, CreateCommsDoes DEF Advances, Silent
<1>10. CASE AdoptComms \/ PersistServerKey
  BY <1>4, <1>10, AdoptCommsDoes, PersistServerKeyDoes
     DEF HeadFailed, Told, Advances, SameFields, Silent, SameLogin
<1>11. CASE Recovering \/ ClearRoutingInfo \/ RetryWithoutRouting
  BY <1>4, <1>11, RecoversDoes, ClearRoutingInfoDoes, RetryWithoutRoutingDoes
     DEF HeadRejected, MovesOn, Advances, SameFields, Silent, SameLogin
<1>12. CASE Connect \/ Disconnect
  BY <1>3, <1>12, ConnectDoes, DisconnectDoes
<1>13. ASSUME NEW p \in Handlers, NEW kind, Handle(p, kind)
       PROVE  RestartsDue'
  BY <1>1, <1>3, <1>13, HandleDoes, RestartQueuedStep DEF Silent
<1>14. CASE ForceLogin
  BY <1>2, <1>13, <1>14, ForceLoginDoes DEF Silent, Handlers
<1>15. ASSUME NEW p \in Handlers, GoOn(p) \/ Drained(p) \/ Wiped(p)
       PROVE  RestartsDue'
  BY <1>1, <1>3, <1>15, GoOnDoes, WipeDoes, RestartQueuedStep DEF Silent
<1>16. CASE PairSuccess
  BY <1>0, <1>16, PairSuccessDoes, RestartQueuedStep DEF RestartsDue, Due
<1>17. CASE Paired
  <2>1. Kept /\ auth.pairing /\ auth'.pairing = FALSE /\ mgr'.queue = mgr.queue
    BY <1>17, PairedDoes DEF Silent
  <2>2. RestartQueued' <=> RestartQueued
    BY <2>1, RestartQueuedStep
  <2> QED BY <1>0, <2>1, <2>2 DEF RestartsDue, Due, Kept
<1>18. CASE RestartTimerFires
  BY <1>2, <1>18, TypeOKIs, RestartAskedBy DEF RestartTimerFires, Kept
<1>19. ASSUME NEW i \in Ids, CommsClose(i)
       PROVE  RestartsDue'
  BY <1>1, <1>2, <1>19, CommsCloseDoes, RestartQueuedStep DEF Silent
<1>20. ASSUME NEW i \in Ids, CommsComeUp(i) \/ CommsGiveUp(i)
       PROVE  RestartsDue'
  BY <1>1, <1>20, CommsGiveUpDoes, RestartQueuedStep DEF Silent, CommsComeUp, Kept
<1>21. CASE Resume \/ Ping \/ Pong \/ UNCHANGED vars
  BY <1>1, <1>21, RestartQueuedStep DEF Resume, Ping, Pong, vars, Kept
<1>22. CASE PairSaved
  BY <1>1, <1>22, PairSavedDoes, RestartQueuedStep DEF Silent
<1> QED BY <1>5, <1>6, <1>7, <1>8, <1>9, <1>10, <1>11, <1>12, <1>13, <1>14, <1>15, <1>16,
           <1>17, <1>18, <1>19, <1>20, <1>21, <1>22
        DEF Next, Operate, Recovering, Server, Own, StreamError, FailureStanza, IdentityChange,
            Handlers

-----------------------------------------------------------------------------
(* Which operation decides.                                                *)

\* Connects and disconnects supersede what was asked for before them, and so
\* does a restart once it begins.
Supersedes(o) == o.kind # "restart"
Decides(o) == Supersedes(o) \/ Begun(o)
Deciding == \E k \in Places : Decides(mgr.queue[k])

\* Generations grow along the queue, and after one that is superseded comes
\* one that is not.
InOrder ==
  /\ \A k \in Places : mgr.queue[k].gen <= mgr.generation
  /\ \A k, l \in Places : k < l /\ Decides(mgr.queue[k]) /\ Decides(mgr.queue[l]) =>
                            mgr.queue[k].gen < mgr.queue[l].gen
  /\ \A k \in Places : Decides(mgr.queue[k]) /\ ~Current(mgr.queue[k]) =>
       \E l \in Places : k < l /\ Supersedes(mgr.queue[l]) /\ Current(mgr.queue[l])

\* While the manager holds comms nothing is queued that supersedes, except
\* behind an operation that will let them go.
Unchallenged ==
  mgr.comms # None =>
    \A l \in Places : \/ l = 1 \/ ~Supersedes(mgr.queue[l])
                      \/ op.at = "persisting" /\ ~Current(op)

SameGeneration == mgr'.generation = mgr.generation
Superseded == mgr'.generation = mgr.generation + 1
GenerationSteps ==
  \/ (mgr'.queue = mgr.queue \/ Ending) /\ SameGeneration
  \/ /\ Advances /\ op'.gen = op.gen /\ SameGeneration
     /\ op.kind = "restart" => op.at # "queued"
  \/ /\ Moved("closing") /\ op.kind = "restart" /\ op.at = "queued" /\ mgr.comms # None
     /\ op'.gen = mgr.generation + 1 /\ Superseded
  \/ /\ \E kind \in {"connect", "disconnect"} : Added(kind, mgr.generation + 1)
     /\ Superseded
  \/ Added("restart", 0) /\ SameGeneration

LEMMA GenerationsStep ==
  ASSUME TypeOK, InTurn, [Next]_vars
  PROVE  GenerationSteps
<1> USE DEF SameGeneration, Superseded
<1>1. CASE BeginConnect \/ BeginDisconnect \/ BeginRestart
  BY <1>1, BeginConnectDoes, BeginDisconnectDoes, BeginRestartDoes
     DEF HeadRejected, Told, MovesOn, Advances, SameFields, GenerationSteps
<1>2. CASE DisconnectEnds \/ RestartClosed \/ LoadCredentials
  BY <1>2, DisconnectEndsDoes, RestartClosedDoes, LoadCredentialsDoes
     DEF HeadRejected, Told, MovesOn, Advances, SameFields, GenerationSteps
<1>3. CASE CreateComms
  BY <1>3, CreateCommsDoes DEF Advances, GenerationSteps
<1>4. CASE AdoptComms \/ PersistServerKey
  BY <1>4, AdoptCommsDoes, PersistServerKeyDoes
     DEF HeadFailed, Told, Advances, SameFields, GenerationSteps
<1>5. CASE Recovering \/ ClearRoutingInfo \/ RetryWithoutRouting
  BY <1>5, RecoversDoes, ClearRoutingInfoDoes, RetryWithoutRoutingDoes
     DEF HeadRejected, MovesOn, Advances, SameFields, GenerationSteps
<1>6. CASE Connect \/ Disconnect
  BY <1>6, ConnectDoes, DisconnectDoes DEF ConnectAsked, DisconnectAsked, GenerationSteps
<1>7. ASSUME RestartAsked \/ UNCHANGED mgr
      PROVE  GenerationSteps
  BY <1>7 DEF RestartAsked, GenerationSteps
<1>8. ASSUME NEW p \in Handlers, NEW kind, Handle(p, kind)
      PROVE  GenerationSteps
  BY <1>7, <1>8, HandleDoes DEF DisconnectAsked, GenerationSteps
<1>9. CASE ForceLogin \/ RestartTimerFires
  BY <1>7, <1>8, <1>9, ForceLoginDoes, TypeOKIs, RestartAskedBy DEF RestartTimerFires, Handlers
<1>10. ASSUME NEW p \in Handlers, GoOn(p) \/ Drained(p) \/ Wiped(p)
       PROVE  GenerationSteps
  BY <1>7, <1>10, GoOnDoes, WipeDoes DEF ConnectAsked, GenerationSteps
<1>11. ASSUME NEW i \in Ids, CommsComeUp(i) \/ CommsClose(i) \/ CommsGiveUp(i)
       PROVE  GenerationSteps
  BY <1>7, <1>11, CommsCloseDoes, CommsGiveUpDoes DEF CommsComeUp
<1>12. CASE Resume \/ PairSuccess \/ PairSaved \/ Ping \/ Pong \/ UNCHANGED vars
  BY <1>7, <1>12, PairSuccessDoes, PairSavedDoes DEF Resume, Ping, Pong, vars
<1>13. CASE Paired
  BY <1>13, PairedDoes DEF GenerationSteps
<1> QED BY <1>1, <1>2, <1>3, <1>4, <1>5, <1>6, <1>8, <1>9, <1>10, <1>11, <1>12, <1>13
        DEF Next, Operate, Recovering, Server, Own, StreamError, FailureStanza, IdentityChange, Handlers

LEMMA InOrderStep ==
  ASSUME TypeOK, TypeOK', InTurn, InTurn', InOrder, Unchallenged, [Next]_vars
  PROVE  InOrder'
<1> USE DEF Places, Begun, Supersedes, Decides, Current, SameGeneration, Superseded
<1>0. /\ mgr \in Manager /\ mgr' \in Manager
      /\ Len(mgr.queue) \in Nat /\ Len(mgr'.queue) \in Nat
      /\ mgr.generation \in Nat /\ mgr'.generation \in Nat
      /\ \A k \in Places : mgr.queue[k].gen \in Nat
      /\ \A k \in Places' : mgr'.queue[k].gen \in Nat
  <2>1. mgr \in Manager /\ mgr' \in Manager
    BY TypeOKIs DEF TypeOK, Manager
  <2>2. \A o \in Operations : o.gen \in Nat
    BY DEF Operations
  <2>3. mgr.generation \in Nat /\ mgr'.generation \in Nat
    BY <2>1 DEF Manager
  <2> QED BY <2>1, <2>2, <2>3, QueueIs
<1>1. CASE mgr'.queue = mgr.queue /\ SameGeneration
  BY <1>1 DEF InOrder
<1>2. CASE Ending /\ SameGeneration
  <2>1. \A k \in Places' : k + 1 \in Places /\ mgr'.queue[k] = mgr.queue[k + 1]
    BY <1>0, <1>2 DEF Ending
  <2>2. \A l \in Places : l > 1 => l - 1 \in Places' /\ mgr'.queue[l - 1] = mgr.queue[l]
    BY <1>0, <1>2 DEF Ending
  <2>3. \A k \in Places' : mgr'.queue[k].gen <= mgr'.generation
    BY <1>2, <2>1 DEF InOrder
  <2>4. ASSUME NEW k \in Places', NEW l \in Places', k < l,
               Decides(mgr'.queue[k]), Decides(mgr'.queue[l])
        PROVE  mgr'.queue[k].gen < mgr'.queue[l].gen
    <3>1. k + 1 \in Places /\ l + 1 \in Places /\ k + 1 < l + 1
      BY <1>0, <2>1, <2>4
    <3> HIDE DEF Decides, Places
    <3>2. mgr.queue[k + 1].gen < mgr.queue[l + 1].gen
      BY <2>1, <2>4, <3>1 DEF InOrder
    <3> QED BY <2>1, <3>2
  <2>5. ASSUME NEW k \in Places', Decides(mgr'.queue[k]),
               mgr'.queue[k].gen # mgr'.generation
        PROVE  \E l \in Places' : /\ k < l /\ Supersedes(mgr'.queue[l])
                                  /\ mgr'.queue[l].gen = mgr'.generation
    <3>1. PICK l \in Places : k + 1 < l /\ Supersedes(mgr.queue[l]) /\ Current(mgr.queue[l])
      <4>1. k + 1 \in Places /\ Decides(mgr.queue[k + 1]) /\ ~Current(mgr.queue[k + 1])
        BY <1>2, <2>1, <2>5
      <4> HIDE DEF Decides, Places, Supersedes, Current
      <4> QED BY <4>1 DEF InOrder
    <3>2. l - 1 \in Places' /\ k < l - 1 /\ mgr'.queue[l - 1] = mgr.queue[l]
      BY <1>0, <2>2, <3>1
    <3> QED BY <1>2, <3>1, <3>2
  <2> QED BY <2>3, <2>4, <2>5 DEF InOrder
<1>3. CASE /\ Advances /\ op'.gen = op.gen /\ SameGeneration
           /\ op.kind = "restart" => op.at # "queued"
  <2>1. /\ mgr.queue # <<>> /\ mgr'.queue # <<>> /\ Len(mgr'.queue) = Len(mgr.queue)
        /\ \A k \in Places : k # 1 => mgr'.queue[k] = mgr.queue[k]
        /\ op'.kind = op.kind
    BY <1>3 DEF Advances, Moved
  <2>2. op' = mgr'.queue[1] /\ op = mgr.queue[1] /\ 1 \in Places
    BY <1>0, <2>1, Heads
  <2>3. \A k \in Places : /\ mgr'.queue[k].gen = mgr.queue[k].gen
                          /\ mgr'.queue[k].kind = mgr.queue[k].kind
                          /\ Decides(mgr'.queue[k]) => Decides(mgr.queue[k])
    BY <1>3, <2>1, <2>2
  <2> QED BY <1>0, <1>3, <2>1, <2>3 DEF InOrder
<1>4. CASE /\ Moved("closing") /\ op.kind = "restart" /\ op.at = "queued" /\ mgr.comms # None
           /\ op'.gen = mgr.generation + 1 /\ Superseded
  <2>1. op' = mgr'.queue[1] /\ op = mgr.queue[1] /\ 1 \in Places
    BY <1>0, <1>4, Heads DEF Moved
  <2>2. \A k \in Places : k = 1
    BY <1>4, <2>1 DEF Unchallenged, InTurn
  <2> QED BY <1>0, <1>4, <2>1, <2>2 DEF InOrder, Moved
<1>5. ASSUME NEW kind \in {"connect", "disconnect"}, Added(kind, mgr.generation + 1), Superseded
      PROVE  InOrder'
  <2>1. \A k \in Places' : \/ k \in Places /\ mgr'.queue[k] = mgr.queue[k]
                           \/ k = Len(mgr'.queue)
    BY <1>0, <1>5 DEF Added
  <2>2. /\ Len(mgr'.queue) \in Places' /\ \A k \in Places : k < Len(mgr'.queue)
        /\ mgr'.queue[Len(mgr'.queue)].kind = kind
        /\ mgr'.queue[Len(mgr'.queue)].gen = mgr'.generation
    BY <1>0, <1>5 DEF Added
  <2>3. \A k \in Places' : mgr'.queue[k].gen <= mgr'.generation
    <3>1. \A k \in Places : mgr.queue[k].gen < mgr'.generation
      BY <1>0, <1>5 DEF InOrder
    <3> QED BY <1>0, <2>1, <2>2, <3>1
  <2>4. ASSUME NEW k \in Places', NEW l \in Places', k < l,
               Decides(mgr'.queue[k]), Decides(mgr'.queue[l])
        PROVE  mgr'.queue[k].gen < mgr'.queue[l].gen
    <3>1. k \in Places /\ mgr'.queue[k] = mgr.queue[k]
      BY <1>0, <2>1, <2>2, <2>4
    <3>2. CASE l \in Places /\ mgr'.queue[l] = mgr.queue[l]
      BY <2>4, <3>1, <3>2 DEF InOrder
    <3>3. CASE l = Len(mgr'.queue)
      BY <1>0, <1>5, <2>2, <3>1, <3>3 DEF InOrder
    <3> QED BY <2>1, <3>2, <3>3
  <2>5. ASSUME NEW k \in Places', mgr'.queue[k].gen # mgr'.generation
        PROVE  \E l \in Places' : /\ k < l /\ Supersedes(mgr'.queue[l])
                                  /\ mgr'.queue[l].gen = mgr'.generation
    BY <1>0, <2>1, <2>2, <2>5
  <2> QED BY <2>3, <2>4, <2>5 DEF InOrder
<1>6. CASE Added("restart", 0) /\ SameGeneration
  <2>1. \A k \in Places' : \/ k \in Places /\ mgr'.queue[k] = mgr.queue[k]
                           \/ k = Len(mgr'.queue) /\ ~Decides(mgr'.queue[k])
                              /\ mgr'.queue[k].gen = 0
    BY <1>0, <1>6 DEF Added
  <2>2. \A k \in Places : k \in Places' /\ mgr'.queue[k] = mgr.queue[k]
    BY <1>0, <1>6 DEF Added
  <2>3. \A k \in Places' : mgr'.queue[k].gen <= mgr'.generation
    BY <1>0, <1>6, <2>1 DEF InOrder
  <2> HIDE DEF Decides, Supersedes
  <2>4. \A k, l \in Places' : k < l /\ Decides(mgr'.queue[k]) /\ Decides(mgr'.queue[l]) =>
                                mgr'.queue[k].gen < mgr'.queue[l].gen
    BY <1>0, <1>6, <2>1 DEF InOrder
  <2>5. ASSUME NEW k \in Places', Decides(mgr'.queue[k]),
               mgr'.queue[k].gen # mgr'.generation
        PROVE  \E l \in Places' : /\ k < l /\ Supersedes(mgr'.queue[l])
                                  /\ mgr'.queue[l].gen = mgr'.generation
    <3>1. k \in Places /\ mgr'.queue[k] = mgr.queue[k]
      BY <2>1, <2>5
    <3>2. PICK l \in Places : k < l /\ Supersedes(mgr.queue[l])
                             /\ mgr.queue[l].gen = mgr.generation
      BY <1>6, <2>5, <3>1 DEF InOrder
    <3> QED BY <1>6, <2>2, <3>2
  <2> QED BY <2>3, <2>4, <2>5 DEF InOrder, Decides, Supersedes
<1> QED BY <1>1, <1>2, <1>3, <1>4, <1>5, <1>6, GenerationsStep DEF GenerationSteps

\* What an operation that takes comms has behind it.
LEMMA NobodyBehind ==
  ASSUME TypeOK, InTurn, InOrder, mgr.queue # <<>>, Decides(op), Current(op)
  PROVE  \A l \in Places : l = 1 \/ ~Supersedes(mgr.queue[l])
<1>1. mgr \in Manager /\ op = mgr.queue[1] /\ 1 \in Places
  BY TypeOKIs, OpIs DEF Places
<1>2. \A k \in Places : mgr.queue[k].gen \in Nat
  BY <1>1, QueueIs DEF Places, Operations
<1>3. ASSUME NEW l \in Places, l # 1, Supersedes(mgr.queue[l])
      PROVE  FALSE
  <2>1. 1 < l /\ Decides(mgr.queue[l])
    BY <1>1, <1>3, QueueIs DEF Places, Decides
  <2>2. mgr.queue[1].gen < mgr.queue[l].gen /\ mgr.queue[l].gen <= mgr.generation
    BY <1>1, <1>3, <2>1 DEF InOrder
  <2>3. mgr.generation \in Nat
    BY <1>1 DEF Manager
  <2> QED BY <1>1, <1>2, <1>3, <2>2, <2>3 DEF Current
<1> QED BY <1>3

LEMMA UnchallengedStep ==
  ASSUME TypeOK, TypeOK', InTurn, InTurn', Bound, Bound', InOrder, Unchallenged, [Next]_vars
  PROVE  Unchallenged'
<1> USE DEF Places, Begun, Supersedes
<1>0. /\ mgr \in Manager /\ mgr' \in Manager
      /\ Len(mgr.queue) \in Nat /\ Len(mgr'.queue) \in Nat
      /\ mgr.queue # <<>> => op = mgr.queue[1] /\ 1 \in Places
      /\ mgr.queue = <<>> => Len(mgr.queue) = 0
  <2>1. mgr \in Manager /\ mgr' \in Manager
    BY TypeOKIs DEF TypeOK, Manager
  <2> QED BY <2>1, QueueIs, Heads
<1>1. ASSUME mgr'.comms = None PROVE Unchallenged'
  BY <1>1 DEF Unchallenged
<1>2. ASSUME mgr'.queue = mgr.queue, mgr'.comms = mgr.comms, mgr'.generation = mgr.generation
      PROVE  Unchallenged'
  BY <1>2 DEF Unchallenged, op, Current
<1>3. ASSUME Ending, mgr'.comms # None,
             \A l \in Places : l = 1 \/ ~Supersedes(mgr.queue[l])
      PROVE  Unchallenged'
  <2>1. \A k \in Places' : k + 1 \in Places /\ mgr'.queue[k] = mgr.queue[k + 1]
    BY <1>0, <1>3 DEF Ending
  <2> QED BY <1>0, <1>3, <2>1 DEF Unchallenged
<1>4. ASSUME Ending, SameFields, op.at = "persisting" => Current(op)
      PROVE  Unchallenged'
  BY <1>1, <1>3, <1>4 DEF Unchallenged, SameFields
<1>5. ASSUME HeadFailed, op.at \in {"waiting", "persisting"}
      PROVE  Unchallenged'
  <2>1. mgr'.comms = None
    BY <1>5 DEF HeadFailed, Bound, Moved
  <2> QED BY <1>1, <2>1
<1>6. ASSUME ConnectAsked \/ DisconnectAsked, ~Answered
      PROVE  Unchallenged'
  <2>1. PICK kind, gen : Added(kind, gen)
    BY <1>6 DEF ConnectAsked, DisconnectAsked
  <2>2. mgr'.comms = mgr.comms /\ mgr'.generation = mgr.generation + 1
    BY <1>6 DEF ConnectAsked, DisconnectAsked
  <2>3. CASE mgr.queue = <<>>
    BY <1>0, <2>1, <2>3 DEF Added, Unchallenged
  <2>4. CASE mgr.queue # <<>> /\ mgr.comms # None
    <3>1. op.at = "persisting"
      BY <1>6, <2>4 DEF Answered, Bound
    <3>2. op' = op
      BY <1>0, <2>1, <2>4, Heads
    <3>3. op.gen <= mgr.generation /\ op.gen \in Nat /\ mgr.generation \in Nat
      BY <1>0, <2>4, OpIs DEF InOrder, Operations, Manager
    <3>4. op'.at = "persisting" /\ op'.gen # mgr'.generation
      BY <2>2, <3>1, <3>2, <3>3
    <3> QED BY <3>4 DEF Unchallenged, Current
  <2> QED BY <1>1, <2>2, <2>3, <2>4
<1>7. ASSUME RestartAsked \/ UNCHANGED mgr
      PROVE  Unchallenged'
  <2>1. CASE Added("restart", 0) /\ mgr'.comms = mgr.comms /\ mgr'.generation = mgr.generation
    <3>1. \A k \in Places' : \/ k \in Places /\ mgr'.queue[k] = mgr.queue[k]
                             \/ ~Supersedes(mgr'.queue[k])
      BY <1>0, <2>1 DEF Added
    <3>2. mgr.queue # <<>> => op' = op
      BY <1>0, <2>1, Heads
    <3> QED BY <1>0, <2>1, <3>1, <3>2 DEF Unchallenged, Current
  <2> QED BY <1>2, <1>7, <2>1 DEF RestartAsked
<1>8. CASE BeginConnect
  BY <1>1, <1>4, <1>8, BeginConnectDoes DEF HeadRejected, Told, MovesOn, SameFields
<1>9. CASE BeginDisconnect \/ BeginRestart
  BY <1>1, <1>4, <1>9, BeginDisconnectDoes, BeginRestartDoes DEF Told
<1>10. CASE DisconnectEnds \/ RestartClosed \/ LoadCredentials
  BY <1>1, <1>4, <1>10, DisconnectEndsDoes, RestartClosedDoes, LoadCredentialsDoes
     DEF Bound, HeadRejected, Told, MovesOn, SameFields
<1>11. CASE CreateComms
  BY <1>1, <1>11, CreateCommsDoes DEF Bound
<1>12. CASE AdoptComms
  <2>1. CASE HeadFailed
    BY <1>5, <1>12, <2>1, AdoptCommsDoes
  <2>2. CASE Current(op) /\ (Ending \/ Moved("persisting"))
    <3>1. \A l \in Places : l = 1 \/ ~Supersedes(mgr.queue[l])
      BY <1>12, <2>2, AdoptCommsDoes, NobodyBehind DEF Decides
    <3>2. CASE Moved("persisting")
      BY <1>0, <3>1, <3>2 DEF Moved, Unchallenged
    <3> QED BY <1>1, <1>3, <2>2, <3>1, <3>2
  <2> QED BY <1>12, <2>1, <2>2, AdoptCommsDoes DEF Told
<1>13. CASE PersistServerKey
  BY <1>4, <1>5, <1>13, PersistServerKeyDoes DEF Told
<1>14. CASE Recovering \/ ClearRoutingInfo \/ RetryWithoutRouting
  BY <1>1, <1>4, <1>14, RecoversDoes, ClearRoutingInfoDoes, RetryWithoutRoutingDoes
     DEF Bound, HeadRejected, MovesOn, SameFields
<1>15. CASE Connect \/ Disconnect
  BY <1>6, <1>15, ConnectDoes, DisconnectDoes DEF Urgent
<1>16. ASSUME NEW p \in Handlers, NEW kind, Handle(p, kind), ~Urgent
       PROVE  Unchallenged'
  BY <1>6, <1>7, <1>16, HandleDoes DEF Urgent
<1>17. CASE ForceLogin \/ RestartTimerFires
  BY <1>7, <1>16, <1>17, ForceLoginDoes, TypeOKIs, RestartAskedBy DEF RestartTimerFires, Handlers
<1>18. ASSUME NEW p \in Handlers, GoOn(p) \/ Drained(p) \/ Wiped(p)
       PROVE  Unchallenged'
  BY <1>6, <1>7, <1>18, GoOnDoes, WipeDoes
<1>19. ASSUME NEW i \in Ids, CommsComeUp(i) \/ CommsClose(i) \/ CommsGiveUp(i)
       PROVE  Unchallenged'
  BY <1>7, <1>19, CommsCloseDoes, CommsGiveUpDoes DEF CommsComeUp
<1>20. CASE Resume \/ PairSuccess \/ PairSaved \/ Ping \/ Pong \/ UNCHANGED vars
  BY <1>7, <1>20, PairSuccessDoes, PairSavedDoes DEF Resume, Ping, Pong, vars
<1>21. CASE Paired
  BY <1>2, <1>21, PairedDoes
<1> QED BY <1>8, <1>9, <1>10, <1>11, <1>12, <1>13, <1>14, <1>15, <1>16, <1>17, <1>18, <1>19,
           <1>20, <1>21
        DEF Next, Operate, Recovering, Server, Own, StreamError, FailureStanza, IdentityChange, Handlers

-----------------------------------------------------------------------------
(* The theorems of the queue.                                              *)

QueueInvariant == TypeOK /\ InTurn /\ Bound /\ InOrder /\ Unchallenged

LEMMA QueueInvariantHolds == Spec => []QueueInvariant
<1>1. Init => QueueInvariant
  <2>1. Init => InTurn /\ Bound
    BY InitBound
  <2>2. Init => InOrder /\ Unchallenged
    BY DEF Init, InOrder, Unchallenged, Places, None
  <2>3. Init => TypeOK
    BY InitTyped
  <2> QED BY <2>1, <2>2, <2>3 DEF QueueInvariant
<1>2. QueueInvariant /\ [Next]_vars => QueueInvariant'
  <2> SUFFICES ASSUME QueueInvariant, [Next]_vars PROVE QueueInvariant'
    OBVIOUS
  <2>1. TypeOK /\ InTurn /\ Bound /\ InOrder /\ Unchallenged
    BY DEF QueueInvariant
  <2>2. TypeOK' /\ InTurn' /\ Bound'
    BY <2>1, BoundStep
  <2> QED BY <2>1, <2>2, InOrderStep, UnchallengedStep DEF QueueInvariant
<1> QED BY <1>1, <1>2, PTL DEF Spec

(* Whatever a connect, a restart or a retry is superseded by and whenever,  *)
(* what runs is held by the manager and an account never has two: the       *)
(* operation that starts comms holds them as pending for as long as it      *)
(* waits, and whoever takes over has to let them go first.                  *)
THEOREM ConnectedOnce == Spec => []OneConnection
<1>1. QueueInvariant => OneConnection
  <2> SUFFICES ASSUME QueueInvariant,
                      NEW i \in Ids, NEW j \in Ids, Live(i), Live(j)
               PROVE  i = j /\ i \in {mgr.comms, mgr.pending}
    BY DEF OneConnection
  <2>1. i \in {mgr.comms, mgr.pending} /\ j \in {mgr.comms, mgr.pending}
    BY DEF QueueInvariant, Bound
  <2>2. mgr.comms = None \/ mgr.pending = None
    BY DEF QueueInvariant, Bound
  <2> QED BY <2>1, <2>2, LifecycleAssumption DEF LifecycleAssumption, None
<1> QED BY <1>1, QueueInvariantHolds, PTL

(* Each pairing is followed by one restart at most, however the answer to   *)
(* it, the timer, the server's stream error and the close of the socket     *)
(* follow each other.                                                       *)
THEOREM RestartedOnce == Spec => []RestartsOnce
<1>1. Init => RestartsDue
  BY LifecycleAssumption DEF LifecycleAssumption, Init, RestartsDue, RestartQueued, Due, Places
<1>2. QueueInvariant /\ QueueInvariant' /\ RestartsDue /\ [Next]_vars => RestartsDue'
  BY RestartsDueStep DEF QueueInvariant
<1>3. QueueInvariant /\ RestartsDue => RestartsOnce
  <2> SUFFICES ASSUME TypeOK, RestartsDue PROVE RestartsOnce
    BY DEF QueueInvariant
  <2>1. hist.restarts \in Nat /\ hist.pairings \in Nat
    BY LifecycleAssumption DEF LifecycleAssumption, TypeOK
  <2> QED BY <2>1 DEF RestartsDue, RestartsOnce, Due
<1> QED BY <1>1, <1>2, <1>3, QueueInvariantHolds, PTL DEF Spec

-----------------------------------------------------------------------------
(* The keep-alive.                                                         *)

\* The keep-alive runs as long as a registered connection is held.  After it,
\* an operation that decides will stop it or take it over, or its failure has
\* been reported.
Watching ==
  /\ mgr.comms # None => (made[mgr.comms].registered <=> alive # "off")
  /\ mgr.queue # <<>> /\ op.at \in {"waiting", "persisting"} => made[op.comms] = op.creds
  /\ mgr.queue # <<>> /\ op.kind = "disconnect" /\ Begun(op) => alive = "off"
  /\ mgr.comms = None /\ alive # "off" =>
       hist.told = "failed" \/ "restart failed" \in hist.lapses \/ Deciding

\* The head is as it was, whatever comes behind it.
HeadKept == mgr'.queue = mgr.queue \/ \E kind, gen : Added(kind, gen)

LEMMA HeadKeptBy ==
  ASSUME mgr \in Manager, mgr' \in Manager, HeadKept
  PROVE  /\ mgr.queue # <<>> => mgr'.queue # <<>> /\ op' = op
         /\ mgr'.queue # <<>> /\ Begun(op') => mgr.queue # <<>>
         /\ Len(mgr.queue) \in Nat /\ Len(mgr'.queue) \in Nat
         /\ \A k \in Places : k \in Places' /\ mgr'.queue[k] = mgr.queue[k]
<1>1. Len(mgr.queue) \in Nat /\ Len(mgr'.queue) \in Nat
  BY QueueIs
<1>2. CASE mgr'.queue = mgr.queue
  BY <1>1, <1>2 DEF op, Places
<1>3. ASSUME NEW kind, NEW gen, Added(kind, gen)
      PROVE  /\ mgr.queue # <<>> => mgr'.queue # <<>> /\ op' = op
             /\ mgr'.queue # <<>> /\ Begun(op') => mgr.queue # <<>>
             /\ \A k \in Places : k \in Places' /\ mgr'.queue[k] = mgr.queue[k]
  BY <1>1, <1>3, Heads DEF Added, Places, Begun
<1> QED BY <1>1, <1>2, <1>3 DEF HeadKept

\* Some operation decides afterwards.
LEMMA DecidingAfter ==
  ASSUME TypeOK, TypeOK', InOrder
  PROVE  /\ HeadKept /\ Deciding => Deciding'
         /\ \A at : Moved(at) /\ at # "queued" => Deciding'
         /\ \A gen : Added("connect", gen) \/ Added("disconnect", gen) => Deciding'
         /\ Ending /\ Decides(op) /\ ~Current(op) => Deciding'
         /\ Ending /\ ~Decides(op) /\ Deciding => Deciding'
<1>1. /\ mgr \in Manager /\ mgr' \in Manager
      /\ Len(mgr.queue) \in Nat /\ Len(mgr'.queue) \in Nat
  BY TypeOKIs, QueueIs DEF TypeOK, Manager
<1>2. HeadKept /\ Deciding => Deciding'
  BY <1>1, HeadKeptBy DEF Deciding
<1>3. ASSUME NEW at, Moved(at), at # "queued"
      PROVE  Deciding'
  BY <1>1, <1>3, Heads DEF Moved, Deciding, Decides, Begun
<1>4. ASSUME NEW kind \in {"connect", "disconnect"}, NEW gen, Added(kind, gen)
      PROVE  Deciding'
  <2>1. Len(mgr'.queue) \in Places' /\ Supersedes(mgr'.queue[Len(mgr'.queue)])
    BY <1>1, <1>4 DEF Added, Places, Supersedes
  <2> QED BY <2>1 DEF Deciding, Decides
<1>5. ASSUME Ending, NEW l \in Places, l # 1, Decides(mgr.queue[l])
      PROVE  Deciding'
  <2>1. l - 1 \in Places' /\ mgr'.queue[l - 1] = mgr.queue[l]
    BY <1>1, <1>5 DEF Ending, Places
  <2> QED BY <1>5, <2>1 DEF Deciding, Decides, Supersedes, Begun
<1>6. ASSUME Ending, Decides(op), ~Current(op)
      PROVE  Deciding'
  <2>1. op = mgr.queue[1] /\ 1 \in Places
    BY <1>1, <1>6, Heads DEF Ending
  <2>2. PICK l \in Places : 1 < l /\ Supersedes(mgr.queue[l])
    BY <1>6, <2>1 DEF InOrder
  <2>3. l # 1 /\ Decides(mgr.queue[l])
    BY <2>2 DEF Decides
  <2> QED BY <1>5, <1>6, <2>3
<1>7. ASSUME Ending, ~Decides(op), Deciding
      PROVE  Deciding'
  <2>1. op = mgr.queue[1]
    BY <1>1, <1>7, Heads DEF Ending
  <2>2. PICK l \in Places : Decides(mgr.queue[l])
    BY <1>7 DEF Deciding
  <2> QED BY <1>5, <1>7, <2>1, <2>2
<1> QED BY <1>2, <1>3, <1>4, <1>6, <1>7

\* The steps outside the queue leave the head and the connection as they are.
Aside ==
  /\ HeadKept /\ mgr'.comms = mgr.comms /\ made' = made
  /\ (alive' # "off") = (alive # "off") /\ hist'.told = hist.told
  /\ hist.lapses \subseteq hist'.lapses

LEMMA AsideSteps ==
  ASSUME TypeOK, [Next]_vars, ~Operate
  PROVE  Aside
<1> USE DEF Aside, HeadKept, Silent, Kept
<1>1. CASE Connect \/ Disconnect
  BY <1>1, ConnectDoes, DisconnectDoes DEF ConnectAsked, DisconnectAsked
<1>2. ASSUME NEW p \in Handlers, NEW kind, Handle(p, kind)
      PROVE  Aside
  BY <1>2, HandleDoes DEF DisconnectAsked
<1>3. CASE ForceLogin \/ RestartTimerFires
  BY <1>2, <1>3, ForceLoginDoes, TypeOKIs, RestartAskedBy
     DEF RestartTimerFires, RestartAsked, Handlers
<1>4. ASSUME NEW p \in Handlers, GoOn(p) \/ Drained(p) \/ Wiped(p)
      PROVE  Aside
  BY <1>4, GoOnDoes, WipeDoes DEF ConnectAsked
<1>5. ASSUME NEW i \in Ids, CommsComeUp(i) \/ CommsClose(i) \/ CommsGiveUp(i)
      PROVE  Aside
  BY <1>5, CommsCloseDoes, CommsGiveUpDoes DEF CommsComeUp, RestartAsked
<1>6. CASE PairSuccess \/ PairSaved \/ Paired
  BY <1>6, PairSuccessDoes, PairSavedDoes, PairedDoes
<1>7. CASE Resume \/ Ping \/ Pong \/ UNCHANGED vars
  BY <1>7 DEF Resume, Ping, Pong, vars
<1> QED BY <1>1, <1>2, <1>3, <1>4, <1>5, <1>6, <1>7
        DEF Next, Server, Own, StreamError, FailureStanza, IdentityChange, Handlers

LEMMA WatchingAside ==
  ASSUME TypeOK, TypeOK', InOrder, Watching, Aside
  PROVE  Watching'
<1>1. mgr \in Manager /\ mgr' \in Manager
  BY TypeOKIs DEF TypeOK, Manager
<1>2. /\ mgr'.comms = mgr.comms /\ made' = made /\ hist'.told = hist.told
      /\ hist.lapses \subseteq hist'.lapses /\ (alive' # "off" <=> alive # "off")
      /\ Deciding => Deciding'
      /\ mgr'.queue # <<>> /\ Begun(op') => mgr.queue # <<>> /\ op' = op
  BY <1>1, HeadKeptBy, DecidingAfter DEF Aside
<1>3. mgr'.comms # None => (made'[mgr'.comms].registered <=> alive' # "off")
  BY <1>2 DEF Watching
<1>4. /\ mgr'.queue # <<>> /\ op'.at \in {"waiting", "persisting"} => made'[op'.comms] = op'.creds
      /\ mgr'.queue # <<>> /\ op'.kind = "disconnect" /\ Begun(op') => alive' = "off"
  BY <1>2 DEF Watching, Begun
<1>5. mgr'.comms = None /\ alive' # "off" =>
        hist'.told = "failed" \/ "restart failed" \in hist'.lapses \/ Deciding'
  BY <1>2 DEF Watching
<1> QED BY <1>3, <1>4, <1>5 DEF Watching

LEMMA WatchingAtHead ==
  ASSUME TypeOK, TypeOK', InTurn, InTurn', Bound, Bound', InOrder, Watching, Operate
  PROVE  Watching'
<1>0. /\ mgr \in Manager /\ mgr' \in Manager
      /\ Ending /\ mgr'.queue # <<>> => ~Begun(op')
      /\ \A at : Moved(at) => /\ mgr.queue # <<>> /\ mgr'.queue # <<>>
                              /\ op'.at = at /\ op'.kind = op.kind
                              /\ at # "queued" => Deciding'
      /\ Ending /\ Decides(op) /\ ~Current(op) => Deciding'
      /\ Ending /\ ~Decides(op) /\ Deciding => Deciding'
  <2>1. mgr \in Manager /\ mgr' \in Manager
    BY TypeOKIs DEF TypeOK, Manager
  <2>2. Ending /\ mgr'.queue # <<>> => ~Begun(op')
    BY <2>1, Heads DEF InTurn
  <2> QED BY <2>1, <2>2, DecidingAfter DEF Moved
\* The connection and the keep-alive stay as they are, the head ends or moves on.
<1>1. ASSUME mgr'.comms = mgr.comms, UNCHANGED <<made, alive>>,
             Ending, hist'.told = "failed" \/ mgr.comms # None \/ alive = "off"
                     \/ "restart failed" \in hist'.lapses \/ Deciding'
      PROVE  Watching'
  BY <1>0, <1>1 DEF Watching, Begun
<1>2. ASSUME HeadRejected
      PROVE  Watching'
  <2>1. op.kind = "connect" => hist'.told = "failed"
    BY <1>2 DEF HeadRejected
  <2>2. op.kind # "connect" /\ Current(op) => "restart failed" \in hist'.lapses
    BY <1>2 DEF HeadRejected
  <2>3. op.kind = "disconnect" /\ ~Current(op) => Deciding'
    BY <1>0, <1>2 DEF HeadRejected, Decides, Supersedes
  <2>4. op.kind # "connect" /\ ~Current(op) =>
          hist'.told = "failed" \/ alive = "off" \/ mgr.comms # None \/ Deciding'
                                \/ "restart failed" \in hist'.lapses
    BY <1>0, <1>2 DEF HeadRejected, Decides, Watching, Kept
  <2> QED BY <1>1, <1>2, <2>1, <2>2, <2>4 DEF HeadRejected, SameFields
<1>3. ASSUME NEW at \in {"loading", "configuring", "unrouting"}, Moved(at),
             op.kind # "disconnect", mgr'.comms = mgr.comms, UNCHANGED <<made, alive>>
      PROVE  Watching'
  BY <1>0, <1>3 DEF Watching
<1>4. ASSUME NEW at \in {"closing", "cleaning"}, Moved(at), alive' = "off", mgr'.comms = None
      PROVE  Watching'
  BY <1>0, <1>4 DEF Watching
<1>5. ASSUME HeadFailed, op.at \in {"waiting", "persisting"}
      PROVE  Watching'
  <2>1. mgr'.comms = None /\ op.kind # "disconnect" /\ mgr.queue # <<>>
    BY <1>5 DEF HeadFailed, Bound, Moved, InTurn
  <2>2. op'.at = "failing" /\ op'.kind # "disconnect" /\ Deciding'
    BY <1>0, <1>5, <2>1 DEF HeadFailed
  <2> QED BY <2>1, <2>2 DEF Watching
<1>6. CASE BeginConnect
  <2>1. CASE HeadRejected
    BY <1>2, <2>1
  <2>2. CASE (mgr.comms # None \/ mgr.pending # None) /\ Told("open") /\ SameFields
    <3>1. mgr.comms # None /\ UNCHANGED <<made, alive>>
      BY <1>6, <2>2, BeginConnectDoes DEF Bound
    <3> QED BY <1>1, <2>2, <3>1 DEF Told, SameFields
  <2>3. CASE MovesOn("loading")
    BY <1>3, <1>6, <2>3, BeginConnectDoes DEF MovesOn, SameFields
  <2> QED BY <1>6, <2>1, <2>2, <2>3, BeginConnectDoes
<1>7. CASE BeginDisconnect
  <2>1. CASE Moved("closing") /\ alive' = "off" /\ mgr'.comms = None
    BY <1>4, <2>1
  <2>2. CASE ~Current(op) /\ Told("closed") /\ SameFields /\ UNCHANGED <<made, alive>>
    <3>1. Ending /\ Decides(op)
      BY <1>7, <2>2, BeginDisconnectDoes DEF Told, Decides, Supersedes
    <3> QED BY <1>0, <1>1, <2>2, <3>1 DEF SameFields
  <2> QED BY <1>7, <2>1, <2>2, BeginDisconnectDoes
<1>8. CASE BeginRestart
  <2>1. CASE Moved("closing") /\ alive' = "off" /\ mgr'.comms = None
    BY <1>4, <2>1
  <2>2. CASE Ending /\ SameFields /\ Silent /\ UNCHANGED <<made, alive>>
    <3>1. ~Decides(op)
      BY <1>8, BeginRestartDoes DEF Decides, Supersedes, Begun
    <3>2. hist'.told = "failed" \/ mgr.comms # None \/ alive = "off"
            \/ "restart failed" \in hist'.lapses \/ Deciding'
      BY <1>0, <2>2, <3>1 DEF Watching, Silent, Kept
    <3> QED BY <1>1, <2>2, <3>2 DEF SameFields
  <2> QED BY <1>8, <2>1, <2>2, BeginRestartDoes
<1>9. CASE DisconnectEnds
  <2>1. alive = "off" /\ Ending /\ SameFields /\ UNCHANGED <<made, alive>>
    BY <1>9, DisconnectEndsDoes DEF Watching, Begun, Told
  <2> QED BY <1>1, <2>1 DEF SameFields
<1>10. CASE RestartClosed \/ LoadCredentials
  BY <1>2, <1>3, <1>10, RestartClosedDoes, LoadCredentialsDoes DEF MovesOn, SameFields
<1>11. CASE CreateComms
  <2>1. mgr.comms = None /\ op.kind # "disconnect" /\ alive' = alive
    BY <1>11, CreateCommsDoes DEF Bound, InTurn
  <2>2. PICK i \in Ids : /\ made' = [made EXCEPT ![i] = op.creds]
                         /\ Moved("waiting") /\ op'.creds = op.creds /\ op'.comms = i
                         /\ mgr'.comms = mgr.comms
    BY <1>11, CreateCommsDoes
  <2>3. made'[op'.comms] = op'.creds
    BY <2>2, TypeOKIs
  <2> QED BY <1>0, <2>1, <2>2, <2>3 DEF Watching
<1>12. CASE AdoptComms
  <2>1. CASE HeadFailed
    BY <1>5, <1>12, <2>1, AdoptCommsDoes
  <2>2. CASE /\ mgr'.comms = op.comms /\ made' = made
             /\ op.creds.registered /\ alive' = "scheduled" /\ Moved("persisting")
             /\ op'.creds = op.creds /\ op'.comms = op.comms
    <3>1. made[op.comms] = op.creds /\ op.kind # "disconnect"
      BY <1>12, AdoptCommsDoes DEF Watching, InTurn
    <3> QED BY <1>0, <2>2, <3>1 DEF Watching
  <2>3. CASE /\ mgr'.comms = op.comms /\ made' = made
             /\ ~op.creds.registered /\ alive' = "off" /\ Told("open")
    <3>1. made[op.comms] = op.creds
      BY <1>12, AdoptCommsDoes DEF Watching
    <3> QED BY <1>0, <2>3, <3>1 DEF Watching, Told, Begun
  <2> QED BY <1>12, <2>1, <2>2, <2>3, AdoptCommsDoes
<1>13. CASE PersistServerKey
  <2>1. CASE HeadFailed
    BY <1>5, <1>13, <2>1, PersistServerKeyDoes
  <2>2. CASE Told("open") /\ SameFields /\ UNCHANGED <<made, alive>>
    <3>1. mgr.comms # None
      BY <1>13, PersistServerKeyDoes DEF Bound
    <3> QED BY <1>1, <2>2, <3>1 DEF Told, SameFields
  <2> QED BY <1>13, <2>1, <2>2, PersistServerKeyDoes
<1>14. CASE Recovering
  BY <1>2, <1>4, <1>14, RecoversDoes
<1>15. CASE ClearRoutingInfo \/ RetryWithoutRouting
  BY <1>2, <1>3, <1>15, ClearRoutingInfoDoes, RetryWithoutRoutingDoes DEF MovesOn, SameFields
<1> QED BY <1>6, <1>7, <1>8, <1>9, <1>10, <1>11, <1>12, <1>13, <1>14, <1>15 DEF Operate, Recovering

-----------------------------------------------------------------------------
(* What the application is told.                                           *)

\* Comms that were reported up are held, or an operation that decides is yet to
\* report what becomes of them, and what is held is up or trying.
Reported ==
  /\ hist.told \in {"closed", "failed"} /\ mgr.comms # None =>
       mgr.queue # <<>> /\ op.at = "persisting"
  /\ hist.told = "open" /\ mgr.comms = None => SilentlyDown \/ Deciding
  /\ mgr.comms # None => comms[mgr.comms].phase # "new"
  /\ mgr.comms # None /\ comms[mgr.comms].phase = "gone" =>
       \/ SilentlyDown
       \/ mgr.queue # <<>> /\ op.at = "persisting" /\ ~Current(op)
       \/ mgr.queue # <<>> /\ op.kind = "disconnect" /\ ~Begun(op) /\ Current(op)
  /\ mgr.queue # <<>> /\ op.at = "waiting" /\ comms[op.comms].waiter = "resolved" =>
       comms[op.comms].phase = "up"

\* What a step outside the queue does to the comms.
Unfolds(i) ==
  /\ comms'[i].phase = "new" => comms[i].phase = "new"
  /\ comms'[i].waiter = "resolved" => comms[i].waiter = "resolved" \/ comms'[i].phase = "up"
  /\ comms'[i].phase = "gone" /\ i = mgr.comms =>
       comms[i].phase = "gone" \/ SilentlyDown' \/ DisconnectAsked
GrowsOld == SameGeneration \/ Superseded

LEMMA StopUnfolds ==
  ASSUME TypeOK, NEW ids, comms' = Stop(ids), mgr.comms \in ids => SilentlyDown' \/ DisconnectAsked
  PROVE  \A i \in Ids : Unfolds(i)
BY TypeOKIs, StopIs, PhasesAre DEF Unfolds

LEMMA OneUnfolds ==
  ASSUME TypeOK, NEW i \in Ids, NEW s \in Seen, comms' = [comms EXCEPT ![i] = s],
         s.phase = "new" => comms[i].phase = "new",
         s.waiter = "resolved" => comms[i].waiter = "resolved" \/ s.phase = "up",
         s.phase = "gone" /\ i = mgr.comms => comms[i].phase = "gone" \/ SilentlyDown'
  PROVE  \A j \in Ids : Unfolds(j)
BY TypeOKIs DEF Unfolds

LEMMA AsideUnfolds ==
  ASSUME TypeOK, TypeOK', [Next]_vars, ~Operate
  PROVE  \/ UNCHANGED vars
         \/ ~Answered /\ GrowsOld /\ \A i \in Ids : Unfolds(i)
<1> USE DEF GrowsOld, SameGeneration, Superseded
<1>0. comms \in [Ids -> Seen]
  BY TypeOKIs
<1>1. CASE UNCHANGED vars
  BY <1>1
<1>2. CASE Connect
  BY <1>2, ConnectDoes DEF ConnectAsked, Unfolds, Urgent
<1>3. CASE Disconnect
  BY <1>3, DisconnectDoes, StopUnfolds DEF DisconnectAsked, Urgent
<1>4. ASSUME NEW p \in Handlers, NEW kind, Handle(p, kind), ~Urgent
      PROVE  ~Answered /\ GrowsOld /\ \A i \in Ids : Unfolds(i)
  <2>1. CASE DisconnectAsked /\ comms' = Stop({mgr.comms, mgr.pending})
    BY <1>4, <2>1, StopUnfolds DEF DisconnectAsked, Urgent
  <2>2. CASE UNCHANGED mgr /\ comms' = Stop({mgr.comms}) /\ "joined" \in hist'.lapses
    <3>1. SilentlyDown'
      BY <2>2 DEF SilentlyDown
    <3> QED BY <1>4, <2>2, <3>1, StopUnfolds DEF Urgent
  <2> QED BY <1>4, <2>1, <2>2, HandleDoes
<1>5. CASE ForceLogin \/ RestartTimerFires
  BY <1>4, <1>5, ForceLoginDoes, TypeOKIs, RestartAskedBy
     DEF RestartTimerFires, RestartAsked, Handlers, Unfolds, Urgent
<1>6. ASSUME NEW p \in Handlers, GoOn(p) \/ Drained(p) \/ Wiped(p)
      PROVE  ~Answered /\ GrowsOld /\ \A i \in Ids : Unfolds(i)
  BY <1>6, GoOnDoes, WipeDoes DEF ConnectAsked, Unfolds, Urgent
<1>7. ASSUME NEW i \in Ids, CommsComeUp(i)
      PROVE  ~Answered /\ GrowsOld /\ \A j \in Ids : Unfolds(j)
  <2>1. ~Urgent /\ comms' = [comms EXCEPT ![i] = CameUp(comms[i])] /\ UNCHANGED mgr
    BY <1>7 DEF CommsComeUp
  <2>2. CameUp(comms[i]) \in Seen /\ CameUp(comms[i]).phase = "up"
    BY <1>0, SeenStays, PhasesAre
  <2> QED BY <2>1, <2>2, OneUnfolds DEF Urgent
<1>8. ASSUME NEW i \in Ids, CommsClose(i)
      PROVE  ~Answered /\ GrowsOld /\ \A j \in Ids : Unfolds(j)
  <2>1. ~Urgent /\ comms' = [comms EXCEPT ![i] = Closed(comms[i])]
        /\ (RestartAsked \/ UNCHANGED mgr)
    BY <1>8, CommsCloseDoes
  <2>2. Closed(comms[i]) \in Seen /\ Closed(comms[i]).phase = "opening"
        /\ Closed(comms[i]).waiter = comms[i].waiter
    BY <1>0, SeenStays, PhasesAre
  <2> QED BY <2>1, <2>2, OneUnfolds DEF Urgent, RestartAsked
<1>9. ASSUME NEW i \in Ids, CommsGiveUp(i)
      PROVE  ~Answered /\ GrowsOld /\ \A j \in Ids : Unfolds(j)
  <2>1. CASE /\ comms' = [comms EXCEPT ![i] = GaveUp(@)]
             /\ i = mgr.comms => "gave up" \in hist'.lapses
    <3>1. i = mgr.comms => SilentlyDown'
      BY <2>1 DEF SilentlyDown
    <3>2. GaveUp(comms[i]) \in Seen /\ GaveUp(comms[i]).phase = "gone"
          /\ (comms[i].waiter # "resolved" => GaveUp(comms[i]).waiter # "resolved")
      BY <1>0, SeenStays, PhasesAre
    <3> QED BY <1>9, <2>1, <3>1, <3>2, OneUnfolds, CommsGiveUpDoes DEF Urgent
  <2>2. CASE comms' = [comms EXCEPT ![i] = TimedOut(@)]
    <3>1. TimedOut(comms[i]) \in Seen /\ TimedOut(comms[i]).phase = comms[i].phase
          /\ (comms[i].waiter # "resolved" => TimedOut(comms[i]).waiter # "resolved")
      BY <1>0, SeenStays, PhasesAre
    <3> QED BY <1>9, <2>2, <3>1, OneUnfolds, CommsGiveUpDoes DEF Urgent
  <2> QED BY <1>9, <2>1, <2>2, CommsGiveUpDoes
<1>10. CASE PairSuccess \/ PairSaved \/ Ping \/ Pong
  BY <1>10, PairSuccessDoes, PairSavedDoes DEF Ping, Pong, Unfolds, Urgent
<1>11. CASE Resume
  <2>1. ~Urgent /\ mgr.comms \in Ids /\ UNCHANGED mgr
        /\ comms' = [comms EXCEPT ![mgr.comms] = Resumed(comms[mgr.comms])]
    BY <1>11, TypeOKIs DEF Resume, Manager
  <2>2. /\ Resumed(comms[mgr.comms]) \in Seen
        /\ Resumed(comms[mgr.comms]).phase = (IF comms[mgr.comms].phase = "gone" THEN "gone"
                                              ELSE "opening")
        /\ Resumed(comms[mgr.comms]).waiter = comms[mgr.comms].waiter
    BY <1>0, <2>1, SeenStays, PhasesAre
  <2> QED BY <2>1, <2>2, OneUnfolds DEF Urgent
<1>12. CASE Paired
  <2>1. CASE UNCHANGED <<mgr, comms>>
    BY <1>12, <2>1, PairedDoes DEF Unfolds, Urgent
  <2>2. CASE mgr.comms # None /\ comms' = [comms EXCEPT ![mgr.comms] = Held(@)]
    <3>1. mgr.comms \in Ids
      BY <2>2, TypeOKIs DEF Manager
    <3>2. /\ Held(comms[mgr.comms]) \in Seen
          /\ Held(comms[mgr.comms]).phase = comms[mgr.comms].phase
          /\ Held(comms[mgr.comms]).waiter = comms[mgr.comms].waiter
      BY <1>0, <3>1, SeenStays, PhasesAre
    <3> QED BY <1>12, <2>2, <3>1, <3>2, OneUnfolds, PairedDoes DEF Urgent
  <2> QED BY <1>12, <2>1, <2>2, PairedDoes
<1> QED BY <1>1, <1>2, <1>3, <1>4, <1>5, <1>6, <1>7, <1>8, <1>9, <1>10, <1>11, <1>12
        DEF Next, Server, Own, StreamError, FailureStanza, IdentityChange, Handlers

LEMMA ReportedAside ==
  ASSUME TypeOK, TypeOK', InTurn, Bound, InOrder, Reported, [Next]_vars, ~Operate
  PROVE  Reported'
<1>0. /\ mgr \in Manager /\ mgr' \in Manager /\ Aside
      /\ mgr'.comms = mgr.comms /\ hist'.told = hist.told
      /\ SilentlyDown => SilentlyDown'
      /\ Deciding => Deciding'
      /\ mgr.queue # <<>> => mgr'.queue # <<>> /\ op' = op
      /\ mgr'.queue # <<>> /\ Begun(op') => mgr.queue # <<>>
  <2>1. mgr \in Manager /\ mgr' \in Manager
    BY TypeOKIs DEF TypeOK, Manager
  <2>2. Aside
    BY AsideSteps
  <2> QED BY <2>1, <2>2, HeadKeptBy, DecidingAfter DEF Aside, SilentlyDown
<1>1. CASE UNCHANGED vars
  BY <1>1 DEF vars, Reported, SilentlyDown, Deciding, Places, op, Current
<1>2. CASE ~Answered /\ GrowsOld /\ \A i \in Ids : Unfolds(i)
  <2>1. hist'.told \in {"closed", "failed"} /\ mgr'.comms # None =>
          mgr'.queue # <<>> /\ op'.at = "persisting"
    BY <1>0 DEF Reported
  <2>2. hist'.told = "open" /\ mgr'.comms = None => SilentlyDown' \/ Deciding'
    BY <1>0 DEF Reported
  <2>3. mgr.comms # None => mgr.comms \in Ids /\ Unfolds(mgr.comms)
    BY <1>0, <1>2 DEF Manager
  <2>4. mgr'.comms # None => comms'[mgr'.comms].phase # "new"
    BY <1>0, <2>3 DEF Reported, Unfolds
  <2>5. ASSUME mgr.comms # None, DisconnectAsked
        PROVE  \/ mgr'.queue # <<>> /\ op'.at = "persisting" /\ op'.gen # mgr'.generation
               \/ /\ mgr'.queue # <<>> /\ op'.kind = "disconnect" /\ ~Begun(op')
                  /\ op'.gen = mgr'.generation
    <3>1. CASE mgr.queue = <<>>
      BY <1>0, <2>5, <3>1, Heads DEF DisconnectAsked, Added, Begun
    <3>2. CASE mgr.queue # <<>>
      <4>1. op.at = "persisting"
        BY <1>2, <2>5, <3>2 DEF Answered, Bound
      <4>2. op.gen <= mgr.generation /\ op.gen \in Nat /\ mgr.generation \in Nat
        BY <1>0, <3>2, OpIs DEF InOrder, Operations, Manager, Places
      <4> QED BY <1>0, <2>5, <3>2, <4>1, <4>2 DEF DisconnectAsked
    <3> QED BY <3>1, <3>2
  <2>6. ASSUME mgr.comms # None, comms[mgr.comms].phase = "gone", ~SilentlyDown
        PROVE  mgr'.queue # <<>> /\ op'.at = "persisting" /\ op'.gen # mgr'.generation
    <3>1. mgr.queue # <<>> /\ op.at = "persisting" /\ op.gen # mgr.generation
      BY <1>2, <2>6 DEF Reported, Answered, Begun, Current
    <3>2. op.gen <= mgr.generation /\ op.gen \in Nat /\ mgr.generation \in Nat
      BY <1>0, <3>1, OpIs DEF InOrder, Operations, Manager, Places
    <3> QED BY <1>0, <1>2, <3>1, <3>2 DEF GrowsOld, SameGeneration, Superseded
  <2>7. mgr'.comms # None /\ comms'[mgr'.comms].phase = "gone" =>
          \/ SilentlyDown'
          \/ mgr'.queue # <<>> /\ op'.at = "persisting" /\ op'.gen # mgr'.generation
          \/ /\ mgr'.queue # <<>> /\ op'.kind = "disconnect" /\ ~Begun(op')
             /\ op'.gen = mgr'.generation
    BY <1>0, <2>3, <2>5, <2>6 DEF Unfolds
  <2>8. ASSUME mgr'.queue # <<>>, op'.at = "waiting", comms'[op'.comms].waiter = "resolved"
        PROVE  comms'[op'.comms].phase = "up"
    <3>1. mgr.queue # <<>> /\ op' = op /\ op.at = "waiting" /\ op.comms \in Ids
      BY <1>0, <2>8 DEF Begun, InTurn
    <3>2. comms[op.comms].waiter # "resolved"
      BY <1>2, <3>1 DEF Answered
    <3> QED BY <1>2, <2>8, <3>1, <3>2 DEF Unfolds
  <2> QED BY <2>1, <2>2, <2>4, <2>7, <2>8 DEF Reported, Current
<1> QED BY <1>1, <1>2, AsideUnfolds

\* One that is superseded holds no comms, unless it persists them.
LEMMA SupersededHoldsNone ==
  ASSUME TypeOK, InOrder, Unchallenged, mgr.queue # <<>>, op.at # "persisting",
         Decides(op), ~Current(op)
  PROVE  mgr.comms = None
<1>1. op = mgr.queue[1] /\ 1 \in Places
  BY TypeOKIs, OpIs DEF Places
<1>2. PICK l \in Places : 1 < l /\ Supersedes(mgr.queue[l])
  BY <1>1 DEF InOrder
<1>3. l # 1
  BY <1>2
<1> QED BY <1>2, <1>3 DEF Unchallenged

LEMMA ReportedAtHead ==
  ASSUME TypeOK, TypeOK', InTurn, InTurn', Bound, Bound', InOrder, Unchallenged, Reported,
         Operate
  PROVE  Reported'
<1>0. /\ mgr \in Manager /\ mgr' \in Manager
      /\ Ending /\ mgr'.queue # <<>> => op'.at = "queued"
      /\ \A at : Moved(at) => /\ mgr'.queue # <<>> /\ op'.at = at
                              /\ at # "queued" => Deciding'
      /\ Ending /\ Decides(op) /\ ~Current(op) => Deciding'
      /\ Ending /\ ~Decides(op) /\ Deciding => Deciding'
      /\ Kept => (SilentlyDown => SilentlyDown')
  <2>1. mgr \in Manager /\ mgr' \in Manager
    BY TypeOKIs DEF TypeOK, Manager
  <2>2. Ending /\ mgr'.queue # <<>> => op'.at = "queued"
    BY <2>1, Heads DEF InTurn, Begun
  <2>3. Kept => (SilentlyDown => SilentlyDown')
    BY DEF Kept, SilentlyDown
  <2> QED BY <2>1, <2>2, <2>3, DecidingAfter DEF Moved
\* Afterwards nothing is held.
<1>1. ASSUME mgr'.comms = None, mgr'.queue # <<>> => op'.at # "waiting",
             hist'.told = "open" => SilentlyDown' \/ Deciding'
      PROVE  Reported'
  BY <1>1 DEF Reported
<1>2. ASSUME NEW at \in {"closing", "loading", "configuring", "failing", "cleaning", "unrouting"},
             Moved(at), mgr'.comms = None
      PROVE  Reported'
  <2>1. op'.at # "waiting" /\ Deciding'
    BY <1>0, <1>2
  <2> QED BY <1>1, <1>2, <2>1
<1>3. ASSUME HeadRejected, mgr.comms = None, Decides(op), op.kind # "disconnect"
      PROVE  Reported'
  <2>1. mgr'.comms = None /\ (mgr'.queue # <<>> => op'.at # "waiting")
    BY <1>0, <1>3 DEF HeadRejected, SameFields
  <2>2. hist'.told = "open" => SilentlyDown' \/ Deciding'
    <3>1. CASE op.kind = "connect"
      BY <1>3, <3>1 DEF HeadRejected
    <3>2. CASE op.kind # "connect" /\ Current(op)
      BY <1>3, <3>2 DEF HeadRejected, SilentlyDown
    <3>3. CASE ~Current(op)
      BY <1>0, <1>3, <3>3 DEF HeadRejected
    <3> QED BY <3>1, <3>2, <3>3
  <2> QED BY <1>1, <2>1, <2>2
\* The head ends and what is held stays.
<1>4. ASSUME Ending, SameFields, UNCHANGED comms, Kept, mgr.queue # <<>>,
             mgr.comms # None, hist'.told \notin {"closed", "failed"},
             op.at = "persisting" => Current(op), op.kind # "disconnect"
      PROVE  Reported'
  <2>1. mgr'.comms = mgr.comms /\ (mgr'.queue # <<>> => op'.at = "queued")
    BY <1>0, <1>4 DEF SameFields
  <2>2. comms'[mgr'.comms].phase # "new"
    BY <1>4, <2>1 DEF Reported
  <2>3. comms'[mgr'.comms].phase = "gone" => SilentlyDown'
    BY <1>0, <1>4, <2>1 DEF Reported
  <2> QED BY <1>4, <2>1, <2>2, <2>3 DEF Reported
<1>5. ASSUME HeadFailed, op.at \in {"waiting", "persisting"}
      PROVE  Reported'
  <2>1. mgr'.comms = None /\ Moved("failing")
    BY <1>5 DEF HeadFailed, Bound, Moved
  <2> QED BY <1>2, <2>1
<1>6. CASE BeginConnect
  <2>0. mgr.queue # <<>> /\ op.kind = "connect" /\ op.at = "queued" /\ UNCHANGED comms
        /\ Decides(op)
    BY <1>6, BeginConnectDoes DEF Decides, Supersedes
  <2>1. CASE ~Current(op) /\ HeadRejected
    BY <1>3, <2>0, <2>1, SupersededHoldsNone
  <2>2. CASE (mgr.comms # None \/ mgr.pending # None) /\ Told("open") /\ SameFields
    <3>1. mgr.comms # None
      BY <2>0, <2>2 DEF Bound
    <3> QED BY <1>4, <2>0, <2>2, <3>1 DEF Told
  <2>3. CASE mgr.comms = None /\ MovesOn("loading")
    BY <1>2, <2>3 DEF MovesOn, SameFields
  <2> QED BY <1>6, <2>1, <2>2, <2>3, BeginConnectDoes
<1>7. CASE BeginDisconnect
  <2>1. CASE Moved("closing") /\ mgr'.comms = None
    BY <1>2, <2>1
  <2>2. CASE ~Current(op) /\ Told("closed") /\ SameFields
    <3>1. mgr.comms = None
      BY <1>7, <2>2, BeginDisconnectDoes, SupersededHoldsNone DEF Decides, Supersedes
    <3> QED BY <1>0, <1>1, <2>2, <3>1 DEF Told, SameFields
  <2> QED BY <1>7, <2>1, <2>2, BeginDisconnectDoes
<1>8. CASE BeginRestart
  <2>1. CASE Moved("closing") /\ mgr'.comms = None
    BY <1>2, <2>1
  <2>2. CASE Ending /\ SameFields /\ Silent /\ UNCHANGED comms
    <3>0. ~Decides(op) /\ op.at = "queued" /\ op.kind = "restart" /\ mgr.queue # <<>>
      BY <1>8, BeginRestartDoes DEF Decides, Supersedes, Begun
    <3>1. CASE mgr.comms = None
      <4>1. hist'.told = "open" => SilentlyDown' \/ Deciding'
        BY <1>0, <2>2, <3>0, <3>1 DEF Reported, Silent
      <4> QED BY <1>0, <1>1, <2>2, <3>1, <4>1 DEF SameFields
    <3>2. CASE mgr.comms # None
      <4>1. hist'.told \notin {"closed", "failed"}
        BY <2>2, <3>0, <3>2 DEF Reported, Silent
      <4> QED BY <1>4, <2>2, <3>0, <3>2, <4>1 DEF Silent
    <3> QED BY <3>1, <3>2
  <2> QED BY <1>8, <2>1, <2>2, BeginRestartDoes
<1>9. CASE DisconnectEnds
  <2>1. mgr.comms = None /\ Told("closed") /\ SameFields
    BY <1>9, DisconnectEndsDoes DEF Bound
  <2> QED BY <1>0, <1>1, <2>1 DEF Told, SameFields
<1>10. CASE RestartClosed \/ LoadCredentials \/ ClearRoutingInfo \/ RetryWithoutRouting
  <2>1. /\ mgr.queue # <<>> /\ op.at \in {"closing", "loading", "cleaning", "unrouting"}
        /\ op.kind # "disconnect"
        /\ HeadRejected \/ MovesOn("configuring") \/ MovesOn("unrouting")
    BY <1>10, RestartClosedDoes, LoadCredentialsDoes, ClearRoutingInfoDoes,
       RetryWithoutRoutingDoes
  <2>2. mgr.comms = None /\ Decides(op)
    BY <2>1 DEF Bound, Decides, Begun
  <2> QED BY <1>2, <1>3, <2>1, <2>2 DEF MovesOn, SameFields
<1>11. CASE CreateComms
  <2>1. mgr.comms = None
    BY <1>11, CreateCommsDoes DEF Bound
  <2>2. PICK i \in Ids : /\ comms' = [comms EXCEPT ![i] = Started(@)]
                         /\ Moved("waiting") /\ op'.comms = i /\ mgr'.comms = mgr.comms
    BY <1>11, CreateCommsDoes
  <2>3. comms'[op'.comms].waiter # "resolved"
    BY <2>2, TypeOKIs, PhasesAre
  <2> QED BY <1>0, <2>1, <2>2, <2>3 DEF Reported
<1>12. CASE AdoptComms
  <2>1. CASE HeadFailed
    BY <1>5, <1>12, <2>1, AdoptCommsDoes
  <2>2. CASE /\ comms[op.comms].waiter = "resolved" /\ mgr'.comms = op.comms
             /\ UNCHANGED comms
             /\ Moved("persisting") \/ Told("open")
    <3>1. comms'[mgr'.comms].phase = "up"
      BY <1>12, <2>2, AdoptCommsDoes DEF Reported
    <3>2. op.comms # None
      BY <1>12, AdoptCommsDoes, LifecycleAssumption DEF LifecycleAssumption, InTurn, None
    <3>3. CASE Moved("persisting")
      BY <1>0, <2>2, <3>1, <3>2, <3>3 DEF Reported
    <3>4. CASE Told("open")
      BY <1>0, <2>2, <3>1, <3>2, <3>4 DEF Reported, Told
    <3> QED BY <2>2, <3>3, <3>4
  <2> QED BY <1>12, <2>1, <2>2, AdoptCommsDoes
<1>13. CASE PersistServerKey
  <2>1. CASE HeadFailed
    BY <1>5, <1>13, <2>1, PersistServerKeyDoes
  <2>2. CASE Current(op) /\ Told("open") /\ SameFields /\ UNCHANGED comms
    <3>1. mgr.comms # None /\ op.kind # "disconnect" /\ mgr.queue # <<>>
      BY <1>13, PersistServerKeyDoes DEF Bound, InTurn
    <3> QED BY <1>4, <2>2, <3>1 DEF Told
  <2> QED BY <1>13, <2>1, <2>2, PersistServerKeyDoes
<1>14. CASE Recovering
  <2>1. mgr.comms = None /\ Decides(op) /\ op.kind # "disconnect"
    BY <1>14, RecoversDoes DEF Bound, Decides, Begun, InTurn
  <2> QED BY <1>2, <1>3, <1>14, <2>1, RecoversDoes
<1> QED BY <1>6, <1>7, <1>8, <1>9, <1>10, <1>11, <1>12, <1>13, <1>14 DEF Operate, Recovering

-----------------------------------------------------------------------------
(* The credentials.                                                        *)

\* Who works with the credentials he was given.
Using(o) == \/ o.at \in {"configuring", "waiting", "persisting", "unrouting"}
            \/ o.kind = "restart" /\ o.at = "closing"
OfOneLogin(a, b) == a.epoch = b.epoch /\ a.registered = b.registered
EarlierOrSame(a, b) == a.epoch = b.epoch /\ (a.registered => b.registered)

\* What is left to do about a connection made before the pairing.
Replaced ==
  \/ auth.pairing \/ mgr.timer \/ RestartQueued
  \/ mgr.queue # <<>> /\ op.at = "persisting" /\ ~Current(op)
  \/ mgr.queue # <<>> /\ op.kind = "disconnect" /\ ~Begun(op) /\ Current(op)

\* A connection made before a pairing that is to come to its restart.
Outdated ==
  /\ mgr.comms # None /\ "logged out" \notin hist.lapses /\ ~Unfinished
  /\ auth.mem.registered /\ ~made[mgr.comms].registered

\* Operations and connections are of the login in use, but for a connection
\* made before a pairing, which is about to be replaced.
WithCurrent ==
  /\ mgr.queue # <<>> /\ Using(op) /\ "logged out" \notin hist.lapses =>
       OfOneLogin(op.creds, auth.mem)
  /\ mgr.queue # <<>> /\ op.at = "persisting" => op.creds.registered
  /\ mgr.comms # None /\ "logged out" \notin hist.lapses =>
       EarlierOrSame(made[mgr.comms], auth.mem)
  /\ Outdated => Replaced

\* A connection that an operation persists is of its login.
LEMMA PersistedIsCurrent ==
  ASSUME Bound, Watching, WithCurrent, mgr.queue # <<>>, op.at = "persisting",
         "logged out" \notin hist.lapses
  PROVE  made[mgr.comms] = op.creds /\ made[mgr.comms].registered = auth.mem.registered
BY DEF Bound, Watching, WithCurrent, Using, OfOneLogin

\* A restart that is asked for is queued, in an empty queue too.
LEMMA RestartAdded ==
  ASSUME mgr \in Manager, mgr' \in Manager
  PROVE  /\ Added("restart", 0) => RestartQueued'
         /\ mgr.queue = <<>> => ~Queued("restart")
<1>1. Len(mgr.queue) \in Nat /\ (mgr.queue = <<>> => Len(mgr.queue) = 0)
  BY QueueIs
<1>2. ASSUME Added("restart", 0) PROVE RestartQueued'
  <2>1. Len(mgr'.queue) \in Places'
    BY <1>1, <1>2 DEF Added, Places
  <2> QED BY <1>2, <2>1 DEF Added, RestartQueued, Begun
<1>3. mgr.queue = <<>> => ~Queued("restart")
  BY <1>1, QueuedIs
<1> QED BY <1>2, <1>3

\* It stays due to be replaced, whatever is asked for.
LEMMA ReplacedAside ==
  ASSUME TypeOK, TypeOK', InTurn, Bound, InOrder, Watching, WithCurrent, ~Answered,
         HeadKept, auth'.pairing = auth.pairing, Outdated,
         ConnectAsked \/ DisconnectAsked \/ RestartAsked \/ UNCHANGED mgr,
         Replaced
  PROVE  Replaced'
<1>1. /\ mgr \in Manager /\ mgr' \in Manager
      /\ mgr.queue # <<>> => mgr'.queue # <<>> /\ op' = op
      /\ \A k \in Places : k \in Places' /\ mgr'.queue[k] = mgr.queue[k]
      /\ RestartQueued => RestartQueued'
  <2>1. mgr \in Manager /\ mgr' \in Manager
    BY TypeOKIs DEF TypeOK, Manager
  <2>2. \A k \in Places : k \in Places' /\ mgr'.queue[k] = mgr.queue[k]
    BY <2>1, HeadKeptBy
  <2>3. RestartQueued => RestartQueued'
    BY <2>2 DEF RestartQueued, Begun
  <2> QED BY <2>1, <2>2, <2>3, HeadKeptBy
<1>2. mgr.queue = <<>>
  <2>1. mgr.queue # <<>> => op.at = "persisting"
    BY DEF Bound, Answered, Outdated
  <2> QED BY <2>1, PersistedIsCurrent DEF Outdated
<1>3. CASE ConnectAsked \/ UNCHANGED mgr
  BY <1>1, <1>2, <1>3 DEF Replaced, ConnectAsked
<1>4. CASE DisconnectAsked
  BY <1>1, <1>2, <1>4, Heads DEF DisconnectAsked, Replaced, Begun, Added, Current
<1>5. CASE RestartAsked
  <2>1. ~Queued("restart") /\ ~RestartQueued
    BY <1>1, <1>2, RestartAdded, QueuedIs DEF RestartQueued, Places
  <2> QED BY <1>1, <1>2, <1>5, <2>1, RestartAdded DEF RestartAsked, Replaced
<1> QED BY <1>3, <1>4, <1>5

\* The steps outside the queue, as far as they concern credentials.
LEMMA AsideLogins ==
  ASSUME TypeOK, [Next]_vars, ~Operate
  PROVE  \/ UNCHANGED <<mgr, auth>>
         \/ /\ ~Answered /\ SameLogin
            /\ ConnectAsked \/ DisconnectAsked \/ RestartAsked \/ UNCHANGED mgr
         \/ UNCHANGED mgr /\ \/ mgr.queue = <<>> /\ mgr.comms = None
                             \/ "logged out" \in hist'.lapses
         \/ PairSuccess
         \/ (PairSaved \/ Paired) /\ ~SameLogin
<1> USE DEF SameLogin, Urgent
<1>1. CASE Connect \/ Disconnect
  BY <1>1, ConnectDoes, DisconnectDoes
<1>2. ASSUME NEW p \in Handlers, NEW kind, Handle(p, kind), ~Urgent
      PROVE  ~Answered /\ SameLogin /\ (DisconnectAsked \/ UNCHANGED mgr)
  BY <1>2, HandleDoes
<1>3. CASE ForceLogin
  BY <1>2, <1>3, ForceLoginDoes DEF Handlers
<1>4. CASE RestartTimerFires
  BY <1>4, TypeOKIs, RestartAskedBy DEF RestartTimerFires
<1>5. ASSUME NEW p \in Handlers, GoOn(p)
      PROVE  ~Answered /\ SameLogin /\ (ConnectAsked \/ UNCHANGED mgr)
  BY <1>5, GoOnDoes
<1>6. ASSUME NEW p \in Handlers, Drained(p) \/ Wiped(p)
      PROVE  /\ UNCHANGED mgr
             /\ \/ ~Answered /\ SameLogin
                \/ mgr.queue = <<>> /\ mgr.comms = None
                \/ "logged out" \in hist'.lapses
  BY <1>6, WipeDoes
<1>7. ASSUME NEW i \in Ids, CommsComeUp(i) \/ CommsClose(i) \/ CommsGiveUp(i)
      PROVE  ~Answered /\ SameLogin /\ (RestartAsked \/ UNCHANGED mgr)
  BY <1>7, CommsCloseDoes, CommsGiveUpDoes DEF CommsComeUp
<1>8. CASE Resume \/ Ping \/ Pong \/ UNCHANGED vars
  BY <1>8 DEF Resume, Ping, Pong, vars
<1>9. ASSUME PairSaved \/ Paired, SameLogin
      PROVE  ~Answered /\ SameLogin /\ UNCHANGED mgr
  BY <1>9, PairSavedDoes, PairedDoes
<1> QED BY <1>1, <1>2, <1>3, <1>4, <1>5, <1>6, <1>7, <1>8, <1>9
        DEF Next, Server, Own, StreamError, FailureStanza, IdentityChange, Handlers

LEMMA WithCurrentAside ==
  ASSUME TypeOK, TypeOK', InTurn, Bound, InOrder, Watching, WithCurrent, [Next]_vars, ~Operate
  PROVE  WithCurrent'
<1>0. /\ mgr \in Manager /\ mgr' \in Manager /\ HeadKept
      /\ mgr'.comms = mgr.comms /\ made' = made /\ hist.lapses \subseteq hist'.lapses
      /\ mgr.queue # <<>> => mgr'.queue # <<>> /\ op' = op
      /\ mgr'.queue # <<>> /\ Begun(op') => mgr.queue # <<>>
  <2>1. mgr \in Manager /\ mgr' \in Manager
    BY TypeOKIs DEF TypeOK, Manager
  <2>2. Aside
    BY AsideSteps
  <2> QED BY <2>1, <2>2, HeadKeptBy DEF Aside
<1>1. /\ mgr'.queue # <<>> /\ Using(op') => mgr.queue # <<>> /\ op' = op /\ Using(op)
      /\ mgr'.queue # <<>> /\ op'.at = "persisting" => op'.creds.registered
  BY <1>0 DEF Using, Begun, WithCurrent
<1>2. CASE UNCHANGED <<mgr, auth>>
  <2>1. /\ mgr'.queue # <<>> /\ Using(op') /\ "logged out" \notin hist'.lapses =>
             OfOneLogin(op'.creds, auth'.mem)
        /\ mgr'.comms # None /\ "logged out" \notin hist'.lapses =>
             EarlierOrSame(made'[mgr'.comms], auth'.mem)
    BY <1>0, <1>1, <1>2 DEF WithCurrent
  <2>2. Replaced => Replaced'
    BY <1>2 DEF Replaced, RestartQueued, Places, op, Current
  <2>3. Outdated' => Outdated
    BY <1>0, <1>2 DEF Outdated, Unfinished
  <2> QED BY <1>1, <2>1, <2>2, <2>3 DEF WithCurrent
<1>3. CASE /\ ~Answered /\ SameLogin
           /\ ConnectAsked \/ DisconnectAsked \/ RestartAsked \/ UNCHANGED mgr
  <2>1. /\ mgr'.queue # <<>> /\ Using(op') /\ "logged out" \notin hist'.lapses =>
             OfOneLogin(op'.creds, auth'.mem)
        /\ mgr'.comms # None /\ "logged out" \notin hist'.lapses =>
             EarlierOrSame(made'[mgr'.comms], auth'.mem)
    BY <1>0, <1>1, <1>3 DEF WithCurrent, SameLogin
  <2>2. ASSUME Outdated' PROVE Replaced'
    <3>1. Outdated /\ Replaced
      BY <1>0, <1>3, <2>2 DEF Outdated, Unfinished, SameLogin, WithCurrent
    <3> QED BY <1>0, <1>3, <3>1, ReplacedAside DEF SameLogin
  <2> QED BY <1>1, <2>1, <2>2 DEF WithCurrent
<1>4. CASE /\ UNCHANGED mgr
           /\ ((mgr.queue = <<>> /\ mgr.comms = None) \/ "logged out" \in hist'.lapses)
  BY <1>0, <1>1, <1>4 DEF WithCurrent, Outdated
<1>5. CASE PairSuccess
  <2>1. /\ ~Answered /\ mgr.comms # None /\ ~auth.mem.registered
        /\ auth'.mem.epoch = auth.mem.epoch /\ auth'.mem.registered /\ auth'.pairing
        /\ hist'.lapses = hist.lapses
    BY <1>5, PairSuccessDoes DEF Urgent
  <2>2. "logged out" \in hist.lapses \/ mgr.queue = <<>>
    <3>1. mgr.queue # <<>> => op.at = "persisting"
      BY <2>1 DEF Bound, Answered
    <3> QED BY <2>1, <3>1 DEF WithCurrent, Using, OfOneLogin
  <2>3. "logged out" \notin hist'.lapses => EarlierOrSame(made'[mgr'.comms], auth'.mem)
    BY <1>0, <2>1 DEF WithCurrent, EarlierOrSame
  <2> QED BY <1>0, <1>1, <2>1, <2>2, <2>3 DEF WithCurrent, Replaced
<1>6. CASE (PairSaved \/ Paired) /\ ~SameLogin
  <2>1. /\ auth'.mem = auth.mem
        /\ mgr'.timer = TRUE \/ hist'.lapses \cap {"unsaved", "unconfirmed"} # {}
    BY <1>6, PairSavedDoes, PairedDoes DEF SameLogin
  <2>2. /\ mgr'.queue # <<>> /\ Using(op') /\ "logged out" \notin hist'.lapses =>
             OfOneLogin(op'.creds, auth'.mem)
        /\ mgr'.comms # None /\ "logged out" \notin hist'.lapses =>
             EarlierOrSame(made'[mgr'.comms], auth'.mem)
    BY <1>0, <1>1, <2>1 DEF WithCurrent
  <2>3. Outdated' => Replaced'
    BY <2>1 DEF Outdated, Unfinished, Replaced
  <2> QED BY <1>1, <2>2, <2>3 DEF WithCurrent
<1> QED BY <1>2, <1>3, <1>4, <1>5, <1>6, AsideLogins

LEMMA RestartStays ==
  ASSUME mgr \in Manager, mgr' \in Manager, Ending, op.kind # "restart", RestartQueued
  PROVE  RestartQueued'
<1>1. /\ op = mgr.queue[1] /\ Len(mgr.queue) \in Nat /\ Len(mgr'.queue) = Len(mgr.queue) - 1
      /\ \A k \in 1..Len(mgr'.queue) : mgr'.queue[k] = mgr.queue[k + 1]
  BY Heads, QueueIs DEF Ending
<1>2. PICK k \in Places : mgr.queue[k].kind = "restart" /\ ~Begun(mgr.queue[k])
  BY DEF RestartQueued
<1>3. k - 1 \in Places' /\ mgr'.queue[k - 1] = mgr.queue[k]
  BY <1>1, <1>2 DEF Places
<1> QED BY <1>2, <1>3 DEF RestartQueued, Begun

LEMMA WithCurrentAtHead ==
  ASSUME TypeOK, TypeOK', InTurn, InTurn', Bound, Bound', InOrder, Unchallenged, Watching,
         WithCurrent, Operate
  PROVE  WithCurrent'
<1>0. /\ mgr \in Manager /\ mgr' \in Manager
      /\ Ending /\ mgr'.queue # <<>> => ~Using(op')
      /\ Ending /\ mgr'.queue # <<>> => op'.at = "queued"
  <2>1. mgr \in Manager /\ mgr' \in Manager
    BY TypeOKIs DEF TypeOK, Manager
  <2>2. Ending /\ mgr'.queue # <<>> => op'.at = "queued"
    BY <2>1, Heads DEF InTurn, Begun
  <2> QED BY <2>1, <2>2 DEF Using
\* Afterwards nothing is held, and nothing was begun or what was goes on.
<1>1. ASSUME mgr'.comms = None, mgr'.queue # <<>> => op'.at # "persisting",
             mgr'.queue # <<>> /\ Using(op') /\ "logged out" \notin hist'.lapses =>
               OfOneLogin(op'.creds, auth'.mem)
      PROVE  WithCurrent'
  BY <1>1 DEF WithCurrent, Outdated
<1>2. ASSUME Ending, mgr'.comms = None PROVE WithCurrent'
  BY <1>0, <1>1, <1>2
<1>3. ASSUME NEW at, Moved(at), mgr'.comms = None, at # "persisting",
             \/ op'.kind # "restart" /\ at = "closing"
             \/ at \in {"loading", "failing", "cleaning"}
             \/ op'.creds = auth'.mem
             \/ op'.creds = op.creds /\ Using(op) /\ SameLogin /\ hist.lapses \subseteq hist'.lapses
      PROVE  WithCurrent'
  <2>1. mgr.queue # <<>> /\ op'.at = at
    BY <1>3 DEF Moved
  <2>2. Using(op') /\ "logged out" \notin hist'.lapses => OfOneLogin(op'.creds, auth'.mem)
    BY <1>3, <2>1 DEF Using, OfOneLogin, WithCurrent, SameLogin
  <2> QED BY <1>1, <1>3, <2>1, <2>2
<1>4. ASSUME HeadFailed, op.at \in {"waiting", "persisting"}
      PROVE  WithCurrent'
  <2>1. mgr'.comms = None /\ Moved("failing")
    BY <1>4 DEF HeadFailed, Bound, Moved
  <2> QED BY <1>3, <2>1
<1>6. CASE BeginConnect
  <2>0. mgr.queue # <<>> /\ op.kind = "connect" /\ op.at = "queued"
        /\ UNCHANGED <<made, auth>> /\ Decides(op)
    BY <1>6, BeginConnectDoes DEF Decides, Supersedes
  <2>1. CASE ~Current(op) /\ HeadRejected
    <3>1. mgr.comms = None
      BY <2>0, <2>1, SupersededHoldsNone
    <3> QED BY <1>2, <2>1, <3>1 DEF HeadRejected, SameFields
  <2>2. CASE Told("open") /\ SameFields
    <3>1. Ending /\ Kept /\ mgr'.comms = mgr.comms /\ mgr'.timer = mgr.timer
      BY <2>2 DEF Told, SameFields
    <3>2. RestartQueued => RestartQueued'
      BY <1>0, <2>0, <3>1, RestartStays
    <3>3. Replaced => Replaced'
      BY <2>0, <3>1, <3>2 DEF Replaced
    <3>4. Outdated' => Outdated
      BY <2>0, <3>1 DEF Outdated, Unfinished, Kept
    <3> QED BY <1>0, <2>0, <3>1, <3>3, <3>4 DEF WithCurrent, Kept
  <2>3. CASE mgr.comms = None /\ MovesOn("loading")
    BY <1>3, <2>3 DEF MovesOn, SameFields
  <2> QED BY <1>6, <2>1, <2>2, <2>3, BeginConnectDoes
<1>7. CASE BeginDisconnect
  <2>1. CASE Moved("closing") /\ mgr'.comms = None
    <3>1. op'.kind # "restart"
      BY <1>7, <2>1, BeginDisconnectDoes DEF Moved
    <3> QED BY <1>3, <2>1, <3>1
  <2>2. CASE ~Current(op) /\ Told("closed") /\ SameFields
    <3>1. mgr.comms = None
      BY <1>7, <2>2, BeginDisconnectDoes, SupersededHoldsNone DEF Decides, Supersedes
    <3> QED BY <1>2, <2>2, <3>1 DEF Told, SameFields
  <2> QED BY <1>7, <2>1, <2>2, BeginDisconnectDoes
<1>8. CASE BeginRestart
  <2>1. CASE Moved("closing") /\ mgr'.comms = None /\ op'.creds = auth.mem
    BY <1>3, <1>8, <2>1, BeginRestartDoes
  <2>2. CASE /\ ~auth.mem.registered \/ mgr.comms = None \/ "no handler" \in hist'.lapses
             /\ Ending /\ SameFields /\ Silent
    <3>1. UNCHANGED <<made, auth>> /\ mgr'.comms = mgr.comms
          /\ hist.lapses \subseteq hist'.lapses
      BY <1>8, <2>2, BeginRestartDoes DEF SameFields, Silent, Kept
    <3>2. /\ mgr'.queue # <<>> => ~Using(op') /\ op'.at # "persisting"
          /\ mgr'.comms # None /\ "logged out" \notin hist'.lapses =>
             EarlierOrSame(made'[mgr'.comms], auth'.mem)
      BY <1>0, <2>2, <3>1 DEF WithCurrent
    <3>3. ~Outdated'
      BY <2>2, <3>1 DEF Outdated, Unfinished
    <3> QED BY <3>2, <3>3 DEF WithCurrent
  <2> QED BY <1>8, <2>1, <2>2, BeginRestartDoes
<1>9. CASE DisconnectEnds
  <2>1. mgr.comms = None /\ Told("closed") /\ SameFields
    BY <1>9, DisconnectEndsDoes DEF Bound
  <2> QED BY <1>2, <2>1 DEF Told, SameFields
<1>10. CASE RestartClosed \/ LoadCredentials \/ ClearRoutingInfo \/ RetryWithoutRouting
  <2>1. mgr.comms = None
    BY <1>10, RestartClosedDoes, LoadCredentialsDoes, ClearRoutingInfoDoes,
       RetryWithoutRoutingDoes DEF Bound
  <2>2. CASE HeadRejected
    BY <1>2, <2>1, <2>2 DEF HeadRejected, SameFields
  <2>3. CASE MovesOn("unrouting") /\ op'.creds = auth'.mem
    BY <1>3, <2>1, <2>3 DEF MovesOn, SameFields
  <2>4. CASE MovesOn("configuring") /\ op'.creds = auth'.mem
    BY <1>3, <2>1, <2>4 DEF MovesOn, SameFields
  <2>5. CASE /\ MovesOn("configuring") /\ op'.creds = op.creds /\ Silent
             /\ RestartClosed \/ RetryWithoutRouting
    <3>1. Using(op) /\ SameLogin
      BY <2>5, RestartClosedDoes, RetryWithoutRoutingDoes DEF Using, SameLogin
    <3> QED BY <1>3, <2>1, <2>5, <3>1 DEF MovesOn, SameFields, Silent, Kept
  <2> QED BY <1>10, <2>2, <2>3, <2>4, <2>5, RestartClosedDoes, LoadCredentialsDoes,
             ClearRoutingInfoDoes, RetryWithoutRoutingDoes
<1>11. CASE CreateComms
  <2>1. mgr'.comms = None /\ Using(op) /\ SameLogin /\ hist.lapses \subseteq hist'.lapses
        /\ Moved("waiting") /\ op'.creds = op.creds
    BY <1>11, CreateCommsDoes DEF Bound, Using, SameLogin, Silent, Kept
  <2> QED BY <1>3, <2>1
<1>12. CASE AdoptComms
  <2>1. CASE HeadFailed
    BY <1>4, <1>12, <2>1, AdoptCommsDoes
  <2>2. CASE /\ mgr'.comms = op.comms /\ UNCHANGED <<made, auth>>
             /\ \/ /\ op.creds.registered /\ Moved("persisting") /\ Silent
                   /\ op'.creds = op.creds
                \/ Told("open")
    <3>1. made[op.comms] = op.creds /\ Using(op) /\ mgr.queue # <<>>
      BY <1>12, AdoptCommsDoes DEF Watching, Using
    <3>2. hist.lapses \subseteq hist'.lapses
      BY <2>2 DEF Silent, Told, Kept
    <3>3. "logged out" \notin hist'.lapses => OfOneLogin(op.creds, auth.mem)
      BY <3>1, <3>2 DEF WithCurrent
    <3>4. /\ "logged out" \notin hist'.lapses =>
               /\ made'[mgr'.comms].epoch = auth'.mem.epoch
               /\ made'[mgr'.comms].registered = auth'.mem.registered
      BY <2>2, <3>1, <3>3 DEF OfOneLogin
    <3>5. /\ mgr'.queue # <<>> /\ Using(op') /\ "logged out" \notin hist'.lapses =>
               OfOneLogin(op'.creds, auth'.mem)
          /\ mgr'.queue # <<>> /\ op'.at = "persisting" => op'.creds.registered
      BY <1>0, <2>2, <3>3 DEF Told
    <3> QED BY <3>4, <3>5 DEF WithCurrent, EarlierOrSame, Outdated
  <2> QED BY <1>12, <2>1, <2>2, AdoptCommsDoes
<1>13. CASE PersistServerKey
  <2>1. CASE HeadFailed
    BY <1>4, <1>13, <2>1, PersistServerKeyDoes
  <2>2. CASE Told("open") /\ SameFields /\ SameLogin /\ UNCHANGED made
    <3>1. /\ mgr.queue # <<>> /\ op.at = "persisting" /\ Ending
          /\ mgr'.comms = mgr.comms /\ hist.lapses \subseteq hist'.lapses
      BY <1>13, <2>2, PersistServerKeyDoes DEF Told, Kept, SameFields
    <3>2. "logged out" \notin hist'.lapses =>
             made[mgr.comms].registered = auth.mem.registered
      BY <3>1, PersistedIsCurrent
    <3>3. ~Outdated'
      BY <2>2, <3>1, <3>2 DEF Outdated, SameLogin
    <3> QED BY <1>0, <2>2, <3>1, <3>3 DEF WithCurrent, SameLogin
  <2> QED BY <1>13, <2>1, <2>2, PersistServerKeyDoes
<1>14. CASE Recovering
  <2>1. mgr.comms = None
    BY <1>14, RecoversDoes DEF Bound
  <2>2. CASE HeadRejected
    BY <1>2, <2>1, <2>2 DEF HeadRejected, SameFields
  <2> QED BY <1>3, <1>14, <2>2, RecoversDoes
<1> QED BY <1>6, <1>7, <1>8, <1>9, <1>10, <1>11, <1>12, <1>13, <1>14 DEF Operate, Recovering

-----------------------------------------------------------------------------
(* The theorems of the connection that is held.                            *)

HeldInvariant == Watching /\ Reported /\ WithCurrent

LEMMA HeldInvariantHolds == Spec => []HeldInvariant
<1>1. Init => HeldInvariant
  <2> SUFFICES ASSUME Init PROVE HeldInvariant
    OBVIOUS
  <2>1. /\ mgr.queue = <<>> /\ mgr.comms = None /\ alive = "off" /\ hist.told = "nothing"
    BY DEF Init
  <2> QED BY <2>1 DEF HeldInvariant, Watching, Reported, WithCurrent, Outdated
<1>2. QueueInvariant /\ QueueInvariant' /\ HeldInvariant /\ [Next]_vars => HeldInvariant'
  <2> SUFFICES ASSUME QueueInvariant, QueueInvariant', HeldInvariant, [Next]_vars
               PROVE  HeldInvariant'
    OBVIOUS
  <2>1. /\ TypeOK /\ InTurn /\ Bound /\ InOrder /\ Unchallenged
        /\ TypeOK' /\ InTurn' /\ Bound'
        /\ Watching /\ Reported /\ WithCurrent
    BY DEF QueueInvariant, HeldInvariant
  <2>2. CASE Operate
    BY <2>1, <2>2, WatchingAtHead, ReportedAtHead, WithCurrentAtHead DEF HeldInvariant
  <2>3. CASE ~Operate
    BY <2>1, <2>3, AsideSteps, WatchingAside, ReportedAside, WithCurrentAside
       DEF HeldInvariant
  <2> QED BY <2>2, <2>3
<1> QED BY <1>1, <1>2, QueueInvariantHolds, PTL DEF Spec

\* Once nothing is under way, the queue is empty.
LEMMA QuietIs ==
  ASSUME TypeOK, Bound, Quiet
  PROVE  /\ mgr.queue = <<>> /\ Places = {} /\ mgr.pending = None
         /\ ~Deciding /\ ~Replaced
BY DEF Quiet, Bound, Places, Deciding, Replaced, RestartQueued

(* Once nothing is under way, what the application heard last is how things *)
(* are, whatever superseded what: a connection is let go of only by an      *)
(* operation that goes on to report it, and one reported closed is not held *)
(* by anyone.                                                               *)
THEOREM ReportsAreTrue == Spec => []ApplicationKnows
<1>1. QueueInvariant /\ HeldInvariant => ApplicationKnows
  <2> SUFFICES ASSUME TypeOK, Bound, Reported, Quiet
               PROVE  /\ hist.told \in {"closed", "failed"} => \A i \in Ids : ~Live(i)
                      /\ hist.told = "open" => Live(mgr.comms) \/ SilentlyDown
    BY DEF QueueInvariant, HeldInvariant, ApplicationKnows
  <2>1. mgr.queue = <<>> /\ mgr.pending = None /\ ~Deciding
    BY QuietIs
  <2>2. ASSUME hist.told \in {"closed", "failed"}, NEW i \in Ids
        PROVE  ~Live(i)
    <3>1. mgr.comms = None
      BY <2>1, <2>2 DEF Reported
    <3> QED BY <2>1, <3>1, LifecycleAssumption DEF LifecycleAssumption, Bound, None
  <2>3. ASSUME hist.told = "open", ~SilentlyDown
        PROVE  Live(mgr.comms)
    <3>1. mgr.comms # None /\ comms[mgr.comms].phase \notin {"new", "gone"}
      BY <2>1, <2>3 DEF Reported
    <3>2. mgr.comms \in Ids /\ comms[mgr.comms].phase \in Phases
      BY <3>1, TypeOKIs DEF Manager, Seen
    <3> QED BY <3>1, <3>2 DEF Live, Phases
  <2> QED BY <2>2, <2>3
<1> QED BY <1>1, QueueInvariantHolds, HeldInvariantHolds, PTL

(* Every registered connection is watched, and what is left of the          *)
(* keep-alive without one follows a failure that was reported or lost.      *)
THEOREM KeptAlive == Spec => []KeepAliveWatches
<1>1. QueueInvariant /\ HeldInvariant => KeepAliveWatches
  <2> SUFFICES ASSUME TypeOK, Bound, Watching PROVE KeepAliveWatches
    BY DEF QueueInvariant, HeldInvariant
  <2>1. mgr.comms # None => (made[mgr.comms].registered <=> alive # "off")
    BY DEF Watching
  <2>2. Quiet /\ alive # "off" /\ mgr.comms = None =>
          "restart failed" \in hist.lapses \/ hist.told = "failed"
    BY QuietIs DEF Watching
  <2> QED BY <2>1, <2>2 DEF KeepAliveWatches
<1> QED BY <1>1, QueueInvariantHolds, HeldInvariantHolds, PTL

(* Once nothing is under way the connection is of the login in use: what is *)
(* configured and started takes its credentials from there, and a           *)
(* connection that a pairing leaves behind is due to be replaced by the     *)
(* restart that the pairing owes.                                           *)
THEOREM ConnectedAsCurrent == Spec => []CurrentCredentials
<1>1. QueueInvariant /\ HeldInvariant => CurrentCredentials
  <2> SUFFICES ASSUME TypeOK, Bound, WithCurrent, Quiet, Live(mgr.comms),
                      "logged out" \notin hist.lapses
               PROVE  /\ made[mgr.comms].epoch = auth.mem.epoch
                      /\ made[mgr.comms].registered => auth.mem.registered
                      /\ auth.mem.registered => made[mgr.comms].registered \/ Unfinished
    BY DEF QueueInvariant, HeldInvariant, CurrentCredentials
  <2>1. mgr.comms # None
    BY LifecycleAssumption DEF LifecycleAssumption, Live, None
  <2> QED BY <2>1, QuietIs DEF WithCurrent, EarlierOrSame, Outdated
<1> QED BY <1>1, QueueInvariantHolds, HeldInvariantHolds, PTL
=============================================================================
