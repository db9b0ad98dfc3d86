------------------------------- MODULE Lifecycle -------------------------------
(***************************************************************************)
(* Who brings the connection up and down: WaConnectionManager with its     *)
(* queue of operations and the generation that tells a superseded one, the *)
(* handlers of stream errors and failure stanzas, the user's calls, the    *)
(* restart after pairing, the keep-alive, and the credentials they work    *)
(* with.  The WaComms under them are those of CommsContract.               *)
(*                                                                         *)
(* A step is what runs until the next await that takes time.  What a step  *)
(* releases at once (the next operation, an answered wait, a caller that   *)
(* goes on) comes before anything else, see Urgent.                        *)
(***************************************************************************)
EXTENDS CommsContract, Naturals, SequencesExt

CONSTANTS
  MaxConnects,     \* bounds of the model: connects the user asks for,
  MaxDisconnects,  \* disconnects he asks for,
  MaxFatal,        \* stream errors and failure stanzas that end a session,
  MaxPairings,     \* companions paired,
  MaxFaults        \* loads, saves, configurations, waits and connections that fail

ASSUME LifecycleAssumption ==
  /\ Ids # {} /\ Ids \subseteq Nat \ {0}
  /\ {MaxConnects, MaxDisconnects, MaxFatal, MaxPairings, MaxFaults} \subseteq Nat

VARIABLES
  made,    \* the credentials each WaComms was built with
  mgr,     \* the fields of WaConnectionManager
  caller,  \* the handlers that await a lifecycle of several operations
  auth,    \* the credentials in memory, in the store, and those a pairing saves
  alive,   \* the keep-alive: off, its timer set, or a ping sent
  hist     \* what was asked for, what the application was told (history)

vars == <<comms, made, mgr, caller, auth, alive, hist>>

-----------------------------------------------------------------------------
None == 0

\* A login: epoch tells one account's from the next, which a logout separates.
Credentials == [epoch : Nat, registered : BOOLEAN, routing : BOOLEAN]
NoCredentials == [epoch |-> 0, registered |-> FALSE, routing |-> FALSE]

\* An operation of the lifecycle queue.  at is what it awaits; again: the try
\* without routing info; by: the handler that awaits a disconnect.
Handlers == {"stream", "failure", "identity"}
Operations ==
  [kind : {"connect", "disconnect", "restart"}, gen : Nat,
   at : {"queued", "closing", "loading", "configuring", "waiting", "persisting",
         "failing", "cleaning", "unrouting"},
   creds : Credentials, comms : Ids \cup {None}, again : BOOLEAN,
   by : Handlers \cup {"user"}]
Operation(kind, gen, by) ==
  [kind |-> kind, gen |-> gen, at |-> "queued", creds |-> NoCredentials,
   comms |-> None, again |-> FALSE, by |-> by]

\* What a handler awaits, and what it still has to do after its disconnect.
Idle == [at |-> "idle", clears |-> FALSE, connects |-> FALSE]
HandlerType == [at : {"idle", "disconnecting", "returned", "draining", "wiping", "connecting"},
                clears : BOOLEAN, connects : BOOLEAN]

Lapses == {"joined", "logged out", "no handler", "gave up", "unsaved", "unconfirmed",
           "restart failed"}

TypeOK ==
  /\ comms \in [Ids -> Seen] /\ made \in [Ids -> Credentials]
  /\ mgr \in [comms : Ids \cup {None}, pending : Ids \cup {None}, timer : BOOLEAN,
              handler : BOOLEAN, generation : Nat, queue : Seq(Operations)]
  /\ caller \in [Handlers -> HandlerType]
  /\ auth \in [mem : Credentials, store : Credentials, saving : Credentials,
               pairing : BOOLEAN]
  /\ alive \in {"off", "scheduled", "sent"}
  /\ hist \in [connects : 0..MaxConnects, disconnects : 0..MaxDisconnects,
               fatal : 0..MaxFatal, pairings : 0..MaxPairings, faults : 0..MaxFaults,
               restarts : Nat, epochs : Nat, told : {"nothing", "open", "closed", "failed"},
               lapses : SUBSET Lapses]

Init ==
  /\ comms = [i \in Ids |-> New] /\ made = [i \in Ids |-> NoCredentials]
  /\ mgr = [comms |-> None, pending |-> None, timer |-> FALSE, handler |-> FALSE,
            generation |-> 0, queue |-> <<>>]
  /\ caller = [p \in Handlers |-> Idle]
  /\ \E registered, routing \in BOOLEAN :
       LET creds == [epoch |-> 1, registered |-> registered, routing |-> routing]
       IN auth = [mem |-> NoCredentials, store |-> creds, saving |-> NoCredentials,
                  pairing |-> FALSE]
  /\ alive = "off"
  /\ hist = [connects |-> 0, disconnects |-> 0, fatal |-> 0, pairings |-> 0, faults |-> 0,
             restarts |-> 0, epochs |-> 1, told |-> "nothing", lapses |-> {}]

-----------------------------------------------------------------------------
(* What runs.                                                              *)

op == Head(mgr.queue)
Running(kind, at) == mgr.queue # <<>> /\ op.kind \in kind /\ op.at = at
Current(o) == o.gen = mgr.generation
Queued(kind) == \E o \in ToSet(mgr.queue) : o.kind = kind

Answered == \/ mgr.queue # <<>> /\ op.at = "queued"
            \/ mgr.queue # <<>> /\ op.at = "waiting" /\ comms[op.comms].waiter # "waiting"

\* What runs before the next timer, socket event, answer of a store or call.
Urgent == Answered \/ \E p \in Handlers : caller[p].at = "returned"

Fault == hist.faults < MaxFaults
Failed == [hist EXCEPT !.faults = @ + 1]
Lapsing(h, lapse, if) == IF if THEN [h EXCEPT !.lapses = @ \cup {lapse}] ELSE h

Stop(ids) == [i \in Ids |-> IF i \in ids THEN Stopped(comms[i]) ELSE comms[i]]
Unbound(m, i) == IF m.comms \in {None, i} THEN [m EXCEPT !.comms = None] ELSE m

Putting(m, o) == [m EXCEPT !.queue[1] = o]
Enqueued(m, o) == [m EXCEPT !.queue = Append(@, o)]

\* The end of the operation: whoever awaits it goes on.
Ended(m) == [m EXCEPT !.queue = Tail(@)]
Waking ==
  [p \in Handlers |->
     IF \/ op.kind = "disconnect" /\ op.by = p
        \/ op.kind = "connect" /\ caller[p].at = "connecting"
     THEN [caller[p] EXCEPT !.at = "returned"] ELSE caller[p]]
Telling(h, what) == [h EXCEPT !.told = what]

\* Its promise is rejected: whoever called connect hears of it, but for a
\* pairing restart there is only the log.
Rejected(h) == IF op.kind = "connect" THEN Telling(h, "failed")
               ELSE Lapsing(h, "restart failed", Current(op))
Rejects(h) == /\ mgr' = Ended(mgr) /\ caller' = Waking /\ hist' = Rejected(h)
              /\ UNCHANGED <<comms, made, auth, alive>>

\* disconnectInternal up to its first await.
Disconnecting(m) == [m EXCEPT !.timer = FALSE, !.handler = FALSE, !.pending = None,
                              !.comms = None]

-----------------------------------------------------------------------------
(* The calls.                                                              *)

Connecting(m) ==
  IF Queued("connect") THEN m
  ELSE Enqueued([m EXCEPT !.handler = TRUE, !.generation = @ + 1],
                Operation("connect", m.generation + 1, "user"))

Connect ==
  /\ ~Urgent /\ ~Queued("connect") /\ hist.connects < MaxConnects
  /\ mgr' = Connecting(mgr)
  /\ hist' = [hist EXCEPT !.connects = @ + 1]
  /\ UNCHANGED <<comms, made, caller, auth, alive>>

\* Faulty variant of Disconnected: a connect under way is not superseded.
DisconnectedInTurn(m, by) ==
  Enqueued([m EXCEPT !.timer = FALSE, !.pending = None],
           Operation("disconnect", m.generation, by))

Disconnected(m, by) ==
  Enqueued([m EXCEPT !.timer = FALSE, !.generation = @ + 1, !.pending = None],
           Operation("disconnect", m.generation + 1, by))

Disconnect ==
  /\ ~Urgent /\ hist.disconnects < MaxDisconnects
  /\ mgr' = Disconnected(mgr, "user")
  /\ comms' = Stop({mgr.pending})
  /\ hist' = [hist EXCEPT !.disconnects = @ + 1]
  /\ UNCHANGED <<made, caller, auth, alive>>

\* Faulty variant of StartPairRestart: leaves the timer running.
StartPairRestartAgain(m) ==
  IF ~m.timer \/ Queued("restart") THEN m
  ELSE Enqueued(m, Operation("restart", 0, "user"))

\* A restart already queued or running is joined.
StartPairRestart(m) ==
  IF ~m.timer THEN m
  ELSE IF Queued("restart") THEN [m EXCEPT !.timer = FALSE]
  ELSE Enqueued([m EXCEPT !.timer = FALSE], Operation("restart", 0, "user"))

-----------------------------------------------------------------------------
(* The operations, one at a time: each action is what runs until the next  *)
(* await.                                                                  *)

BeginConnect ==
  /\ Running({"connect"}, "queued")
  /\ \/ ~Current(op) /\ Rejects(hist)
     \/ /\ Current(op)
        /\ IF mgr.comms # None \/ mgr.pending # None
           THEN mgr' = Ended(mgr) /\ caller' = Waking /\ hist' = Telling(hist, "open")
           ELSE /\ mgr' = Putting(mgr, [op EXCEPT !.at = "loading", !.creds = auth.store])
                /\ UNCHANGED <<caller, hist>>
        /\ UNCHANGED <<comms, made, auth, alive>>

\* Faulty variant of BeginDisconnect: forgets the keep-alive.
BeginDisconnectWatching ==
  /\ Running({"disconnect"}, "queued")
  /\ IF Current(op)
     THEN /\ mgr' = Putting(Disconnecting(mgr), [op EXCEPT !.at = "closing"])
          /\ comms' = Stop({mgr.comms, mgr.pending}) /\ UNCHANGED <<caller, hist>>
     ELSE /\ mgr' = Ended(mgr) /\ caller' = Waking /\ hist' = Telling(hist, "closed")
          /\ UNCHANGED comms
  /\ UNCHANGED <<made, auth, alive>>

BeginDisconnect ==
  /\ Running({"disconnect"}, "queued")
  /\ IF Current(op)
     THEN /\ mgr' = Putting(Disconnecting(mgr), [op EXCEPT !.at = "closing"])
          /\ comms' = Stop({mgr.comms, mgr.pending}) /\ alive' = "off"
          /\ UNCHANGED <<caller, hist>>
     ELSE /\ mgr' = Ended(mgr) /\ caller' = Waking /\ hist' = Telling(hist, "closed")
          /\ UNCHANGED <<comms, alive>>
  /\ UNCHANGED <<made, auth>>

BeginRestart ==
  /\ Running({"restart"}, "queued")
  /\ IF mgr.handler /\ auth.mem.registered /\ mgr.comms # None
     THEN LET gen == mgr.generation + 1
          IN /\ mgr' = Putting([mgr EXCEPT !.generation = gen, !.comms = None],
                               [op EXCEPT !.at = "closing", !.gen = gen, !.creds = auth.mem])
             /\ comms' = Stop({mgr.comms}) /\ alive' = "off"
             /\ hist' = [hist EXCEPT !.restarts = @ + 1]
             /\ UNCHANGED caller
     ELSE /\ mgr' = Ended(mgr) /\ caller' = Waking
          /\ hist' = Lapsing(hist, "no handler", ~mgr.handler)
          /\ UNCHANGED <<comms, alive>>
  /\ UNCHANGED <<made, auth>>

DisconnectEnds ==
  /\ Running({"disconnect"}, "closing")
  /\ mgr' = Ended(mgr) /\ caller' = Waking /\ hist' = Telling(hist, "closed")
  /\ UNCHANGED <<comms, made, auth, alive>>

\* startCommsWithCredentials: up to the end of buildCommsConfig.
Configuring(o, creds) == Putting(mgr, [o EXCEPT !.at = "configuring", !.creds = creds])

RestartClosed ==
  /\ Running({"restart"}, "closing")
  /\ IF Current(op) /\ auth.mem # NoCredentials
     THEN /\ mgr' = Configuring(op, op.creds)
          /\ UNCHANGED <<comms, made, caller, auth, alive, hist>>
     ELSE Rejects(hist)

\* The store answers with what it held when asked or holds now; an empty one is
\* filled with new credentials.
LoadCredentials ==
  /\ Running({"connect"}, "loading")
  /\ \/ /\ \E found \in {op.creds, auth.store} :
             LET fresh == found = NoCredentials
                 creds == IF fresh THEN [found EXCEPT !.epoch = hist.epochs + 1] ELSE found
                 h == IF fresh THEN [hist EXCEPT !.epochs = @ + 1] ELSE hist
             IN /\ auth' = [auth EXCEPT !.mem = creds, !.store = IF fresh THEN creds ELSE @]
                /\ IF Current(op)
                   THEN mgr' = Configuring(op, creds) /\ hist' = h /\ UNCHANGED caller
                   ELSE mgr' = Ended(mgr) /\ caller' = Waking /\ hist' = Rejected(h)
        /\ UNCHANGED <<comms, made, alive>>
     \/ Fault /\ Rejects(Failed)

\* What a connect does about an attempt that failed: once more without routing
\* info, if that was not it already.
Recovers(h) ==
  IF ~Current(op) \/ op.kind = "restart" \/ op.again
  THEN Rejects(h)
  ELSE /\ mgr' = Putting(Disconnecting(mgr), [op EXCEPT !.at = "cleaning"])
       /\ comms' = Stop({mgr.comms, mgr.pending}) /\ alive' = "off" /\ hist' = h
       /\ UNCHANGED <<made, caller, auth>>

\* buildCommsConfig rejects: the application's version resolver does, or names a
\* version that is not valid.
ConfigFails ==
  /\ Running({"connect", "restart"}, "configuring")
  /\ Fault /\ Recovers(Failed)

CreateComms ==
  /\ Running({"connect", "restart"}, "configuring")
  /\ \E i \in Ids :
       /\ comms[i].phase = "new" /\ \A j \in Ids : comms[j].phase = "new" => i <= j
       /\ comms' = [comms EXCEPT ![i] = Started(@)]
       /\ made' = [made EXCEPT ![i] = op.creds]
       /\ mgr' = Putting([mgr EXCEPT !.pending = i], [op EXCEPT !.at = "waiting", !.comms = i])
  /\ UNCHANGED <<caller, auth, alive, hist>>

Succeeds(m) == mgr' = Ended(m) /\ caller' = Waking /\ hist' = Telling(hist, "open")
\* Faulty variant of StartFails: lets go of the comms without stopping them.
StartFailsRunning(m, h) ==
  /\ mgr' = Putting(Unbound(IF m.pending = op.comms THEN [m EXCEPT !.pending = None] ELSE m,
                            op.comms),
                    [op EXCEPT !.at = "failing"])
  /\ hist' = h /\ UNCHANGED <<comms, made, caller, auth, alive>>

StartFails(m, h) ==
  /\ mgr' = Putting(Unbound(IF m.pending = op.comms THEN [m EXCEPT !.pending = None] ELSE m,
                            op.comms),
                    [op EXCEPT !.at = "failing"])
  /\ comms' = Stop({op.comms}) /\ hist' = h
  /\ UNCHANGED <<made, caller, auth, alive>>

AdoptComms ==
  /\ Running({"connect", "restart"}, "waiting") /\ comms[op.comms].waiter # "waiting"
  /\ IF comms[op.comms].waiter = "resolved" /\ Current(op) /\ mgr.pending = op.comms
     THEN LET m == [mgr EXCEPT !.comms = op.comms, !.pending = None]
          IN /\ IF op.creds.registered
                THEN /\ alive' = "scheduled"
                     /\ mgr' = Putting(m, [op EXCEPT !.at = "persisting"])
                     /\ UNCHANGED <<caller, hist>>
                ELSE alive' = "off" /\ Succeeds(m)
             /\ UNCHANGED <<comms, made, auth>>
     ELSE StartFails(mgr, hist)

\* The save may come after a wipe, whose credentials it brings back.
PersistServerKey ==
  /\ Running({"connect", "restart"}, "persisting")
  /\ \/ /\ Current(op) /\ Succeeds(mgr)
        /\ auth' = [auth EXCEPT !.store = op.creds] /\ UNCHANGED <<comms, made, alive>>
     \/ ~Current(op) /\ StartFails(mgr, hist)
     \/ Current(op) /\ auth.mem = NoCredentials /\ StartFails(mgr, hist)
     \/ Current(op) /\ Fault /\ StartFails(mgr, Failed)

StartFailed ==
  /\ Running({"connect", "restart"}, "failing")
  /\ Recovers(hist)

ClearRoutingInfo ==
  /\ Running({"connect"}, "cleaning")
  /\ IF Current(op) /\ op.creds.routing /\ auth.mem # NoCredentials
     THEN LET creds == [auth.mem EXCEPT !.routing = FALSE]
          IN /\ mgr' = Putting(mgr, [op EXCEPT !.at = "unrouting", !.creds = creds])
             /\ auth' = [auth EXCEPT !.mem = creds]
             /\ UNCHANGED <<comms, made, caller, alive, hist>>
     ELSE Rejects(hist)

RetryWithoutRouting ==
  /\ Running({"connect"}, "unrouting")
  /\ \/ /\ auth' = [auth EXCEPT !.store = op.creds]
        /\ IF Current(op) /\ auth.mem # NoCredentials
           THEN /\ mgr' = Configuring([op EXCEPT !.again = TRUE], op.creds)
                /\ UNCHANGED <<caller, hist>>
           ELSE mgr' = Ended(mgr) /\ caller' = Waking /\ hist' = Rejected(hist)
        /\ UNCHANGED <<comms, made, alive>>
     \/ Fault /\ Rejects(Failed)

-----------------------------------------------------------------------------
(* Stream errors and failure stanzas.                                      *)

\* What is left to do after the disconnect.
Clears(kind) == kind \in {"force logout", "device removed", "failure logout"}
Connects(kind) == kind \in {"force login", "force logout"}

\* The comms stop at once; a stream error that finds another at work joins it,
\* and its own action never runs.
Handle(p, kind) ==
  /\ mgr.comms # None /\ comms[mgr.comms].phase = "up"
  /\ hist.fatal < MaxFatal
  /\ LET h == [hist EXCEPT !.fatal = @ + 1]
         stops == IF caller[p].at = "idle" THEN {mgr.comms, mgr.pending} ELSE {mgr.comms}
     IN /\ comms' = Stop(stops)
        /\ IF caller[p].at = "idle"
           THEN /\ caller' = [caller EXCEPT ![p] = [at |-> "disconnecting",
                                                    clears |-> Clears(kind),
                                                    connects |-> Connects(kind)]]
                /\ mgr' = Disconnected(mgr, p) /\ hist' = h
           ELSE /\ hist' = Lapsing(h, "joined", TRUE) /\ UNCHANGED <<caller, mgr>>
  /\ UNCHANGED <<made, auth, alive>>

StreamError ==
  /\ ~Urgent
  /\ \E kind \in {"replaced", "force logout", "device removed"} : Handle("stream", kind)

\* The server asks to log in again, which a pairing restart claims.
ForceLogin ==
  /\ ~Urgent
  /\ IF mgr.timer \/ Queued("restart")
     THEN /\ mgr.comms # None /\ comms[mgr.comms].phase = "up"
          /\ mgr' = StartPairRestart(mgr)
          /\ UNCHANGED <<comms, made, caller, auth, alive, hist>>
     ELSE Handle("stream", "force login")

FailureStanza ==
  /\ ~Urgent /\ caller["failure"].at = "idle"
  /\ \E kind \in {"failure", "failure logout"} : Handle("failure", kind)

\* A notice that the account's own primary device changed its identity ends it too.
IdentityChange ==
  /\ ~Urgent /\ caller["identity"].at = "idle" /\ auth.mem.registered
  /\ Handle("identity", "failure logout")

\* What does not end it resumes the socket.
Resume ==
  /\ ~Urgent /\ mgr.comms # None
  /\ alive = "sent" \/ comms[mgr.comms].phase = "up"
  /\ comms' = [comms EXCEPT ![mgr.comms] = Resumed(@)]
  /\ alive' = IF alive = "sent" THEN "scheduled" ELSE alive
  /\ UNCHANGED <<made, mgr, caller, auth, hist>>

GoOn(p) ==
  /\ ~Answered /\ caller[p].at = "returned"
  /\ LET c == caller[p]
     IN /\ caller' = [caller EXCEPT ![p] =
                        CASE c.clears -> [c EXCEPT !.at = "draining"]
                          [] ~c.clears /\ c.connects -> [Idle EXCEPT !.at = "connecting"]
                          [] OTHER -> Idle]
        /\ mgr' = IF ~c.clears /\ c.connects THEN Connecting(mgr) ELSE mgr
  /\ UNCHANGED <<comms, made, auth, alive, hist>>

\* A logout while the client is connecting or connected again is not provided for.
Overlaps(h) == Lapsing(h, "logged out", mgr.queue # <<>> \/ mgr.comms # None)

\* clearStoredState: the write-behind drains, then the credentials go.
Drained(p) ==
  /\ ~Urgent /\ caller[p].at = "draining"
  /\ \/ /\ caller' = [caller EXCEPT ![p].at = "wiping"]
        /\ auth' = [auth EXCEPT !.mem = NoCredentials] /\ hist' = Overlaps(hist)
     \/ Fault /\ caller' = [caller EXCEPT ![p] = Idle] /\ hist' = Failed /\ UNCHANGED auth
  /\ UNCHANGED <<comms, made, mgr, alive>>

Wiped(p) ==
  /\ ~Urgent /\ caller[p].at = "wiping"
  /\ \/ /\ caller' = [caller EXCEPT ![p].at = "returned", ![p].clears = FALSE]
        /\ auth' = [auth EXCEPT !.store = NoCredentials] /\ hist' = Overlaps(hist)
     \/ Fault /\ caller' = [caller EXCEPT ![p] = Idle] /\ hist' = Failed /\ UNCHANGED auth
  /\ UNCHANGED <<comms, made, mgr, alive>>

-----------------------------------------------------------------------------
(* Pairing.                                                                *)

\* updateCredentials: in memory at once, and the save is awaited.
PairSuccess ==
  /\ ~Urgent /\ hist.pairings < MaxPairings
  /\ mgr.comms # None /\ comms[mgr.comms].phase = "up"
  /\ auth.mem # NoCredentials /\ ~auth.mem.registered /\ ~auth.pairing
  /\ LET creds == [auth.mem EXCEPT !.registered = TRUE]
     IN auth' = [auth EXCEPT !.mem = creds, !.saving = creds, !.pairing = TRUE]
  /\ hist' = [hist EXCEPT !.pairings = @ + 1]
  /\ UNCHANGED <<comms, made, mgr, caller, alive>>

\* A save that fails ends the pairing: nothing is answered or restarted.
PairSaved ==
  /\ ~Urgent /\ auth.saving # NoCredentials
  /\ \/ /\ auth' = [auth EXCEPT !.store = auth.saving, !.saving = NoCredentials]
        /\ UNCHANGED hist
     \/ /\ Fault /\ hist' = Lapsing(Failed, "unsaved", TRUE)
        /\ auth' = [auth EXCEPT !.saving = NoCredentials, !.pairing = FALSE]
  /\ UNCHANGED <<comms, made, mgr, caller, alive>>

\* Faulty variant of Paired: counts on the server to close, without the timer
\* that also marks the restart as awaited.
PairedWithoutTimer ==
  /\ ~Urgent /\ auth.pairing /\ auth.saving = NoCredentials
  /\ auth' = [auth EXCEPT !.pairing = FALSE]
  /\ IF mgr.comms # None /\ comms[mgr.comms].phase = "up"
     THEN comms' = [comms EXCEPT ![mgr.comms] = Held(@)] /\ UNCHANGED hist
     ELSE hist' = Lapsing(hist, "unconfirmed", TRUE) /\ UNCHANGED comms
  /\ UNCHANGED <<made, mgr, caller, alive>>

\* awaitServerRestartAfterPairing, unless the answer cannot be sent.
Paired ==
  /\ ~Urgent /\ auth.pairing /\ auth.saving = NoCredentials
  /\ auth' = [auth EXCEPT !.pairing = FALSE]
  /\ IF mgr.comms # None /\ comms[mgr.comms].phase = "up"
     THEN /\ mgr' = [mgr EXCEPT !.timer = TRUE]
          /\ comms' = [comms EXCEPT ![mgr.comms] = Held(@)]
          /\ UNCHANGED hist
     ELSE hist' = Lapsing(hist, "unconfirmed", TRUE) /\ UNCHANGED <<mgr, comms>>
  /\ UNCHANGED <<made, caller, alive>>

RestartTimerFires ==
  /\ ~Urgent /\ mgr.timer
  /\ mgr' = StartPairRestart(mgr)
  /\ UNCHANGED <<comms, made, caller, auth, alive, hist>>

-----------------------------------------------------------------------------
(* What the comms do by themselves, and the keep-alive.                    *)

CommsComeUp(i) ==
  /\ ~Urgent /\ comms[i].phase = "opening"
  /\ comms' = [comms EXCEPT ![i] = CameUp(@)]
  /\ UNCHANGED <<made, mgr, caller, auth, alive, hist>>

\* A close that is held for the server's restart starts it.
CommsClose(i) ==
  /\ ~Urgent /\ comms[i].phase \in {"opening", "up"}
  /\ comms' = [comms EXCEPT ![i] = Closed(@)]
  /\ mgr' = IF comms[i].hold THEN StartPairRestart(mgr) ELSE mgr
  /\ UNCHANGED <<made, caller, auth, alive, hist>>

CommsGiveUp(i) ==
  /\ ~Urgent /\ comms[i].phase = "opening" /\ Fault
  /\ \E s \in {GaveUp(comms[i]), TimedOut(comms[i])} :
       /\ s # comms[i]
       /\ comms' = [comms EXCEPT ![i] = s]
       /\ hist' = Lapsing(Failed, "gave up", s.phase = "gone" /\ i = mgr.comms)
  /\ UNCHANGED <<made, mgr, caller, auth, alive>>

Ping ==
  /\ ~Urgent /\ alive = "scheduled"
  /\ mgr.comms # None /\ comms[mgr.comms].phase = "up"
  /\ alive' = "sent"
  /\ UNCHANGED <<comms, made, mgr, caller, auth, hist>>

Pong ==
  /\ ~Urgent /\ alive = "sent" /\ mgr.comms # None /\ comms[mgr.comms].phase = "up"
  /\ alive' = "scheduled"
  /\ UNCHANGED <<comms, made, mgr, caller, auth, hist>>

-----------------------------------------------------------------------------
Operate == \/ BeginConnect \/ BeginDisconnect \/ BeginRestart \/ AdoptComms
           \/ ~Urgent /\ (\/ DisconnectEnds \/ RestartClosed \/ LoadCredentials
                          \/ ConfigFails \/ CreateComms \/ PersistServerKey \/ StartFailed
                          \/ ClearRoutingInfo \/ RetryWithoutRouting)
Server == \/ StreamError \/ ForceLogin \/ FailureStanza \/ IdentityChange \/ Resume
          \/ PairSuccess
Own == PairSaved \/ Paired \/ RestartTimerFires \/ Ping \/ Pong

Next == \/ Connect \/ Disconnect \/ Operate \/ Server \/ Own
        \/ \E p \in Handlers : GoOn(p) \/ Drained(p) \/ Wiped(p)
        \/ \E i \in Ids : CommsComeUp(i) \/ CommsClose(i) \/ CommsGiveUp(i)
Spec == Init /\ [][Next]_vars

-----------------------------------------------------------------------------
(* Properties.                                                             *)

Live(i) == i \in Ids /\ comms[i].phase \in {"opening", "up"}

\* Nothing is under way that may still change who is connected.
Quiet == /\ mgr.queue = <<>> /\ ~mgr.timer /\ ~auth.pairing /\ ~Urgent
         /\ \A p \in Handlers : caller[p] = Idle

(* Whatever await a connect, a restart or their retry is superseded in, no  *)
(* comms are left running that the manager does not hold, and an account    *)
(* never has two.                                                           *)
OneConnection ==
  \A i, j \in Ids : Live(i) /\ Live(j) => i = j /\ i \in {mgr.comms, mgr.pending}

(* Once nothing is under way, a client that last reported its connection    *)
(* closed has none left, whatever a disconnect superseded and whatever was  *)
(* queued before or after it, and one that reported it open has comms that  *)
(* are up or trying.  The exceptions are those of which nobody is told:     *)
(* comms that reached their limit, a pairing restart that failed, a stream  *)
(* error that stopped the comms and joined the handling of another.         *)
SilentlyDown == hist.lapses \cap {"gave up", "restart failed", "joined"} # {}
ApplicationKnows ==
  Quiet => /\ hist.told \in {"closed", "failed"} => \A i \in Ids : ~Live(i)
           /\ hist.told = "open" => Live(mgr.comms) \/ SilentlyDown

(* Once nothing is under way, the connection was made with the credentials  *)
(* in use, before and after pairing, logout and retries without routing,    *)
(* unless a connect during a logout worked with what was being wiped.  A    *)
(* connection is left as of before the pairing only by a pairing that did   *)
(* not come to its restart: its credentials could not be saved, its answer  *)
(* could not be sent, or a retry without routing info had dropped the frame *)
(* handler, without which the restart fails.                                *)
Unfinished == hist.lapses \cap {"unsaved", "unconfirmed", "no handler"} # {}
CurrentCredentials ==
  Quiet /\ Live(mgr.comms) /\ "logged out" \notin hist.lapses =>
    /\ made[mgr.comms].epoch = auth.mem.epoch
    /\ made[mgr.comms].registered => auth.mem.registered
    /\ auth.mem.registered => made[mgr.comms].registered \/ Unfinished

(* A registered connection is always watched by the keep-alive, across      *)
(* starts and stops in any order, and once nothing is under way nothing     *)
(* else is.  Excepted: a pairing restart that fails after it started the    *)
(* keep-alive leaves it to go on by itself, until a connect that succeeds   *)
(* or a disconnect.                                                         *)
KeepAliveWatches ==
  LET watched == mgr.comms # None /\ made[mgr.comms].registered
  IN /\ watched => alive # "off"
     /\ Quiet /\ alive # "off" =>
          watched \/ "restart failed" \in hist.lapses \/ hist.told = "failed"

(* The stream error, the close of the socket and the timer that all follow  *)
(* one pairing restart the connection once.                                 *)
RestartsOnce == hist.restarts <= hist.pairings
=============================================================================
